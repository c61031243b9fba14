------------------------- MODULE MCManagedExchange -------------------------
(***************************************************************************)
(* Bounds for model checking ManagedExchange with two devices, 1 and 2.    *)
(***************************************************************************)
EXTENDS ManagedExchange

Scope(writers, apps, slots, counter, incarnations) ==
  [writers |-> writers, apps |-> apps, slots |-> slots, counter |-> counter,
   incarnations |-> incarnations]

\* One device edits twice, and the other's application acknowledges late.
Receipts == Scope({1}, {2}, {1}, 2, 1)

\* Both devices edit twice.
Editing == Scope({1, 2}, {}, {1}, 2, 1)

\* Two exchanges at once, in the same or in opposite directions.
Crossing == Scope({1, 2}, {}, {1, 2}, 1, 1)

\* A removal and a repair around an exchange and an acknowledgement.
Repairing == Scope({1, 2}, {2}, {1}, 1, 4)

SafetyScopes == {Receipts, Editing, Crossing, Repairing}

\* One connection at a time, everybody edits and one application listens.
SettlingScopes == {Scope({1, 2}, {2}, {1}, 1, 1)}

\* As Repairing, but only one device edits.
RecoveringScopes == {Scope({1}, {2}, {1}, 1, 4)}

\* Two exchanges at once and an application that listens.
OverlappingScopes == {Scope({1}, {2}, {1, 2}, 2, 1)}
=============================================================================
