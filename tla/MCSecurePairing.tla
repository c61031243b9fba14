-------------------------- MODULE MCSecurePairing --------------------------
(***************************************************************************)
(* Bounds for model checking SecurePairing.                                *)
(***************************************************************************)
EXTENDS SecurePairing, TLC

\* Devices and invitations are interchangeable in the runs of safety.
Symmetry == Permutations(Device) \cup Permutations(Invitation)

Scope(d, h, i, a, f, c, r) ==
  [devices |-> d, inviters |-> h, invitations |-> i, attempts |-> a, faults |-> f, calls |-> c,
   repairs |-> r]

\* Two devices invite each other; something breaks, a user removes or shuts down.
Faulty == Scope(2, 2, 2, 2, 1, 1, FALSE)

\* Three devices join and invite at the same time.
Groups == Scope(3, 3, 2, 1, 0, 1, FALSE)

\* Two devices contend for the invitation of a third, with retries and faults.
Contended == Scope(3, 3, 1, 2, 2, 1, FALSE)

\* Two devices remove and repair each other; every repair is a removal, too.
Removing == Scope(2, 2, 2, 1, 0, 1, TRUE)

\* Users remove a peer even while it is being repaired; one device invites.
RemovedAgain == Scope(2, 1, 2, 1, 0, 2, TRUE)

SafetyScopes == {Faulty, Groups, Contended, Removing, RemovedAgain}

\* Two devices invite each other at once, and nothing goes wrong.
CrossedScopes == {Scope(2, 2, 2, 1, 0, 0, FALSE)}

\* Repairs without faults, each invitation for one attempt.
RepairingScopes == {Scope(2, 2, 3, 1, 0, 1, TRUE)}
=============================================================================
