---------------------------- MODULE MCDeltaSync ----------------------------
(***************************************************************************)
(* Bounds for model checking DeltaSync with three devices, 3 of which      *)
(* speaks protocol 1 only.                                                 *)
(***************************************************************************)
EXTENDS DeltaSync

\* Versions are relayed between the three, one exchange at a time ...
Mesh ==
  /\ \A n \in Node : counter[n] <= 1
  /\ \A s \in Slot : conn[s] # Idle => s = 1

\* ... or two devices edit more often, with crossing or repeated exchanges.
Pair ==
  /\ \A k \in Key : held[3][k] = Absent
  /\ \A s \in Slot : 3 \notin {conn[s].client, conn[s].listener}
  /\ epoch[2] = 1

\* The state of the device that speaks protocol 1 only is not recreated.
Scope == epoch[3] = 1 /\ (Mesh \/ Pair)
=============================================================================
