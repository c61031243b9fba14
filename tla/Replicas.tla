------------------------------ MODULE Replicas ------------------------------
(***************************************************************************)
(* What the replicated state promises an application under last-writer-    *)
(* wins, with nothing said of cursors, deltas, epochs or connections: each *)
(* device keeps one register per key, registers only ever move to later    *)
(* versions, and what a device learns was sent by a device that held it.   *)
(* DeltaSync implements this.                                              *)
(***************************************************************************)
EXTENDS Integers

CONSTANTS Node, Key, Version, Absent

VARIABLES held,  \* held[n][k]: the version of k that n shows
          air    \* air[k]: the versions of k on their way between devices

vars == <<held, air>>

Earlier(v, w) ==
  v.clock[1] < w.clock[1] \/ (v.clock[1] = w.clock[1] /\ v.clock[2] < w.clock[2])

Init ==
  /\ held = [n \in Node |-> [k \in Key |-> Absent]]
  /\ air = [k \in Key |-> {}]

\* Devices send what they hold, and what was sent may be lost.
Travels == \A k \in Key : air'[k] \subseteq air[k] \cup {held[n][k] : n \in Node}

\* Only what n holds, of the keys in ks, becomes something else.
OnlyAt(n, ks) ==
  held' = [held EXCEPT ![n] = [k \in Key |-> IF k \in ks THEN held'[n][k] ELSE @[k]]]

\* A local write supersedes whatever its device holds of any key.
Write(n, k) ==
  /\ OnlyAt(n, {k})
  /\ held'[n][k] \in Version
  /\ held'[n][k].clock[2] = n
  /\ \A j \in Key : Earlier(held[n][j], held'[n][k])
  /\ UNCHANGED air

\* Of the versions on their way some arrive at n; the later ones stay.
Learn(n) ==
  /\ OnlyAt(n, Key)
  /\ \A k \in Key : held'[n][k] # held[n][k] =>
       held'[n][k] \in air[k] /\ Earlier(held[n][k], held'[n][k])
  /\ Travels

Send == Travels /\ UNCHANGED held

\* A device loses its state.
Lose(n) == OnlyAt(n, Key) /\ held'[n] = [k \in Key |-> Absent] /\ UNCHANGED air

Next ==
  \/ \E n \in Node : Learn(n) \/ Lose(n) \/ \E k \in Key : Write(n, k)
  \/ Send

Spec == Init /\ [][Next]_vars
=============================================================================
