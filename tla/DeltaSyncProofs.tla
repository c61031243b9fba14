--------------------------- MODULE DeltaSyncProofs ---------------------------
(***************************************************************************)
(* Proofs about DeltaSync, for every set of devices, keys, fields and      *)
(* connections and every bound.                                            *)
(***************************************************************************)
EXTENDS DeltaSync, FiniteSetTheorems, TLAPS

-----------------------------------------------------------------------------
(* Versions *)

\* The clock order is total and transitive.
LEMMA LessOrder ==
  /\ \A x \in Clock : ~Less(x, x)
  /\ \A x, y \in Clock : Less(x, y) => ~Less(y, x)
  /\ \A x, y, z \in Clock : ~Less(x, y) /\ ~Less(y, z) => ~Less(x, z)
BY DEF Less, Clock

\* Covers is a preorder on versions, and Absent is below everything.
LEMMA CoversReflexive == \A a \in Version : Covers(a, a)
BY LessOrder DEF Version, Covers

LEMMA CoversTransitive ==
  \A a, b, c \in Version : Covers(a, b) /\ Covers(b, c) => Covers(a, c)
<1> SUFFICES ASSUME NEW a \in Version, NEW b \in Version, NEW c \in Version,
                    Covers(a, b), Covers(b, c)
             PROVE  Covers(a, c)
  OBVIOUS
<1>1. ~Less(a.clock, c.clock)
  BY LessOrder DEF Version, Covers
<1>2. ASSUME Applier = "logical", NEW f \in Field
      PROVE  ~Less(a.fields[f], c.fields[f])
  <2>1. a.fields[f] \in Clock /\ b.fields[f] \in Clock /\ c.fields[f] \in Clock
    BY DEF Version
  <2>2. ~Less(a.fields[f], b.fields[f]) /\ ~Less(b.fields[f], c.fields[f])
    BY <1>2 DEF Covers
  <2>3. QED
    BY <2>1, <2>2, LessOrder
<1>3. QED
  BY <1>1, <1>2 DEF Covers

LEMMA AbsentType == Absent \in Version
BY DEF Absent, Version, Clock, NoClock

LEMMA CoversAbsent == \A a \in Version : Covers(a, Absent)
BY DEF Version, Clock, Covers, Less, Absent, NoClock

LEMMA LaterType == \A a, b \in Clock : Later(a, b) \in {a, b}
BY DEF Later

\* Merge (apply_entry, merge_records) returns a version that says everything
\* both of its arguments say, under either applier.
LEMMA MergeType == \A a, b \in Version : Merge(a, b) \in Version
<1> SUFFICES ASSUME NEW a \in Version, NEW b \in Version
             PROVE  Merge(a, b) \in Version
  OBVIOUS
<1>1. \A f \in Field : Later(a.fields[f], b.fields[f]) \in Clock
  BY LaterType DEF Version
<1>2. Later(a.clock, b.clock) \in Clock
  BY LaterType DEF Version
<1>3. QED
  BY <1>1, <1>2 DEF Merge, Version

LEMMA MergeCovers ==
  \A a, b \in Version : Covers(Merge(a, b), a) /\ Covers(Merge(a, b), b)
<1> SUFFICES ASSUME NEW a \in Version, NEW b \in Version
             PROVE  Covers(Merge(a, b), a) /\ Covers(Merge(a, b), b)
  OBVIOUS
<1>1. \A x, y \in Clock : ~Less(Later(x, y), x) /\ ~Less(Later(x, y), y)
  BY LessOrder DEF Later
<1>2. CASE Applier = "lww"
  BY LessOrder, <1>2 DEF Merge, Covers, Version
<1>3. CASE Applier = "logical"
  <2>1. \A f \in Field : /\ ~Less(Later(a.fields[f], b.fields[f]), a.fields[f])
                         /\ ~Less(Later(a.fields[f], b.fields[f]), b.fields[f])
    BY <1>1 DEF Version
  <2>2. /\ ~Less(Later(a.clock, b.clock), a.clock)
        /\ ~Less(Later(a.clock, b.clock), b.clock)
    BY <1>1 DEF Version
  <2>3. QED
    BY <1>3, <2>1, <2>2 DEF Merge, Covers
<1>4. QED
  BY <1>2, <1>3, ConstantsOK

\* Last-writer-wins either keeps the version held or stores the inbound one.
LEMMA MergeLww ==
  ASSUME Applier = "lww"
  PROVE  \A a, b : Merge(a, b) \in {a, b}
BY DEF Merge

-----------------------------------------------------------------------------
(* Typing *)

\* The positions RecordWrites hands out are numbers after the old sequence
\* and up to the new one.
LEMMA Ranks ==
  ASSUME NEW changed \in SUBSET Key
  PROVE  /\ Cardinality(changed) \in Nat
         /\ \A k \in changed :
              /\ Cardinality({j \in changed : j <= k}) \in Nat
              /\ Cardinality({j \in changed : j <= k}) >= 1
              /\ Cardinality({j \in changed : j <= k}) <= Cardinality(changed)
<1>1. IsFiniteSet(changed)
  BY FS_Subset, ConstantsOK
<1>2. Cardinality(changed) \in Nat
  BY <1>1, FS_CardinalityType
<1>3. ASSUME NEW k \in changed
      PROVE  LET below == {j \in changed : j <= k}
             IN  /\ Cardinality(below) \in Nat
                 /\ Cardinality(below) >= 1
                 /\ Cardinality(below) <= Cardinality(changed)
  <2> DEFINE below == {j \in changed : j <= k}
  <2>1. below \subseteq changed
    OBVIOUS
  <2>2. IsFiniteSet(below) /\ Cardinality(below) <= Cardinality(changed)
    BY <1>1, <2>1, FS_Subset
  <2>3. k \in below
    BY ConstantsOK
  <2>4. Cardinality(below) \in Nat
    BY <2>2, FS_CardinalityType
  <2>5. Cardinality(below) # 0
    BY <2>2, <2>3, FS_EmptySet
  <2>6. QED
    BY <2>2, <2>4, <2>5
<1>4. QED
  BY <1>2, <1>3

LEMMA RecordWritesType ==
  ASSUME TypeOK, NEW n \in Node, NEW changed \in SUBSET Key, NEW from \in Nat,
         RecordWrites(n, changed, from)
  PROVE  /\ seq' \in [Node -> Nat]
         /\ seqOf' \in [Node -> [Key -> Nat]]
         /\ origin' \in [Node -> [Key -> Nat]]
<1>1. \A k \in changed : Cardinality({j \in changed : j <= k}) \in Nat
  BY Ranks
<1>2. Cardinality(changed) \in Nat
  BY Ranks
<1>3. [k \in Key |-> IF k \in changed
                     THEN seq[n] + Cardinality({j \in changed : j <= k})
                     ELSE seqOf[n][k]] \in [Key -> Nat]
  BY <1>1 DEF TypeOK
<1>4. seqOf' \in [Node -> [Key -> Nat]]
  BY <1>3 DEF TypeOK, RecordWrites
<1>5. seq' \in [Node -> Nat]
  BY <1>2 DEF TypeOK, RecordWrites
<1>6. origin' \in [Node -> [Key -> Nat]]
  BY DEF TypeOK, RecordWrites
<1>7. QED
  BY <1>4, <1>5, <1>6

LEMMA ApplyInboundType ==
  ASSUME TypeOK, NEW n \in Node, NEW from \in Nat, NEW batch \in [Key -> Version],
         ApplyInbound(n, from, batch)
  PROVE  /\ counter' \in [Node -> Nat]
         /\ held' \in [Node -> [Key -> Version]]
         /\ seq' \in [Node -> Nat]
         /\ seqOf' \in [Node -> [Key -> Nat]]
         /\ origin' \in [Node -> [Key -> Nat]]
<1>1. MergedWith(n, batch) \in [Key -> Version]
  BY MergeType DEF MergedWith, TypeOK
<1>2. held' \in [Node -> [Key -> Version]]
  BY <1>1 DEF ApplyInbound, TypeOK
<1>3. counter' \in [Node -> Nat]
  BY ConstantsOK DEF ApplyInbound, RaiseCounter, TypeOK
<1>4. ChangedBy(n, batch) \in SUBSET Key
  BY DEF ChangedBy
<1>5. RecordWrites(n, ChangedBy(n, batch), from)
  BY DEF ApplyInbound
<1>6. QED
  BY <1>2, <1>3, <1>4, <1>5, RecordWritesType

LEMMA DeltaType ==
  ASSUME TypeOK, NEW n \in Node, NEW since, NEW peer
  PROVE  Delta(n, since, peer) \in [Key -> Version]
BY AbsentType DEF Delta, TypeOK

LEMMA IdleType == Idle \in Connection /\ Nothing \in [Key -> Version]
BY AbsentType DEF Idle, Connection, Phase, Cursor, NoCursor, Nothing

LEMMA CursorType ==
  ASSUME TypeOK, NEW n \in Node
  PROVE  CurrentCursor(n) \in Cursor
BY DEF CurrentCursor, Cursor, TypeOK

\* The connection table stays typed when one slot gets a typed connection.
LEMMA ConnType ==
  ASSUME TypeOK, NEW s \in Slot, NEW x \in Connection,
         x.phase # "idle" => x.client \in Node /\ x.listener \in Node,
         conn' = [conn EXCEPT ![s] = x]
  PROVE  /\ conn' \in [Slot -> Connection]
         /\ \A r \in Slot : conn'[r].phase # "idle" =>
              conn'[r].client \in Node /\ conn'[r].listener \in Node
BY DEF TypeOK

LEMMA TypeInit == Init => TypeOK
<1> SUFFICES ASSUME Init PROVE TypeOK
  OBVIOUS
<1>1. conn \in [Slot -> Connection]
  BY IdleType DEF Init
<1>2. held \in [Node -> [Key -> Version]]
  BY IdleType DEF Init
<1>3. \A s \in Slot : conn[s].phase = "idle"
  BY DEF Init, Idle
<1>4. QED
  BY <1>1, <1>2, <1>3 DEF Init, TypeOK, Cursor, NoCursor

LEMMA TypeStep == TypeOK /\ [Next]_vars => TypeOK'
<1> SUFFICES ASSUME TypeOK, [Next]_vars PROVE TypeOK'
  OBVIOUS
<1> USE DEF state
<1>0. \A s \in Slot : conn[s] \in Connection
  BY DEF TypeOK
<1>1. ASSUME NEW n \in Node, NEW k \in Key, NEW changed \in SUBSET Field,
             Set(n, k, changed)
      PROVE  TypeOK'
  <2> DEFINE now == <<counter[n] + 1, n, epoch[n]>>
             new == [clock |-> now,
                     fields |-> [f \in Field |-> IF f \in changed
                                   THEN now ELSE held[n][k].fields[f]]]
  <2>1. now \in Clock
    BY ConstantsOK DEF TypeOK, Clock
  <2>2. held[n][k] \in Version
    BY DEF TypeOK
  <2>3. new \in Version
    BY <2>1, <2>2 DEF Version
  <2>4. held' = [held EXCEPT ![n][k] = new]
    BY <1>1 DEF Set
  <2>5. held' \in [Node -> [Key -> Version]]
    BY <2>3, <2>4 DEF TypeOK
  <2>6. RecordWrites(n, {k}, 0)
    BY <1>1 DEF Set
  <2>7. counter' \in [Node -> Nat]
    BY <1>1 DEF Set, TypeOK
  <2>8. /\ seq' \in [Node -> Nat] /\ seqOf' \in [Node -> [Key -> Nat]]
        /\ origin' \in [Node -> [Key -> Nat]]
    BY <2>6, RecordWritesType
  <2>9. UNCHANGED <<cursor, epoch, conn>>
    BY <1>1 DEF Set
  <2>10. QED
    BY <2>5, <2>7, <2>8, <2>9 DEF TypeOK
<1>2. ASSUME NEW n \in Node, ResetPeerCursors(n) PROVE TypeOK'
  BY <1>2 DEF ResetPeerCursors, TypeOK, Cursor, NoCursor
<1>3. ASSUME NEW n \in Node, Recreate(n) PROVE TypeOK'
  BY <1>3, IdleType DEF Recreate, TypeOK, Cursor, NoCursor
<1>4. ASSUME NEW s \in Slot, NEW c \in Node, NEW l \in Node, SendSince(s, c, l)
      PROVE  TypeOK'
  <2> DEFINE x == [Idle EXCEPT !.phase = "since", !.client = c,
                               !.listener = l, !.cursor = cursor[c][l]]
  <2>1. cursor[c][l] \in Cursor /\ c \in Nat /\ l \in Nat
    BY ConstantsOK DEF TypeOK
  <2>2. x \in Connection
    BY <2>1, IdleType DEF Connection, Phase
  <2>3. x.client \in Node /\ x.listener \in Node
    BY DEF Idle
  <2>4. conn' = [conn EXCEPT ![s] = x]
    BY <1>4 DEF SendSince
  <2>5. QED
    BY <1>4, <2>2, <2>3, <2>4, ConnType DEF SendSince, TypeOK
<1>5. ASSUME NEW s \in Slot, ListenerExport(s) PROVE TypeOK'
  <2> DEFINE c == conn[s].client
             l == conn[s].listener
             x == [conn[s] EXCEPT !.phase = "delta",
                     !.cursor = CurrentCursor(l),
                     !.acked = cursor[l][c],
                     !.batch = Delta(l, Resolve(l, conn[s].cursor), c)]
  <2>1. c \in Node /\ l \in Node
    BY <1>5 DEF ListenerExport, TypeOK
  <2>2. CurrentCursor(l) \in Cursor /\ cursor[l][c] \in Cursor
    BY <2>1, CursorType DEF TypeOK
  <2>3. Delta(l, Resolve(l, conn[s].cursor), c) \in [Key -> Version]
    BY <2>1, DeltaType
  <2>4. x \in Connection
    BY <1>0, <2>2, <2>3 DEF Connection, Phase
  <2>5. x.client \in Node /\ x.listener \in Node
    BY <1>0, <2>1 DEF Connection
  <2>6. conn' = [conn EXCEPT ![s] = x]
    BY <1>5 DEF ListenerExport, TypeOK
  <2>7. QED
    BY <1>5, <2>4, <2>5, <2>6, ConnType DEF ListenerExport, TypeOK
<1>6. ASSUME NEW s \in Slot, ClientMerge(s) PROVE TypeOK'
  <2> DEFINE c == conn[s].client
             l == conn[s].listener
             x == [conn[s] EXCEPT !.phase = "merged",
                     !.cursor = CurrentCursor(c),
                     !.acked = NoCursor,
                     !.batch = Delta(c, Resolve(c, conn[s].acked), l)]
  <2>1. c \in Node /\ l \in Node
    BY <1>6 DEF ClientMerge, TypeOK
  <2>2. CurrentCursor(c) \in Cursor /\ NoCursor \in Cursor
    BY <2>1, CursorType DEF NoCursor, Cursor
  <2>3. Delta(c, Resolve(c, conn[s].acked), l) \in [Key -> Version]
    BY <2>1, DeltaType
  <2>4. x \in Connection
    BY <1>0, <2>2, <2>3 DEF Connection, Phase
  <2>5. x.client \in Node /\ x.listener \in Node
    BY <1>0, <2>1 DEF Connection
  <2>6. conn' = [conn EXCEPT ![s] = x]
    BY <1>6 DEF ClientMerge, TypeOK
  <2>7. l \in Nat /\ conn[s].batch \in [Key -> Version] /\ conn[s].cursor \in Cursor
    BY <1>0, <2>1, ConstantsOK DEF Connection
  <2>8. ApplyInbound(c, l, conn[s].batch)
    BY <1>6 DEF ClientMerge
  <2>9. cursor' \in [Node -> [Node -> Cursor]]
    BY <1>6, <2>1, <2>7 DEF ClientMerge, TypeOK
  <2>10. epoch' \in [Node -> Nat]
    BY <1>6 DEF ClientMerge, TypeOK
  <2>11. QED
    BY <2>1, <2>4, <2>5, <2>6, <2>7, <2>8, <2>9, <2>10, ConnType,
       ApplyInboundType DEF TypeOK
<1>7. ASSUME NEW s \in Slot, ListenerMerge(s) PROVE TypeOK'
  <2> DEFINE c == conn[s].client
             l == conn[s].listener
             x == [conn[s] EXCEPT !.phase = "acked", !.cursor = NoCursor,
                                  !.batch = Nothing]
  <2>1. c \in Node /\ l \in Node
    BY <1>7 DEF ListenerMerge, TypeOK
  <2>2. x \in Connection
    BY <1>0, IdleType DEF Connection, Phase, NoCursor, Cursor
  <2>3. x.client \in Node /\ x.listener \in Node
    BY <1>0, <2>1 DEF Connection
  <2>4. conn' = [conn EXCEPT ![s] = x]
    BY <1>7 DEF ListenerMerge, TypeOK
  <2>5. c \in Nat /\ conn[s].batch \in [Key -> Version] /\ conn[s].cursor \in Cursor
    BY <1>0, <2>1, ConstantsOK DEF Connection
  <2>6. ApplyInbound(l, c, conn[s].batch)
    BY <1>7 DEF ListenerMerge
  <2>7. cursor' \in [Node -> [Node -> Cursor]]
    BY <1>7, <2>1, <2>5 DEF ListenerMerge, TypeOK
  <2>8. epoch' \in [Node -> Nat]
    BY <1>7 DEF ListenerMerge, TypeOK
  <2>9. QED
    BY <2>1, <2>2, <2>3, <2>4, <2>5, <2>6, <2>7, <2>8, ConnType,
       ApplyInboundType DEF TypeOK
<1>8. ASSUME NEW s \in Slot, NEW c \in Node, NEW l \in Node, PushSnapshot(s, c, l)
      PROVE  TypeOK'
  <2> DEFINE x == [Idle EXCEPT !.phase = "push", !.client = c,
                               !.listener = l, !.batch = held[c]]
  <2>1. x \in Connection
    BY IdleType, ConstantsOK DEF Connection, Phase, TypeOK
  <2>2. x.client \in Node /\ x.listener \in Node
    BY DEF Idle
  <2>3. conn' = [conn EXCEPT ![s] = x]
    BY <1>8 DEF PushSnapshot
  <2>4. QED
    BY <1>8, <2>1, <2>2, <2>3, ConnType DEF PushSnapshot, TypeOK
<1>9. ASSUME NEW s \in Slot, MergePushed(s) PROVE TypeOK'
  <2> DEFINE c == conn[s].client
             l == conn[s].listener
             x == [conn[s] EXCEPT !.phase = "pushed", !.batch = Nothing]
  <2>1. c \in Node /\ l \in Node
    BY <1>9 DEF MergePushed, TypeOK
  <2>2. x \in Connection
    BY <1>0, IdleType DEF Connection, Phase
  <2>3. x.client \in Node /\ x.listener \in Node
    BY <1>0, <2>1 DEF Connection
  <2>4. conn' = [conn EXCEPT ![s] = x]
    BY <1>9 DEF MergePushed, TypeOK
  <2>5. c \in Nat /\ conn[s].batch \in [Key -> Version]
    BY <1>0, <2>1, ConstantsOK DEF Connection
  <2>6. ApplyInbound(l, c, conn[s].batch)
    BY <1>9 DEF MergePushed
  <2>7. cursor' = cursor /\ epoch' = epoch
    BY <1>9 DEF MergePushed
  <2>8. QED
    BY <2>1, <2>2, <2>3, <2>4, <2>5, <2>6, <2>7, ConnType,
       ApplyInboundType DEF TypeOK
<1>10. ASSUME NEW s \in Slot, RequestSnapshot(s) PROVE TypeOK'
  <2> DEFINE x == [conn[s] EXCEPT !.phase = "request"]
  <2>1. x \in Connection
    BY <1>0 DEF Connection, Phase
  <2>2. x.client \in Node /\ x.listener \in Node
    BY <1>0, <1>10 DEF RequestSnapshot, TypeOK, Connection
  <2>3. conn' = [conn EXCEPT ![s] = x]
    BY <1>10 DEF RequestSnapshot, TypeOK
  <2>4. QED
    BY <1>10, <2>1, <2>2, <2>3, ConnType DEF RequestSnapshot, TypeOK
<1>11. ASSUME NEW s \in Slot, SendSnapshot(s) PROVE TypeOK'
  <2> DEFINE x == [conn[s] EXCEPT !.phase = "snapshot",
                                  !.batch = held[conn[s].listener]]
  <2>1. conn[s].client \in Node /\ conn[s].listener \in Node
    BY <1>11 DEF SendSnapshot, TypeOK
  <2>2. x \in Connection
    BY <1>0, <2>1 DEF Connection, Phase, TypeOK
  <2>3. x.client \in Node /\ x.listener \in Node
    BY <1>0, <2>1 DEF Connection
  <2>4. conn' = [conn EXCEPT ![s] = x]
    BY <1>11 DEF SendSnapshot, TypeOK
  <2>5. QED
    BY <1>11, <2>2, <2>3, <2>4, ConnType DEF SendSnapshot, TypeOK
<1>12. ASSUME NEW s \in Slot, MergePulled(s) PROVE TypeOK'
  <2> DEFINE c == conn[s].client
             l == conn[s].listener
  <2>1. c \in Node /\ l \in Node
    BY <1>12 DEF MergePulled, TypeOK
  <2>2. l \in Nat /\ conn[s].batch \in [Key -> Version]
    BY <1>0, <2>1, ConstantsOK DEF Connection
  <2>3. ApplyInbound(c, l, conn[s].batch)
    BY <1>12 DEF MergePulled
  <2>4. conn' = [conn EXCEPT ![s] = Idle] /\ cursor' = cursor /\ epoch' = epoch
    BY <1>12 DEF MergePulled
  <2>5. Idle.phase = "idle"
    BY DEF Idle
  <2>6. QED
    BY <2>1, <2>2, <2>3, <2>4, <2>5, IdleType, ConnType, ApplyInboundType
       DEF TypeOK
<1>13. ASSUME NEW s \in Slot, Drop(s) PROVE TypeOK'
  <2>1. conn' = [conn EXCEPT ![s] = Idle] /\ Idle.phase = "idle"
    BY <1>13 DEF Drop, Idle
  <2>2. QED
    BY <1>13, <2>1, IdleType, ConnType DEF Drop, TypeOK
<1>14. CASE UNCHANGED vars
  BY <1>14 DEF vars, TypeOK
<1>15. QED
  BY <1>1, <1>2, <1>3, <1>4, <1>5, <1>6, <1>7, <1>8, <1>9, <1>10, <1>11,
     <1>12, <1>13, <1>14 DEF Next

\* Every reachable state is typed, under either applier.
THEOREM TypeCorrect == Spec => []TypeOK
<1>1. QED
  BY TypeInit, TypeStep, PTL DEF Spec

-----------------------------------------------------------------------------
(* Steps that lose nothing *)

\* Every version is kept or replaced by one that covers it, and a version
\* written anew gets a later sequence and is held by the device it came from.
Growth ==
  /\ epoch' = epoch
  /\ \A m \in Node : seq'[m] >= seq[m]
  /\ \A m \in Node, k \in Key :
       /\ Covers(held'[m][k], held[m][k])
       /\ \/ /\ held'[m][k] = held[m][k]
             /\ seqOf'[m][k] = seqOf[m][k]
             /\ origin'[m][k] = origin[m][k]
          \/ /\ seqOf'[m][k] > seq[m]
             /\ \A q \in Node : q # m /\ origin'[m][k] = q =>
                  Covers(held'[q][k], held'[m][k])

\* Such a step keeps every promise of a cursor and of a message.
LEMMA GrowthKeepsSound ==
  ASSUME TypeOK, TypeOK', Growth,
         NEW p \in Node, NEW q \in Node, p # q,
         NEW cur \in Cursor, NEW batch \in [Key -> Version],
         Sound(q, p, cur, batch)
  PROVE  Sound(q, p, cur, batch)'
<1> SUFFICES ASSUME cur.epoch = epoch'[p], cur.clock # 0
             PROVE  /\ cur.clock <= seq'[p]
                    /\ \A k \in Key :
                         seqOf'[p][k] <= cur.clock \/ origin'[p][k] = q =>
                           \/ Covers(held'[q][k], held'[p][k])
                           \/ Covers(batch[k], held'[p][k])
  BY DEF Sound
<1>1. cur.epoch = epoch[p]
  BY DEF Growth
<1>2. cur.clock <= seq[p]
  BY <1>1 DEF Sound
<1>3. cur.clock \in Nat /\ seq[p] \in Nat /\ seq'[p] \in Nat
  BY DEF Cursor, TypeOK
<1>4. cur.clock <= seq'[p]
  BY <1>2, <1>3 DEF Growth
<1>5. ASSUME NEW k \in Key, seqOf'[p][k] <= cur.clock \/ origin'[p][k] = q
      PROVE  Covers(held'[q][k], held'[p][k]) \/ Covers(batch[k], held'[p][k])
  <2>1. /\ held[p][k] \in Version /\ held'[p][k] \in Version
        /\ held[q][k] \in Version /\ held'[q][k] \in Version
        /\ seqOf'[p][k] \in Nat
    BY DEF TypeOK
  <2>2. CASE held'[p][k] = held[p][k] /\ seqOf'[p][k] = seqOf[p][k]
             /\ origin'[p][k] = origin[p][k]
    <3>1. Covers(held[q][k], held[p][k]) \/ Covers(batch[k], held[p][k])
      BY <1>1, <1>5, <2>2 DEF Sound
    <3>2. Covers(held'[q][k], held[q][k])
      BY DEF Growth
    <3>3. QED
      BY <2>1, <2>2, <3>1, <3>2, CoversTransitive
  <2>3. CASE seqOf'[p][k] > seq[p] /\ (origin'[p][k] = q =>
               Covers(held'[q][k], held'[p][k]))
    BY <1>2, <1>3, <1>5, <2>1, <2>3
  <2>4. QED
    BY <2>2, <2>3 DEF Growth
<1>6. QED
  BY <1>4, <1>5

LEMMA GrowthKeepsSent ==
  ASSUME TypeOK, TypeOK', Growth, NEW p \in Node,
         NEW batch \in [Key -> Version], Sent(p, batch)
  PROVE  Sent(p, batch)'
<1> SUFFICES ASSUME NEW k \in Key PROVE Covers(held'[p][k], batch[k])
  BY DEF Sent
<1>1. Covers(held'[p][k], held[p][k]) /\ Covers(held[p][k], batch[k])
  BY DEF Growth, Sent
<1>2. held'[p][k] \in Version /\ held[p][k] \in Version /\ batch[k] \in Version
  BY DEF TypeOK
<1>3. QED
  BY <1>1, <1>2, CoversTransitive

LEMMA GrowthKeepsMessage ==
  ASSUME TypeOK, TypeOK', Growth, NEW x \in Connection,
         x.phase # "idle" => x.client \in Node /\ x.listener \in Node,
         MessageSound(x)
  PROVE  MessageSound(x)'
<1>1. /\ x.cursor \in Cursor /\ x.acked \in Cursor
      /\ x.batch \in [Key -> Version] /\ Nothing \in [Key -> Version]
  BY IdleType DEF Connection
<1>2. epoch' = epoch
  BY DEF Growth
<1>3. ASSUME x.phase # "idle"
      PROVE  x.client \in Node /\ x.listener \in Node /\ x.client # x.listener
  BY <1>3 DEF MessageSound
<1>4. Nothing' = Nothing
  BY DEF Nothing
<1>5. ASSUME x.phase = "since" PROVE MessageSound(x)'
  <2>1. HandedOut(x.listener, x.cursor) /\ Sound(x.client, x.listener, x.cursor, Nothing)
    BY <1>5 DEF MessageSound
  <2>2. Sound(x.client, x.listener, x.cursor, Nothing)'
    BY <1>1, <1>3, <1>5, <2>1, GrowthKeepsSound
  <2>3. QED
    BY <1>2, <1>3, <1>5, <2>1, <2>2 DEF MessageSound, HandedOut
<1>6. ASSUME x.phase = "delta" PROVE MessageSound(x)'
  <2>1. /\ HandedOut(x.listener, x.cursor)
        /\ Sound(x.client, x.listener, x.cursor, x.batch)
        /\ Sent(x.listener, x.batch)
        /\ HandedOut(x.client, x.acked)
        /\ Sound(x.listener, x.client, x.acked, Nothing)
    BY <1>6 DEF MessageSound
  <2>2. Sound(x.client, x.listener, x.cursor, x.batch)'
    BY <1>1, <1>3, <1>6, <2>1, GrowthKeepsSound
  <2>3. Sound(x.listener, x.client, x.acked, Nothing)'
    BY <1>1, <1>3, <1>6, <2>1, GrowthKeepsSound
  <2>4. Sent(x.listener, x.batch)'
    BY <1>1, <1>3, <1>6, <2>1, GrowthKeepsSent
  <2>5. QED
    BY <1>2, <1>3, <1>6, <2>1, <2>2, <2>3, <2>4 DEF MessageSound, HandedOut
<1>7. ASSUME x.phase = "merged" PROVE MessageSound(x)'
  <2>1. /\ HandedOut(x.client, x.cursor)
        /\ Sound(x.listener, x.client, x.cursor, x.batch)
        /\ Sent(x.client, x.batch)
    BY <1>7 DEF MessageSound
  <2>2. Sound(x.listener, x.client, x.cursor, x.batch)'
    BY <1>1, <1>3, <1>7, <2>1, GrowthKeepsSound
  <2>3. Sent(x.client, x.batch)'
    BY <1>1, <1>3, <1>7, <2>1, GrowthKeepsSent
  <2>4. QED
    BY <1>2, <1>3, <1>7, <2>1, <2>2, <2>3 DEF MessageSound, HandedOut
<1>8. ASSUME x.phase \in {"push", "snapshot"} PROVE MessageSound(x)'
  <2>1. x.phase = "push" => Sent(x.client, x.batch)'
    BY <1>1, <1>3, <1>8, GrowthKeepsSent DEF MessageSound
  <2>2. x.phase = "snapshot" => Sent(x.listener, x.batch)'
    BY <1>1, <1>3, <1>8, GrowthKeepsSent DEF MessageSound
  <2>3. QED
    BY <1>3, <1>8, <2>1, <2>2 DEF MessageSound
<1>9. ASSUME x.phase \in {"idle", "acked", "pushed", "request"}
      PROVE  MessageSound(x)'
  BY <1>3, <1>9 DEF MessageSound
<1>10. QED
  BY <1>5, <1>6, <1>7, <1>8, <1>9 DEF Connection, Phase

LEMMA GrowthKeepsCursors ==
  ASSUME TypeOK, TypeOK', Growth, CursorsSound, UNCHANGED cursor
  PROVE  CursorsSound'
<1> SUFFICES ASSUME NEW p \in Node, NEW q \in Node, p # q
             PROVE  /\ HandedOut(p, cursor[q][p])'
                    /\ Sound(q, p, cursor[q][p], Nothing)'
  BY DEF CursorsSound
<1>1. HandedOut(p, cursor[q][p]) /\ Sound(q, p, cursor[q][p], Nothing)
  BY DEF CursorsSound
<1>2. cursor[q][p] \in Cursor /\ Nothing \in [Key -> Version]
  BY IdleType DEF TypeOK
<1>3. \A cur \in Cursor : Sound(q, p, cur, Nothing) => Sound(q, p, cur, Nothing)'
  BY <1>2, GrowthKeepsSound
<1>4. Sound(q, p, cursor[q][p], Nothing)'
  BY <1>1, <1>2, <1>3 DEF Sound, Nothing
<1>5. QED
  BY <1>1, <1>4 DEF HandedOut, Growth

\* A local write is such a step: its clock is after the Lamport counter.
LEMMA SetGrows ==
  ASSUME Applier = "lww", TypeOK, CounterAhead,
         NEW n \in Node, NEW k \in Key, NEW changed \in SUBSET Field,
         Set(n, k, changed)
  PROVE  Growth /\ CounterAhead'
<1> DEFINE now == <<counter[n] + 1, n, epoch[n]>>
           new == [clock |-> now,
                   fields |-> [f \in Field |-> IF f \in changed
                                 THEN now ELSE held[n][k].fields[f]]]
<1>1. held' = [held EXCEPT ![n][k] = new] /\ counter' = [counter EXCEPT ![n] = @ + 1]
  BY DEF Set
<1>2. held[n][k].clock \in Clock /\ held[n][k].clock[1] <= counter[n]
      /\ counter[n] \in Nat
  BY DEF TypeOK, Version, CounterAhead
<1>3. ~Less(now, held[n][k].clock)
  BY <1>2 DEF Less, Clock
<1>4. Covers(new, held[n][k])
  BY <1>3 DEF Covers
<1>5. \A m \in Node, j \in Key : Covers(held[m][j], held[m][j])
  BY CoversReflexive DEF TypeOK
<1>6. \A m \in Node, j \in Key :
        held'[m][j] = IF m = n /\ j = k THEN new ELSE held[m][j]
  BY <1>1 DEF TypeOK
<1>7. \A m \in Node, j \in Key : Covers(held'[m][j], held[m][j])
  BY <1>4, <1>5, <1>6
<1>8. Cardinality({k}) = 1 /\ {i \in {k} : i <= k} = {k}
  BY FS_Singleton, ConstantsOK
<1>9. /\ seq' = [seq EXCEPT ![n] = @ + 1]
      /\ seqOf' = [seqOf EXCEPT ![n] = [j \in Key |->
           IF j \in {k} THEN seq[n] + Cardinality({i \in {k} : i <= j})
           ELSE seqOf[n][j]]]
      /\ origin' = [origin EXCEPT ![n] = [j \in Key |->
           IF j \in {k} THEN 0 ELSE origin[n][j]]]
  BY <1>8 DEF Set, RecordWrites
<1>10. /\ seqOf'[n][k] > seq[n] /\ origin'[n][k] = 0
       /\ \A m \in Node, j \in Key : ~(m = n /\ j = k) =>
            seqOf'[m][j] = seqOf[m][j] /\ origin'[m][j] = origin[m][j]
  <2>1. /\ seqOf'[n] = [j \in Key |->
             IF j \in {k} THEN seq[n] + Cardinality({i \in {k} : i <= j})
             ELSE seqOf[n][j]]
        /\ origin'[n] = [j \in Key |-> IF j \in {k} THEN 0 ELSE origin[n][j]]
        /\ \A m \in Node : m # n => seqOf'[m] = seqOf[m] /\ origin'[m] = origin[m]
    BY <1>9 DEF TypeOK
  <2>2. seqOf'[n][k] = seq[n] + Cardinality({i \in {k} : i <= k})
        /\ origin'[n][k] = 0
    BY <2>1
  <2>3. seqOf'[n][k] = seq[n] + 1
    BY <1>8, <2>2
  <2>4. seqOf'[n][k] > seq[n]
    BY <2>3 DEF TypeOK
  <2>5. ASSUME NEW m \in Node, NEW j \in Key, ~(m = n /\ j = k)
        PROVE  seqOf'[m][j] = seqOf[m][j] /\ origin'[m][j] = origin[m][j]
    <3>1. CASE m = n
      <4>1. j \notin {k}
        BY <2>5, <3>1
      <4>2. seqOf'[n][j] = seqOf[n][j]
        BY <2>1, <4>1
      <4>3. origin'[n][j] = origin[n][j]
        BY <2>1, <4>1
      <4>4. QED
        BY <3>1, <4>2, <4>3
    <3>2. CASE m # n
      BY <2>1, <3>2
    <3>3. QED
      BY <3>1, <3>2
  <2>6. QED
    BY <2>2, <2>4, <2>5
<1>11. \A m \in Node : seq'[m] >= seq[m]
  BY <1>9 DEF TypeOK
<1>12. 0 \notin Node
  BY ConstantsOK
<1>13. Growth
  BY <1>6, <1>7, <1>10, <1>11, <1>12 DEF Growth, Set
<1>14. CounterAhead'
  <2> SUFFICES ASSUME NEW m \in Node, NEW j \in Key
               PROVE  held'[m][j].clock[1] <= counter'[m]
    BY DEF CounterAhead
  <2>1. /\ held[m][j].clock[1] \in Nat /\ held[m][j].clock[1] <= counter[m]
        /\ counter[m] \in Nat
    BY DEF TypeOK, Version, Clock, CounterAhead
  <2>2. counter'[m] = IF m = n THEN counter[n] + 1 ELSE counter[m]
    BY <1>1 DEF TypeOK
  <2>3. CASE m = n /\ j = k
    <3>1. held'[m][j] = new
      BY <1>6, <2>3
    <3>2. new.clock[1] = counter[n] + 1
      OBVIOUS
    <3>3. held'[m][j].clock[1] = counter[n] + 1
      BY <3>1, <3>2
    <3>4. QED
      BY <1>2, <2>2, <2>3, <3>3
  <2>4. CASE ~(m = n /\ j = k)
    <3> HIDE DEF new
    <3>1. held'[m][j] = held[m][j]
      BY <1>6, <2>4
    <3>2. counter'[m] >= counter[m] /\ counter'[m] \in Nat
      BY <1>2, <2>1, <2>2
    <3>3. QED
      BY <2>1, <3>1, <3>2
  <2>5. QED
    BY <2>3, <2>4
<1>15. QED
  BY <1>13, <1>14

\* So is the merge of a message whose versions its sender still holds, and
\* the receiver then holds all of them.
LEMMA ApplyInboundGrows ==
  ASSUME Applier = "lww", TypeOK, CounterAhead,
         NEW n \in Node, NEW from \in Node, n # from,
         NEW batch \in [Key -> Version], Sent(from, batch),
         ApplyInbound(n, from, batch), epoch' = epoch
  PROVE  /\ Growth
         /\ CounterAhead'
         /\ \A k \in Key : Covers(held'[n][k], batch[k])
<1> DEFINE changed == ChangedBy(n, batch)
<1>1. \A k \in Key : held[n][k] \in Version /\ batch[k] \in Version
  BY DEF TypeOK
<1>2. /\ \A k \in Key : held'[n][k] = Merge(held[n][k], batch[k])
      /\ \A m \in Node \ {n} : held'[m] = held[m]
  BY DEF ApplyInbound, MergedWith, TypeOK
<1>3. \A k \in Key : /\ Covers(held'[n][k], held[n][k])
                     /\ Covers(held'[n][k], batch[k])
                     /\ held'[n][k] \in {held[n][k], batch[k]}
  BY <1>1, <1>2, MergeCovers, MergeLww
<1>4. \A m \in Node, k \in Key : Covers(held'[m][k], held[m][k])
  BY <1>2, <1>3, CoversReflexive DEF TypeOK
<1>5. changed \in SUBSET Key
      /\ \A k \in Key : k \in changed <=> held'[n][k] # held[n][k]
  BY <1>2 DEF ChangedBy, MergedWith
<1>6. RecordWrites(n, changed, from)
  BY DEF ApplyInbound
<1>7. /\ Cardinality(changed) \in Nat
      /\ \A k \in changed : Cardinality({j \in changed : j <= k}) \in Nat \ {0}
  BY <1>5, Ranks
<1>8. \A m \in Node : seq'[m] >= seq[m]
  <2> HIDE DEF changed
  <2>1. QED
    BY <1>6, <1>7 DEF RecordWrites, TypeOK
<1>9. \A k \in Key :
        /\ k \in changed =>
             /\ seqOf'[n][k] = seq[n] + Cardinality({j \in changed : j <= k})
             /\ origin'[n][k] = from
        /\ k \notin changed =>
             seqOf'[n][k] = seqOf[n][k] /\ origin'[n][k] = origin[n][k]
  <2> HIDE DEF changed
  <2>1. QED
    BY <1>6 DEF RecordWrites, TypeOK
<1>10. \A m \in Node \ {n} : seqOf'[m] = seqOf[m] /\ origin'[m] = origin[m]
  BY <1>6 DEF RecordWrites, TypeOK
<1>11. \A k \in changed : seqOf'[n][k] > seq[n]
  <2> HIDE DEF changed
  <2> SUFFICES ASSUME NEW k \in changed PROVE seqOf'[n][k] > seq[n]
    OBVIOUS
  <2> DEFINE rank == Cardinality({j \in changed : j <= k})
  <2>1. rank \in Nat \ {0} /\ seq[n] \in Nat
    BY <1>7 DEF TypeOK
  <2>2. seqOf'[n][k] = seq[n] + rank
    BY <1>5, <1>9
  <2> HIDE DEF rank
  <2>3. QED
    BY <2>1, <2>2
<1>12. \A k \in changed : \A q \in Node : origin'[n][k] = q =>
         Covers(held'[q][k], held'[n][k])
  <2> SUFFICES ASSUME NEW k \in changed
               PROVE  Covers(held'[from][k], held'[n][k])
    BY <1>5, <1>9
  <2>1. k \in Key /\ held'[n][k] = batch[k]
    BY <1>3, <1>5
  <2>2. held'[from][k] = held[from][k]
    BY <1>2
  <2>3. QED
    BY <2>1, <2>2 DEF Sent
<1>13. Growth
  <2> HIDE DEF changed
  <2>1. ASSUME NEW m \in Node, NEW k \in Key
        PROVE  \/ /\ held'[m][k] = held[m][k]
                  /\ seqOf'[m][k] = seqOf[m][k]
                  /\ origin'[m][k] = origin[m][k]
               \/ /\ seqOf'[m][k] > seq[m]
                  /\ \A q \in Node : q # m /\ origin'[m][k] = q =>
                       Covers(held'[q][k], held'[m][k])
    BY <1>2, <1>5, <1>9, <1>10, <1>11, <1>12
  <2>2. QED
    BY <1>4, <1>8, <2>1 DEF Growth
<1>14. CounterAhead'
  <2>1. PICK c \in 0 .. MaxCounter :
          /\ c >= counter[n] /\ \A k \in Key : c >= batch[k].clock[1]
          /\ counter' = [counter EXCEPT ![n] = c]
    BY DEF ApplyInbound, RaiseCounter
  <2>2. c \in Nat /\ counter[n] \in Nat
    BY ConstantsOK DEF TypeOK
  <2>3. \A k \in Key : held[n][k].clock \in Clock /\ batch[k].clock \in Clock
    BY <1>1 DEF Version
  <2>4. \A k \in Key : held'[n][k].clock[1] <= c
    BY <1>3, <2>1, <2>2, <2>3 DEF CounterAhead, Clock
  <2>5. \A m \in Node \ {n} : counter'[m] = counter[m]
    BY <2>1 DEF TypeOK
  <2>6. counter'[n] = c
    BY <2>1 DEF TypeOK
  <2>7. QED
    BY <1>2, <2>4, <2>5, <2>6 DEF CounterAhead
<1>15. QED
  BY <1>3, <1>13, <1>14

-----------------------------------------------------------------------------
(* The invariant *)

\* A merge delivers what its message promised: the cursor that came with the
\* batch is sound on its own once the batch is in.
LEMMA MergedSound ==
  ASSUME TypeOK, TypeOK', NEW n \in Node, NEW from \in Node,
         NEW cur \in Cursor, NEW batch \in [Key -> Version],
         Sound(n, from, cur, batch)',
         \A k \in Key : Covers(held'[n][k], batch[k])
  PROVE  Sound(n, from, cur, Nothing)'
<1> SUFFICES ASSUME cur.epoch = epoch'[from], cur.clock # 0,
                    NEW k \in Key,
                    seqOf'[from][k] <= cur.clock \/ origin'[from][k] = n
             PROVE  Covers(held'[n][k], held'[from][k])
  BY DEF Sound
<1>1. \/ Covers(held'[n][k], held'[from][k])
      \/ Covers(batch[k], held'[from][k])
  BY DEF Sound
<1>2. /\ held'[n][k] \in Version /\ held'[from][k] \in Version
      /\ batch[k] \in Version
  BY DEF TypeOK
<1>3. QED
  BY <1>1, <1>2, CoversTransitive

\* What a cursor promises without a batch is held outright.
LEMMA SoundAlone ==
  ASSUME TypeOK, NEW p \in Node, NEW q \in Node, NEW cur \in Cursor,
         Sound(q, p, cur, Nothing), cur.epoch = epoch[p], cur.clock # 0
  PROVE  /\ cur.clock <= seq[p]
         /\ \A k \in Key : seqOf[p][k] <= cur.clock \/ origin[p][k] = q =>
              Covers(held[q][k], held[p][k])
<1> SUFFICES ASSUME NEW k \in Key, Covers(Nothing[k], held[p][k])
             PROVE  Covers(held[q][k], held[p][k])
  BY DEF Sound
<1>1. held[p][k] \in Version /\ held[q][k] \in Version /\ Absent \in Version
  BY AbsentType DEF TypeOK
<1>2. Nothing[k] = Absent
  BY DEF Nothing
<1>3. QED
  BY <1>1, <1>2, CoversAbsent, CoversTransitive

\* A delta completes the cursor it was computed for: whatever it omits was
\* promised by that cursor already.
LEMMA DeltaSound ==
  ASSUME TypeOK, NEW p \in Node, NEW q \in Node, NEW cur \in Cursor,
         Sound(q, p, cur, Nothing)
  PROVE  /\ Sound(q, p, CurrentCursor(p), Delta(p, Resolve(p, cur), q))
         /\ Sent(p, Delta(p, Resolve(p, cur), q))
         /\ HandedOut(p, CurrentCursor(p))
<1> DEFINE since == Resolve(p, cur)
           batch == Delta(p, since, q)
<1>1. \A k \in Key : held[p][k] \in Version
  BY DEF TypeOK
<1>2. seq[p] \in Nat /\ epoch[p] \in Nat
  BY DEF TypeOK
<1>3. Sent(p, batch)
  <2> SUFFICES ASSUME NEW k \in Key PROVE Covers(held[p][k], batch[k])
    BY DEF Sent
  <2>1. batch[k] \in {held[p][k], Absent}
    BY DEF Delta
  <2>2. QED
    BY <1>1, <2>1, CoversReflexive, CoversAbsent
<1>4. HandedOut(p, CurrentCursor(p))
  BY <1>2 DEF HandedOut, CurrentCursor
<1>5. ASSUME NEW k \in Key
      PROVE  Covers(held[q][k], held[p][k]) \/ Covers(batch[k], held[p][k])
  <2>1. CASE IsFull(p, since) \/ (seqOf[p][k] > since /\ origin[p][k] # q)
    <3>1. batch[k] = held[p][k]
      BY <2>1 DEF Delta
    <3>2. QED
      BY <1>1, <3>1, CoversReflexive
  <2>2. CASE ~IsFull(p, since) /\ (~(seqOf[p][k] > since) \/ origin[p][k] = q)
    <3>1. since # 0
      BY <2>2 DEF IsFull
    <3>2. cur.epoch = epoch[p] /\ since = cur.clock
      BY <3>1 DEF Resolve
    <3>3. since \in Nat /\ seqOf[p][k] \in Nat
      BY <3>2 DEF Cursor, TypeOK
    <3>4. seqOf[p][k] <= cur.clock \/ origin[p][k] = q
      BY <2>2, <3>2, <3>3
    <3>5. QED
      BY <3>1, <3>2, <3>4, SoundAlone
  <2>3. QED
    BY <2>1, <2>2
<1>6. Sound(q, p, CurrentCursor(p), batch)
  BY <1>2, <1>5 DEF Sound, CurrentCursor
<1>7. QED
  BY <1>3, <1>4, <1>6

\* A step that lost nothing keeps the promises of the connections it left alone.
LEMMA OtherConnections ==
  ASSUME TypeOK, TypeOK', Growth, NEW r \in Slot, conn'[r] = conn[r],
         MessageSound(conn[r])
  PROVE  MessageSound(conn[r])'
<1>1. PICK x \in Connection : x = conn[r]
  BY DEF TypeOK
<1>2. x.phase # "idle" => x.client \in Node /\ x.listener \in Node
  BY <1>1 DEF TypeOK
<1>3. MessageSound(x)
  BY <1>1
<1>4. MessageSound(x)'
  BY <1>2, <1>3, GrowthKeepsMessage
<1>5. QED
  BY <1>1, <1>4

\* So do the cursors when one of them is replaced by a sound one.
LEMMA CursorStored ==
  ASSUME TypeOK, TypeOK', Growth, CursorsSound,
         NEW n \in Node, NEW from \in Node, NEW cur \in Cursor,
         HandedOut(from, cur), Sound(n, from, cur, Nothing)',
         cursor' = [cursor EXCEPT ![n][from] = cur]
  PROVE  CursorsSound'
<1> SUFFICES ASSUME NEW p \in Node, NEW q \in Node, p # q
             PROVE  /\ HandedOut(p, cursor[q][p])'
                    /\ Sound(q, p, cursor[q][p], Nothing)'
  BY DEF CursorsSound
<1>1. CASE q = n /\ p = from
  <2>1. cursor'[q][p] = cur
    BY <1>1 DEF TypeOK
  <2>2. HandedOut(from, cur)'
    BY DEF HandedOut, Growth
  <2>3. QED
    BY <1>1, <2>1, <2>2 DEF HandedOut, Sound
<1>2. CASE ~(q = n /\ p = from)
  <2>1. PICK old \in Cursor : old = cursor[q][p]
    BY DEF TypeOK
  <2>2. cursor'[q][p] = old
    BY <1>2, <2>1 DEF TypeOK
  <2>3. HandedOut(p, old) /\ Sound(q, p, old, Nothing)
    BY <2>1 DEF CursorsSound
  <2>4. Sound(q, p, old, Nothing)'
    BY <2>3, IdleType, GrowthKeepsSound DEF Sound, Nothing
  <2>5. HandedOut(p, old)'
    BY <2>3 DEF HandedOut, Growth
  <2>6. QED
    BY <2>2, <2>4, <2>5 DEF HandedOut, Sound
<1>3. QED
  BY <1>1, <1>2

\* Recreating a state voids the cursors into its old history and forgets its
\* own; nothing else depended on it.
LEMMA RecreateKeeps ==
  ASSUME IInv, TypeOK', NEW n \in Node, Recreate(n)
  PROVE  IInv'
<1> USE DEF IInv
<1>1. \A p \in Node \ {n} :
        /\ held'[p] = held[p] /\ seq'[p] = seq[p] /\ seqOf'[p] = seqOf[p]
        /\ origin'[p] = origin[p] /\ epoch'[p] = epoch[p]
        /\ counter'[p] = counter[p] /\ cursor'[p] = cursor[p]
  BY DEF Recreate, TypeOK
<1>2. /\ epoch'[n] = epoch[n] + 1 /\ counter'[n] = 0 /\ held'[n] = Nothing
      /\ \A p \in Node : cursor'[n][p] = NoCursor
  BY DEF Recreate, TypeOK
<1>3. CounterAhead'
  <2> SUFFICES ASSUME NEW m \in Node, NEW k \in Key
               PROVE  held'[m][k].clock[1] <= counter'[m]
    BY DEF CounterAhead
  <2>1. CASE m = n
    BY <1>2, <2>1 DEF Nothing, Absent, NoClock
  <2>2. CASE m # n
    BY <1>1, <2>2 DEF CounterAhead
  <2>3. QED
    BY <2>1, <2>2
<1>4. CursorsSound'
  <2> SUFFICES ASSUME NEW p \in Node, NEW q \in Node, p # q
               PROVE  /\ HandedOut(p, cursor[q][p])'
                      /\ Sound(q, p, cursor[q][p], Nothing)'
    BY DEF CursorsSound
  <2>1. HandedOut(p, cursor[q][p]) /\ Sound(q, p, cursor[q][p], Nothing)
    BY DEF CursorsSound
  <2>2. epoch[p] \in Nat /\ epoch'[p] \in Nat /\ cursor[q][p].epoch \in Nat
    BY DEF TypeOK, Cursor
  <2>3. CASE q = n
    BY <1>2, <2>2, <2>3 DEF HandedOut, Sound, NoCursor
  <2>4. CASE p = n /\ q # n
    <3>1. cursor'[q][p].epoch <= epoch[n] /\ epoch'[n] = epoch[n] + 1
      BY <1>1, <1>2, <2>1, <2>4 DEF HandedOut
    <3>2. cursor'[q][p].epoch # epoch'[p] /\ cursor'[q][p].epoch <= epoch'[p]
      BY <1>1, <2>2, <2>4, <3>1
    <3>3. QED
      BY <3>2 DEF HandedOut, Sound
  <2>5. CASE p # n /\ q # n
    BY <1>1, <2>1, <2>5 DEF HandedOut, Sound, Nothing
  <2>6. QED
    BY <2>3, <2>4, <2>5
<1>5. ASSUME NEW s \in Slot PROVE MessageSound(conn[s])'
  <2>1. conn' = conn /\ conn[s].client # n /\ conn[s].listener # n
    BY DEF Recreate
  <2>2. MessageSound(conn[s])
    OBVIOUS
  <2>3. conn[s].phase # "idle" =>
          conn[s].client \in Node /\ conn[s].listener \in Node
    BY DEF TypeOK
  <2>4. CASE conn[s].phase = "idle"
    BY <2>1, <2>4 DEF MessageSound
  <2>5. CASE conn[s].phase # "idle"
    <3>1. PICK c \in Node : c = conn[s].client /\ c # n
      BY <2>1, <2>3, <2>5
    <3>2. PICK l \in Node : l = conn[s].listener /\ l # n
      BY <2>1, <2>3, <2>5
    <3>3. \A cur, batch :
            /\ Sound(c, l, cur, batch) => Sound(c, l, cur, batch)'
            /\ Sound(l, c, cur, batch) => Sound(l, c, cur, batch)'
      BY <1>1, <3>1, <3>2 DEF Sound
    <3>4. \A batch : /\ Sent(c, batch) => Sent(c, batch)'
                     /\ Sent(l, batch) => Sent(l, batch)'
      BY <1>1, <3>1, <3>2 DEF Sent
    <3>5. \A cur : /\ HandedOut(c, cur) => HandedOut(c, cur)'
                   /\ HandedOut(l, cur) => HandedOut(l, cur)'
      BY <1>1, <3>1, <3>2 DEF HandedOut
    <3>6. PICK x : x = conn[s] /\ x = conn'[s]
      BY <2>1
    <3>7. Nothing' = Nothing
      BY DEF Nothing
    <3>8. MessageSound(x)'
      BY <2>2, <3>1, <3>2, <3>3, <3>4, <3>5, <3>6, <3>7 DEF MessageSound
    <3>9. QED
      BY <3>6, <3>8
  <2>6. QED
    BY <2>4, <2>5
<1>6. QED
  BY <1>3, <1>4, <1>5

LEMMA IInvInit == Init => IInv
<1> SUFFICES ASSUME Init PROVE IInv
  OBVIOUS
<1>1. TypeOK
  BY TypeInit
<1>2. CounterAhead
  BY DEF Init, CounterAhead, Nothing, Absent, NoClock
<1>3. CursorsSound
  BY DEF Init, CursorsSound, HandedOut, Sound, NoCursor
<1>4. \A s \in Slot : MessageSound(conn[s])
  BY DEF Init, Idle, MessageSound
<1>5. QED
  BY <1>1, <1>2, <1>3, <1>4 DEF IInv

\* A step that changes no state and gives one connection a sound message.
LEMMA MessageStep ==
  ASSUME IInv, TypeOK', UNCHANGED state, NEW s \in Slot, NEW x \in Connection,
         conn' = [conn EXCEPT ![s] = x], MessageSound(x)
  PROVE  IInv'
<1> USE DEF IInv
<1>1. Growth
  BY CoversReflexive DEF Growth, state, TypeOK
<1>2. CursorsSound'
  BY <1>1, GrowthKeepsCursors DEF state
<1>3. CounterAhead'
  BY DEF CounterAhead, state
<1>4. conn'[s] = x /\ \A r \in Slot \ {s} : conn'[r] = conn[r]
  BY DEF TypeOK
<1>5. MessageSound(conn[s])'
  <2>1. x.phase # "idle" => x.client \in Node /\ x.listener \in Node
    BY <1>4 DEF TypeOK
  <2>2. MessageSound(x)'
    BY <1>1, <2>1, GrowthKeepsMessage
  <2>3. QED
    BY <1>4, <2>2
<1>6. \A r \in Slot \ {s} : MessageSound(conn[r])'
  BY <1>1, <1>4, OtherConnections
<1>7. QED
  BY <1>2, <1>3, <1>5, <1>6

LEMMA IdleSound == MessageSound(Idle)
BY DEF Idle, MessageSound

LEMMA IInvStep ==
  ASSUME Applier = "lww", IInv, [Next]_vars
  PROVE  IInv'
<1> USE DEF IInv
<1>0. TypeOK'
  BY TypeStep
<1>a. \A s \in Slot :
        /\ conn[s] \in Connection
        /\ conn[s].cursor \in Cursor /\ conn[s].acked \in Cursor
        /\ conn[s].batch \in [Key -> Version]
        /\ conn[s].phase # "idle" =>
             /\ conn[s].client \in Node /\ conn[s].listener \in Node
             /\ conn[s].client # conn[s].listener
  BY DEF TypeOK, Connection, MessageSound
<1>1. ASSUME NEW n \in Node, NEW k \in Key, NEW changed \in SUBSET Field,
             Set(n, k, changed)
      PROVE  IInv'
  <2>1. Growth /\ CounterAhead'
    BY <1>1, SetGrows
  <2>2. CursorsSound'
    BY <1>0, <1>1, <2>1, GrowthKeepsCursors DEF Set
  <2>3. \A r \in Slot : MessageSound(conn[r])'
    BY <1>0, <1>1, <2>1, OtherConnections DEF Set
  <2>4. QED
    BY <1>0, <2>1, <2>2, <2>3
<1>2. ASSUME NEW n \in Node, ResetPeerCursors(n) PROVE IInv'
  <2>1. Growth
    BY <1>2, CoversReflexive DEF Growth, ResetPeerCursors, TypeOK
  <2>2. CounterAhead'
    BY <1>2 DEF CounterAhead, ResetPeerCursors
  <2>3. \A r \in Slot : MessageSound(conn[r])'
    BY <1>0, <1>2, <2>1, OtherConnections DEF ResetPeerCursors
  <2>4. CursorsSound'
    <3> SUFFICES ASSUME NEW p \in Node, NEW q \in Node, p # q
                 PROVE  /\ HandedOut(p, cursor[q][p])'
                        /\ Sound(q, p, cursor[q][p], Nothing)'
      BY DEF CursorsSound
    <3>1. CASE q = n
      <4>1. cursor'[q][p] = NoCursor /\ epoch'[p] \in Nat
        BY <1>0, <1>2, <3>1 DEF ResetPeerCursors, TypeOK
      <4>2. QED
        BY <4>1 DEF HandedOut, Sound, NoCursor
    <3>2. CASE q # n
      <4>1. cursor'[q][p] = cursor[q][p]
        BY <1>2, <3>2 DEF ResetPeerCursors, TypeOK
      <4>2. HandedOut(p, cursor[q][p]) /\ Sound(q, p, cursor[q][p], Nothing)
        BY DEF CursorsSound
      <4>3. QED
        BY <1>2, <4>1, <4>2 DEF ResetPeerCursors, HandedOut, Sound, Nothing
    <3>3. QED
      BY <3>1, <3>2
  <2>5. QED
    BY <1>0, <2>2, <2>3, <2>4
<1>3. ASSUME NEW n \in Node, Recreate(n) PROVE IInv'
  BY <1>0, <1>3, RecreateKeeps
<1>4. ASSUME NEW s \in Slot, NEW c \in Node, NEW l \in Node, SendSince(s, c, l)
      PROVE  IInv'
  <2> DEFINE x == [Idle EXCEPT !.phase = "since", !.client = c,
                               !.listener = l, !.cursor = cursor[c][l]]
  <2>1. conn' = [conn EXCEPT ![s] = x] /\ UNCHANGED state /\ c # l
    BY <1>4 DEF SendSince
  <2>2. x \in Connection
    BY <1>0, <2>1 DEF TypeOK
  <2>3. HandedOut(l, cursor[c][l]) /\ Sound(c, l, cursor[c][l], Nothing)
    BY <2>1 DEF CursorsSound
  <2>4. MessageSound(x)
    BY <2>1, <2>3 DEF MessageSound, Idle
  <2>5. QED
    BY <1>0, <2>1, <2>2, <2>4, MessageStep
<1>5. ASSUME NEW s \in Slot, ListenerExport(s) PROVE IInv'
  <2> DEFINE c == conn[s].client
             l == conn[s].listener
             x == [conn[s] EXCEPT !.phase = "delta",
                     !.cursor = CurrentCursor(l),
                     !.acked = cursor[l][c],
                     !.batch = Delta(l, Resolve(l, conn[s].cursor), c)]
  <2>1. c \in Node /\ l \in Node /\ c # l
    BY <1>5, <1>a DEF ListenerExport
  <2>2. conn' = [conn EXCEPT ![s] = x] /\ UNCHANGED state
    BY <1>5 DEF ListenerExport, TypeOK
  <2>3. x \in Connection
    BY <1>0, <2>2 DEF TypeOK
  <2>4. Sound(c, l, conn[s].cursor, Nothing)
    BY <1>5 DEF ListenerExport, MessageSound
  <2>5. /\ Sound(c, l, CurrentCursor(l), Delta(l, Resolve(l, conn[s].cursor), c))
        /\ Sent(l, Delta(l, Resolve(l, conn[s].cursor), c))
        /\ HandedOut(l, CurrentCursor(l))
    BY <1>a, <2>1, <2>4, DeltaSound
  <2>6. HandedOut(c, cursor[l][c]) /\ Sound(l, c, cursor[l][c], Nothing)
    BY <2>1 DEF CursorsSound
  <2>7. /\ x.phase = "delta" /\ x.client = c /\ x.listener = l
        /\ x.cursor = CurrentCursor(l) /\ x.acked = cursor[l][c]
        /\ x.batch = Delta(l, Resolve(l, conn[s].cursor), c)
    BY <1>a DEF Connection
  <2>8. MessageSound(x)
    <3> HIDE DEF x, c, l
    <3>1. QED
      BY <2>1, <2>5, <2>6, <2>7 DEF MessageSound
  <2>9. QED
    BY <1>0, <2>2, <2>3, <2>8, MessageStep
<1>6. ASSUME NEW s \in Slot, ClientMerge(s) PROVE IInv'
  <2>1. PICK c \in Node, l \in Node, batch \in [Key -> Version], cur \in Cursor,
             acked \in Cursor :
          /\ c = conn[s].client /\ l = conn[s].listener /\ c # l
          /\ batch = conn[s].batch /\ cur = conn[s].cursor
          /\ acked = conn[s].acked
    BY <1>6, <1>a DEF ClientMerge
  <2>2. PICK out \in [Key -> Version] : out = Delta(c, Resolve(c, acked), l)
    BY DeltaType
  <2>3. PICK now \in Cursor : now = CurrentCursor(c)
    BY CursorType
  <2>4. PICK x \in Connection :
          /\ x.phase = "merged" /\ x.client = c /\ x.listener = l
          /\ x.cursor = now /\ x.batch = out
          /\ conn' = [conn EXCEPT ![s] = x]
    <3> DEFINE y == [conn[s] EXCEPT !.phase = "merged",
                       !.cursor = CurrentCursor(c), !.acked = NoCursor,
                       !.batch = Delta(c, Resolve(c, conn[s].acked), l)]
    <3>1. conn' = [conn EXCEPT ![s] = y]
      BY <1>6, <2>1 DEF ClientMerge, TypeOK
    <3>2. y \in Connection
      BY <1>0, <3>1 DEF TypeOK
    <3>3. /\ y.phase = "merged" /\ y.client = c /\ y.listener = l
          /\ y.cursor = now /\ y.batch = out
      BY <1>a, <2>1, <2>2, <2>3 DEF Connection
    <3>4. QED
      BY <3>1, <3>2, <3>3
  <2>5. /\ HandedOut(l, cur) /\ Sound(c, l, cur, batch) /\ Sent(l, batch)
        /\ Sound(l, c, acked, Nothing)
    BY <1>6, <2>1 DEF ClientMerge, MessageSound
  <2>6. ApplyInbound(c, l, batch) /\ epoch' = epoch
        /\ cursor' = [cursor EXCEPT ![c][l] = cur]
    BY <1>6, <2>1 DEF ClientMerge
  <2>7. Growth /\ CounterAhead' /\ \A k \in Key : Covers(held'[c][k], batch[k])
    BY <2>1, <2>5, <2>6, ApplyInboundGrows
  <2>8. Sound(l, c, now, out) /\ Sent(c, out) /\ HandedOut(c, now)
    BY <2>2, <2>3, <2>5, DeltaSound
  <2>9. MessageSound(x)
    BY <2>1, <2>4, <2>8 DEF MessageSound
  <2>10. MessageSound(x)'
    BY <1>0, <2>4, <2>7, <2>9, GrowthKeepsMessage
  <2>11. conn'[s] = x /\ \A r \in Slot \ {s} : conn'[r] = conn[r]
    BY <2>4 DEF TypeOK
  <2>12. MessageSound(conn[s])'
    BY <2>10, <2>11
  <2>13. \A r \in Slot \ {s} : MessageSound(conn[r])'
    BY <1>0, <2>7, <2>11, OtherConnections
  <2>14. Sound(c, l, cur, batch)'
    BY <1>0, <2>1, <2>5, <2>7, GrowthKeepsSound
  <2>15. Sound(c, l, cur, Nothing)'
    BY <1>0, <2>7, <2>14, MergedSound
  <2>16. CursorsSound'
    BY <1>0, <2>5, <2>6, <2>7, <2>15, CursorStored
  <2>17. QED
    BY <1>0, <2>7, <2>12, <2>13, <2>16
<1>7. ASSUME NEW s \in Slot, ListenerMerge(s) PROVE IInv'
  <2>1. PICK c \in Node, l \in Node, batch \in [Key -> Version], cur \in Cursor :
          /\ c = conn[s].client /\ l = conn[s].listener /\ c # l
          /\ batch = conn[s].batch /\ cur = conn[s].cursor
    BY <1>7, <1>a DEF ListenerMerge
  <2>2. HandedOut(c, cur) /\ Sound(l, c, cur, batch) /\ Sent(c, batch)
    BY <1>7, <2>1 DEF ListenerMerge, MessageSound
  <2>3. ApplyInbound(l, c, batch) /\ epoch' = epoch
        /\ cursor' = [cursor EXCEPT ![l][c] = cur]
    BY <1>7, <2>1 DEF ListenerMerge
  <2>4. Growth /\ CounterAhead' /\ \A k \in Key : Covers(held'[l][k], batch[k])
    BY <2>1, <2>2, <2>3, ApplyInboundGrows
  <2>5. conn'[s].phase = "acked" /\ conn'[s].client = c /\ conn'[s].listener = l
    BY <1>7, <1>a, <2>1 DEF ListenerMerge, TypeOK, Connection
  <2>6. MessageSound(conn[s])'
    BY <2>1, <2>5 DEF MessageSound
  <2>7. \A r \in Slot \ {s} : conn'[r] = conn[r]
    BY <1>7 DEF ListenerMerge, TypeOK
  <2>8. \A r \in Slot \ {s} : MessageSound(conn[r])'
    BY <1>0, <2>4, <2>7, OtherConnections
  <2>9. Sound(l, c, cur, batch)'
    BY <1>0, <2>1, <2>2, <2>4, GrowthKeepsSound
  <2>10. Sound(l, c, cur, Nothing)'
    BY <1>0, <2>4, <2>9, MergedSound
  <2>11. CursorsSound'
    BY <1>0, <2>2, <2>3, <2>4, <2>10, CursorStored
  <2>12. QED
    BY <1>0, <2>4, <2>6, <2>8, <2>11
<1>8. ASSUME NEW s \in Slot, NEW c \in Node, NEW l \in Node, PushSnapshot(s, c, l)
      PROVE  IInv'
  <2> DEFINE x == [Idle EXCEPT !.phase = "push", !.client = c,
                               !.listener = l, !.batch = held[c]]
  <2>1. conn' = [conn EXCEPT ![s] = x] /\ UNCHANGED state /\ c # l
    BY <1>8 DEF PushSnapshot
  <2>2. x \in Connection
    BY <1>0, <2>1 DEF TypeOK
  <2>3. Sent(c, held[c])
    BY CoversReflexive DEF Sent, TypeOK
  <2>4. MessageSound(x)
    BY <2>1, <2>3 DEF MessageSound, Idle
  <2>5. QED
    BY <1>0, <2>1, <2>2, <2>4, MessageStep
<1>9. ASSUME NEW s \in Slot, MergePushed(s) PROVE IInv'
  <2>1. PICK c \in Node, l \in Node, batch \in [Key -> Version] :
          /\ c = conn[s].client /\ l = conn[s].listener /\ c # l
          /\ batch = conn[s].batch
    BY <1>9, <1>a DEF MergePushed
  <2>2. Sent(c, batch)
    BY <1>9, <2>1 DEF MergePushed, MessageSound
  <2>3. ApplyInbound(l, c, batch) /\ epoch' = epoch /\ cursor' = cursor
    BY <1>9, <2>1 DEF MergePushed
  <2>4. Growth /\ CounterAhead'
    BY <2>1, <2>2, <2>3, ApplyInboundGrows
  <2>5. conn'[s].phase = "pushed" /\ conn'[s].client = c /\ conn'[s].listener = l
    BY <1>9, <1>a, <2>1 DEF MergePushed, TypeOK, Connection
  <2>6. MessageSound(conn[s])'
    BY <2>1, <2>5 DEF MessageSound
  <2>7. \A r \in Slot \ {s} : conn'[r] = conn[r]
    BY <1>9 DEF MergePushed, TypeOK
  <2>8. \A r \in Slot \ {s} : MessageSound(conn[r])'
    BY <1>0, <2>4, <2>7, OtherConnections
  <2>9. CursorsSound'
    BY <1>0, <2>3, <2>4, GrowthKeepsCursors
  <2>10. QED
    BY <1>0, <2>4, <2>6, <2>8, <2>9
<1>10. ASSUME NEW s \in Slot, RequestSnapshot(s) PROVE IInv'
  <2> DEFINE x == [conn[s] EXCEPT !.phase = "request"]
  <2>1. conn' = [conn EXCEPT ![s] = x] /\ UNCHANGED state
    BY <1>10 DEF RequestSnapshot, TypeOK
  <2>2. x \in Connection
    BY <1>0, <2>1 DEF TypeOK
  <2>3. x.phase = "request" /\ x.client # x.listener
    BY <1>10, <1>a DEF RequestSnapshot, Connection
  <2>4. MessageSound(x)
    BY <2>3 DEF MessageSound
  <2>5. QED
    BY <1>0, <2>1, <2>2, <2>4, MessageStep
<1>11. ASSUME NEW s \in Slot, SendSnapshot(s) PROVE IInv'
  <2> DEFINE x == [conn[s] EXCEPT !.phase = "snapshot",
                                  !.batch = held[conn[s].listener]]
  <2>1. conn' = [conn EXCEPT ![s] = x] /\ UNCHANGED state
    BY <1>11 DEF SendSnapshot, TypeOK
  <2>2. x \in Connection
    BY <1>0, <2>1 DEF TypeOK
  <2>3. /\ x.phase = "snapshot" /\ x.client # x.listener
        /\ x.listener \in Node /\ x.batch = held[x.listener]
    BY <1>11, <1>a DEF SendSnapshot, Connection
  <2>4. Sent(x.listener, x.batch)
    BY <2>3, CoversReflexive DEF Sent, TypeOK
  <2>5. MessageSound(x)
    BY <2>3, <2>4 DEF MessageSound
  <2>6. QED
    BY <1>0, <2>1, <2>2, <2>5, MessageStep
<1>12. ASSUME NEW s \in Slot, MergePulled(s) PROVE IInv'
  <2>1. PICK c \in Node, l \in Node, batch \in [Key -> Version] :
          /\ c = conn[s].client /\ l = conn[s].listener /\ c # l
          /\ batch = conn[s].batch
    BY <1>12, <1>a DEF MergePulled
  <2>2. Sent(l, batch)
    BY <1>12, <2>1 DEF MergePulled, MessageSound
  <2>3. ApplyInbound(c, l, batch) /\ epoch' = epoch /\ cursor' = cursor
    BY <1>12, <2>1 DEF MergePulled
  <2>4. Growth /\ CounterAhead'
    BY <2>1, <2>2, <2>3, ApplyInboundGrows
  <2>5. conn'[s] = Idle /\ \A r \in Slot \ {s} : conn'[r] = conn[r]
    BY <1>12 DEF MergePulled, TypeOK
  <2>6. MessageSound(conn[s])'
    BY <2>5 DEF MessageSound, Idle
  <2>7. \A r \in Slot \ {s} : MessageSound(conn[r])'
    BY <1>0, <2>4, <2>5, OtherConnections
  <2>8. CursorsSound'
    BY <1>0, <2>3, <2>4, GrowthKeepsCursors
  <2>9. QED
    BY <1>0, <2>4, <2>6, <2>7, <2>8
<1>13. ASSUME NEW s \in Slot, Drop(s) PROVE IInv'
  BY <1>0, <1>13, IdleType, IdleSound, MessageStep DEF Drop
<1>14. CASE UNCHANGED vars
  <2>1. Growth
    BY <1>14, CoversReflexive DEF vars, Growth, TypeOK
  <2>2. CursorsSound' /\ CounterAhead'
    BY <1>0, <1>14, <2>1, GrowthKeepsCursors DEF vars, CounterAhead
  <2>3. \A r \in Slot : MessageSound(conn[r])'
    BY <1>0, <1>14, <2>1, OtherConnections DEF vars
  <2>4. QED
    BY <1>0, <2>2, <2>3
<1>15. QED
  BY <1>1, <1>2, <1>3, <1>4, <1>5, <1>6, <1>7, <1>8, <1>9, <1>10, <1>11,
     <1>12, <1>13, <1>14 DEF Next

LEMMA IInvImplies == IInv => CursorSound /\ ExcludedHeld
<1> SUFFICES ASSUME IInv, NEW p \in Node, NEW q \in Node, p # q, Resolves(p, q)
             PROVE  /\ cursor[q][p].clock <= seq[p]
                    /\ \A k \in Key :
                         seqOf[p][k] <= cursor[q][p].clock \/ origin[p][k] = q =>
                           Covers(held[q][k], held[p][k])
  BY DEF CursorSound, ExcludedHeld
<1>1. TypeOK /\ Sound(q, p, cursor[q][p], Nothing) /\ cursor[q][p] \in Cursor
  BY DEF IInv, CursorsSound, TypeOK
<1>2. cursor[q][p].epoch = epoch[p] /\ cursor[q][p].clock # 0
  BY DEF Resolves, Resolve
<1>3. QED
  BY <1>1, <1>2, SoundAlone

LEMMA StepCovers ==
  ASSUME Applier = "lww", IInv, [Next]_vars, NEW n \in Node, epoch'[n] = epoch[n],
         NEW k \in Key
  PROVE  Covers(held'[n][k], held[n][k])
<1>1. TypeOK /\ CounterAhead
  BY DEF IInv
<1>2. Covers(held[n][k], held[n][k])
  BY <1>1, CoversReflexive DEF TypeOK
<1>3. CASE held' = held
  BY <1>2, <1>3
<1>4. ASSUME NEW m \in Node, NEW j \in Key, NEW changed \in SUBSET Field,
             Set(m, j, changed)
      PROVE  Covers(held'[n][k], held[n][k])
  BY <1>1, <1>4, SetGrows DEF Growth
<1>5. ASSUME NEW m \in Node, Recreate(m)
      PROVE  Covers(held'[n][k], held[n][k])
  <2>1. m # n
    <3>1. epoch[m] \in Nat /\ epoch'[m] = epoch[m] + 1
      BY <1>1, <1>5 DEF Recreate, TypeOK
    <3>2. QED
      BY <3>1
  <2>2. held'[n] = held[n]
    BY <1>1, <1>5, <2>1 DEF Recreate, TypeOK
  <2>3. QED
    BY <1>2, <2>2
<1>6. ASSUME NEW s \in Slot, NEW to \in Node, NEW from \in Node, to # from,
             NEW batch \in [Key -> Version], Sent(from, batch),
             ApplyInbound(to, from, batch), epoch' = epoch
      PROVE  Covers(held'[n][k], held[n][k])
  BY <1>1, <1>6, ApplyInboundGrows DEF Growth
<1>7. ASSUME NEW s \in Slot,
             conn[s].phase \in {"delta", "merged", "push", "snapshot"}
      PROVE  /\ conn[s].client \in Node /\ conn[s].listener \in Node
             /\ conn[s].client # conn[s].listener
             /\ conn[s].batch \in [Key -> Version]
             /\ conn[s].phase \in {"delta", "snapshot"} =>
                  Sent(conn[s].listener, conn[s].batch)
             /\ conn[s].phase \in {"merged", "push"} =>
                  Sent(conn[s].client, conn[s].batch)
  BY <1>7 DEF IInv, TypeOK, Connection, MessageSound
<1>8. ASSUME NEW s \in Slot, ClientMerge(s)
      PROVE  Covers(held'[n][k], held[n][k])
  BY <1>6, <1>7, <1>8 DEF ClientMerge
<1>9. ASSUME NEW s \in Slot, ListenerMerge(s)
      PROVE  Covers(held'[n][k], held[n][k])
  BY <1>6, <1>7, <1>9 DEF ListenerMerge
<1>10. ASSUME NEW s \in Slot, MergePushed(s)
       PROVE  Covers(held'[n][k], held[n][k])
  BY <1>6, <1>7, <1>10 DEF MergePushed
<1>11. ASSUME NEW s \in Slot, MergePulled(s)
       PROVE  Covers(held'[n][k], held[n][k])
  BY <1>6, <1>7, <1>11 DEF MergePulled
<1>12. QED
  BY <1>3, <1>4, <1>5, <1>8, <1>9, <1>10, <1>11
     DEF Next, vars, state, ResetPeerCursors, SendSince, ListenerExport,
         PushSnapshot, RequestSnapshot, SendSnapshot, Drop

-----------------------------------------------------------------------------
(* The abstract specification: every step is one of Replicas', or stutters. *)

\* What a message brings into the air was there already, or somebody held it.
LEMMA TravelsPromised ==
  ASSUME NEW s \in Slot, \A r \in Slot \ {s} : conn'[r] = conn[r],
         \A k \in Key : conn'[s].batch[k]
                         \in {Absent, conn[s].batch[k]} \cup {held[n][k] : n \in Node}
  PROVE  Promise!Travels
<1>1. \A k \in Key : Sending(k)' \subseteq Sending(k) \cup {held[n][k] : n \in Node}
  <2> SUFFICES ASSUME NEW k \in Key, NEW r \in Slot, conn'[r].batch[k] # Absent
               PROVE  conn'[r].batch[k] \in Sending(k) \cup {held[n][k] : n \in Node}
    BY DEF Sending
  <2>1. CASE r = s
    BY <2>1 DEF Sending
  <2>2. CASE r # s
    BY <2>2 DEF Sending
  <2>3. QED
    BY <2>1, <2>2
<1>2. QED
  BY <1>1 DEF Promise!Travels

\* A local write (State::set).
LEMMA SetPromised ==
  ASSUME Applier = "lww", TypeOK, TypeOK', CounterAhead, NEW n \in Node, NEW k \in Key,
         NEW changed \in SUBSET Field, Set(n, k, changed)
  PROVE  Promise!Next
<1>1. /\ held' \in [Node -> [Key -> Version]] /\ held \in [Node -> [Key -> Version]]
      /\ held'[n][k].clock = <<counter[n] + 1, n, epoch[n]>>
      /\ \A m \in Node, j \in Key : m # n \/ j # k => held'[m][j] = held[m][j]
  BY DEF Set, TypeOK
<1>2. Promise!OnlyAt(n, {k})
  BY <1>1 DEF Promise!OnlyAt
<1>3. \A j \in Key : Promise!Earlier(held[n][j], held'[n][k])
  <2> SUFFICES ASSUME NEW j \in Key PROVE Promise!Earlier(held[n][j], held'[n][k])
    OBVIOUS
  <2>1. held[n][j].clock[1] <= counter[n] /\ held[n][j].clock[1] \in Nat /\ counter[n] \in Nat
    BY <1>1 DEF CounterAhead, Version, Clock, TypeOK
  <2>2. QED
    BY <1>1, <2>1 DEF Promise!Earlier
<1>4. UNCHANGED [j \in Key |-> Sending(j)]
  BY DEF Set, Sending
<1>5. Promise!Write(n, k)
  BY <1>1, <1>2, <1>3, <1>4 DEF Promise!Write
<1>6. QED
  BY <1>5 DEF Promise!Next

\* A lost state (State::new).
LEMMA RecreatePromised ==
  ASSUME TypeOK, NEW n \in Node, Recreate(n)
  PROVE  Promise!Next
<1>1. held' = [held EXCEPT ![n] = Nothing] /\ held'[n] = [k \in Key |-> Absent]
  BY DEF Recreate, Nothing, TypeOK
<1>2. Promise!OnlyAt(n, Key)
  BY <1>1 DEF Promise!OnlyAt, Nothing
<1>3. UNCHANGED [k \in Key |-> Sending(k)]
  BY DEF Recreate, Sending
<1>4. Promise!Lose(n)
  BY <1>1, <1>2, <1>3 DEF Promise!Lose
<1>5. QED
  BY <1>4 DEF Promise!Next

\* Merging a message (apply_inbound under last-writer-wins).
LEMMA MergePromised ==
  ASSUME Applier = "lww", TypeOK, NEW n \in Node, NEW s \in Slot,
         NEW from, ApplyInbound(n, from, conn[s].batch), Promise!Travels
  PROVE  Promise!Next
<1> DEFINE batch == conn[s].batch
<1>1. /\ held' = [held EXCEPT ![n] = MergedWith(n, batch)]
      /\ held \in [Node -> [Key -> Version]] /\ batch \in [Key -> Version]
      /\ held'[n] = [k \in Key |-> Merge(held[n][k], batch[k])]
  BY DEF ApplyInbound, TypeOK, Connection, MergedWith
<1>2. Promise!OnlyAt(n, Key)
  BY <1>1 DEF Promise!OnlyAt
<1>3. ASSUME NEW k \in Key, held'[n][k] # held[n][k]
      PROVE  held'[n][k] \in Sending(k) /\ Promise!Earlier(held[n][k], held'[n][k])
  <2>1. held'[n][k] = batch[k] /\ Less(held[n][k].clock, batch[k].clock)
    BY <1>1, <1>3 DEF Merge
  <2>2. batch[k] # Absent
    BY <1>1, <2>1 DEF Less, Absent, NoClock, Version, Clock
  <2>3. QED
    BY <2>1, <2>2 DEF Sending, Less, Promise!Earlier
<1>4. Promise!Learn(n)
  BY <1>2, <1>3 DEF Promise!Learn
<1>5. QED
  BY <1>4 DEF Promise!Next

LEMMA StepPromised ==
  ASSUME Applier = "lww", IInv, [Next]_vars
  PROVE  [Promise!Next]_Promise!vars
<1>1. TypeOK /\ CounterAhead /\ TypeOK'
  BY IInvStep DEF IInv
<1>2. \A s \in Slot : conn[s] \in Connection
  BY <1>1 DEF TypeOK
<1>3. conn \in [Slot -> Connection]
  BY <1>1 DEF TypeOK
<1>4. ASSUME NEW n \in Node, NEW k \in Key, NEW changed \in SUBSET Field, Set(n, k, changed)
      PROVE  Promise!Next
  BY <1>1, <1>4, SetPromised
<1>5. ASSUME NEW n \in Node, Recreate(n) PROVE Promise!Next
  BY <1>1, <1>5, RecreatePromised
<1>6. ASSUME NEW n \in Node, ResetPeerCursors(n) PROVE UNCHANGED Promise!vars
  BY <1>6 DEF ResetPeerCursors, Promise!vars, Sending
<1>7. ASSUME NEW s \in Slot, ListenerExport(s) PROVE Promise!Next
  <2>1. conn[s].listener \in Node
    BY <1>1, <1>7 DEF ListenerExport, TypeOK
  <2>2. Promise!Travels
    BY TravelsPromised, <1>2, <1>3, <1>7, <2>1 DEF ListenerExport, Delta, Connection
  <2>3. QED
    BY <1>7, <2>2 DEF ListenerExport, state, Promise!Send, Promise!Next
<1>8. ASSUME NEW s \in Slot, ClientMerge(s) PROVE Promise!Next
  <2>1. conn[s].client \in Node
    BY <1>1, <1>8 DEF ClientMerge, TypeOK
  <2>2. Promise!Travels
    BY TravelsPromised, <1>2, <1>3, <1>8, <2>1 DEF ClientMerge, Delta, Connection
  <2>3. QED
    BY <1>1, <1>8, <2>1, <2>2, MergePromised DEF ClientMerge
<1>9. ASSUME NEW s \in Slot, ListenerMerge(s) PROVE Promise!Next
  <2>1. conn[s].listener \in Node
    BY <1>1, <1>9 DEF ListenerMerge, TypeOK
  <2>2. Promise!Travels
    BY TravelsPromised, <1>2, <1>3, <1>9 DEF ListenerMerge, Nothing, Connection
  <2>3. QED
    BY <1>1, <1>9, <2>1, <2>2, MergePromised DEF ListenerMerge
<1>10. ASSUME NEW s \in Slot, MergePushed(s) PROVE Promise!Next
  <2>1. conn[s].listener \in Node
    BY <1>1, <1>10 DEF MergePushed, TypeOK
  <2>2. Promise!Travels
    BY TravelsPromised, <1>2, <1>3, <1>10 DEF MergePushed, Nothing, Connection
  <2>3. QED
    BY <1>1, <1>10, <2>1, <2>2, MergePromised DEF MergePushed
<1>11. ASSUME NEW s \in Slot, MergePulled(s) PROVE Promise!Next
  <2>1. conn[s].client \in Node
    BY <1>1, <1>11 DEF MergePulled, TypeOK
  <2>2. Promise!Travels
    BY TravelsPromised, <1>2, <1>3, <1>11 DEF MergePulled, Idle, Nothing
  <2>3. QED
    BY <1>1, <1>11, <2>1, <2>2, MergePromised DEF MergePulled
<1>12. ASSUME NEW s \in Slot, NEW c \in Node, NEW l \in Node,
              SendSince(s, c, l) \/ PushSnapshot(s, c, l)
       PROVE  Promise!Next
  <2>0. /\ \A r \in Slot \ {s} : conn'[r] = conn[r]
        /\ conn'[s].batch = Nothing \/ conn'[s].batch = held[c]
    BY <1>3, <1>12 DEF SendSince, PushSnapshot, Idle
  <2>1. Promise!Travels
    BY TravelsPromised, <2>0 DEF Nothing
  <2>2. QED
    BY <1>12, <2>1 DEF SendSince, PushSnapshot, state, Promise!Send, Promise!Next
<1>13. ASSUME NEW s \in Slot, RequestSnapshot(s) \/ SendSnapshot(s) \/ Drop(s)
       PROVE  Promise!Next
  <2>1. CASE RequestSnapshot(s)
    <3>1. Promise!Travels
      BY TravelsPromised, <1>2, <1>3, <2>1 DEF RequestSnapshot, Connection
    <3>2. QED
      BY <2>1, <3>1 DEF RequestSnapshot, state, Promise!Send, Promise!Next
  <2>2. CASE SendSnapshot(s)
    <3>1. conn[s].listener \in Node
      BY <1>1, <2>2 DEF SendSnapshot, TypeOK
    <3>2. Promise!Travels
      BY TravelsPromised, <1>2, <1>3, <2>2, <3>1 DEF SendSnapshot, Connection
    <3>3. QED
      BY <2>2, <3>2 DEF SendSnapshot, state, Promise!Send, Promise!Next
  <2>3. CASE Drop(s)
    <3>1. Promise!Travels
      BY TravelsPromised, <1>2, <1>3, <2>3 DEF Drop, Idle, Nothing
    <3>2. QED
      BY <2>3, <3>1 DEF Drop, state, Promise!Send, Promise!Next
  <2>4. QED
    BY <1>13, <2>1, <2>2, <2>3
<1>14. CASE UNCHANGED vars
  BY <1>14 DEF vars, Promise!vars, Sending
<1>15. QED
  BY <1>4, <1>5, <1>6, <1>7, <1>8, <1>9, <1>10, <1>11, <1>12, <1>13, <1>14 DEF Next

-----------------------------------------------------------------------------
(* Theorems *)

\* Under last-writer-wins the inductive invariant holds of every reachable
\* state.
THEOREM Inductive == ASSUME Applier = "lww" PROVE Spec => []IInv
<1>1. IInv /\ [Next]_vars => IInv'
  BY IInvStep
<1>2. QED
  BY <1>1, IInvInit, PTL DEF Spec

\* A cursor stored for a peer is never ahead of what its owner has merged, so
\* no delta skips a version its receiver lacks (State::delta_since, set_peer_cursor).
THEOREM CursorsAreSound == ASSUME Applier = "lww" PROVE Spec => []CursorSound
<1>1. QED
  BY Inductive, IInvImplies, PTL

\* state.rs 162-164: a version received from a peer may be left out of the
\* deltas for that peer, because that peer still holds it or something newer.
THEOREM ExcludedIsHeld == ASSUME Applier = "lww" PROVE Spec => []ExcludedHeld
<1>1. QED
  BY Inductive, IInvImplies, PTL

\* The Lamport counter of a device is never behind a version it holds.
THEOREM CounterStaysAhead == ASSUME Applier = "lww" PROVE Spec => []CounterAhead
<1>1. IInv => CounterAhead
  BY DEF IInv
<1>2. QED
  BY <1>1, Inductive, PTL

\* No step but the recreation of a device's state takes back a version it
\* holds: late, repeated and crossed exchanges and local writes only add.
THEOREM NeverRegresses == ASSUME Applier = "lww" PROVE Spec => HeldGrows
<1>1. IInv /\ [Next]_vars =>
        [\A n \in Node : epoch'[n] = epoch[n] =>
           \A k \in Key : Covers(held'[n][k], held[n][k])]_vars
  BY StepCovers
<1>2. QED
  BY <1>1, Inductive, PTL DEF Spec, HeldGrows
\* Under last-writer-wins the state of state.rs and the exchanges of sync.rs
\* implement replicas whose registers only move to later versions that were
\* written there or sent by a device that held them.
THEOREM ImplementsReplicas == ASSUME Applier = "lww" PROVE Spec => Implements
<1>1. Init => Promise!Init
  <2> SUFFICES ASSUME Init PROVE Promise!Init
    OBVIOUS
  <2>1. \A k \in Key : Sending(k) = {}
    BY DEF Init, Sending, Idle, Nothing
  <2>2. QED
    BY <2>1 DEF Init, Nothing, Promise!Init
<1>2. IInv /\ [Next]_vars => [Promise!Next]_Promise!vars
  BY StepPromised
<1>3. QED
  BY <1>1, <1>2, Inductive, PTL DEF Spec, Implements, Promise!Spec
=============================================================================
