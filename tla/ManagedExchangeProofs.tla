------------------------ MODULE ManagedExchangeProofs -------------------------
(***************************************************************************)
(* What receipts, pending changes and consent mean in exchanges between    *)
(* managed sessions, for any number of devices, records and connections,   *)
(* whatever is lost, repeated, late, removed or repaired.                  *)
(***************************************************************************)
EXTENDS ManagedExchange, TLAPS, FiniteSetTheorems

-----------------------------------------------------------------------------
(* The inductive invariant: what every receipt, batch and preview promises  *)
(* of the journals and applications as they are.                           *)

\* The journals and what the applications have committed.
World == [records |-> records, revision |-> revision, sequence |-> sequence,
          origin |-> origin, app |-> app]

Stamp == Nat \X Nat
AnyReceipt == [epoch : Node \cup {0}, sequence : Nat, proof : Nat]
Worlds == [records : [Node -> [Key -> Stamp]], revision : [Node -> Nat],
           sequence : [Node -> [Key -> Nat]], origin : [Node -> [Key -> Node \cup {0}]],
           app : [Node -> [Key -> Stamp]]]

\* The records `copy` are no older than those n had at r.
Reached(w, copy, n, r) ==
  r.epoch = n =>
    /\ r.sequence <= w.revision[n]
    /\ \A k \in Key : w.sequence[n][k] <= r.sequence => ~Less(copy[k], w.records[n][k])

\* Once p has merged the batch it holds what n had at its checkpoint, and the
\* batch holds nothing that n does not.
Offered(w, n, p, batch) ==
  /\ batch.checkpoint.epoch = n
  /\ batch.checkpoint.sequence <= w.revision[n]
  /\ \A k \in Key :
       /\ ~Less(w.records[n][k], batch.records[k])
       /\ w.sequence[n][k] <= batch.checkpoint.sequence =>
            \/ ~Less(batch.records[k], w.records[n][k])
            \/ ~Less(w.records[p][k], w.records[n][k])

\* A record that n has from p is held by p, and no application is ahead of its
\* device.
StoreHolds(w) ==
  /\ \A n, p \in Node, k \in Key :
       w.origin[n][k] = p => ~Less(w.records[p][k], w.records[n][k])
  /\ \A n \in Node, k \in Key : ~Less(w.records[n][k], w.app[n][k])

\* n's journal entry e for p.
EntryHolds(w, n, p, e) ==
  /\ Reached(w, w.records[p], n, e.stored)
  /\ Reached(w, w.records[n], p, e.received)
  /\ Reached(w, w.app[p], n, e.applied)
  /\ Reached(w, w.app[n], p, e.processed)
  /\ e.pending # NoPreview => n # p /\ Offered(w, p, n, e.pending.batch)

\* The snapshot i of n's application.
InboxHolds(w, n, i) ==
  /\ \A k \in Key : ~Less(w.records[n][k], i.records[k])
  /\ i.done => \A k \in Key : ~Less(w.app[n][k], i.records[k])
  /\ \A p \in Node : Reached(w, i.records, p, i.receipts[p])

\* What the message on connection x promises in each phase.
From(x) == IF x.back THEN x.listener ELSE x.client
To(x) == IF x.back THEN x.client ELSE x.listener
MessageHolds(w, x) ==
  /\ x.client \in Node /\ x.listener \in Node /\ x.client # x.listener
  /\ Reached(w, w.records[x.client], x.listener, x.back_cursor)
  /\ x.phase = "hello" =>
       /\ Reached(w, w.records[x.client], x.listener, x.received)
       /\ Reached(w, w.app[x.client], x.listener, x.processed)
       /\ ~x.back
  /\ x.phase = "hello_back" =>
       /\ Reached(w, w.records[x.listener], x.client, x.received)
       /\ Reached(w, w.app[x.listener], x.client, x.processed)
       /\ ~x.back
  /\ x.phase = "export" => Reached(w, w.records[To(x)], From(x), x.cursor)
  /\ x.phase = "delta" => Offered(w, From(x), To(x), x.batch)
  /\ x.phase = "ack" => Reached(w, w.records[To(x)], From(x), x.batch.checkpoint)

EntriesHold == \A n, p \in Node : EntryHolds(World, n, p, peer[n][p])
InboxesHold == \A n \in Node : InboxHolds(World, n, inbox[n])
MessagesHold == \A s \in Slot : conn[s].phase # "idle" => MessageHolds(World, conn[s])

IInv ==
  /\ TypeOK
  /\ StoreHolds(World)
  /\ EntriesHold
  /\ InboxesHold
  /\ MessagesHold

-----------------------------------------------------------------------------
(* The order of clocks *)

LEMMA LessOrders ==
  /\ \A a \in Stamp : ~Less(a, a)
  /\ \A a, b \in Stamp : ~Less(a, b) \/ ~Less(b, a)
  /\ \A a, b, c \in Stamp : ~Less(a, b) /\ ~Less(b, c) => ~Less(a, c)
  /\ \A a \in Stamp : ~Less(a, Absent)
  /\ \A a, b \in Stamp : ~Less(a, b) /\ ~Less(b, a) => a = b
BY DEF Less, Stamp, Absent

LEMMA LaterIsNoOlder ==
  ASSUME NEW a \in Stamp, NEW b \in Stamp
  PROVE  /\ Later(a, b) \in {a, b}
         /\ ~Less(Later(a, b), a)
         /\ ~Less(Later(a, b), b)
         /\ Less(a, b) <=> Later(a, b) # a
BY LessOrders DEF Later

\* What the bounds of a behaviour leave of clocks and receipts.
LEMMA Typed ==
  ASSUME TypeOK
  PROVE  /\ Clock \subseteq Stamp
         /\ Absent \in Clock
         /\ NoReceipt \in Receipt
         /\ NoBatch \in Batch
         /\ World \in Worlds
         /\ Receipt \subseteq AnyReceipt
         /\ scope.counter \in Nat /\ scope.incarnations \in Nat
<1>1. scope.counter \in Nat /\ scope.incarnations \in Nat /\ Node \subseteq Nat
  BY ExchangeConstants DEF TypeOK
<1>2. Clock \subseteq Stamp /\ Absent \in Clock
  <2>1. Absent \in Stamp
    BY DEF Absent, Stamp
  <2>2. (1 .. scope.counter) \X Node \subseteq Stamp
    <3>1. 1 .. scope.counter \subseteq Nat
      BY <1>1
    <3> QED  BY <1>1, <3>1 DEF Stamp
  <2> QED  BY <2>1, <2>2 DEF Clock
<1>3. NoReceipt \in Receipt /\ Receipt \subseteq AnyReceipt
  BY <1>1 DEF NoReceipt, Receipt, AnyReceipt
<1>4. NoBatch \in Batch
  BY <1>2, <1>3 DEF NoBatch, Batch
<1>5. World \in Worlds
  <2>1. records \in [Node -> [Key -> Stamp]] /\ app \in [Node -> [Key -> Stamp]]
    BY <1>2 DEF TypeOK
  <2> QED  BY <2>1 DEF TypeOK, World, Worlds
<1> QED  BY <1>1, <1>2, <1>3, <1>4, <1>5

LEMMA TypesStay ==
  ASSUME scope' = scope
  PROVE  /\ Clock' = Clock /\ Receipt' = Receipt /\ Batch' = Batch
         /\ PeerState' = PeerState /\ ConnState' = ConnState
         /\ InboxState' = InboxState
BY DEF Clock, Receipt, Batch, PeerState, ConnState, InboxState, State

-----------------------------------------------------------------------------
(* Promises survive what happens to the journals *)

\* Journals and applications only move forward, and what changes in a journal
\* gets a number after those handed out.
Onward(w, v) ==
  \A n \in Node :
    /\ w.revision[n] <= v.revision[n]
    /\ \A k \in Key :
         /\ ~Less(v.records[n][k], w.records[n][k])
         /\ ~Less(v.app[n][k], w.app[n][k])
         /\ \/ /\ v.sequence[n][k] = w.sequence[n][k]
               /\ v.records[n][k] = w.records[n][k]
            \/ v.sequence[n][k] > w.revision[n]

LEMMA ReachedOnward ==
  ASSUME NEW w \in Worlds, NEW v \in Worlds, Onward(w, v), NEW n \in Node,
         NEW copy \in [Key -> Stamp], NEW later \in [Key -> Stamp],
         \A k \in Key : ~Less(later[k], copy[k]),
         NEW r \in AnyReceipt, Reached(w, copy, n, r)
  PROVE  Reached(v, later, n, r)
<1> SUFFICES ASSUME r.epoch = n
             PROVE  /\ r.sequence <= v.revision[n]
                    /\ \A k \in Key : v.sequence[n][k] <= r.sequence =>
                         ~Less(later[k], v.records[n][k])
  BY DEF Reached
<1>1. r.sequence <= w.revision[n] /\ w.revision[n] <= v.revision[n]
  BY DEF Reached, Onward
<1>2. r.sequence \in Nat /\ w.revision[n] \in Nat /\ v.revision[n] \in Nat
  BY DEF AnyReceipt, Worlds
<1>3. ASSUME NEW k \in Key, v.sequence[n][k] <= r.sequence
      PROVE  ~Less(later[k], v.records[n][k])
  <2>1. v.sequence[n][k] \in Nat
    BY DEF Worlds
  <2>2. v.sequence[n][k] = w.sequence[n][k] /\ v.records[n][k] = w.records[n][k]
    BY <1>1, <1>2, <1>3, <2>1 DEF Onward
  <2>3. ~Less(copy[k], w.records[n][k])
    BY <1>3, <2>2 DEF Reached
  <2>4. later[k] \in Stamp /\ copy[k] \in Stamp /\ w.records[n][k] \in Stamp
    BY DEF Worlds
  <2> QED  BY <2>2, <2>3, <2>4, LessOrders
<1> QED  BY <1>1, <1>2, <1>3

LEMMA OfferedOnward ==
  ASSUME NEW w \in Worlds, NEW v \in Worlds, Onward(w, v), NEW n \in Node, NEW p \in Node,
         NEW batch, batch.checkpoint \in AnyReceipt, batch.records \in [Key -> Stamp],
         Offered(w, n, p, batch)
  PROVE  Offered(v, n, p, batch)
<1>1. /\ batch.checkpoint.sequence <= w.revision[n]
      /\ w.revision[n] <= v.revision[n]
      /\ batch.checkpoint.sequence \in Nat
      /\ w.revision[n] \in Nat /\ v.revision[n] \in Nat
  BY DEF Offered, Onward, AnyReceipt, Worlds
<1>2. ASSUME NEW k \in Key
      PROVE  /\ ~Less(v.records[n][k], batch.records[k])
             /\ v.sequence[n][k] <= batch.checkpoint.sequence =>
                  \/ ~Less(batch.records[k], v.records[n][k])
                  \/ ~Less(v.records[p][k], v.records[n][k])
  <2>1. /\ v.records[n][k] \in Stamp /\ w.records[n][k] \in Stamp
        /\ v.records[p][k] \in Stamp /\ w.records[p][k] \in Stamp
        /\ batch.records[k] \in Stamp /\ v.sequence[n][k] \in Nat
    BY DEF Worlds
  <2>2. ~Less(v.records[n][k], w.records[n][k]) /\ ~Less(v.records[p][k], w.records[p][k])
    BY DEF Onward
  <2>3. ~Less(w.records[n][k], batch.records[k])
    BY DEF Offered
  <2>4. ~Less(v.records[n][k], batch.records[k])
    BY <2>1, <2>2, <2>3, LessOrders
  <2>5. ASSUME v.sequence[n][k] <= batch.checkpoint.sequence
        PROVE  \/ ~Less(batch.records[k], v.records[n][k])
               \/ ~Less(v.records[p][k], v.records[n][k])
    <3>1. v.sequence[n][k] = w.sequence[n][k] /\ v.records[n][k] = w.records[n][k]
      BY <1>1, <2>1, <2>5 DEF Onward
    <3>2. \/ ~Less(batch.records[k], w.records[n][k])
          \/ ~Less(w.records[p][k], w.records[n][k])
      BY <2>5, <3>1 DEF Offered
    <3> QED  BY <2>1, <2>2, <3>1, <3>2, LessOrders
  <2> QED  BY <2>4, <2>5
<1> QED  BY <1>1, <1>2 DEF Offered

LEMMA OnwardStays ==
  ASSUME NEW w \in Worlds
  PROVE  Onward(w, w)
<1>1. ASSUME NEW n \in Node, NEW k \in Key
      PROVE  w.records[n][k] \in Stamp /\ w.app[n][k] \in Stamp
  BY DEF Worlds
<1>2. \A n \in Node : w.revision[n] \in Nat
  BY DEF Worlds
<1> QED  BY <1>1, <1>2, LessOrders DEF Onward

LEMMA CopiesGrow ==
  ASSUME NEW w \in Worlds, NEW v \in Worlds, Onward(w, v), NEW n \in Node
  PROVE  /\ w.records[n] \in [Key -> Stamp] /\ v.records[n] \in [Key -> Stamp]
         /\ w.app[n] \in [Key -> Stamp] /\ v.app[n] \in [Key -> Stamp]
         /\ \A k \in Key : ~Less(v.records[n][k], w.records[n][k])
         /\ \A k \in Key : ~Less(v.app[n][k], w.app[n][k])
BY DEF Worlds, Onward

LEMMA EntryOnward ==
  ASSUME TypeOK, NEW w \in Worlds, NEW v \in Worlds, Onward(w, v),
         NEW n \in Node, NEW p \in Node, NEW e \in PeerState, EntryHolds(w, n, p, e)
  PROVE  EntryHolds(v, n, p, e)
<1>1. {e.stored, e.received, e.applied, e.processed} \subseteq AnyReceipt
  BY Typed DEF PeerState
<1>2. Reached(v, v.records[p], n, e.stored) /\ Reached(v, v.app[p], n, e.applied)
  BY <1>1, ReachedOnward, CopiesGrow, SMTT(30) DEF EntryHolds
<1>3. Reached(v, v.records[n], p, e.received) /\ Reached(v, v.app[n], p, e.processed)
  BY <1>1, ReachedOnward, CopiesGrow, SMTT(30) DEF EntryHolds
<1>4. ASSUME e.pending # NoPreview
      PROVE  n # p /\ Offered(v, p, n, e.pending.batch)
  <2>1. e.pending.batch \in Batch
    BY DEF PeerState
  <2>2. /\ e.pending.batch.checkpoint \in AnyReceipt
        /\ e.pending.batch.records \in [Key -> Stamp]
    BY <2>1, Typed DEF Batch
  <2> QED  BY <1>4, <2>2, OfferedOnward DEF EntryHolds
<1> QED  BY <1>2, <1>3, <1>4 DEF EntryHolds

LEMMA InboxOnward ==
  ASSUME TypeOK, NEW w \in Worlds, NEW v \in Worlds, Onward(w, v),
         NEW n \in Node, NEW i \in InboxState, InboxHolds(w, n, i)
  PROVE  InboxHolds(v, n, i)
<1>1. i.records \in [Key -> Stamp]
  BY Typed DEF InboxState
<1>2. \A k \in Key : ~Less(v.records[n][k], i.records[k])
  <2> TAKE k \in Key
  <2>1. /\ i.records[k] \in Stamp /\ w.records[n][k] \in Stamp
        /\ v.records[n][k] \in Stamp
    BY <1>1 DEF Worlds
  <2>2. ~Less(w.records[n][k], i.records[k])
    BY DEF InboxHolds
  <2>3. ~Less(v.records[n][k], w.records[n][k])
    BY DEF Onward
  <2> QED  BY <2>1, <2>2, <2>3, LessOrders
<1>3. ASSUME i.done, NEW k \in Key
      PROVE  ~Less(v.app[n][k], i.records[k])
  <2>1. i.records[k] \in Stamp /\ w.app[n][k] \in Stamp /\ v.app[n][k] \in Stamp
    BY <1>1 DEF Worlds
  <2>2. ~Less(w.app[n][k], i.records[k])
    BY <1>3 DEF InboxHolds
  <2>3. ~Less(v.app[n][k], w.app[n][k])
    BY DEF Onward
  <2> QED  BY <2>1, <2>2, <2>3, LessOrders
<1>4. \A p \in Node : Reached(v, i.records, p, i.receipts[p])
  <2> TAKE p \in Node
  <2>1. i.receipts[p] \in AnyReceipt
    BY Typed DEF InboxState
  <2>2. \A k \in Key : ~Less(i.records[k], i.records[k])
    BY <1>1, LessOrders
  <2>3. Reached(w, i.records, p, i.receipts[p])
    BY DEF InboxHolds
  <2> QED  BY <1>1, <2>1, <2>2, <2>3, ReachedOnward
<1> QED  BY <1>2, <1>3, <1>4 DEF InboxHolds

LEMMA MessageOnward ==
  ASSUME TypeOK, NEW w \in Worlds, NEW v \in Worlds, Onward(w, v),
         NEW x \in ConnState, MessageHolds(w, x)
  PROVE  MessageHolds(v, x)
<1>1. x.client \in Node /\ x.listener \in Node /\ x.client # x.listener
  BY DEF MessageHolds
<1>2. From(x) \in Node /\ To(x) \in Node
  BY <1>1 DEF From, To
<1>3. {x.received, x.processed, x.cursor, x.back_cursor, x.batch.checkpoint}
        \subseteq AnyReceipt
  BY Typed DEF ConnState, Batch
<1>4. x.batch.records \in [Key -> Stamp]
  BY Typed DEF ConnState, Batch
<1>5. Reached(v, v.records[x.client], x.listener, x.back_cursor)
  BY <1>1, <1>3, ReachedOnward, CopiesGrow DEF MessageHolds
<1>6. x.phase = "hello" =>
        /\ Reached(v, v.records[x.client], x.listener, x.received)
        /\ Reached(v, v.app[x.client], x.listener, x.processed)
        /\ ~x.back
  BY <1>1, <1>3, ReachedOnward, CopiesGrow, SMTT(30) DEF MessageHolds
<1>7. x.phase = "hello_back" =>
        /\ Reached(v, v.records[x.listener], x.client, x.received)
        /\ Reached(v, v.app[x.listener], x.client, x.processed)
        /\ ~x.back
  BY <1>1, <1>3, ReachedOnward, CopiesGrow, SMTT(30) DEF MessageHolds
<1>8. x.phase = "export" => Reached(v, v.records[To(x)], From(x), x.cursor)
  BY <1>2, <1>3, ReachedOnward, CopiesGrow DEF MessageHolds
<1>9. x.phase = "delta" => Offered(v, From(x), To(x), x.batch)
  BY <1>2, <1>3, <1>4, OfferedOnward DEF MessageHolds
<1>10. x.phase = "ack" => Reached(v, v.records[To(x)], From(x), x.batch.checkpoint)
  BY <1>2, <1>3, ReachedOnward, CopiesGrow DEF MessageHolds
<1> QED  BY <1>1, <1>5, <1>6, <1>7, <1>8, <1>9, <1>10 DEF MessageHolds

-----------------------------------------------------------------------------
(* Merging *)

\* Every record that changes takes a number of its own after the last one.
LEMMA MergeMoves ==
  ASSUME TypeOK, NEW n \in Node, NEW from \in Node \cup {0},
         NEW batch \in [Key -> Clock], Merge(n, batch, from)
  PROVE  /\ records' \in [Node -> [Key -> Clock]]
         /\ revision' \in [Node -> Nat]
         /\ sequence' \in [Node -> [Key -> Nat]]
         /\ origin' \in [Node -> [Key -> Node \cup {0}]]
         /\ revision[n] <= revision'[n]
         /\ \A m \in Node \ {n} :
              /\ records'[m] = records[m] /\ revision'[m] = revision[m]
              /\ sequence'[m] = sequence[m] /\ origin'[m] = origin[m]
         /\ \A k \in Key :
              /\ records'[n][k] = Later(records[n][k], batch[k])
              /\ IF records'[n][k] = records[n][k]
                 THEN sequence'[n][k] = sequence[n][k] /\ origin'[n][k] = origin[n][k]
                 ELSE /\ sequence'[n][k] > revision[n]
                      /\ sequence'[n][k] <= revision'[n]
                      /\ origin'[n][k] = from
<1> DEFINE merged == [k \in Key |-> Later(records[n][k], batch[k])]
           changed == {k \in Key : merged[k] # records[n][k]}
           upTo(k) == {j \in changed : j <= k}
<1>1. merged \in [Key -> Clock]
  <2> SUFFICES ASSUME NEW k \in Key
               PROVE  Later(records[n][k], batch[k]) \in Clock
    OBVIOUS
  <2>1. records[n][k] \in Clock /\ batch[k] \in Clock
    BY DEF TypeOK
  <2> QED  BY <2>1 DEF Later
<1>2. IsFiniteSet(changed) /\ Cardinality(changed) \in Nat
  BY ExchangeConstants, FS_Subset, FS_CardinalityType
<1>3. ASSUME NEW k \in changed
      PROVE  /\ Cardinality(upTo(k)) \in Nat
             /\ 1 <= Cardinality(upTo(k))
             /\ Cardinality(upTo(k)) <= Cardinality(changed)
  <2>1. upTo(k) \subseteq changed
    OBVIOUS
  <2>2. IsFiniteSet(upTo(k)) /\ Cardinality(upTo(k)) <= Cardinality(changed)
    BY <1>2, <2>1, FS_Subset
  <2>3. Cardinality(upTo(k)) \in Nat
    BY <2>2, FS_CardinalityType
  <2>4. k \in upTo(k)
    <3>1. k \in Nat
      BY ExchangeConstants
    <3> QED  BY <3>1
  <2>5. Cardinality(upTo(k)) # 0
    BY <2>2, <2>4, FS_EmptySet
  <2> QED  BY <2>2, <2>3, <2>5
<1>4. /\ records' = [records EXCEPT ![n] = merged]
      /\ revision' = [revision EXCEPT ![n] = @ + Cardinality(changed)]
      /\ sequence' = [sequence EXCEPT ![n] = [k \in Key |->
           IF k \in changed THEN revision[n] + Cardinality(upTo(k)) ELSE sequence[n][k]]]
      /\ origin' = [origin EXCEPT ![n] = [k \in Key |->
           IF k \in changed THEN from ELSE origin[n][k]]]
  BY DEF Merge
<1> HIDE DEF merged, changed, upTo
<1>5. /\ records \in [Node -> [Key -> Clock]] /\ revision \in [Node -> Nat]
      /\ sequence \in [Node -> [Key -> Nat]]
      /\ origin \in [Node -> [Key -> Node \cup {0}]]
  BY DEF TypeOK
<1>6. /\ records'[n] = merged
      /\ revision'[n] = revision[n] + Cardinality(changed)
      /\ \A k \in Key : sequence'[n][k] =
           IF k \in changed THEN revision[n] + Cardinality(upTo(k)) ELSE sequence[n][k]
      /\ \A k \in Key : origin'[n][k] = IF k \in changed THEN from ELSE origin[n][k]
  BY <1>4, <1>5
<1>7. \A k \in Key : merged[k] = Later(records[n][k], batch[k])
  BY DEF merged
<1>8. \A k \in Key : k \in changed <=> merged[k] # records[n][k]
  BY DEF changed
<1>9. /\ records' \in [Node -> [Key -> Clock]] /\ revision' \in [Node -> Nat]
      /\ origin' \in [Node -> [Key -> Node \cup {0}]]
  BY <1>1, <1>2, <1>4, <1>5
<1>10. sequence' \in [Node -> [Key -> Nat]]
  <2>1. [k \in Key |-> IF k \in changed THEN revision[n] + Cardinality(upTo(k))
                       ELSE sequence[n][k]] \in [Key -> Nat]
    BY <1>3, <1>5
  <2> QED  BY <1>4, <1>5, <2>1
<1>11. \A m \in Node \ {n} :
        /\ records'[m] = records[m] /\ revision'[m] = revision[m]
        /\ sequence'[m] = sequence[m] /\ origin'[m] = origin[m]
  BY <1>4, <1>5
<1>12. revision[n] \in Nat
  BY <1>5
<1>13. ASSUME NEW k \in Key
       PROVE  /\ records'[n][k] = Later(records[n][k], batch[k])
              /\ IF records'[n][k] = records[n][k]
                 THEN sequence'[n][k] = sequence[n][k] /\ origin'[n][k] = origin[n][k]
                 ELSE /\ sequence'[n][k] > revision[n]
                      /\ sequence'[n][k] <= revision'[n]
                      /\ origin'[n][k] = from
  <2>1. CASE k \in changed
    <3>1. sequence'[n][k] = revision[n] + Cardinality(upTo(k)) /\ origin'[n][k] = from
      BY <1>6, <2>1
    <3> QED  BY <1>2, <1>3, <1>6, <1>7, <1>8, <1>12, <2>1, <3>1
  <2>2. CASE k \notin changed
    BY <1>6, <1>7, <1>8, <2>2
  <2> QED  BY <2>1, <2>2
<1>14. revision[n] <= revision'[n]
  BY <1>2, <1>6, <1>12
<1> QED  BY <1>9, <1>10, <1>11, <1>13, <1>14

-----------------------------------------------------------------------------
(* Types *)

StoreType ==
  /\ records \in [Node -> [Key -> Clock]]
  /\ revision \in [Node -> Nat]
  /\ sequence \in [Node -> [Key -> Nat]]
  /\ \A n \in Node, k \in Key : sequence[n][k] <= revision[n]
  /\ origin \in [Node -> [Key -> Node \cup {0}]]
  /\ app \in [Node -> [Key -> Clock]]

PeersType ==
  /\ peer \in [Node -> [Node -> PeerState]]
  /\ \A n, p \in Node :
       /\ peer[n][p].incarnation <= minted
       /\ peer[n][p].bootstrapped <=> peer[n][p].received # NoReceipt

LEMMA TypeNext ==
  ASSUME TypeOK, scope' = scope, StoreType', PeersType',
         conn' \in [Slot -> ConnState], inbox' \in [Node -> InboxState],
         minted' \in 1 .. scope.incarnations, joining' \in [Node -> [Node -> BOOLEAN]]
  PROVE  TypeOK'
<1>1. ConnState' = ConnState /\ InboxState' = InboxState
  BY TypesStay
<1>2. conn' \in [Slot -> ConnState'] /\ inbox' \in [Node -> InboxState']
  BY <1>1
<1> QED  BY <1>2 DEF TypeOK, StoreType, PeersType

LEMMA StoreTypeStays ==
  ASSUME TypeOK, UNCHANGED <<store, app, scope>>
  PROVE  StoreType'
BY TypesStay DEF TypeOK, StoreType, store

LEMMA MergeTyped ==
  ASSUME TypeOK, scope' = scope, NEW n \in Node, NEW from \in Node \cup {0},
         NEW batch \in [Key -> Clock], Merge(n, batch, from),
         app' \in [Node -> [Key -> Clock]]
  PROVE  StoreType'
<1>1. Clock' = Clock
  BY TypesStay
<1>2. /\ revision[n] <= revision'[n] /\ revision' \in [Node -> Nat]
      /\ \A m \in Node \ {n} :
           revision'[m] = revision[m] /\ sequence'[m] = sequence[m]
      /\ \A k \in Key :
           sequence'[n][k] = sequence[n][k] \/ sequence'[n][k] <= revision'[n]
  BY MergeMoves
<1>3. ASSUME NEW m \in Node, NEW j \in Key
      PROVE  sequence'[m][j] <= revision'[m]
  <2>1. /\ sequence[m][j] <= revision[m] /\ sequence[m][j] \in Nat
        /\ revision[m] \in Nat
    BY DEF TypeOK
  <2>2. CASE m # n
    <3>1. sequence'[m] = sequence[m] /\ revision'[m] = revision[m]
      BY <1>2, <2>2
    <3> QED  BY <2>1, <3>1
  <2>3. CASE m = n
    BY <1>2, <2>1, <2>3
  <2> QED  BY <2>2, <2>3
<1>4. /\ records' \in [Node -> [Key -> Clock]] /\ revision' \in [Node -> Nat]
      /\ sequence' \in [Node -> [Key -> Nat]]
      /\ origin' \in [Node -> [Key -> Node \cup {0}]]
  BY MergeMoves
<1>5. records' \in [Node -> [Key -> Clock']] /\ app' \in [Node -> [Key -> Clock']]
  BY <1>1, <1>4
<1> QED  BY <1>3, <1>4, <1>5 DEF StoreType

LEMMA PeersTypeStays ==
  ASSUME TypeOK, UNCHANGED <<peer, minted, scope>>
  PROVE  PeersType'
BY TypesStay DEF TypeOK, PeersType

LEMMA PeersReplaced ==
  ASSUME TypeOK, scope' = scope, minted' \in 1 .. scope.incarnations, minted <= minted',
         peer' \in [Node -> [Node -> PeerState]],
         \A n, p \in Node :
           \/ peer'[n][p] = peer[n][p]
           \/ /\ peer'[n][p].incarnation <= minted'
              /\ peer'[n][p].bootstrapped <=> peer'[n][p].received # NoReceipt
  PROVE  PeersType'
<1>1. PeerState' = PeerState
  BY TypesStay
<1>2. peer' \in [Node -> [Node -> PeerState']]
  BY <1>1
<1>3. ASSUME NEW n \in Node, NEW p \in Node
      PROVE  /\ peer'[n][p].incarnation <= minted'
             /\ peer'[n][p].bootstrapped <=> peer'[n][p].received # NoReceipt
  <2>1. CASE peer'[n][p] = peer[n][p]
    <3>1. peer[n][p] \in PeerState
      BY DEF TypeOK
    <3>2. peer[n][p].incarnation \in Int /\ minted \in Int /\ minted' \in Int
      BY <3>1, Typed DEF PeerState, TypeOK
    <3>3. /\ peer[n][p].incarnation <= minted
          /\ peer[n][p].bootstrapped <=> peer[n][p].received # NoReceipt
      BY DEF TypeOK
    <3> QED  BY <2>1, <3>2, <3>3
  <2> QED  BY <2>1
<1> QED  BY <1>2, <1>3 DEF PeersType

LEMMA NextWorld ==
  ASSUME TypeOK, TypeOK', scope' = scope
  PROVE  World' \in Worlds
<1>1. Clock' \subseteq Stamp
  BY Typed, TypesStay
<1>2. records' \in [Node -> [Key -> Stamp]] /\ app' \in [Node -> [Key -> Stamp]]
  BY <1>1 DEF TypeOK
<1> QED  BY <1>2 DEF TypeOK, World, Worlds

LEMMA Fields ==
  /\ World.records = records /\ World'.records = records'
  /\ World.revision = revision /\ World'.revision = revision'
  /\ World.sequence = sequence /\ World'.sequence = sequence'
  /\ World.origin = origin /\ World'.origin = origin'
  /\ World.app = app /\ World'.app = app'
BY DEF World

-----------------------------------------------------------------------------
(* A step keeps the invariant if it keeps the promises it touches. *)

LEMMA PromisesKept ==
  ASSUME IInv, TypeOK', scope' = scope, Onward(World, World'), StoreHolds(World'),
         \A n, p \in Node :
           peer'[n][p] = peer[n][p] \/ EntryHolds(World', n, p, peer'[n][p]),
         \A n \in Node : inbox'[n] = inbox[n] \/ InboxHolds(World', n, inbox'[n]),
         \A s \in Slot : \/ conn'[s] = conn[s] \/ conn'[s].phase = "idle"
                         \/ MessageHolds(World', conn'[s])
  PROVE  IInv'
<1>1. World \in Worlds /\ World' \in Worlds
  BY Typed, NextWorld DEF IInv
<1>2. \A n, p \in Node : EntryHolds(World', n, p, peer'[n][p])
  <2> TAKE n, p \in Node
  <2>1. peer[n][p] \in PeerState /\ EntryHolds(World, n, p, peer[n][p])
    BY DEF IInv, TypeOK, EntriesHold
  <2>2. EntryHolds(World', n, p, peer[n][p])
    BY <1>1, <2>1, EntryOnward DEF IInv
  <2> QED  BY <2>2
<1>3. \A n \in Node : InboxHolds(World', n, inbox'[n])
  <2> TAKE n \in Node
  <2>1. inbox[n] \in InboxState /\ InboxHolds(World, n, inbox[n])
    BY DEF IInv, TypeOK, InboxesHold
  <2>2. InboxHolds(World', n, inbox[n])
    BY <1>1, <2>1, InboxOnward DEF IInv
  <2> QED  BY <2>2
<1>4. \A s \in Slot : conn'[s].phase # "idle" => MessageHolds(World', conn'[s])
  <2> TAKE s \in Slot
  <2> HAVE conn'[s].phase # "idle"
  <2>1. CASE conn'[s] = conn[s]
    <3>1. conn[s] \in ConnState /\ MessageHolds(World, conn[s])
      BY <2>1 DEF IInv, TypeOK, MessagesHold
    <3>2. MessageHolds(World', conn[s])
      BY <1>1, <3>1, MessageOnward DEF IInv
    <3> QED  BY <2>1, <3>2
  <2> QED  BY <2>1
<1> QED  BY <1>2, <1>3, <1>4 DEF IInv, EntriesHold, InboxesHold, MessagesHold

\* Most steps leave journals and applications alone.
LEMMA WorldStays ==
  ASSUME IInv, UNCHANGED <<store, app>>
  PROVE  World' = World /\ Onward(World, World') /\ StoreHolds(World')
<1>1. World' = World
  BY DEF World, store
<1>2. Onward(World, World)
  BY Typed, OnwardStays DEF IInv
<1> QED  BY <1>1, <1>2 DEF IInv

LEMMA MergeKeeps ==
  ASSUME TypeOK, TypeOK', scope' = scope, StoreHolds(World), NEW n \in Node,
         NEW from \in Node \cup {0}, NEW batch \in [Key -> Clock], Merge(n, batch, from),
         from \in Node => \A k \in Key : ~Less(records[from][k], batch[k]),
         \A m \in Node, k \in Key :
           /\ ~Less(app'[m][k], app[m][k])
           /\ app'[m][k] = app[m][k] \/ (m = n /\ app'[m][k] = batch[k])
  PROVE  Onward(World, World') /\ StoreHolds(World')
<1>1. World \in Worlds /\ World' \in Worlds /\ Clock \subseteq Stamp
  BY Typed, NextWorld
<1>2. \A m \in Node, k \in Key :
        /\ records[m][k] \in Stamp /\ records'[m][k] \in Stamp
        /\ app[m][k] \in Stamp /\ app'[m][k] \in Stamp /\ batch[k] \in Stamp
  BY <1>1, Fields DEF Worlds
<1>3. \A m \in Node : revision[m] \in Nat /\ revision[m] <= revision'[m]
  <2> TAKE m \in Node
  <2>1. revision[m] \in Nat
    BY DEF TypeOK
  <2>2. revision[n] <= revision'[n] /\ (m # n => revision'[m] = revision[m])
    BY MergeMoves
  <2> QED  BY <2>1, <2>2
<1>4. ASSUME NEW m \in Node, NEW k \in Key
      PROVE  /\ ~Less(records'[m][k], records[m][k])
             /\ \/ /\ sequence'[m][k] = sequence[m][k]
                   /\ records'[m][k] = records[m][k]
                   /\ origin'[m][k] = origin[m][k]
                \/ /\ sequence'[m][k] > revision[m]
                   /\ m = n /\ origin'[m][k] = from
                   /\ records'[m][k] = batch[k]
  <2>1. CASE m = n
    <3>1. records'[n][k] = Later(records[n][k], batch[k])
      BY MergeMoves
    <3> QED  BY <1>2, <2>1, <3>1, LaterIsNoOlder, MergeMoves
  <2>2. CASE m # n
    BY <1>2, <2>2, LessOrders, MergeMoves
  <2> QED  BY <2>1, <2>2
<1>5. Onward(World, World')
  BY <1>3, <1>4, Fields DEF Onward
<1>6. ASSUME NEW m \in Node, NEW p \in Node, NEW k \in Key, origin'[m][k] = p
      PROVE  ~Less(records'[p][k], records'[m][k])
  <2>1. ~Less(records'[p][k], records[p][k])
    BY <1>4
  <2>2. CASE origin'[m][k] = origin[m][k] /\ records'[m][k] = records[m][k]
    <3>1. ~Less(records[p][k], records[m][k])
      BY <1>6, <2>2, Fields DEF StoreHolds
    <3> QED  BY <1>2, <2>1, <2>2, <3>1, LessOrders
  <2>3. CASE p = from /\ records'[m][k] = batch[k]
    <3>1. ~Less(records[p][k], batch[k])
      BY <2>3
    <3> QED  BY <1>2, <2>1, <2>3, <3>1, LessOrders
  <2> QED  BY <1>4, <1>6, <2>2, <2>3
<1>7. ASSUME NEW m \in Node, NEW k \in Key
      PROVE  ~Less(records'[m][k], app'[m][k])
  <2>1. CASE app'[m][k] = app[m][k]
    <3>1. ~Less(records[m][k], app[m][k])
      BY Fields DEF StoreHolds
    <3> QED  BY <1>2, <1>4, <2>1, <3>1, LessOrders
  <2>2. CASE m = n /\ app'[m][k] = batch[k]
    <3>1. records'[n][k] = Later(records[n][k], batch[k])
      BY MergeMoves
    <3> QED  BY <1>2, <2>2, <3>1, LaterIsNoOlder
  <2> QED  BY <2>1, <2>2
<1> QED  BY <1>5, <1>6, <1>7, Fields DEF StoreHolds

-----------------------------------------------------------------------------
(* Receipts *)

LEMMA NoReceiptPromisesNothing ==
  ASSUME NEW w, NEW copy, NEW n \in Node
  PROVE  Reached(w, copy, n, NoReceipt)
BY ExchangeConstants DEF Reached, NoReceipt

LEMMA AdvanceIsOneOf ==
  ASSUME NEW old, NEW new
  PROVE  Advance(old, new) \in {old, new}
BY DEF Advance

LEMMA ProvenIsOneOf ==
  ASSUME NEW n, NEW p, NEW r
  PROVE  Proven(n, p, r) \in {r, NoReceipt}
BY DEF Proven

\* What an application has committed its device holds.
LEMMA CommittedIsHeld ==
  ASSUME TypeOK, StoreHolds(World), NEW n \in Node, NEW p \in Node, NEW r \in AnyReceipt,
         Reached(World, app[p], n, r)
  PROVE  Reached(World, records[p], n, r)
<1>1. World \in Worlds /\ Clock \subseteq Stamp
  BY Typed
<1>2. app[p] \in [Key -> Stamp] /\ records[p] \in [Key -> Stamp]
  BY <1>1, Fields DEF Worlds
<1>3. \A k \in Key : ~Less(records[p][k], app[p][k])
  BY Fields DEF StoreHolds
<1>4. Onward(World, World)
  BY <1>1, OnwardStays
<1> QED  BY <1>1, <1>2, <1>3, <1>4, ReachedOnward

\* Evidence that p's application has committed advances n's entry for p.
LEMMA LearnHolds ==
  ASSUME IInv, NEW n \in Node, NEW p \in Node, NEW r \in Receipt,
         Reached(World, app[p], n, r)
  PROVE  /\ Learn(n, p, r) \in PeerState
         /\ Learn(n, p, r).incarnation = peer[n][p].incarnation
         /\ Learn(n, p, r).bootstrapped = peer[n][p].bootstrapped
         /\ Learn(n, p, r).received = peer[n][p].received
         /\ EntryHolds(World, n, p, Learn(n, p, r))
<1> DEFINE e == peer[n][p]
<1>1. e \in PeerState /\ EntryHolds(World, n, p, e)
  BY DEF IInv, TypeOK, EntriesHold
<1>2. r \in AnyReceipt
  BY Typed DEF IInv
<1>3. Reached(World, records[p], n, r)
  BY <1>2, CommittedIsHeld DEF IInv
<1>4. CASE ~Verify(n, p, r)
  BY <1>1, <1>4 DEF Learn
<1>5. CASE Verify(n, p, r)
  <2> DEFINE f == [e EXCEPT !.stored = Advance(@, r), !.applied = Advance(@, r)]
  <2>1. Learn(n, p, r) = f
    BY <1>5 DEF Learn
  <2>2. /\ f \in PeerState
        /\ f.incarnation = e.incarnation /\ f.bootstrapped = e.bootstrapped
        /\ f.received = e.received /\ f.processed = e.processed /\ f.pending = e.pending
        /\ f.stored = Advance(e.stored, r) /\ f.applied = Advance(e.applied, r)
    <3>1. Advance(e.stored, r) \in Receipt /\ Advance(e.applied, r) \in Receipt
      BY <1>1, AdvanceIsOneOf DEF PeerState
    <3> QED  BY <1>1, <3>1 DEF PeerState
  <2>3. f.stored \in {e.stored, r} /\ f.applied \in {e.applied, r}
    BY <2>2, AdvanceIsOneOf
  <2>4. EntryHolds(World, n, p, f)
    <3> HIDE DEF e, f
    <3>1. Reached(World, World.records[p], n, f.stored)
      BY <1>1, <1>3, <2>3, Fields DEF EntryHolds
    <3>2. Reached(World, World.app[p], n, f.applied)
      BY <1>1, <2>3, Fields DEF EntryHolds
    <3> QED  BY <1>1, <2>2, <3>1, <3>2 DEF EntryHolds
  <2> QED  BY <2>1, <2>2, <2>4
<1> QED  BY <1>4, <1>5

-----------------------------------------------------------------------------
(* The steps *)

LEMMA InitHolds ==
  ASSUME Init
  PROVE  IInv
<1>1. scope.counter \in Nat /\ scope.incarnations \in Nat \ {0} /\ scope \in Scopes
  BY ExchangeConstants DEF Init
<1>2. NoReceipt \in Receipt /\ Absent \in Clock
  BY <1>1 DEF NoReceipt, Receipt, Clock
<1>3. NoBatch \in Batch
  BY <1>2 DEF NoBatch, Batch
<1>4. Enrolled(1) \in PeerState
  BY <1>1, <1>2, <1>3 DEF Enrolled, PeerState, NoPreview, State
<1>5. Idle \in ConnState
  BY <1>2, <1>3 DEF Idle, ConnState
<1>6. NoInbox \in InboxState
  BY <1>2 DEF NoInbox, InboxState
<1>7. /\ Enrolled(1).incarnation = 1 /\ ~Enrolled(1).bootstrapped
      /\ {Enrolled(1).stored, Enrolled(1).received, Enrolled(1).applied,
          Enrolled(1).processed} = {NoReceipt}
      /\ Enrolled(1).pending = NoPreview
  BY DEF Enrolled
<1>8. TypeOK
  <2>1. \A n, p \in Node : peer[n][p] = Enrolled(1)
    BY DEF Init
  <2>2. PeersType
    <3>1. peer \in [Node -> [Node -> PeerState]]
      BY <1>4 DEF Init
    <3>2. minted = 1
      BY DEF Init
    <3> QED  BY <1>7, <2>1, <3>1, <3>2 DEF PeersType
  <2>3. StoreType
    BY <1>2 DEF Init, StoreType
  <2>4. conn \in [Slot -> ConnState] /\ inbox \in [Node -> InboxState]
    BY <1>5, <1>6 DEF Init
  <2>5. minted \in 1 .. scope.incarnations /\ joining \in [Node -> [Node -> BOOLEAN]]
    BY <1>1 DEF Init
  <2> QED  BY <1>1, <2>2, <2>3, <2>4, <2>5 DEF TypeOK, PeersType, StoreType
<1>9. \A n \in Node, k \in Key : records[n][k] = Absent /\ app[n][k] = Absent
                                 /\ origin[n][k] = 0
  BY DEF Init
<1>10. ~Less(Absent, Absent)
  BY DEF Less, Absent
<1>11. StoreHolds(World)
  BY <1>9, <1>10, Fields DEF StoreHolds
<1>12. EntriesHold
  <2>1. \A n, p \in Node : peer[n][p] = Enrolled(1)
    BY DEF Init
  <2> QED  BY <1>7, <2>1, NoReceiptPromisesNothing DEF EntriesHold, EntryHolds
<1>13. InboxesHold
  <2>1. \A n \in Node : inbox[n] = NoInbox
    BY DEF Init
  <2>2. /\ ~NoInbox.done /\ \A k \in Key : NoInbox.records[k] = Absent
        /\ \A p \in Node : NoInbox.receipts[p] = NoReceipt
    BY DEF NoInbox
  <2> QED  BY <1>9, <1>10, <2>1, <2>2, Fields, NoReceiptPromisesNothing
           DEF InboxesHold, InboxHolds
<1>14. MessagesHold
  BY DEF Init, MessagesHold, Idle
<1> QED  BY <1>8, <1>11, <1>12, <1>13, <1>14 DEF IInv

LEMMA WriteKeeps ==
  ASSUME IInv, NEW n \in Node, NEW k \in Key, Write(n, k)
  PROVE  IInv'
<1>1. PICK counter \in 1 .. scope.counter :
        /\ \A j \in Key : records[n][j][1] < counter
        /\ Merge(n, [j \in Key |-> IF j = k THEN <<counter, n>> ELSE Absent], 0)
        /\ app' = [app EXCEPT ![n][k] = <<counter, n>>]
        /\ UNCHANGED <<peer, conn, inbox, minted, joining, scope>>
  BY DEF Write
<1> DEFINE batch == [j \in Key |-> IF j = k THEN <<counter, n>> ELSE Absent]
<1>2. TypeOK
  BY DEF IInv
<1>3. <<counter, n>> \in Clock /\ Absent \in Clock /\ Clock \subseteq Stamp
  BY <1>2, Typed DEF Clock
<1>4. batch \in [Key -> Clock] /\ batch[k] = <<counter, n>>
  BY <1>3
<1> HIDE DEF batch
<1>5. Merge(n, batch, 0)
  BY <1>1 DEF batch
<1>6. app' \in [Node -> [Key -> Clock]]
      /\ \A m \in Node, j \in Key :
           app'[m][j] = IF m = n /\ j = k THEN <<counter, n>> ELSE app[m][j]
  BY <1>1, <1>2, <1>3 DEF TypeOK
<1>7. TypeOK'
  <2>1. StoreType'
    BY <1>1, <1>2, <1>4, <1>5, <1>6, MergeTyped
  <2>2. PeersType'
    BY <1>1, <1>2, PeersTypeStays
  <2>3. /\ conn' \in [Slot -> ConnState] /\ inbox' \in [Node -> InboxState]
        /\ minted' \in 1 .. scope.incarnations /\ joining' \in [Node -> [Node -> BOOLEAN]]
    BY <1>1, <1>2 DEF TypeOK
  <2> QED  BY <1>1, <1>2, <2>1, <2>2, <2>3, TypeNext
<1>8. ASSUME NEW m \in Node, NEW j \in Key
      PROVE  /\ ~Less(app'[m][j], app[m][j])
             /\ app'[m][j] = app[m][j] \/ (m = n /\ app'[m][j] = batch[j])
  <2>1. /\ app[m][j] \in Stamp /\ records[m][j] \in Stamp /\ <<counter, n>> \in Stamp
        /\ ~Less(records[m][j], app[m][j])
    BY <1>2, <1>3, Fields DEF TypeOK, IInv, StoreHolds
  <2>2. CASE m = n /\ j = k
    <3>1. records[n][k][1] < counter
      BY <1>1
    <3>2. Less(records[n][k], <<counter, n>>)
      BY <3>1 DEF Less
    <3> QED  BY <1>4, <1>6, <2>1, <2>2, <3>2, LessOrders, SMTT(30)
  <2>3. CASE ~(m = n /\ j = k)
    BY <1>6, <2>1, <2>3, LessOrders
  <2> QED  BY <2>2, <2>3
<1>9. 0 \notin Node
  BY ExchangeConstants
<1>10. Onward(World, World') /\ StoreHolds(World')
  BY <1>1, <1>2, <1>4, <1>5, <1>7, <1>8, <1>9, MergeKeeps DEF IInv
<1> QED  BY <1>1, <1>7, <1>10, PromisesKept

LEMMA CaptureKeeps ==
  ASSUME IInv, NEW n \in Node, Capture(n)
  PROVE  IInv'
<1> DEFINE i == [records |-> records[n], done |-> FALSE,
                 receipts |-> [p \in Node |-> IF peer[n][p].revoked THEN NoReceipt
                                              ELSE peer[n][p].received]]
<1>1. /\ inbox' = [inbox EXCEPT ![n] = i]
      /\ UNCHANGED <<store, peer, conn, app, minted, joining, scope>>
  BY DEF Capture
<1>2. TypeOK
  BY DEF IInv
<1>3. /\ i \in InboxState /\ ~i.done /\ i.records = records[n]
      /\ \A p \in Node : i.receipts[p] \in {NoReceipt, peer[n][p].received}
  BY <1>2, Typed DEF TypeOK, InboxState, PeerState
<1> HIDE DEF i
<1>4. /\ inbox' \in [Node -> InboxState] /\ inbox'[n] = i
      /\ \A m \in Node : m # n => inbox'[m] = inbox[m]
  BY <1>1, <1>2, <1>3 DEF TypeOK
<1>5. TypeOK'
  <2>1. StoreType' /\ PeersType'
    BY <1>1, <1>2, StoreTypeStays, PeersTypeStays DEF store
  <2>2. /\ conn' \in [Slot -> ConnState] /\ minted' \in 1 .. scope.incarnations
        /\ joining' \in [Node -> [Node -> BOOLEAN]]
    BY <1>1, <1>2 DEF TypeOK
  <2> QED  BY <1>1, <1>2, <1>4, <2>1, <2>2, TypeNext
<1>6. World' = World /\ Onward(World, World') /\ StoreHolds(World')
  BY <1>1, WorldStays
<1>7. InboxHolds(World, n, i)
  <2>1. \A k \in Key : ~Less(records[n][k], records[n][k])
    BY <1>2, Typed, LessOrders DEF TypeOK
  <2>2. \A p \in Node : Reached(World, records[n], p, peer[n][p].received)
    BY Fields DEF IInv, EntriesHold, EntryHolds
  <2> QED  BY <1>3, <2>1, <2>2, Fields, NoReceiptPromisesNothing DEF InboxHolds
<1> QED  BY <1>1, <1>4, <1>5, <1>6, <1>7, PromisesKept

LEMMA ProcessKeeps ==
  ASSUME IInv, NEW n \in Node, Process(n)
  PROVE  IInv'
<1>1. /\ app' = [app EXCEPT ![n] = [k \in Key |-> Later(@[k], inbox[n].records[k])]]
      /\ inbox' = [inbox EXCEPT ![n].done = TRUE]
      /\ UNCHANGED <<store, peer, conn, minted, joining, scope>>
  BY DEF Process
<1>2. TypeOK /\ inbox[n] \in InboxState /\ InboxHolds(World, n, inbox[n])
  BY DEF IInv, TypeOK, InboxesHold
<1>3. ASSUME NEW m \in Node, NEW k \in Key
      PROVE  /\ app[m][k] \in Clock /\ records[m][k] \in Clock
             /\ inbox[m].records[k] \in Clock
             /\ ~Less(records[m][k], app[m][k])
             /\ ~Less(records[m][k], inbox[m].records[k])
  <2>1. inbox[m].records \in [Key -> Clock]
    BY <1>2 DEF TypeOK, InboxState
  <2>2. InboxHolds(World, m, inbox[m])
    BY DEF IInv, InboxesHold
  <2> QED  BY <1>2, <2>1, <2>2, Fields DEF TypeOK, IInv, StoreHolds, InboxHolds
<1>4. /\ \A m \in Node, k \in Key : m # n => app'[m][k] = app[m][k]
      /\ \A k \in Key : app'[n][k] = Later(app[n][k], inbox[n].records[k])
      /\ app' \in [Node -> [Key -> Clock]]
  <2>1. \A k \in Key : Later(app[n][k], inbox[n].records[k]) \in Clock
    BY <1>3 DEF Later
  <2>2. app \in [Node -> [Key -> Clock]]
    BY <1>2 DEF TypeOK
  <2> QED  BY <1>1, <2>1, <2>2
<1> DEFINE i == [inbox[n] EXCEPT !.done = TRUE]
<1>5. /\ i \in InboxState /\ i.done
      /\ i.records = inbox[n].records /\ i.receipts = inbox[n].receipts
  BY <1>2 DEF InboxState
<1>6. /\ inbox' \in [Node -> InboxState] /\ inbox'[n] = i
      /\ \A m \in Node : m # n => inbox'[m] = inbox[m]
  BY <1>1, <1>2, <1>5 DEF TypeOK
<1>7. TypeOK'
  <2>1. PeersType'
    BY <1>1, <1>2, PeersTypeStays
  <2>2. StoreType'
    <3>1. Clock' = Clock
      BY <1>1, TypesStay
    <3>2. app' \in [Node -> [Key -> Clock']] /\ records' \in [Node -> [Key -> Clock']]
      BY <1>1, <1>2, <1>4, <3>1 DEF TypeOK, store
    <3> QED  BY <1>1, <1>2, <3>2 DEF StoreType, TypeOK, store
  <2>3. /\ conn' \in [Slot -> ConnState] /\ minted' \in 1 .. scope.incarnations
        /\ joining' \in [Node -> [Node -> BOOLEAN]]
    BY <1>1, <1>2 DEF TypeOK
  <2> QED  BY <1>1, <1>2, <1>6, <2>1, <2>2, <2>3, TypeNext
<1>8. ASSUME NEW m \in Node, NEW k \in Key
      PROVE  ~Less(app'[m][k], app[m][k]) /\ ~Less(records[m][k], app'[m][k])
  <2>1. Clock \subseteq Stamp
    BY <1>2, Typed
  <2> QED  BY <1>3, <1>4, <2>1, LessOrders, LaterIsNoOlder
<1>9. Onward(World, World')
  <2>1. Onward(World, World)
    BY <1>2, Typed, OnwardStays
  <2> QED  BY <1>1, <1>8, <2>1, Fields DEF Onward, store
<1>10. StoreHolds(World')
  BY <1>1, <1>8, Fields DEF IInv, StoreHolds, store
<1>11. InboxHolds(World', n, i)
  <2>1. World \in Worlds /\ World' \in Worlds
    BY <1>1, <1>2, <1>7, Typed, NextWorld
  <2>2. InboxHolds(World', n, inbox[n])
    BY <1>2, <1>9, <2>1, InboxOnward
  <2>3. \A k \in Key : ~Less(app'[n][k], inbox[n].records[k])
    BY <1>2, <1>3, <1>4, Typed, LaterIsNoOlder
  <2> QED  BY <1>5, <2>2, <2>3, Fields DEF InboxHolds
<1> QED  BY <1>1, <1>6, <1>7, <1>9, <1>10, <1>11, PromisesKept

\* What is acknowledged has been committed, however old it is by then.
LEMMA AcknowledgeKeeps ==
  ASSUME IInv, NEW n \in Node, Acknowledge(n)
  PROVE  IInv'
<1> DEFINE listed == {p \in Node : inbox[n].receipts[p] # NoReceipt}
           entry(p) == [peer[n][p] EXCEPT !.processed =
                          Advance(peer[n][p].processed, inbox[n].receipts[p])]
<1>1. /\ inbox[n].done
      /\ inbox' = [inbox EXCEPT ![n] = NoInbox]
      /\ UNCHANGED <<store, conn, app, minted, joining, scope>>
      /\ \/ peer' = peer
         \/ peer' = [peer EXCEPT ![n] = [p \in Node |->
                       IF p \in listed THEN entry(p) ELSE peer[n][p]]]
  BY DEF Acknowledge
<1>2. TypeOK /\ inbox[n] \in InboxState /\ InboxHolds(World, n, inbox[n])
  BY DEF IInv, TypeOK, InboxesHold
<1>3. World' = World /\ Onward(World, World') /\ StoreHolds(World')
  BY <1>1, WorldStays
<1>4. NoInbox \in InboxState /\ InboxHolds(World, n, NoInbox)
  <2>1. NoInbox \in InboxState
    BY <1>2, Typed DEF NoInbox, InboxState
  <2>2. /\ ~NoInbox.done /\ \A k \in Key : NoInbox.records[k] = Absent
        /\ \A p \in Node : NoInbox.receipts[p] = NoReceipt
    BY DEF NoInbox
  <2>3. \A k \in Key : ~Less(records[n][k], Absent)
    BY <1>2, Typed, LessOrders DEF TypeOK
  <2> QED  BY <2>1, <2>2, <2>3, Fields, NoReceiptPromisesNothing DEF InboxHolds
<1>5. /\ inbox' \in [Node -> InboxState] /\ inbox'[n] = NoInbox
      /\ \A m \in Node : m # n => inbox'[m] = inbox[m]
  BY <1>1, <1>2, <1>4 DEF TypeOK
<1>6. ASSUME NEW p \in Node
      PROVE  /\ entry(p) \in PeerState /\ EntryHolds(World, n, p, entry(p))
             /\ entry(p).incarnation = peer[n][p].incarnation
             /\ entry(p).bootstrapped = peer[n][p].bootstrapped
             /\ entry(p).received = peer[n][p].received
  <2> DEFINE r == inbox[n].receipts[p]
             old == peer[n][p]
  <2>1. r \in Receipt /\ old \in PeerState /\ EntryHolds(World, n, p, old)
    BY <1>2 DEF InboxState, TypeOK, IInv, EntriesHold
  <2> DEFINE e == entry(p)
  <2>2. /\ e \in PeerState
        /\ e.incarnation = old.incarnation /\ e.bootstrapped = old.bootstrapped
        /\ e.received = old.received /\ e.stored = old.stored
        /\ e.applied = old.applied /\ e.pending = old.pending
        /\ e.processed = Advance(old.processed, r)
    <3>1. Advance(old.processed, r) \in Receipt
      BY <2>1, AdvanceIsOneOf DEF PeerState
    <3> QED  BY <2>1, <3>1 DEF PeerState
  <2>3. Reached(World, app[n], p, r)
    <3>1. Reached(World, inbox[n].records, p, r)
      BY <1>2 DEF InboxHolds
    <3>2. \A k \in Key : ~Less(app[n][k], inbox[n].records[k])
      BY <1>1, <1>2, Fields DEF InboxHolds
    <3>3. /\ inbox[n].records \in [Key -> Stamp] /\ app[n] \in [Key -> Stamp]
          /\ World \in Worlds /\ r \in AnyReceipt
      BY <1>2, <2>1, Typed DEF InboxState, TypeOK
    <3> QED  BY <3>1, <3>2, <3>3, OnwardStays, ReachedOnward
  <2>4. e.processed \in {old.processed, r}
    BY <2>2, AdvanceIsOneOf
  <2>5. EntryHolds(World, n, p, e)
    <3> HIDE DEF entry
    <3>1. Reached(World, World.app[n], p, e.processed)
      BY <2>1, <2>3, <2>4, Fields DEF EntryHolds
    <3> QED  BY <2>1, <2>2, <3>1 DEF EntryHolds
  <2> QED  BY <2>2, <2>5
<1>7. ASSUME NEW m \in Node, NEW p \in Node
      PROVE  /\ peer'[m][p] \in PeerState
             /\ \/ peer'[m][p] = peer[m][p]
                \/ /\ EntryHolds(World, m, p, peer'[m][p])
                   /\ peer'[m][p].incarnation = peer[m][p].incarnation
                   /\ peer'[m][p].bootstrapped = peer[m][p].bootstrapped
                   /\ peer'[m][p].received = peer[m][p].received
  <2>1. peer \in [Node -> [Node -> PeerState]]
    BY <1>2 DEF TypeOK
  <2>2. peer'[m][p] = peer[m][p] \/ (m = n /\ peer'[m][p] = entry(p))
    <3> HIDE DEF entry, listed
    <3>1. CASE m # n
      BY <1>1, <2>1, <3>1
    <3>2. CASE m = n /\ p \notin listed
      BY <1>1, <2>1, <3>2
    <3>3. CASE m = n /\ p \in listed
      BY <1>1, <2>1, <3>3
    <3> QED  BY <3>1, <3>2, <3>3
  <2> QED  BY <1>6, <2>1, <2>2
<1>8. TypeOK'
  <2>1. PeersType'
    <3>1. peer' \in [Node -> [Node -> PeerState]]
      <4>1. peer \in [Node -> [Node -> PeerState]]
        BY <1>2 DEF TypeOK
      <4>2. DOMAIN peer' = Node /\ \A m \in Node : DOMAIN peer'[m] = Node
        BY <1>1, <4>1
      <4>3. /\ peer' = [m \in Node |-> peer'[m]]
            /\ \A m \in Node : peer'[m] = [p \in Node |-> peer'[m][p]]
        BY <1>1, <4>1, <4>2, ZenonT(30)
      <4> QED  BY <1>7, <4>3
    <3>2. ASSUME NEW m \in Node, NEW p \in Node
          PROVE  \/ peer'[m][p] = peer[m][p]
                 \/ /\ peer'[m][p].incarnation <= minted'
                    /\ peer'[m][p].bootstrapped <=> peer'[m][p].received # NoReceipt
      <4>1. /\ peer[m][p].incarnation <= minted'
            /\ peer[m][p].bootstrapped <=> peer[m][p].received # NoReceipt
        BY <1>1, <1>2 DEF TypeOK
      <4> QED  BY <1>7, <4>1
    <3>3. minted' \in 1 .. scope.incarnations /\ minted <= minted'
      BY <1>1, <1>2, Typed DEF TypeOK
    <3> QED  BY <1>1, <1>2, <3>1, <3>2, <3>3, PeersReplaced
  <2>2. StoreType'
    BY <1>1, <1>2, StoreTypeStays
  <2>3. /\ conn' \in [Slot -> ConnState] /\ minted' \in 1 .. scope.incarnations
        /\ joining' \in [Node -> [Node -> BOOLEAN]]
    BY <1>1, <1>2 DEF TypeOK
  <2> QED  BY <1>1, <1>2, <1>5, <2>1, <2>2, <2>3, TypeNext
<1> QED  BY <1>1, <1>3, <1>4, <1>5, <1>7, <1>8, PromisesKept

\* The other steps leave inboxes alone and mostly the journals' records, too.
LEMMA ExchangeKeeps ==
  ASSUME IInv, UNCHANGED <<store, inbox, app, scope>>, PeersType',
         minted' \in 1 .. scope.incarnations, joining' \in [Node -> [Node -> BOOLEAN]],
         conn' \in [Slot -> ConnState],
         \A n, p \in Node :
           peer'[n][p] = peer[n][p] \/ EntryHolds(World, n, p, peer'[n][p]),
         \A s \in Slot : \/ conn'[s] = conn[s] \/ conn'[s].phase = "idle"
                         \/ MessageHolds(World, conn'[s])
  PROVE  IInv'
<1>1. World' = World /\ Onward(World, World') /\ StoreHolds(World')
  BY WorldStays
<1>2. TypeOK'
  <2>1. StoreType'
    BY StoreTypeStays DEF IInv
  <2>2. inbox' \in [Node -> InboxState] /\ TypeOK
    BY DEF IInv, TypeOK
  <2> QED  BY <2>1, <2>2, TypeNext
<1> QED  BY <1>1, <1>2, PromisesKept

LEMMA MessageReplaced ==
  ASSUME IInv, NEW s \in Slot, NEW x \in ConnState,
         x.phase = "idle" \/ MessageHolds(World, x), conn' = [conn EXCEPT ![s] = x]
  PROVE  /\ conn' \in [Slot -> ConnState]
         /\ \A t \in Slot : \/ conn'[t] = conn[t] \/ conn'[t].phase = "idle"
                            \/ MessageHolds(World, conn'[t])
<1>1. conn \in [Slot -> ConnState]
  BY DEF IInv, TypeOK
<1> QED  BY <1>1

LEMMA EntryReplaced ==
  ASSUME IInv, scope' = scope, minted' \in 1 .. scope.incarnations, minted <= minted',
         NEW n \in Node, NEW p \in Node, NEW e \in PeerState, e.incarnation <= minted',
         e.bootstrapped <=> e.received # NoReceipt, EntryHolds(World, n, p, e),
         peer' = [peer EXCEPT ![n][p] = e]
  PROVE  /\ PeersType'
         /\ \A m, q \in Node :
              peer'[m][q] = peer[m][q] \/ EntryHolds(World, m, q, peer'[m][q])
<1>1. peer \in [Node -> [Node -> PeerState]] /\ TypeOK
  BY DEF IInv, TypeOK
<1>2. /\ peer' \in [Node -> [Node -> PeerState]]
      /\ peer'[n][p] = e
      /\ \A m, q \in Node : <<m, q>> # <<n, p>> => peer'[m][q] = peer[m][q]
  BY <1>1
<1>3. ASSUME NEW m \in Node, NEW q \in Node
      PROVE  \/ peer'[m][q] = peer[m][q]
             \/ /\ peer'[m][q].incarnation <= minted'
                /\ peer'[m][q].bootstrapped <=> peer'[m][q].received # NoReceipt
  BY <1>2
<1>4. PeersType'
  BY <1>1, <1>2, <1>3, PeersReplaced
<1>5. ASSUME NEW m \in Node, NEW q \in Node
      PROVE  peer'[m][q] = peer[m][q] \/ EntryHolds(World, m, q, peer'[m][q])
  BY <1>2
<1> QED  BY <1>4, <1>5

\* What an entry and the number of incarnations are without a new enrollment.
LEMMA EntryFacts ==
  ASSUME IInv, NEW n \in Node, NEW p \in Node
  PROVE  /\ peer[n][p] \in PeerState /\ EntryHolds(World, n, p, peer[n][p])
         /\ peer[n][p].incarnation <= minted
         /\ peer[n][p].bootstrapped <=> peer[n][p].received # NoReceipt
         /\ minted \in 1 .. scope.incarnations /\ minted <= minted
         /\ joining \in [Node -> [Node -> BOOLEAN]]
<1>1. scope.incarnations \in Nat
  BY Typed DEF IInv
<1> QED  BY <1>1 DEF IInv, TypeOK, EntriesHold

LEMMA MessageFacts ==
  ASSUME IInv, NEW s \in Slot, conn[s].phase # "idle"
  PROVE  /\ conn[s] \in ConnState /\ MessageHolds(World, conn[s])
         /\ conn[s].client \in Node /\ conn[s].listener \in Node
         /\ conn[s].client # conn[s].listener
         /\ Sender(s) = From(conn[s]) /\ Receiver(s) = To(conn[s])
         /\ Sender(s) \in Node /\ Receiver(s) \in Node /\ Sender(s) # Receiver(s)
<1>1. conn[s] \in ConnState /\ MessageHolds(World, conn[s])
  BY DEF IInv, TypeOK, MessagesHold
<1> QED  BY <1>1 DEF MessageHolds, Sender, Receiver, From, To

LEMMA HelloKeeps ==
  ASSUME IInv, NEW s \in Slot, NEW c \in Node, NEW l \in Node, Hello(s, c, l)
  PROVE  IInv'
<1> DEFINE x == [Idle EXCEPT !.phase = "hello", !.client = c, !.listener = l,
                             !.received = peer[c][l].received,
                             !.processed = peer[c][l].processed]
<1>1. /\ c # l /\ conn' = [conn EXCEPT ![s] = x]
      /\ UNCHANGED <<store, peer, inbox, app, minted, joining, scope>>
  BY DEF Hello
<1>2. /\ x \in ConnState /\ x.phase = "hello" /\ x.client = c /\ x.listener = l
      /\ x.received = peer[c][l].received /\ x.processed = peer[c][l].processed
      /\ x.back_cursor = NoReceipt /\ ~x.back
  BY EntryFacts, Typed DEF IInv, Idle, ConnState, PeerState
<1> HIDE DEF x
<1>3. MessageHolds(World, x)
  <2>1. EntryHolds(World, c, l, peer[c][l])
    BY EntryFacts
  <2> QED  BY <1>1, <1>2, <2>1, NoReceiptPromisesNothing DEF MessageHolds, EntryHolds
<1>4. PeersType' /\ TypeOK
  BY <1>1, PeersTypeStays DEF IInv
<1>5. minted' \in 1 .. scope.incarnations /\ joining' \in [Node -> [Node -> BOOLEAN]]
  BY <1>1, <1>4 DEF TypeOK
<1> QED  BY <1>1, <1>2, <1>3, <1>4, <1>5, MessageReplaced, ExchangeKeeps

LEMMA AcceptHelloKeeps ==
  ASSUME IInv, NEW s \in Slot, AcceptHello(s)
  PROVE  IInv'
<1> DEFINE c == conn[s].client
           l == conn[s].listener
           e == Learn(l, c, conn[s].processed)
           x == [conn[s] EXCEPT !.phase = "hello_back",
                   !.back_cursor = Proven(l, c, conn[s].received),
                   !.received = peer[l][c].received, !.processed = peer[l][c].processed]
<1>1. /\ conn[s].phase = "hello"
      /\ peer' = [peer EXCEPT ![l][c] = e]
      /\ conn' = [conn EXCEPT ![s] = x]
      /\ UNCHANGED <<store, inbox, app, minted, joining, scope>>
  BY DEF AcceptHello
<1>2. /\ conn[s] \in ConnState /\ c \in Node /\ l \in Node /\ c # l
      /\ conn[s].received \in Receipt /\ conn[s].processed \in Receipt
      /\ Reached(World, World.records[c], l, conn[s].received)
      /\ Reached(World, World.app[c], l, conn[s].processed)
      /\ ~conn[s].back
  BY <1>1, MessageFacts DEF MessageHolds, ConnState
<1>3. /\ e \in PeerState /\ EntryHolds(World, l, c, e) /\ e.incarnation <= minted'
      /\ e.bootstrapped <=> e.received # NoReceipt
  BY <1>1, <1>2, EntryFacts, Fields, LearnHolds, SMTT(30)
<1>4. PeersType' /\ \A m, q \in Node :
        peer'[m][q] = peer[m][q] \/ EntryHolds(World, m, q, peer'[m][q])
  <2> HIDE DEF e, x
  <2>1. minted' \in 1 .. scope.incarnations /\ minted <= minted'
    BY <1>1, <1>2, EntryFacts
  <2> QED  BY <1>1, <1>2, <1>3, <2>1, EntryReplaced
<1>5. Proven(l, c, conn[s].received) \in {conn[s].received, NoReceipt}
  BY ProvenIsOneOf
<1>6. /\ x \in ConnState /\ x.phase = "hello_back" /\ x.client = c /\ x.listener = l
      /\ x.back_cursor \in {conn[s].received, NoReceipt} /\ ~x.back
      /\ x.received = peer[l][c].received /\ x.processed = peer[l][c].processed
  <2>1. Proven(l, c, conn[s].received) \in Receipt
    BY <1>2, <1>5, Typed DEF IInv
  <2>2. peer[l][c].received \in Receipt /\ peer[l][c].processed \in Receipt
    BY <1>2, EntryFacts DEF PeerState
  <2> QED  BY <1>2, <1>5, <2>1, <2>2 DEF ConnState
<1>7. MessageHolds(World, x)
  <2>1. EntryHolds(World, l, c, peer[l][c])
    BY <1>2, EntryFacts
  <2> HIDE DEF x, e
  <2>2. Reached(World, World.records[c], l, x.back_cursor)
    BY <1>2, <1>6, NoReceiptPromisesNothing
  <2> QED  BY <1>2, <1>6, <2>1, <2>2 DEF MessageHolds, EntryHolds
<1>8. minted' \in 1 .. scope.incarnations /\ joining' \in [Node -> [Node -> BOOLEAN]]
  BY <1>1, <1>2, EntryFacts
<1> HIDE DEF x, e, c, l
<1> QED  BY <1>1, <1>4, <1>6, <1>7, <1>8, MessageReplaced, ExchangeKeeps

LEMMA AuthenticateListenerKeeps ==
  ASSUME IInv, NEW s \in Slot, AuthenticateListener(s)
  PROVE  IInv'
<1> DEFINE c == conn[s].client
           l == conn[s].listener
           e == Learn(c, l, conn[s].processed)
           x == [conn[s] EXCEPT !.phase = "export",
                   !.cursor = Proven(c, l, conn[s].received),
                   !.received = NoReceipt, !.processed = NoReceipt]
<1>1. /\ conn[s].phase = "hello_back"
      /\ peer' = [peer EXCEPT ![c][l] = e]
      /\ conn' = [conn EXCEPT ![s] = x]
      /\ UNCHANGED <<store, inbox, app, minted, joining, scope>>
  BY DEF AuthenticateListener
<1>2. /\ conn[s] \in ConnState /\ c \in Node /\ l \in Node /\ c # l
      /\ conn[s].received \in Receipt /\ conn[s].processed \in Receipt
      /\ Reached(World, World.records[l], c, conn[s].received)
      /\ Reached(World, World.app[l], c, conn[s].processed)
      /\ Reached(World, World.records[c], l, conn[s].back_cursor)
      /\ ~conn[s].back
  BY <1>1, MessageFacts DEF MessageHolds, ConnState
<1>3. /\ e \in PeerState /\ EntryHolds(World, c, l, e) /\ e.incarnation <= minted'
      /\ e.bootstrapped <=> e.received # NoReceipt
  BY <1>1, <1>2, EntryFacts, Fields, LearnHolds, SMTT(30)
<1>4. PeersType' /\ \A m, q \in Node :
        peer'[m][q] = peer[m][q] \/ EntryHolds(World, m, q, peer'[m][q])
  <2> HIDE DEF e, x
  <2>1. minted' \in 1 .. scope.incarnations /\ minted <= minted'
    BY <1>1, <1>2, EntryFacts
  <2> QED  BY <1>1, <1>2, <1>3, <2>1, EntryReplaced
<1>5. Proven(c, l, conn[s].received) \in {conn[s].received, NoReceipt}
  BY ProvenIsOneOf
<1>6. /\ x \in ConnState /\ x.phase = "export" /\ x.client = c /\ x.listener = l
      /\ x.back_cursor = conn[s].back_cursor /\ ~x.back
      /\ x.cursor \in {conn[s].received, NoReceipt}
  <2>1. Proven(c, l, conn[s].received) \in Receipt /\ NoReceipt \in Receipt
    BY <1>2, <1>5, Typed DEF IInv
  <2> QED  BY <1>2, <1>5, <2>1 DEF ConnState
<1>7. MessageHolds(World, x)
  <2> HIDE DEF x, e
  <2>1. Reached(World, World.records[l], c, x.cursor)
    BY <1>2, <1>6, NoReceiptPromisesNothing
  <2> QED  BY <1>2, <1>6, <2>1 DEF MessageHolds, From, To
<1>8. minted' \in 1 .. scope.incarnations /\ joining' \in [Node -> [Node -> BOOLEAN]]
  BY <1>1, <1>2, EntryFacts
<1> HIDE DEF x, e, c, l
<1> QED  BY <1>1, <1>4, <1>6, <1>7, <1>8, MessageReplaced, ExchangeKeeps

\* A batch leaves out only what its receiver holds: what the proven cursor
\* covers, and what came from there.
LEMMA ExportKeeps ==
  ASSUME IInv, NEW s \in Slot, Export(s)
  PROVE  IInv'
<1> DEFINE n == Sender(s)
           p == Receiver(s)
           cursor == conn[s].cursor
           batch == [checkpoint |-> Mint(n, p), records |-> Selected(n, p, cursor),
                     full |-> cursor.epoch # n \/ cursor.sequence > revision[n]]
           x == [conn[s] EXCEPT !.phase = "delta", !.batch = batch, !.cursor = NoReceipt]
<1>1. /\ conn[s].phase = "export"
      /\ conn' = [conn EXCEPT ![s] = x]
      /\ UNCHANGED <<store, peer, inbox, app, minted, joining, scope>>
  BY DEF Export
<1>2. /\ conn[s] \in ConnState /\ MessageHolds(World, conn[s])
      /\ n \in Node /\ p \in Node /\ n # p /\ n = From(conn[s]) /\ p = To(conn[s])
      /\ cursor \in Receipt
  BY <1>1, MessageFacts DEF ConnState
<1>3. TypeOK /\ Clock \subseteq Stamp /\ Absent \in Clock /\ World \in Worlds
      /\ NoReceipt \in Receipt /\ Receipt \subseteq AnyReceipt
      /\ scope.incarnations \in Nat
  BY Typed DEF IInv
<1>4. Reached(World, records[p], n, cursor)
  BY <1>1, <1>2, Fields DEF MessageHolds
<1>5. /\ Mint(n, p) \in Receipt /\ Mint(n, p).epoch = n
      /\ Mint(n, p).sequence = revision[n]
  <2>1. peer[n][p].incarnation \in 0 .. scope.incarnations /\ revision[n] \in Nat
    BY <1>2, <1>3, EntryFacts DEF PeerState, TypeOK
  <2> QED  BY <1>2, <2>1 DEF Mint, Receipt
<1>6. ASSUME NEW k \in Key
      PROVE  /\ Selected(n, p, cursor)[k] \in {records[n][k], Absent}
             /\ Selected(n, p, cursor)[k] = records[n][k]
                \/ ~Less(records[p][k], records[n][k])
  <2>1. Selected(n, p, cursor)[k] =
          IF \/ cursor.epoch # n \/ cursor.sequence > revision[n]
             \/ sequence[n][k] > cursor.sequence /\ origin[n][k] # p
          THEN records[n][k] ELSE Absent
    BY DEF Selected
  <2>2. CASE origin[n][k] = p
    <3>1. ~Less(records[p][k], records[n][k])
      BY <1>2, <2>2, Fields DEF IInv, StoreHolds
    <3> QED  BY <2>1, <3>1
  <2>3. CASE cursor.epoch = n /\ ~(sequence[n][k] > cursor.sequence)
    <3>1. sequence[n][k] \in Nat /\ cursor.sequence \in Nat
      BY <1>2, <1>3 DEF TypeOK, Receipt
    <3>2. ~Less(records[p][k], records[n][k])
      BY <1>4, <2>3, <3>1, Fields DEF Reached
    <3> QED  BY <2>1, <3>2
  <2> QED  BY <2>1, <2>2, <2>3
<1>7. Selected(n, p, cursor) \in [Key -> Clock]
  <2>1. \A k \in Key : records[n][k] \in Clock
    BY <1>2, <1>3 DEF TypeOK
  <2>2. Selected(n, p, cursor) = [k \in Key |-> Selected(n, p, cursor)[k]]
    BY DEF Selected
  <2> QED  BY <1>3, <1>6, <2>1, <2>2
<1>8. /\ batch \in Batch /\ batch.checkpoint = Mint(n, p)
      /\ batch.records = Selected(n, p, cursor)
  BY <1>5, <1>7 DEF Batch
<1>9. Offered(World, n, p, batch)
  <2>1. ASSUME NEW k \in Key
        PROVE  /\ ~Less(records[n][k], batch.records[k])
               /\ \/ ~Less(batch.records[k], records[n][k])
                  \/ ~Less(records[p][k], records[n][k])
    <3>1. records[n][k] \in Stamp
      BY <1>2, <1>3 DEF TypeOK
    <3> QED  BY <1>6, <1>8, <3>1, LessOrders
  <2>2. revision[n] <= revision[n]
    BY <1>2, <1>3 DEF TypeOK
  <2> HIDE DEF batch
  <2> QED  BY <1>5, <1>8, <2>1, <2>2, Fields DEF Offered
<1>10. /\ x \in ConnState /\ x.phase = "delta" /\ x.batch = batch
       /\ x.client = conn[s].client /\ x.listener = conn[s].listener
       /\ x.back = conn[s].back /\ x.back_cursor = conn[s].back_cursor
  <2> HIDE DEF batch
  <2> QED  BY <1>2, <1>3, <1>8 DEF ConnState
<1>11. MessageHolds(World, x)
  <2> HIDE DEF x, batch, n, p
  <2>1. From(x) = n /\ To(x) = p
    BY <1>2, <1>10 DEF From, To
  <2> QED  BY <1>2, <1>9, <1>10, <2>1 DEF MessageHolds
<1>12. PeersType' /\ minted' \in 1 .. scope.incarnations
       /\ joining' \in [Node -> [Node -> BOOLEAN]]
  BY <1>1, <1>2, <1>3, PeersTypeStays, EntryFacts
<1> HIDE DEF x, n, p
<1> QED  BY <1>1, <1>10, <1>11, <1>12, MessageReplaced, ExchangeKeeps

\* Merging an offered batch makes its checkpoint true.
LEMMA ApplyHolds ==
  ASSUME IInv, NEW n \in Node, NEW p \in Node, n # p, NEW batch \in Batch,
         Offered(World, p, n, batch), Apply(n, p, batch),
         UNCHANGED <<inbox, app, minted, joining, scope>>, conn' \in [Slot -> ConnState]
  PROVE  /\ TypeOK' /\ World \in Worlds /\ World' \in Worlds
         /\ Onward(World, World') /\ StoreHolds(World')
         /\ Reached(World', World'.records[n], p, batch.checkpoint)
         /\ \A m, q \in Node :
              peer'[m][q] = peer[m][q] \/ EntryHolds(World', m, q, peer'[m][q])
<1> DEFINE e == [peer[n][p] EXCEPT !.received = batch.checkpoint, !.bootstrapped = TRUE,
                                   !.pending = NoPreview]
<1>1. Merge(n, batch.records, p) /\ peer' = [peer EXCEPT ![n][p] = e]
  BY DEF Apply
<1>2. /\ TypeOK /\ Clock \subseteq Stamp /\ World \in Worlds
      /\ NoBatch \in Batch /\ Receipt \subseteq AnyReceipt /\ scope' = scope
  BY Typed DEF IInv
<1>3. /\ batch.records \in [Key -> Clock] /\ batch.checkpoint \in Receipt
      /\ batch.checkpoint.epoch = p /\ batch.checkpoint # NoReceipt
  BY ExchangeConstants DEF Batch, Offered, NoReceipt
<1>4. /\ e \in PeerState /\ e.incarnation = peer[n][p].incarnation
      /\ e.received = batch.checkpoint /\ e.bootstrapped
      /\ e.pending = NoPreview /\ e.stored = peer[n][p].stored
      /\ e.applied = peer[n][p].applied /\ e.processed = peer[n][p].processed
  <2>1. NoPreview \in [local_revision : Nat, batch : Batch]
    BY <1>2 DEF NoPreview
  <2>2. peer[n][p] \in PeerState
    BY EntryFacts
  <2> QED  BY <1>3, <2>1, <2>2 DEF PeerState
<1> HIDE DEF e
<1>5. app' \in [Node -> [Key -> Clock]]
  BY <1>2 DEF TypeOK
<1>6. StoreType'
  BY <1>1, <1>2, <1>3, <1>5, MergeTyped
<1>7. /\ PeersType' /\ peer'[n][p] = e
      /\ \A m, q \in Node : <<m, q>> # <<n, p>> => peer'[m][q] = peer[m][q]
  <2>1. peer \in [Node -> [Node -> PeerState]]
    BY <1>2 DEF TypeOK
  <2>2. /\ peer' \in [Node -> [Node -> PeerState]] /\ peer'[n][p] = e
        /\ \A m, q \in Node : <<m, q>> # <<n, p>> => peer'[m][q] = peer[m][q]
    BY <1>1, <1>4, <2>1
  <2>3. /\ e.incarnation <= minted' /\ (e.bootstrapped <=> e.received # NoReceipt)
        /\ minted' \in 1 .. scope.incarnations /\ minted <= minted'
    BY <1>3, <1>4, EntryFacts
  <2>4. ASSUME NEW m \in Node, NEW q \in Node
        PROVE  \/ peer'[m][q] = peer[m][q]
               \/ /\ peer'[m][q].incarnation <= minted'
                  /\ peer'[m][q].bootstrapped <=> peer'[m][q].received # NoReceipt
    BY <2>2, <2>3
  <2> QED  BY <1>2, <2>2, <2>3, <2>4, PeersReplaced
<1>8. TypeOK'
  <2>1. /\ inbox' \in [Node -> InboxState] /\ minted' \in 1 .. scope.incarnations
        /\ joining' \in [Node -> [Node -> BOOLEAN]]
    BY <1>2 DEF TypeOK
  <2> QED  BY <1>2, <1>6, <1>7, <2>1, TypeNext
<1>9. World' \in Worlds
  BY <1>2, <1>8, NextWorld
<1>10. Onward(World, World') /\ StoreHolds(World')
  <2>1. \A k \in Key : ~Less(records[p][k], batch.records[k])
    BY Fields DEF Offered
  <2>2. \A m \in Node, k \in Key :
          /\ ~Less(app'[m][k], app[m][k])
          /\ app'[m][k] = app[m][k] \/ (m = n /\ app'[m][k] = batch.records[k])
    BY <1>2, LessOrders DEF TypeOK
  <2> QED  BY <1>1, <1>2, <1>3, <1>8, <2>1, <2>2, MergeKeeps DEF IInv
<1>11. Reached(World', World'.records[n], p, batch.checkpoint)
  <2>1. /\ records'[p] = records[p] /\ revision'[p] = revision[p]
        /\ sequence'[p] = sequence[p]
    BY <1>1, <1>2, <1>3, MergeMoves
  <2>2. ASSUME NEW k \in Key, sequence[p][k] <= batch.checkpoint.sequence
        PROVE  ~Less(records'[n][k], records[p][k])
    <3>1. /\ records[n][k] \in Stamp /\ batch.records[k] \in Stamp
          /\ records[p][k] \in Stamp
      BY <1>2, <1>3 DEF TypeOK
    <3>2. records'[n][k] = Later(records[n][k], batch.records[k])
      BY <1>1, <1>2, <1>3, MergeMoves
    <3>3. \/ ~Less(batch.records[k], records[p][k])
          \/ ~Less(records[n][k], records[p][k])
      BY <2>2, Fields DEF Offered
    <3> QED  BY <3>1, <3>2, <3>3, LaterIsNoOlder, LessOrders
  <2>3. batch.checkpoint.sequence <= revision[p]
    BY Fields DEF Offered
  <2> QED  BY <2>1, <2>2, <2>3, Fields DEF Reached
<1>12. ASSUME NEW m \in Node, NEW q \in Node
       PROVE  peer'[m][q] = peer[m][q] \/ EntryHolds(World', m, q, peer'[m][q])
  <2>1. EntryHolds(World', n, p, peer[n][p])
    BY <1>2, <1>9, <1>10, EntryFacts, EntryOnward
  <2>2. EntryHolds(World', n, p, e)
    BY <1>4, <1>11, <2>1 DEF EntryHolds
  <2> QED  BY <1>7, <2>2
<1> QED  BY <1>2, <1>8, <1>9, <1>10, <1>11, <1>12

LEMMA ReceiveKeeps ==
  ASSUME IInv, NEW s \in Slot, Receive(s)
  PROVE  IInv'
<1> DEFINE n == Receiver(s)
           p == Sender(s)
           batch == conn[s].batch
           x(phase) == [conn[s] EXCEPT !.phase = phase,
                          !.batch = [NoBatch EXCEPT !.checkpoint = batch.checkpoint]]
<1>1. /\ conn[s].phase = "delta"
      /\ UNCHANGED <<inbox, app, minted, joining, scope>>
  BY DEF Receive
<1>2. /\ conn[s] \in ConnState /\ MessageHolds(World, conn[s])
      /\ n \in Node /\ p \in Node /\ n # p /\ p = From(conn[s]) /\ n = To(conn[s])
      /\ batch \in Batch
  BY <1>1, MessageFacts DEF ConnState
<1>3. Offered(World, p, n, batch)
  BY <1>1, <1>2 DEF MessageHolds
<1>4. ASSUME NEW phase \in {"ack", "wait"}
      PROVE  /\ x(phase) \in ConnState /\ x(phase).phase = phase
             /\ x(phase).client = conn[s].client /\ x(phase).listener = conn[s].listener
             /\ x(phase).back = conn[s].back /\ x(phase).back_cursor = conn[s].back_cursor
             /\ x(phase).batch.checkpoint = batch.checkpoint
  <2>1. NoBatch \in Batch /\ batch.checkpoint \in Receipt
    BY <1>2, Typed DEF IInv, Batch
  <2>2. /\ [NoBatch EXCEPT !.checkpoint = batch.checkpoint] \in Batch
        /\ [NoBatch EXCEPT !.checkpoint = batch.checkpoint].checkpoint = batch.checkpoint
    BY <2>1 DEF Batch
  <2> QED  BY <1>2, <2>2 DEF ConnState
<1>5. \A phase \in {"ack", "wait"} : From(x(phase)) = p /\ To(x(phase)) = n
  <2> HIDE DEF x
  <2> QED  BY <1>2, <1>4 DEF From, To
<1>6. ASSUME NEW phase \in {"ack", "wait"}, NEW w, MessageHolds(w, conn[s]),
             phase = "ack" => Reached(w, w.records[n], p, batch.checkpoint)
      PROVE  MessageHolds(w, x(phase))
  <2> HIDE DEF x, n, p, batch
  <2> QED  BY <1>4, <1>5, <1>6 DEF MessageHolds
<1>7. /\ PeersType' \/ peer' # peer
      /\ minted' \in 1 .. scope.incarnations /\ minted <= minted'
      /\ joining' \in [Node -> [Node -> BOOLEAN]]
  BY <1>1, <1>2, PeersTypeStays, EntryFacts DEF IInv
<1>8. CASE /\ Duplicate(n, p, batch) /\ Answer(s, "ack")
           /\ UNCHANGED <<store, peer>>
  <2>1. conn' = [conn EXCEPT ![s] = x("ack")]
    BY <1>8 DEF Answer
  <2>2. Reached(World, World.records[n], p, batch.checkpoint)
    <3>1. /\ Reached(World, World.records[n], p, peer[n][p].received)
          /\ peer[n][p].received \in AnyReceipt
      BY <1>2, EntryFacts, Typed DEF EntryHolds, PeerState, IInv
    <3>2. /\ peer[n][p].received.epoch = batch.checkpoint.epoch
          /\ peer[n][p].received.sequence >= batch.checkpoint.sequence
      BY <1>8 DEF Duplicate
    <3>3. /\ batch.checkpoint.sequence \in Nat /\ revision[p] \in Nat
          /\ \A k \in Key : sequence[p][k] \in Nat
      BY <1>2 DEF IInv, TypeOK, Batch, Receipt
    <3> QED  BY <3>1, <3>2, <3>3, Fields DEF Reached, AnyReceipt
  <2>3. MessageHolds(World, x("ack")) /\ x("ack") \in ConnState
    BY <1>2, <1>4, <1>6, <2>2
  <2> HIDE DEF x, n, p, batch
  <2> QED  BY <1>1, <1>7, <1>8, <2>1, <2>3, MessageReplaced, ExchangeKeeps
<1>9. CASE /\ NeedsConsent(n, p, batch)
           /\ peer' = [peer EXCEPT ![n][p] =
                [@ EXCEPT !.pending = [local_revision |-> revision[n], batch |-> batch],
                          !.state = "needs_merge"]]
           /\ Answer(s, "wait") /\ UNCHANGED store
  <2> DEFINE e == [peer[n][p] EXCEPT
                     !.pending = [local_revision |-> revision[n], batch |-> batch],
                     !.state = "needs_merge"]
  <2>1. conn' = [conn EXCEPT ![s] = x("wait")] /\ peer' = [peer EXCEPT ![n][p] = e]
    BY <1>9 DEF Answer
  <2>2. /\ e \in PeerState /\ e.incarnation = peer[n][p].incarnation
        /\ e.received = peer[n][p].received /\ e.bootstrapped = peer[n][p].bootstrapped
        /\ e.pending.batch = batch /\ e.stored = peer[n][p].stored
        /\ e.applied = peer[n][p].applied /\ e.processed = peer[n][p].processed
    <3>1. /\ [local_revision |-> revision[n], batch |-> batch]
                \in [local_revision : Nat, batch : Batch]
          /\ "needs_merge" \in State
      BY <1>2 DEF IInv, TypeOK, State
    <3>2. peer[n][p] \in PeerState
      BY <1>2, EntryFacts
    <3> QED  BY <3>1, <3>2 DEF PeerState
  <2> HIDE DEF e
  <2>3. EntryHolds(World, n, p, e)
    BY <1>2, <1>3, <2>2, EntryFacts DEF EntryHolds
  <2>4. e.incarnation <= minted' /\ (e.bootstrapped <=> e.received # NoReceipt)
    BY <1>1, <1>2, <2>2, EntryFacts
  <2>5. /\ PeersType'
        /\ \A m, q \in Node :
             peer'[m][q] = peer[m][q] \/ EntryHolds(World, m, q, peer'[m][q])
    BY <1>1, <1>2, <1>7, <2>1, <2>2, <2>3, <2>4, EntryReplaced
  <2>6. MessageHolds(World, x("wait")) /\ x("wait") \in ConnState
    BY <1>2, <1>4, <1>6
  <2> HIDE DEF x, n, p, batch
  <2> QED  BY <1>1, <1>7, <1>9, <2>1, <2>5, <2>6, MessageReplaced, ExchangeKeeps
<1>10. CASE Apply(n, p, batch) /\ Answer(s, "ack")
  <2>1. conn' = [conn EXCEPT ![s] = x("ack")] /\ x("ack") \in ConnState
    BY <1>4, <1>10 DEF Answer
  <2> HIDE DEF x
  <2>2. /\ conn' \in [Slot -> ConnState] /\ conn'[s] = x("ack")
        /\ \A t \in Slot : t # s => conn'[t] = conn[t]
    BY <2>1 DEF IInv, TypeOK
  <2>3. /\ TypeOK' /\ World \in Worlds /\ World' \in Worlds
        /\ Onward(World, World') /\ StoreHolds(World')
        /\ Reached(World', World'.records[n], p, batch.checkpoint)
        /\ \A m, q \in Node :
             peer'[m][q] = peer[m][q] \/ EntryHolds(World', m, q, peer'[m][q])
    BY <1>1, <1>2, <1>3, <1>10, <2>2, ApplyHolds
  <2>4. MessageHolds(World', conn[s])
    BY <1>2, <2>3, MessageOnward DEF IInv
  <2>5. MessageHolds(World', x("ack"))
    BY <1>6, <2>3, <2>4
  <2> QED  BY <1>1, <2>2, <2>3, <2>5, PromisesKept
<1> QED  BY <1>8, <1>9, <1>10 DEF Receive

\* The exchange goes on with the listener's batch, or is over.
LEMMA AnsweredHolds ==
  ASSUME IInv, NEW s \in Slot, conn[s].phase # "idle", Answered(s)
  PROVE  /\ conn' \in [Slot -> ConnState]
         /\ \A t \in Slot : \/ conn'[t] = conn[t] \/ conn'[t].phase = "idle"
                            \/ MessageHolds(World, conn'[t])
<1> DEFINE y == [conn[s] EXCEPT !.phase = "export", !.back = TRUE, !.batch = NoBatch,
                   !.cursor = conn[s].back_cursor, !.back_cursor = NoReceipt]
<1>1. conn[s] \in ConnState /\ MessageHolds(World, conn[s])
  BY MessageFacts
<1>2. NoReceipt \in Receipt /\ NoBatch \in Batch
  BY Typed DEF IInv
<1>3. CASE conn[s].back
  <2>1. conn' = [conn EXCEPT ![s] = Idle]
    BY <1>3 DEF Answered
  <2>2. Idle \in ConnState /\ Idle.phase = "idle"
    BY <1>2 DEF Idle, ConnState
  <2> QED  BY <2>1, <2>2, MessageReplaced
<1>4. CASE ~conn[s].back
  <2>1. conn' = [conn EXCEPT ![s] = y]
    BY <1>4 DEF Answered
  <2>2. /\ y \in ConnState /\ y.phase = "export" /\ y.back
        /\ y.client = conn[s].client /\ y.listener = conn[s].listener
        /\ y.cursor = conn[s].back_cursor /\ y.back_cursor = NoReceipt
    BY <1>1, <1>2 DEF ConnState
  <2> HIDE DEF y
  <2>3. MessageHolds(World, y)
    BY <1>1, <2>2, NoReceiptPromisesNothing DEF MessageHolds, From, To
  <2> QED  BY <2>1, <2>2, <2>3, MessageReplaced
<1> QED  BY <1>3, <1>4

LEMMA HandleAckKeeps ==
  ASSUME IInv, NEW s \in Slot, HandleAck(s)
  PROVE  IInv'
<1> DEFINE n == Sender(s)
           p == Receiver(s)
           r == conn[s].batch.checkpoint
           shown == IF peer[n][p].pending # NoPreview THEN "needs_merge"
                    ELSE IF /\ peer[n][p].applied.epoch = r.epoch
                            /\ peer[n][p].applied.sequence >= r.sequence
                    THEN "up_to_date" ELSE "stored"
           e == [peer[n][p] EXCEPT !.stored = Advance(peer[n][p].stored, r),
                                   !.state = shown]
<1>1. /\ conn[s].phase = "ack" /\ Answered(s)
      /\ peer' = [peer EXCEPT ![n][p] = e]
      /\ UNCHANGED <<store, inbox, app, minted, joining, scope>>
  BY DEF HandleAck
<1>2. /\ n \in Node /\ p \in Node /\ r \in Receipt
      /\ Reached(World, World.records[p], n, r)
  BY <1>1, MessageFacts DEF MessageHolds, ConnState, Batch
<1>3. peer[n][p] \in PeerState /\ EntryHolds(World, n, p, peer[n][p])
  BY <1>2, EntryFacts
<1>4. Advance(peer[n][p].stored, r) \in {peer[n][p].stored, r}
  BY AdvanceIsOneOf
<1>5. /\ e \in PeerState /\ e.incarnation = peer[n][p].incarnation
      /\ e.received = peer[n][p].received /\ e.bootstrapped = peer[n][p].bootstrapped
      /\ e.applied = peer[n][p].applied /\ e.processed = peer[n][p].processed
      /\ e.pending = peer[n][p].pending /\ e.stored \in {peer[n][p].stored, r}
  <2>1. Advance(peer[n][p].stored, r) \in Receipt /\ shown \in State
    BY <1>2, <1>3, <1>4 DEF PeerState, State
  <2> HIDE DEF r, shown
  <2> QED  BY <1>3, <1>4, <2>1 DEF PeerState
<1> HIDE DEF e, n, p, r
<1>6. EntryHolds(World, n, p, e)
  <2>1. Reached(World, World.records[p], n, e.stored)
    BY <1>2, <1>3, <1>5 DEF EntryHolds
  <2> QED  BY <1>3, <1>5, <2>1 DEF EntryHolds
<1>7. /\ e.incarnation <= minted' /\ (e.bootstrapped <=> e.received # NoReceipt)
      /\ minted' \in 1 .. scope.incarnations /\ minted <= minted'
      /\ joining' \in [Node -> [Node -> BOOLEAN]]
  BY <1>1, <1>2, <1>5, EntryFacts
<1>8. /\ PeersType'
      /\ \A m, q \in Node :
           peer'[m][q] = peer[m][q] \/ EntryHolds(World, m, q, peer'[m][q])
  BY <1>1, <1>2, <1>5, <1>6, <1>7, EntryReplaced
<1> QED  BY <1>1, <1>7, <1>8, AnsweredHolds, ExchangeKeeps

LEMMA HandlePendingKeeps ==
  ASSUME IInv, NEW s \in Slot, HandlePending(s)
  PROVE  IInv'
<1>1. /\ conn[s].phase = "wait" /\ Answered(s)
      /\ UNCHANGED <<store, peer, inbox, app, minted, joining, scope>>
  BY DEF HandlePending
<1>2. PeersType' /\ TypeOK
  BY <1>1, PeersTypeStays DEF IInv
<1>3. minted' \in 1 .. scope.incarnations /\ joining' \in [Node -> [Node -> BOOLEAN]]
  BY <1>1, <1>2 DEF TypeOK
<1> QED  BY <1>1, <1>2, <1>3, AnsweredHolds, ExchangeKeeps

\* An entry whose state alone changes, or whose preview is gone.
LEMMA StateShown ==
  ASSUME IInv, UNCHANGED <<minted, scope>>, NEW n \in Node, NEW p \in Node,
         NEW state \in State,
         \/ peer' = [peer EXCEPT ![n][p] = [peer[n][p] EXCEPT !.state = state]]
         \/ peer' = [peer EXCEPT ![n][p] =
                       [peer[n][p] EXCEPT !.pending = NoPreview, !.state = state]]
  PROVE  /\ PeersType'
         /\ \A m, q \in Node :
              peer'[m][q] = peer[m][q] \/ EntryHolds(World, m, q, peer'[m][q])
<1>1. peer[n][p] \in PeerState /\ EntryHolds(World, n, p, peer[n][p])
  BY EntryFacts
<1>2. NoPreview \in [local_revision : Nat, batch : Batch]
  BY Typed DEF IInv, NoPreview
<1>3. \E e \in PeerState :
        /\ peer' = [peer EXCEPT ![n][p] = e]
        /\ e.incarnation = peer[n][p].incarnation
        /\ e.received = peer[n][p].received /\ e.bootstrapped = peer[n][p].bootstrapped
        /\ e.stored = peer[n][p].stored /\ e.applied = peer[n][p].applied
        /\ e.processed = peer[n][p].processed
        /\ e.pending \in {peer[n][p].pending, NoPreview}
  <2> DEFINE f == [peer[n][p] EXCEPT !.state = state]
             g == [peer[n][p] EXCEPT !.pending = NoPreview, !.state = state]
  <2>1. /\ f \in PeerState /\ f.incarnation = peer[n][p].incarnation
        /\ f.received = peer[n][p].received /\ f.bootstrapped = peer[n][p].bootstrapped
        /\ f.stored = peer[n][p].stored /\ f.applied = peer[n][p].applied
        /\ f.processed = peer[n][p].processed /\ f.pending = peer[n][p].pending
    BY <1>1 DEF PeerState
  <2>2. /\ g \in PeerState /\ g.incarnation = peer[n][p].incarnation
        /\ g.received = peer[n][p].received /\ g.bootstrapped = peer[n][p].bootstrapped
        /\ g.stored = peer[n][p].stored /\ g.applied = peer[n][p].applied
        /\ g.processed = peer[n][p].processed /\ g.pending = NoPreview
    BY <1>1, <1>2 DEF PeerState
  <2>3. peer' = [peer EXCEPT ![n][p] = f] \/ peer' = [peer EXCEPT ![n][p] = g]
    OBVIOUS
  <2> HIDE DEF f, g
  <2> QED  BY <2>1, <2>2, <2>3
<1>4. PICK e \in PeerState :
        /\ peer' = [peer EXCEPT ![n][p] = e]
        /\ e.incarnation = peer[n][p].incarnation
        /\ e.received = peer[n][p].received /\ e.bootstrapped = peer[n][p].bootstrapped
        /\ e.stored = peer[n][p].stored /\ e.applied = peer[n][p].applied
        /\ e.processed = peer[n][p].processed
        /\ e.pending \in {peer[n][p].pending, NoPreview}
  BY <1>3
<1>5. EntryHolds(World, n, p, e)
  BY <1>1, <1>4 DEF EntryHolds
<1>6. /\ e.incarnation <= minted' /\ (e.bootstrapped <=> e.received # NoReceipt)
      /\ minted' \in 1 .. scope.incarnations /\ minted <= minted'
  BY <1>4, EntryFacts
<1> QED  BY <1>4, <1>5, <1>6, EntryReplaced

LEMMA DropKeeps ==
  ASSUME IInv, NEW s \in Slot, Drop(s)
  PROVE  IInv'
<1> DEFINE c == conn[s].client
           l == conn[s].listener
<1>1. /\ conn[s].phase # "idle" /\ conn' = [conn EXCEPT ![s] = Idle]
      /\ peer' = peer \/ peer' = [peer EXCEPT ![c][l].state = "waiting"]
      /\ UNCHANGED <<store, inbox, app, minted, joining, scope>>
  BY DEF Drop
<1>2. c \in Node /\ l \in Node
  BY <1>1, MessageFacts
<1>3. Idle \in ConnState /\ Idle.phase = "idle"
  BY Typed DEF IInv, Idle, ConnState
<1>4. /\ PeersType'
      /\ \A m, q \in Node :
           peer'[m][q] = peer[m][q] \/ EntryHolds(World, m, q, peer'[m][q])
  <2>1. CASE peer' = peer
    BY <1>1, <2>1, PeersTypeStays DEF IInv
  <2>2. CASE peer' = [peer EXCEPT ![c][l].state = "waiting"]
    <3>1. peer' = [peer EXCEPT ![c][l] = [peer[c][l] EXCEPT !.state = "waiting"]]
      BY <2>2
    <3>2. "waiting" \in State
      BY DEF State
    <3> HIDE DEF c, l
    <3> QED  BY <1>1, <1>2, <3>1, <3>2, StateShown
  <2> QED  BY <1>1, <2>1, <2>2
<1>5. minted' \in 1 .. scope.incarnations /\ joining' \in [Node -> [Node -> BOOLEAN]]
  BY <1>1, <1>2, EntryFacts
<1> QED  BY <1>1, <1>3, <1>4, <1>5, MessageReplaced, ExchangeKeeps

LEMMA ConsentMergeKeeps ==
  ASSUME IInv, NEW n \in Node, NEW p \in Node, ConsentMerge(n, p)
  PROVE  IInv'
<1> DEFINE batch == peer[n][p].pending.batch
<1>1. /\ peer[n][p].pending # NoPreview /\ Apply(n, p, batch)
      /\ UNCHANGED <<conn, inbox, app, minted, joining, scope>>
  BY DEF ConsentMerge
<1>2. peer[n][p] \in PeerState /\ EntryHolds(World, n, p, peer[n][p])
  BY EntryFacts
<1>3. n # p /\ batch \in Batch /\ Offered(World, p, n, batch)
  BY <1>1, <1>2 DEF EntryHolds, PeerState
<1>4. conn' \in [Slot -> ConnState]
  BY <1>1 DEF IInv, TypeOK
<1> HIDE DEF batch
<1>5. /\ TypeOK' /\ Onward(World, World') /\ StoreHolds(World')
      /\ \A m, q \in Node :
           peer'[m][q] = peer[m][q] \/ EntryHolds(World', m, q, peer'[m][q])
  BY <1>1, <1>3, <1>4, ApplyHolds
<1> QED  BY <1>1, <1>5, PromisesKept

LEMMA ConsentCancelKeeps ==
  ASSUME IInv, NEW n \in Node, NEW p \in Node, ConsentCancel(n, p)
  PROVE  IInv'
<1>1. /\ peer' = [peer EXCEPT ![n][p] =
                    [peer[n][p] EXCEPT !.pending = NoPreview, !.state = "paused"]]
      /\ UNCHANGED <<store, conn, inbox, app, minted, joining, scope>>
  BY DEF ConsentCancel
<1>2. "paused" \in State
  BY DEF State
<1>3. /\ PeersType'
      /\ \A m, q \in Node :
           peer'[m][q] = peer[m][q] \/ EntryHolds(World, m, q, peer'[m][q])
  BY <1>1, <1>2, StateShown
<1>4. /\ minted' \in 1 .. scope.incarnations /\ joining' \in [Node -> [Node -> BOOLEAN]]
      /\ conn' \in [Slot -> ConnState]
  BY <1>1, EntryFacts DEF IInv, TypeOK
<1> QED  BY <1>1, <1>3, <1>4, ExchangeKeeps

LEMMA ResumePeerKeeps ==
  ASSUME IInv, NEW n \in Node, NEW p \in Node, ResumePeer(n, p)
  PROVE  IInv'
<1>1. /\ peer' = [peer EXCEPT ![n][p] = [peer[n][p] EXCEPT !.state = "waiting"]]
      /\ UNCHANGED <<store, conn, inbox, app, minted, joining, scope>>
  BY DEF ResumePeer
<1>2. "waiting" \in State
  BY DEF State
<1>3. /\ PeersType'
      /\ \A m, q \in Node :
           peer'[m][q] = peer[m][q] \/ EntryHolds(World, m, q, peer'[m][q])
  BY <1>1, <1>2, StateShown
<1>4. /\ minted' \in 1 .. scope.incarnations /\ joining' \in [Node -> [Node -> BOOLEAN]]
      /\ conn' \in [Slot -> ConnState]
  BY <1>1, EntryFacts DEF IInv, TypeOK
<1> QED  BY <1>1, <1>3, <1>4, ExchangeKeeps

LEMMA DrawFacts ==
  ASSUME IInv, Draw
  PROVE  /\ minted' \in 1 .. scope.incarnations
         /\ minted <= minted'
<1>1. minted \in 1 .. scope.incarnations /\ scope.incarnations \in Nat
  BY Typed DEF IInv, TypeOK
<1> QED  BY <1>1 DEF Draw

LEMMA RemovePeerKeeps ==
  ASSUME IInv, NEW n \in Node, NEW p \in Node, RemovePeer(n, p)
  PROVE  IInv'
<1> DEFINE e == [peer[n][p] EXCEPT !.revoked = TRUE, !.incarnation = minted',
                                   !.state = "paused", !.pending = NoPreview]
           y(s) == [conn[s] EXCEPT !.cut = @ \cup {n}]
<1>1. /\ Draw /\ peer' = [peer EXCEPT ![n][p] = e]
      /\ conn' = [s \in Slot |-> IF n \in {conn[s].client, conn[s].listener}
                                 THEN y(s) ELSE conn[s]]
      /\ joining' = [joining EXCEPT ![n] = [q \in Node |-> FALSE]]
      /\ UNCHANGED <<store, inbox, app, scope>>
  BY DEF RemovePeer
<1>2. peer[n][p] \in PeerState /\ EntryHolds(World, n, p, peer[n][p])
  BY EntryFacts
<1>3. minted' \in 1 .. scope.incarnations /\ minted <= minted' /\ minted' <= minted'
  BY <1>1, Typed, DrawFacts DEF IInv
<1>4. /\ e \in PeerState /\ e.incarnation = minted'
      /\ e.received = peer[n][p].received /\ e.bootstrapped = peer[n][p].bootstrapped
      /\ e.stored = peer[n][p].stored /\ e.applied = peer[n][p].applied
      /\ e.processed = peer[n][p].processed /\ e.pending = NoPreview
  <2>1. NoPreview \in [local_revision : Nat, batch : Batch] /\ "paused" \in State
    BY Typed DEF IInv, NoPreview, State
  <2> QED  BY <1>2, <1>3, <2>1 DEF PeerState
<1> HIDE DEF e
<1>5. EntryHolds(World, n, p, e)
  BY <1>2, <1>4 DEF EntryHolds
<1>6. e.incarnation <= minted' /\ (e.bootstrapped <=> e.received # NoReceipt)
  BY <1>3, <1>4, EntryFacts
<1>7. /\ PeersType'
      /\ \A m, q \in Node :
           peer'[m][q] = peer[m][q] \/ EntryHolds(World, m, q, peer'[m][q])
  BY <1>1, <1>3, <1>4, <1>5, <1>6, EntryReplaced
<1>8. ASSUME NEW s \in Slot
      PROVE  /\ y(s) \in ConnState /\ y(s).phase = conn[s].phase
             /\ MessageHolds(World, conn[s]) => MessageHolds(World, y(s))
  <2>1. conn[s] \in ConnState
    BY DEF IInv, TypeOK
  <2>2. /\ y(s) \in ConnState /\ y(s).phase = conn[s].phase
        /\ y(s).client = conn[s].client /\ y(s).listener = conn[s].listener
        /\ y(s).back = conn[s].back /\ y(s).batch = conn[s].batch
        /\ y(s).received = conn[s].received /\ y(s).processed = conn[s].processed
        /\ y(s).cursor = conn[s].cursor /\ y(s).back_cursor = conn[s].back_cursor
    BY <2>1 DEF ConnState
  <2> HIDE DEF y
  <2>3. From(y(s)) = From(conn[s]) /\ To(y(s)) = To(conn[s])
    BY <2>2 DEF From, To
  <2> QED  BY <2>2, <2>3 DEF MessageHolds
<1> HIDE DEF y
<1>9. conn' \in [Slot -> ConnState]
  <2>1. conn \in [Slot -> ConnState]
    BY DEF IInv, TypeOK
  <2> QED  BY <1>1, <1>8, <2>1
<1>10. \A s \in Slot : \/ conn'[s] = conn[s] \/ conn'[s].phase = "idle"
                       \/ MessageHolds(World, conn'[s])
  <2> TAKE s \in Slot
  <2>1. conn'[s] \in {conn[s], y(s)}
    BY <1>1
  <2>2. conn[s].phase = "idle" \/ MessageHolds(World, conn[s])
    BY DEF IInv, MessagesHold
  <2> QED  BY <1>8, <2>1, <2>2
<1>11. joining' \in [Node -> [Node -> BOOLEAN]]
  BY <1>1 DEF IInv, TypeOK
<1> QED  BY <1>1, <1>3, <1>7, <1>9, <1>10, <1>11, ExchangeKeeps

\* A new enrollment knows nothing of what the last one had received.
LEMMA EnrolledHolds ==
  ASSUME IInv, NEW n \in Node, NEW p \in Node, NEW i \in 1 .. scope.incarnations
  PROVE  /\ Enrolled(i) \in PeerState /\ Enrolled(i).incarnation = i
         /\ Enrolled(i).bootstrapped <=> Enrolled(i).received # NoReceipt
         /\ EntryHolds(World, n, p, Enrolled(i))
<1>1. NoReceipt \in Receipt /\ NoBatch \in Batch
  BY Typed DEF IInv
<1>2. NoPreview \in [local_revision : Nat, batch : Batch] /\ "waiting" \in State
  BY <1>1 DEF NoPreview, State
<1>3. /\ Enrolled(i).incarnation = i /\ ~Enrolled(i).bootstrapped
      /\ {Enrolled(i).stored, Enrolled(i).received, Enrolled(i).applied,
          Enrolled(i).processed} = {NoReceipt}
      /\ Enrolled(i).pending = NoPreview
  BY DEF Enrolled
<1>4. Enrolled(i) \in PeerState
  BY <1>1, <1>2 DEF Enrolled, PeerState
<1> QED  BY <1>3, <1>4, NoReceiptPromisesNothing DEF EntryHolds

LEMMA RepairKeeps ==
  ASSUME IInv, NEW n \in Node, NEW p \in Node, RepairHost(n, p) \/ RepairJoin(n, p)
  PROVE  IInv'
<1>1. PICK m \in Node, q \in Node :
        /\ Draw /\ peer' = [peer EXCEPT ![m][q] = Enrolled(minted')]
        /\ joining' \in [Node -> [Node -> BOOLEAN]]
        /\ UNCHANGED <<store, conn, inbox, app, scope>>
  <2>1. joining \in [Node -> [Node -> BOOLEAN]]
    BY DEF IInv, TypeOK
  <2>2. CASE RepairHost(n, p)
    <3>1. /\ Draw /\ peer' = [peer EXCEPT ![p][n] = Enrolled(minted')]
          /\ joining' = [joining EXCEPT ![n][p] = TRUE]
          /\ UNCHANGED <<store, conn, inbox, app, scope>>
      BY <2>2 DEF RepairHost
    <3>2. joining' \in [Node -> [Node -> BOOLEAN]]
      BY <2>1, <3>1
    <3> QED  BY <3>1, <3>2
  <2>3. CASE RepairJoin(n, p)
    <3>1. /\ Draw /\ peer' = [peer EXCEPT ![n][p] = Enrolled(minted')]
          /\ joining' = [joining EXCEPT ![n][p] = FALSE]
          /\ UNCHANGED <<store, conn, inbox, app, scope>>
      BY <2>3 DEF RepairJoin
    <3>2. joining' \in [Node -> [Node -> BOOLEAN]]
      BY <2>1, <3>1
    <3> QED  BY <3>1, <3>2
  <2> QED  BY <2>2, <2>3
<1>2. minted' \in 1 .. scope.incarnations /\ minted <= minted' /\ minted' <= minted'
  BY <1>1, Typed, DrawFacts DEF IInv
<1>3. PICK i \in 1 .. scope.incarnations : i = minted'
  BY <1>2
<1>4. /\ Enrolled(i) \in PeerState /\ Enrolled(i).incarnation <= minted'
      /\ Enrolled(i).bootstrapped <=> Enrolled(i).received # NoReceipt
      /\ EntryHolds(World, m, q, Enrolled(i))
  BY <1>2, <1>3, EnrolledHolds
<1>5. peer' = [peer EXCEPT ![m][q] = Enrolled(i)]
  BY <1>1, <1>3
<1>6. /\ PeersType'
      /\ \A a, b \in Node :
           peer'[a][b] = peer[a][b] \/ EntryHolds(World, a, b, peer'[a][b])
  BY <1>1, <1>2, <1>4, <1>5, EntryReplaced
<1>7. conn' \in [Slot -> ConnState]
  BY <1>1 DEF IInv, TypeOK
<1> QED  BY <1>1, <1>2, <1>6, <1>7, ExchangeKeeps

LEMMA NextKeeps ==
  ASSUME IInv, [Next]_vars
  PROVE  IInv'
<1>1. ASSUME NEW n \in Node, NEW k \in Key, Write(n, k)
      PROVE  IInv'
  BY <1>1, WriteKeeps
<1>2. ASSUME NEW n \in Node, Capture(n) \/ Process(n) \/ Acknowledge(n)
      PROVE  IInv'
  BY <1>2, CaptureKeeps, ProcessKeeps, AcknowledgeKeeps
<1>3. ASSUME NEW s \in Slot, NEW c \in Node, NEW l \in Node, Hello(s, c, l)
      PROVE  IInv'
  BY <1>3, HelloKeeps
<1>4. ASSUME NEW s \in Slot, Exchange(s)
      PROVE  IInv'
  BY <1>4, AcceptHelloKeeps, AuthenticateListenerKeeps, ExportKeeps, ReceiveKeeps,
     HandleAckKeeps, HandlePendingKeeps DEF Exchange
<1>5. ASSUME NEW s \in Slot, Drop(s)
      PROVE  IInv'
  BY <1>5, DropKeeps
<1>6. ASSUME NEW n \in Node, NEW p \in Node,
             \/ ConsentMerge(n, p) \/ ConsentCancel(n, p) \/ ResumePeer(n, p)
      PROVE  IInv'
  BY <1>6, ConsentMergeKeeps, ConsentCancelKeeps, ResumePeerKeeps
<1>7. ASSUME NEW n \in Node, NEW p \in Node,
             RemovePeer(n, p) \/ RepairHost(n, p) \/ RepairJoin(n, p)
      PROVE  IInv'
  BY <1>7, RemovePeerKeeps, RepairKeeps
<1>8. ASSUME UNCHANGED vars
      PROVE  IInv'
  <2>1. TypeOK' /\ scope' = scope
    BY <1>8, TypesStay DEF IInv, TypeOK, vars
  <2>2. World' = World /\ Onward(World, World') /\ StoreHolds(World')
    BY <1>8, WorldStays DEF vars, store
  <2> QED  BY <1>8, <2>1, <2>2, PromisesKept DEF vars
<1> QED  BY <1>1, <1>2, <1>3, <1>4, <1>5, <1>6, <1>7, <1>8 DEF Next

-----------------------------------------------------------------------------
(* The theorems *)

\* Every receipt, batch in flight, preview and captured inbox keeps what it
\* promises, whatever is cut off, repeated, removed or repaired meanwhile.
THEOREM ExchangeInductive == Spec => []IInv
<1>1. Init => IInv
  BY InitHolds
<1>2. IInv /\ [Next]_vars => IInv'
  BY NextKeeps
<1> QED  BY <1>1, <1>2, PTL DEF Spec

\* Journals, connections and inboxes keep their types; a device has numbered no
\* record beyond its revision (adapter.rs, commit_records).
THEOREM ExchangeType == Spec => []TypeOK
<1>1. IInv => TypeOK
  BY DEF IInv
<1> QED  BY <1>1, ExchangeInductive, PTL

\* Nothing stops being pending for a peer before the peer holds it durably
\* (session/mod.rs, pending; session/network.rs, send_batch and authenticate).
THEOREM PendingIsTruthful == Spec => []PendingTruthful
<1>1. ASSUME IInv
      PROVE  PendingTruthful
  <2> SUFFICES ASSUME NEW n \in Node, NEW p \in Node, PendingFor(n, p) = {},
                      NEW k \in Key
               PROVE  ~Less(records[p][k], records[n][k])
    BY DEF PendingTruthful, Covers
  <2> DEFINE stored == peer[n][p].stored
  <2>1. /\ stored \in Receipt /\ revision[n] \in Nat /\ sequence[n][k] \in Nat
        /\ records[p][k] \in Stamp
        /\ Reached(World, World.records[p], n, stored)
    BY <1>1, EntryFacts, Typed DEF IInv, TypeOK, PeerState, EntryHolds
  <2>2. /\ records[n][k] # Absent => stored.epoch = n /\ ~(stored.sequence > revision[n])
        /\ sequence[n][k] > stored.sequence => origin[n][k] = p
    BY DEF PendingFor
  <2>3. CASE records[n][k] = Absent
    BY <2>1, <2>3, LessOrders
  <2>4. CASE origin[n][k] = p
    BY <1>1, <2>4, Fields DEF IInv, StoreHolds
  <2>5. CASE records[n][k] # Absent /\ origin[n][k] # p
    <3>1. sequence[n][k] <= stored.sequence /\ stored.epoch = n
      BY <2>1, <2>2, <2>5 DEF Receipt
    <3> QED  BY <2>1, <3>1, Fields DEF Reached
  <2> QED  BY <2>3, <2>4, <2>5
<1> QED  BY <1>1, ExchangeInductive, PTL

\* What a source is told was applied the peer's application has committed,
\* however late it acknowledges (session/mod.rs, application_inbox and
\* acknowledge_inbox).
THEOREM AppliedIsTruthful == Spec => []AppliedTruthful
<1>1. ASSUME IInv
      PROVE  AppliedTruthful
  <2> SUFFICES ASSUME NEW n \in Node, NEW p \in Node, peer[n][p].applied.epoch = n,
                      NEW k \in Key, sequence[n][k] <= peer[n][p].applied.sequence
               PROVE  ~Less(app[p][k], records[n][k])
    BY DEF AppliedTruthful
  <2>1. Reached(World, World.app[p], n, peer[n][p].applied)
    BY <1>1, EntryFacts DEF EntryHolds
  <2> QED  BY <2>1, Fields DEF Reached
<1> QED  BY <1>1, ExchangeInductive, PTL

\* Merging an empty batch changes nothing, nor does a local write come from a
\* peer: what an exchange changes it changes with consent.
LEMMA ConsentStep ==
  ASSUME IInv, [Next]_vars, NEW n \in Node, NEW p \in Node, NEW k \in Key,
         records'[n][k] # records[n][k], origin'[n][k] = p, ~Empty(records[n])
  PROVE  peer[n][p].bootstrapped \/ peer[n][p].pending # NoPreview
<1>1. TypeOK /\ Clock \subseteq Stamp
  BY Typed DEF IInv
<1>2. records' # records
  OBVIOUS
<1>3. ASSUME NEW m \in Node, NEW from \in Node \cup {0}, NEW batch \in [Key -> Clock],
             Merge(m, batch, from)
      PROVE  m = n /\ from = p /\ batch[k] # Absent
  <2>1. m = n
    BY <1>1, <1>3, MergeMoves
  <2>2. from = p /\ records'[n][k] = Later(records[n][k], batch[k])
    BY <1>1, <1>3, <2>1, MergeMoves, SMTT(30)
  <2>3. records[n][k] \in Stamp
    BY <1>1 DEF TypeOK
  <2>4. batch[k] # Absent
    BY <2>2, <2>3, LessOrders DEF Later
  <2> QED  BY <2>1, <2>2, <2>4
<1>4. ASSUME NEW m \in Node, NEW j \in Key, Write(m, j)
      PROVE  FALSE
  <2>1. PICK counter \in 1 .. scope.counter :
          Merge(m, [i \in Key |-> IF i = j THEN <<counter, m>> ELSE Absent], 0)
    BY <1>4 DEF Write
  <2>2. [i \in Key |-> IF i = j THEN <<counter, m>> ELSE Absent] \in [Key -> Clock]
    BY <2>1 DEF Clock
  <2>3. 0 = p
    BY <1>3, <2>1, <2>2
  <2> QED  BY <2>3, ExchangeConstants
<1>5. ASSUME NEW s \in Slot, Receive(s)
      PROVE  peer[n][p].bootstrapped
  <2> DEFINE m == Receiver(s)
             q == Sender(s)
             batch == conn[s].batch
  <2>1. conn[s].phase = "delta"
    BY <1>5 DEF Receive
  <2>2. m \in Node /\ q \in Node /\ batch.records \in [Key -> Clock]
    BY <2>1, MessageFacts DEF ConnState, Batch
  <2>3. Apply(m, q, batch) /\ ~NeedsConsent(m, q, batch)
    BY <1>2, <1>5 DEF Receive, store
  <2>4. m = n /\ q = p /\ batch.records[k] # Absent
    <3>1. Merge(m, batch.records, q)
      BY <2>3 DEF Apply
    <3> QED  BY <1>3, <2>2, <3>1
  <2>5. ~Empty(batch.records)
    BY <2>4 DEF Empty
  <2> QED  BY <2>3, <2>4, <2>5 DEF NeedsConsent
<1>6. ASSUME NEW m \in Node, NEW q \in Node, ConsentMerge(m, q)
      PROVE  peer[n][p].pending # NoPreview
  <2>1. peer[m][q].pending # NoPreview /\ Merge(m, peer[m][q].pending.batch.records, q)
    BY <1>6 DEF ConsentMerge, Apply
  <2>2. peer[m][q].pending.batch.records \in [Key -> Clock]
    BY EntryFacts DEF PeerState, Batch
  <2>3. m = n /\ q = p
    BY <1>3, <2>1, <2>2
  <2> QED  BY <2>1, <2>3
<1>7. ASSUME NEW m \in Node, Capture(m) \/ Process(m) \/ Acknowledge(m)
      PROVE  FALSE
  BY <1>2, <1>7 DEF Capture, Process, Acknowledge, store
<1>8. ASSUME NEW s \in Slot,
             \/ AcceptHello(s) \/ AuthenticateListener(s) \/ Export(s)
             \/ HandleAck(s) \/ HandlePending(s) \/ Drop(s)
      PROVE  FALSE
  BY <1>2, <1>8 DEF AcceptHello, AuthenticateListener, Export, HandleAck,
     HandlePending, Drop, store
<1>9. ASSUME NEW s \in Slot, NEW m \in Node, NEW q \in Node, Hello(s, m, q)
      PROVE  FALSE
  BY <1>2, <1>9 DEF Hello, store
<1>10. ASSUME NEW m \in Node, NEW q \in Node,
              \/ ConsentCancel(m, q) \/ ResumePeer(m, q) \/ RemovePeer(m, q)
              \/ RepairHost(m, q) \/ RepairJoin(m, q)
       PROVE  FALSE
  BY <1>2, <1>10 DEF ConsentCancel, ResumePeer, RemovePeer, RepairHost, RepairJoin, store
<1>11. Next
  BY <1>2 DEF vars
<1>12. CASE \E m \in Node : Capture(m) \/ Process(m) \/ Acknowledge(m)
  BY <1>7, <1>12
<1>13. CASE \E s \in Slot : Exchange(s)
  BY <1>5, <1>8, <1>13 DEF Exchange
<1>14. CASE \E s \in Slot : Drop(s)
  BY <1>8, <1>14
<1>15. CASE \E s \in Slot, m, q \in Node : Hello(s, m, q)
  BY <1>9, <1>15
<1>16. CASE \E m \in Node, j \in Key : Write(m, j)
  BY <1>4, <1>16
<1>17. CASE \E m, q \in Node : ConsentMerge(m, q)
  BY <1>6, <1>17
<1>18. CASE \E m, q \in Node :
              \/ ConsentCancel(m, q) \/ ResumePeer(m, q) \/ RemovePeer(m, q)
              \/ RepairHost(m, q) \/ RepairJoin(m, q)
  BY <1>10, <1>18
<1> QED  BY <1>11, <1>12, <1>13, <1>14, <1>15, <1>16, <1>17, <1>18 DEF Next

\* An exchange merges a peer's records into existing ones only after the user
\* has agreed to merge with that peer (session/network.rs, receive_batch and
\* resolve_bootstrap).
THEOREM ConsentIsRespected == Spec => ConsentRespected
<1>1. IInv /\ [Next]_vars =>
        \A n, p \in Node, k \in Key :
          /\ records'[n][k] # records[n][k]
          /\ origin'[n][k] = p
          /\ ~Empty(records[n])
          => peer[n][p].bootstrapped \/ peer[n][p].pending # NoPreview
  BY ConsentStep
<1> QED  BY <1>1, ExchangeInductive, PTL DEF Spec, ConsentRespected

-----------------------------------------------------------------------------
(* What a peer shown as up to date confirms, while exchanges follow each    *)
(* other.                                                                   *)

\* What n has stored at p is never ahead of the batch under way; a peer whose
\* state is up to date has applied what it has stored.
AckFits(x) ==
  x.phase \in {"delta", "ack"} =>
    LET stored == peer[From(x)][To(x)].stored IN
    stored.epoch = From(x) => stored.sequence <= x.batch.checkpoint.sequence
ShownFits(n, e) ==
  e.state = "up_to_date" =>
    /\ e.applied.epoch = n
    /\ e.stored.epoch = n => e.stored.sequence <= e.applied.sequence
ConfirmFits ==
  /\ \A s \in Slot : conn[s].phase # "idle" => s \in scope.slots
  /\ \A s \in Slot : AckFits(conn[s])
  /\ \A n, p \in Node : ShownFits(n, peer[n][p])

\* Whoever wrote x has it, in its journal and in its application.
Authored(w, k, x) ==
  x[2] \in Node => /\ ~Less(w.records[x[2]][k], x)
                   /\ ~Less(w.app[x[2]][k], x)
AuthorsFit ==
  /\ \A n \in Node, k \in Key :
       /\ Authored(World, k, records[n][k])
       /\ records[n][k][2] = n => origin[n][k] = 0
  /\ \A s \in Slot, k \in Key : Authored(World, k, conn[s].batch.records[k])
  /\ \A n, p \in Node, k \in Key : Authored(World, k, peer[n][p].pending.batch.records[k])

LEMMA ScopeStays ==
  ASSUME [Next]_vars
  PROVE  scope' = scope
BY DEF Next, vars, Write, Capture, Process, Acknowledge, Hello, Exchange, AcceptHello,
   AuthenticateListener, Export, Receive, HandleAck, HandlePending, Drop, ConsentMerge,
   ConsentCancel, ResumePeer, RemovePeer, RepairHost, RepairJoin

LEMMA ConfirmInit ==
  ASSUME Init
  PROVE  ConfirmFits
<1>1. \A s \in Slot : conn[s].phase = "idle"
  BY DEF Init, Idle
<1>2. \A n, p \in Node : peer[n][p].state = "waiting"
  BY DEF Init, Enrolled
<1> QED  BY <1>1, <1>2 DEF ConfirmFits, AckFits, ShownFits

\* Steps that learn, acknowledge and begin nothing.
LEMMA ConfirmStays ==
  ASSUME IInv, ConfirmFits, scope' = scope,
         \A s \in Slot :
           \/ conn'[s].phase = "idle"
           \/ /\ conn[s].phase # "idle"
              /\ conn'[s].client = conn[s].client /\ conn'[s].listener = conn[s].listener
              /\ \/ conn'[s].phase \notin {"delta", "ack"}
                 \/ /\ conn[s].phase \in {"delta", "ack"}
                    /\ conn'[s].back = conn[s].back
                    /\ conn'[s].batch.checkpoint = conn[s].batch.checkpoint,
         \A n, p \in Node :
           /\ peer'[n][p].stored \in {peer[n][p].stored, NoReceipt}
           /\ \/ peer'[n][p].state # "up_to_date"
              \/ /\ peer[n][p].state = "up_to_date"
                 /\ peer'[n][p].stored = peer[n][p].stored
                 /\ peer'[n][p].applied = peer[n][p].applied
  PROVE  ConfirmFits'
<1>1. \A s \in Slot : conn'[s].phase # "idle" => s \in scope'.slots
  BY DEF ConfirmFits
<1>2. ASSUME NEW s \in Slot, conn'[s].phase \in {"delta", "ack"},
             peer'[From(conn'[s])][To(conn'[s])].stored.epoch = From(conn'[s])
      PROVE  peer'[From(conn'[s])][To(conn'[s])].stored.sequence
               <= conn'[s].batch.checkpoint.sequence
  <2> DEFINE n == From(conn[s])
             p == To(conn[s])
  <2>1. /\ conn[s].phase \in {"delta", "ack"}
        /\ From(conn'[s]) = n /\ To(conn'[s]) = p
        /\ conn'[s].batch.checkpoint = conn[s].batch.checkpoint
    BY <1>2 DEF From, To
  <2>2. n \in Node /\ p \in Node
    BY <2>1, MessageFacts
  <2> HIDE DEF n, p
  <2>3. NoReceipt.epoch # n
    BY <2>2, ExchangeConstants DEF NoReceipt
  <2>4. peer'[n][p].stored = peer[n][p].stored /\ peer'[n][p].stored.epoch = n
    BY <1>2, <2>1, <2>2, <2>3
  <2>5. AckFits(conn[s])
    BY DEF ConfirmFits
  <2>6. peer[n][p].stored.sequence <= conn[s].batch.checkpoint.sequence
    BY <2>1, <2>4, <2>5 DEF AckFits, n, p
  <2> QED  BY <2>1, <2>4, <2>6
<1>3. ASSUME NEW n \in Node, NEW p \in Node
      PROVE  ShownFits(n, peer'[n][p])
  BY DEF ConfirmFits, ShownFits
<1> QED  BY <1>1, <1>2, <1>3 DEF ConfirmFits, AckFits

\* Of one connection at a time the others are idle.
LEMMA OthersIdle ==
  ASSUME OneAtATime, ConfirmFits, NEW s \in Slot, conn[s].phase # "idle"
  PROVE  s \in scope.slots /\ \A t \in Slot \ {s} : conn[t].phase = "idle"
BY DEF OneAtATime, ConfirmFits

\* What is learnt is learnt of both receipts.
LEMMA LearnShown ==
  ASSUME IInv, NEW n \in Node, NEW p \in Node, NEW r \in Receipt, ShownFits(n, peer[n][p])
  PROVE  ShownFits(n, Learn(n, p, r))
<1> DEFINE e == peer[n][p]
           f == Learn(n, p, r)
<1>1. e \in PeerState
  BY EntryFacts
<1>2. CASE ~Verify(n, p, r)
  BY <1>2 DEF Learn
<1>3. CASE Verify(n, p, r)
  <2>1. /\ f.state = e.state
        /\ f.stored = Advance(e.stored, r) /\ f.applied = Advance(e.applied, r)
    BY <1>1, <1>3 DEF Learn, PeerState
  <2>2. r.epoch = n
    BY <1>3 DEF Verify
  <2>3. /\ e.stored.sequence \in Nat /\ e.applied.sequence \in Nat /\ r.sequence \in Nat
    BY <1>1 DEF PeerState, Receipt
  <2> HIDE DEF e, f
  <2>4. ShownFits(n, e)
    BY DEF e
  <2>5. ShownFits(n, f)
    BY <2>1, <2>2, <2>3, <2>4 DEF ShownFits, Advance
  <2> QED  BY <2>5 DEF f
<1> QED  BY <1>2, <1>3

\* An exchange at its hello has nothing under way that an acknowledgement names.
LEMMA ConfirmLearns ==
  ASSUME IInv, OneAtATime, ConfirmFits, scope' = scope, NEW s \in Slot,
         conn[s].phase # "idle", NEW n \in Node, NEW p \in Node, NEW r \in Receipt,
         peer' = [peer EXCEPT ![n][p] = Learn(n, p, r)],
         NEW x, x.phase \notin {"delta", "ack"}, conn' = [conn EXCEPT ![s] = x]
  PROVE  ConfirmFits'
<1>1. /\ conn'[s] = x /\ \A t \in Slot \ {s} : conn'[t] = conn[t]
      /\ \A m, q \in Node : peer'[m][q] = IF m = n /\ q = p THEN Learn(n, p, r)
                                          ELSE peer[m][q]
  BY DEF IInv, TypeOK
<1>2. s \in scope.slots /\ \A t \in Slot \ {s} : conn[t].phase = "idle"
  BY OthersIdle
<1>3. \A t \in Slot : (conn'[t].phase # "idle" => t \in scope'.slots) /\ AckFits(conn[t])
  BY <1>1, <1>2 DEF ConfirmFits
<1>4. \A t \in Slot : conn'[t].phase \notin {"delta", "ack"}
  BY <1>1, <1>2
<1>5. \A m, q \in Node : ShownFits(m, peer'[m][q])
  BY <1>1, LearnShown DEF ConfirmFits
<1> QED  BY <1>3, <1>4, <1>5 DEF ConfirmFits, AckFits

LEMMA EntryShown ==
  ASSUME IInv, NEW n \in Node, NEW p \in Node, NEW e, e.stored = peer[n][p].stored,
         e.applied = peer[n][p].applied,
         e.state \in {peer[n][p].state, "needs_merge", "waiting", "paused"},
         peer' = [peer EXCEPT ![n][p] = e]
  PROVE  \A m, q \in Node :
           /\ peer'[m][q].stored = peer[m][q].stored
           /\ peer'[m][q].applied = peer[m][q].applied
           /\ peer'[m][q].state # "up_to_date" \/ peer'[m][q].state = peer[m][q].state
<1>1. \A m, q \in Node : peer'[m][q] = IF m = n /\ q = p THEN e ELSE peer[m][q]
  BY DEF IInv, TypeOK
<1> QED  BY <1>1

LEMMA ConfirmHello ==
  ASSUME IInv, ConfirmFits, NEW s \in Slot, NEW c \in Node, NEW l \in Node, Hello(s, c, l)
  PROVE  ConfirmFits'
<1>1. /\ s \in scope.slots /\ scope' = scope /\ peer' = peer
      /\ conn'[s].phase = "hello" /\ \A t \in Slot \ {s} : conn'[t] = conn[t]
  BY DEF Hello, IInv, TypeOK, Idle
<1>2. \A t \in Slot : conn'[t].phase \in {"delta", "ack"} => conn'[t] = conn[t]
  BY <1>1 DEF ConfirmFits, AckFits
<1> QED  BY <1>1, <1>2 DEF ConfirmFits, AckFits

LEMMA ConfirmExport ==
  ASSUME IInv, OneAtATime, ConfirmFits, NEW s \in Slot, Export(s)
  PROVE  ConfirmFits'
<1> DEFINE n == Sender(s)
           p == Receiver(s)
<1>1. /\ conn[s].phase = "export" /\ scope' = scope /\ peer' = peer
      /\ \A t \in Slot \ {s} : conn'[t] = conn[t]
      /\ conn'[s].phase = "delta" /\ conn'[s].back = conn[s].back
      /\ conn'[s].client = conn[s].client /\ conn'[s].listener = conn[s].listener
      /\ conn'[s].batch.checkpoint = Mint(n, p)
  BY MessageFacts DEF Export, IInv, TypeOK, ConnState
<1>2. n \in Node /\ p \in Node /\ From(conn'[s]) = n /\ To(conn'[s]) = p
  BY <1>1, MessageFacts DEF From, To
<1>3. s \in scope.slots /\ \A t \in Slot \ {s} : conn'[t].phase = "idle"
  BY <1>1, OthersIdle
<1>4. peer[n][p].stored.epoch = n => peer[n][p].stored.sequence <= revision[n]
  BY <1>2, EntryFacts, Fields DEF EntryHolds, Reached
<1>5. conn'[s].batch.checkpoint.sequence = revision[n]
  BY <1>1 DEF Mint
<1> HIDE DEF n, p
<1> QED  BY <1>1, <1>2, <1>3, <1>4, <1>5 DEF ConfirmFits, AckFits

LEMMA ConfirmAck ==
  ASSUME IInv, OneAtATime, ConfirmFits, NEW s \in Slot, HandleAck(s)
  PROVE  ConfirmFits'
<1> DEFINE n == Sender(s)
           p == Receiver(s)
           r == conn[s].batch.checkpoint
           e == peer[n][p]
           f == [e EXCEPT !.stored = Advance(e.stored, r),
                   !.state = IF e.pending # NoPreview THEN "needs_merge"
                             ELSE IF e.applied.epoch = r.epoch /\ e.applied.sequence >= r.sequence
                             THEN "up_to_date" ELSE "stored"]
<1>1. /\ conn[s].phase = "ack" /\ scope' = scope /\ Verify(n, p, r)
      /\ peer' = [peer EXCEPT ![n][p] = f] /\ Answered(s)
  BY DEF HandleAck
<1>2. /\ n \in Node /\ p \in Node /\ From(conn[s]) = n /\ To(conn[s]) = p
      /\ conn[s] \in ConnState
  BY <1>1, MessageFacts
<1>3. s \in scope.slots /\ \A t \in Slot \ {s} : conn[t].phase = "idle"
  BY <1>1, OthersIdle
<1>4. /\ conn'[s].phase \in {"idle", "export"} /\ \A t \in Slot \ {s} : conn'[t] = conn[t]
  BY <1>1, <1>2 DEF Answered, Idle, IInv, TypeOK, ConnState
<1>5. e.stored.epoch = n => e.stored.sequence <= r.sequence
  BY <1>1, <1>2 DEF ConfirmFits, AckFits
<1>6. /\ e \in PeerState /\ r \in Receipt
      /\ f.stored = Advance(e.stored, r) /\ f.applied = e.applied
      /\ f.state = "up_to_date" => e.applied.epoch = r.epoch
                                   /\ e.applied.sequence >= r.sequence
  BY <1>2, EntryFacts DEF PeerState, ConnState, Batch
<1>7. r.epoch = n /\ e.stored.sequence \in Nat /\ e.applied.sequence \in Nat
      /\ r.sequence \in Nat
  BY <1>1, <1>6 DEF Verify, PeerState, Receipt
<1>8. ShownFits(n, f)
  <2> HIDE DEF n, p, r, e, f
  <2> QED  BY <1>5, <1>6, <1>7 DEF ShownFits, Advance
<1>9. \A m, q \in Node : peer'[m][q] = IF m = n /\ q = p THEN f ELSE peer[m][q]
  <2> HIDE DEF f
  <2> QED  BY <1>1, <1>2 DEF IInv, TypeOK
<1>10. \A m, q \in Node : ShownFits(m, peer'[m][q])
  <2> HIDE DEF f
  <2> QED  BY <1>8, <1>9 DEF ConfirmFits
<1>11. \A t \in Slot : (conn'[t].phase # "idle" => t \in scope'.slots)
                       /\ conn'[t].phase \notin {"delta", "ack"}
  BY <1>1, <1>3, <1>4
<1> QED  BY <1>10, <1>11 DEF ConfirmFits, AckFits

LEMMA ConfirmExchange ==
  ASSUME IInv, OneAtATime, ConfirmFits, NEW s \in Slot, Exchange(s) \/ Drop(s)
  PROVE  ConfirmFits'
<1>1. CASE AcceptHello(s)
  <2> DEFINE c == conn[s].client
             l == conn[s].listener
             x == [conn[s] EXCEPT !.phase = "hello_back",
                     !.back_cursor = Proven(l, c, conn[s].received),
                     !.received = peer[l][c].received, !.processed = peer[l][c].processed]
  <2>1. /\ conn[s].phase = "hello" /\ conn' = [conn EXCEPT ![s] = x] /\ scope' = scope
        /\ peer' = [peer EXCEPT ![l][c] = Learn(l, c, conn[s].processed)]
    BY <1>1 DEF AcceptHello
  <2>2. c \in Node /\ l \in Node /\ conn[s].processed \in Receipt /\ conn[s] \in ConnState
    BY <2>1, MessageFacts DEF ConnState
  <2>3. x.phase = "hello_back"
    BY <2>2 DEF ConnState
  <2> HIDE DEF x, c, l
  <2> QED  BY <2>1, <2>2, <2>3, ConfirmLearns
<1>2. CASE AuthenticateListener(s)
  <2> DEFINE c == conn[s].client
             l == conn[s].listener
             x == [conn[s] EXCEPT !.phase = "export",
                     !.cursor = Proven(c, l, conn[s].received),
                     !.received = NoReceipt, !.processed = NoReceipt]
  <2>1. /\ conn[s].phase = "hello_back" /\ conn' = [conn EXCEPT ![s] = x] /\ scope' = scope
        /\ peer' = [peer EXCEPT ![c][l] = Learn(c, l, conn[s].processed)]
    BY <1>2 DEF AuthenticateListener
  <2>2. c \in Node /\ l \in Node /\ conn[s].processed \in Receipt /\ conn[s] \in ConnState
    BY <2>1, MessageFacts DEF ConnState
  <2>3. x.phase = "export"
    BY <2>2 DEF ConnState
  <2> HIDE DEF x, c, l
  <2> QED  BY <2>1, <2>2, <2>3, ConfirmLearns
<1>3. CASE Receive(s)
  <2> DEFINE n == Receiver(s)
             p == Sender(s)
  <2>1. conn[s].phase = "delta" /\ scope' = scope
    BY <1>3 DEF Receive
  <2>2. conn[s] \in ConnState /\ n \in Node /\ p \in Node
    BY <2>1, MessageFacts
  <2>3. PICK phase \in {"ack", "wait"} : Answer(s, phase)
    BY <1>3 DEF Receive
  <2>4. /\ \A t \in Slot \ {s} : conn'[t] = conn[t]
        /\ conn'[s].phase = phase /\ conn'[s].back = conn[s].back
        /\ conn'[s].client = conn[s].client /\ conn'[s].listener = conn[s].listener
        /\ conn'[s].batch = [NoBatch EXCEPT !.checkpoint = conn[s].batch.checkpoint]
    BY <2>2, <2>3 DEF Answer, IInv, TypeOK, ConnState
  <2>5. conn'[s].batch.checkpoint = conn[s].batch.checkpoint
    BY <2>4 DEF NoBatch
  <2> DEFINE waiting == [peer[n][p] EXCEPT
                 !.pending = [local_revision |-> revision[n], batch |-> conn[s].batch],
                 !.state = "needs_merge"]
             merged == [peer[n][p] EXCEPT !.received = conn[s].batch.checkpoint,
                          !.bootstrapped = TRUE, !.pending = NoPreview]
  <2>6. \/ peer' = peer
        \/ peer' = [peer EXCEPT ![n][p] = waiting]
        \/ peer' = [peer EXCEPT ![n][p] = merged]
    BY <1>3 DEF Receive, Apply
  <2>7. /\ waiting.stored = peer[n][p].stored /\ waiting.applied = peer[n][p].applied
        /\ waiting.state = "needs_merge"
        /\ merged.stored = peer[n][p].stored /\ merged.applied = peer[n][p].applied
        /\ merged.state = peer[n][p].state
    BY <2>2, EntryFacts DEF PeerState
  <2>8. \A m, q \in Node :
          /\ peer'[m][q].stored = peer[m][q].stored /\ peer'[m][q].applied = peer[m][q].applied
          /\ peer'[m][q].state # "up_to_date" \/ peer'[m][q].state = peer[m][q].state
    <3> HIDE DEF n, p, waiting, merged
    <3> QED  BY <2>2, <2>6, <2>7, EntryShown
  <2> HIDE DEF n, p, waiting, merged
  <2> QED  BY <2>1, <2>4, <2>5, <2>8, ConfirmStays
<1>4. CASE HandlePending(s)
  <2>1. conn[s].phase = "wait" /\ scope' = scope /\ peer' = peer /\ Answered(s)
    BY <1>4 DEF HandlePending
  <2>2. conn[s] \in ConnState
    BY <2>1, MessageFacts
  <2>3. /\ \A t \in Slot \ {s} : conn'[t] = conn[t]
        /\ \/ conn'[s].phase = "idle"
           \/ /\ conn'[s].phase = "export" /\ conn'[s].client = conn[s].client
              /\ conn'[s].listener = conn[s].listener
    BY <2>1, <2>2 DEF Answered, Idle, IInv, TypeOK, ConnState
  <2> QED  BY <2>1, <2>3, ConfirmStays
<1>5. CASE Drop(s)
  <2> DEFINE c == conn[s].client
             l == conn[s].listener
  <2>1. /\ conn[s].phase # "idle" /\ scope' = scope
        /\ peer' = peer \/ peer' = [peer EXCEPT ![c][l].state = "waiting"]
        /\ conn' = [conn EXCEPT ![s] = Idle]
    BY <1>5 DEF Drop
  <2>2. c \in Node /\ l \in Node
    BY <2>1, MessageFacts
  <2>3. \A m, q \in Node :
          /\ peer'[m][q].stored = peer[m][q].stored /\ peer'[m][q].applied = peer[m][q].applied
          /\ peer'[m][q].state # "up_to_date" \/ peer'[m][q].state = peer[m][q].state
    <3> DEFINE e == [peer[c][l] EXCEPT !.state = "waiting"]
    <3>1. peer' = peer \/ peer' = [peer EXCEPT ![c][l] = e]
      BY <2>1
    <3>2. e.stored = peer[c][l].stored /\ e.applied = peer[c][l].applied /\ e.state = "waiting"
      BY <2>2, EntryFacts DEF PeerState
    <3> HIDE DEF c, l, e
    <3> QED  BY <2>2, <3>1, <3>2, EntryShown
  <2>4. conn'[s].phase = "idle" /\ \A t \in Slot \ {s} : conn'[t] = conn[t]
    BY <2>1 DEF Idle, IInv, TypeOK
  <2> QED  BY <2>1, <2>3, <2>4, ConfirmStays
<1> QED  BY <1>1, <1>2, <1>3, <1>4, <1>5, ConfirmExport, ConfirmAck DEF Exchange

\* An acknowledgement changes what is processed, if anything.
LEMMA AcknowledgeEntries ==
  ASSUME IInv, NEW n \in Node, Acknowledge(n), NEW m \in Node, NEW q \in Node
  PROVE  /\ peer'[m][q].stored = peer[m][q].stored
         /\ peer'[m][q].applied = peer[m][q].applied
         /\ peer'[m][q].state = peer[m][q].state
         /\ peer'[m][q].pending = peer[m][q].pending
<1> DEFINE e == [peer[m][q] EXCEPT
                   !.processed = Advance(peer[m][q].processed, inbox[m].receipts[q])]
           f == [i \in Node |->
                   IF inbox[n].receipts[i] # NoReceipt
                   THEN [peer[n][i] EXCEPT !.processed =
                          Advance(peer[n][i].processed, inbox[n].receipts[i])]
                   ELSE peer[n][i]]
<1>1. peer' = peer \/ peer' = [peer EXCEPT ![n] = f]
  BY DEF Acknowledge
<1>2. /\ e.stored = peer[m][q].stored /\ e.applied = peer[m][q].applied
      /\ e.state = peer[m][q].state /\ e.pending = peer[m][q].pending
  BY EntryFacts DEF PeerState
<1>3. m = n => f[q] \in {peer[m][q], e}
  OBVIOUS
<1> HIDE DEF e, f
<1>4. CASE peer' = [peer EXCEPT ![n] = f]
  <2>1. peer'[m] = IF m = n THEN f ELSE peer[m]
    BY <1>4 DEF IInv, TypeOK
  <2> QED  BY <1>2, <1>3, <2>1
<1>5. CASE peer' = peer
  BY <1>5
<1> QED  BY <1>1, <1>4, <1>5

LEMMA ConfirmOthers ==
  ASSUME IInv, ConfirmFits, [Next]_vars,
         \/ \E n \in Node, k \in Key : Write(n, k)
         \/ \E n \in Node : Capture(n) \/ Process(n) \/ Acknowledge(n)
         \/ \E n, p \in Node : ConsentMerge(n, p) \/ ConsentCancel(n, p) \/ ResumePeer(n, p)
         \/ \E n, p \in Node : RemovePeer(n, p) \/ RepairHost(n, p) \/ RepairJoin(n, p)
         \/ UNCHANGED vars
  PROVE  ConfirmFits'
<1>1. scope' = scope
  BY ScopeStays
<1>2. peer \in [Node -> [Node -> PeerState]] /\ conn \in [Slot -> ConnState]
  BY DEF IInv, TypeOK
<1>3. CASE \/ \E n \in Node, k \in Key : Write(n, k)
           \/ \E n \in Node : Capture(n) \/ Process(n)
           \/ UNCHANGED vars
  <2>1. conn' = conn /\ peer' = peer
    BY <1>3 DEF Write, Capture, Process, vars
  <2> QED  BY <1>1, <2>1, ConfirmStays
<1>4. ASSUME NEW n \in Node, Acknowledge(n)
      PROVE  ConfirmFits'
  <2>1. conn' = conn
    BY <1>4 DEF Acknowledge
  <2>2. \A m, q \in Node :
          /\ peer'[m][q].stored = peer[m][q].stored /\ peer'[m][q].applied = peer[m][q].applied
          /\ peer'[m][q].state = peer[m][q].state
    BY <1>4, AcknowledgeEntries
  <2> QED  BY <1>1, <2>1, <2>2, ConfirmStays
<1>5. ASSUME NEW n \in Node, NEW p \in Node,
             \/ ConsentMerge(n, p) \/ ConsentCancel(n, p) \/ ResumePeer(n, p)
             \/ RemovePeer(n, p)
      PROVE  \A m, q \in Node :
               /\ peer'[m][q].stored = peer[m][q].stored
               /\ peer'[m][q].applied = peer[m][q].applied
               /\ peer'[m][q].state # "up_to_date" \/ peer'[m][q].state = peer[m][q].state
  <2> DEFINE merged == [peer[n][p] EXCEPT !.received = peer[n][p].pending.batch.checkpoint,
                          !.bootstrapped = TRUE, !.pending = NoPreview]
             cancelled == [peer[n][p] EXCEPT !.pending = NoPreview, !.state = "paused"]
             resumed == [peer[n][p] EXCEPT !.state = "waiting"]
             removed == [peer[n][p] EXCEPT !.revoked = TRUE, !.incarnation = minted',
                           !.state = "paused", !.pending = NoPreview]
  <2>1. \/ peer' = [peer EXCEPT ![n][p] = merged]
        \/ peer' = [peer EXCEPT ![n][p] = cancelled]
        \/ peer' = [peer EXCEPT ![n][p] = resumed]
        \/ peer' = [peer EXCEPT ![n][p] = removed]
    BY <1>5 DEF ConsentMerge, Apply, ConsentCancel, ResumePeer, RemovePeer
  <2>2. peer[n][p] \in PeerState
    BY EntryFacts
  <2>3. \A e \in {merged, cancelled, resumed, removed} :
          /\ e.stored = peer[n][p].stored /\ e.applied = peer[n][p].applied
          /\ e.state \in {peer[n][p].state, "waiting", "paused"}
    BY <2>2 DEF PeerState
  <2> HIDE DEF merged, cancelled, resumed, removed
  <2> QED  BY <2>1, <2>3, EntryShown
<1>6. ASSUME NEW n \in Node, NEW p \in Node,
             \/ ConsentMerge(n, p) \/ ConsentCancel(n, p) \/ ResumePeer(n, p)
             \/ RemovePeer(n, p)
      PROVE  ConfirmFits'
  <2>1. \A s \in Slot : /\ conn'[s].phase = conn[s].phase /\ conn'[s].client = conn[s].client
                        /\ conn'[s].listener = conn[s].listener
                        /\ conn'[s].back = conn[s].back /\ conn'[s].batch = conn[s].batch
    <3> TAKE s \in Slot
    <3> DEFINE y == [conn[s] EXCEPT !.cut = conn[s].cut \cup {n}]
    <3>1. conn'[s] = conn[s] \/ conn'[s] = y
      BY <1>6 DEF ConsentMerge, ConsentCancel, ResumePeer, RemovePeer
    <3>2. /\ y.phase = conn[s].phase /\ y.client = conn[s].client
          /\ y.listener = conn[s].listener /\ y.back = conn[s].back /\ y.batch = conn[s].batch
      BY <1>2 DEF ConnState
    <3> HIDE DEF y
    <3> QED  BY <3>1, <3>2
  <2> QED  BY <1>1, <1>5, <1>6, <2>1, ConfirmStays
<1>7. ASSUME NEW n \in Node, NEW p \in Node, RepairHost(n, p) \/ RepairJoin(n, p)
      PROVE  ConfirmFits'
  <2>1. conn' = conn
    BY <1>7 DEF RepairHost, RepairJoin
  <2>2. \A m, q \in Node :
          peer'[m][q] = peer[m][q] \/ peer'[m][q] = Enrolled(minted')
    BY <1>2, <1>7 DEF RepairHost, RepairJoin
  <2>3. Enrolled(minted').stored = NoReceipt /\ Enrolled(minted').state = "waiting"
    BY DEF Enrolled
  <2>4. \A m, q \in Node :
          /\ peer'[m][q].stored \in {peer[m][q].stored, NoReceipt}
          /\ peer'[m][q].state = "waiting" \/ peer'[m][q] = peer[m][q]
    BY <2>2, <2>3
  <2> QED  BY <1>1, <2>1, <2>4, ConfirmStays
<1> QED  BY <1>3, <1>4, <1>6, <1>7

LEMMA ConfirmStep ==
  ASSUME IInv, OneAtATime, ConfirmFits, [Next]_vars
  PROVE  ConfirmFits'
BY ConfirmHello, ConfirmExchange, ConfirmOthers DEF Next

-----------------------------------------------------------------------------
(* Whoever wrote a record has it. *)

\* Journals and applications take nothing back.
Grows ==
  \A n \in Node, k \in Key :
    ~Less(records'[n][k], records[n][k]) /\ ~Less(app'[n][k], app[n][k])

LEMMA AuthorTyped ==
  ASSUME TypeOK, NEW x \in Clock
  PROVE  x \in Stamp /\ (x # Absent => x[2] \in Node)
<1>1. x \in Stamp
  BY Typed
<1>2. x # Absent => x \in (1 .. scope.counter) \X Node
  BY DEF Clock
<1> QED  BY <1>1, <1>2

LEMMA AbsentAuthored ==
  ASSUME NEW w, NEW k
  PROVE  Authored(w, k, Absent)
BY ExchangeConstants DEF Authored, Absent

LEMMA AuthoredGrows ==
  ASSUME TypeOK, TypeOK', scope' = scope, Grows, NEW k \in Key, NEW x \in Clock,
         Authored(World, k, x)
  PROVE  Authored(World', k, x)
<1> SUFFICES ASSUME x[2] \in Node
             PROVE  ~Less(records'[x[2]][k], x) /\ ~Less(app'[x[2]][k], x)
  BY Fields DEF Authored
<1> DEFINE w == x[2]
<1>1. ~Less(records[w][k], x) /\ ~Less(app[w][k], x)
  BY Fields DEF Authored
<1>2. World \in Worlds /\ World' \in Worlds /\ x \in Stamp
  BY Typed, NextWorld
<1>3. /\ records[w][k] \in Stamp /\ records'[w][k] \in Stamp
      /\ app[w][k] \in Stamp /\ app'[w][k] \in Stamp
  BY <1>2, Fields DEF Worlds
<1>4. ~Less(records'[w][k], records[w][k]) /\ ~Less(app'[w][k], app[w][k])
  BY DEF Grows
<1> HIDE DEF w
<1> QED  BY <1>1, <1>2, <1>3, <1>4, LessOrders DEF w

LEMMA AuthorsInit ==
  ASSUME Init
  PROVE  AuthorsFit
<1>1. \A n \in Node, k \in Key : records[n][k] = Absent /\ origin[n][k] = 0
  BY DEF Init
<1>2. \A s \in Slot, k \in Key : conn[s].batch.records[k] = Absent
  BY DEF Init, Idle, NoBatch
<1>3. \A n, p \in Node, k \in Key : peer[n][p].pending.batch.records[k] = Absent
  BY DEF Init, Enrolled, NoPreview, NoBatch
<1> QED  BY <1>1, <1>2, <1>3, AbsentAuthored DEF AuthorsFit

\* A step keeps the authors if every record, batch and preview it brings has one.
LEMMA AuthorsKept ==
  ASSUME IInv, TypeOK', scope' = scope, Grows, AuthorsFit,
         \A n \in Node, k \in Key :
           \/ records'[n][k] = records[n][k] /\ origin'[n][k] = origin[n][k]
           \/ /\ Authored(World, k, records'[n][k]) \/ Authored(World', k, records'[n][k])
              /\ records'[n][k] \in Clock
              /\ records'[n][k][2] = n => origin'[n][k] = 0,
         \A s \in Slot, k \in Key :
           \/ conn'[s].batch.records[k] = conn[s].batch.records[k]
           \/ conn'[s].batch.records[k] \in Clock
              /\ Authored(World, k, conn'[s].batch.records[k]),
         \A n, p \in Node, k \in Key :
           \/ peer'[n][p].pending.batch.records[k] = peer[n][p].pending.batch.records[k]
           \/ peer'[n][p].pending.batch.records[k] \in Clock
              /\ Authored(World, k, peer'[n][p].pending.batch.records[k])
  PROVE  AuthorsFit'
<1>1. TypeOK
  BY DEF IInv
<1>2. ASSUME NEW n \in Node, NEW k \in Key
      PROVE  /\ Authored(World', k, records'[n][k])
             /\ records'[n][k][2] = n => origin'[n][k] = 0
  <2>1. records[n][k] \in Clock /\ Authored(World, k, records[n][k])
        /\ (records[n][k][2] = n => origin[n][k] = 0)
    BY <1>1 DEF TypeOK, AuthorsFit
  <2> QED  BY <1>1, <2>1, AuthoredGrows
<1>3. ASSUME NEW s \in Slot, NEW k \in Key
      PROVE  Authored(World', k, conn'[s].batch.records[k])
  <2>1. conn[s].batch.records[k] \in Clock /\ Authored(World, k, conn[s].batch.records[k])
    BY <1>1 DEF TypeOK, ConnState, Batch, AuthorsFit
  <2> QED  BY <1>1, <2>1, AuthoredGrows
<1>4. ASSUME NEW n \in Node, NEW p \in Node, NEW k \in Key
      PROVE  Authored(World', k, peer'[n][p].pending.batch.records[k])
  <2>1. /\ peer[n][p].pending.batch.records[k] \in Clock
        /\ Authored(World, k, peer[n][p].pending.batch.records[k])
    BY <1>1 DEF TypeOK, PeerState, Batch, AuthorsFit
  <2> QED  BY <1>1, <2>1, AuthoredGrows
<1> QED  BY <1>2, <1>3, <1>4 DEF AuthorsFit

\* A merge brings nothing the device wrote itself: that it has already.
LEMMA AuthorsMerge ==
  ASSUME IInv, AuthorsFit, NEW n \in Node, NEW from \in Node \cup {0},
         NEW batch \in [Key -> Clock], Merge(n, batch, from), app' = app,
         \A k \in Key : Authored(World, k, batch[k])
  PROVE  /\ Grows
         /\ \A m \in Node, k \in Key :
              \/ records'[m][k] = records[m][k] /\ origin'[m][k] = origin[m][k]
              \/ /\ Authored(World, k, records'[m][k]) /\ records'[m][k] \in Clock
                 /\ records'[m][k][2] # m
<1>1. TypeOK /\ Clock \subseteq Stamp
  BY Typed DEF IInv
<1>2. ASSUME NEW m \in Node, NEW k \in Key
      PROVE  /\ ~Less(records'[m][k], records[m][k]) /\ ~Less(app'[m][k], app[m][k])
             /\ \/ records'[m][k] = records[m][k] /\ origin'[m][k] = origin[m][k]
                \/ /\ Authored(World, k, records'[m][k]) /\ records'[m][k] \in Clock
                   /\ records'[m][k][2] # m
  <2>1. /\ records[m][k] \in Stamp /\ app[m][k] \in Stamp /\ batch[k] \in Stamp
        /\ batch[k] \in Clock
    BY <1>1 DEF TypeOK
  <2>2. ~Less(app'[m][k], app[m][k])
    BY <2>1, LessOrders
  <2>3. CASE m # n
    <3>1. records'[m] = records[m] /\ origin'[m] = origin[m]
      BY <1>1, <2>3, MergeMoves
    <3> QED  BY <2>1, <2>2, <3>1, LessOrders
  <2>4. CASE m = n
    <3>1. /\ records'[n][k] = Later(records[n][k], batch[k])
          /\ records'[n][k] = records[n][k] => origin'[n][k] = origin[n][k]
      BY <1>1, MergeMoves
    <3>2. ~Less(records'[n][k], records[n][k])
      BY <2>1, <2>4, <3>1, LaterIsNoOlder
    <3>3. CASE records'[n][k] = records[n][k]
      BY <2>2, <2>4, <3>1, <3>2, <3>3
    <3>4. CASE records'[n][k] # records[n][k]
      <4>1. records'[n][k] = batch[k] /\ Less(records[n][k], batch[k])
        BY <3>1, <3>4 DEF Later
      <4>2. batch[k][2] # n
        BY <4>1, Fields DEF Authored
      <4> QED  BY <2>1, <2>2, <2>4, <3>2, <4>1, <4>2
    <3> QED  BY <3>3, <3>4
  <2> QED  BY <2>3, <2>4
<1> QED  BY <1>2 DEF Grows

LEMMA AuthorsWrite ==
  ASSUME IInv, TypeOK', AuthorsFit, NEW n \in Node, NEW k \in Key, Write(n, k)
  PROVE  AuthorsFit'
<1>1. PICK counter \in 1 .. scope.counter :
        /\ \A j \in Key : records[n][j][1] < counter
        /\ Merge(n, [j \in Key |-> IF j = k THEN <<counter, n>> ELSE Absent], 0)
        /\ app' = [app EXCEPT ![n][k] = <<counter, n>>]
        /\ UNCHANGED <<peer, conn, inbox, minted, joining, scope>>
  BY DEF Write
<1> DEFINE x == <<counter, n>>
           batch == [j \in Key |-> IF j = k THEN x ELSE Absent]
<1>2. TypeOK /\ Clock \subseteq Stamp /\ Absent \in Clock
  BY Typed DEF IInv
<1>3. x \in Clock /\ x[2] = n /\ batch \in [Key -> Clock]
  BY <1>2 DEF Clock
<1>4. /\ Less(records[n][k], x)
      /\ Merge(n, batch, 0)
  BY <1>1 DEF Less
<1>5. /\ \A m \in Node, j \in Key : m # n \/ j # k =>
           records'[m][j] = records[m][j] /\ origin'[m][j] = origin[m][j]
      /\ records'[n][k] = x /\ origin'[n][k] = 0
  <2>1. /\ \A m \in Node \ {n} : records'[m] = records[m] /\ origin'[m] = origin[m]
        /\ \A j \in Key :
             /\ records'[n][j] = Later(records[n][j], batch[j])
             /\ IF records'[n][j] = records[n][j] THEN origin'[n][j] = origin[n][j]
                ELSE origin'[n][j] = 0
    BY <1>2, <1>3, <1>4, MergeMoves
  <2>2. ASSUME NEW j \in Key, j # k
        PROVE  records'[n][j] = records[n][j] /\ origin'[n][j] = origin[n][j]
    <3>1. records[n][j] \in Stamp /\ batch[j] = Absent
      BY <1>2, <2>2 DEF TypeOK
    <3>2. ~Less(records[n][j], batch[j])
      BY <3>1, LessOrders
    <3> QED  BY <2>1, <3>2 DEF Later
  <2>3. records'[n][k] = x
    BY <1>4, <2>1 DEF Later
  <2>4. records[n][k] # x
    BY <1>2, <1>3, <1>4, LessOrders
  <2> HIDE DEF x, batch
  <2> QED  BY <2>1, <2>2, <2>3, <2>4
<1>6. \A m \in Node, j \in Key : app'[m][j] = IF m = n /\ j = k THEN x ELSE app[m][j]
  BY <1>1, <1>2 DEF TypeOK
<1> HIDE DEF x, batch
<1>7. Grows
  <2> SUFFICES ASSUME NEW m \in Node, NEW j \in Key
               PROVE  ~Less(records'[m][j], records[m][j]) /\ ~Less(app'[m][j], app[m][j])
    BY DEF Grows
  <2>1. /\ records[m][j] \in Stamp /\ app[m][j] \in Stamp /\ x \in Stamp
        /\ ~Less(records[m][j], app[m][j])
    BY <1>2, <1>3, Fields DEF TypeOK, IInv, StoreHolds
  <2> QED  BY <1>4, <1>5, <1>6, <2>1, LessOrders
<1>8. Authored(World', k, x)
  BY <1>2, <1>3, <1>5, <1>6, Fields, LessOrders DEF Authored
<1> QED  BY <1>1, <1>3, <1>5, <1>7, <1>8, AuthorsKept

\* Most steps leave journals and applications alone.
LEMMA StillGrows ==
  ASSUME IInv, UNCHANGED <<store, app>>
  PROVE  Grows /\ records' = records /\ origin' = origin
BY Typed, LessOrders DEF IInv, TypeOK, store, Grows

LEMMA AuthorsProcess ==
  ASSUME IInv, TypeOK', AuthorsFit, NEW n \in Node, Process(n)
  PROVE  AuthorsFit'
<1>1. /\ app' = [app EXCEPT ![n] = [k \in Key |-> Later(app[n][k], inbox[n].records[k])]]
      /\ UNCHANGED <<store, peer, conn, scope>>
  BY DEF Process
<1>2. TypeOK /\ Clock \subseteq Stamp
  BY Typed DEF IInv
<1>3. Grows
  <2> SUFFICES ASSUME NEW m \in Node, NEW j \in Key
               PROVE  ~Less(records'[m][j], records[m][j]) /\ ~Less(app'[m][j], app[m][j])
    BY DEF Grows
  <2>1. records[m][j] \in Stamp /\ app[m][j] \in Stamp /\ inbox[m].records[j] \in Stamp
    BY <1>2 DEF TypeOK, InboxState
  <2>2. app'[m][j] \in {app[m][j], Later(app[m][j], inbox[m].records[j])}
    BY <1>1, <1>2 DEF TypeOK
  <2> QED  BY <1>1, <2>1, <2>2, LessOrders, LaterIsNoOlder DEF store
<1> QED  BY <1>1, <1>3, AuthorsKept DEF store

\* A preview, a batch that is exported, or nothing, replaces what was there.
LEMMA AuthorsReceive ==
  ASSUME IInv, TypeOK', AuthorsFit, NEW s \in Slot, Receive(s)
  PROVE  AuthorsFit'
<1> DEFINE n == Receiver(s)
           p == Sender(s)
           batch == conn[s].batch
<1>1. conn[s].phase = "delta" /\ app' = app /\ scope' = scope
  BY DEF Receive
<1>2. /\ conn[s] \in ConnState /\ n \in Node /\ p \in Node /\ batch \in Batch
      /\ peer[n][p] \in PeerState
  BY <1>1, MessageFacts, EntryFacts DEF ConnState
<1>3. Absent \in Clock /\ \A k \in Key : NoBatch.records[k] = Absent
  BY Typed DEF IInv, NoBatch
<1>4. \A k \in Key : batch.records[k] \in Clock /\ Authored(World, k, batch.records[k])
  BY <1>2 DEF Batch, AuthorsFit
<1>5. ASSUME NEW t \in Slot, NEW k \in Key
      PROVE  \/ conn'[t].batch.records[k] = conn[t].batch.records[k]
             \/ conn'[t].batch.records[k] \in Clock
                /\ Authored(World, k, conn'[t].batch.records[k])
  <2>1. PICK phase \in {"ack", "wait"} : Answer(s, phase)
    BY DEF Receive
  <2>2. conn'[t] = conn[t]
        \/ conn'[t].batch = [NoBatch EXCEPT !.checkpoint = conn[s].batch.checkpoint]
    BY <1>2, <2>1 DEF Answer, IInv, TypeOK, ConnState
  <2>3. [NoBatch EXCEPT !.checkpoint = conn[s].batch.checkpoint].records = NoBatch.records
    BY DEF NoBatch
  <2> QED  BY <1>3, <2>2, <2>3, AbsentAuthored
<1>6. ASSUME NEW e,
             \/ e = peer[n][p]
             \/ e = [peer[n][p] EXCEPT
                  !.pending = [local_revision |-> revision[n], batch |-> batch],
                  !.state = "needs_merge"]
             \/ e = [peer[n][p] EXCEPT !.received = batch.checkpoint,
                                       !.bootstrapped = TRUE, !.pending = NoPreview],
             peer' = [peer EXCEPT ![n][p] = e],
             NEW m \in Node, NEW q \in Node, NEW k \in Key
      PROVE  \/ peer'[m][q].pending.batch.records[k] = peer[m][q].pending.batch.records[k]
             \/ peer'[m][q].pending.batch.records[k] \in Clock
                /\ Authored(World, k, peer'[m][q].pending.batch.records[k])
  <2>1. peer'[m][q] = peer[m][q] \/ (peer'[m][q] = e /\ m = n /\ q = p)
    BY <1>2, <1>6 DEF IInv, TypeOK
  <2>2. \/ e = peer[n][p] \/ e.pending.batch = batch \/ e.pending.batch = NoBatch
    <3>1. CASE e = [peer[n][p] EXCEPT
                  !.pending = [local_revision |-> revision[n], batch |-> batch],
                  !.state = "needs_merge"]
      BY <1>2, <3>1 DEF PeerState
    <3>2. CASE e = [peer[n][p] EXCEPT !.received = batch.checkpoint,
                                      !.bootstrapped = TRUE, !.pending = NoPreview]
      BY <1>2, <3>2 DEF PeerState, NoPreview
    <3> QED  BY <1>6, <3>1, <3>2
  <2> HIDE DEF n, p, batch
  <2> QED  BY <1>3, <1>4, <2>1, <2>2, AbsentAuthored
<1>7. CASE UNCHANGED <<store, peer>>
  <2>1. Grows /\ records' = records /\ origin' = origin
    BY <1>1, <1>7, StillGrows
  <2> QED  BY <1>1, <1>5, <1>7, <2>1, AuthorsKept
<1>8. CASE /\ peer' = [peer EXCEPT ![n][p] =
                [@ EXCEPT !.pending = [local_revision |-> revision[n], batch |-> batch],
                          !.state = "needs_merge"]]
           /\ UNCHANGED store
  <2>1. Grows /\ records' = records /\ origin' = origin
    BY <1>1, <1>8, StillGrows
  <2> DEFINE e == [peer[n][p] EXCEPT
                     !.pending = [local_revision |-> revision[n], batch |-> batch],
                     !.state = "needs_merge"]
  <2>2. peer' = [peer EXCEPT ![n][p] = e]
    BY <1>8
  <2>3. \A m, q \in Node, k \in Key :
          \/ peer'[m][q].pending.batch.records[k] = peer[m][q].pending.batch.records[k]
          \/ peer'[m][q].pending.batch.records[k] \in Clock
             /\ Authored(World, k, peer'[m][q].pending.batch.records[k])
    BY <1>6, <2>2
  <2> HIDE DEF n, p, batch, e
  <2> QED  BY <1>1, <1>5, <2>1, <2>3, AuthorsKept
<1>9. CASE Apply(n, p, batch)
  <2> DEFINE e == [peer[n][p] EXCEPT !.received = batch.checkpoint,
                                     !.bootstrapped = TRUE, !.pending = NoPreview]
  <2>1. Merge(n, batch.records, p) /\ peer' = [peer EXCEPT ![n][p] = e]
    BY <1>9 DEF Apply
  <2>2. \A m, q \in Node, k \in Key :
          \/ peer'[m][q].pending.batch.records[k] = peer[m][q].pending.batch.records[k]
          \/ peer'[m][q].pending.batch.records[k] \in Clock
             /\ Authored(World, k, peer'[m][q].pending.batch.records[k])
    BY <1>6, <2>1
  <2>3. batch.records \in [Key -> Clock]
    BY <1>2 DEF Batch
  <2> HIDE DEF n, p, batch, e
  <2>4. /\ Grows
        /\ \A m \in Node, k \in Key :
             \/ records'[m][k] = records[m][k] /\ origin'[m][k] = origin[m][k]
             \/ /\ Authored(World, k, records'[m][k]) /\ records'[m][k] \in Clock
                /\ records'[m][k][2] # m
    BY <1>1, <1>2, <1>4, <2>1, <2>3, AuthorsMerge
  <2> QED  BY <1>1, <1>5, <2>2, <2>4, AuthorsKept
<1> QED  BY <1>7, <1>8, <1>9 DEF Receive

LEMMA AuthorsConsent ==
  ASSUME IInv, TypeOK', AuthorsFit, NEW n \in Node, NEW p \in Node, ConsentMerge(n, p)
  PROVE  AuthorsFit'
<1> DEFINE batch == peer[n][p].pending.batch
           e == [peer[n][p] EXCEPT !.received = batch.checkpoint, !.bootstrapped = TRUE,
                                   !.pending = NoPreview]
<1>1. /\ Merge(n, batch.records, p) /\ peer' = [peer EXCEPT ![n][p] = e]
      /\ conn' = conn /\ app' = app /\ scope' = scope
  BY DEF ConsentMerge, Apply
<1>2. peer[n][p] \in PeerState /\ batch.records \in [Key -> Clock]
  BY EntryFacts DEF PeerState, Batch
<1>3. e.pending.batch = NoBatch
  BY <1>2 DEF PeerState, NoPreview
<1>4. \A k \in Key : Authored(World, k, batch.records[k])
  BY DEF AuthorsFit
<1> HIDE DEF batch, e
<1>5. \A m, q \in Node : peer'[m][q] = peer[m][q] \/ peer'[m][q].pending.batch = NoBatch
  BY <1>1, <1>3 DEF IInv, TypeOK
<1>6. Absent \in Clock /\ \A k \in Key : NoBatch.records[k] = Absent
  BY Typed DEF IInv, NoBatch
<1>7. /\ Grows
      /\ \A m \in Node, k \in Key :
           \/ records'[m][k] = records[m][k] /\ origin'[m][k] = origin[m][k]
           \/ /\ Authored(World, k, records'[m][k]) /\ records'[m][k] \in Clock
              /\ records'[m][k][2] # m
  BY <1>1, <1>2, <1>4, AuthorsMerge
<1> QED  BY <1>1, <1>5, <1>6, <1>7, AbsentAuthored, AuthorsKept

LEMMA AuthorsExport ==
  ASSUME IInv, TypeOK', AuthorsFit, NEW s \in Slot, Export(s)
  PROVE  AuthorsFit'
<1> DEFINE n == Sender(s)
           p == Receiver(s)
<1>1. /\ conn[s].phase = "export" /\ peer' = peer /\ scope' = scope
      /\ UNCHANGED <<store, app>>
  BY DEF Export
<1>2. n \in Node /\ conn[s] \in ConnState
  BY <1>1, MessageFacts
<1>3. conn'[s].batch.records = Selected(n, p, conn[s].cursor)
      /\ \A t \in Slot \ {s} : conn'[t] = conn[t]
  BY <1>2 DEF Export, IInv, TypeOK, ConnState
<1> HIDE DEF n, p
<1>4. ASSUME NEW k \in Key
      PROVE  /\ conn'[s].batch.records[k] \in Clock
             /\ Authored(World, k, conn'[s].batch.records[k])
  <2>1. conn'[s].batch.records[k] \in {records[n][k], Absent}
    BY <1>3 DEF Selected
  <2>2. records[n][k] \in Clock /\ Absent \in Clock /\ Authored(World, k, records[n][k])
    BY <1>2, Typed DEF IInv, TypeOK, AuthorsFit
  <2> QED  BY <2>1, <2>2, AbsentAuthored
<1>5. Grows /\ records' = records /\ origin' = origin
  BY <1>1, StillGrows
<1> QED  BY <1>1, <1>3, <1>4, <1>5, AuthorsKept

\* Other steps leave batches and previews as they are, or without records.
LEMMA AuthorsOthers ==
  ASSUME IInv, TypeOK', scope' = scope, AuthorsFit, UNCHANGED <<store, app>>,
         \A s \in Slot : conn'[s].batch \in {conn[s].batch, NoBatch},
         \A n, p \in Node :
           peer'[n][p].pending \in {peer[n][p].pending, NoPreview}
  PROVE  AuthorsFit'
<1>1. Grows /\ records' = records /\ origin' = origin
  BY StillGrows
<1>2. Absent \in Clock /\ NoPreview.batch = NoBatch
      /\ \A k \in Key : NoBatch.records[k] = Absent
  BY Typed DEF IInv, NoBatch, NoPreview
<1> QED  BY <1>1, <1>2, AbsentAuthored, AuthorsKept

LEMMA LearnKeepsPreview ==
  ASSUME IInv, NEW n \in Node, NEW p \in Node, NEW r
  PROVE  Learn(n, p, r).pending = peer[n][p].pending
BY EntryFacts DEF Learn, PeerState

LEMMA AuthorsLearns ==
  ASSUME IInv, TypeOK', AuthorsFit, scope' = scope, UNCHANGED <<store, app>>,
         NEW s \in Slot, NEW n \in Node, NEW p \in Node, NEW r,
         peer' = [peer EXCEPT ![n][p] = Learn(n, p, r)],
         NEW x, x.batch = conn[s].batch, conn' = [conn EXCEPT ![s] = x]
  PROVE  AuthorsFit'
<1> DEFINE e == Learn(n, p, r)
<1>1. e.pending = peer[n][p].pending
  BY LearnKeepsPreview
<1> HIDE DEF e
<1>2. \A m, q \in Node : peer'[m][q] = IF m = n /\ q = p THEN e ELSE peer[m][q]
  BY DEF IInv, TypeOK, e
<1>3. \A m, q \in Node : peer'[m][q].pending = peer[m][q].pending
  BY <1>1, <1>2
<1>4. \A t \in Slot : conn'[t].batch = conn[t].batch
  BY DEF IInv, TypeOK
<1> QED  BY <1>3, <1>4, AuthorsOthers

LEMMA AuthorsExchange ==
  ASSUME IInv, TypeOK', AuthorsFit, NEW s \in Slot, Exchange(s) \/ Drop(s)
  PROVE  AuthorsFit'
<1>1. /\ peer \in [Node -> [Node -> PeerState]] /\ conn \in [Slot -> ConnState]
      /\ Idle.batch = NoBatch
  BY DEF IInv, TypeOK, Idle
<1>2. CASE AcceptHello(s)
  <2> DEFINE c == conn[s].client
             l == conn[s].listener
             x == [conn[s] EXCEPT !.phase = "hello_back",
                     !.back_cursor = Proven(l, c, conn[s].received),
                     !.received = peer[l][c].received, !.processed = peer[l][c].processed]
  <2>1. /\ conn[s].phase = "hello" /\ conn' = [conn EXCEPT ![s] = x] /\ scope' = scope
        /\ peer' = [peer EXCEPT ![l][c] = Learn(l, c, conn[s].processed)]
        /\ UNCHANGED <<store, app>>
    BY <1>2 DEF AcceptHello
  <2>2. c \in Node /\ l \in Node /\ conn[s] \in ConnState
    BY <2>1, MessageFacts
  <2>3. x.batch = conn[s].batch
    BY <2>2 DEF ConnState
  <2> HIDE DEF x, c, l
  <2> QED  BY <2>1, <2>2, <2>3, AuthorsLearns
<1>6. CASE AuthenticateListener(s)
  <2> DEFINE c == conn[s].client
             l == conn[s].listener
             x == [conn[s] EXCEPT !.phase = "export",
                     !.cursor = Proven(c, l, conn[s].received),
                     !.received = NoReceipt, !.processed = NoReceipt]
  <2>1. /\ conn[s].phase = "hello_back" /\ conn' = [conn EXCEPT ![s] = x] /\ scope' = scope
        /\ peer' = [peer EXCEPT ![c][l] = Learn(c, l, conn[s].processed)]
        /\ UNCHANGED <<store, app>>
    BY <1>6 DEF AuthenticateListener
  <2>2. c \in Node /\ l \in Node /\ conn[s] \in ConnState
    BY <2>1, MessageFacts
  <2>3. x.batch = conn[s].batch
    BY <2>2 DEF ConnState
  <2> HIDE DEF x, c, l
  <2> QED  BY <2>1, <2>2, <2>3, AuthorsLearns
<1>3. CASE HandleAck(s)
  <2> DEFINE n == Sender(s)
             p == Receiver(s)
             r == conn[s].batch.checkpoint
             e == [peer[n][p] EXCEPT !.stored = Advance(peer[n][p].stored, r),
                     !.state = IF peer[n][p].pending # NoPreview THEN "needs_merge"
                               ELSE IF /\ peer[n][p].applied.epoch = r.epoch
                                       /\ peer[n][p].applied.sequence >= r.sequence
                               THEN "up_to_date" ELSE "stored"]
  <2>1. /\ conn[s].phase = "ack" /\ scope' = scope /\ UNCHANGED <<store, app>>
        /\ peer' = [peer EXCEPT ![n][p] = e] /\ Answered(s)
    BY <1>3 DEF HandleAck
  <2>2. n \in Node /\ p \in Node /\ peer[n][p] \in PeerState /\ conn[s] \in ConnState
    BY <2>1, MessageFacts, EntryFacts
  <2>3. e.pending = peer[n][p].pending
    BY <2>2 DEF PeerState
  <2>4. \A t \in Slot : conn'[t].batch \in {conn[t].batch, NoBatch}
    BY <1>1, <2>1, <2>2 DEF Answered, ConnState
  <2> HIDE DEF n, p, e
  <2>5. \A m, q \in Node : peer'[m][q].pending = peer[m][q].pending
    BY <1>1, <2>1, <2>2, <2>3
  <2> QED  BY <2>1, <2>4, <2>5, AuthorsOthers
<1>4. CASE HandlePending(s)
  <2>1. /\ conn[s].phase = "wait" /\ scope' = scope /\ UNCHANGED <<store, app>>
        /\ peer' = peer /\ Answered(s)
    BY <1>4 DEF HandlePending
  <2>2. conn[s] \in ConnState
    BY <2>1, MessageFacts
  <2>3. \A t \in Slot : conn'[t].batch \in {conn[t].batch, NoBatch}
    BY <1>1, <2>1, <2>2 DEF Answered, ConnState
  <2> QED  BY <2>1, <2>3, AuthorsOthers
<1>5. CASE Drop(s)
  <2> DEFINE c == conn[s].client
             l == conn[s].listener
             e == [peer[c][l] EXCEPT !.state = "waiting"]
  <2>1. /\ conn[s].phase # "idle" /\ scope' = scope /\ UNCHANGED <<store, app>>
        /\ peer' = peer \/ peer' = [peer EXCEPT ![c][l] = e]
        /\ conn' = [conn EXCEPT ![s] = Idle]
    BY <1>5 DEF Drop
  <2>2. c \in Node /\ l \in Node /\ e.pending = peer[c][l].pending
    BY <2>1, MessageFacts, EntryFacts DEF PeerState
  <2> HIDE DEF c, l, e
  <2>3. \A m, q \in Node : peer'[m][q].pending = peer[m][q].pending
    BY <1>1, <2>1, <2>2
  <2> QED  BY <1>1, <2>1, <2>3, AuthorsOthers
<1> QED  BY <1>2, <1>3, <1>4, <1>5, <1>6, AuthorsReceive, AuthorsExport DEF Exchange

LEMMA AuthorsUser ==
  ASSUME IInv, TypeOK', AuthorsFit, NEW n \in Node, NEW p \in Node,
         \/ ConsentCancel(n, p) \/ ResumePeer(n, p)
         \/ RemovePeer(n, p) \/ RepairHost(n, p) \/ RepairJoin(n, p)
  PROVE  AuthorsFit'
<1>1. /\ peer \in [Node -> [Node -> PeerState]] /\ conn \in [Slot -> ConnState]
      /\ peer[n][p] \in PeerState
  BY DEF IInv, TypeOK
<1>2. scope' = scope /\ UNCHANGED <<store, app>>
  BY DEF ConsentCancel, ResumePeer, RemovePeer, RepairHost, RepairJoin
<1>3. \A s \in Slot : conn'[s].batch = conn[s].batch
  <2> TAKE s \in Slot
  <2> DEFINE y == [conn[s] EXCEPT !.cut = conn[s].cut \cup {n}]
  <2>1. conn'[s] = conn[s] \/ conn'[s] = y
    BY DEF ConsentCancel, ResumePeer, RemovePeer, RepairHost, RepairJoin
  <2>2. y.batch = conn[s].batch
    BY <1>1 DEF ConnState
  <2> QED  BY <2>1, <2>2
<1> DEFINE cancelled == [peer[n][p] EXCEPT !.pending = NoPreview, !.state = "paused"]
           resumed == [peer[n][p] EXCEPT !.state = "waiting"]
           removed == [peer[n][p] EXCEPT !.revoked = TRUE, !.incarnation = minted',
                         !.state = "paused", !.pending = NoPreview]
           enrolled == Enrolled(minted')
<1>4. \/ peer' = [peer EXCEPT ![n][p] = cancelled]
      \/ peer' = [peer EXCEPT ![n][p] = resumed]
      \/ peer' = [peer EXCEPT ![n][p] = removed]
      \/ peer' = [peer EXCEPT ![n][p] = enrolled]
      \/ peer' = [peer EXCEPT ![p][n] = enrolled]
  BY DEF ConsentCancel, ResumePeer, RemovePeer, RepairHost, RepairJoin
<1>5. /\ cancelled.pending = NoPreview /\ removed.pending = NoPreview
      /\ resumed.pending = peer[n][p].pending
      /\ enrolled.pending = NoPreview
  BY <1>1 DEF PeerState, Enrolled
<1> HIDE DEF cancelled, resumed, removed, enrolled
<1>6. \A m, q \in Node :
        \/ peer'[m][q] = peer[m][q]
        \/ m = n /\ q = p /\ peer'[m][q] \in {cancelled, resumed, removed, enrolled}
        \/ peer'[m][q] = enrolled
  <2>1. ASSUME NEW e, peer' = [peer EXCEPT ![n][p] = e]
        PROVE  \A m, q \in Node :
                 peer'[m][q] = IF m = n /\ q = p THEN e ELSE peer[m][q]
    BY <1>1, <2>1
  <2>2. ASSUME peer' = [peer EXCEPT ![p][n] = enrolled]
        PROVE  \A m, q \in Node :
                 peer'[m][q] = IF m = p /\ q = n THEN enrolled ELSE peer[m][q]
    BY <1>1, <2>2
  <2> QED  BY <1>4, <2>1, <2>2
<1>7. \A m, q \in Node : peer'[m][q].pending \in {peer[m][q].pending, NoPreview}
  BY <1>5, <1>6
<1> QED  BY <1>2, <1>3, <1>7, AuthorsOthers

LEMMA AuthorsStep ==
  ASSUME IInv, IInv', AuthorsFit, [Next]_vars
  PROVE  AuthorsFit'
<1>1. TypeOK' /\ scope' = scope
  BY ScopeStays DEF IInv
<1>2. ASSUME NEW s \in Slot, NEW c \in Node, NEW l \in Node, Hello(s, c, l)
      PROVE  AuthorsFit'
  <2>1. /\ peer' = peer /\ UNCHANGED <<store, app>>
        /\ conn'[s].batch = NoBatch /\ \A t \in Slot \ {s} : conn'[t] = conn[t]
    BY <1>2 DEF Hello, IInv, TypeOK, Idle
  <2> QED  BY <1>1, <2>1, AuthorsOthers
<1>3. ASSUME NEW n \in Node, Capture(n) \/ Acknowledge(n)
      PROVE  AuthorsFit'
  <2>1. conn' = conn /\ UNCHANGED <<store, app>>
    BY <1>3 DEF Capture, Acknowledge
  <2>2. \A m, q \in Node : peer'[m][q].pending = peer[m][q].pending
    <3>1. CASE Capture(n)
      BY <3>1 DEF Capture
    <3> QED  BY <1>3, <3>1, AcknowledgeEntries
  <2> QED  BY <1>1, <2>1, <2>2, AuthorsOthers
<1>4. CASE UNCHANGED vars
  <2>1. conn' = conn /\ peer' = peer /\ UNCHANGED <<store, app>>
    BY <1>4 DEF vars, store
  <2> QED  BY <1>1, <2>1, AuthorsOthers
<1>5. CASE Next
  BY <1>1, <1>2, <1>3, <1>5, AuthorsWrite, AuthorsProcess, AuthorsConsent, AuthorsExchange,
     AuthorsUser DEF Next
<1> QED  BY <1>4, <1>5

-----------------------------------------------------------------------------
(* The theorem *)

\* As long as exchanges follow each other, a peer shown as up to date holds what
\* a device has, and its application has committed all of it but what the peer
\* passed on from others (session/mod.rs, snapshot; session/network.rs,
\* send_batch and authenticate).
THEOREM UpToDateIsTruthful == Spec => []UpToDateTruthful
<1>1. Init => (OneAtATime => ConfirmFits) /\ AuthorsFit
  BY ConfirmInit, AuthorsInit
<1>2. IInv /\ [Next]_vars /\ (OneAtATime => ConfirmFits) => (OneAtATime' => ConfirmFits')
  <2>1. [Next]_vars => (OneAtATime <=> OneAtATime')
    BY ScopeStays DEF OneAtATime
  <2> QED  BY <2>1, ConfirmStep
<1>3. IInv /\ IInv' /\ AuthorsFit /\ [Next]_vars => AuthorsFit'
  BY AuthorsStep
<1>4. ASSUME IInv, OneAtATime => ConfirmFits, AuthorsFit, PendingTruthful
      PROVE  UpToDateTruthful
  <2> SUFFICES ASSUME ConfirmFits, NEW n \in Node, NEW p \in Node, n # p,
                      Status(n, p) = "up_to_date"
               PROVE  /\ Covers(records[p], records[n])
                      /\ \A k \in Key : ~Relayed(n, p, k) => ~Less(app[p][k], records[n][k])
    BY <1>4 DEF UpToDateTruthful, UpToDateConfirmed
  <2> DEFINE e == peer[n][p]
  <2>1. /\ ~e.revoked /\ e.state = "up_to_date" /\ PendingFor(n, p) = {}
    BY DEF Status
  <2>2. Covers(records[p], records[n])
    BY <1>4, <2>1 DEF PendingTruthful
  <2>3. /\ e.applied.epoch = n
        /\ e.stored.epoch = n => e.stored.sequence <= e.applied.sequence
    BY <2>1 DEF ConfirmFits, ShownFits
  <2>4. ASSUME NEW k \in Key, ~Relayed(n, p, k)
        PROVE  ~Less(app[p][k], records[n][k])
    <3>1. /\ e.stored \in Receipt /\ e.applied \in Receipt /\ revision[n] \in Nat
          /\ sequence[n][k] \in Nat /\ app[p][k] \in Stamp /\ records[n][k] \in Stamp
          /\ Reached(World, World.app[p], n, e.applied)
      BY <1>4, EntryFacts, Typed DEF IInv, TypeOK, PeerState, EntryHolds
    <3>2. /\ records[n][k] # Absent => e.stored.epoch = n
          /\ sequence[n][k] > e.stored.sequence => origin[n][k] = p
      BY <2>1 DEF PendingFor
    <3>3. CASE records[n][k] = Absent
      BY <3>1, <3>3, LessOrders
    <3>4. CASE origin[n][k] = p
      <4>1. records[n][k][2] # n
        BY <1>4, <3>4, ExchangeConstants DEF AuthorsFit
      <4>2. records[n][k][2] = p
        BY <2>4, <3>4, <4>1 DEF Relayed
      <4> QED  BY <1>4, <4>2, Fields DEF AuthorsFit, Authored
    <3>5. CASE records[n][k] # Absent /\ origin[n][k] # p
      <4>1. sequence[n][k] <= e.applied.sequence
        BY <2>3, <3>1, <3>2, <3>5 DEF Receipt
      <4> QED  BY <2>3, <3>1, <4>1, Fields DEF Reached
    <3> QED  BY <3>3, <3>4, <3>5
  <2> QED  BY <2>2, <2>4
<1> QED  BY <1>1, <1>2, <1>3, <1>4, ExchangeInductive, PendingIsTruthful, PTL DEF Spec
=============================================================================
