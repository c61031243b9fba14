------------------------------ MODULE DataProofs ------------------------------
(***************************************************************************)
(* Proofs about the data that devices exchange, for any values of the      *)
(* constants of MCStorage.                                                 *)
(*                                                                         *)
(* Records: devices that a complete exchange leaves as they are hold the   *)
(* same.  One clock has to name one record, in every journal and every     *)
(* batch that is still on its way; of strict Momentum operations only the  *)
(* author makes one, so it is one wherever it is.                          *)
(*                                                                         *)
(* Mapped tables: devices with nothing to exchange show the same rows,     *)
(* whatever applications edit, and with states that were lost; rows that   *)
(* are not edited beside the adapter only go forward, because an edit has  *)
(* one clock, later than those of what it was made on.                     *)
(*                                                                         *)
(* Databases: with one writer the states of its database follow one after  *)
(* the other, and every part of one that is anywhere is of one of them.    *)
(***************************************************************************)
EXTENDS MCStorage, Sequences, TLAPS, FiniteSetTheorems

-----------------------------------------------------------------------------
(* The largest of some numbers *)

\* A set of bounded numbers has a largest one, which Max returns: the one with the
\* fewest numbers from it on.
LEMMA LargestIsMax ==
  ASSUME NEW n \in Nat, NEW S \in SUBSET (0 .. n), S # {}
  PROVE  R!Max(S) \in S /\ \A y \in S : R!Max(S) >= y
<1> DEFINE From(x) == {y \in S : y >= x}
           Ends == {From(x) : x \in S}
<1>1. IsFiniteSet(S)
  <2>1. S \in SUBSET Nat /\ \A y \in S : y <= n
    OBVIOUS
  <2> QED  BY <2>1, FS_BoundedSetOfNaturals
<1>2. Ends \subseteq FiniteSubsetsOf(S) /\ Ends # {}
  <2>1. Ends \in SUBSET (SUBSET S) /\ Ends # {}
    OBVIOUS
  <2>2. FiniteSubsetsOf(S) = SUBSET S
    BY <1>1, FS_FiniteSubsetsOfFinite
  <2> HIDE DEF Ends
  <2> QED  BY <2>1, <2>2
<1>3. PICK least \in Ends : \A e \in Ends : ~ (<<e, least>> \in StrictSubsetOrdering(S))
  <2> HIDE DEF Ends
  <2> QED  BY <1>2, FS_StrictSubsetOrderingWellFounded, WFMin, Zenon
<1>4. PICK m \in S : least = From(m)
  OBVIOUS
<1>5. ASSUME NEW y \in S, y > m
      PROVE  FALSE
  <2>1. From(y) \subseteq From(m) /\ m \in From(m) /\ m \notin From(y)
    <3>1. /\ m >= m /\ ~ (m >= y)
          /\ \A z \in S : z >= y => z >= m
      BY <1>5
    <3> QED  BY <3>1, Zenon
  <2>2. <<From(y), From(m)>> \in StrictSubsetOrdering(S)
    <3>1. From(y) \in SUBSET S /\ From(m) \in SUBSET S /\ From(y) # From(m)
      BY <2>1
    <3> HIDE DEF From
    <3> QED  BY <2>1, <3>1 DEF StrictSubsetOrdering
  <2> QED  BY <1>3, <1>4, <2>2
<1>6. \A y \in S : m >= y
  BY <1>5
<1> QED  BY <1>6 DEF R!Max

-----------------------------------------------------------------------------
(* Records: the inductive invariant *)

MergeClock == (0 .. merge_scope.last) \X Nat
MergeItem == MergeClock \cup ({1} \X MergeClock)
ListValue ==
  {f \in UNION {[S -> Nat] : S \in SUBSET MergeItem} : R!IsFiniteSet(DOMAIN f)}
SecondValue ==
  IF merge_scope.field = "counter" THEN [MergeDevice -> Nat]
  ELSE IF merge_scope.field = "list" THEN ListValue ELSE SUBSET MergeItem
FieldValue == [title : MergeClock, second : [clock : MergeClock, v : SecondValue]]
RecordState ==
  [clock : MergeClock, deleted : BOOLEAN, value : IF R!Fields THEN FieldValue ELSE MergeClock]

MergeType ==
  /\ merge_scope \in MergeBounds
  /\ merge_counter \in [MergeDevice -> 0 .. merge_scope.last]
  /\ merge_held \in [MergeDevice -> [RecordId -> RecordState]]
  /\ merge_air \subseteq
       [from : MergeDevice, to : MergeDevice, records : [RecordId -> RecordState]]

\* A device or a batch has record r of i.
KnownRecord(i, r) ==
  /\ r # R!Unset
  /\ \/ \E d \in MergeDevice : merge_held[d][i] = r
     \/ \E b \in merge_air : b.records[i] = r

\* A record without its second field has the value it was made with.
SecondFits(r) ==
  r.value.second.clock = <<0, 0>> => r.value.second = R!NoFields.second
SecondsFit ==
  \A i \in RecordId, r \in RecordState : KnownRecord(i, r) => SecondFits(r)

\* Clocks were drawn from the counter of the device they name, which has gone on;
\* a counter is not behind what its device holds.
ClocksFit ==
  /\ \A i \in RecordId, r \in RecordState : KnownRecord(i, r) =>
       r.clock[1] > 0 /\ r.clock[2] \in MergeDevice
       /\ r.clock[1] <= merge_counter[r.clock[2]]
  /\ \A d \in MergeDevice, i \in RecordId :
       merge_held[d][i].clock[1] <= merge_counter[d]

\* A clock names one record of an id.
NamesFit ==
  \A i \in RecordId, r, s \in RecordState :
    KnownRecord(i, r) /\ KnownRecord(i, s) /\ r.clock = s.clock => r = s

Author(d, i) == (i % R!Cardinality(MergeDevice)) + 1 = d

\* A strict Momentum operation is one, deleted later than it was created, and its
\* author has it or its tombstone.
OperationsFit ==
  merge_scope.policy = "momentum" /\ merge_scope.strict =>
    /\ \A i \in RecordId, r, s \in RecordState :
         KnownRecord(i, r) /\ KnownRecord(i, s) /\ ~s.deleted =>
           IF r.deleted THEN R!Later(r.clock, s.clock) ELSE r = s
    /\ \A i \in RecordId, r \in RecordState : KnownRecord(i, r) =>
         \E d \in MergeDevice : Author(d, i) /\ merge_held[d][i] # R!Unset

MergeInv ==
  /\ MergeType
  /\ IF R!Fields THEN SecondsFit ELSE ClocksFit /\ NamesFit /\ OperationsFit

-----------------------------------------------------------------------------
(* Records: what a merge keeps *)

\* A list is made of another and of what is new to it.
LEMMA UnionTyped ==
  ASSUME NEW a \in ListValue, NEW b \in ListValue
  PROVE  R!Union(a, b) \in ListValue
<1> DEFINE S == DOMAIN a \cup DOMAIN b
           u == R!Union(a, b)
           unseen == DOMAIN b \ DOMAIN a
<1>1. /\ DOMAIN a \subseteq MergeItem /\ DOMAIN b \subseteq MergeItem
      /\ a \in [DOMAIN a -> Nat] /\ b \in [DOMAIN b -> Nat]
      /\ IsFiniteSet(DOMAIN a) /\ IsFiniteSet(DOMAIN b)
  BY DEF ListValue, R!IsFiniteSet, IsFiniteSet
<1>2. IsFiniteSet(S) /\ S \subseteq MergeItem
  BY <1>1, FS_Union
<1>3. ASSUME NEW e \in unseen
      PROVE  R!Cardinality(DOMAIN a) + R!Cardinality({f \in unseen : b[f] <= b[e]}) \in Nat
  <2>1. IsFiniteSet({f \in unseen : b[f] <= b[e]})
    BY <1>1, FS_Subset
  <2>2. Cardinality({f \in unseen : b[f] <= b[e]}) \in Nat /\ Cardinality(DOMAIN a) \in Nat
    BY <1>1, <2>1, FS_CardinalityType
  <2>3. \A X : R!Cardinality(X) = Cardinality(X)
    BY DEF R!Cardinality, Cardinality
  <2> QED  BY <2>2, <2>3
<1>4. u = [e \in S |-> IF e \in DOMAIN a THEN a[e]
                      ELSE R!Cardinality(DOMAIN a) + R!Cardinality({f \in unseen : b[f] <= b[e]})]
  BY DEF R!Union
<1>5. u \in [S -> Nat]
  BY <1>1, <1>3, <1>4
<1> HIDE DEF u
<1>6. DOMAIN u = S
  BY <1>5
<1>7. R!IsFiniteSet(DOMAIN u)
  BY <1>2, <1>6 DEF R!IsFiniteSet, IsFiniteSet
<1> QED  BY <1>2, <1>5, <1>6, <1>7 DEF ListValue, u

LEMMA ItemTyped ==
  ASSUME NEW e \in MergeItem
  PROVE  [item \in {e} |-> 1] \in ListValue
<1>1. R!IsFiniteSet({e})
  BY FS_Singleton DEF R!IsFiniteSet, IsFiniteSet
<1>2. [item \in {e} |-> 1] \in [{e} -> Nat] /\ {e} \in SUBSET MergeItem
  OBVIOUS
<1>3. DOMAIN [item \in {e} |-> 1] = {e}
  OBVIOUS
<1> QED  BY <1>1, <1>2, <1>3 DEF ListValue

LEMMA EmptyTyped == R!Empty \in SecondValue
<1>1. CASE merge_scope.field = "list"
  <2>1. R!IsFiniteSet({})
    BY FS_EmptySet DEF R!IsFiniteSet, IsFiniteSet
  <2>2. [item \in {} |-> 0] \in [{} -> Nat] /\ {} \in SUBSET MergeItem
    OBVIOUS
  <2>3. DOMAIN [item \in {} |-> 0] = {}
    OBVIOUS
  <2>4. [item \in {} |-> 0] \in ListValue
    BY <2>1, <2>2, <2>3 DEF ListValue
  <2> QED  BY <1>1, <2>4 DEF R!Empty, SecondValue
<1>2. CASE merge_scope.field # "list"
  BY <1>2 DEF R!Empty, SecondValue
<1> QED  BY <1>1, <1>2

LEMMA UnsetTyped ==
  ASSUME MergeType, R!MergeAssumption
  PROVE  /\ R!Unset \in RecordState /\ R!Unset.clock = <<0, 0>> /\ ~R!Unset.deleted
         /\ <<0, 0>> \in MergeClock
         /\ R!Fields => R!NoFields \in FieldValue
<1>1. merge_scope.last \in Nat
  BY DEF MergeType, R!MergeAssumption
<1>2. <<0, 0>> \in MergeClock
  BY <1>1 DEF MergeClock
<1>3. R!NoFields \in FieldValue
  BY <1>2, EmptyTyped DEF R!NoFields, FieldValue
<1> QED  BY <1>2, <1>3 DEF R!Unset, RecordState, R!NoValue

LEMMA LaterOfTyped ==
  ASSUME NEW a \in MergeClock, NEW b \in MergeClock
  PROVE  R!LaterOf(a, b) \in {a, b}
BY DEF R!LaterOf

\* Fields: a record is a record again, whichever is merged into which.
LEMMA SecondTyped ==
  ASSUME NEW a \in [clock : MergeClock, v : SecondValue],
         NEW b \in [clock : MergeClock, v : SecondValue]
  PROVE  R!MergedField(a, b) \in [clock : MergeClock, v : SecondValue]
<1>1. CASE b.clock = <<0, 0>> \/ a.clock = <<0, 0>>
  BY <1>1 DEF R!MergedField
<1>2. CASE ~ (b.clock = <<0, 0>> \/ a.clock = <<0, 0>>)
  <2>1. R!LaterOf(a.clock, b.clock) \in MergeClock
    BY LaterOfTyped
  <2>2. PICK v : R!MergedField(a, b) = [clock |-> R!LaterOf(a.clock, b.clock), v |-> v]
                 /\ v = CASE merge_scope.field = "list" -> R!Union(a.v, b.v)
                          [] merge_scope.field = "map" -> R!Entries(a.v, b.v)
                          [] merge_scope.field = "counter" -> R!Counted(a.v, b.v)
                          [] OTHER -> IF R!Later(a.clock, b.clock) THEN a.v ELSE b.v
    BY <1>2 DEF R!MergedField
  <2>3. v \in SecondValue
    <3>1. a.v \in SecondValue /\ b.v \in SecondValue
      OBVIOUS
    <3>2. CASE merge_scope.field = "counter"
      <4>1. R!Counted(a.v, b.v) \in [MergeDevice -> Nat]
        BY <3>1, <3>2 DEF R!Counted, SecondValue
      <4> QED  BY <2>2, <3>2, <4>1 DEF SecondValue
    <3>3. CASE merge_scope.field = "list"
      <4>1. v = R!Union(a.v, b.v) /\ a.v \in ListValue /\ b.v \in ListValue
        BY <2>2, <3>1, <3>3 DEF SecondValue
      <4> QED  BY <3>3, <4>1, UnionTyped DEF SecondValue
    <3>4. CASE merge_scope.field = "map"
      BY <2>2, <3>1, <3>4 DEF R!Entries, SecondValue
    <3> QED  BY <2>2, <3>1, <3>2, <3>3, <3>4
  <2> QED  BY <2>1, <2>2, <2>3
<1> QED  BY <1>1, <1>2

LEMMA MergedTyped ==
  ASSUME MergeType, NEW a \in RecordState, NEW b \in RecordState
  PROVE  R!Merged(a, b) \in RecordState
<1>1. CASE ~R!Fields \/ a = R!Unset
  BY <1>1 DEF R!Merged
<1>2. CASE R!Fields /\ a # R!Unset
  <2>1. R!Merged(a, b) = R!MergedFields(a, b)
    BY <1>2 DEF R!Merged, R!Fields
  <2>2. CASE a.deleted \/ b.deleted
    BY <2>1, <2>2 DEF R!MergedFields
  <2>3. CASE ~ (a.deleted \/ b.deleted)
    <3>1. /\ a.value \in FieldValue /\ b.value \in FieldValue
          /\ a.clock \in MergeClock /\ b.clock \in MergeClock
      BY <1>2 DEF RecordState
    <3>2. /\ R!MergedField(a.value.second, b.value.second)
               \in [clock : MergeClock, v : SecondValue]
          /\ R!LaterOf(a.value.title, b.value.title) \in MergeClock
          /\ R!LaterOf(a.clock, b.clock) \in MergeClock
      BY <3>1, SecondTyped, LaterOfTyped DEF FieldValue
    <3> DEFINE value == [title |-> R!LaterOf(a.value.title, b.value.title),
                         second |-> R!MergedField(a.value.second, b.value.second)]
    <3>3. value \in FieldValue
      BY <3>2 DEF FieldValue
    <3>4. R!Merged(a, b) =
            [clock |-> R!LaterOf(a.clock, b.clock), deleted |-> FALSE, value |-> value]
      BY <2>1, <2>3 DEF R!MergedFields
    <3> HIDE DEF value
    <3> QED  BY <1>2, <3>2, <3>3, <3>4 DEF RecordState
  <2> QED  BY <2>2, <2>3
<1> QED  BY <1>1, <1>2

\* Fields: a field that one of two records has stays, so none is left empty.
LEMMA SecondKept ==
  ASSUME R!Fields, NEW a \in RecordState, NEW b \in RecordState, SecondFits(a), SecondFits(b)
  PROVE  SecondFits(R!Merged(a, b))
<1>1. CASE a = R!Unset
  BY <1>1 DEF R!Merged
<1>2. CASE a # R!Unset
  <2>1. R!Merged(a, b) = R!MergedFields(a, b)
    BY <1>2 DEF R!Merged, R!Fields
  <2>2. CASE a.deleted \/ b.deleted
    BY <2>1, <2>2 DEF R!MergedFields
  <2>3. CASE ~ (a.deleted \/ b.deleted)
    <3> DEFINE x == a.value.second
               y == b.value.second
    <3>1. R!Merged(a, b).value.second = R!MergedField(x, y)
      BY <2>1, <2>3 DEF R!MergedFields
    <3>2. CASE x.clock = <<0, 0>> \/ y.clock = <<0, 0>>
      BY <3>1, <3>2 DEF R!MergedField, SecondFits
    <3>3. CASE ~ (x.clock = <<0, 0>> \/ y.clock = <<0, 0>>)
      <4>1. R!MergedField(x, y).clock = R!LaterOf(x.clock, y.clock)
        BY <3>3 DEF R!MergedField
      <4>2. R!LaterOf(x.clock, y.clock) # <<0, 0>>
        BY <3>3 DEF R!LaterOf
      <4> QED  BY <3>1, <4>1, <4>2 DEF SecondFits
    <3> QED  BY <3>2, <3>3
  <2> QED  BY <2>2, <2>3
<1> QED  BY <1>1, <1>2

\* Managed records: one of the two stays, and only a later one replaces another.
LEMMA MergedPicks ==
  ASSUME MergeType, R!MergeAssumption, ~R!Fields, NEW a \in RecordState, NEW b \in RecordState,
         a # R!Unset => a.clock[1] > 0
  PROVE  /\ R!Merged(a, b) \in {a, b}
         /\ R!Merged(a, b) # a => b # R!Unset /\ (a = R!Unset \/ R!Later(b.clock, a.clock))
         /\ merge_scope.policy = "momentum" /\ a.deleted => R!Merged(a, b).deleted
<1>1. R!Unset.clock = <<0, 0>> /\ ~R!Unset.deleted
  BY UnsetTyped
<1>2. CASE a = R!Unset
  BY <1>1, <1>2 DEF R!Merged
<1>3. CASE a # R!Unset /\ merge_scope.policy = "momentum" /\ a.deleted /\ ~b.deleted
  BY <1>3 DEF R!Merged
<1>4. CASE a # R!Unset /\ ~ (merge_scope.policy = "momentum" /\ a.deleted /\ ~b.deleted)
  <2>1. R!Merged(a, b) = IF R!Later(b.clock, a.clock) THEN b ELSE a
    BY <1>4 DEF R!Merged
  <2>2. ASSUME b = R!Unset
        PROVE  ~R!Later(b.clock, a.clock)
    <3>1. a.clock \in MergeClock /\ a.clock[1] > 0 /\ a.clock[1] \in Int
      <4>1. merge_scope.last \in Nat
        BY DEF MergeType, R!MergeAssumption
      <4> QED  BY <1>4, <4>1 DEF RecordState, MergeClock
    <3> QED  BY <1>1, <2>2, <3>1 DEF R!Later
  <2> QED  BY <1>4, <2>1, <2>2
<1> QED  BY <1>2, <1>3, <1>4

LEMMA MergeTypesStay ==
  ASSUME merge_scope' = merge_scope
  PROVE  /\ RecordState' = RecordState /\ MergeClock' = MergeClock
         /\ R!Fields' = R!Fields /\ R!Unset' = R!Unset
         /\ R!NoFields' = R!NoFields
BY DEF RecordState, FieldValue, SecondValue, ListValue, MergeItem, MergeClock, R!Fields,
       R!Unset, R!NoValue, R!NoFields, R!Empty

\* What Take does, entry by entry.
LEMMA Taken ==
  ASSUME MergeType, R!MergeAssumption, merge_scope' = merge_scope,
         NEW d \in MergeDevice, NEW records \in [RecordId -> RecordState],
         R!Take(d, records)
  PROVE  /\ merge_held' \in [MergeDevice -> [RecordId -> RecordState]]
         /\ merge_counter' \in [MergeDevice -> 0 .. merge_scope.last]
         /\ \A i \in RecordId : /\ merge_held'[d][i] = R!Merged(merge_held[d][i], records[i])
                                /\ merge_counter'[d] >= records[i].clock[1]
         /\ \A e \in MergeDevice : /\ e # d => merge_held'[e] = merge_held[e]
                                   /\ merge_counter'[e] >= merge_counter[e]
         /\ \A n \in 0 .. merge_scope.last :
              (\A i \in RecordId : records[i].clock[1] <= n) /\ merge_counter[d] <= n
                => merge_counter'[d] <= n
<1> DEFINE next == R!Prepared(merge_held[d], records)
           seen == {merge_counter[d]} \cup {records[i].clock[1] : i \in RecordId}
<1>1. merge_scope.last \in Nat
  BY DEF MergeType, R!MergeAssumption
<1>2. /\ merge_held' = [merge_held EXCEPT ![d] = next]
      /\ merge_counter' = [merge_counter EXCEPT ![d] = R!Max(seen)]
  BY DEF R!Take, MergeType
<1>3. /\ next \in [RecordId -> RecordState]
      /\ \A i \in RecordId : next[i] = R!Merged(merge_held[d][i], records[i])
  BY MergedTyped DEF R!Prepared, MergeType
<1>4. \A i \in RecordId : records[i].clock[1] \in 0 .. merge_scope.last
  BY DEF RecordState, MergeClock
<1>5. /\ seen \in SUBSET (0 .. merge_scope.last) /\ merge_counter[d] \in seen
      /\ \A i \in RecordId : records[i].clock[1] \in seen
  BY <1>4 DEF MergeType
<1>6. R!Max(seen) \in seen /\ \A y \in seen : R!Max(seen) >= y
  <2> HIDE DEF seen
  <2> QED  BY <1>1, <1>5, LargestIsMax
<1>7. /\ merge_held' \in [MergeDevice -> [RecordId -> RecordState]]
      /\ merge_held'[d] = next /\ \A e \in MergeDevice : e # d => merge_held'[e] = merge_held[e]
  <2> HIDE DEF next
  <2> QED  BY <1>2, <1>3 DEF MergeType
<1>8. /\ merge_counter' \in [MergeDevice -> 0 .. merge_scope.last]
      /\ merge_counter'[d] = R!Max(seen)
      /\ \A e \in MergeDevice : e # d => merge_counter'[e] = merge_counter[e]
  <2> HIDE DEF seen
  <2> QED  BY <1>2, <1>5, <1>6 DEF MergeType
<1>9. \A e \in MergeDevice : merge_counter'[e] >= merge_counter[e]
  <2>1. merge_counter \in [MergeDevice -> Nat]
    BY <1>1 DEF MergeType
  <2> QED  BY <1>5, <1>6, <1>8, <2>1
<1>10. ASSUME NEW n \in 0 .. merge_scope.last, merge_counter[d] <= n,
              \A i \in RecordId : records[i].clock[1] <= n
       PROVE  merge_counter'[d] <= n
  <2>1. \A y \in seen : y <= n
    BY <1>10
  <2> QED  BY <1>6, <1>8, <2>1
<1> HIDE DEF next, seen
<1> QED  BY <1>3, <1>5, <1>6, <1>7, <1>8, <1>9, <1>10

-----------------------------------------------------------------------------
(* Records: the initial state, and each action *)

LEMMA MergeInit ==
  ASSUME R!MergeAssumption, R!Init
  PROVE  MergeInv
<1>1. MergeType
  <2>1. merge_scope.last \in Nat
    BY DEF R!Init, R!MergeAssumption
  <2>2. /\ R!Unset \in RecordState
    <3>1. <<0, 0>> \in MergeClock
      BY <2>1 DEF MergeClock
    <3>2. R!NoFields \in FieldValue
      BY <3>1, EmptyTyped DEF R!NoFields, FieldValue
    <3> QED  BY <3>1, <3>2 DEF R!Unset, R!NoValue, RecordState
  <2> QED  BY <2>1, <2>2 DEF R!Init, MergeType
<1>2. \A d \in MergeDevice, i \in RecordId : merge_held[d][i] = R!Unset
  BY DEF R!Init
<1>3. \A i \in RecordId, r \in RecordState : ~KnownRecord(i, r)
  BY <1>2 DEF KnownRecord, R!Init
<1>4. ClocksFit
  BY <1>1, <1>2, <1>3, UnsetTyped DEF ClocksFit, R!Init
<1> QED  BY <1>1, <1>3, <1>4 DEF MergeInv, SecondsFit, NamesFit, OperationsFit

\* Records that are only passed on.
LEMMA SpreadKeeps ==
  ASSUME MergeInv, MergeType', merge_scope' = merge_scope, ~R!Fields,
         \A i \in RecordId, r \in RecordState : KnownRecord(i, r)' => KnownRecord(i, r),
         \A d \in MergeDevice : merge_counter'[d] >= merge_counter[d],
         \A d \in MergeDevice, i \in RecordId :
           /\ merge_held'[d][i].clock[1] <= merge_counter'[d]
           /\ merge_held[d][i] # R!Unset => merge_held'[d][i] # R!Unset
  PROVE  MergeInv'
<1>1. /\ RecordState' = RecordState /\ R!Fields' = R!Fields /\ R!Unset' = R!Unset
  BY MergeTypesStay
<1>2. /\ merge_counter \in [MergeDevice -> Int] /\ merge_counter' \in [MergeDevice -> Int]
      /\ \A r \in RecordState : r.clock[1] \in Int
  BY <1>1 DEF MergeInv, MergeType, RecordState, MergeClock
<1>3. ClocksFit'
  <2>1. ASSUME NEW i \in RecordId, NEW r \in RecordState, KnownRecord(i, r)'
        PROVE  /\ r.clock[1] > 0 /\ r.clock[2] \in MergeDevice
               /\ r.clock[1] <= merge_counter'[r.clock[2]]
    <3>1. /\ r.clock[1] > 0 /\ r.clock[2] \in MergeDevice
          /\ r.clock[1] <= merge_counter[r.clock[2]]
      BY <2>1 DEF MergeInv, ClocksFit
    <3> QED  BY <1>2, <3>1
  <2> QED  BY <1>1, <2>1 DEF ClocksFit
<1>4. NamesFit'
  BY <1>1 DEF MergeInv, NamesFit
<1>5. OperationsFit'
  BY <1>1 DEF MergeInv, OperationsFit, R!Later, Author
<1> QED  BY <1>1, <1>3, <1>4, <1>5 DEF MergeInv

\* A batch of what a device holds, or one that is refused, is nothing new.
LEMMA BatchStep ==
  ASSUME R!MergeAssumption, MergeInv,
         \/ \E d, e \in MergeDevice : R!Capture(d, e)
         \/ \E b \in merge_air : R!Refuse(b)
  PROVE  MergeInv'
<1>1. merge_held' = merge_held /\ merge_counter' = merge_counter /\ merge_scope' = merge_scope
  BY DEF R!Capture, R!Refuse
<1>2. MergeType /\ RecordState' = RecordState /\ R!Fields' = R!Fields /\ R!Unset' = R!Unset
      /\ R!NoFields' = R!NoFields
  BY <1>1, MergeTypesStay DEF MergeInv
<1>3. \A b \in merge_air' : /\ b \in [from : MergeDevice, to : MergeDevice,
                                      records : [RecordId -> RecordState]]
                            /\ \A i \in RecordId : b.records[i] = R!Unset
                                                   \/ KnownRecord(i, b.records[i])
  <2>1. \A b \in merge_air : b \in [from : MergeDevice, to : MergeDevice,
                                    records : [RecordId -> RecordState]]
                             /\ \A i \in RecordId : b.records[i] = R!Unset
                                                    \/ KnownRecord(i, b.records[i])
    BY <1>2 DEF MergeType, KnownRecord
  <2>2. ASSUME NEW d \in MergeDevice, NEW e \in MergeDevice, NEW some,
               NEW b, b = [from |-> d, to |-> e,
                 records |-> [i \in RecordId |-> IF i \in some THEN merge_held[d][i]
                                                 ELSE R!Unset]]
        PROVE  /\ b \in [from : MergeDevice, to : MergeDevice,
                         records : [RecordId -> RecordState]]
               /\ \A i \in RecordId : b.records[i] = R!Unset
                                      \/ KnownRecord(i, b.records[i])
    <3>1. \A i \in RecordId : /\ merge_held[d][i] \in RecordState
                              /\ merge_held[d][i] = R!Unset \/ KnownRecord(i, merge_held[d][i])
      BY <1>2 DEF MergeType, KnownRecord
    <3>2. R!Unset \in RecordState
      BY <1>2, UnsetTyped
    <3> QED  BY <2>2, <3>1, <3>2
  <2>3. CASE \E b \in merge_air : R!Refuse(b)
    BY <2>1, <2>3 DEF R!Refuse
  <2>4. CASE \E d, e \in MergeDevice : R!Capture(d, e)
    <3>1. PICK d \in MergeDevice, e \in MergeDevice : R!Capture(d, e)
      BY <2>4
    <3>2. PICK some \in SUBSET {i \in RecordId : merge_held[d][i] # R!Unset} \ {{}} :
            merge_air' = {b \in merge_air : ~(b.from = d /\ b.to = e)} \cup
              {[from |-> d, to |-> e,
                records |-> [i \in RecordId |-> IF i \in some THEN merge_held[d][i]
                                                ELSE R!Unset]]}
      BY <3>1 DEF R!Capture
    <3> DEFINE batch == [from |-> d, to |-> e,
                records |-> [i \in RecordId |-> IF i \in some THEN merge_held[d][i]
                                                ELSE R!Unset]]
    <3>3. \A b \in merge_air' : b \in merge_air \/ b = batch
      BY <3>2
    <3> QED  BY <2>1, <2>2, <3>3
  <2> QED  BY <2>3, <2>4
<1>4. MergeType'
  BY <1>1, <1>2, <1>3 DEF MergeType
<1>5. \A i \in RecordId, r \in RecordState : KnownRecord(i, r)' => KnownRecord(i, r)
  BY <1>1, <1>2, <1>3 DEF KnownRecord
<1>6. CASE R!Fields
  BY <1>1, <1>2, <1>4, <1>5, <1>6 DEF MergeInv, SecondsFit, SecondFits
<1>7. CASE ~R!Fields
  <2>1. merge_counter \in [MergeDevice -> Int]
    BY <1>2 DEF MergeType
  <2>2. /\ \A d \in MergeDevice : merge_counter'[d] >= merge_counter[d]
        /\ \A d \in MergeDevice, i \in RecordId :
             merge_held'[d][i].clock[1] <= merge_counter'[d]
    BY <1>1, <1>7, <2>1 DEF MergeInv, ClocksFit
  <2> QED  BY <1>1, <1>4, <1>5, <1>7, <2>2, SpreadKeeps
<1> QED  BY <1>6, <1>7

\* A batch arrives.
LEMMA DeliverStep ==
  ASSUME R!MergeAssumption, MergeInv, NEW b \in merge_air, R!Deliver(b)
  PROVE  MergeInv'
<1> DEFINE d == b.to
<1>1. /\ merge_scope' = merge_scope /\ merge_air' = merge_air /\ R!Take(d, b.records)
  BY DEF R!Deliver
<1>2. MergeType /\ RecordState' = RecordState /\ R!Fields' = R!Fields /\ R!Unset' = R!Unset
      /\ R!NoFields' = R!NoFields
  BY <1>1, MergeTypesStay DEF MergeInv
<1>3. d \in MergeDevice /\ b.records \in [RecordId -> RecordState]
  BY <1>2 DEF MergeType
<1>4. /\ merge_held' \in [MergeDevice -> [RecordId -> RecordState]]
      /\ merge_counter' \in [MergeDevice -> 0 .. merge_scope.last]
      /\ \A i \in RecordId :
           /\ merge_held'[d][i] = R!Merged(merge_held[d][i], b.records[i])
           /\ merge_counter'[d] >= b.records[i].clock[1]
      /\ \A e \in MergeDevice : /\ e # d => merge_held'[e] = merge_held[e]
                                /\ merge_counter'[e] >= merge_counter[e]
  <2> HIDE DEF d
  <2> QED  BY <1>1, <1>2, <1>3, Taken
<1>5. MergeType'
  BY <1>1, <1>2, <1>4 DEF MergeType
<1>6. ASSUME NEW i \in RecordId
      PROVE  /\ merge_held[d][i] \in RecordState /\ b.records[i] \in RecordState
             /\ merge_held[d][i] = R!Unset \/ KnownRecord(i, merge_held[d][i])
             /\ b.records[i] = R!Unset \/ KnownRecord(i, b.records[i])
  BY <1>2, <1>3 DEF MergeType, KnownRecord
<1>7. CASE R!Fields
  <2>1. SecondFits(R!Unset)
    BY <1>7 DEF SecondFits, R!Unset, R!NoValue
  <2>2. \A i \in RecordId : SecondFits(merge_held'[d][i])
    BY <1>4, <1>6, <1>7, <2>1, SecondKept DEF MergeInv, SecondsFit
  <2>3. \A i \in RecordId, r \in RecordState :
          KnownRecord(i, r)' => KnownRecord(i, r) \/ r = merge_held'[d][i]
    BY <1>1, <1>2, <1>4 DEF KnownRecord
  <2>4. \A i \in RecordId, r \in RecordState : KnownRecord(i, r)' => SecondFits(r)
    BY <1>7, <2>2, <2>3 DEF MergeInv, SecondsFit
  <2> QED  BY <1>2, <1>5, <1>7, <2>4 DEF MergeInv, SecondsFit, SecondFits
<1>8. CASE ~R!Fields
  <2>1. ASSUME NEW i \in RecordId
        PROVE  /\ merge_held'[d][i] \in {merge_held[d][i], b.records[i]}
               /\ merge_held'[d][i] # merge_held[d][i] => b.records[i] # R!Unset
    <3>1. merge_held[d][i] # R!Unset => merge_held[d][i].clock[1] > 0
      BY <1>6, <1>8 DEF MergeInv, ClocksFit
    <3> QED  BY <1>2, <1>4, <1>6, <1>8, <3>1, MergedPicks
  <2>2. \A i \in RecordId, r \in RecordState : KnownRecord(i, r)' => KnownRecord(i, r)
    BY <1>1, <1>2, <1>3, <1>4, <2>1 DEF KnownRecord
  <2>3. ASSUME NEW e \in MergeDevice, NEW i \in RecordId
        PROVE  /\ merge_held'[e][i].clock[1] <= merge_counter'[e]
               /\ merge_held[e][i] # R!Unset => merge_held'[e][i] # R!Unset
    <3>1. /\ merge_held[e][i].clock[1] <= merge_counter[e]
          /\ merge_held[e][i].clock[1] \in Int /\ b.records[i].clock[1] \in Int
          /\ merge_counter[e] \in Int /\ merge_counter'[e] \in Int
      BY <1>2, <1>3, <1>4, <1>8 DEF MergeInv, ClocksFit, MergeType, RecordState, MergeClock
    <3>2. CASE e # d
      BY <1>4, <3>1, <3>2
    <3>3. CASE e = d
      BY <1>4, <2>1, <3>1, <3>3
    <3> QED  BY <3>2, <3>3
  <2> QED  BY <1>1, <1>4, <1>5, <1>8, <2>2, <2>3, SpreadKeeps
<1> QED  BY <1>7, <1>8

\* A record under the next clock of its device.
LEMMA PutStep ==
  ASSUME R!MergeAssumption, MergeInv, ~R!Fields,
         NEW d \in MergeDevice, NEW i \in RecordId, NEW new \in RecordState,
         new.clock = <<merge_counter[d] + 1, d>>, R!Put(d, i, new),
         merge_scope.policy = "momentum" => ~ (merge_held[d][i].deleted /\ ~new.deleted),
         merge_scope.policy = "momentum" /\ merge_scope.strict =>
           IF new.deleted THEN merge_held[d][i] # R!Unset
           ELSE merge_held[d][i] = R!Unset /\ Author(d, i)
  PROVE  MergeInv'
<1> DEFINE records == [j \in RecordId |-> IF j = i THEN new ELSE R!Unset]
<1>1. /\ merge_scope' = merge_scope /\ merge_air' = merge_air
      /\ R!Take(d, records) /\ new.clock[1] <= merge_scope.last
  BY DEF R!Put
<1>2. MergeType /\ RecordState' = RecordState /\ R!Fields' = R!Fields /\ R!Unset' = R!Unset
  BY <1>1, MergeTypesStay DEF MergeInv
<1>3. /\ R!Unset \in RecordState /\ R!Unset.clock = <<0, 0>> /\ ~R!Unset.deleted
      /\ merge_scope.last \in Nat
  BY <1>2, UnsetTyped DEF MergeType, R!MergeAssumption
<1>4. /\ records \in [RecordId -> RecordState] /\ records[i] = new
      /\ \A j \in RecordId : j # i => records[j] = R!Unset
  BY <1>3
<1> HIDE DEF records
<1>5. /\ merge_held' \in [MergeDevice -> [RecordId -> RecordState]]
      /\ merge_counter' \in [MergeDevice -> 0 .. merge_scope.last]
      /\ \A j \in RecordId :
           /\ merge_held'[d][j] = R!Merged(merge_held[d][j], records[j])
           /\ merge_counter'[d] >= records[j].clock[1]
      /\ \A e \in MergeDevice : /\ e # d => merge_held'[e] = merge_held[e]
                                /\ merge_counter'[e] >= merge_counter[e]
      /\ \A n \in 0 .. merge_scope.last :
              (\A j \in RecordId : records[j].clock[1] <= n) /\ merge_counter[d] <= n
                => merge_counter'[d] <= n
  BY <1>1, <1>2, <1>4, Taken
<1>6. MergeType'
  BY <1>1, <1>2, <1>5 DEF MergeType
<1>7. /\ merge_counter \in [MergeDevice -> Int] /\ merge_counter' \in [MergeDevice -> Int]
      /\ merge_counter[d] \in Nat
      /\ \A r \in RecordState : r.clock[1] \in Int /\ r.clock[2] \in Int
  BY <1>2, <1>3, <1>5 DEF MergeType, RecordState, MergeClock
<1>8. merge_counter'[d] = merge_counter[d] + 1
  <2>1. merge_counter[d] + 1 \in 0 .. merge_scope.last /\ new.clock[1] = merge_counter[d] + 1
    BY <1>1, <1>3, <1>7
  <2>2. \A j \in RecordId : records[j].clock[1] <= merge_counter[d] + 1
    BY <1>3, <1>4, <1>7, <2>1
  <2>3. merge_counter'[d] <= merge_counter[d] + 1
    BY <1>5, <1>7, <2>1, <2>2
  <2>4. merge_counter'[d] >= merge_counter[d] + 1
    BY <1>4, <1>5, <2>1
  <2> QED  BY <1>7, <2>3, <2>4
<1>9. \A e \in MergeDevice, j \in RecordId :
        /\ merge_held[e][j] \in RecordState
        /\ merge_held[e][j] = R!Unset \/ KnownRecord(j, merge_held[e][j])
        /\ merge_held[e][j] # R!Unset => merge_held[e][j].clock[1] > 0
        /\ merge_held[e][j].clock[1] <= merge_counter[e]
  BY <1>2 DEF MergeInv, MergeType, KnownRecord, ClocksFit
<1>10. /\ merge_held'[d][i] = new
       /\ \A j \in RecordId : j # i => merge_held'[d][j] = merge_held[d][j]
  <2>1. ASSUME NEW j \in RecordId, j # i
        PROVE  merge_held'[d][j] = merge_held[d][j]
    BY <1>2, <1>3, <1>4, <1>5, <1>9, <2>1, MergedPicks
  <2>2. R!Later(new.clock, merge_held[d][i].clock)
    BY <1>7, <1>9 DEF R!Later
  <2>3. R!Merged(merge_held[d][i], new) = new
    BY <2>2 DEF R!Merged, R!Fields
  <2> QED  BY <1>4, <1>5, <2>1, <2>3
<1>11. \A j \in RecordId, r \in RecordState :
         KnownRecord(j, r)' => KnownRecord(j, r) \/ (j = i /\ r = new)
  BY <1>1, <1>2, <1>5, <1>10 DEF KnownRecord
<1>12. \A j \in RecordId, r \in RecordState : KnownRecord(j, r) =>
         /\ r.clock[1] > 0 /\ r.clock[2] \in MergeDevice
         /\ r.clock[1] <= merge_counter[r.clock[2]]
  BY DEF MergeInv, ClocksFit
<1>13. ClocksFit'
  <2>1. ASSUME NEW j \in RecordId, NEW r \in RecordState, KnownRecord(j, r)'
        PROVE  /\ r.clock[1] > 0 /\ r.clock[2] \in MergeDevice
               /\ r.clock[1] <= merge_counter'[r.clock[2]]
    <3>1. CASE KnownRecord(j, r)
      <4>1. /\ r.clock[1] > 0 /\ r.clock[2] \in MergeDevice
            /\ r.clock[1] <= merge_counter[r.clock[2]]
        BY <1>12, <3>1
      <4> QED  BY <1>5, <1>7, <4>1
    <3>2. CASE r = new
      BY <1>7, <1>8, <3>2
    <3> QED  BY <1>11, <2>1, <3>1, <3>2
  <2>2. ASSUME NEW e \in MergeDevice, NEW j \in RecordId
        PROVE  merge_held'[e][j].clock[1] <= merge_counter'[e]
    <3>1. merge_held[e][j].clock[1] <= merge_counter[e] /\ merge_held[e][j].clock[1] \in Int
      BY <1>7, <1>9
    <3>2. CASE e = d /\ j = i
      BY <1>7, <1>8, <1>10, <3>2
    <3>3. CASE ~ (e = d /\ j = i)
      <4>1. merge_held'[e][j] = merge_held[e][j]
        BY <1>5, <1>10, <3>3
      <4> QED  BY <1>5, <1>7, <3>1, <4>1
    <3> QED  BY <3>2, <3>3
  <2> QED  BY <1>2, <2>1, <2>2 DEF ClocksFit
<1>14. \A j \in RecordId, r \in RecordState : KnownRecord(j, r) => r.clock # new.clock
  <2> SUFFICES ASSUME NEW j \in RecordId, NEW r \in RecordState, KnownRecord(j, r),
                      r.clock = new.clock
               PROVE  FALSE
    OBVIOUS
  <2>1. r.clock[1] = merge_counter[d] + 1 /\ r.clock[2] = d
    OBVIOUS
  <2> QED  BY <1>7, <1>12, <2>1
<1>15. NamesFit'
  BY <1>2, <1>11, <1>14 DEF MergeInv, NamesFit
<1>16. ASSUME merge_scope.policy = "momentum", merge_scope.strict
       PROVE  OperationsFit'
  <2>1. \A j \in RecordId, r, s \in RecordState :
          KnownRecord(j, r) /\ KnownRecord(j, s) /\ ~s.deleted =>
            IF r.deleted THEN R!Later(r.clock, s.clock) ELSE r = s
    BY <1>16 DEF MergeInv, OperationsFit
  <2>2. \A j \in RecordId, r \in RecordState : KnownRecord(j, r) =>
          \E e \in MergeDevice : Author(e, j) /\ merge_held[e][j] # R!Unset
    BY <1>16 DEF MergeInv, OperationsFit
  <2>3. ASSUME ~new.deleted
        PROVE  \A r \in RecordState : ~KnownRecord(i, r)
    <3>1. merge_held[d][i] = R!Unset /\ Author(d, i)
      BY <1>16, <2>3
    <3>2. \A e \in MergeDevice : Author(e, i) => e = d
      BY <3>1 DEF Author
    <3> QED  BY <2>2, <3>1, <3>2
  <2>4. ASSUME new.deleted, NEW s \in RecordState, KnownRecord(i, s), ~s.deleted
        PROVE  R!Later(new.clock, s.clock)
    <3>1. KnownRecord(i, merge_held[d][i]) /\ merge_held[d][i] \in RecordState
      BY <1>9, <1>16, <2>4
    <3>2. s.clock[1] <= merge_held[d][i].clock[1]
      <4>1. CASE merge_held[d][i].deleted
        BY <1>7, <2>1, <2>4, <3>1, <4>1 DEF R!Later
      <4>2. CASE ~merge_held[d][i].deleted
        BY <1>7, <2>1, <2>4, <3>1, <4>2
      <4> QED  BY <4>1, <4>2
    <3>3. s.clock[1] < new.clock[1]
      BY <1>7, <1>9, <3>1, <3>2
    <3> QED  BY <3>3 DEF R!Later
  <2>5. ASSUME NEW j \in RecordId, NEW r \in RecordState, NEW s \in RecordState,
               KnownRecord(j, r)', KnownRecord(j, s)', ~s.deleted
        PROVE  IF r.deleted THEN R!Later(r.clock, s.clock) ELSE r = s
    <3>1. CASE KnownRecord(j, s)
      <4>1. CASE KnownRecord(j, r)
        BY <2>1, <2>5, <3>1, <4>1
      <4>2. CASE j = i /\ r = new
        BY <2>3, <2>4, <2>5, <3>1, <4>2
      <4> QED  BY <1>11, <2>5, <4>1, <4>2
    <3>2. CASE j = i /\ s = new
      <4>1. r = new
        BY <1>11, <2>3, <2>5, <3>2
      <4> QED  BY <2>5, <3>2, <4>1
    <3> QED  BY <1>11, <2>5, <3>1, <3>2
  <2>6. \A e \in MergeDevice, j \in RecordId :
          merge_held[e][j] # R!Unset => merge_held'[e][j] # R!Unset
    <3>1. new # R!Unset
      BY <1>3, <1>7
    <3> QED  BY <1>5, <1>10, <3>1
  <2>7. ASSUME NEW j \in RecordId, NEW r \in RecordState, KnownRecord(j, r)'
        PROVE  \E e \in MergeDevice : Author(e, j) /\ merge_held'[e][j] # R!Unset
    <3>1. CASE KnownRecord(j, r)
      BY <2>2, <2>6, <3>1
    <3>2. CASE j = i /\ r = new
      <4>1. CASE new.deleted
        <5>1. KnownRecord(i, merge_held[d][i])
          BY <1>9, <1>16, <4>1
        <5> QED  BY <1>9, <2>2, <2>6, <3>2, <5>1
      <4>2. CASE ~new.deleted
        <5>1. Author(d, i) /\ new # R!Unset
          BY <1>3, <1>7, <1>16, <4>2
        <5> QED  BY <1>10, <3>2, <5>1
      <4> QED  BY <4>1, <4>2
    <3> QED  BY <1>11, <2>7, <3>1, <3>2
  <2> QED  BY <1>2, <2>5, <2>7 DEF OperationsFit, R!Later, Author
<1>17. OperationsFit'
  BY <1>1, <1>16 DEF OperationsFit
<1> QED  BY <1>2, <1>6, <1>13, <1>15, <1>17 DEF MergeInv

\* Session::write and import_records.
LEMMA WriteStep ==
  ASSUME R!MergeAssumption, MergeInv, NEW d \in MergeDevice, NEW i \in RecordId,
         NEW deleted \in BOOLEAN, R!Write(d, i, deleted) \/ R!Import(d, i, deleted)
  PROVE  MergeInv'
<1> DEFINE clock == <<merge_counter[d] + 1, d>>
<1>1. MergeType /\ ~R!Fields /\ merge_held[d][i] \in RecordState
  BY DEF MergeInv, MergeType, R!Write, R!Import, R!Fields
<1>2. merge_held[d][i].value \in MergeClock /\ <<0, 0>> \in MergeClock
  BY <1>1, UnsetTyped DEF RecordState
<1>3. clock[1] <= merge_scope.last => clock \in MergeClock
  <2>1. merge_counter[d] \in Nat /\ d \in Nat /\ merge_scope.last \in Nat
    BY <1>1 DEF MergeType, R!MergeAssumption
  <2> QED  BY <2>1 DEF MergeClock
<1>4. CASE R!Write(d, i, deleted)
  <2> DEFINE new == [clock |-> clock, deleted |-> deleted,
                     value |-> IF deleted THEN <<0, 0>> ELSE clock]
  <2>1. R!Put(d, i, new) /\ merge_scope.policy = "records"
    BY <1>4 DEF R!Write, R!Counter
  <2>2. new \in RecordState
    BY <1>1, <1>2, <1>3, <2>1 DEF R!Put, RecordState
  <2>3. new.clock = <<merge_counter[d] + 1, d>>
    OBVIOUS
  <2> HIDE DEF new
  <2> QED  BY <1>1, <2>1, <2>2, <2>3, PutStep
<1>5. CASE R!Import(d, i, deleted)
  <2> DEFINE old == merge_held[d][i]
             new == [clock |-> clock, deleted |-> deleted,
                     value |-> IF deleted THEN <<0, 0>>
                               ELSE IF old = R!Unset THEN clock ELSE old.value]
  <2>1. /\ R!Put(d, i, new)
        /\ deleted => old # R!Unset
        /\ ~deleted => ~old.deleted
        /\ ~deleted /\ merge_scope.strict => old = R!Unset /\ Author(d, i)
    BY <1>5 DEF R!Import, R!Counter, Author
  <2>2. new \in RecordState
    BY <1>1, <1>2, <1>3, <2>1 DEF R!Put, RecordState
  <2>3. new.clock = <<merge_counter[d] + 1, d>> /\ new.deleted = deleted
    OBVIOUS
  <2> HIDE DEF new
  <2> QED  BY <1>1, <2>1, <2>2, <2>3, PutStep
<1> QED  BY <1>4, <1>5

\* RecordState::set, and a tombstone that is pruned.
LEMMA FieldsStep ==
  ASSUME R!MergeAssumption, MergeInv, NEW d \in MergeDevice, NEW i \in RecordId,
         \/ \E titled, seconded \in BOOLEAN : R!SetFields(d, i, titled, seconded)
         \/ R!Compact(d, i)
  PROVE  MergeInv'
<1>1. R!Fields /\ MergeType /\ merge_scope' = merge_scope /\ merge_air' = merge_air
  BY DEF R!SetFields, R!Compact, MergeInv
<1>2. /\ RecordState' = RecordState /\ R!Fields' = R!Fields /\ R!Unset' = R!Unset
      /\ R!NoFields' = R!NoFields
  BY <1>1, MergeTypesStay
<1>3. /\ R!Unset \in RecordState /\ <<0, 0>> \in MergeClock /\ R!NoFields \in FieldValue
      /\ SecondFits(R!Unset) /\ R!NoFields.second.clock = <<0, 0>>
  BY <1>1, UnsetTyped DEF SecondFits, R!Unset, R!NoValue, R!NoFields
<1>4. merge_counter[d] \in Nat /\ merge_scope.last \in Nat
  <2>1. merge_scope \in MergeBounds /\ merge_counter \in [MergeDevice -> 0 .. merge_scope.last]
    BY <1>1 DEF MergeType
  <2>2. merge_scope.last \in Nat
    BY <2>1 DEF R!MergeAssumption
  <2> QED  BY <2>1, <2>2
<1>5. PICK r \in RecordState :
        merge_held' = [merge_held EXCEPT ![d] = [@ EXCEPT ![i] = r]] /\ SecondFits(r)
  <2>1. CASE R!Compact(d, i)
    BY <1>3, <2>1 DEF R!Compact
  <2>2. CASE \E titled, seconded \in BOOLEAN : R!SetFields(d, i, titled, seconded)
    <3>1. PICK titled \in BOOLEAN, seconded \in BOOLEAN : R!SetFields(d, i, titled, seconded)
      BY <2>2
    <3> DEFINE clock == <<merge_counter[d] + 1, d>>
               old == IF merge_held[d][i].deleted THEN R!NoFields ELSE merge_held[d][i].value
               second == IF seconded
                         THEN [clock |-> clock, v |-> R!Edited(d, old.second.v, clock)]
                         ELSE old.second
               value == IF ~titled /\ ~seconded THEN R!NoFields
                        ELSE [title |-> IF titled THEN clock ELSE old.title,
                              second |-> second]
               new == [clock |-> clock, deleted |-> ~titled /\ ~seconded, value |-> value]
    <3>2. /\ merge_held' = [merge_held EXCEPT ![d] = [@ EXCEPT ![i] = new]]
          /\ clock[1] <= merge_scope.last
      BY <3>1, Zenon DEF R!SetFields, R!Counter
    <3>3. clock \in MergeClock /\ clock # <<0, 0>>
      <4>1. merge_counter[d] \in Nat /\ d \in Nat /\ merge_scope.last \in Nat
        BY <1>4 DEF R!MergeAssumption
      <4> QED  BY <3>2, <4>1 DEF MergeClock
    <3> HIDE DEF clock
    <3>4. /\ old \in FieldValue
          /\ old.second.clock = <<0, 0>> => old.second = R!NoFields.second
      <4>1. merge_held[d][i] \in RecordState
        BY <1>1 DEF MergeType
      <4>2. SecondFits(merge_held[d][i])
        <5>1. merge_held[d][i] = R!Unset \/ KnownRecord(i, merge_held[d][i])
          BY DEF KnownRecord
        <5> QED  BY <1>1, <1>3, <4>1, <5>1 DEF MergeInv, SecondsFit
      <4> QED  BY <1>1, <1>3, <4>1, <4>2 DEF RecordState, SecondFits
    <3> HIDE DEF old
    <3>5. R!Edited(d, old.second.v, clock) \in SecondValue
      <4>1. old.second.v \in SecondValue
        BY <3>4 DEF FieldValue
      <4>2. CASE merge_scope.field = "counter"
        BY <3>3, <4>1, <4>2 DEF R!Edited, SecondValue
      <4>3. CASE merge_scope.field = "list"
        <5>1. old.second.v \in ListValue /\ clock \in MergeItem
          BY <3>3, <4>1, <4>3 DEF SecondValue, MergeItem
        <5>2. R!Union(old.second.v, [item \in {clock} |-> 1]) \in ListValue
          BY <5>1, ItemTyped, UnionTyped
        <5> QED  BY <4>3, <5>2 DEF R!Edited, SecondValue
      <4>4. CASE merge_scope.field \notin {"counter", "list"}
        BY <3>3, <4>1, <4>4 DEF R!Edited, SecondValue, MergeItem
      <4> QED  BY <4>2, <4>3, <4>4
    <3>6. /\ second \in [clock : MergeClock, v : SecondValue]
          /\ second.clock = <<0, 0>> => second = R!NoFields.second
      BY <3>3, <3>4, <3>5 DEF FieldValue
    <3> HIDE DEF second
    <3>7. /\ value \in FieldValue
          /\ value.second.clock = <<0, 0>> => value.second = R!NoFields.second
      BY <1>3, <3>3, <3>4, <3>6 DEF FieldValue
    <3> HIDE DEF value
    <3>8. new \in RecordState /\ SecondFits(new)
      BY <1>1, <3>3, <3>7 DEF RecordState, SecondFits
    <3> HIDE DEF new
    <3> QED  BY <3>2, <3>8
  <2> QED  BY <2>1, <2>2
<1>6. merge_counter' \in [MergeDevice -> 0 .. merge_scope.last]
  <2>1. CASE R!Compact(d, i)
    BY <1>1, <2>1 DEF R!Compact, MergeType
  <2>2. ASSUME NEW titled \in BOOLEAN, NEW seconded \in BOOLEAN,
               R!SetFields(d, i, titled, seconded)
        PROVE  merge_counter' \in [MergeDevice -> 0 .. merge_scope.last]
    <3>1. /\ merge_counter' = [merge_counter EXCEPT ![d] = merge_counter[d] + 1]
          /\ merge_counter[d] + 1 <= merge_scope.last
      BY <2>2 DEF R!SetFields, R!Counter
    <3>2. merge_counter[d] \in Nat /\ merge_scope.last \in Nat
      BY <1>4
    <3> QED  BY <1>1, <3>1, <3>2 DEF MergeType
  <2> QED  BY <2>1, <2>2
<1>7. /\ merge_held' \in [MergeDevice -> [RecordId -> RecordState]]
      /\ \A e \in MergeDevice, j \in RecordId :
           merge_held'[e][j] \in {merge_held[e][j], r}
  BY <1>1, <1>5 DEF MergeType
<1>8. \A j \in RecordId, s \in RecordState : KnownRecord(j, s)' => SecondFits(s)
  <2>1. \A j \in RecordId, s \in RecordState :
          KnownRecord(j, s)' => KnownRecord(j, s) \/ s = r
    BY <1>1, <1>2, <1>7 DEF KnownRecord
  <2> QED  BY <1>1, <1>5, <2>1 DEF MergeInv, SecondsFit
<1>9. MergeType'
  BY <1>1, <1>2, <1>6, <1>7 DEF MergeType
<1> QED  BY <1>1, <1>2, <1>8, <1>9 DEF MergeInv, SecondsFit, SecondFits

LEMMA MergeStep ==
  ASSUME R!MergeAssumption, MergeInv, [R!Next]_(R!vars)
  PROVE  MergeInv'
<1>1. CASE UNCHANGED R!vars
  <2>1. /\ merge_scope' = merge_scope /\ merge_held' = merge_held
        /\ merge_counter' = merge_counter /\ merge_air' = merge_air
    BY <1>1 DEF R!vars
  <2>2. /\ RecordState' = RecordState /\ R!Fields' = R!Fields /\ R!Unset' = R!Unset
        /\ R!NoFields' = R!NoFields
    BY <2>1, MergeTypesStay
  <2>3. \A i \in RecordId, r \in RecordState : KnownRecord(i, r)' = KnownRecord(i, r)
    BY <2>1, <2>2 DEF KnownRecord
  <2>4. MergeType'
    BY <2>1, <2>2 DEF MergeInv, MergeType
  <2>5. CASE R!Fields
    BY <2>2, <2>3, <2>4, <2>5 DEF MergeInv, SecondsFit, SecondFits
  <2>6. CASE ~R!Fields
    <3>1. ClocksFit'
      BY <2>1, <2>2, <2>3, <2>6 DEF MergeInv, ClocksFit
    <3>2. NamesFit'
      BY <2>2, <2>3, <2>6 DEF MergeInv, NamesFit
    <3>3. OperationsFit'
      BY <2>1, <2>2, <2>3, <2>6 DEF MergeInv, OperationsFit, R!Later, Author
    <3> QED  BY <2>2, <2>4, <2>6, <3>1, <3>2, <3>3 DEF MergeInv
  <2> QED  BY <2>5, <2>6
<1>2. ASSUME NEW d \in MergeDevice, NEW i \in merge_scope.ids
      PROVE  i \in RecordId
  BY DEF MergeInv, MergeType, R!MergeAssumption
<1>3. CASE \E d \in MergeDevice, i \in merge_scope.ids, deleted \in BOOLEAN :
             R!Write(d, i, deleted) \/ R!Import(d, i, deleted)
  BY <1>2, <1>3, WriteStep
<1>4. CASE \E d \in MergeDevice, i \in merge_scope.ids, t, s \in BOOLEAN : R!SetFields(d, i, t, s)
  BY <1>2, <1>4, FieldsStep
<1>5. CASE \E d \in MergeDevice, i \in merge_scope.ids : R!Compact(d, i)
  BY <1>2, <1>5, FieldsStep
<1>6. CASE \E d, e \in MergeDevice : R!Capture(d, e)
  BY <1>6, BatchStep
<1>7. CASE \E b \in merge_air : R!Deliver(b) \/ R!Refuse(b)
  BY <1>7, BatchStep, DeliverStep
<1> QED  BY <1>1, <1>3, <1>4, <1>5, <1>6, <1>7 DEF R!Next

-----------------------------------------------------------------------------
(* Records: what the invariant gives *)

LEMMA LaterAsymmetric ==
  ASSUME merge_scope.last \in Nat, NEW a \in MergeClock, NEW b \in MergeClock
  PROVE  /\ ~ (R!Later(a, b) /\ R!Later(b, a))
         /\ R!Later(a, b) \/ R!Later(b, a) \/ a = b
BY DEF R!Later, MergeClock

\* What is looked at of a record with a list.
LEMMA ListSeen ==
  ASSUME R!Fields, merge_scope.field = "list", NEW c, NEW t, NEW k, NEW w
  PROVE  R!Agreed([clock |-> c, deleted |-> FALSE,
                   value |-> [title |-> t, second |-> [clock |-> k, v |-> w]]])
           = [clock |-> c, deleted |-> FALSE,
              value |-> [title |-> t, second |-> [clock |-> k, v |-> DOMAIN w]]]
<1> DEFINE s == [clock |-> k, v |-> w]
           u == [title |-> t, second |-> s]
           r == [clock |-> c, deleted |-> FALSE, value |-> u]
<1>1. R!Agreed(r) = [r EXCEPT !.value.second.v = DOMAIN @]
  BY DEF R!Agreed
<1>2. [s EXCEPT !.v = DOMAIN w] = [clock |-> k, v |-> DOMAIN w]
  OBVIOUS
<1>3. [u EXCEPT !.second = [s EXCEPT !.v = DOMAIN w]]
        = [title |-> t, second |-> [clock |-> k, v |-> DOMAIN w]]
  BY <1>2
<1>4. s.v = w /\ u.second = s /\ r.value = u
  OBVIOUS
<1> QED  BY <1>1, <1>2, <1>3, <1>4

\* Fields: records that are kept both ways are the same, but for the order of a list.
LEMMA FieldsSettle ==
  ASSUME R!MergeAssumption, MergeInv, R!Fields, merge_scope.field # "map",
         NEW a \in RecordState, NEW b \in RecordState, SecondFits(a), SecondFits(b),
         R!Merged(a, b) = a, R!Merged(b, a) = b
  PROVE  R!Agreed(a) = R!Agreed(b)
<1>1. merge_scope.last \in Nat
  BY DEF MergeInv, MergeType, R!MergeAssumption
<1>2. CASE a = R!Unset \/ b = R!Unset
  BY <1>2 DEF R!Merged
<1>3. CASE ~ (a = R!Unset \/ b = R!Unset)
  <2>1. R!MergedFields(a, b) = a /\ R!MergedFields(b, a) = b
    BY <1>3 DEF R!Merged, R!Fields
  <2>2. a.clock \in MergeClock /\ b.clock \in MergeClock
    BY DEF RecordState
  <2>3. CASE a.deleted \/ b.deleted
    BY <1>1, <2>1, <2>2, <2>3, LaterAsymmetric DEF R!MergedFields
  <2>4. CASE ~ (a.deleted \/ b.deleted)
    <3> DEFINE x == a.value.second
               y == b.value.second
    <3>1. /\ a.value.title \in MergeClock /\ b.value.title \in MergeClock
          /\ x \in [clock : MergeClock, v : SecondValue]
          /\ y \in [clock : MergeClock, v : SecondValue]
      BY DEF RecordState, FieldValue
    <3>2. /\ a = [clock |-> R!LaterOf(a.clock, b.clock), deleted |-> FALSE,
                  value |-> [title |-> R!LaterOf(a.value.title, b.value.title),
                             second |-> R!MergedField(x, y)]]
          /\ b = [clock |-> R!LaterOf(b.clock, a.clock), deleted |-> FALSE,
                  value |-> [title |-> R!LaterOf(b.value.title, a.value.title),
                             second |-> R!MergedField(y, x)]]
      BY <2>1, <2>4 DEF R!MergedFields
    <3>3. /\ a.clock = R!LaterOf(a.clock, b.clock) /\ b.clock = R!LaterOf(b.clock, a.clock)
          /\ a.value.title = R!LaterOf(a.value.title, b.value.title)
          /\ b.value.title = R!LaterOf(b.value.title, a.value.title)
          /\ x = R!MergedField(x, y) /\ y = R!MergedField(y, x)
      BY <3>2
    <3>4. a.clock = b.clock /\ a.value.title = b.value.title
      BY <1>1, <2>2, <3>1, <3>3, LaterAsymmetric DEF R!LaterOf
    <3>5. x.clock = y.clock
          /\ IF merge_scope.field = "list" THEN DOMAIN x.v = DOMAIN y.v ELSE x.v = y.v
      <4>1. CASE x.clock = <<0, 0>> /\ y.clock = <<0, 0>>
        BY <4>1 DEF SecondFits
      <4>2. CASE x.clock # <<0, 0>> /\ y.clock = <<0, 0>>
        BY <3>3, <4>2 DEF R!MergedField
      <4>3. CASE x.clock = <<0, 0>> /\ y.clock # <<0, 0>>
        BY <3>3, <4>3 DEF R!MergedField
      <4>4. CASE x.clock # <<0, 0>> /\ y.clock # <<0, 0>>
        <5>1. /\ x.clock = R!LaterOf(x.clock, y.clock)
              /\ y.clock = R!LaterOf(y.clock, x.clock)
          BY <3>3, <4>4 DEF R!MergedField
        <5>2. x.clock = y.clock /\ ~R!Later(x.clock, y.clock)
          BY <1>1, <3>1, <5>1, LaterAsymmetric DEF R!LaterOf
        <5>3. IF merge_scope.field = "list" THEN DOMAIN x.v = DOMAIN y.v ELSE x.v = y.v
          <6>1. CASE merge_scope.field = "list"
            <7>1. x.v = R!Union(x.v, y.v) /\ y.v = R!Union(y.v, x.v)
              BY <3>3, <4>4, <6>1 DEF R!MergedField
            <7>2. /\ DOMAIN R!Union(x.v, y.v) = DOMAIN x.v \cup (DOMAIN y.v \ DOMAIN x.v)
                  /\ DOMAIN R!Union(y.v, x.v) = DOMAIN y.v \cup (DOMAIN x.v \ DOMAIN y.v)
              BY DEF R!Union
            <7>3. /\ DOMAIN x.v = DOMAIN x.v \cup (DOMAIN y.v \ DOMAIN x.v)
                  /\ DOMAIN y.v = DOMAIN y.v \cup (DOMAIN x.v \ DOMAIN y.v)
              BY <7>1, <7>2
            <7> QED  BY <6>1, <7>3
          <6>2. CASE merge_scope.field = "counter"
            <7>1. x.v = R!Counted(x.v, y.v) /\ y.v = R!Counted(y.v, x.v)
              BY <3>3, <4>4, <6>2 DEF R!MergedField
            <7>2. x.v \in [MergeDevice -> Nat] /\ y.v \in [MergeDevice -> Nat]
              BY <3>1, <6>2 DEF SecondValue
            <7>3. ASSUME NEW d \in MergeDevice
                  PROVE  x.v[d] = y.v[d]
              <8>1. /\ x.v[d] = IF x.v[d] > y.v[d] THEN x.v[d] ELSE y.v[d]
                    /\ y.v[d] = IF y.v[d] > x.v[d] THEN y.v[d] ELSE x.v[d]
                BY <7>1 DEF R!Counted
              <8>2. x.v[d] \in Nat /\ y.v[d] \in Nat
                BY <7>2
              <8> QED  BY <8>1, <8>2
            <7> QED  BY <6>2, <7>2, <7>3
          <6>3. CASE merge_scope.field \notin {"list", "map", "counter"}
            BY <3>3, <4>4, <5>2, <6>3 DEF R!MergedField
          <6> QED  BY <6>1, <6>2, <6>3
        <5> QED  BY <5>2, <5>3
      <4> QED  BY <4>1, <4>2, <4>3, <4>4
    <3>6. /\ a = [clock |-> a.clock, deleted |-> FALSE,
                  value |-> [title |-> a.value.title, second |-> [clock |-> x.clock, v |-> x.v]]]
          /\ b = [clock |-> b.clock, deleted |-> FALSE,
                  value |-> [title |-> b.value.title, second |-> [clock |-> y.clock, v |-> y.v]]]
      BY <3>1, <3>2, <3>3
    <3>7. CASE merge_scope.field # "list"
      <4>1. a = b
        BY <3>4, <3>5, <3>6, <3>7
      <4> QED  BY <4>1
    <3>8. CASE merge_scope.field = "list"
      <4> DEFINE shape(c, t, k, w) ==
            [clock |-> c, deleted |-> FALSE,
             value |-> [title |-> t, second |-> [clock |-> k, v |-> w]]]
      <4>1. ASSUME NEW c, NEW t, NEW k, NEW w
            PROVE  R!Agreed(shape(c, t, k, w)) = shape(c, t, k, DOMAIN w)
        BY <3>8, ListSeen
      <4> HIDE DEF shape
      <4>2. R!Agreed(a) = shape(a.clock, a.value.title, x.clock, DOMAIN x.v)
        <5>1. a = shape(a.clock, a.value.title, x.clock, x.v)
          BY <3>6 DEF shape
        <5> QED  BY <4>1, <5>1, Zenon
      <4>3. R!Agreed(b) = shape(b.clock, b.value.title, y.clock, DOMAIN y.v)
        <5>1. b = shape(b.clock, b.value.title, y.clock, y.v)
          BY <3>6 DEF shape
        <5> QED  BY <4>1, <5>1, Zenon
      <4>4. DOMAIN x.v = DOMAIN y.v /\ x.clock = y.clock
        BY <3>5, <3>8
      <4> QED  BY <3>4, <4>2, <4>3, <4>4
    <3> QED  BY <3>7, <3>8
  <2> QED  BY <2>3, <2>4
<1> QED  BY <1>2, <1>3

\* Managed records: two known ones that are kept both ways are the same.
LEMMA RecordsSettle ==
  ASSUME R!MergeAssumption, MergeInv, ~R!Fields,
         merge_scope.policy # "momentum" \/ merge_scope.strict,
         NEW i \in RecordId, NEW a \in RecordState, NEW b \in RecordState,
         a = R!Unset \/ KnownRecord(i, a), b = R!Unset \/ KnownRecord(i, b),
         R!Merged(a, b) = a, R!Merged(b, a) = b
  PROVE  a = b
<1>1. merge_scope.last \in Nat
  BY DEF MergeInv, MergeType, R!MergeAssumption
<1>2. CASE a = R!Unset \/ b = R!Unset
  BY <1>2 DEF R!Merged
<1>3. CASE ~ (a = R!Unset \/ b = R!Unset)
  <2>1. a.clock \in MergeClock /\ b.clock \in MergeClock
        /\ KnownRecord(i, a) /\ KnownRecord(i, b)
    BY <1>3 DEF RecordState
  <2>2. CASE merge_scope.policy = "momentum"
    <3>1. CASE a.deleted = b.deleted
      <4>1. CASE a.deleted
        <5>1. ~R!Later(a.clock, b.clock) \/ a = b
          BY <1>3, <3>1, <4>1 DEF R!Merged, R!Fields
        <5>2. ~R!Later(b.clock, a.clock) \/ a = b
          BY <1>3, <3>1, <4>1 DEF R!Merged, R!Fields
        <5> QED  BY <1>1, <2>1, <5>1, <5>2, LaterAsymmetric DEF MergeInv, NamesFit
      <4>2. CASE ~a.deleted
        BY <2>1, <2>2, <3>1, <4>2 DEF MergeInv, OperationsFit
      <4> QED  BY <4>1, <4>2
    <3>2. CASE a.deleted /\ ~b.deleted
      <4>1. R!Later(a.clock, b.clock)
        BY <2>1, <2>2, <3>2 DEF MergeInv, OperationsFit
      <4> QED  BY <1>3, <3>2, <4>1 DEF R!Merged, R!Fields
    <3>3. CASE b.deleted /\ ~a.deleted
      <4>1. R!Later(b.clock, a.clock)
        BY <2>1, <2>2, <3>3 DEF MergeInv, OperationsFit
      <4> QED  BY <1>3, <3>3, <4>1 DEF R!Merged, R!Fields
    <3>4. a.deleted \in BOOLEAN /\ b.deleted \in BOOLEAN
      BY DEF RecordState
    <3> QED  BY <3>1, <3>2, <3>3, <3>4
  <2>3. CASE merge_scope.policy # "momentum"
    <3>1. ~R!Later(b.clock, a.clock) \/ a = b
      BY <1>3, <2>3 DEF R!Merged
    <3>2. ~R!Later(a.clock, b.clock) \/ a = b
      BY <1>3, <2>3 DEF R!Merged
    <3> QED  BY <1>1, <2>1, <3>1, <3>2, LaterAsymmetric DEF MergeInv, NamesFit
  <2> QED  BY <2>2, <2>3
<1> QED  BY <1>2, <1>3

LEMMA RecordsAgree ==
  ASSUME R!MergeAssumption, MergeInv
  PROVE  R!SettledAgree
<1> SUFFICES ASSUME merge_scope.policy # "momentum" \/ merge_scope.strict,
                    merge_scope.field # "map",
                    NEW d \in MergeDevice, NEW e \in MergeDevice,
                    R!Prepared(merge_held[d], merge_held[e]) = merge_held[d],
                    R!Prepared(merge_held[e], merge_held[d]) = merge_held[e]
             PROVE  \A i \in RecordId :
                      R!Agreed(merge_held[d][i]) = R!Agreed(merge_held[e][i])
  BY DEF R!SettledAgree, R!Apart
<1>1. MergeType
  BY DEF MergeInv
<1>2. /\ merge_held[d] \in [RecordId -> RecordState]
      /\ merge_held[e] \in [RecordId -> RecordState]
  BY <1>1 DEF MergeType
<1>3. ASSUME NEW i \in RecordId
      PROVE  R!Agreed(merge_held[d][i]) = R!Agreed(merge_held[e][i])
  <2> DEFINE a == merge_held[d][i]
             b == merge_held[e][i]
  <2>1. R!Merged(a, b) = a /\ R!Merged(b, a) = b
    BY DEF R!Prepared
  <2>2. /\ a \in RecordState /\ b \in RecordState
        /\ a = R!Unset \/ KnownRecord(i, a)
        /\ b = R!Unset \/ KnownRecord(i, b)
    BY <1>2 DEF KnownRecord
  <2> HIDE DEF a, b
  <2>3. CASE R!Fields
    <3>1. SecondFits(a) /\ SecondFits(b)
      <4>1. SecondFits(R!Unset)
        BY <2>3 DEF SecondFits, R!Unset, R!NoValue
      <4> QED  BY <2>2, <2>3, <4>1 DEF MergeInv, SecondsFit
    <3>2. R!Agreed(a) = R!Agreed(b)
      BY <2>1, <2>2, <2>3, <3>1, FieldsSettle
    <3> QED  BY <3>2 DEF a, b
  <2>4. CASE ~R!Fields
    <3>1. a = b
      BY <2>1, <2>2, <2>4, RecordsSettle
    <3> QED  BY <3>1 DEF a, b
  <2> QED  BY <2>3, <2>4
<1> QED  BY <1>2, <1>3

LEMMA NothingCollides ==
  ASSUME MergeInv
  PROVE  R!NothingRefused
<1> SUFFICES ASSUME merge_scope.policy # "momentum" \/ merge_scope.strict,
                    NEW d \in MergeDevice, NEW e \in MergeDevice, NEW i \in RecordId,
                    R!Collides(merge_held[d][i], merge_held[e][i])
             PROVE  FALSE
  BY DEF R!NothingRefused, R!Refused
<1> DEFINE a == merge_held[d][i]
           b == merge_held[e][i]
<1>1. ~R!Fields /\ a \in RecordState /\ b \in RecordState
      /\ KnownRecord(i, a) /\ KnownRecord(i, b)
  BY DEF R!Collides, MergeInv, MergeType, KnownRecord
<1>2. a.clock # b.clock \/ a = b
  BY <1>1 DEF MergeInv, NamesFit
<1>3. merge_scope.policy = "momentum" /\ ~a.deleted /\ ~b.deleted => a = b
  BY <1>1 DEF MergeInv, OperationsFit
<1> QED  BY <1>2, <1>3 DEF R!Collides

\* What a merge puts in place of a record is later, and a tombstone of an operation
\* stays one.
Onwards(d, i) ==
  ~R!Fields /\ merge_held'[d][i] # merge_held[d][i] =>
    /\ R!Later(merge_held'[d][i].clock, merge_held[d][i].clock)
    /\ merge_scope.policy = "momentum" /\ merge_held[d][i].deleted =>
         merge_held'[d][i].deleted

LEMMA TakeMovesOn ==
  ASSUME R!MergeAssumption, MergeInv, merge_scope' = merge_scope,
         NEW d \in MergeDevice, NEW records \in [RecordId -> RecordState], R!Take(d, records),
         \A i \in RecordId : records[i] = R!Unset \/ records[i].clock[1] > 0
  PROVE  \A e \in MergeDevice, i \in RecordId : Onwards(e, i)
<1> SUFFICES ASSUME ~R!Fields, NEW e \in MergeDevice, NEW i \in RecordId,
                    merge_held'[e][i] # merge_held[e][i]
             PROVE  Onwards(e, i)
  BY DEF Onwards
<1>1. MergeType
  BY DEF MergeInv
<1>2. e = d /\ merge_held'[d][i] = R!Merged(merge_held[d][i], records[i])
  BY <1>1, Taken
<1> DEFINE a == merge_held[d][i]
           b == records[i]
<1>3. a \in RecordState /\ b \in RecordState /\ (a # R!Unset => a.clock[1] > 0)
  BY <1>1 DEF MergeInv, MergeType, ClocksFit, KnownRecord
<1>4. R!Unset.clock = <<0, 0>> /\ b.clock[1] \in Int
  BY <1>1, <1>3, UnsetTyped DEF RecordState, MergeClock
<1> HIDE DEF a, b
<1>5. R!Merged(a, b) \in {a, b} /\ R!Merged(a, b) # a
  BY <1>1, <1>2, <1>3, MergedPicks DEF a, b
<1>6. b # R!Unset /\ (a = R!Unset \/ R!Later(b.clock, a.clock))
      /\ (merge_scope.policy = "momentum" /\ a.deleted => R!Merged(a, b).deleted)
  BY <1>1, <1>3, <1>5, MergedPicks
<1>7. R!Later(b.clock, a.clock)
  <2>1. b.clock[1] > 0
    BY <1>6 DEF b
  <2> QED  BY <1>4, <1>6, <2>1 DEF R!Later
<1> QED  BY <1>2, <1>5, <1>6, <1>7 DEF Onwards, a, b

LEMMA RecordsMoveOn ==
  ASSUME R!MergeAssumption, MergeInv, [R!Next]_(R!vars)
  PROVE  \A d \in MergeDevice, i \in RecordId : Onwards(d, i)
<1>1. MergeType
  BY DEF MergeInv
<1>2. CASE merge_held' = merge_held
  BY <1>2 DEF Onwards
<1>3. ASSUME NEW d \in MergeDevice, NEW i \in merge_scope.ids, NEW deleted \in BOOLEAN,
             R!Write(d, i, deleted) \/ R!Import(d, i, deleted)
      PROVE  \A e \in MergeDevice, j \in RecordId : Onwards(e, j)
  <2> DEFINE clock == <<merge_counter[d] + 1, d>>
             old == merge_held[d][i]
  <2>1. i \in RecordId /\ ~R!Fields /\ merge_scope.last \in Nat
    BY <1>1, <1>3 DEF R!MergeAssumption, MergeType, R!Write, R!Import, R!Fields
  <2>2. PICK value \in {<<0, 0>>, clock, old.value} :
          R!Put(d, i, [clock |-> clock, deleted |-> deleted, value |-> value])
    BY <1>3 DEF R!Write, R!Import, R!Counter
  <2> DEFINE new == [clock |-> clock, deleted |-> deleted, value |-> value]
             records == [j \in RecordId |-> IF j = i THEN new ELSE R!Unset]
  <2>3. /\ merge_scope' = merge_scope /\ R!Take(d, records)
        /\ clock[1] <= merge_scope.last
    BY <2>2 DEF R!Put
  <2>4. merge_counter[d] \in Nat /\ d \in Nat
    <3>1. merge_counter[d] \in 0 .. merge_scope.last
      BY <1>1 DEF MergeType
    <3>2. merge_counter[d] \in Nat
      BY <2>1, <3>1
    <3>3. d \in Nat
      BY DEF R!MergeAssumption
    <3> QED  BY <3>2, <3>3
  <2>5. clock \in MergeClock /\ <<0, 0>> \in MergeClock /\ clock[1] > 0
    BY <2>1, <2>3, <2>4 DEF MergeClock
  <2>6. old \in RecordState /\ R!Unset \in RecordState
    BY <1>1, <2>1, UnsetTyped DEF MergeType
  <2> HIDE DEF clock, old
  <2>7. new \in RecordState /\ new.clock[1] > 0
    BY <2>1, <2>2, <2>5, <2>6 DEF RecordState
  <2> HIDE DEF new
  <2>8. /\ records \in [RecordId -> RecordState]
        /\ \A j \in RecordId : records[j] = R!Unset \/ records[j].clock[1] > 0
    BY <2>6, <2>7
  <2> HIDE DEF records
  <2> QED  BY <2>3, <2>8, TakeMovesOn
<1>4. ASSUME NEW b \in merge_air, R!Deliver(b)
      PROVE  \A e \in MergeDevice, j \in RecordId : Onwards(e, j)
  <2>1. merge_scope' = merge_scope /\ R!Take(b.to, b.records)
    BY <1>4 DEF R!Deliver
  <2>2. b.to \in MergeDevice /\ b.records \in [RecordId -> RecordState]
    BY <1>1 DEF MergeType
  <2>3. CASE ~R!Fields
    <3>1. \A i \in RecordId : b.records[i] = R!Unset \/ b.records[i].clock[1] > 0
      BY <2>2, <2>3 DEF MergeInv, ClocksFit, KnownRecord
    <3> QED  BY <2>1, <2>2, <3>1, TakeMovesOn
  <2> QED  BY <2>3 DEF Onwards
<1>5. CASE R!Fields
  BY <1>5 DEF Onwards
<1>6. CASE \E d, e \in MergeDevice : R!Capture(d, e)
  BY <1>2, <1>6 DEF R!Capture
<1>7. ASSUME NEW b \in merge_air, R!Refuse(b)
      PROVE  merge_held' = merge_held
  BY <1>7 DEF R!Refuse
<1>8. ASSUME NEW d \in MergeDevice, NEW i \in merge_scope.ids, R!Compact(d, i)
      PROVE  R!Fields
  BY <1>8 DEF R!Compact
<1>9. ASSUME NEW d \in MergeDevice, NEW i \in merge_scope.ids,
             NEW t \in BOOLEAN, NEW s \in BOOLEAN, R!SetFields(d, i, t, s)
      PROVE  R!Fields
  BY <1>9 DEF R!SetFields
<1>10. CASE UNCHANGED R!vars
  BY <1>2, <1>10 DEF R!vars
<1> QED  BY <1>2, <1>3, <1>4, <1>5, <1>6, <1>7, <1>8, <1>9, <1>10 DEF R!Next

-----------------------------------------------------------------------------
(* Mapped tables: the inductive invariant *)

TableClock == Int \X Int

\* A record that is not the empty one has a clock, Bootstrap if it has no other.
TableRecord(r) ==
  /\ r.clock \in TableClock /\ r.at \in TableClock /\ r.deleted \in BOOLEAN
  /\ r # T!Unset => r.clock[1] >= 0
  /\ r = [clock |-> r.clock, deleted |-> r.deleted, v |-> r.v, at |-> r.at]

\* Sidecar rows and batches come from such records.
TableInv ==
  /\ table_counter \in [TableDevice -> Nat]
  /\ table_rec = [d \in TableDevice |-> table_rec[d]]
  /\ table_meta = [d \in TableDevice |-> table_meta[d]]
  /\ \A d \in TableDevice : TableRecord(table_rec[d])
  /\ \A d \in TableDevice : table_meta[d] # T!NoMeta =>
       /\ table_meta[d].clock \in TableClock /\ table_meta[d].clock[1] >= 0
       /\ table_meta[d].deleted \in BOOLEAN
  /\ \A b \in table_air : TableRecord(b.rec) /\ b.rec # T!Unset /\ b.to \in TableDevice

-----------------------------------------------------------------------------
(* Mapped tables: each action *)

LEMMA TableUnset ==
  /\ TableRecord(T!Unset) /\ T!Bootstrap \in TableClock /\ T!NoClock \in TableClock
  /\ T!Unset.clock = <<-1, 0>> /\ ~T!Unset.deleted
BY DEF TableRecord, TableClock, T!Unset, T!Bootstrap, T!NoClock

LEMMA TableInit ==
  ASSUME T!Init
  PROVE  TableInv
BY TableUnset DEF T!Init, TableInv

LEMMA StoredTyped ==
  ASSUME TableInv, NEW d \in TableDevice
  PROVE  /\ TableRecord(T!Stored(d))
         /\ T!Stored(d) = T!Unset <=> (table_row[d] = T!NoRow /\ table_meta[d] = T!NoMeta)
<1>1. CASE table_row[d] # T!NoRow /\ table_meta[d] = T!NoMeta
  <2>1. T!Stored(d) = [clock |-> T!Bootstrap, deleted |-> FALSE, v |-> table_row[d],
                       at |-> T!Bootstrap]
    BY <1>1 DEF T!Stored
  <2>2. T!Bootstrap \in TableClock /\ T!Bootstrap[1] = 0
    BY DEF T!Bootstrap, TableClock
  <2>3. T!Stored(d) # T!Unset
    BY <2>1, <2>2, TableUnset
  <2> QED  BY <1>1, <2>1, <2>2, <2>3 DEF TableRecord
<1>2. CASE table_meta[d] # T!NoMeta
  <2>1. /\ table_meta[d].clock \in TableClock /\ table_meta[d].clock[1] >= 0
        /\ table_meta[d].deleted \in BOOLEAN
    BY <1>2 DEF TableInv
  <2>2. T!Stored(d) = [clock |-> table_meta[d].clock, deleted |-> table_meta[d].deleted,
                       v |-> table_row[d], at |-> table_meta[d].clock]
    BY <1>2 DEF T!Stored
  <2>3. T!Stored(d) # T!Unset
    BY <2>1, <2>2 DEF T!Unset, T!NoClock
  <2> QED  BY <1>2, <2>1, <2>2, <2>3 DEF TableRecord
<1>3. CASE table_row[d] = T!NoRow /\ table_meta[d] = T!NoMeta
  BY <1>3, TableUnset DEF T!Stored
<1> QED  BY <1>1, <1>2, <1>3

\* What a load leaves is a record that is not earlier than what is stored.
LEMMA LoadedTyped ==
  ASSUME TableInv, NEW d \in TableDevice
  PROVE  /\ TableRecord(T!Loaded(d))
         /\ T!Loaded(d) = T!Unset => table_row[d] = T!NoRow /\ table_meta[d] = T!NoMeta
<1> DEFINE new == T!Stored(d)
           old == table_rec[d]
<1>1. /\ TableRecord(new) /\ TableRecord(old)
      /\ new = T!Unset <=> (table_row[d] = T!NoRow /\ table_meta[d] = T!NoMeta)
  BY StoredTyped DEF TableInv
<1>2. /\ T!Loaded(d) = IF ~T!Later(new.clock, old.clock) THEN old
                       ELSE IF ~old.deleted /\ new.v = old.v
                            THEN [new EXCEPT !.at = old.at] ELSE new
  BY DEF T!Loaded
<1> HIDE DEF new, old
<1>3. CASE ~T!Later(new.clock, old.clock)
  <2>1. ASSUME old = T!Unset
        PROVE  new = T!Unset
    <3>1. new # T!Unset => T!Later(new.clock, old.clock)
      BY <1>1, <2>1, TableUnset DEF TableRecord, TableClock, T!Later
    <3> QED  BY <1>3, <3>1
  <2> QED  BY <1>1, <1>2, <1>3, <2>1
<1>4. CASE T!Later(new.clock, old.clock)
  <2> DEFINE kept == [new EXCEPT !.at = old.at]
  <2>1. kept = [clock |-> new.clock, deleted |-> new.deleted, v |-> new.v, at |-> old.at]
    BY <1>1 DEF TableRecord
  <2>2. new # T!Unset
    <3>1. old.clock = <<-1, 0>> \/ old.clock[1] >= 0
      BY <1>1, TableUnset DEF TableRecord
    <3> QED  BY <1>1, <1>4, <3>1, TableUnset DEF TableRecord, TableClock, T!Later
  <2>3. kept.clock # T!Unset.clock /\ kept.clock[1] >= 0
    BY <1>1, <2>1, <2>2, TableUnset DEF TableRecord
  <2>4. TableRecord(kept) /\ kept # T!Unset
    BY <1>1, <2>1, <2>3 DEF TableRecord
  <2> HIDE DEF kept
  <2> QED  BY <1>1, <1>2, <1>4, <2>2, <2>4 DEF kept
<1> QED  BY <1>3, <1>4

LEMMA TableMerged ==
  ASSUME NEW a, NEW b, TableRecord(a), TableRecord(b)
  PROVE  TableRecord(T!Merged(a, b)) /\ (T!Merged(a, b) = T!Unset => b = T!Unset)
<1>1. CASE a = T!Unset \/ b = T!Unset
  BY <1>1 DEF T!Merged
<1>2. CASE a # T!Unset /\ b # T!Unset /\ (a.deleted \/ b.deleted)
  BY <1>2 DEF T!Merged
<1>3. CASE a # T!Unset /\ b # T!Unset /\ ~(a.deleted \/ b.deleted)
  <2>1. PICK f \in {a, b} :
          T!Merged(a, b) = [clock |-> T!LaterOf(a.clock, b.clock), deleted |-> FALSE,
                            v |-> f.v, at |-> f.at]
    BY <1>3 DEF T!Merged
  <2>2. T!LaterOf(a.clock, b.clock) \in {a.clock, b.clock}
    BY DEF T!LaterOf
  <2>3. /\ T!LaterOf(a.clock, b.clock) \in TableClock
        /\ T!LaterOf(a.clock, b.clock)[1] >= 0
    BY <1>3, <2>2 DEF TableRecord
  <2>4. f.at \in TableClock
    BY <2>1 DEF TableRecord
  <2> DEFINE c == T!LaterOf(a.clock, b.clock)
             m == T!Merged(a, b)
  <2>5. m.clock = c /\ m.at = f.at /\ ~m.deleted /\ m.deleted \in BOOLEAN
        /\ m = [clock |-> m.clock, deleted |-> m.deleted, v |-> m.v, at |-> m.at]
    BY <2>1
  <2> HIDE DEF c, m
  <2>6. m # T!Unset
    BY <2>3, <2>5, TableUnset DEF c
  <2> QED  BY <2>3, <2>4, <2>5, <2>6 DEF TableRecord, c, m
<1> QED  BY <1>1, <1>2, <1>3

\* The records, the counters and the sidecar rows after a step.
LEMMA TableMoves ==
  ASSUME TableInv, NEW d \in TableDevice, NEW r, NEW n \in Nat, NEW s, TableRecord(r),
         table_rec' = table_rec \/ table_rec' = [table_rec EXCEPT ![d] = r],
         table_counter' = table_counter \/ table_counter' = [table_counter EXCEPT ![d] = n],
         TableRecord(s),
         table_meta' = table_meta \/ table_meta' = [table_meta EXCEPT ![d] = T!MetaOf(d, s)],
         \A b \in table_air' :
           b \in table_air \/ (TableRecord(b.rec) /\ b.rec # T!Unset /\ b.to \in TableDevice)
  PROVE  TableInv'
<1>1. /\ table_counter' \in [TableDevice -> Nat]
      /\ table_rec' = [x \in TableDevice |-> table_rec'[x]]
      /\ table_meta' = [x \in TableDevice |-> table_meta'[x]]
  BY DEF TableInv
<1>2. \A x \in TableDevice : TableRecord(table_rec'[x])
  <2>1. \A x \in TableDevice : table_rec'[x] \in {table_rec[x], r}
    BY DEF TableInv
  <2> QED  BY <2>1 DEF TableInv
<1>3. ASSUME NEW x \in TableDevice, table_meta'[x] # T!NoMeta
      PROVE  /\ table_meta'[x].clock \in TableClock /\ table_meta'[x].clock[1] >= 0
             /\ table_meta'[x].deleted \in BOOLEAN
  <2>1. CASE table_meta'[x] = table_meta[x]
    BY <1>3, <2>1 DEF TableInv
  <2>2. CASE s # T!Unset /\ table_meta'[x] = [clock |-> s.clock, deleted |-> s.deleted]
    BY <2>2 DEF TableRecord
  <2>3. x # d => table_meta'[x] = table_meta[x]
    BY DEF TableInv
  <2>4. x = d => table_meta'[x] = table_meta[x] \/ table_meta'[x] = T!MetaOf(d, s)
    BY DEF TableInv
  <2> QED  BY <2>1, <2>2, <2>3, <2>4 DEF T!MetaOf
<1>4. \A b \in table_air' : TableRecord(b.rec) /\ b.rec # T!Unset /\ b.to \in TableDevice
  BY DEF TableInv
<1> QED  BY <1>1, <1>2, <1>3, <1>4 DEF TableInv, TableRecord, T!Unset, T!NoMeta, T!NoClock

LEMMA FollowTyped ==
  ASSUME NEW n \in Nat, NEW r, TableRecord(r)
  PROVE  T!Follow(n, r) \in Nat
BY DEF T!Follow, TableRecord, TableClock

LEMMA TableStep ==
  ASSUME T!MappedTableAssumption, TableInv, [T!Next]_(T!vars)
  PROVE  TableInv'
<1>1. \A d \in TableDevice : /\ TableRecord(table_rec[d]) /\ TableRecord(T!Loaded(d))
                             /\ table_counter[d] \in Nat /\ d \in Int
  BY LoadedTyped DEF TableInv, T!MappedTableAssumption
<1>2. TableRecord(T!Unset)
  BY TableUnset
<1>3. ASSUME NEW d \in TableDevice, T!Change(d)
      PROVE  TableInv'
  <2>1. /\ table_rec' = table_rec /\ table_counter' = table_counter
        /\ table_meta' = table_meta /\ table_air' = table_air
    BY <1>3 DEF T!Change
  <2> QED  BY <1>1, <1>2, <2>1, TableMoves
<1>4. ASSUME NEW d \in TableDevice, T!Tick(d)
      PROVE  TableInv'
  <2>1. T!Follow(table_counter[d], T!Loaded(d)) \in Nat
    BY <1>1, FollowTyped
  <2>2. /\ table_rec' = [table_rec EXCEPT ![d] = T!Loaded(d)]
        /\ table_counter' =
             [table_counter EXCEPT ![d] = T!Follow(table_counter[d], T!Loaded(d))]
        /\ table_meta' = [table_meta EXCEPT ![d] = T!MetaOf(d, T!Loaded(d))]
        /\ table_air' = table_air
    BY <1>4 DEF T!Tick, T!Load, T!Write
  <2>3. TableRecord(T!Loaded(d))
    BY <1>1
  <2> QED  BY <2>1, <2>2, <2>3, TableMoves
<1>5. ASSUME NEW d \in TableDevice, T!Sync(d)
      PROVE  TableInv'
  <2>1. T!Follow(table_counter[d], T!Loaded(d)) \in Nat
    BY <1>1, FollowTyped
  <2>2. /\ table_rec' = [table_rec EXCEPT ![d] = T!Loaded(d)]
        /\ table_counter' =
             [table_counter EXCEPT ![d] = T!Follow(table_counter[d], T!Loaded(d))]
        /\ table_meta' = table_meta /\ table_air' = table_air
    BY <1>5 DEF T!Sync, T!Load
  <2>3. TableRecord(T!Loaded(d))
    BY <1>1
  <2> QED  BY <2>1, <2>2, <2>3, TableMoves
<1>6. ASSUME NEW d \in TableDevice, T!Apply(d)
      PROVE  TableInv'
  <2>1. /\ table_rec' = table_rec /\ table_counter' = table_counter /\ table_air' = table_air
        /\ \/ table_meta' = table_meta
           \/ table_meta' = [table_meta EXCEPT ![d] = T!MetaOf(d, table_rec[d])]
    BY <1>6 DEF T!Apply, T!Write
  <2>2. TableRecord(table_rec[d])
    BY <1>1
  <2> QED  BY <1>1, <2>1, <2>2, TableMoves
<1>7. ASSUME NEW d \in TableDevice, T!Forget(d)
      PROVE  TableInv'
  <2>1. /\ table_rec' = [table_rec EXCEPT ![d] = T!Unset]
        /\ table_counter' = [table_counter EXCEPT ![d] = 0]
        /\ table_meta' = table_meta /\ table_air' \subseteq table_air
    BY <1>7 DEF T!Forget
  <2> QED  BY <1>2, <2>1, TableMoves
<1>8. ASSUME NEW d \in TableDevice, NEW deleted \in BOOLEAN, T!Set(d, deleted)
      PROVE  TableInv'
  <2>1. PICK v : table_rec' = [table_rec EXCEPT ![d] =
                   [clock |-> <<table_counter[d] + 1, d>>, deleted |-> deleted, v |-> v,
                    at |-> <<table_counter[d] + 1, d>>]]
    BY <1>8 DEF T!Set
  <2> DEFINE r == [clock |-> <<table_counter[d] + 1, d>>, deleted |-> deleted, v |-> v,
                   at |-> <<table_counter[d] + 1, d>>]
  <2>2. TableRecord(r)
    <3>1. table_counter[d] + 1 \in Int /\ table_counter[d] + 1 >= 0 /\ d \in Int
      BY <1>1
    <3>2. /\ r.clock = <<table_counter[d] + 1, d>> /\ r.at = r.clock /\ r.deleted = deleted
          /\ r = [clock |-> r.clock, deleted |-> r.deleted, v |-> r.v, at |-> r.at]
      OBVIOUS
    <3> HIDE DEF r
    <3> QED  BY <3>1, <3>2 DEF TableRecord, TableClock
  <2>3. /\ table_counter' = [table_counter EXCEPT ![d] = table_counter[d] + 1]
        /\ table_meta' = table_meta /\ table_air' = table_air
        /\ table_counter[d] + 1 \in Nat
    BY <1>1, <1>8 DEF T!Set
  <2> HIDE DEF r
  <2>4. table_rec' = [table_rec EXCEPT ![d] = r]
    BY <2>1 DEF r
  <2> QED  BY <2>2, <2>3, <2>4, TableMoves
<1>9. ASSUME NEW d \in TableDevice, NEW e \in TableDevice, T!Send(d, e)
      PROVE  TableInv'
  <2>1. /\ table_rec' = table_rec /\ table_counter' = table_counter /\ table_meta' = table_meta
        /\ table_rec[d] # T!Unset
        /\ \A b \in table_air' : b \in table_air
             \/ b = [from |-> d, to |-> e, rec |-> table_rec[d]]
    BY <1>9 DEF T!Send
  <2>2. \A b \in table_air' :
          b \in table_air \/ (TableRecord(b.rec) /\ b.rec # T!Unset /\ b.to \in TableDevice)
    BY <1>1, <2>1
  <2> QED  BY <1>1, <1>2, <2>1, <2>2, TableMoves
<1>10. ASSUME NEW b \in table_air, T!Deliver(b)
       PROVE  TableInv'
  <2>1. /\ b.to \in TableDevice /\ TableRecord(b.rec)
        /\ TableRecord(table_rec[b.to]) /\ table_counter[b.to] \in Nat
    BY <1>1 DEF TableInv
  <2>2. /\ TableRecord(T!Merged(table_rec[b.to], b.rec))
        /\ T!Follow(table_counter[b.to], b.rec) \in Nat
    BY <2>1, TableMerged, FollowTyped
  <2>3. /\ table_rec' = [table_rec EXCEPT ![b.to] = T!Merged(table_rec[b.to], b.rec)]
        /\ table_counter' =
             [table_counter EXCEPT ![b.to] = T!Follow(table_counter[b.to], b.rec)]
        /\ table_meta' = table_meta /\ table_air' \subseteq table_air
    BY <1>10 DEF T!Deliver
  <2> QED  BY <2>1, <2>2, <2>3, TableMoves
<1>11. CASE UNCHANGED T!vars
  BY <1>11 DEF T!vars, TableInv, TableRecord, T!Unset, T!NoMeta, T!NoClock
<1> QED  BY <1>3, <1>4, <1>5, <1>6, <1>7, <1>8, <1>9, <1>10, <1>11 DEF T!Next

\* Tables with nothing left to exchange show the same.
LEMMA TablesAgree ==
  ASSUME TableInv
  PROVE  T!RowsAgree
<1> SUFFICES ASSUME NEW d \in TableDevice, NEW e \in TableDevice, T!Settled(d, e)
             PROVE  table_row[d] = table_row[e]
  BY DEF T!RowsAgree
<1> DEFINE a == table_rec[d]
           b == table_rec[e]
<1>1. /\ TableRecord(a) /\ TableRecord(b)
      /\ T!Merged(a, b) = a /\ T!Merged(b, a) = b
      /\ T!Loaded(d) = a /\ T!Loaded(e) = b
      /\ table_row[d] = T!RowOf(d, a) /\ table_row[e] = T!RowOf(e, b)
  BY DEF T!Settled, TableInv
<1> HIDE DEF a, b
<1>2. CASE a = T!Unset \/ b = T!Unset
  <2>1. a = T!Unset /\ b = T!Unset
    BY <1>1, <1>2 DEF T!Merged
  <2> QED  BY <1>1, <2>1, LoadedTyped
<1>3. CASE a # T!Unset /\ b # T!Unset
  <2>1. \A x, y \in TableClock : ~ (T!Later(x, y) /\ T!Later(y, x))
    BY DEF TableClock, T!Later
  <2>2. CASE a.deleted \/ b.deleted
    <3>1. a.deleted = b.deleted
      BY <1>1, <1>3, <2>1, <2>2 DEF T!Merged, TableRecord
    <3> QED  BY <1>1, <1>3, <2>2, <3>1 DEF T!RowOf
  <2>3. CASE ~ (a.deleted \/ b.deleted)
    <3>1. a.v = b.v
      <4> DEFINE keep(x, y) == y.v = T!NoRow \/ (x.v # T!NoRow /\ T!Later(x.at, y.at))
      <4>1. a.v = (IF keep(a, b) THEN a ELSE b).v /\ b.v = (IF keep(b, a) THEN b ELSE a).v
        BY <1>1, <1>3, <2>3 DEF T!Merged
      <4> QED  BY <1>1, <2>1, <4>1 DEF TableRecord
    <3> QED  BY <1>1, <1>3, <2>3, <3>1 DEF T!RowOf
  <2> QED  BY <2>2, <2>3
<1> QED  BY <1>2, <1>3

-----------------------------------------------------------------------------
(* Mapped tables without edits of rows the adapter knows: records stay ahead *)

\* The records that are anywhere: in states, in tables and on their way.
TableKnown ==
  ({table_rec[d] : d \in TableDevice} \cup {T!Stored(d) : d \in TableDevice}
     \cup {b.rec : b \in table_air}) \ {T!Unset}

\* Edits are numbered, and were made on earlier ones.
EditsFit ==
  /\ IsFiniteSet(T!Edits) /\ T!Edits \subseteq Int
  /\ \A e \in T!Edits : e < T!Cardinality(T!Edits) /\ table_past[e] \subseteq T!Edits
  /\ {T!NoRow, T!Null} \subseteq T!Edits /\ table_past[T!NoRow] = {}

\* A tombstone is empty; the content of another is an edit, its field's clock that
\* of the record.
ContentFits(r) ==
  IF r.deleted THEN r.v = T!NoRow
  ELSE r.v \in T!Edits \ {T!NoRow, T!Null} /\ r.clock = r.at

\* An edit has one clock, later than those of the edits it was made on.
ClockFits(r, s) ==
  ~r.deleted /\ ~s.deleted =>
    /\ r.v = s.v => r.clock = s.clock
    /\ s.v \in table_past[r.v] => T!Later(r.clock, s.clock)

\* What a sync has loaded is not behind the table it will write, unless the
\* application has inserted its row since.
SyncFits(d) ==
  d \in table_syncing =>
    \/ table_row[d] = T!NoRow
    \/ table_past[table_row[d]] \subseteq {T!NoRow}
    \/ ~T!Later(T!Stored(d).clock, table_rec[d].clock)

RowsFit ==
  /\ EditsFit
  /\ \A r \in TableKnown : ContentFits(r)
  /\ \A r, s \in TableKnown : ClockFits(r, s)
  /\ \A d \in TableDevice : table_rec[d].clock[1] <= table_counter[d]
  /\ \A d \in TableDevice : SyncFits(d)

RowsInv ==
  /\ TableInv /\ table_row = [d \in TableDevice |-> table_row[d]]
  /\ ~table_scope.again => RowsFit

-----------------------------------------------------------------------------
(* Mapped tables: what a load, a merge and an apply make of known records *)

\* Nothing is earlier than itself, and what is not earlier is so on the way.
LEMMA TableClocks ==
  /\ \A x \in TableClock : ~T!Later(x, x)
  /\ \A x, y \in TableClock : T!Later(x, y) => ~T!Later(y, x)
  /\ \A x, y, z \in TableClock : ~T!Later(x, y) /\ ~T!Later(y, z) => ~T!Later(x, z)
BY DEF TableClock, T!Later

LEMMA StoredRow ==
  ASSUME RowsInv, NEW d \in TableDevice
  PROVE  /\ TableRecord(T!Stored(d)) /\ T!Stored(d).v = table_row[d]
         /\ T!Stored(d) # T!Unset => T!Stored(d) \in TableKnown
         /\ TableRecord(table_rec[d])
         /\ table_rec[d] # T!Unset => table_rec[d] \in TableKnown
<1>1. T!Stored(d).v = table_row[d]
  BY DEF T!Stored, T!Unset
<1> QED  BY <1>1, StoredTyped DEF RowsInv, TableInv, TableKnown

\* A row that is there is that of a known record.
LEMMA RowKnown ==
  ASSUME RowsInv, RowsFit, NEW d \in TableDevice, table_row[d] # T!NoRow
  PROVE  T!Stored(d) \in TableKnown /\ ~T!Stored(d).deleted
<1>1. T!Stored(d) # T!Unset
  BY StoredTyped DEF RowsInv
<1> QED  BY <1>1, StoredRow DEF RowsFit, ContentFits

\* A load takes one of the two, the later one.
LEMMA LoadedKnown ==
  ASSUME RowsInv, RowsFit, NEW d \in TableDevice
  PROVE  LET n == T!Loaded(d) IN
         /\ n \in TableKnown \cup {T!Unset} \/ (n.deleted /\ n.v = T!NoRow)
         /\ ~T!Later(T!Stored(d).clock, n.clock) /\ ~T!Later(table_rec[d].clock, n.clock)
         /\ n.clock \in {T!Stored(d).clock, table_rec[d].clock}
<1> DEFINE new == T!Stored(d)
           old == table_rec[d]
           n == T!Loaded(d)
<1>1. /\ TableRecord(new) /\ new \in TableKnown \cup {T!Unset}
      /\ TableRecord(old) /\ old \in TableKnown \cup {T!Unset}
  BY StoredRow
<1>2. n = IF ~T!Later(new.clock, old.clock) THEN old
          ELSE IF ~old.deleted /\ new.v = old.v THEN [new EXCEPT !.at = old.at] ELSE new
  BY DEF T!Loaded
<1>3. new.clock \in TableClock /\ old.clock \in TableClock
  BY <1>1 DEF TableRecord
<1> HIDE DEF new, old, n
<1>4. CASE ~T!Later(new.clock, old.clock)
  BY <1>1, <1>2, <1>3, <1>4, TableClocks DEF new, old, n
<1>5. CASE T!Later(new.clock, old.clock) /\ ~(~old.deleted /\ new.v = old.v)
  BY <1>1, <1>2, <1>3, <1>5, TableClocks DEF new, old, n
<1>6. CASE T!Later(new.clock, old.clock) /\ ~old.deleted /\ new.v = old.v
  <2>1. n = [clock |-> new.clock, deleted |-> new.deleted, v |-> new.v, at |-> old.at]
    BY <1>1, <1>2, <1>6 DEF TableRecord
  <2>2. new # T!Unset
    <3>1. old.clock = <<-1, 0>> \/ old.clock[1] >= 0
      BY <1>1, TableUnset DEF TableRecord
    <3> QED  BY <1>3, <1>6, <3>1, TableUnset DEF TableClock, T!Later
  <2>3. new.deleted /\ new.v = T!NoRow
    <3>1. CASE old = T!Unset
      <4>1. new.v = T!NoRow
        BY <1>6, <3>1 DEF T!Unset
      <4> QED  BY <1>1, <2>2, <4>1 DEF RowsFit, ContentFits, TableRecord
    <3>2. CASE old # T!Unset
      <4>1. old.v # T!NoRow
        BY <1>1, <1>6, <3>2 DEF RowsFit, ContentFits
      <4>2. ~new.deleted
        BY <1>1, <1>6, <2>2, <4>1 DEF RowsFit, ContentFits, TableRecord
      <4>3. new.clock = old.clock
        BY <1>1, <1>6, <2>2, <3>2, <4>2 DEF RowsFit, ClockFits
      <4> QED  BY <1>3, <1>6, <4>3, TableClocks
    <3> QED  BY <3>1, <3>2
  <2>4. n.clock = new.clock /\ n.deleted /\ n.v = T!NoRow
    BY <2>1, <2>3
  <2> QED  BY <1>3, <1>6, <2>4, TableClocks DEF new, old, n
<1> QED  BY <1>4, <1>5, <1>6

\* So does a merge.
LEMMA MergedKnown ==
  ASSUME RowsFit, NEW a \in TableKnown \cup {T!Unset}, NEW b \in TableKnown,
         TableRecord(a), TableRecord(b)
  PROVE  /\ T!Merged(a, b) \in {a, b}
         /\ ~T!Later(a.clock, T!Merged(a, b).clock)
<1>1. a.clock \in TableClock /\ b.clock \in TableClock /\ b # T!Unset
  BY DEF TableRecord, TableKnown
<1>2. CASE a = T!Unset
  <2>1. T!Merged(a, b) = b
    BY <1>1, <1>2 DEF T!Merged
  <2>2. b.clock[1] >= 0 /\ a.clock = <<-1, 0>>
    BY <1>1, <1>2, TableUnset DEF TableRecord
  <2> QED  BY <1>1, <2>1, <2>2 DEF T!Later, TableClock
<1>3. CASE a # T!Unset /\ (a.deleted \/ b.deleted)
  <2>1. T!Merged(a, b) = IF T!Later(a.clock, b.clock) THEN a ELSE b
    BY <1>1, <1>3 DEF T!Merged
  <2> QED  BY <1>1, <2>1, TableClocks
<1>4. CASE a # T!Unset /\ ~(a.deleted \/ b.deleted)
  <2>1. /\ a.v # T!NoRow /\ a.clock = a.at /\ b.v # T!NoRow /\ b.clock = b.at
    BY <1>1, <1>4 DEF RowsFit, ContentFits
  <2>2. /\ a = [clock |-> a.clock, deleted |-> FALSE, v |-> a.v, at |-> a.at]
        /\ b = [clock |-> b.clock, deleted |-> FALSE, v |-> b.v, at |-> b.at]
    BY <1>4 DEF TableRecord
  <2> DEFINE f == IF b.v = T!NoRow \/ (a.v # T!NoRow /\ T!Later(a.at, b.at)) THEN a ELSE b
  <2>3. T!Merged(a, b) = [clock |-> T!LaterOf(a.clock, b.clock), deleted |-> FALSE,
                          v |-> f.v, at |-> f.at]
    BY <1>1, <1>4 DEF T!Merged
  <2>4. CASE T!Later(a.clock, b.clock)
    <3>1. T!Merged(a, b) = a
      BY <2>1, <2>2, <2>3, <2>4 DEF T!LaterOf
    <3> QED  BY <1>1, <3>1, TableClocks
  <2>5. CASE ~T!Later(a.clock, b.clock)
    <3>1. T!Merged(a, b) = b
      BY <2>1, <2>2, <2>3, <2>5 DEF T!LaterOf
    <3> QED  BY <2>5, <3>1
  <2> QED  BY <2>4, <2>5
<1> QED  BY <1>2, <1>3, <1>4

\* A table that was written shows the record it was written from.
LEMMA AppliedStored ==
  ASSUME RowsInv, RowsFit, NEW d \in TableDevice, NEW r, TableRecord(r),
         r \in TableKnown \cup {T!Unset} \/ (r.deleted /\ r.v = T!NoRow), T!Write(d, r)
  PROVE  /\ \/ T!Stored(d)' \in TableKnown \cup {T!Unset}
            \/ T!Stored(d)'.deleted /\ T!Stored(d)'.v = T!NoRow
         /\ r # T!Unset => T!Stored(d)'.clock = r.clock
         /\ r = T!Unset => T!Stored(d)' = T!Stored(d) /\ table_row'[d] = table_row[d]
         /\ \A e \in TableDevice \ {d} : /\ T!Stored(e)' = T!Stored(e)
                                         /\ table_row'[e] = table_row[e]
         /\ table_row' = [e \in TableDevice |-> table_row'[e]]
<1>1. /\ table_row' = [table_row EXCEPT ![d] = T!RowOf(d, r)]
      /\ table_meta' = [table_meta EXCEPT ![d] = T!MetaOf(d, r)]
  BY DEF T!Write
<1>2. table_row'[d] = T!RowOf(d, r) /\ table_meta'[d] = T!MetaOf(d, r)
  BY <1>1 DEF RowsInv, TableInv
<1>3. \A e \in TableDevice \ {d} : table_row'[e] = table_row[e] /\ table_meta'[e] = table_meta[e]
  BY <1>1 DEF RowsInv, TableInv
<1>4. \A e \in TableDevice \ {d} : T!Stored(e)' = T!Stored(e)
  BY <1>3 DEF T!Stored
<1>5. CASE r = T!Unset
  <2>1. table_row'[d] = table_row[d] /\ table_meta'[d] = table_meta[d]
    BY <1>2, <1>5, TableUnset DEF T!RowOf, T!MetaOf
  <2>2. T!Stored(d)' = T!Stored(d)
    BY <2>1 DEF T!Stored
  <2> QED  BY <1>1, <1>3, <1>4, <1>5, <2>1, <2>2, StoredRow DEF RowsInv
<1>6. CASE r # T!Unset
  <2>1. table_meta'[d] = [clock |-> r.clock, deleted |-> r.deleted]
        /\ r.clock[1] >= 0
    BY <1>2, <1>6 DEF T!MetaOf, TableRecord
  <2>2. table_meta'[d] # T!NoMeta
    BY <2>1 DEF T!NoMeta, T!NoClock
  <2>3. T!Stored(d)' = [clock |-> r.clock, deleted |-> r.deleted, v |-> T!RowOf(d, r),
                        at |-> r.clock]
    BY <1>2, <2>1, <2>2 DEF T!Stored
  <2>4. CASE r.deleted
    BY <1>1, <1>3, <1>4, <1>6, <2>3, <2>4 DEF T!RowOf, RowsInv
  <2>5. CASE ~r.deleted
    <3>1. r \in TableKnown /\ r.v # T!NoRow /\ r.clock = r.at
      BY <1>6, <2>5 DEF RowsFit, ContentFits
    <3>2. T!RowOf(d, r) = r.v
      BY <1>6, <2>5, <3>1 DEF T!RowOf
    <3>3. T!Stored(d)' = r
      BY <2>3, <2>5, <3>1, <3>2 DEF TableRecord
    <3> QED  BY <1>1, <1>3, <1>4, <1>6, <3>1, <3>3 DEF RowsInv
  <2> QED  BY <2>4, <2>5
<1> QED  BY <1>5, <1>6

\* What is not behind the table is no edit that its row was made on.
LEMMA RowForward ==
  ASSUME RowsInv, RowsFit, NEW d \in TableDevice, table_row[d] # T!NoRow,
         NEW r, r \in TableKnown \cup {T!Unset} \/ (r.deleted /\ r.v = T!NoRow),
         ~T!Later(T!Stored(d).clock, r.clock)
  PROVE  T!RowOf(d, r) \notin table_past[table_row[d]] \ {T!NoRow}
<1> DEFINE s == T!Stored(d)
<1>1. s \in TableKnown /\ ~s.deleted /\ s.v = table_row[d] /\ s.clock \in TableClock
  BY RowKnown, StoredRow DEF TableRecord
<1>2. CASE r = T!Unset
  <2>1. T!RowOf(d, r) = s.v
    BY <1>1, <1>2, TableUnset DEF T!RowOf
  <2>2. s.v \notin table_past[s.v]
    BY <1>1, TableClocks DEF RowsFit, ClockFits
  <2> QED  BY <1>1, <2>1, <2>2
<1>3. CASE r # T!Unset /\ r.deleted
  BY <1>3 DEF T!RowOf
<1>4. CASE r # T!Unset /\ ~r.deleted
  <2>1. T!RowOf(d, r) = r.v
    BY <1>4 DEF T!RowOf, RowsFit, ContentFits
  <2>2. r.v \notin table_past[s.v]
    BY <1>1, <1>4 DEF RowsFit, ClockFits
  <2> QED  BY <1>1, <2>1, <2>2
<1> QED  BY <1>2, <1>3, <1>4

-----------------------------------------------------------------------------
(* Mapped tables without such edits: each action *)

\* Nobody edits: the records are what some were, or tombstones.
LEMMA RowsMove ==
  ASSUME RowsInv, RowsFit, table_past' = table_past,
         \A r \in TableKnown' : r \in TableKnown \/ (r.deleted /\ r.v = T!NoRow),
         \A d \in TableDevice : table_rec'[d].clock[1] <= table_counter'[d],
         \A d \in TableDevice : SyncFits(d)'
  PROVE  RowsFit'
<1>1. EditsFit'
  BY DEF RowsFit, EditsFit, T!Edits
<1>2. \A r \in TableKnown' : ContentFits(r)'
  BY DEF RowsFit, ContentFits, T!Edits
<1>3. \A r, s \in TableKnown' : ClockFits(r, s)'
  BY DEF RowsFit, ClockFits
<1> QED  BY <1>1, <1>2, <1>3 DEF RowsFit

\* A record is not replaced by an earlier one, and the table is as it was.
LEMMA SyncKept ==
  ASSUME RowsInv, NEW d \in TableDevice, SyncFits(d),
         d \in table_syncing' => d \in table_syncing,
         T!Stored(d)' = T!Stored(d), table_row'[d] = table_row[d],
         table_row[d] # T!NoRow => table_past'[table_row[d]] = table_past[table_row[d]],
         NEW c \in TableClock, table_rec'[d].clock = c,
         ~T!Later(table_rec[d].clock, c)
  PROVE  SyncFits(d)'
<1>1. T!Stored(d).clock \in TableClock /\ table_rec[d].clock \in TableClock
  BY StoredRow DEF TableRecord
<1> QED  BY <1>1, TableClocks DEF SyncFits

LEMMA RowStays ==
  ASSUME RowsInv, RowsFit, NEW d \in TableDevice, table_row[d] # T!NoRow
  PROVE  /\ table_row[d] \notin table_past[table_row[d]]
         /\ table_row[d] \in T!Edits
<1> DEFINE s == T!Stored(d)
<1>1. s \in TableKnown /\ ~s.deleted /\ s.v = table_row[d] /\ s.clock \in TableClock
  BY RowKnown, StoredRow DEF TableRecord
<1>2. s.v \notin table_past[s.v]
  BY <1>1, TableClocks DEF RowsFit, ClockFits
<1>3. s.v \in T!Edits
  BY <1>1 DEF RowsFit, ContentFits
<1> QED  BY <1>1, <1>2, <1>3

\* A new edit has a number of its own.
LEMMA EditAdded ==
  ASSUME EditsFit, NEW f \in T!Edits, NEW e, e = T!Cardinality(T!Edits),
         table_past' = [x \in T!Edits \cup {e} |->
                          IF x = e THEN table_past[f] \cup {f} ELSE table_past[x]]
  PROVE  /\ e \notin T!Edits /\ EditsFit' /\ T!Edits' = T!Edits \cup {e}
         /\ table_past'[e] = table_past[f] \cup {f}
         /\ \A x \in T!Edits : table_past'[x] = table_past[x]
<1> DEFINE E == T!Edits
<1>1. IsFiniteSet(E) /\ E \subseteq Int /\ \A x \in E : x < e
  BY DEF EditsFit
<1>2. e = Cardinality(E)
  BY DEF T!Cardinality, Cardinality
<1>3. e \in Nat
  BY <1>1, <1>2, FS_CardinalityType
<1>4. e \notin E
  BY <1>1, <1>3
<1>5. T!Edits' = E \cup {e}
  BY DEF T!Edits
<1>6. IsFiniteSet(E \cup {e}) /\ Cardinality(E \cup {e}) = e + 1
  BY <1>1, <1>2, <1>4, FS_AddElement
<1>7. T!Cardinality(T!Edits)' = e + 1
  <2>1. Cardinality(T!Edits') = e + 1
    BY <1>5, <1>6
  <2> QED  BY <2>1 DEF T!Cardinality, Cardinality
<1>8. table_past'[e] = table_past[f] \cup {f} /\ \A x \in E : table_past'[x] = table_past[x]
  BY <1>4
<1>9. EditsFit'
  <2>1. \A x \in E \cup {e} : x < e + 1 /\ table_past'[x] \subseteq E \cup {e}
    BY <1>1, <1>3, <1>8 DEF EditsFit
  <2>2. {T!NoRow, T!Null} \subseteq E \cup {e} /\ table_past'[T!NoRow] = {}
    BY <1>8 DEF EditsFit
  <2>3. E \cup {e} \subseteq Int
    <3>1. e \in Int
      BY <1>3
    <3> HIDE DEF E
    <3> QED  BY <1>1, <3>1
  <2> HIDE DEF E
  <2> QED  BY <1>5, <1>6, <1>7, <2>1, <2>2, <2>3 DEF EditsFit
<1> QED  BY <1>4, <1>5, <1>8, <1>9

\* It is known as one record, later than those it was made on.
LEMMA EditMade ==
  ASSUME RowsInv, RowsFit, NEW f \in T!Edits, NEW e, e = T!Cardinality(T!Edits),
         table_past' = [x \in T!Edits \cup {e} |->
                          IF x = e THEN table_past[f] \cup {f} ELSE table_past[x]],
         NEW n, IF n.deleted THEN n.v = T!NoRow ELSE n.v = e /\ n.clock = n.at,
         \A r \in TableKnown' : r \in TableKnown \/ r = n,
         \A s \in TableKnown : ~s.deleted /\ s.v \in table_past[f] \cup {f}
                                 => T!Later(n.clock, s.clock),
         \A d \in TableDevice : table_rec'[d].clock[1] <= table_counter'[d],
         \A d \in TableDevice : SyncFits(d)'
  PROVE  RowsFit'
<1>1. /\ e \notin T!Edits /\ EditsFit' /\ T!Edits' = T!Edits \cup {e}
      /\ table_past'[e] = table_past[f] \cup {f}
      /\ \A x \in T!Edits : table_past'[x] = table_past[x]
  BY EditAdded DEF RowsFit
<1>2. T!NoRow \in T!Edits /\ T!Null \in T!Edits
      /\ \A x \in T!Edits : table_past[x] \subseteq T!Edits
  BY DEF RowsFit, EditsFit
<1>3. \A r \in TableKnown : ContentFits(r)
  BY DEF RowsFit
<1>4. ASSUME NEW r \in TableKnown' PROVE ContentFits(r)'
  <2>1. CASE r \in TableKnown
    BY <1>1, <1>3, <2>1 DEF ContentFits
  <2>2. CASE r = n
    BY <1>1, <1>2, <2>2 DEF ContentFits
  <2> QED  BY <2>1, <2>2
<1>5. ASSUME NEW r \in TableKnown', NEW s \in TableKnown', ~r.deleted, ~s.deleted
      PROVE  /\ r.v = s.v => r.clock = s.clock
             /\ s.v \in table_past'[r.v] => T!Later(r.clock, s.clock)
  <2>1. CASE r \in TableKnown /\ s \in TableKnown
    <3>1. r.v \in T!Edits
      BY <1>3, <1>5, <2>1 DEF ContentFits
    <3> QED  BY <1>1, <1>5, <2>1, <3>1 DEF RowsFit, ClockFits
  <2>2. CASE r \in TableKnown /\ s = n
    <3>1. r.v \in T!Edits /\ s.v = e
      BY <1>3, <1>5, <2>2 DEF ContentFits
    <3> QED  BY <1>1, <1>2, <3>1
  <2>3. CASE r = n /\ s \in TableKnown
    <3>1. s.v \in T!Edits /\ r.v = e
      BY <1>3, <1>5, <2>3 DEF ContentFits
    <3> QED  BY <1>1, <1>5, <2>3, <3>1
  <2>4. CASE r = n /\ s = n
    <3>1. s.v = e /\ r.v = e
      BY <1>5, <2>4
    <3> QED  BY <1>1, <1>2, <2>4, <3>1
  <2> QED  BY <2>1, <2>2, <2>3, <2>4
<1>6. \A r, s \in TableKnown' : ClockFits(r, s)'
  BY <1>5 DEF ClockFits
<1> QED  BY <1>1, <1>4, <1>6 DEF RowsFit

LEMMA RowsChange ==
  ASSUME RowsInv, RowsFit, ~table_scope.again, NEW d \in TableDevice, T!Change(d)
  PROVE  /\ RowsFit'
         /\ \A e \in TableDevice : table_row[e] # T!NoRow => table_row'[e] = table_row[e]
<1> DEFINE e == T!Cardinality(T!Edits)
           n == [clock |-> T!Bootstrap, deleted |-> FALSE, v |-> e, at |-> T!Bootstrap]
<1>1. /\ table_row[d] = T!NoRow /\ table_meta[d] = T!NoMeta
      /\ table_row' = [table_row EXCEPT ![d] = e]
      /\ table_past' = [x \in T!Edits \cup {e} |->
           IF x = e THEN table_past[T!NoRow] \cup {T!NoRow} ELSE table_past[x]]
      /\ table_meta' = table_meta /\ table_rec' = table_rec
      /\ table_counter' = table_counter /\ table_air' = table_air
      /\ table_syncing' = table_syncing
  BY DEF T!Change
<1>2. table_past[T!NoRow] = {} /\ T!NoRow \in T!Edits
  BY DEF RowsFit, EditsFit
<1> HIDE DEF e
<1>3. /\ e \notin T!Edits /\ table_past'[e] = {T!NoRow}
      /\ \A x \in T!Edits : table_past'[x] = table_past[x]
  BY <1>1, <1>2, EditAdded DEF RowsFit, e
<1>4. table_row'[d] = e /\ \A c \in TableDevice \ {d} : table_row'[c] = table_row[c]
  BY <1>1 DEF RowsInv
<1>5. T!Stored(d)' = n
  BY <1>1, <1>2, <1>3, <1>4 DEF T!Stored
<1>6. \A c \in TableDevice \ {d} : T!Stored(c)' = T!Stored(c)
  BY <1>1, <1>4 DEF T!Stored
<1>7. \A r \in TableKnown' : r \in TableKnown \/ r = n
  BY <1>1, <1>5, <1>6 DEF TableKnown
<1>8. ASSUME NEW s \in TableKnown, ~s.deleted, s.v \in table_past[T!NoRow] \cup {T!NoRow}
      PROVE  FALSE
  BY <1>2, <1>8 DEF RowsFit, ContentFits
<1>9. ASSUME NEW c \in TableDevice PROVE SyncFits(c)'
  <2>1. CASE c = d
    BY <1>3, <1>4, <2>1 DEF SyncFits
  <2>2. CASE c # d
    <3>1. table_row[c] # T!NoRow => table_past'[table_row[c]] = table_past[table_row[c]]
      BY <1>3, RowStays
    <3>2. table_rec[c].clock \in TableClock /\ ~T!Later(table_rec[c].clock, table_rec[c].clock)
      BY StoredRow, TableClocks DEF TableRecord
    <3>3. SyncFits(c)
      BY DEF RowsFit
    <3> QED  BY <1>1, <1>4, <1>6, <2>2, <3>1, <3>2, <3>3, SyncKept
  <2> QED  BY <2>1, <2>2
<1>10. n.clock = n.at /\ ~n.deleted /\ n.v = e
  OBVIOUS
<1>11. \A c \in TableDevice : table_rec'[c].clock[1] <= table_counter'[c]
  BY <1>1 DEF RowsFit
<1> HIDE DEF n
<1>12. RowsFit'
  BY <1>1, <1>2, <1>7, <1>8, <1>9, <1>10, <1>11, EditMade DEF e
<1> QED  BY <1>1, <1>4, <1>12

LEMMA RowsSet ==
  ASSUME RowsInv, RowsFit, NEW d \in TableDevice, d \in Int, NEW deleted \in BOOLEAN,
         T!Set(d, deleted)
  PROVE  RowsFit' /\ table_row' = table_row
<1> DEFINE e == T!Cardinality(T!Edits)
           old == table_rec[d]
           clock == <<table_counter[d] + 1, d>>
           n == [clock |-> clock, deleted |-> deleted, v |-> IF deleted THEN T!NoRow ELSE e,
                 at |-> clock]
<1>1. /\ table_rec' = [table_rec EXCEPT ![d] = n]
      /\ table_counter' = [table_counter EXCEPT ![d] = table_counter[d] + 1]
      /\ table_past' = [x \in T!Edits \cup {e} |->
           IF x = e THEN table_past[old.v] \cup {old.v} ELSE table_past[x]]
      /\ table_row' = table_row /\ table_meta' = table_meta /\ table_air' = table_air
      /\ table_syncing' = table_syncing
  BY DEF T!Set
<1>2. /\ table_past[T!NoRow] = {} /\ T!NoRow \in T!Edits
      /\ table_counter[d] \in Nat /\ old.clock[1] <= table_counter[d]
      /\ TableRecord(old) /\ old.clock \in TableClock
      /\ old # T!Unset => old \in TableKnown
  BY StoredRow DEF RowsFit, EditsFit, RowsInv, TableInv, TableRecord
<1>4. old.v \in T!Edits /\ (old = T!Unset \/ old.deleted => old.v = T!NoRow)
  BY <1>2 DEF RowsFit, ContentFits, T!Unset
<1>5. clock \in TableClock
      /\ \A c \in TableClock : c[1] <= table_counter[d] => T!Later(clock, c)
  BY <1>2 DEF TableClock, T!Later
<1>6. /\ n.clock = clock /\ n.at = clock /\ n.deleted = deleted
      /\ n.v = IF deleted THEN T!NoRow ELSE e
  OBVIOUS
<1> HIDE DEF e, n, clock
<1>7. table_rec'[d] = n /\ \A c \in TableDevice \ {d} : table_rec'[c] = table_rec[c]
  BY <1>1 DEF RowsInv, TableInv
<1>8. \A c \in TableDevice : T!Stored(c)' = T!Stored(c)
  BY <1>1 DEF T!Stored
<1>9. \A r \in TableKnown' : r \in TableKnown \/ r = n
  BY <1>1, <1>7, <1>8 DEF TableKnown
<1>10. ASSUME NEW s \in TableKnown, ~s.deleted, s.v \in table_past[old.v] \cup {old.v}
       PROVE  T!Later(n.clock, s.clock)
  <2>1. s.v # T!NoRow /\ TableRecord(s)
    BY <1>10, StoredRow DEF RowsFit, ContentFits, TableKnown, RowsInv, TableInv
  <2>2. old # T!Unset /\ ~old.deleted
    BY <1>2, <1>4, <1>10, <2>1
  <2>3. old.clock = s.clock \/ T!Later(old.clock, s.clock)
    BY <1>2, <1>10, <2>2 DEF RowsFit, ClockFits
  <2>4. s.clock[1] <= table_counter[d] /\ s.clock \in TableClock
    BY <1>2, <2>1, <2>3 DEF T!Later, TableClock, TableRecord
  <2> QED  BY <1>5, <1>6, <2>4
<1>11. /\ e \notin T!Edits /\ \A x \in T!Edits : table_past'[x] = table_past[x]
  BY <1>1, <1>4, EditAdded DEF RowsFit, e
<1>12. \A c \in TableDevice : table_rec'[c].clock[1] <= table_counter'[c]
  <2>1. clock[1] = table_counter[d] + 1
    BY DEF clock
  <2>2. table_counter'[d] = table_counter[d] + 1
        /\ \A c \in TableDevice \ {d} : table_counter'[c] = table_counter[c]
    BY <1>1 DEF RowsInv, TableInv
  <2> QED  BY <1>2, <1>6, <1>7, <2>1, <2>2 DEF RowsFit
<1>13. ASSUME NEW c \in TableDevice PROVE SyncFits(c)'
  <2>1. table_row[c] # T!NoRow => table_past'[table_row[c]] = table_past[table_row[c]]
    BY <1>11, RowStays
  <2>2. PICK k \in TableClock : table_rec'[c].clock = k /\ ~T!Later(table_rec[c].clock, k)
    <3>1. CASE c = d
      <4>1. ~T!Later(old.clock, clock)
        BY <1>2, <1>5, TableClocks
      <4> QED  BY <1>5, <1>6, <1>7, <3>1, <4>1
    <3>2. CASE c # d
      <4>1. table_rec[c].clock \in TableClock
        BY StoredRow DEF TableRecord
      <4> QED  BY <1>7, <3>2, <4>1, TableClocks
    <3> QED  BY <3>1, <3>2
  <2>3. SyncFits(c)
    BY DEF RowsFit
  <2> QED  BY <1>1, <1>8, <2>1, <2>2, <2>3, SyncKept
<1>14. IF n.deleted THEN n.v = T!NoRow ELSE n.v = e /\ n.clock = n.at
  BY <1>6
<1>15. RowsFit'
  BY <1>1, <1>4, <1>9, <1>10, <1>12, <1>13, <1>14, EditMade DEF e
<1> QED  BY <1>1, <1>15

\* A load: what the state then holds is not behind the table.
LEMMA RowsLoad ==
  ASSUME RowsInv, RowsFit, NEW d \in TableDevice, T!Load(d)
  PROVE  /\ table_rec'[d] = T!Loaded(d)
         /\ \A c \in TableDevice \ {d} : table_rec'[c] = table_rec[c]
         /\ TableRecord(T!Loaded(d))
         /\ \A c \in TableDevice : table_rec'[c].clock[1] <= table_counter'[c]
<1>1. /\ table_rec' = [table_rec EXCEPT ![d] = T!Loaded(d)]
      /\ table_counter' =
           [table_counter EXCEPT ![d] = T!Follow(table_counter[d], T!Loaded(d))]
  BY DEF T!Load
<1>2. /\ table_rec'[d] = T!Loaded(d)
      /\ table_counter'[d] = T!Follow(table_counter[d], T!Loaded(d))
      /\ table_counter[d] \in Nat
      /\ \A c \in TableDevice \ {d} :
           table_rec'[c] = table_rec[c] /\ table_counter'[c] = table_counter[c]
  BY <1>1 DEF RowsInv, TableInv
<1>3. TableRecord(T!Loaded(d))
  BY LoadedTyped DEF RowsInv
<1>4. T!Loaded(d).clock[1] <= table_counter'[d]
  BY <1>2, <1>3 DEF T!Follow, TableRecord, TableClock
<1> QED  BY <1>2, <1>3, <1>4 DEF RowsFit

\* What the tables show after a step is nothing that was written over.
RowsNotBack ==
  \A d \in TableDevice : table_row[d] # T!NoRow =>
    table_row'[d] \notin table_past[table_row[d]] \ {T!NoRow}

\* A sync that has loaded holds nothing that is behind the table.
LEMMA RowsTick ==
  ASSUME RowsInv, RowsFit, NEW d \in TableDevice, T!Tick(d)
  PROVE  RowsFit' /\ RowsNotBack
<1> DEFINE n == T!Loaded(d)
<1>1. /\ T!Load(d) /\ T!Write(d, n) /\ table_air' = table_air
      /\ table_syncing' = table_syncing /\ table_past' = table_past
  BY DEF T!Tick
<1>2. /\ table_rec'[d] = n /\ TableRecord(n)
      /\ \A c \in TableDevice \ {d} : table_rec'[c] = table_rec[c]
      /\ \A c \in TableDevice : table_rec'[c].clock[1] <= table_counter'[c]
  BY <1>1, RowsLoad
<1>3. /\ n \in TableKnown \cup {T!Unset} \/ (n.deleted /\ n.v = T!NoRow)
      /\ ~T!Later(T!Stored(d).clock, n.clock)
  BY LoadedKnown
<1> HIDE DEF n
<1>4. /\ \/ T!Stored(d)' \in TableKnown \cup {T!Unset}
         \/ T!Stored(d)'.deleted /\ T!Stored(d)'.v = T!NoRow
      /\ n # T!Unset => T!Stored(d)'.clock = n.clock
      /\ n = T!Unset => T!Stored(d)' = T!Stored(d) /\ table_row'[d] = table_row[d]
      /\ \A c \in TableDevice \ {d} : /\ T!Stored(c)' = T!Stored(c)
                                      /\ table_row'[c] = table_row[c]
  BY <1>1, <1>2, <1>3, AppliedStored
<1>5. \A r \in TableKnown' : r \in TableKnown \/ (r.deleted /\ r.v = T!NoRow)
  BY <1>1, <1>2, <1>3, <1>4 DEF TableKnown
<1>6. ASSUME NEW c \in TableDevice PROVE SyncFits(c)'
  <2>1. CASE c = d
    <3>1. CASE n # T!Unset
      <4>1. n.clock \in TableClock
        BY <1>2 DEF TableRecord
      <4>2. T!Stored(d)'.clock = n.clock /\ table_rec'[d].clock = n.clock
        BY <1>2, <1>4, <3>1
      <4> QED  BY <2>1, <4>1, <4>2, TableClocks DEF SyncFits
    <3>2. CASE n = T!Unset
      <4>1. T!Stored(d)' = T!Stored(d) /\ table_rec'[d] = n
        BY <1>2, <1>4, <3>2
      <4> QED  BY <1>3, <2>1, <4>1 DEF SyncFits
    <3> QED  BY <3>1, <3>2
  <2>2. CASE c # d
    <3>1. table_rec[c].clock \in TableClock /\ ~T!Later(table_rec[c].clock, table_rec[c].clock)
      BY StoredRow, TableClocks DEF TableRecord
    <3>2. SyncFits(c)
      BY DEF RowsFit
    <3> QED  BY <1>1, <1>2, <1>4, <2>2, <3>1, <3>2, SyncKept
  <2> QED  BY <2>1, <2>2
<1>7. RowsFit'
  BY <1>1, <1>2, <1>5, <1>6, RowsMove
<1>8. ASSUME NEW c \in TableDevice, table_row[c] # T!NoRow
      PROVE  table_row'[c] \notin table_past[table_row[c]] \ {T!NoRow}
  <2>1. CASE c = d
    <3>1. T!RowOf(d, n) \notin table_past[table_row[d]] \ {T!NoRow}
      BY <1>3, <1>8, <2>1, RowForward
    <3>2. table_row'[d] = T!RowOf(d, n)
      BY <1>1 DEF T!Write, RowsInv, TableInv
    <3> QED  BY <2>1, <3>1, <3>2
  <2>2. CASE c # d
    BY <1>4, <1>8, <2>2, RowStays
  <2> QED  BY <2>1, <2>2
<1> QED  BY <1>7, <1>8 DEF RowsNotBack

LEMMA RowsUnchanged ==
  ASSUME RowsInv, RowsFit, table_row' = table_row
  PROVE  RowsNotBack
BY RowStays DEF RowsNotBack

LEMMA RowsSync ==
  ASSUME RowsInv, RowsFit, NEW d \in TableDevice, T!Sync(d)
  PROVE  RowsFit' /\ RowsNotBack
<1> DEFINE n == T!Loaded(d)
<1>1. /\ T!Load(d) /\ table_row' = table_row /\ table_meta' = table_meta
      /\ table_air' = table_air /\ table_syncing' = table_syncing \cup {d}
      /\ table_past' = table_past
  BY DEF T!Sync
<1>2. /\ table_rec'[d] = n /\ TableRecord(n)
      /\ \A c \in TableDevice \ {d} : table_rec'[c] = table_rec[c]
      /\ \A c \in TableDevice : table_rec'[c].clock[1] <= table_counter'[c]
  BY <1>1, RowsLoad
<1>3. /\ n \in TableKnown \cup {T!Unset} \/ (n.deleted /\ n.v = T!NoRow)
      /\ ~T!Later(T!Stored(d).clock, n.clock)
  BY LoadedKnown
<1> HIDE DEF n
<1>4. \A c \in TableDevice : T!Stored(c)' = T!Stored(c)
  BY <1>1 DEF T!Stored
<1>5. \A r \in TableKnown' : r \in TableKnown \/ (r.deleted /\ r.v = T!NoRow)
  BY <1>1, <1>2, <1>3, <1>4 DEF TableKnown
<1>6. ASSUME NEW c \in TableDevice PROVE SyncFits(c)'
  <2>1. CASE c = d
    BY <1>2, <1>3, <1>4, <2>1 DEF SyncFits
  <2>2. CASE c # d
    <3>1. table_rec[c].clock \in TableClock /\ ~T!Later(table_rec[c].clock, table_rec[c].clock)
      BY StoredRow, TableClocks DEF TableRecord
    <3>2. SyncFits(c)
      BY DEF RowsFit
    <3> QED  BY <1>1, <1>2, <1>4, <2>2, <3>1, <3>2, SyncKept
  <2> QED  BY <2>1, <2>2
<1> QED  BY <1>1, <1>2, <1>5, <1>6, RowsMove, RowsUnchanged

LEMMA RowsApply ==
  ASSUME RowsInv, RowsFit, NEW d \in TableDevice, T!Apply(d)
  PROVE  RowsFit' /\ RowsNotBack
<1> DEFINE n == table_rec[d]
<1>1. /\ d \in table_syncing /\ table_syncing' = table_syncing \ {d}
      /\ T!Write(d, n) \/ (table_row' = table_row /\ table_meta' = table_meta)
      /\ table_rec' = table_rec /\ table_counter' = table_counter
      /\ table_air' = table_air /\ table_past' = table_past
  BY DEF T!Apply
<1>2. TableRecord(n) /\ n \in TableKnown \cup {T!Unset}
  BY StoredRow
<1>3. SyncFits(d)
  BY DEF RowsFit
<1>4. /\ \/ T!Stored(d)' \in TableKnown \cup {T!Unset}
         \/ T!Stored(d)'.deleted /\ T!Stored(d)'.v = T!NoRow
      /\ \A c \in TableDevice \ {d} : /\ T!Stored(c)' = T!Stored(c)
                                      /\ table_row'[c] = table_row[c]
  <2>1. CASE T!Write(d, n)
    BY <1>2, <2>1, AppliedStored
  <2>2. CASE table_row' = table_row /\ table_meta' = table_meta
    <3>1. \A c \in TableDevice : T!Stored(c)' = T!Stored(c)
      BY <2>2 DEF T!Stored
    <3> QED  BY <2>2, <3>1, StoredRow
  <2> QED  BY <1>1, <2>1, <2>2
<1>5. \A r \in TableKnown' : r \in TableKnown \/ (r.deleted /\ r.v = T!NoRow)
  BY <1>1, <1>4 DEF TableKnown
<1>6. ASSUME NEW c \in TableDevice PROVE SyncFits(c)'
  <2>1. CASE c = d
    BY <1>1, <2>1 DEF SyncFits
  <2>2. CASE c # d
    <3>1. table_rec[c].clock \in TableClock /\ ~T!Later(table_rec[c].clock, table_rec[c].clock)
      BY StoredRow, TableClocks DEF TableRecord
    <3>2. SyncFits(c)
      BY DEF RowsFit
    <3> QED  BY <1>1, <1>4, <2>2, <3>1, <3>2, SyncKept
  <2> QED  BY <2>1, <2>2
<1>7. RowsFit'
  BY <1>1, <1>5, <1>6, RowsMove DEF RowsFit
<1>8. ASSUME NEW c \in TableDevice, table_row[c] # T!NoRow, T!Write(d, n)
      PROVE  table_row'[c] \notin table_past[table_row[c]] \ {T!NoRow}
  <2>1. CASE c = d /\ table_past[table_row[d]] \subseteq {T!NoRow}
    BY <2>1
  <2>2. CASE c = d /\ ~T!Later(T!Stored(d).clock, n.clock)
    <3>1. T!RowOf(d, n) \notin table_past[table_row[d]] \ {T!NoRow}
      BY <1>2, <1>8, <2>2, RowForward
    <3>2. table_row'[d] = T!RowOf(d, n)
      BY <1>8 DEF T!Write, RowsInv, TableInv
    <3> QED  BY <2>2, <3>1, <3>2
  <2>3. CASE c # d
    BY <1>4, <1>8, <2>3, RowStays
  <2> QED  BY <1>1, <1>3, <1>8, <2>1, <2>2, <2>3 DEF SyncFits
<1>9. RowsNotBack
  BY <1>1, <1>8, RowsUnchanged DEF RowsNotBack
<1> QED  BY <1>7, <1>9

LEMMA RowsForget ==
  ASSUME RowsInv, RowsFit, NEW d \in TableDevice, T!Forget(d)
  PROVE  RowsFit' /\ RowsNotBack
<1>1. /\ table_rec' = [table_rec EXCEPT ![d] = T!Unset]
      /\ table_counter' = [table_counter EXCEPT ![d] = 0]
      /\ table_syncing' = table_syncing \ {d} /\ table_air' \subseteq table_air
      /\ table_row' = table_row /\ table_meta' = table_meta /\ table_past' = table_past
  BY DEF T!Forget
<1>2. /\ table_rec'[d] = T!Unset /\ table_counter'[d] = 0
      /\ \A c \in TableDevice \ {d} :
           table_rec'[c] = table_rec[c] /\ table_counter'[c] = table_counter[c]
  BY <1>1 DEF RowsInv, TableInv
<1>3. \A c \in TableDevice : T!Stored(c)' = T!Stored(c)
  BY <1>1 DEF T!Stored
<1>4. \A r \in TableKnown' : r \in TableKnown \/ (r.deleted /\ r.v = T!NoRow)
  BY <1>1, <1>2, <1>3 DEF TableKnown
<1>5. \A c \in TableDevice : table_rec'[c].clock[1] <= table_counter'[c]
  BY <1>2 DEF RowsFit, T!Unset, T!NoClock
<1>6. ASSUME NEW c \in TableDevice PROVE SyncFits(c)'
  <2>1. CASE c = d
    BY <1>1, <2>1 DEF SyncFits
  <2>2. CASE c # d
    <3>1. table_rec[c].clock \in TableClock /\ ~T!Later(table_rec[c].clock, table_rec[c].clock)
      BY StoredRow, TableClocks DEF TableRecord
    <3>2. SyncFits(c)
      BY DEF RowsFit
    <3> QED  BY <1>1, <1>2, <1>3, <2>2, <3>1, <3>2, SyncKept
  <2> QED  BY <2>1, <2>2
<1> QED  BY <1>1, <1>4, <1>5, <1>6, RowsMove, RowsUnchanged

LEMMA RowsSend ==
  ASSUME RowsInv, RowsFit, NEW d \in TableDevice, NEW e \in TableDevice, T!Send(d, e)
  PROVE  RowsFit' /\ RowsNotBack
<1>1. /\ table_rec[d] # T!Unset
      /\ table_air' \subseteq table_air \cup {[from |-> d, to |-> e, rec |-> table_rec[d]]}
      /\ table_row' = table_row /\ table_meta' = table_meta /\ table_rec' = table_rec
      /\ table_counter' = table_counter /\ table_syncing' = table_syncing
      /\ table_past' = table_past
  BY DEF T!Send
<1>2. \A c \in TableDevice : T!Stored(c)' = T!Stored(c)
  BY <1>1 DEF T!Stored
<1>3. \A r \in TableKnown' : r \in TableKnown
  BY <1>1, <1>2 DEF TableKnown
<1>4. \A c \in TableDevice : SyncFits(c)'
  BY <1>1, <1>2 DEF RowsFit, SyncFits
<1> QED  BY <1>1, <1>3, <1>4, RowsMove, RowsUnchanged DEF RowsFit

LEMMA RowsDeliver ==
  ASSUME RowsInv, RowsFit, NEW b \in table_air, T!Deliver(b)
  PROVE  RowsFit' /\ RowsNotBack
<1> DEFINE d == b.to
           n == T!Merged(table_rec[d], b.rec)
<1>1. /\ table_rec' = [table_rec EXCEPT ![d] = n]
      /\ table_counter' = [table_counter EXCEPT ![d] = T!Follow(table_counter[d], b.rec)]
      /\ table_air' \subseteq table_air /\ table_row' = table_row
      /\ table_meta' = table_meta /\ table_syncing' = table_syncing
      /\ table_past' = table_past
  BY DEF T!Deliver
<1>2. d \in TableDevice /\ TableRecord(b.rec) /\ b.rec # T!Unset /\ b.rec \in TableKnown
  BY DEF RowsInv, TableInv, TableKnown
<1>3. TableRecord(table_rec[d]) /\ table_rec[d] \in TableKnown \cup {T!Unset}
      /\ table_counter[d] \in Nat /\ table_rec[d].clock[1] <= table_counter[d]
  BY <1>2, StoredRow DEF RowsInv, TableInv, RowsFit
<1>4. n \in {table_rec[d], b.rec} /\ ~T!Later(table_rec[d].clock, n.clock)
  BY <1>2, <1>3, MergedKnown
<1> HIDE DEF n, d
<1>5. /\ table_rec'[d] = n /\ table_counter'[d] = T!Follow(table_counter[d], b.rec)
      /\ \A c \in TableDevice \ {d} :
           table_rec'[c] = table_rec[c] /\ table_counter'[c] = table_counter[c]
  BY <1>1, <1>2 DEF RowsInv, TableInv
<1>6. \A c \in TableDevice : T!Stored(c)' = T!Stored(c)
  BY <1>1 DEF T!Stored
<1>7. \A r \in TableKnown' : r \in TableKnown
  BY <1>1, <1>2, <1>3, <1>4, <1>5, <1>6 DEF TableKnown
<1>8. ASSUME NEW c \in TableDevice PROVE table_rec'[c].clock[1] <= table_counter'[c]
  <2>1. CASE c = d
    BY <1>2, <1>3, <1>4, <1>5, <2>1 DEF T!Follow, TableRecord, TableClock
  <2>2. CASE c # d
    BY <1>5, <2>2 DEF RowsFit
  <2> QED  BY <2>1, <2>2
<1>9. ASSUME NEW c \in TableDevice PROVE SyncFits(c)'
  <2>1. SyncFits(c)
    BY DEF RowsFit
  <2>2. CASE c = d
    <3>1. n.clock \in TableClock
      BY <1>2, <1>3, <1>4 DEF TableRecord
    <3> QED  BY <1>1, <1>4, <1>5, <1>6, <2>1, <2>2, <3>1, SyncKept
  <2>3. CASE c # d
    <3>1. table_rec[c].clock \in TableClock /\ ~T!Later(table_rec[c].clock, table_rec[c].clock)
      BY StoredRow, TableClocks DEF TableRecord
    <3> QED  BY <1>1, <1>5, <1>6, <2>1, <2>3, <3>1, SyncKept
  <2> QED  BY <2>2, <2>3
<1> QED  BY <1>1, <1>7, <1>8, <1>9, RowsMove, RowsUnchanged

-----------------------------------------------------------------------------
(* Mapped tables without such edits: the invariant is inductive *)

LEMMA RowsInit ==
  ASSUME T!Init
  PROVE  RowsInv
<1>1. /\ table_row = [d \in TableDevice |-> T!NoRow]
      /\ table_meta = [d \in TableDevice |-> T!NoMeta]
      /\ table_rec = [d \in TableDevice |-> T!Unset]
      /\ table_counter = [d \in TableDevice |-> 0]
      /\ table_air = {} /\ table_syncing = {}
      /\ table_past = [e \in {T!NoRow, T!Null} |-> {}]
  BY DEF T!Init
<1>2. \A d \in TableDevice : T!Stored(d) = T!Unset
  BY <1>1 DEF T!Stored
<1>3. TableKnown = {}
  BY <1>1, <1>2 DEF TableKnown
<1>4. T!Edits = {-1, 0} /\ T!NoRow = -1 /\ T!Null = 0
  BY <1>1 DEF T!Edits, T!NoRow, T!Null
<1>5. T!Cardinality(T!Edits) = 2
  <2>1. IsFiniteSet({0}) /\ Cardinality({0}) = 1
    BY FS_Singleton
  <2>2. Cardinality({0} \cup {-1}) = 2
    BY <2>1, FS_AddElement
  <2>3. {0} \cup {-1} = {-1, 0}
    OBVIOUS
  <2>4. Cardinality(T!Edits) = 2
    BY <1>4, <2>2, <2>3
  <2> QED  BY <2>4 DEF T!Cardinality, Cardinality
<1>6. IsFiniteSet(T!Edits)
  <2>1. IsFiniteSet({0})
    BY FS_Singleton
  <2>2. IsFiniteSet({0} \cup {-1})
    BY <2>1, FS_AddElement
  <2>3. {0} \cup {-1} = {-1, 0}
    OBVIOUS
  <2> QED  BY <1>4, <2>2, <2>3
<1>7. \A e \in {-1, 0} : e < 2 /\ table_past[e] = {}
  BY <1>1, <1>4
<1>8. EditsFit
  BY <1>4, <1>5, <1>6, <1>7 DEF EditsFit
<1>9. \A d \in TableDevice : table_rec[d].clock[1] <= table_counter[d]
  BY <1>1 DEF T!Unset, T!NoClock
<1>10. \A d \in TableDevice : SyncFits(d)
  BY <1>1 DEF SyncFits
<1>11. TableInv
  BY TableInit
<1> QED  BY <1>1, <1>3, <1>8, <1>9, <1>10, <1>11 DEF RowsInv, RowsFit

\* What a step does while no known row is edited.
LEMMA RowsNext ==
  ASSUME T!MappedTableAssumption, RowsInv, RowsFit, ~table_scope.again,
         [T!Next]_(T!vars)
  PROVE  RowsFit' /\ RowsNotBack
<1>1. ASSUME NEW d \in TableDevice, T!Change(d)
      PROVE  RowsFit' /\ RowsNotBack
  BY <1>1, RowsChange, RowStays DEF RowsNotBack
<1>2. ASSUME NEW d \in TableDevice, NEW deleted \in BOOLEAN, T!Set(d, deleted)
      PROVE  RowsFit' /\ RowsNotBack
  <2>1. d \in Int
    BY DEF T!MappedTableAssumption
  <2> QED  BY <1>2, <2>1, RowsSet, RowsUnchanged
<1>3. CASE UNCHANGED T!vars
  <2>1. /\ table_row' = table_row /\ table_meta' = table_meta /\ table_rec' = table_rec
        /\ table_counter' = table_counter /\ table_air' = table_air
        /\ table_syncing' = table_syncing /\ table_past' = table_past
    BY <1>3 DEF T!vars
  <2>2. \A d \in TableDevice : T!Stored(d)' = T!Stored(d)
    BY <2>1 DEF T!Stored
  <2>3. \A r \in TableKnown' : r \in TableKnown
    BY <2>1, <2>2 DEF TableKnown
  <2>4. \A d \in TableDevice : SyncFits(d)'
    BY <2>1, <2>2 DEF RowsFit, SyncFits
  <2> QED  BY <2>1, <2>3, <2>4, RowsMove, RowsUnchanged DEF RowsFit
<1> QED  BY <1>1, <1>2, <1>3, RowsTick, RowsSync, RowsApply, RowsForget, RowsSend,
            RowsDeliver DEF T!Next

LEMMA RowsStep ==
  ASSUME T!MappedTableAssumption, RowsInv, [T!Next]_(T!vars)
  PROVE  RowsInv' /\ (table_scope.again \/ RowsNotBack)
<1>1. TableInv'
  BY TableStep DEF RowsInv
<1>2. table_scope' = table_scope
  BY DEF T!Next, T!vars, T!Change, T!Set, T!Tick, T!Sync, T!Apply, T!Forget, T!Send,
         T!Deliver
<1>3. table_row' = table_row \/ \E d \in TableDevice : \E v : table_row' = [table_row EXCEPT ![d] = v]
  <2>1. ASSUME NEW d \in TableDevice, T!Change(d)
        PROVE  \E v : table_row' = [table_row EXCEPT ![d] = v]
    BY <2>1 DEF T!Change
  <2>2. ASSUME NEW d \in TableDevice, T!Tick(d)
        PROVE  \E v : table_row' = [table_row EXCEPT ![d] = v]
    BY <2>2 DEF T!Tick, T!Write
  <2>3. ASSUME NEW d \in TableDevice, T!Apply(d)
        PROVE  table_row' = table_row \/ \E v : table_row' = [table_row EXCEPT ![d] = v]
    BY <2>3 DEF T!Apply, T!Write
  <2>4. ASSUME NEW d \in TableDevice, NEW e \in TableDevice, NEW deleted \in BOOLEAN,
               T!Sync(d) \/ T!Forget(d) \/ T!Set(d, deleted) \/ T!Send(d, e)
        PROVE  table_row' = table_row
    BY <2>4 DEF T!Sync, T!Forget, T!Set, T!Send
  <2>5. ASSUME NEW b \in table_air, T!Deliver(b)
        PROVE  table_row' = table_row
    BY <2>5 DEF T!Deliver
  <2>6. CASE UNCHANGED T!vars
    BY <2>6 DEF T!vars
  <2> QED  BY <2>1, <2>2, <2>3, <2>4, <2>5, <2>6 DEF T!Next
<1>4. table_row' = [d \in TableDevice |-> table_row'[d]]
  BY <1>3 DEF RowsInv
<1>5. (RowsFit' /\ RowsNotBack) \/ table_scope.again
  BY RowsNext DEF RowsInv
<1> QED  BY <1>1, <1>2, <1>4, <1>5 DEF RowsInv

-----------------------------------------------------------------------------
(* SQLite files: page deltas *)

Version == Seq(Nat)

LEMMA PagesOf ==
  ASSUME NEW n \in Nat, NEW f \in [1 .. n -> Nat]
  PROVE  f \in Version /\ Len(f) = n
BY DEF Version

LEMMA VersionsEqual ==
  ASSUME NEW x \in Version, NEW y, y = [i \in 1 .. Len(x) |-> x[i]]
  PROVE  x = y
BY DEF Version

\* The delta applied to the file it was computed from is the file it describes.
LEMMA DeltaApplies ==
  ASSUME NEW b \in Version, NEW c \in Version
  PROVE  Q!Patched(b, Q!PageDelta(b, c)) = c
<1> DEFINE D == {j \in 1 .. Len(c) : j > Len(b) \/ b[j] # c[j]}
           delta == Q!PageDelta(b, c)
<1>1. /\ delta.size = Len(c) /\ delta.pages = [i \in D |-> c[i]]
      /\ DOMAIN delta.pages = D
  BY DEF Q!PageDelta
<1>2. \A i \in 1 .. Len(c) :
        (IF i \in D THEN delta.pages[i] ELSE IF i <= Len(b) THEN b[i] ELSE 0) = c[i]
  BY <1>1 DEF Version
<1>3. Q!Patched(b, delta) =
        [i \in 1 .. Len(c) |->
           IF i \in D THEN delta.pages[i] ELSE IF i <= Len(b) THEN b[i] ELSE 0]
  BY <1>1 DEF Q!Patched
<1>4. Q!Patched(b, delta) = [i \in 1 .. Len(c) |-> c[i]]
  BY <1>2, <1>3
<1> QED  BY <1>4, VersionsEqual

\* A file has no delta to itself, and a delta with pages is not the empty one.
LEMMA DeltaIsThere ==
  ASSUME NEW b \in Version, NEW c \in Version
  PROVE  /\ b = c => DOMAIN Q!PageDelta(b, c).pages = {}
         /\ DOMAIN Q!PageDelta(b, c).pages # {} => Q!PageDelta(b, c) # Q!NoDelta
         /\ Q!PageDelta(b, c).size = Len(c)
<1> DEFINE D == {j \in 1 .. Len(c) : j > Len(b) \/ b[j] # c[j]}
<1>1. Q!PageDelta(b, c).pages = [i \in D |-> c[i]]
      /\ DOMAIN Q!PageDelta(b, c).pages = D /\ Q!PageDelta(b, c).size = Len(c)
  BY DEF Q!PageDelta
<1>2. DOMAIN b = 1 .. Len(b) /\ DOMAIN c = 1 .. Len(c) /\ Len(b) \in Nat /\ Len(c) \in Nat
  BY DEF Version
<1>3. b = c => D = {}
  BY <1>2
<1>5. Q!NoDelta.pages = <<>>
  BY DEF Q!NoDelta
<1>6. DOMAIN <<>> = {}
  OBVIOUS
<1> QED  BY <1>1, <1>3, <1>5, <1>6

\* A version with a page that is later than all of the file has one.
LEMMA DeltaOfLater ==
  ASSUME NEW b \in Version, NEW c \in Version, NEW m \in Nat, NEW n \in Nat, m < n,
         \A q \in DOMAIN b : b[q] <= m - 1, NEW p \in DOMAIN c, c[p] = n - 1
  PROVE  DOMAIN Q!PageDelta(b, c).pages # {}
<1>1. \A q \in DOMAIN b : b[q] \in Nat
  BY DEF Version
<1>2. \A q \in DOMAIN b : b[q] # c[p]
  BY <1>1
<1>3. DOMAIN b = 1 .. Len(b) /\ DOMAIN c = 1 .. Len(c) /\ Len(b) \in Nat /\ Len(c) \in Nat
  BY DEF Version
<1>4. p \in {j \in 1 .. Len(c) : j > Len(b) \/ b[j] # c[j]}
  BY <1>2, <1>3
<1> QED  BY <1>4 DEF Q!PageDelta

-----------------------------------------------------------------------------
(* SQLite files: the inductive invariant *)

DbClock == Nat \X Nat
DbKey == {"base", "delta", "wal"}

\* An entry, and a state of three of them; clocks are drawn from its counter.
EntryShape(e, n) == e.clock \in DbClock /\ e.clock[1] <= n
                    /\ e = [clock |-> e.clock, value |-> e.value]
StateShape(x) ==
  /\ x.counter \in Nat
  /\ x = [base |-> x.base, delta |-> x.delta, wal |-> x.wal, counter |-> x.counter]
  /\ EntryShape(x.base, x.counter) /\ EntryShape(x.delta, x.counter)
  /\ EntryShape(x.wal, x.counter)

\* A version has a page that no earlier one has.
SavedFit ==
  /\ sqlite_saved \in Seq(Version) /\ Len(sqlite_saved) > 0
  /\ \A m \in 1 .. Len(sqlite_saved) :
       /\ \A i \in DOMAIN sqlite_saved[m] : sqlite_saved[m][i] <= m - 1
       /\ \E i \in DOMAIN sqlite_saved[m] : sqlite_saved[m][i] = m - 1
Saved == 1 .. Len(sqlite_saved)

\* The log is that of the file it is beside, up to a later version.
LogFits(j, log) ==
  log = Q!NoDelta \/ \E k \in Saved : j <= k /\ Q!Patched(sqlite_saved[j], log) = sqlite_saved[k]

\* Main file, delta and log of a state are parts of one version.
PartsFit(x, i, j) ==
  /\ i <= j /\ x.base.value = sqlite_saved[i] /\ Q!Bytes(x) = sqlite_saved[j]
  /\ x.delta.value = Q!NoDelta
     \/ /\ x.delta.value = Q!PageDelta(sqlite_saved[i], sqlite_saved[j])
        /\ DOMAIN x.delta.value.pages # {}
        /\ Q!Shorter(x.delta.value, sqlite_saved[j])
Whole(x) == \E i, j \in Saved : PartsFit(x, i, j) /\ LogFits(j, x.wal.value)

-----------------------------------------------------------------------------
(* SQLite files: what the adapter makes of a file *)

\* What the application has written is in n, under later clocks; the rest is as in x.
VersionOn(x, n) ==
  /\ n.counter >= x.counter
  /\ n.base = x.base \/ n.base.clock[1] > x.counter
  /\ n.delta = x.delta \/ n.delta.clock[1] > x.counter
  /\ n.wal = x.wal \/ n.wal.clock[1] > x.counter

LEMMA StoredBase ==
  ASSUME NEW d \in Nat, NEW x, StateShape(x), NEW v
  PROVE  LET n == Q!Stored(d, x, "base", v) IN
         /\ StateShape(n) /\ VersionOn(x, n) /\ n.base.value = v
         /\ n.delta = x.delta /\ n.wal = x.wal
<1>1. CASE x.base.value = v
  <2>1. Q!Stored(d, x, "base", v) = x
    BY <1>1 DEF Q!Stored
  <2>2. VersionOn(x, x)
    BY DEF VersionOn, StateShape
  <2> QED  BY <1>1, <2>1, <2>2
<1>2. CASE x.base.value # v
  <2>1. Q!Stored(d, x, "base", v) =
          [base |-> [clock |-> <<x.counter + 1, d>>, value |-> v],
           delta |-> x.delta, wal |-> x.wal, counter |-> x.counter + 1]
    BY <1>2 DEF Q!Stored, StateShape
  <2> QED  BY <2>1 DEF VersionOn, StateShape, EntryShape, DbClock
<1> QED  BY <1>1, <1>2

LEMMA StoredDelta ==
  ASSUME NEW d \in Nat, NEW x, StateShape(x), NEW v
  PROVE  LET n == Q!Stored(d, x, "delta", v) IN
         /\ StateShape(n) /\ VersionOn(x, n) /\ n.delta.value = v
         /\ n.base = x.base /\ n.wal = x.wal
         /\ x.delta.value = v => n = x
<1>1. CASE x.delta.value = v
  <2>1. Q!Stored(d, x, "delta", v) = x
    BY <1>1 DEF Q!Stored
  <2>2. VersionOn(x, x)
    BY DEF VersionOn, StateShape
  <2> QED  BY <1>1, <2>1, <2>2
<1>2. CASE x.delta.value # v
  <2>1. Q!Stored(d, x, "delta", v) =
          [delta |-> [clock |-> <<x.counter + 1, d>>, value |-> v],
           base |-> x.base, wal |-> x.wal, counter |-> x.counter + 1]
    BY <1>2 DEF Q!Stored, StateShape
  <2> QED  BY <1>2, <2>1 DEF VersionOn, StateShape, EntryShape, DbClock
<1> QED  BY <1>1, <1>2

LEMMA StoredLog ==
  ASSUME NEW d \in Nat, NEW x, StateShape(x), NEW v
  PROVE  LET n == Q!Stored(d, x, "wal", v) IN
         /\ StateShape(n) /\ VersionOn(x, n) /\ n.wal.value = v
         /\ n.base = x.base /\ n.delta = x.delta
         /\ x.wal.value = v => n = x
<1>1. CASE x.wal.value = v
  <2>1. Q!Stored(d, x, "wal", v) = x
    BY <1>1 DEF Q!Stored
  <2>2. VersionOn(x, x)
    BY DEF VersionOn, StateShape
  <2> QED  BY <1>1, <2>1, <2>2
<1>2. CASE x.wal.value # v
  <2>1. Q!Stored(d, x, "wal", v) =
          [wal |-> [clock |-> <<x.counter + 1, d>>, value |-> v],
           base |-> x.base, delta |-> x.delta, counter |-> x.counter + 1]
    BY <1>2 DEF Q!Stored, StateShape
  <2> QED  BY <1>2, <2>1 DEF VersionOn, StateShape, EntryShape, DbClock
<1> QED  BY <1>1, <1>2

LEMMA OnwardsOn ==
  ASSUME NEW x, StateShape(x), NEW m, StateShape(m), NEW n, StateShape(n),
         VersionOn(x, m), VersionOn(m, n)
  PROVE  VersionOn(x, n)
BY DEF VersionOn, StateShape, EntryShape, DbClock

\* A version differs from an earlier one by a page.
LEMMA VersionsDiffer ==
  ASSUME SavedFit, NEW i \in Saved, NEW j \in Saved
  PROVE  /\ sqlite_saved[i] \in Version /\ sqlite_saved[j] \in Version
         /\ i < j => DOMAIN Q!PageDelta(sqlite_saved[i], sqlite_saved[j]).pages # {}
<1>1. sqlite_saved[i] \in Version /\ sqlite_saved[j] \in Version
  BY DEF SavedFit, Saved
<1>2. ASSUME i < j
      PROVE  DOMAIN Q!PageDelta(sqlite_saved[i], sqlite_saved[j]).pages # {}
  <2>1. PICK p \in DOMAIN sqlite_saved[j] : sqlite_saved[j][p] = j - 1
    BY DEF SavedFit, Saved
  <2>2. \A q \in DOMAIN sqlite_saved[i] : sqlite_saved[i][q] <= i - 1
    BY DEF SavedFit, Saved
  <2>3. i \in Nat /\ j \in Nat
    BY DEF Saved
  <2> QED  BY <1>1, <1>2, <2>1, <2>2, <2>3, DeltaOfLater
<1> QED  BY <1>1, <1>2

\* A version at least as late as the main file is stored whole, without touching
\* the log.
LEMMA UpdateFits ==
  ASSUME SavedFit, NEW d \in Nat, NEW x, StateShape(x),
         NEW i \in Saved, NEW f \in Saved, i <= f, x.base.value = sqlite_saved[i]
  PROVE  LET n == Q!Update(d, x, sqlite_saved[f]) IN
         /\ StateShape(n) /\ VersionOn(x, n) /\ n.wal = x.wal
         /\ \E h \in Saved : PartsFit(n, h, f)
<1> DEFINE b == sqlite_saved[i]
           c == sqlite_saved[f]
           delta == Q!PageDelta(b, c)
           n == Q!Update(d, x, c)
<1>1. b \in Version /\ c \in Version /\ (i < f => DOMAIN delta.pages # {})
  BY VersionsDiffer
<1>2. i \in Nat /\ f \in Nat
  BY DEF Saved
<1>3. CASE DOMAIN delta.pages = {}
  <2>1. i = f
    BY <1>1, <1>2, <1>3
  <2>2. n = Q!Stored(d, x, "delta", Q!NoDelta)
    BY <1>3 DEF Q!Update
  <2>3. n.base = x.base /\ n.delta.value = Q!NoDelta
    BY <2>2, StoredDelta
  <2>4. PartsFit(n, i, f)
    BY <1>2, <2>1, <2>3 DEF PartsFit, Q!Bytes
  <2> QED  BY <2>2, <2>4, StoredDelta
<1>4. CASE DOMAIN delta.pages # {} /\ Q!Shorter(delta, c)
  <2>1. n = Q!Stored(d, x, "delta", delta)
    BY <1>4 DEF Q!Update
  <2>2. n.base = x.base /\ n.delta.value = delta
    BY <2>1, StoredDelta
  <2>3. delta # Q!NoDelta /\ Q!Patched(b, delta) = c
    BY <1>1, <1>4, DeltaIsThere, DeltaApplies
  <2>4. PartsFit(n, i, f)
    BY <1>4, <2>2, <2>3 DEF PartsFit, Q!Bytes
  <2> QED  BY <2>1, <2>4, StoredDelta
<1>5. CASE DOMAIN delta.pages # {} /\ ~Q!Shorter(delta, c)
  <2> DEFINE m == Q!Stored(d, x, "base", c)
  <2>1. n = Q!Stored(d, m, "delta", Q!NoDelta)
    BY <1>5 DEF Q!Update
  <2>2. StateShape(m) /\ VersionOn(x, m) /\ m.base.value = c /\ m.wal = x.wal
    BY StoredBase
  <2>3. /\ StateShape(n) /\ VersionOn(m, n) /\ n.delta.value = Q!NoDelta
        /\ n.base = m.base /\ n.wal = m.wal
    BY <2>1, <2>2, StoredDelta
  <2>4. PartsFit(n, f, f)
    BY <1>2, <2>2, <2>3 DEF PartsFit, Q!Bytes
  <2>5. VersionOn(x, n)
    BY <2>2, <2>3, OnwardsOn
  <2> QED  BY <2>2, <2>3, <2>4, <2>5
<1> QED  BY <1>3, <1>4, <1>5

\* A file as the state describes it changes nothing.
LEMMA UpdateKeeps ==
  ASSUME SavedFit, NEW d \in Nat, NEW x, StateShape(x), Whole(x)
  PROVE  Q!Update(d, x, Q!Bytes(x)) = x
<1>1. PICK i \in Saved, j \in Saved : PartsFit(x, i, j)
  BY DEF Whole
<1> DEFINE b == sqlite_saved[i]
           c == sqlite_saved[j]
           delta == Q!PageDelta(x.base.value, Q!Bytes(x))
<1>2. b \in Version /\ c \in Version
  BY VersionsDiffer
<1>3. CASE x.delta.value = Q!NoDelta
  <2>1. Q!Bytes(x) = b /\ x.base.value = b
    BY <1>1, <1>3 DEF Q!Bytes, PartsFit
  <2>2. DOMAIN delta.pages = {}
    BY <1>2, <2>1, DeltaIsThere
  <2>3. Q!Update(d, x, Q!Bytes(x)) = Q!Stored(d, x, "delta", Q!NoDelta)
    BY <2>2 DEF Q!Update
  <2> QED  BY <1>3, <2>3, StoredDelta
<1>4. CASE x.delta.value # Q!NoDelta
  <2>1. /\ delta = x.delta.value /\ DOMAIN delta.pages # {}
        /\ Q!Shorter(delta, Q!Bytes(x))
    BY <1>1, <1>4 DEF PartsFit
  <2>2. Q!Update(d, x, Q!Bytes(x)) = Q!Stored(d, x, "delta", x.delta.value)
    BY <2>1 DEF Q!Update
  <2> QED  BY <2>2, StoredDelta
<1> QED  BY <1>3, <1>4

\* A load of such a file and the log beside it.
LEMMA LoadFits ==
  ASSUME SavedFit, NEW d \in Nat, NEW x, StateShape(x), NEW log,
         NEW i \in Saved, NEW f \in Saved, i <= f, x.base.value = sqlite_saved[i],
         LogFits(f, log)
  PROVE  LET n == Q!Stored(d, Q!Update(d, x, sqlite_saved[f]), "wal", log) IN
         /\ StateShape(n) /\ VersionOn(x, n) /\ Whole(n) /\ n.wal.value = log
         /\ \E h \in Saved : h <= f /\ n.base.value = sqlite_saved[h]
<1> DEFINE m == Q!Update(d, x, sqlite_saved[f])
           n == Q!Stored(d, m, "wal", log)
<1>1. StateShape(m) /\ VersionOn(x, m)
  BY UpdateFits
<1>2. PICK h \in Saved : PartsFit(m, h, f)
  BY UpdateFits
<1> HIDE DEF m
<1>3. /\ StateShape(n) /\ VersionOn(m, n) /\ n.wal.value = log
      /\ n.base = m.base /\ n.delta = m.delta
  BY <1>1, StoredLog
<1> HIDE DEF n
<1>4. PartsFit(n, h, f)
  BY <1>2, <1>3 DEF PartsFit, Q!Bytes
<1>5. Whole(n) /\ h <= f /\ n.base.value = sqlite_saved[h]
  BY <1>3, <1>4 DEF Whole, PartsFit
<1>6. VersionOn(x, n)
  BY <1>1, <1>3, OnwardsOn
<1> QED  BY <1>3, <1>5, <1>6 DEF n, m

LEMMA LoadKeeps ==
  ASSUME SavedFit, NEW d \in Nat, NEW x, StateShape(x), Whole(x)
  PROVE  Q!Stored(d, Q!Update(d, x, Q!Bytes(x)), "wal", x.wal.value) = x
BY UpdateKeeps, StoredLog

-----------------------------------------------------------------------------
(* SQLite files: who is ahead of whom *)

\* Nothing of x is later than what y has.
NotAfter(e, f) == e = f \/ Q!Later(f.clock, e.clock)
Upto(x, y) ==
  NotAfter(x.base, y.base) /\ NotAfter(x.delta, y.delta) /\ NotAfter(x.wal, y.wal)

Known == {sqlite_state[d] : d \in SqliteDevice} \cup {b.state : b \in sqlite_air}

StatesFit == \A x \in Known : StateShape(x) /\ Whole(x)
Ordered == \A x, y \in Known : Upto(x, y) \/ Upto(y, x)
WriterAhead ==
  \A w \in SqliteWriters, x \in Known :
    Upto(x, sqlite_state[w]) /\ x.counter <= sqlite_state[w].counter

\* The writer's file may be ahead of what its engine has loaded; the others' are
\* what their engines wrote.
WriterFits(w) ==
  \E i, f \in Saved :
    /\ i <= f /\ sqlite_state[w].base.value = sqlite_saved[i]
    /\ sqlite_file[w] = sqlite_saved[f] /\ LogFits(f, sqlite_wal[w])
ReaderFits(d) ==
  /\ sqlite_file[d] = Q!Bytes(sqlite_state[d])
  /\ sqlite_wal[d] = sqlite_state[d].wal.value

\* A database that a loop watches has no log.
NoLogs ==
  sqlite_mode # "wal" =>
    /\ \A d \in SqliteDevice : sqlite_wal[d] = Q!NoDelta
    /\ \A x \in Known : x.wal.value = Q!NoDelta

DatabaseInv ==
  /\ sqlite_file = [d \in SqliteDevice |-> sqlite_file[d]]
  /\ sqlite_wal = [d \in SqliteDevice |-> sqlite_wal[d]]
  /\ sqlite_state = [d \in SqliteDevice |-> sqlite_state[d]]
  /\ \A b \in sqlite_air : b.to \in SqliteDevice
  /\ SavedFit
  /\ StatesFit /\ Ordered /\ WriterAhead
  /\ \A w \in SqliteWriters : WriterFits(w)
  /\ \A d \in SqliteDevice \ SqliteWriters : ReaderFits(d)
  /\ sqlite_mode \in {"wal", "watched"} /\ NoLogs

OneWriter == \A d, e \in SqliteWriters : d = e

LEMMA LaterEntry ==
  ASSUME NEW e, NEW f, NEW g, NEW m \in Nat, NEW n \in Nat, NEW k \in Nat, k <= m,
         EntryShape(e, k), EntryShape(f, m), EntryShape(g, n),
         NotAfter(e, f), g = f \/ g.clock[1] > m
  PROVE  NotAfter(e, g)
BY DEF NotAfter, EntryShape, DbClock, Q!Later

LEMMA OnwardsAhead ==
  ASSUME NEW x, NEW y, NEW n, StateShape(x), StateShape(y), StateShape(n),
         Upto(x, y), x.counter <= y.counter, VersionOn(y, n)
  PROVE  Upto(x, n) /\ x.counter <= n.counter
<1>1. x.counter \in Nat /\ y.counter \in Nat /\ n.counter \in Nat
  BY DEF StateShape
<1>2. NotAfter(x.base, n.base)
  BY <1>1, LaterEntry DEF StateShape, Upto, VersionOn
<1>3. NotAfter(x.delta, n.delta)
  BY <1>1, LaterEntry DEF StateShape, Upto, VersionOn
<1>4. NotAfter(x.wal, n.wal)
  BY <1>1, LaterEntry DEF StateShape, Upto, VersionOn
<1> QED  BY <1>1, <1>2, <1>3, <1>4 DEF Upto, VersionOn

\* A merge takes all of the one that is ahead.
LEMMA MergedAhead ==
  ASSUME NEW x, NEW y, StateShape(x), StateShape(y), Upto(x, y) \/ Upto(y, x)
  PROVE  LET n == Q!Merged(x, y) IN
         /\ n.counter = (IF y.counter > x.counter THEN y.counter ELSE x.counter)
         /\ n = [base |-> n.base, delta |-> n.delta, wal |-> n.wal, counter |-> n.counter]
         /\ \/ n.base = x.base /\ n.delta = x.delta /\ n.wal = x.wal
            \/ n.base = y.base /\ n.delta = y.delta /\ n.wal = y.wal
         /\ Upto(y, x) => n.base = x.base /\ n.delta = x.delta /\ n.wal = x.wal
<1> DEFINE Pick(e, f) == IF Q!Later(f.clock, e.clock) THEN f ELSE e
           n == Q!Merged(x, y)
<1>1. n = [base |-> Pick(x.base, y.base), delta |-> Pick(x.delta, y.delta),
           wal |-> Pick(x.wal, y.wal),
           counter |-> IF y.counter > x.counter THEN y.counter ELSE x.counter]
  BY DEF Q!Merged
<1>2. ASSUME NEW e, NEW f, NEW k \in Nat, NEW l \in Nat, EntryShape(e, k), EntryShape(f, l)
      PROVE  /\ NotAfter(e, f) => Pick(e, f) = f
             /\ NotAfter(f, e) => Pick(e, f) = e
  BY <1>2 DEF NotAfter, EntryShape, DbClock, Q!Later
<1>3. /\ x.counter \in Nat /\ EntryShape(x.base, x.counter)
      /\ EntryShape(x.delta, x.counter) /\ EntryShape(x.wal, x.counter)
      /\ y.counter \in Nat /\ EntryShape(y.base, y.counter)
      /\ EntryShape(y.delta, y.counter) /\ EntryShape(y.wal, y.counter)
  BY DEF StateShape
<1> HIDE DEF Pick
<1>4. Upto(x, y) => Pick(x.base, y.base) = y.base /\ Pick(x.delta, y.delta) = y.delta
                    /\ Pick(x.wal, y.wal) = y.wal
  BY <1>2, <1>3 DEF Upto
<1>5. Upto(y, x) => Pick(x.base, y.base) = x.base /\ Pick(x.delta, y.delta) = x.delta
                    /\ Pick(x.wal, y.wal) = x.wal
  BY <1>2, <1>3 DEF Upto
<1> QED  BY <1>1, <1>4, <1>5

-----------------------------------------------------------------------------
(* SQLite files: each action *)

LEMMA DbConstants ==
  /\ SqliteDevice \subseteq Nat \ {0} /\ SqliteWriters \subseteq SqliteDevice
  /\ SqliteModes \subseteq {"wal", "watched", "both"}
BY MCStorageConstants DEF Q!SqliteAssumption

LEMMA FirstVersion ==
  /\ Q!First \in Version /\ Len(Q!First) = 2 /\ DOMAIN Q!First = {1, 2}
  /\ Q!First[1] = 0 /\ Q!First[2] = 0
BY DEF Q!First, Version

LEMMA DatabaseInit ==
  ASSUME Q!Init, "both" \notin SqliteModes
  PROVE  DatabaseInv
<1> DEFINE S == [base |-> [clock |-> <<1, 1>>, value |-> Q!First],
                 delta |-> [clock |-> <<2, 1>>, value |-> Q!NoDelta],
                 wal |-> [clock |-> <<3, 1>>, value |-> Q!NoDelta], counter |-> 3]
<1>1. Known \subseteq {S}
  BY DEF Q!Init, Known
<1>2. SavedFit /\ Saved = {1} /\ sqlite_saved[1] = Q!First
  <2>1. sqlite_saved = <<Q!First>>
    BY DEF Q!Init
  <2>2. sqlite_saved \in Seq(Version) /\ Len(sqlite_saved) = 1 /\ sqlite_saved[1] = Q!First
    BY <2>1, FirstVersion
  <2>3. Saved = {1}
    BY <2>2 DEF Saved
  <2> QED  BY <2>2, <2>3, FirstVersion DEF SavedFit
<1>3. StateShape(S)
  BY DEF StateShape, EntryShape, DbClock
<1>4. Whole(S)
  <2>1. PartsFit(S, 1, 1) /\ LogFits(1, S.wal.value)
    BY <1>2 DEF PartsFit, LogFits, Q!Bytes
  <2> QED  BY <1>2, <2>1 DEF Whole
<1>5. Upto(S, S)
  BY DEF Upto, NotAfter
<1>6. \A d \in SqliteDevice : sqlite_state[d] = S /\ sqlite_state[d] \in Known
  BY DEF Q!Init, Known
<1>7. \A d \in SqliteDevice :
        sqlite_file[d] = Q!First /\ sqlite_wal[d] = Q!NoDelta
  BY DEF Q!Init
<1> HIDE DEF S
<1>8. StatesFit
  BY <1>1, <1>3, <1>4 DEF StatesFit
<1>9. Ordered
  BY <1>1, <1>5 DEF Ordered
<1>10. S.counter \in Nat
  BY <1>3 DEF StateShape
<1>11. WriterAhead
  BY <1>1, <1>5, <1>6, <1>10, DbConstants DEF WriterAhead
<1>12. S.base.value = Q!First /\ Q!Bytes(S) = Q!First /\ S.wal.value = Q!NoDelta
  BY DEF S, Q!Bytes
<1>13. ASSUME NEW w \in SqliteWriters PROVE WriterFits(w)
  <2>1. w \in SqliteDevice
    BY DbConstants
  <2>2. LogFits(1, sqlite_wal[w])
    BY <1>7, <2>1 DEF LogFits
  <2> QED  BY <1>2, <1>6, <1>7, <1>12, <2>1, <2>2 DEF WriterFits
<1>14. \A d \in SqliteDevice : ReaderFits(d)
  BY <1>6, <1>7, <1>12 DEF ReaderFits
<1>15. NoLogs
  BY <1>1, <1>7, <1>12 DEF NoLogs
<1>16. sqlite_mode \in {"wal", "watched"}
  BY DbConstants DEF Q!Init
<1>17. /\ sqlite_file = [d \in SqliteDevice |-> sqlite_file[d]]
       /\ sqlite_wal = [d \in SqliteDevice |-> sqlite_wal[d]]
       /\ sqlite_state = [d \in SqliteDevice |-> sqlite_state[d]]
       /\ sqlite_air = {}
  BY DEF Q!Init
<1> QED
  BY <1>2, <1>8, <1>9, <1>11, <1>13, <1>14, <1>15, <1>16, <1>17 DEF DatabaseInv

\* One device has a new state, and nothing else is sent.
LEMMA StatesStep ==
  ASSUME DatabaseInv, OneWriter, NEW d \in SqliteDevice, NEW n, StateShape(n), Whole(n),
         sqlite_state' = [sqlite_state EXCEPT ![d] = n],
         \A b \in sqlite_air' : b \in sqlite_air \/ b.state = n,
         sqlite_saved' = sqlite_saved,
         \A x \in Known : Upto(x, n) \/ Upto(n, x),
         d \in SqliteWriters => \A x \in Known : Upto(x, n) /\ x.counter <= n.counter,
         d \notin SqliteWriters => \A w \in SqliteWriters :
           Upto(n, sqlite_state[w]) /\ n.counter <= sqlite_state[w].counter
  PROVE  /\ SavedFit' /\ StatesFit' /\ Ordered' /\ WriterAhead'
         /\ Known' \subseteq Known \cup {n}
<1>1. Known' \subseteq Known \cup {n}
  BY DEF Known, DatabaseInv
<1>2. SavedFit' /\ Saved' = Saved
  BY DEF SavedFit, DatabaseInv, Saved
<1>3. \A x \in Known \cup {n} : StateShape(x) /\ Whole(x)
  BY DEF DatabaseInv, StatesFit
<1>4. StatesFit'
  <2> SUFFICES ASSUME NEW x \in Known' PROVE StateShape(x) /\ Whole(x)'
    BY DEF StatesFit
  <2>1. StateShape(x) /\ Whole(x)
    BY <1>1, <1>3
  <2> QED  BY <1>2, <2>1 DEF Whole, PartsFit, LogFits
<1>5. Upto(n, n)
  BY DEF Upto, NotAfter
<1>6. Ordered'
  <2> SUFFICES ASSUME NEW x \in Known', NEW y \in Known' PROVE Upto(x, y) \/ Upto(y, x)
    BY DEF Ordered
  <2>1. x \in Known \cup {n} /\ y \in Known \cup {n}
    BY <1>1
  <2> QED  BY <1>5, <2>1 DEF DatabaseInv, Ordered
<1>7. WriterAhead'
  <2> SUFFICES ASSUME NEW w \in SqliteWriters, NEW x \in Known'
               PROVE  Upto(x, sqlite_state'[w]) /\ x.counter <= sqlite_state'[w].counter
    BY DEF WriterAhead
  <2>1. x \in Known \cup {n} /\ w \in SqliteDevice
    BY <1>1, DbConstants
  <2>2. n.counter <= n.counter
    BY DEF StateShape
  <2>3. CASE d \in SqliteWriters
    <3>1. sqlite_state'[w] = n
      BY <2>1, <2>3 DEF OneWriter, DatabaseInv
    <3> QED  BY <1>5, <2>1, <2>2, <2>3, <3>1
  <2>4. CASE d \notin SqliteWriters
    <3>1. sqlite_state'[w] = sqlite_state[w]
      BY <2>1, <2>4 DEF DatabaseInv
    <3> QED  BY <2>1, <2>4, <3>1 DEF DatabaseInv, WriterAhead
  <2> QED  BY <2>3, <2>4
<1> QED  BY <1>1, <1>2, <1>4, <1>6, <1>7

\* The writer shows a version no earlier than that of its file, a reader one.
LEMMA WriterShows ==
  ASSUME NEW w \in SqliteWriters, WriterFits(w)
  PROVE  \E i, f, k \in Saved :
           /\ i <= f /\ f <= k /\ sqlite_state[w].base.value = sqlite_saved[i]
           /\ sqlite_file[w] = sqlite_saved[f] /\ Q!Shown(w) = sqlite_saved[k]
<1>1. PICK i \in Saved, f \in Saved :
        /\ i <= f /\ sqlite_state[w].base.value = sqlite_saved[i]
        /\ sqlite_file[w] = sqlite_saved[f] /\ LogFits(f, sqlite_wal[w])
  BY DEF WriterFits
<1>2. f <= f
  BY DEF Saved
<1>3. \E k \in Saved : f <= k /\ Q!Shown(w) = sqlite_saved[k]
  BY <1>1, <1>2 DEF LogFits, Q!Shown
<1> QED  BY <1>1, <1>3

LEMMA DatabaseShown ==
  ASSUME DatabaseInv, NEW d \in SqliteDevice
  PROVE  \E k \in Saved : Q!Shown(d) = sqlite_saved[k]
<1>1. CASE d \in SqliteWriters
  BY <1>1, WriterShows DEF DatabaseInv
<1>2. CASE d \notin SqliteWriters
  <2>1. Whole(sqlite_state[d]) /\ ReaderFits(d)
    BY <1>2 DEF DatabaseInv, StatesFit, Known
  <2>2. PICK i \in Saved, j \in Saved :
          PartsFit(sqlite_state[d], i, j) /\ LogFits(j, sqlite_state[d].wal.value)
    BY <2>1 DEF Whole
  <2> QED  BY <2>1, <2>2 DEF PartsFit, LogFits, ReaderFits, Q!Shown
<1> QED  BY <1>1, <1>2

LEMMA SavedGrows ==
  ASSUME SavedFit, NEW next \in Version, sqlite_saved' = Append(sqlite_saved, next),
         \A i \in DOMAIN next : next[i] <= Len(sqlite_saved),
         \E i \in DOMAIN next : next[i] = Len(sqlite_saved)
  PROVE  /\ SavedFit' /\ Saved \subseteq Saved' /\ Len(sqlite_saved) + 1 \in Saved'
         /\ sqlite_saved'[Len(sqlite_saved) + 1] = next
         /\ \A i \in Saved : sqlite_saved'[i] = sqlite_saved[i] /\ i <= Len(sqlite_saved) + 1
<1> DEFINE n == Len(sqlite_saved)
<1>1. /\ sqlite_saved' \in Seq(Version) /\ Len(sqlite_saved') = n + 1 /\ n \in Nat
      /\ sqlite_saved'[n + 1] = next
      /\ \A i \in 1 .. n : sqlite_saved'[i] = sqlite_saved[i]
  BY DEF SavedFit
<1>2. Saved' = 1 .. n + 1 /\ Saved = 1 .. n
  BY <1>1 DEF Saved
<1>3. \A m \in 1 .. n + 1 :
        /\ \A i \in DOMAIN sqlite_saved'[m] : sqlite_saved'[m][i] <= m - 1
        /\ \E i \in DOMAIN sqlite_saved'[m] : sqlite_saved'[m][i] = m - 1
  <2> TAKE m \in 1 .. n + 1
  <2>1. CASE m = n + 1
    BY <1>1, <2>1
  <2>2. CASE m \in 1 .. n
    BY <1>1, <2>2 DEF SavedFit
  <2> QED  BY <1>1, <2>1, <2>2
<1>4. SavedFit'
  BY <1>1, <1>3 DEF SavedFit
<1> QED  BY <1>1, <1>2, <1>4

LEMMA DatabaseCommit ==
  ASSUME DatabaseInv, OneWriter, NEW d \in SqliteDevice, Q!Commit(d)
  PROVE  DatabaseInv'
<1> DEFINE top == Len(sqlite_saved)
<1>1. d \in SqliteWriters /\ SavedFit /\ top \in Nat
  BY DEF Q!Commit, DatabaseInv, SavedFit
<1>2. PICK k \in Saved : Q!Shown(d) = sqlite_saved[k]
  BY DatabaseShown
<1>3. PICK n \in 1 .. MaxPages : \E changed \in (SUBSET (1 .. n)) \ {{}} :
        LET next == [i \in 1 .. n |->
                       IF i \in changed \/ i > Len(Q!Shown(d)) THEN top ELSE Q!Shown(d)[i]]
        IN  /\ sqlite_saved' = Append(sqlite_saved, next)
            /\ IF sqlite_mode = "watched"
               THEN sqlite_file' = [sqlite_file EXCEPT ![d] = next] /\ UNCHANGED sqlite_wal
               ELSE /\ sqlite_wal' = [sqlite_wal EXCEPT ![d] = Q!PageDelta(sqlite_file[d], next)]
                    /\ UNCHANGED sqlite_file
  BY DEF Q!Commit
<1>3a. PICK changed \in (SUBSET (1 .. n)) \ {{}} :
        LET next == [i \in 1 .. n |->
                       IF i \in changed \/ i > Len(Q!Shown(d)) THEN top ELSE Q!Shown(d)[i]]
        IN  /\ sqlite_saved' = Append(sqlite_saved, next)
            /\ IF sqlite_mode = "watched"
               THEN sqlite_file' = [sqlite_file EXCEPT ![d] = next] /\ UNCHANGED sqlite_wal
               ELSE /\ sqlite_wal' = [sqlite_wal EXCEPT ![d] = Q!PageDelta(sqlite_file[d], next)]
                    /\ UNCHANGED sqlite_file
  BY <1>3
<1> DEFINE next == [i \in 1 .. n |->
                      IF i \in changed \/ i > Len(Q!Shown(d)) THEN top ELSE Q!Shown(d)[i]]
<1>4. sqlite_saved[k] \in Version /\ k - 1 <= top
      /\ \A i \in DOMAIN sqlite_saved[k] : sqlite_saved[k][i] <= k - 1
  BY <1>1 DEF SavedFit, Saved
<1>5. n \in Nat
  OBVIOUS
<1>6. \A i \in 1 .. n : next[i] \in Nat /\ next[i] <= top
  BY <1>1, <1>2, <1>4 DEF Version, Saved
<1>7. next \in Version /\ DOMAIN next = 1 .. n
  BY <1>5, <1>6, PagesOf
<1>8. \E i \in 1 .. n : next[i] = top
  OBVIOUS
<1>9. sqlite_saved' = Append(sqlite_saved, next)
  BY <1>3a
<1>10. IF sqlite_mode = "watched"
       THEN sqlite_file' = [sqlite_file EXCEPT ![d] = next] /\ UNCHANGED sqlite_wal
       ELSE /\ sqlite_wal' = [sqlite_wal EXCEPT ![d] = Q!PageDelta(sqlite_file[d], next)]
            /\ UNCHANGED sqlite_file
  BY <1>3a
<1> HIDE DEF next
<1>11. /\ SavedFit' /\ Saved \subseteq Saved' /\ top + 1 \in Saved'
       /\ sqlite_saved'[top + 1] = next
       /\ \A i \in Saved : sqlite_saved'[i] = sqlite_saved[i] /\ i <= top + 1
  BY <1>1, <1>6, <1>7, <1>8, <1>9, SavedGrows
<1>12. sqlite_state' = sqlite_state /\ sqlite_air' = sqlite_air
       /\ sqlite_mode' = sqlite_mode
  BY DEF Q!Commit
<1>13. Known' = Known
  BY <1>12 DEF Known
<1>14. StatesFit'
  <2> SUFFICES ASSUME NEW x \in Known PROVE StateShape(x) /\ Whole(x)'
    BY <1>13 DEF StatesFit
  <2>1. StateShape(x) /\ Whole(x)
    BY DEF DatabaseInv, StatesFit
  <2>2. PICK i \in Saved, j \in Saved : PartsFit(x, i, j) /\ LogFits(j, x.wal.value)
    BY <2>1 DEF Whole
  <2>3. PartsFit(x, i, j)'
    BY <1>11, <2>2 DEF PartsFit
  <2>4. LogFits(j, x.wal.value)'
    BY <1>11, <2>2 DEF LogFits
  <2>5. i \in Saved' /\ j \in Saved'
    BY <1>11
  <2> QED  BY <2>1, <2>3, <2>4, <2>5 DEF Whole
<1>15. Ordered' /\ WriterAhead'
  BY <1>12, <1>13 DEF DatabaseInv, Ordered, WriterAhead
<1>16. ASSUME NEW w \in SqliteWriters PROVE WriterFits(w)'
  <2>1. w = d
    BY <1>1 DEF OneWriter
  <2>2. PICK i \in Saved, f \in Saved :
          /\ i <= f /\ sqlite_state[d].base.value = sqlite_saved[i]
          /\ sqlite_file[d] = sqlite_saved[f] /\ LogFits(f, sqlite_wal[d])
    BY <1>1 DEF DatabaseInv, WriterFits
  <2>3. i \in Saved' /\ f \in Saved' /\ f <= top + 1 /\ i <= top + 1
        /\ sqlite_state'[d].base.value = sqlite_saved'[i]
    BY <1>11, <1>12, <2>2
  <2>4. CASE sqlite_mode = "watched"
    <3> PICK t : t = top + 1
      OBVIOUS
    <3>1. t \in Saved' /\ i <= t /\ sqlite_saved'[t] = next
      BY <1>11, <2>3
    <3>2. sqlite_file'[d] = sqlite_saved'[t]
      BY <1>10, <2>4, <3>1 DEF DatabaseInv
    <3>3. sqlite_wal'[d] = Q!NoDelta
      BY <1>10, <2>4 DEF DatabaseInv, NoLogs
    <3>4. LogFits(t, sqlite_wal[d])'
      BY <3>3 DEF LogFits
    <3> QED  BY <2>1, <2>3, <3>1, <3>2, <3>4 DEF WriterFits
  <2>5. CASE sqlite_mode # "watched"
    <3>1. sqlite_file'[d] = sqlite_saved'[f]
      BY <1>10, <1>11, <2>2, <2>5
    <3>2. sqlite_wal'[d] = Q!PageDelta(sqlite_saved[f], next)
      BY <1>10, <2>2, <2>5 DEF DatabaseInv
    <3>3. sqlite_saved[f] \in Version
      BY <1>1 DEF SavedFit, Saved
    <3>4. Q!Patched(sqlite_saved'[f], sqlite_wal'[d]) = sqlite_saved'[top + 1]
      BY <1>7, <1>11, <3>2, <3>3, DeltaApplies
    <3>5. LogFits(f, sqlite_wal[d])'
      BY <1>11, <2>3, <3>4 DEF LogFits
    <3> QED  BY <2>1, <2>2, <2>3, <3>1, <3>5 DEF WriterFits
  <2> QED  BY <2>4, <2>5
<1>17. \A e \in SqliteDevice : e # d => sqlite_file'[e] = sqlite_file[e]
                                      /\ sqlite_wal'[e] = sqlite_wal[e]
  BY <1>10 DEF DatabaseInv
<1>18. \A e \in SqliteDevice \ SqliteWriters : ReaderFits(e)'
  BY <1>1, <1>12, <1>17 DEF DatabaseInv, ReaderFits
<1>19. NoLogs'
  <2>1. CASE sqlite_mode = "wal"
    BY <1>12, <2>1 DEF NoLogs
  <2>2. CASE sqlite_mode = "watched"
    BY <1>10, <1>12, <1>13, <2>2 DEF DatabaseInv, NoLogs
  <2> QED  BY <2>1, <2>2 DEF DatabaseInv
<1>20. /\ sqlite_file' = [e \in SqliteDevice |-> sqlite_file'[e]]
       /\ sqlite_wal' = [e \in SqliteDevice |-> sqlite_wal'[e]]
  BY <1>10 DEF DatabaseInv
<1> QED
  BY <1>11, <1>12, <1>14, <1>15, <1>16, <1>18, <1>19, <1>20 DEF DatabaseInv

\* No engine moves, and nothing new is sent.
LEMMA StatesRest ==
  ASSUME DatabaseInv, sqlite_state' = sqlite_state, sqlite_saved' = sqlite_saved,
         Known' \subseteq Known
  PROVE  SavedFit' /\ StatesFit' /\ Ordered' /\ WriterAhead'
<1>1. SavedFit' /\ Saved' = Saved
  BY DEF DatabaseInv, SavedFit, Saved
<1>2. StatesFit'
  <2> SUFFICES ASSUME NEW x \in Known PROVE StateShape(x) /\ Whole(x)'
    BY DEF StatesFit
  <2>1. StateShape(x) /\ Whole(x)
    BY DEF DatabaseInv, StatesFit
  <2> QED  BY <1>1, <2>1 DEF Whole, PartsFit, LogFits
<1>3. Ordered'
  BY DEF DatabaseInv, Ordered
<1>4. WriterAhead'
  BY DEF DatabaseInv, WriterAhead
<1> QED  BY <1>1, <1>2, <1>3, <1>4

LEMMA DatabaseCheckpoint ==
  ASSUME DatabaseInv, OneWriter, NEW d \in SqliteDevice, Q!Checkpoint(d)
  PROVE  DatabaseInv'
<1>1. /\ d \in SqliteWriters /\ sqlite_wal[d] # Q!NoDelta
      /\ sqlite_file' = [sqlite_file EXCEPT ![d] = Q!Shown(d)]
      /\ sqlite_wal' = [sqlite_wal EXCEPT ![d] = Q!NoDelta]
      /\ sqlite_mode' = sqlite_mode /\ sqlite_state' = sqlite_state
      /\ sqlite_air' = sqlite_air /\ sqlite_saved' = sqlite_saved
  BY DEF Q!Checkpoint
<1>2. Known' = Known /\ Saved' = Saved
  BY <1>1 DEF Known, Saved
<1>3. SavedFit' /\ StatesFit' /\ Ordered' /\ WriterAhead'
  BY <1>1, <1>2, StatesRest
<1>4. WriterFits(d)'
  <2>1. PICK i \in Saved, f \in Saved, k \in Saved :
          /\ i <= f /\ f <= k /\ sqlite_state[d].base.value = sqlite_saved[i]
          /\ sqlite_file[d] = sqlite_saved[f] /\ Q!Shown(d) = sqlite_saved[k]
    BY <1>1, WriterShows DEF DatabaseInv
  <2>2. i <= k
    BY <2>1 DEF Saved
  <2>3. sqlite_file'[d] = sqlite_saved[k] /\ sqlite_wal'[d] = Q!NoDelta
    BY <1>1, <2>1 DEF DatabaseInv
  <2>4. LogFits(k, sqlite_wal[d])'
    BY <2>3 DEF LogFits
  <2> QED  BY <1>1, <1>2, <2>1, <2>2, <2>3, <2>4 DEF WriterFits
<1>5. \A w \in SqliteWriters : w = d
  BY <1>1 DEF OneWriter
<1>6. \A e \in SqliteDevice \ SqliteWriters : ReaderFits(e)'
  BY <1>1 DEF DatabaseInv, ReaderFits
<1>7. NoLogs'
  BY <1>1, <1>2 DEF DatabaseInv, NoLogs
<1> QED
  BY <1>1, <1>3, <1>4, <1>5, <1>6, <1>7 DEF DatabaseInv

\* The writer loads a version that its file holds, maybe written just before.
LEMMA WriterLoads ==
  ASSUME DatabaseInv, OneWriter, NEW w \in SqliteWriters, NEW g \in Saved, NEW log,
         LogFits(g, log), sqlite_mode # "wal" => log = Q!NoDelta,
         \E i \in Saved : i <= g /\ sqlite_state[w].base.value = sqlite_saved[i],
         sqlite_state' = [sqlite_state EXCEPT ![w] =
           Q!Stored(w, Q!Update(w, sqlite_state[w], sqlite_saved[g]), "wal", log)],
         sqlite_file' = [sqlite_file EXCEPT ![w] = sqlite_saved[g]],
         sqlite_wal' = [sqlite_wal EXCEPT ![w] = log],
         \A b \in sqlite_air' : b \in sqlite_air
           \/ (b.state = sqlite_state'[w] /\ b.to \in SqliteDevice),
         sqlite_saved' = sqlite_saved, sqlite_mode' = sqlite_mode
  PROVE  DatabaseInv'
<1> DEFINE x == sqlite_state[w]
           n == Q!Stored(w, Q!Update(w, x, sqlite_saved[g]), "wal", log)
<1>1. w \in SqliteDevice /\ w \in Nat /\ x \in Known /\ SavedFit
  BY DbConstants DEF Known, DatabaseInv
<1>2. StateShape(x)
  BY <1>1 DEF DatabaseInv, StatesFit
<1>3. PICK i \in Saved : i <= g /\ x.base.value = sqlite_saved[i]
  OBVIOUS
<1>4. /\ StateShape(n) /\ VersionOn(x, n) /\ Whole(n) /\ n.wal.value = log
      /\ \E h \in Saved : h <= g /\ n.base.value = sqlite_saved[h]
  BY <1>1, <1>2, <1>3, LoadFits
<1>5. sqlite_state' = [sqlite_state EXCEPT ![w] = n]
  OBVIOUS
<1> HIDE DEF n
<1>6. \A y \in Known : Upto(y, n) /\ y.counter <= n.counter
  <2> TAKE y \in Known
  <2>1. StateShape(y) /\ Upto(y, x) /\ y.counter <= x.counter
    BY DEF DatabaseInv, StatesFit, WriterAhead
  <2> QED  BY <1>2, <1>4, <2>1, OnwardsAhead
<1>7. sqlite_state'[w] = n
  BY <1>1, <1>5 DEF DatabaseInv
<1>8. /\ SavedFit' /\ StatesFit' /\ Ordered' /\ WriterAhead'
      /\ Known' \subseteq Known \cup {n}
  BY <1>1, <1>4, <1>5, <1>6, <1>7, StatesStep
<1>9. \A v \in SqliteWriters : v = w
  BY DEF OneWriter
<1>10. WriterFits(w)'
  <2>1. PICK h \in Saved : h <= g /\ n.base.value = sqlite_saved[h]
    BY <1>4
  <2>2. sqlite_file'[w] = sqlite_saved[g] /\ sqlite_wal'[w] = log /\ Saved' = Saved
    BY <1>1 DEF DatabaseInv, Saved
  <2>3. LogFits(g, sqlite_wal[w])'
    BY <2>2 DEF LogFits
  <2> QED  BY <1>7, <2>1, <2>2, <2>3 DEF WriterFits
<1>11. \A e \in SqliteDevice \ SqliteWriters : ReaderFits(e)'
  BY <1>1, <1>5 DEF DatabaseInv, ReaderFits
<1>12. NoLogs'
  <2> SUFFICES ASSUME sqlite_mode # "wal"
               PROVE  /\ \A d \in SqliteDevice : sqlite_wal'[d] = Q!NoDelta
                      /\ \A y \in Known' : y.wal.value = Q!NoDelta
    BY DEF NoLogs
  <2>1. log = Q!NoDelta /\ n.wal.value = Q!NoDelta
    BY <1>4
  <2> QED  BY <1>1, <1>8, <2>1 DEF DatabaseInv, NoLogs
<1> QED
  BY <1>1, <1>5, <1>8, <1>9, <1>10, <1>11, <1>12 DEF DatabaseInv

\* What a reader loads is what its engine wrote.
LEMMA ReaderLoads ==
  ASSUME DatabaseInv, NEW d \in SqliteDevice \ SqliteWriters
  PROVE  Q!Stored(d, Q!Update(d, sqlite_state[d], sqlite_file[d]), "wal", sqlite_wal[d])
           = sqlite_state[d]
<1>1. StateShape(sqlite_state[d]) /\ Whole(sqlite_state[d]) /\ ReaderFits(d) /\ SavedFit
  BY DEF DatabaseInv, StatesFit, Known
<1>2. d \in Nat
  BY DbConstants
<1> QED  BY <1>1, <1>2, LoadKeeps DEF ReaderFits

\* Nothing changes but what is on its way.
LEMMA OnlyAir ==
  ASSUME DatabaseInv, sqlite_state' = sqlite_state, sqlite_file' = sqlite_file,
         sqlite_wal' = sqlite_wal, sqlite_saved' = sqlite_saved, sqlite_mode' = sqlite_mode,
         \A b \in sqlite_air' : b \in sqlite_air
           \/ (b.state \in Known /\ b.to \in SqliteDevice)
  PROVE  DatabaseInv'
<1>1. Known' \subseteq Known /\ Saved' = Saved
  BY DEF Known, Saved
<1>2. SavedFit' /\ StatesFit' /\ Ordered' /\ WriterAhead'
  BY <1>1, StatesRest
<1>3. NoLogs'
  BY <1>1 DEF DatabaseInv, NoLogs
<1>4. /\ \A w \in SqliteWriters : WriterFits(w)'
      /\ \A e \in SqliteDevice \ SqliteWriters : ReaderFits(e)'
  BY <1>1 DEF DatabaseInv, WriterFits, LogFits, ReaderFits
<1> QED  BY <1>2, <1>3, <1>4 DEF DatabaseInv

LEMMA DatabaseTick ==
  ASSUME DatabaseInv, OneWriter, NEW d \in SqliteDevice, Q!Tick(d)
  PROVE  DatabaseInv'
<1> DEFINE x == sqlite_state[d]
           main == IF sqlite_cache[d].main # Q!Bytes(x) THEN Q!Bytes(x) ELSE sqlite_file[d]
           log == IF sqlite_cache[d].wal # x.wal.value THEN x.wal.value ELSE sqlite_wal[d]
           n == Q!Stored(d, Q!Update(d, x, main), "wal", log)
<1>1. /\ sqlite_mode \in {"watched", "both"}
      /\ sqlite_file' = [sqlite_file EXCEPT ![d] = main]
      /\ sqlite_wal' = [sqlite_wal EXCEPT ![d] = log]
      /\ sqlite_state' = [sqlite_state EXCEPT ![d] = n]
      /\ sqlite_mode' = sqlite_mode /\ sqlite_air' = sqlite_air /\ sqlite_saved' = sqlite_saved
  BY DEF Q!Tick
<1>2. /\ sqlite_mode # "wal" /\ x \in Known /\ Whole(x)
  BY <1>1 DEF Known, DatabaseInv, StatesFit
<1>3. log = Q!NoDelta /\ sqlite_wal[d] = Q!NoDelta /\ x.wal.value = Q!NoDelta
  BY <1>2 DEF DatabaseInv, NoLogs
<1>4. CASE d \in SqliteWriters
  <2>1. \E i, g \in Saved : /\ i <= g /\ x.base.value = sqlite_saved[i]
                            /\ main = sqlite_saved[g]
    <3>1. CASE main = Q!Bytes(x)
      BY <1>2, <3>1 DEF Whole, PartsFit
    <3>2. CASE main = sqlite_file[d]
      BY <1>4, <3>2 DEF DatabaseInv, WriterFits
    <3> QED  BY <3>1, <3>2
  <2>2. PICK g \in Saved : /\ \E i \in Saved : i <= g /\ x.base.value = sqlite_saved[i]
                           /\ main = sqlite_saved[g]
    BY <2>1
  <2>3. LogFits(g, log)
    BY <1>3 DEF LogFits
  <2> HIDE DEF main, log
  <2>4. \A b \in sqlite_air' : b \in sqlite_air
  BY <1>1
  <2> QED  BY <1>1, <1>3, <1>4, <2>2, <2>3, <2>4, WriterLoads
<1>5. CASE d \notin SqliteWriters
  <2>1. main = sqlite_file[d] /\ log = sqlite_wal[d]
    BY <1>3, <1>5 DEF DatabaseInv, ReaderFits
  <2>2. n = x
    BY <1>5, <2>1, ReaderLoads
  <2>3. sqlite_state' = sqlite_state /\ sqlite_file' = sqlite_file /\ sqlite_wal' = sqlite_wal
    BY <1>1, <2>1, <2>2 DEF DatabaseInv
  <2> QED  BY <1>1, <2>3, OnlyAir
<1> QED  BY <1>4, <1>5

LEMMA DatabaseSend ==
  ASSUME DatabaseInv, OneWriter, NEW d \in SqliteDevice, NEW e \in SqliteDevice, Q!Send(d, e)
  PROVE  DatabaseInv'
<1> DEFINE n == Q!Stored(d, Q!Update(d, sqlite_state[d], sqlite_file[d]), "wal", sqlite_wal[d])
<1>1. /\ sqlite_state' = [sqlite_state EXCEPT ![d] = n]
      /\ sqlite_air' = {b \in sqlite_air : ~(b.from = d /\ b.to = e)} \cup
                       {[from |-> d, to |-> e, state |-> n]}
      /\ sqlite_mode' = sqlite_mode /\ sqlite_file' = sqlite_file
      /\ sqlite_wal' = sqlite_wal /\ sqlite_saved' = sqlite_saved
  BY DEF Q!Send, Q!Loaded
<1>2. \A b \in sqlite_air' : b \in sqlite_air \/ (b.state = n /\ b.to \in SqliteDevice)
  BY <1>1
<1>3. CASE d \in SqliteWriters
  <2>1. PICK i \in Saved, f \in Saved :
          /\ i <= f /\ sqlite_state[d].base.value = sqlite_saved[i]
          /\ sqlite_file[d] = sqlite_saved[f] /\ LogFits(f, sqlite_wal[d])
    BY <1>3 DEF DatabaseInv, WriterFits
  <2>2. sqlite_mode # "wal" => sqlite_wal[d] = Q!NoDelta
    BY DEF DatabaseInv, NoLogs
  <2>3. /\ sqlite_state' = [sqlite_state EXCEPT ![d] =
             Q!Stored(d, Q!Update(d, sqlite_state[d], sqlite_saved[f]), "wal", sqlite_wal[d])]
        /\ sqlite_file' = [sqlite_file EXCEPT ![d] = sqlite_saved[f]]
        /\ sqlite_wal' = [sqlite_wal EXCEPT ![d] = sqlite_wal[d]]
    BY <1>1, <2>1 DEF DatabaseInv
  <2>4. sqlite_state'[d] = n
    BY <1>1 DEF DatabaseInv
  <2>5. \A b \in sqlite_air' : b \in sqlite_air
          \/ (b.state = sqlite_state'[d] /\ b.to \in SqliteDevice)
    BY <1>2, <2>4
  <2> HIDE DEF n
  <2> QED  BY <1>1, <1>3, <2>1, <2>2, <2>3, <2>5, WriterLoads
<1>4. CASE d \notin SqliteWriters
  <2>1. n = sqlite_state[d]
    BY <1>4, ReaderLoads
  <2>2. sqlite_state' = sqlite_state
    BY <1>1, <2>1 DEF DatabaseInv
  <2>3. n \in Known
    BY <2>1 DEF Known
  <2> HIDE DEF n
  <2> QED  BY <1>1, <1>2, <2>2, <2>3, OnlyAir
<1> QED  BY <1>3, <1>4

LEMMA DatabaseDeliver ==
  ASSUME DatabaseInv, OneWriter, NEW b \in sqlite_air, Q!Deliver(b)
  PROVE  DatabaseInv'
<1> DEFINE d == b.to
           x == sqlite_state[d]
           y == b.state
           n == Q!Merged(x, y)
<1>1. /\ sqlite_state' = [sqlite_state EXCEPT ![d] = n]
      /\ sqlite_file' = [sqlite_file EXCEPT ![d] = Q!Bytes(n)]
      /\ sqlite_wal' = [sqlite_wal EXCEPT ![d] = n.wal.value]
      /\ sqlite_mode' = sqlite_mode /\ sqlite_air' = sqlite_air /\ sqlite_saved' = sqlite_saved
  BY DEF Q!Deliver
<1>2. d \in SqliteDevice /\ x \in Known /\ y \in Known
  BY DEF DatabaseInv, Known
<1>3. /\ StateShape(x) /\ StateShape(y) /\ Whole(x) /\ Whole(y)
      /\ Upto(x, y) \/ Upto(y, x)
  BY <1>2 DEF DatabaseInv, StatesFit, Ordered
<1>4. /\ n.counter = (IF y.counter > x.counter THEN y.counter ELSE x.counter)
      /\ n = [base |-> n.base, delta |-> n.delta, wal |-> n.wal, counter |-> n.counter]
      /\ \/ n.base = x.base /\ n.delta = x.delta /\ n.wal = x.wal
         \/ n.base = y.base /\ n.delta = y.delta /\ n.wal = y.wal
      /\ Upto(y, x) => n.base = x.base /\ n.delta = x.delta /\ n.wal = x.wal
  BY <1>3, MergedAhead
<1> HIDE DEF n, x, y
<1>5. PICK z \in Known : z \in {x, y} /\ n.base = z.base /\ n.delta = z.delta /\ n.wal = z.wal
  BY <1>2, <1>4
<1>6. StateShape(n)
  BY <1>3, <1>4 DEF StateShape, EntryShape, DbClock
<1>7. Whole(n)
  BY <1>3, <1>5 DEF Whole, PartsFit, Q!Bytes
<1>8. \A v : (Upto(v, n) <=> Upto(v, z)) /\ (Upto(n, v) <=> Upto(z, v))
  BY <1>5 DEF Upto
<1>9. \A v \in Known : Upto(v, n) \/ Upto(n, v)
  BY <1>8 DEF DatabaseInv, Ordered
<1>10. sqlite_state'[d] = n /\ sqlite_file'[d] = Q!Bytes(n) /\ sqlite_wal'[d] = n.wal.value
  BY <1>1, <1>2 DEF DatabaseInv
<1>11. d \in SqliteWriters => n = x
  <2> SUFFICES ASSUME d \in SqliteWriters PROVE n = x
    OBVIOUS
  <2>1. Upto(y, x) /\ y.counter <= x.counter
    BY <1>2 DEF DatabaseInv, WriterAhead, x
  <2>2. n.counter = x.counter
    BY <1>3, <1>4, <2>1 DEF StateShape
  <2> QED  BY <1>3, <1>4, <2>1, <2>2 DEF StateShape
<1>12. d \in SqliteWriters => \A v \in Known : Upto(v, n) /\ v.counter <= n.counter
  BY <1>11 DEF DatabaseInv, WriterAhead, x
<1>13. \A w \in SqliteWriters : Upto(n, sqlite_state[w]) /\ n.counter <= sqlite_state[w].counter
  BY <1>2, <1>4, <1>8 DEF DatabaseInv, WriterAhead
<1>14. /\ SavedFit' /\ StatesFit' /\ Ordered' /\ WriterAhead'
       /\ Known' \subseteq Known \cup {n}
  BY <1>1, <1>2, <1>6, <1>7, <1>9, <1>12, <1>13, StatesStep
<1>15. Saved' = Saved
  BY <1>1 DEF Saved
<1>16. ASSUME NEW w \in SqliteWriters PROVE WriterFits(w)'
  <2>1. CASE w = d
    <3>1. PICK i \in Saved, j \in Saved : PartsFit(n, i, j) /\ LogFits(j, n.wal.value)
      BY <1>7 DEF Whole
    <3>2. LogFits(j, sqlite_wal[w])'
      BY <1>1, <1>10, <1>15, <2>1, <3>1 DEF LogFits
    <3> QED  BY <1>1, <1>10, <1>15, <2>1, <3>1, <3>2 DEF WriterFits, PartsFit
  <2>2. CASE w # d
    <3>1. w \in SqliteDevice
      BY DbConstants
    <3>2. sqlite_state'[w] = sqlite_state[w] /\ sqlite_file'[w] = sqlite_file[w]
          /\ sqlite_wal'[w] = sqlite_wal[w]
      BY <1>1, <2>2, <3>1 DEF DatabaseInv
    <3>3. PICK i \in Saved, f \in Saved :
            /\ i <= f /\ sqlite_state[w].base.value = sqlite_saved[i]
            /\ sqlite_file[w] = sqlite_saved[f] /\ LogFits(f, sqlite_wal[w])
      BY DEF DatabaseInv, WriterFits
    <3>4. LogFits(f, sqlite_wal[w])'
      BY <1>1, <1>15, <3>2, <3>3 DEF LogFits
    <3> QED  BY <1>1, <1>15, <3>2, <3>3, <3>4 DEF WriterFits
  <2> QED  BY <2>1, <2>2
<1>17. ASSUME NEW e \in SqliteDevice \ SqliteWriters PROVE ReaderFits(e)'
  <2>1. CASE e = d
    BY <1>10, <2>1 DEF ReaderFits
  <2>2. CASE e # d
    BY <1>1, <2>2 DEF DatabaseInv, ReaderFits
  <2> QED  BY <2>1, <2>2
<1>18. NoLogs'
  <2> SUFFICES ASSUME sqlite_mode # "wal"
               PROVE  /\ \A e \in SqliteDevice : sqlite_wal'[e] = Q!NoDelta
                      /\ \A v \in Known' : v.wal.value = Q!NoDelta
    BY <1>1 DEF NoLogs
  <2>1. n.wal.value = Q!NoDelta
    BY <1>5 DEF DatabaseInv, NoLogs
  <2> QED  BY <1>1, <1>14, <2>1 DEF DatabaseInv, NoLogs
<1>19. /\ sqlite_file' = [e \in SqliteDevice |-> sqlite_file'[e]]
       /\ sqlite_wal' = [e \in SqliteDevice |-> sqlite_wal'[e]]
       /\ sqlite_state' = [e \in SqliteDevice |-> sqlite_state'[e]]
  BY <1>1 DEF DatabaseInv
<1> QED
  BY <1>1, <1>14, <1>16, <1>17, <1>18, <1>19 DEF DatabaseInv

LEMMA DatabaseStep ==
  ASSUME DatabaseInv, OneWriter, [Q!Next]_(Q!vars)
  PROVE  DatabaseInv'
<1>1. CASE UNCHANGED Q!vars
  BY <1>1, OnlyAir DEF Q!vars
<1>2. CASE Q!Next
  BY <1>2, DatabaseCommit, DatabaseCheckpoint, DatabaseTick, DatabaseSend, DatabaseDeliver
  DEF Q!Next
<1> QED  BY <1>1, <1>2

-----------------------------------------------------------------------------
(* Each part on its own *)

\* session/adapter.rs, companion.rs, logical.rs: the clocks of records were drawn
\* from counters that have gone on, one clock names one record, and an operation
\* imported by its author is one; a field nobody set is the empty one.
THEOREM MergeInductive == R!Spec => []MergeInv
<1>1. R!Init => MergeInv
  BY MCStorageConstants, MergeInit
<1>2. MergeInv /\ [R!Next]_(R!vars) => MergeInv'
  BY MCStorageConstants, MergeStep
<1> QED  BY <1>1, <1>2, PTL DEF R!Spec

\* session/adapter.rs, companion.rs: prepare refuses a batch whole, so one record
\* that a peer must refuse would stop the two for good; there is none as long as
\* an operation is imported once, by its author.
THEOREM NothingIsRefused == R!Spec => []R!NothingRefused
<1>1. MergeInv => R!NothingRefused
  BY NothingCollides
<1> QED  BY <1>1, MergeInductive, PTL

\* session/adapter.rs, companion.rs: a record gives way only to a later one,
\* however late or often a batch comes, and a deleted operation stays deleted.
THEOREM RecordsGoForward == R!Spec => R!MovesForward
<1>1. MergeInv /\ [R!Next]_(R!vars) => [\A d \in MergeDevice, i \in RecordId : Onwards(d, i)]_(R!vars)
  BY MCStorageConstants, RecordsMoveOn
<1>2. R!MovesForward <=> [][\A d \in MergeDevice, i \in RecordId : Onwards(d, i)]_(R!vars)
  BY DEF R!MovesForward, Onwards
<1> QED  BY <1>1, <1>2, MergeInductive, PTL DEF R!Spec

\* sqlite_logical.rs: the records of a mapped table, its sidecar rows and its
\* batches have clocks from that of a row without a sidecar row on.
THEOREM TableInductive == T!Spec => []TableInv
<1>1. T!Init => TableInv
  BY TableInit
<1>2. TableInv /\ [T!Next]_(T!vars) => TableInv'
  BY MCStorageConstants, TableStep
<1> QED  BY <1>1, <1>2, PTL DEF T!Spec

\* A known row is not replaced by what it was made on, unless edits go around the
\* adapter (sqlite_logical.rs, load_records and apply_records).
THEOREM RowsGoForward == T!Spec => []RowsInv /\ T!RowsForward
<1>1. T!Init => RowsInv
  BY RowsInit
<1>2. RowsInv /\ [T!Next]_(T!vars) =>
        RowsInv' /\ (table_scope.again \/ RowsNotBack)
  BY MCStorageConstants, RowsStep
<1>3. (table_scope.again \/ RowsNotBack) =>
        [table_scope.again \/ \A d \in TableDevice :
           table_row[d] # T!NoRow =>
             table_row'[d] \notin table_past[table_row[d]] \ {T!NoRow}]_(T!vars)
  BY DEF RowsNotBack
<1> QED  BY <1>1, <1>2, <1>3, PTL DEF T!Spec, T!RowsForward

\* adapter.rs, SqliteFileAdapter: with one device that writes, and no engine loop
\* beside a log, every part of a database that a device holds or has sent - main
\* file, page delta or log - is of one version the application saved, and who is
\* behind has a file that the next delta fits.
THEOREM DatabaseInductive ==
  ASSUME OneWriter, "both" \notin SqliteModes
  PROVE  Q!Spec => []DatabaseInv
<1>1. Q!Init => DatabaseInv
  BY DatabaseInit
<1>2. DatabaseInv /\ [Q!Next]_(Q!vars) => DatabaseInv'
  BY DatabaseStep
<1> QED  BY <1>1, <1>2, PTL DEF Q!Spec

-----------------------------------------------------------------------------
(* The parts side by side: each one moves as it does alone *)

LEMMA MergeRuns == StorageSpec => R!Spec
<1>1. StorageInit => R!Init
  BY DEF StorageInit
<1>2. [StorageNext]_all => [R!Next]_(R!vars)
  BY DEF StorageNext, all, merge_vars, R!vars
<1> QED  BY <1>1, <1>2, PTL DEF StorageSpec, R!Spec

LEMMA TableRuns == StorageSpec => T!Spec
<1>1. StorageInit => T!Init
  BY DEF StorageInit
<1>2. [StorageNext]_all => [T!Next]_(T!vars)
  BY DEF StorageNext, all, table_vars, T!vars
<1> QED  BY <1>1, <1>2, PTL DEF StorageSpec, T!Spec

LEMMA SqliteRuns == StorageSpec => Q!Spec
<1>1. StorageInit => Q!Init
  BY DEF StorageInit
<1>2. [StorageNext]_all => [Q!Next]_(Q!vars)
  BY DEF StorageNext, all, sqlite_vars, Q!vars
<1> QED  BY <1>1, <1>2, PTL DEF StorageSpec, Q!Spec

\* record.rs, logical.rs, session/adapter.rs: two devices between which a complete
\* exchange changes nothing hold the same records, but for the order of a list, under
\* every policy but SetUnion of maps; and two mapped tables between which neither a tick nor an
\* exchange changes anything show the same (sqlite_logical.rs).
THEOREM SettledThingsAgree == StorageSpec => []SettledAgree
<1>1. MergeInv => R!SettledAgree
  BY MCStorageConstants, RecordsAgree
<1>2. TableInv => T!RowsAgree
  BY TablesAgree
<1>3. MergeInv /\ TableInv => SettledAgree
  BY <1>1, <1>2 DEF SettledAgree
<1> QED  BY <1>3, MergeRuns, MergeInductive, TableRuns, TableInductive, PTL

\* adapter.rs, SqliteFileAdapter: what a device shows of the database is a version
\* the application saved, whole, when one device writes and no engine loop runs
\* beside a log.
THEOREM DatabasesStayWhole ==
  ASSUME OneWriter, "both" \notin SqliteModes
  PROVE  StorageSpec => []WholeDatabase
<1>1. DatabaseInv => WholeDatabase
  <2> SUFFICES ASSUME DatabaseInv, NEW d \in SqliteDevice
               PROVE  \E i \in DOMAIN sqlite_saved : Q!Shown(d) = sqlite_saved[i]
    BY DEF WholeDatabase, Q!WholeDatabase
  <2>1. DOMAIN sqlite_saved = Saved
    BY DEF DatabaseInv, SavedFit, Saved
  <2> QED  BY <2>1, DatabaseShown
<1> QED  BY <1>1, SqliteRuns, DatabaseInductive, PTL
=============================================================================
