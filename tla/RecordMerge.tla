---------------------------- MODULE RecordMerge ----------------------------
(***************************************************************************)
(* What the transactional adapters of a managed session do to its records  *)
(* (session/adapter.rs; MomentumAdapter of companion.rs): a local write or *)
(* import and a batch of a peer pass through the same prepare, which       *)
(* merges all of it or refuses all of it, before the journal commits the   *)
(* result.  And what an Engine does to logical records (record.rs,         *)
(* logical.rs): it merges them field by field, each by its policy, and     *)
(* prunes tombstones.  A batch comes late, more than once, or never.       *)
(***************************************************************************)
EXTENDS Integers, FiniteSets, FiniteSetsExt

CONSTANTS Device, Id,
          Scopes       \* bounds of the behaviours:
                       \*   policy   "records", "momentum" or "fields"
                       \*   strict   an operation is imported once, by its author;
                       \*            else by anybody, and again under a later clock
                       \*   field    the MergePolicy of the fields' second field:
                       \*            "last", "list", "map" or "counter"
                       \*   ids      the records written
                       \*   last     the counters of clocks go up to here

MergeAssumption ==
  /\ Device \subseteq Nat
  /\ \A c \in Scopes :
       /\ c.policy \in {"records", "momentum", "fields"} /\ c.strict \in BOOLEAN
       /\ c.ids \subseteq Id /\ c.last \in Nat

VARIABLES
  scope,
  held,   \* held[d][i]: the record of i in d's journal: [clock, deleted, value]
  counter,  \* counter[d]: the last clock of d, State.counter
  air     \* batches captured and not delivered: [from, to, records]

vars == <<scope, held, counter, air>>

Fields == scope.policy = "fields"

\* The second field without a value.  A list is the place of each of its items.
Empty ==
  CASE scope.field = "counter" -> [d \in Device |-> 0]
    [] scope.field = "list" -> [item \in {} |-> 0]
    [] OTHER -> {}

\* A record's fields are a title and a second one, under a policy; what a title
\* says is the write that set it.  clock <<0, 0>>: the record has no such field.
NoFields == [title |-> <<0, 0>>, second |-> [clock |-> <<0, 0>>, v |-> Empty]]
NoValue == IF Fields THEN NoFields ELSE <<0, 0>>
Unset == [clock |-> <<0, 0>>, deleted |-> FALSE, value |-> NoValue]

Init ==
  /\ scope \in Scopes
  /\ held = [d \in Device |-> [i \in Id |-> Unset]]
  /\ counter = [d \in Device |-> 0]
  /\ air = {}

\* LamportClock: the counter, then the device.
\* Mutant: the device does not break a tie.
LaterCounter(a, b) == a[1] > b[1]
Later(a, b) == a[1] > b[1] \/ (a[1] = b[1] /\ a[2] > b[2])

\* A record that prepare refuses, and the whole batch with it.
Collides(old, next) ==
  /\ ~Fields /\ old # Unset /\ next # Unset
  /\ \/ old.clock = next.clock /\ old # next
     \/ /\ scope.policy = "momentum"     \* operations are immutable
        /\ ~old.deleted /\ ~next.deleted /\ old.value # next.value

LaterOf(a, b) == IF Later(a, b) THEN a ELSE b

\* SetUnion, ListAppend and AppendOnly of lists: what the old one has not got
\* comes behind it, in its own order.
Union(old, next) ==
  LET unseen == DOMAIN next \ DOMAIN old IN
  [e \in DOMAIN old \cup unseen |->
     IF e \in DOMAIN old THEN old[e]
     ELSE Cardinality(DOMAIN old) + Cardinality({f \in unseen : next[f] <= next[e]})]

\* SetUnion of maps, as sets of key and value: a key keeps the value it has.
Entries(old, next) == old \cup {e \in next : \A f \in old : f[1] # e[1]}

\* Counter: every device counts in its own entry.
Counted(old, next) == [d \in Device |-> IF old[d] > next[d] THEN old[d] ELSE next[d]]

\* merge_field: a value that only one of the two has stays.
MergedField(old, next) ==
  CASE next.clock = <<0, 0>> -> old
    [] next.clock # <<0, 0>> /\ old.clock = <<0, 0>> -> next
    [] OTHER ->
         [clock |-> LaterOf(old.clock, next.clock),
          v |-> CASE scope.field = "list" -> Union(old.v, next.v)
                  [] scope.field = "map" -> Entries(old.v, next.v)
                  [] scope.field = "counter" -> Counted(old.v, next.v)
                  [] OTHER -> IF Later(old.clock, next.clock) THEN old.v ELSE next.v]

\* merge_records: a record wins against a tombstone, or loses, as a whole.
MergedFields(old, next) ==
  IF old.deleted \/ next.deleted
  THEN IF Later(old.clock, next.clock) THEN old ELSE next
  ELSE [clock |-> LaterOf(old.clock, next.clock), deleted |-> FALSE,
        value |-> [title |-> LaterOf(old.value.title, next.value.title),
                   second |-> MergedField(old.value.second, next.value.second)]]

\* Which of two records stays; a deleted Momentum operation stays deleted.
Merged(old, next) ==
  CASE old = Unset -> next
    [] old # Unset /\ Fields -> MergedFields(old, next)
    [] old # Unset /\ scope.policy = "momentum" /\ old.deleted /\ ~next.deleted -> old
    [] OTHER -> IF Later(next.clock, old.clock) THEN next ELSE old

Refused(local, records) == \E i \in Id : Collides(local[i], records[i])
Prepared(local, records) == [i \in Id |-> Merged(local[i], records[i])]

-----------------------------------------------------------------------------

\* A clock above every record seen: of the journal (Session::write), or of the
\* state.
Counter(d) == counter[d] + 1

\* d takes the records in, and its counter follows their clocks.
Take(d, records) ==
  /\ held' = [held EXCEPT ![d] = Prepared(@, records)]
  /\ counter' = [counter EXCEPT ![d] = Max({@} \cup {records[i].clock[1] : i \in Id})]

Put(d, i, record) ==
  LET records == [j \in Id |-> IF j = i THEN record ELSE Unset] IN
  /\ record.clock[1] <= scope.last
  /\ ~Refused(held[d], records)
  /\ Take(d, records)
  /\ UNCHANGED <<scope, air>>

Write(d, i, deleted) ==
  LET clock == <<Counter(d), d>> IN
  /\ scope.policy = "records"
  /\ Put(d, i, [clock |-> clock, deleted |-> deleted,
                value |-> IF deleted THEN <<0, 0>> ELSE clock])

\* import_records: the application's clocks; it creates an operation once and
\* deletes what it holds under a later clock.
Import(d, i, deleted) ==
  LET clock == <<Counter(d), d>>
      old == held[d][i]
  IN
  /\ scope.policy = "momentum"
  /\ deleted => old # Unset
  /\ ~deleted => ~old.deleted
  /\ ~deleted /\ scope.strict => old = Unset /\ (i % Cardinality(Device)) + 1 = d
  /\ Put(d, i, [clock |-> clock, deleted |-> deleted,
                value |-> IF deleted THEN <<0, 0>>
                          ELSE IF old = Unset THEN clock ELSE old.value])

\* What an edit at the clock makes of the second field's value.
Edited(d, v, clock) ==
  CASE scope.field = "list" -> Union(v, [item \in {clock} |-> 1])
    [] scope.field = "map" -> {<<1, clock>>}
    [] scope.field = "counter" -> [v EXCEPT ![d] = @ + 1]
    [] OTHER -> {clock}

\* RecordState::set and stamp_field_clocks: fields that changed, and all of a
\* record that was deleted, get the new clock.
SetFields(d, i, titled, seconded) ==
  LET clock == <<Counter(d), d>>
      old == IF held[d][i].deleted THEN NoFields ELSE held[d][i].value
  IN
  /\ Fields /\ clock[1] <= scope.last
  /\ held' = [held EXCEPT ![d][i] =
       [clock |-> clock, deleted |-> ~titled /\ ~seconded,
        value |-> IF ~titled /\ ~seconded THEN NoFields
                  ELSE [title |-> IF titled THEN clock ELSE old.title,
                        second |-> IF seconded
                                   THEN [clock |-> clock, v |-> Edited(d, old.second.v, clock)]
                                   ELSE old.second]]]
  /\ counter' = [counter EXCEPT ![d] = clock[1]]
  /\ UNCHANGED <<scope, air>>

\* RecordState::compact prunes tombstones by age or number: any of them.
Compact(d, i) ==
  /\ Fields /\ held[d][i].deleted
  /\ held' = [held EXCEPT ![d][i] = Unset]
  /\ UNCHANGED <<scope, counter, air>>

-----------------------------------------------------------------------------
(* A batch holds what changed after a checkpoint, so any part of it.       *)

Capture(d, e) ==
  /\ d # e
  /\ \E part \in SUBSET {i \in Id : held[d][i] # Unset} \ {{}} :
       air' = {b \in air : ~(b.from = d /\ b.to = e)} \cup
              {[from |-> d, to |-> e,
                records |-> [i \in Id |-> IF i \in part THEN held[d][i] ELSE Unset]]}
  /\ UNCHANGED <<scope, held, counter>>

Deliver(b) ==
  /\ ~Refused(held[b.to], b.records)
  /\ Take(b.to, b.records)
  /\ UNCHANGED <<scope, air>>

\* prepare fails: nothing is committed and the exchange ends with an error.
Refuse(b) ==
  /\ Refused(held[b.to], b.records)
  /\ air' = air \ {b}
  /\ UNCHANGED <<scope, held, counter>>

Next ==
  \/ \E d \in Device, i \in scope.ids, deleted \in BOOLEAN : Write(d, i, deleted) \/ Import(d, i, deleted)
  \/ \E d \in Device, i \in scope.ids, t, s \in BOOLEAN : SetFields(d, i, t, s)
  \/ \E d \in Device, i \in scope.ids : Compact(d, i)
  \/ \E d, e \in Device : Capture(d, e)
  \/ \E b \in air : Deliver(b) \/ Refuse(b)

Spec == Init /\ [][Next]_vars

-----------------------------------------------------------------------------
(* Properties.                                                             *)

\* What must agree of a record: of a list the items, not their order.
Agreed(record) ==
  IF Fields /\ scope.field = "list"
  THEN [record EXCEPT !.value.second.v = DOMAIN @]
  ELSE record

Apart(d, e) ==
  /\ \E i \in Id : Agreed(held[d][i]) # Agreed(held[e][i])
  /\ Prepared(held[d], held[e]) = held[d]
  /\ Prepared(held[e], held[d]) = held[e]

\* Two devices between which a complete exchange changes nothing hold the same
\* records: no merge leaves them apart for good.  The order of a list may differ,
\* as docs/LOGICAL.md says.  Maps under SetUnion are left out, see AlwaysAgree.
SettledAgree ==
  (scope.policy # "momentum" \/ scope.strict) /\ scope.field # "map" => \A d, e \in Device : ~Apart(d, e)

\* The same of applications that import an operation again under a later clock,
\* and of maps under SetUnion.
AlwaysAgree == \A d, e \in Device : ~Apart(d, e)

\* No batch a device can send is one its peer must refuse: prepare refuses a
\* batch whole, so one such record would stop the two for good.
NothingRefused ==
  (scope.policy # "momentum" \/ scope.strict) =>
    \A d, e \in Device : ~Refused(held[d], held[e])

\* A record never gives way to an earlier one, however late a batch comes, and
\* a deleted Momentum operation never lives again.
MovesForward ==
  [][\A d \in Device, i \in Id :
       ~Fields /\ held'[d][i] # held[d][i] =>
         /\ Later(held'[d][i].clock, held[d][i].clock)
         /\ scope.policy = "momentum" /\ held[d][i].deleted => held'[d][i].deleted]_vars
=============================================================================
