---------------------------- MODULE MappedTable -----------------------------
(***************************************************************************)
(* SqliteLogicalAdapter (sqlite_logical.rs) on a mapped table: a row of    *)
(* the application's own table becomes a record, whose clock and tombstone *)
(* are in a sidecar table that the application does not know.  Between     *)
(* devices the record is merged by logical.rs.  Modelled is one id, with   *)
(* one column whose content is the number of the edit that wrote it.       *)
(***************************************************************************)
EXTENDS Integers, FiniteSets

CONSTANTS Device,
          Scopes   \* bounds of the behaviours:
                   \*   sql    devices whose application writes its table
                   \*   again  it writes a row again once the adapter knows it
                   \*   api    devices where records are set in the state
                   \*   edits, losses   how many edits and lost states

MappedTableAssumption ==
  /\ Device \subseteq Nat \ {0}
  /\ \A c \in Scopes : c.sql \subseteq Device /\ c.api \subseteq Device
                       /\ c.again \in BOOLEAN /\ c.edits \in Nat /\ c.losses \in Nat

VARIABLES
  scope,
  row,      \* row[d]: the row of the data table, NoRow or its content
  meta,     \* meta[d]: the row of the sidecar table: [clock, deleted]
  rec,      \* rec[d]: the record in d's State: [clock, deleted, v, at]
  counter,  \* counter[d]: State.counter
  air,      \* batches captured and not merged: [from, to, rec]
  syncing,  \* devices with a sync that has loaded and not yet applied
  past,     \* past[e]: the edits edit e was made on
  lost      \* states lost so far

vars == <<scope, row, meta, rec, counter, air, syncing, past, lost>>

NoRow == -1
Null == 0                     \* a row that was written without a value
Bootstrap == <<0, 0>>         \* the clock of a row without a sidecar row
NoClock == <<-1, 0>>
NoMeta == [clock |-> NoClock, deleted |-> FALSE]
\* at is the clock of the field; v = NoRow: the record has no fields.
Unset == [clock |-> NoClock, deleted |-> FALSE, v |-> NoRow, at |-> NoClock]
Edits == DOMAIN past

Init ==
  /\ scope \in Scopes
  /\ row = [d \in Device |-> NoRow]
  /\ meta = [d \in Device |-> NoMeta]
  /\ rec = [d \in Device |-> Unset]
  /\ counter = [d \in Device |-> 0]
  /\ air = {}
  /\ syncing = {}
  /\ past = [e \in {NoRow, Null} |-> {}]
  /\ lost = 0

Later(a, b) == a[1] > b[1] \/ (a[1] = b[1] /\ a[2] > b[2])
LaterOf(a, b) == IF Later(a, b) THEN a ELSE b
Follow(n, r) == IF r.clock[1] > n THEN r.clock[1] ELSE n

-----------------------------------------------------------------------------
(* The adapter.                                                            *)

\* load_records_mapped: a row, or a sidecar row that is left without one.
Stored(d) ==
  CASE row[d] # NoRow /\ meta[d] = NoMeta ->
         [clock |-> Bootstrap, deleted |-> FALSE, v |-> row[d], at |-> Bootstrap]
    [] meta[d] # NoMeta ->
         [clock |-> meta[d].clock, deleted |-> meta[d].deleted, v |-> row[d],
          at |-> meta[d].clock]
    [] OTHER -> Unset

\* RecordState::apply: taken if its clock is later; the field keeps its clock
\* when it says the same.
Loaded(d) ==
  LET new == Stored(d) IN
  IF ~Later(new.clock, rec[d].clock) THEN rec[d]
  ELSE IF ~rec[d].deleted /\ new.v = rec[d].v THEN [new EXCEPT !.at = rec[d].at]
  ELSE new

Load(d) ==
  /\ rec' = [rec EXCEPT ![d] = Loaded(d)]
  /\ counter' = [counter EXCEPT ![d] = Follow(@, Loaded(d))]

\* A mutant: a row stays until the device itself deletes it.
RowOfKept(d, r) ==
  IF r = Unset \/ r.deleted THEN row[d] ELSE IF r.v = NoRow THEN Null ELSE r.v

\* apply_records_mapped: one transaction writes the row, or deletes it for a
\* tombstone, and writes its sidecar row.
RowOf(d, r) ==
  CASE r = Unset -> row[d]
    [] r.deleted -> NoRow
    [] OTHER -> IF r.v = NoRow THEN Null ELSE r.v

MetaOf(d, r) ==
  IF r = Unset THEN meta[d] ELSE [clock |-> r.clock, deleted |-> r.deleted]

Write(d, r) ==
  /\ row' = [row EXCEPT ![d] = RowOf(d, r)]
  /\ meta' = [meta EXCEPT ![d] = MetaOf(d, r)]

\* merge_records: what comes in wins a tie.
Merged(old, new) ==
  CASE new = Unset -> old
    [] new # Unset /\ old = Unset -> new
    [] new # Unset /\ old # Unset /\ (old.deleted \/ new.deleted) ->
         IF Later(old.clock, new.clock) THEN old ELSE new
    [] OTHER ->
         LET field == IF new.v = NoRow \/ (old.v # NoRow /\ Later(old.at, new.at))
                      THEN old ELSE new
         IN  [clock |-> LaterOf(old.clock, new.clock), deleted |-> FALSE,
              v |-> field.v, at |-> field.at]

-----------------------------------------------------------------------------
(* The application and the engine.                                         *)

\* The application inserts, updates or deletes its row.
Change(d) ==
  LET e == Cardinality(Edits) IN
  /\ d \in scope.sql /\ e - 2 < scope.edits
  /\ scope.again \/ (row[d] = NoRow /\ meta[d] = NoMeta /\ rec[d] = Unset)
  /\ \/ /\ row' = [row EXCEPT ![d] = e]
        /\ past' = [x \in Edits \cup {e} |->
                      IF x = e THEN past[row[d]] \cup {row[d]} ELSE past[x]]
     \/ /\ row[d] # NoRow
        /\ row' = [row EXCEPT ![d] = NoRow]
        /\ past' = [x \in Edits \cup {e} |-> IF x = e THEN {} ELSE past[x]]
  /\ UNCHANGED <<scope, meta, rec, counter, air, syncing, lost>>

\* RecordState::set, of content or of a tombstone.
Set(d, deleted) ==
  LET e == Cardinality(Edits)
      clock == <<counter[d] + 1, d>>
  IN
  /\ d \in scope.api /\ e - 2 < scope.edits
  /\ rec' = [rec EXCEPT ![d] =
       [clock |-> clock, deleted |-> deleted, v |-> IF deleted THEN NoRow ELSE e,
        at |-> clock]]
  /\ counter' = [counter EXCEPT ![d] = @ + 1]
  /\ past' = [x \in Edits \cup {e} |->
                IF x = e THEN past[rec[d].v] \cup {rec[d].v} ELSE past[x]]
  /\ UNCHANGED <<scope, row, meta, air, syncing, lost>>

\* sync_tick: load, then apply, under the state lock.
Tick(d) ==
  /\ Load(d)
  /\ Write(d, Loaded(d))
  /\ UNCHANGED <<scope, air, syncing, past, lost>>

\* Engine::sync or a refresh begins: it loads.
Sync(d) ==
  /\ d \notin syncing
  /\ Load(d)
  /\ syncing' = syncing \cup {d}
  /\ UNCHANGED <<scope, row, meta, air, past, lost>>

\* A sync or a listener sends what is in its state; the batch before is lost.
Send(d, e) ==
  /\ {d, e} \cap syncing # {} /\ d # e /\ rec[d] # Unset
  /\ air' = {b \in air : ~(b.from = d /\ b.to = e)} \cup
            {[from |-> d, to |-> e, rec |-> rec[d]]}
  /\ UNCHANGED <<scope, row, meta, rec, counter, syncing, past, lost>>

\* apply_entries; what is merged is applied to the table in a later step.
Deliver(b) ==
  /\ rec' = [rec EXCEPT ![b.to] = Merged(@, b.rec)]
  /\ counter' = [counter EXCEPT ![b.to] = Follow(@, b.rec)]
  /\ air' = air \ {b}
  /\ UNCHANGED <<scope, row, meta, syncing, past, lost>>

\* apply_from_state ends the sync; one that failed did not come to it.
Apply(d) ==
  /\ d \in syncing
  /\ syncing' = syncing \ {d}
  /\ Write(d, rec[d]) \/ UNCHANGED <<row, meta>>
  /\ UNCHANGED <<scope, rec, counter, air, past, lost>>

\* The program ends, and the state file is gone; the tables are as they were.
Forget(d) ==
  /\ lost < scope.losses
  /\ lost' = lost + 1
  /\ rec' = [rec EXCEPT ![d] = Unset]
  /\ counter' = [counter EXCEPT ![d] = 0]
  /\ syncing' = syncing \ {d}
  /\ air' = {b \in air : d \notin {b.from, b.to}}
  /\ UNCHANGED <<scope, row, meta, past>>

Next ==
  \/ \E d \in Device : \/ Change(d) \/ Tick(d) \/ Sync(d) \/ Apply(d) \/ Forget(d)
                       \/ \E deleted \in BOOLEAN : Set(d, deleted)
                       \/ \E e \in Device : Send(d, e)
  \/ \E b \in air : Deliver(b)

Spec == Init /\ [][Next]_vars

-----------------------------------------------------------------------------
(* Properties.                                                             *)

\* Nothing a tick or an exchange between d and e could still change.
Settled(d, e) ==
  /\ Loaded(d) = rec[d] /\ Loaded(e) = rec[e]
  /\ Merged(rec[d], rec[e]) = rec[d] /\ Merged(rec[e], rec[d]) = rec[e]
  /\ \A x \in {d, e} : row[x] = RowOf(x, rec[x]) /\ meta[x] = MetaOf(x, rec[x])

\* The tables of two devices that have nothing left to exchange show the same,
\* rows without a sidecar row and lost states included.
RowsAgree == \A d, e \in Device : Settled(d, e) => row[d] = row[e]

\* docs/LOGICAL.md, Field clocks: when the adapter loads records, "fields whose
\* value differs from the stored version get the record's clock".  Hence what the
\* application wrote last does not give way to what it was written over.
EditsSurvive ==
  [][\A d \in Device : row[d] # NoRow => row'[d] \notin past[row[d]] \ {NoRow}]_vars

\* Without such edits nothing a tick or an exchange writes is older than what the
\* row shows: a write of the adapter is not mistaken for one of the application.
RowsForward ==
  [][scope.again \/ \A d \in Device :
       row[d] # NoRow => row'[d] \notin past[row[d]] \ {NoRow}]_vars
=============================================================================
