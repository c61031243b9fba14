---------------------------- MODULE SqliteFiles -----------------------------
(***************************************************************************)
(* SqliteFileAdapter (adapter.rs): a database is three entries of the      *)
(* State, each merged on its own by the later clock: the main file, the    *)
(* page delta on top of it, and the write-ahead log beside it (the         *)
(* shared-memory file goes the way of the log).  A database is the         *)
(* sequence of its pages; what a page says is the number of the edit that  *)
(* wrote it.  The log is the pages its frames replace.                     *)
(*                                                                         *)
(* EngineSync has the exchange in steps; here a batch is merged and        *)
(* written out at once, as a listener does.                                *)
(***************************************************************************)
EXTENDS Integers, Sequences, FiniteSets

CONSTANTS
  Device,
  Writers,   \* devices whose user has the database open
  Modes,     \* "wal": logged, synced on demand; "watched": not logged, and a
             \* loop ticks; "both": logged, and a loop ticks
  MaxPages,
  MaxEdit    \* bound on the edits

SqliteAssumption ==
  /\ Device \subseteq Nat \ {0} /\ Writers \subseteq Device
  /\ Modes \subseteq {"wal", "watched", "both"}
  /\ MaxPages \in Nat /\ MaxEdit \in Nat

VARIABLES
  mode,
  file,    \* file[d]: the main file
  wal,     \* wal[d]: the log
  state,   \* state[d]: [base, delta, wal: entries, counter]
  cache,   \* cache[d]: AdapterCache of the loop: [main, wal]
  air,     \* batches not delivered: [from, to, state]
  saved    \* history: the databases users have saved, in order

vars == <<mode, file, wal, state, cache, air, saved>>

NoDelta == [size |-> 0, pages |-> <<>>]      \* stored as no bytes
NoCache == [main |-> <<-1>>, wal |-> [size |-> -1, pages |-> <<>>]]
First == <<0, 0>>                            \* everybody has this database

Init ==
  /\ mode \in Modes
  /\ file = [d \in Device |-> First]
  /\ wal = [d \in Device |-> NoDelta]
  /\ state = [d \in Device |->
       [base |-> [clock |-> <<1, 1>>, value |-> First],
        delta |-> [clock |-> <<2, 1>>, value |-> NoDelta],
        wal |-> [clock |-> <<3, 1>>, value |-> NoDelta], counter |-> 3]]
  /\ cache = [d \in Device |-> NoCache]
  /\ air = {}
  /\ saved = <<First>>

-----------------------------------------------------------------------------
(* Page deltas.                                                            *)

\* compute_page_delta: the pages that differ.
PageDelta(base, current) ==
  [size |-> Len(current),
   pages |-> [i \in {j \in 1 .. Len(current) : j > Len(base) \/ base[j] # current[j]}
                |-> current[i]]]

\* apply_page_delta
Patched(base, delta) ==
  [i \in 1 .. delta.size |->
     IF i \in DOMAIN delta.pages THEN delta.pages[i]
     ELSE IF i <= Len(base) THEN base[i] ELSE 0]

\* Its encoding is shorter than the file: fewer pages, for what the properties
\* tell apart.
Shorter(delta, current) == Cardinality(DOMAIN delta.pages) < Len(current)

\* State::set, when the value is another.
Stored(d, st, k, v) ==
  IF st[k].value = v THEN st
  ELSE [st EXCEPT ![k] = [clock |-> <<st.counter + 1, d>>, value |-> v],
                  !.counter = @ + 1]

\* A mutant: a new main file leaves the delta as it was.
UpdateKeepsDelta(d, st, bytes) ==
  LET delta == PageDelta(st.base.value, bytes)
  IN  IF DOMAIN delta.pages = {} THEN Stored(d, st, "delta", NoDelta)
      ELSE IF Shorter(delta, bytes) THEN Stored(d, st, "delta", delta)
      ELSE Stored(d, st, "base", bytes)

\* update_state_with_sqlite_bytes, with_page_delta.  A file that was only cut
\* off at the end of a page has no page that differs, so it becomes the main
\* file again.
Update(d, st, bytes) ==
  LET delta == PageDelta(st.base.value, bytes)
  IN  IF DOMAIN delta.pages = {} THEN Stored(d, st, "delta", NoDelta)
      ELSE IF Shorter(delta, bytes) THEN Stored(d, st, "delta", delta)
      ELSE Stored(d, Stored(d, st, "base", bytes), "delta", NoDelta)

\* bytes_from_state
Bytes(st) ==
  IF st.delta.value = NoDelta THEN st.base.value ELSE Patched(st.base.value, st.delta.value)

\* load_into_state
Loaded(d) == Stored(d, Update(d, state[d], file[d]), "wal", wal[d])

-----------------------------------------------------------------------------
(* The application.                                                        *)

\* What SQLite reads.
Shown(d) == IF wal[d] = NoDelta THEN file[d] ELSE Patched(file[d], wal[d])

\* A transaction is committed, to the log or to the file.
Commit(d) ==
  /\ d \in Writers /\ Len(saved) <= MaxEdit
  /\ \E n \in 1 .. MaxPages : \E changed \in (SUBSET (1 .. n)) \ {{}} :
       LET next == [i \in 1 .. n |->
                      IF i \in changed \/ i > Len(Shown(d)) THEN Len(saved) ELSE Shown(d)[i]]
       IN  /\ saved' = Append(saved, next)
           /\ IF mode = "watched"
              THEN file' = [file EXCEPT ![d] = next] /\ UNCHANGED wal
              ELSE wal' = [wal EXCEPT ![d] = PageDelta(file[d], next)] /\ UNCHANGED file
  /\ UNCHANGED <<mode, state, cache, air>>

\* SQLite moves the log into the file.
Checkpoint(d) ==
  /\ d \in Writers /\ wal[d] # NoDelta
  /\ file' = [file EXCEPT ![d] = Shown(d)]
  /\ wal' = [wal EXCEPT ![d] = NoDelta]
  /\ UNCHANGED <<mode, state, cache, air, saved>>

-----------------------------------------------------------------------------
(* The adapter.                                                            *)

\* sync_tick: what the loop has not written yet is written, then both files are
\* read.
Tick(d) ==
  LET bytes == Bytes(state[d])
      main == IF cache[d].main # bytes THEN bytes ELSE file[d]
      log == IF cache[d].wal # state[d].wal.value THEN state[d].wal.value ELSE wal[d]
  IN  /\ mode \in {"watched", "both"}
      /\ file' = [file EXCEPT ![d] = main]
      /\ wal' = [wal EXCEPT ![d] = log]
      /\ state' = [state EXCEPT ![d] = Stored(d, Update(d, @, main), "wal", log)]
      /\ cache' = [cache EXCEPT ![d] = [main |-> bytes, wal |-> log]]
      /\ UNCHANGED <<mode, air, saved>>

\* The data is loaded and a batch of it leaves; the one before is lost.
Send(d, e) ==
  /\ d # e
  /\ state' = [state EXCEPT ![d] = Loaded(d)]
  /\ air' = {b \in air : ~(b.from = d /\ b.to = e)} \cup
            {[from |-> d, to |-> e, state |-> Loaded(d)]}
  /\ UNCHANGED <<mode, file, wal, cache, saved>>

Later(a, b) == a[1] > b[1] \/ (a[1] = b[1] /\ a[2] > b[2])

\* Each entry by the later clock.
Merged(st, from) ==
  LET Pick(k) == IF Later(from[k].clock, st[k].clock) THEN from[k] ELSE st[k]
  IN  [base |-> Pick("base"), delta |-> Pick("delta"), wal |-> Pick("wal"),
       counter |-> IF from.counter > st.counter THEN from.counter ELSE st.counter]

\* apply_from_state
Deliver(b) ==
  LET st == Merged(state[b.to], b.state)
  IN  /\ state' = [state EXCEPT ![b.to] = st]
      /\ file' = [file EXCEPT ![b.to] = Bytes(st)]
      /\ wal' = [wal EXCEPT ![b.to] = st.wal.value]
      /\ UNCHANGED <<mode, cache, air, saved>>

Next ==
  \/ \E d \in Device : Commit(d) \/ Checkpoint(d) \/ Tick(d) \/ \E e \in Device : Send(d, e)
  \/ \E b \in air : Deliver(b)

Spec == Init /\ [][Next]_vars

-----------------------------------------------------------------------------
(* Properties.                                                             *)

\* A database shows what its user saved at some time, never the pages of two
\* versions: parts that are merged, cached and written on their own stay parts
\* of one.
WholeDatabase ==
  \A d \in Device : \E i \in DOMAIN saved : Shown(d) = saved[i]
=============================================================================
