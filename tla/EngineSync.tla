----------------------------- MODULE EngineSync -----------------------------
(***************************************************************************)
(* An Engine between its application's data and its peers: engine.rs       *)
(* (sync, watch, auto_refresh), the file adapters of adapter.rs and the    *)
(* logical file adapter of logical.rs, with the parts of sync.rs that call *)
(* an adapter.                                                             *)
(*                                                                         *)
(* Every device runs an engine with one adapter of the same kind:          *)
(*   "json"     JsonFileAdapter and SqliteFileAdapter's main file          *)
(*   "watched"  WatchedFileAdapter                                         *)
(*   "logical"  FileLogicalAdapter behind LogicalAdapterWrapper            *)
(* The content of a file is the user's edit that produced it; a logical    *)
(* file also holds the clock the application gave the edit.  past[e] is    *)
(* the set of edits that led to edit e: its author had them on screen.     *)
(* DeltaSync covers what an exchange sends; here it sends the version.     *)
(***************************************************************************)
EXTENDS Integers, FiniteSets, FiniteSetsExt

CONSTANTS Devices,     \* device ids; their order breaks ties between clocks
          Scopes,      \* [kind, clients, editors, crashes, losses, maxEdit]
          MaxCounter   \* bound on the Lamport counters

EngineAssumption == Devices \subseteq Nat \ {0} /\ MaxCounter \in Nat

VARIABLES scope,       \* the scope of this behaviour
          faults,      \* crashes and lost connections so far
          file,        \* file[d]: the adapter's file, [edit, clock]
          cache,       \* cache[d]: AdapterCache.last_bytes of the loop, or None
          ver,         \* ver[d]: the entry of the adapter's key in State
          counter,     \* counter[d]: State.counter
          disk,        \* disk[d]: the saved state file, [ver, counter]
          client,      \* client[d]: the thread that syncs
          behind,      \* behind[d]: an exchange failed after its merge
          past         \* past[e]: the edits edit e was made on

vars == <<scope, faults, file, cache, ver, counter, disk, client, behind, past>>

None == -1
Edits == DOMAIN past
Logical == scope.kind = "logical"

\* A mutant: equal counters are not told apart.
LessCounterOnly(a, b) == a[1] < b[1]

Less(a, b) == a[1] < b[1] \/ (a[1] = b[1] /\ a[2] < b[2])

Idle == [pc |-> "idle", todo |-> {}, peer |-> 0, msg |-> 0, synced |-> FALSE,
         auto |-> FALSE]

First == [edit |-> 0, clock |-> <<1, Min(Devices)>>]

\* What a file holds once v was written to it: a document has no clock.
Written(v) == IF scope.kind = "logical" THEN v ELSE [v EXCEPT !.clock = <<0, 0>>]

\* Everybody has shared the first content already.
Init ==
  /\ scope \in Scopes
  /\ faults = 0
  /\ file = [d \in Devices |-> Written(First)]
  /\ cache = [d \in Devices |-> None]
  /\ ver = [d \in Devices |-> First]
  /\ counter = [d \in Devices |-> 1]
  /\ disk = [d \in Devices |-> [ver |-> First, counter |-> 1]]
  /\ client = [d \in Devices |-> Idle]
  /\ behind = [d \in Devices |-> FALSE]
  /\ past = [e \in {0} |-> {}]

-----------------------------------------------------------------------------
(* What an adapter does under the state lock.  A state is [ver, counter].  *)

StateOf(d) == [ver |-> ver[d], counter |-> counter[d]]

\* State::set: a fresh clock whatever the content.
SetContent(d, st, edit) ==
  [ver |-> [edit |-> edit, clock |-> <<st.counter + 1, d>>],
   counter |-> st.counter + 1]

\* State::apply_entry: last writer wins, and the counter follows.
Applied(st, v) ==
  [ver |-> IF Less(st.ver.clock, v.clock) THEN v ELSE st.ver,
   counter |-> Max({st.counter, v.clock[1]})]

\* A mutant: records are taken over whatever their clock.
LoadAlways(d, st, f) ==
  IF Logical THEN [st EXCEPT !.ver = f]
  ELSE IF f.edit # st.ver.edit THEN SetContent(d, st, f.edit) ELSE st

\* load_into_state: a file that differs from the entry is a new local version
\* for a document; a record is applied when its clock is later.
Load(d, st, f) ==
  IF Logical
  THEN IF Less(st.ver.clock, f.clock) THEN Applied(st, f) ELSE st
  ELSE IF f.edit # st.ver.edit THEN SetContent(d, st, f.edit) ELSE st

\* sync_tick of the three kinds: [st, file, cache].
JsonTick(d, st, f, c) ==
  LET wrote == c # st.ver.edit
      g == IF wrote THEN Written(st.ver) ELSE f
  IN  [st |-> Load(d, st, g), file |-> g, cache |-> st.ver.edit]

\* The watcher's events say when to read; what was read is remembered.
WatchedTick(d, st, f, c, event) ==
  LET wrote == c # st.ver.edit
      g == IF wrote THEN Written(st.ver) ELSE f
  IN  [st |-> IF event THEN Load(d, st, g) ELSE st, file |-> g,
       cache |-> IF event THEN g.edit ELSE st.ver.edit]

LogicalTick(d, st, f, c) ==
  LET s == Load(d, st, f) IN [st |-> s, file |-> Written(s.ver), cache |-> c]

Ticks(d) ==
  LET st == StateOf(d)
  IN  CASE scope.kind = "json"    -> {JsonTick(d, st, file[d], cache[d])}
        [] scope.kind = "logical" -> {LogicalTick(d, st, file[d], cache[d])}
        [] OTHER -> {WatchedTick(d, st, file[d], cache[d], e) : e \in BOOLEAN}

Fits(st) == st.counter <= MaxCounter

Put(d, st) ==
  /\ Fits(st)
  /\ ver' = [ver EXCEPT ![d] = st.ver]
  /\ counter' = [counter EXCEPT ![d] = st.counter]

-----------------------------------------------------------------------------
(* The user and the process.                                               *)

\* The application saves its file; a logical one advances the record's clock.
Edit(d) ==
  LET e == Cardinality(Edits)
  IN  /\ d \in scope.editors
      /\ e <= scope.maxEdit
      /\ file[d].clock[1] < MaxCounter
      /\ past' = [x \in Edits \cup {e} |->
                    IF x = e THEN past[file[d].edit] \cup {file[d].edit} ELSE past[x]]
      /\ file' = [file EXCEPT ![d] =
                    Written([edit |-> e, clock |-> <<file[d].clock[1] + 1, d>>])]
      /\ UNCHANGED <<scope, faults, cache, ver, counter, disk, client, behind>>

\* A connection ends early: sync() returns, the refresh loop tries the next.
Cut(c) == IF c.auto THEN [c EXCEPT !.pc = "pick", !.peer = 0, !.msg = 0] ELSE Idle
Connected(d) == client[d].pc \in {"loaded", "answered", "merged", "acked"}

\* The process dies and is started again from the saved state.
Crash(d) ==
  /\ faults < scope.crashes
  /\ faults' = faults + 1
  /\ ver' = [ver EXCEPT ![d] = disk[d].ver]
  /\ counter' = [counter EXCEPT ![d] = disk[d].counter]
  /\ cache' = [cache EXCEPT ![d] = None]
  /\ client' = [x \in Devices |->
       IF x = d THEN Idle
       ELSE IF Connected(x) /\ client[x].peer = d THEN Cut(client[x]) ELSE client[x]]
  /\ behind' = [x \in Devices |-> x = d \/ behind[x]
       \/ (client[x].peer = d /\ client[x].pc \in {"merged", "acked"})]
  /\ UNCHANGED <<scope, file, disk, past>>

-----------------------------------------------------------------------------
(* watch and auto_refresh: one loop per device.                            *)

\* Tick and save under the state lock.
TickAndSave(d) ==
  /\ \E t \in Ticks(d) :
       /\ Put(d, t.st)
       /\ file' = [file EXCEPT ![d] = t.file]
       /\ cache' = [cache EXCEPT ![d] = t.cache]
       /\ disk' = [disk EXCEPT ![d] = t.st]
       /\ behind' = [behind EXCEPT ![d] = FALSE]
  /\ UNCHANGED <<scope, faults, past>>

\* A turn of watch, or of auto_refresh when nothing changed and nothing is due.
WatchTurn(d) ==
  /\ ~client[d].auto
  /\ TickAndSave(d)
  /\ UNCHANGED client

\* A turn of auto_refresh: the devices found are refreshed one after another.
RefreshTurn(d, found) ==
  /\ d \in scope.clients
  /\ client[d].pc = "idle"
  /\ TickAndSave(d)
  /\ client' = [client EXCEPT ![d] =
       [Idle EXCEPT !.pc = "pick", !.todo = found, !.auto = TRUE]]

\* The next candidate: its data is loaded again before the exchange.
Candidate(d) ==
  /\ client[d].pc = "pick"
  /\ \E p \in client[d].todo :
       client' = [client EXCEPT ![d].pc = "loaded", ![d].peer = p,
                                ![d].todo = @ \ {p}]
  /\ Put(d, Load(d, StateOf(d), file[d]))
  /\ UNCHANGED <<scope, faults, file, cache, disk, behind, past>>

\* All candidates are done: apply and save if one exchange succeeded.
Refreshed(d) ==
  /\ client[d].pc = "pick"
  /\ client[d].todo = {}
  /\ IF client[d].synced
     THEN /\ file' = [file EXCEPT ![d] = Written(ver[d])]
          /\ disk' = [disk EXCEPT ![d] = StateOf(d)]
          /\ behind' = [behind EXCEPT ![d] = FALSE]
     ELSE UNCHANGED <<file, disk, behind>>
  /\ client' = [client EXCEPT ![d] = Idle]
  /\ UNCHANGED <<scope, faults, cache, ver, counter, past>>

-----------------------------------------------------------------------------
(* Engine::sync and the exchange.                                          *)

\* sync() loads its adapter's data.
Sync(d, p) ==
  /\ d \in scope.clients /\ p # d
  /\ client[d].pc = "idle"
  /\ client' = [client EXCEPT ![d] = [Idle EXCEPT !.pc = "loaded", !.peer = p]]
  /\ Put(d, Load(d, StateOf(d), file[d]))
  /\ UNCHANGED <<scope, faults, file, cache, disk, behind, past>>

\* handle_connection, first lock section: before_export, then the answer.
Serve(d) ==
  LET p == client[d].peer
      st == Load(p, StateOf(p), file[p])
  IN  /\ client[d].pc = "loaded"
      /\ Put(p, st)
      /\ client' = [client EXCEPT ![d].pc = "answered", ![d].msg = st.ver]
      /\ UNCHANGED <<scope, faults, file, cache, disk, behind, past>>

\* run_sync_inner: the outbound delta is computed, then the answer merged.
ClientMerge(d) ==
  /\ client[d].pc = "answered"
  /\ Put(d, Applied(StateOf(d), client[d].msg))
  /\ client' = [client EXCEPT ![d].pc = "merged", ![d].msg = ver[d]]
  /\ UNCHANGED <<scope, faults, file, cache, disk, behind, past>>

\* handle_connection, second lock section: merge, then after_apply.
ListenerMerge(d) ==
  LET p == client[d].peer
      st == Applied(StateOf(p), client[d].msg)
  IN  /\ client[d].pc = "merged"
      /\ Put(p, st)
      /\ file' = [file EXCEPT ![p] = Written(st.ver)]
      /\ client' = [client EXCEPT ![d].pc = "acked"]
      /\ UNCHANGED <<scope, faults, cache, disk, behind, past>>

\* The acknowledgement arrives: sync() has its apply_from_state left to do,
\* the refresh loop goes on to its next candidate.
Done(d) ==
  /\ client[d].pc = "acked"
  /\ client' = [client EXCEPT ![d].pc = IF client[d].auto THEN "pick" ELSE "apply",
                              ![d].synced = TRUE]
  /\ UNCHANGED <<scope, faults, file, cache, ver, counter, disk, behind, past>>

\* sync(): merged data goes to the application's file.
ApplyFromState(d) ==
  /\ client[d].pc = "apply"
  /\ file' = [file EXCEPT ![d] = Written(ver[d])]
  /\ behind' = [behind EXCEPT ![d] = FALSE]
  /\ client' = [client EXCEPT ![d] = Idle]
  /\ UNCHANGED <<scope, faults, cache, ver, counter, disk, past>>

\* The connection is lost or cancelled: sync() returns before it applies.
Fail(d) ==
  /\ faults < scope.losses
  /\ faults' = faults + 1
  /\ Connected(d)
  /\ behind' = [behind EXCEPT ![d] = @ \/ client[d].pc \in {"merged", "acked"}]
  /\ client' = [client EXCEPT ![d] = Cut(client[d])]
  /\ UNCHANGED <<scope, file, cache, ver, counter, disk, past>>

Step(d) ==
  \/ Candidate(d) \/ Refreshed(d) \/ Serve(d) \/ ClientMerge(d)
  \/ ListenerMerge(d) \/ Done(d) \/ ApplyFromState(d)

Next ==
  \E d \in Devices :
    \/ Edit(d) \/ Crash(d) \/ WatchTurn(d) \/ Step(d) \/ Fail(d)
    \/ \E p \in Devices : Sync(d, p)
    \/ \E found \in SUBSET (Devices \ {d}) : RefreshTurn(d, found)

Spec == Init /\ [][Next]_vars

\* Loops turn, an exchange goes on unless it is cut off, and the devices that
\* look for others keep finding them.
Fairness ==
  \A d \in Devices :
    /\ WF_vars(Step(d)) /\ WF_vars(WatchTurn(d))
    /\ \A p \in Devices \ {d} : SF_vars(RefreshTurn(d, {p}))

LiveSpec == Spec /\ Fairness

-----------------------------------------------------------------------------
(* Properties.                                                             *)

Messages == {client[d].msg : d \in {x \in Devices : client[x].pc \in {"answered", "merged", "acked"}}}
Versions == {ver[d] : d \in Devices} \cup {disk[d].ver : d \in Devices} \cup Messages
            \cup (IF Logical THEN {file[d] : d \in Devices} ELSE {})

TypeOK ==
  /\ scope \in Scopes
  /\ \A v \in Versions : v.edit \in Edits /\ v.clock \in (0 .. MaxCounter) \X Devices
  /\ \A d \in Devices :
       /\ file[d].edit \in Edits
       /\ cache[d] \in Edits \cup {None}
       /\ counter[d] \in 0 .. MaxCounter
       /\ client[d].pc \in {"idle", "pick", "loaded", "answered", "merged", "acked", "apply"}
       /\ client[d].pc \in {"idle", "pick"} \/ client[d].peer \in Devices \ {d}
       /\ behind[d] \in BOOLEAN

\* A device that dies before it saved draws the clocks of what it lost once
\* more, and a merge compares nothing else: two contents under one clock stay
\* on two devices for good (state.rs:105-106).
ClockReused(d, p) == ver[d].clock = ver[p].clock /\ ver[d].edit # ver[p].edit

\* Where nobody dies a clock is the identity of a write.
ClockNamesOneEdit ==
  \A v, w \in Versions : v.clock = w.clock => v.edit = w.edit

\* A device at rest does not show its user content that its own state has
\* superseded, unless its last exchange broke off after the merge.
QuietFileIsCurrent ==
  \A d \in Devices :
    client[d].pc = "idle" /\ ~behind[d] => file[d].edit \notin past[ver[d].edit]

\* Last writer wins: content never gives way to content it was made from.
NeverReverts ==
  [][(\E d \in Devices : Crash(d))
     \/ \A d \in Devices : ver'[d].edit \notin past[ver[d].edit]]_vars

\* For logical adapters, whose files carry the clocks of their records.
LogicalNeverReverts ==
  [][(\E d \in Devices : Crash(d)) \/ ~Logical
     \/ \A d \in Devices : ver'[d].edit \notin past[ver[d].edit]]_vars

\* Once users stop editing, every file comes to show the same content, except
\* where a device that died has reused a clock.
FilesAgree ==
  <>[](\A d, p \in Devices : file[d].edit = file[p].edit \/ ClockReused(d, p))

\* The same without the exception: a crash before the save refutes it.
SameFiles == <>[](\A d, p \in Devices : file[d].edit = file[p].edit)
=============================================================================
