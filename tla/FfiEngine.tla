----------------------------- MODULE FfiEngine -----------------------------
(***************************************************************************)
(* The C interface of the engine (crates/libresync-ffi/src/lib.rs): a      *)
(* handle that shares one locked engine with the background tasks it       *)
(* started, an allowlist and an application key in memory, a state file,   *)
(* and the host that creates and frees handles.                            *)
(***************************************************************************)
EXTENDS Integers, FiniteSets, Sequences

CONSTANTS Device,
          MaxTicket,  \* tickets drawn over all handles
          Scopes      \* bounds of the behaviours:
                      \*   adopts   a linking device may bring its application key
                      \*   reopens  handles created
                      \*   hasty    the host creates a handle while tasks of the last run
                      \*   marks    entries stored
                      \*   lists    the host edits the allowlist

FfiAssumption ==
  /\ MaxTicket \in Nat
  /\ \A c \in Scopes : c.adopts \in BOOLEAN /\ c.hasty \in BOOLEAN /\ c.lists \in BOOLEAN
                       /\ c.reopens \in Nat /\ c.marks \in Nat

Ticket == 1 .. MaxTicket
Handle == 1 .. 2     \* the current handle and the one freed before it

VARIABLES
  scope,
  alive,     \* the host holds the current handle
  handle,    \* which of the two engines it is
  engine,    \* engine[h]: [key, marks, allowed], in memory
  lock,      \* lock[h]: the task or call that holds the engine
  ticket,    \* ticket[t]: a background sync: [h, pc, peer, ok]
  tasks,     \* the tickets the handle knows as running
  cancelled, \* cancel tokens raised
  call,      \* a blocking call of the host: [op, pc, key]
  stateFile, \* [key, marks]
  drawn, created, marks,
  events,    \* tickets announced by task_finished
  saved,     \* history: what the state file ever held
  refused    \* history: tickets for which cancel returned false

vars == <<scope, alive, handle, engine, lock, ticket, tasks, cancelled, call, stateFile,
          drawn, created, marks, events, saved, refused>>

HostKey == 1   \* the key of the host's configuration
NoTask == [h |-> 1, pc |-> "none", peer |-> 0, ok |-> FALSE]
NoCall == [op |-> "none", pc |-> "none", key |-> 0]
Free == 0
TheCall == MaxTicket + 1   \* the holder of the lock when it is the host's call

Init ==
  /\ scope \in Scopes
  /\ alive = FALSE /\ handle = 1
  /\ engine = [h \in Handle |-> [key |-> HostKey, marks |-> {}, allowed |-> {}]]
  /\ lock = [h \in Handle |-> Free]
  /\ ticket = [t \in Ticket |-> NoTask]
  /\ tasks = {} /\ cancelled = {}
  /\ call = NoCall
  /\ stateFile = [key |-> HostKey, marks |-> {}]
  /\ drawn = 0 /\ created = 0 /\ marks = 0
  /\ events = <<>>
  /\ saved = {} /\ refused = {}

host == <<alive, handle, created>>
history == <<events, saved, refused>>

-----------------------------------------------------------------------------
(* build_engine: the state file opens with the key of the configuration,   *)
(* or a new state begins.                                                  *)

Loaded == IF stateFile.key = HostKey THEN stateFile.marks ELSE {}

Create ==
  /\ ~alive /\ created < scope.reopens
  /\ scope.hasty \/ \A t \in Ticket : ticket[t].pc \in {"none", "over"}
  \* an engine whose tasks still run is not the one that is built
  /\ \E h \in Handle :
       /\ \A t \in Ticket : ticket[t].h = h => ticket[t].pc \in {"none", "over"}
       /\ handle' = h
       /\ engine' = [engine EXCEPT ![h] =
            [key |-> HostKey, marks |-> Loaded, allowed |-> {}]]
       /\ lock' = [lock EXCEPT ![h] = Free]
  /\ alive' = TRUE
  /\ created' = created + 1
  /\ tasks' = {}
  /\ UNCHANGED <<scope, ticket, cancelled, call, stateFile, drawn, marks, history>>

\* libresync_engine_free: no call is under way; tasks keep the engine.
FreeHandle ==
  /\ alive /\ call = NoCall
  /\ alive' = FALSE
  /\ UNCHANGED <<scope, handle, created, engine, lock, ticket, tasks, cancelled, call,
                 stateFile, drawn, marks, history>>

-----------------------------------------------------------------------------
(* Background syncs.                                                       *)

\* Mutant: the ticket is not known before its thread runs.
SyncUnknown(d) ==
  /\ alive /\ drawn < MaxTicket
  /\ drawn' = drawn + 1
  /\ ticket' = [ticket EXCEPT ![drawn'] = [h |-> handle, pc |-> "waits", peer |-> d, ok |-> FALSE]]
  /\ UNCHANGED <<scope, host, engine, lock, tasks, cancelled, call, stateFile, marks, history>>
\* libresync_engine_sync_async: known as running before the thread starts.
SyncAsync(d) ==
  /\ alive /\ drawn < MaxTicket
  /\ drawn' = drawn + 1
  /\ ticket' = [ticket EXCEPT ![drawn'] = [h |-> handle, pc |-> "waits", peer |-> d, ok |-> FALSE]]
  /\ tasks' = tasks \cup {drawn'}
  /\ UNCHANGED <<scope, host, engine, lock, cancelled, call, stateFile, marks, history>>

\* run_sync takes the engine for the whole exchange.
TakesEngine(t) ==
  /\ ticket[t].pc = "waits" /\ lock[ticket[t].h] = Free
  /\ lock' = [lock EXCEPT ![ticket[t].h] = t]
  /\ ticket' = [ticket EXCEPT ![t].pc = "syncs"]
  /\ UNCHANGED <<scope, host, engine, tasks, cancelled, call, stateFile, drawn, marks, history>>

\* Mutant: an exchange that fails returns with the engine still locked.
ExchangeKeepsLock(t) ==
  /\ ticket[t].pc = "syncs"
  /\ \E ok \in IF t \in cancelled THEN {FALSE} ELSE BOOLEAN :
       ticket' = [ticket EXCEPT ![t].pc = IF ok THEN "saves" ELSE "ends", ![t].ok = ok]
  /\ UNCHANGED <<scope, host, engine, lock, tasks, cancelled, call, stateFile, drawn, marks,
                 history>>

\* Entries arrive, and may have when the exchange fails or is cancelled.
Exchange(t) ==
  LET h == ticket[t].h IN
  /\ ticket[t].pc = "syncs"
  /\ \E ok \in IF t \in cancelled THEN {FALSE} ELSE BOOLEAN :
       /\ engine' = [engine EXCEPT ![h].allowed = IF ok /\ scope.lists THEN @ \cup {ticket[t].peer} ELSE @,
                                   ![h].marks = IF marks < scope.marks THEN @ \cup {marks + 1} ELSE @]
       /\ marks' = IF marks < scope.marks THEN marks + 1 ELSE marks
       /\ ticket' = [ticket EXCEPT ![t].pc = IF ok THEN "saves" ELSE "ends", ![t].ok = ok]
       /\ lock' = IF ok THEN lock ELSE [lock EXCEPT ![h] = Free]
  /\ UNCHANGED <<scope, host, tasks, cancelled, call, stateFile, drawn, history>>

Saves(t) ==
  LET h == ticket[t].h IN
  /\ ticket[t].pc = "saves"
  /\ stateFile' = [key |-> engine[h].key, marks |-> engine[h].marks]
  /\ saved' = saved \cup engine[h].marks
  /\ lock' = [lock EXCEPT ![h] = Free]
  /\ ticket' = [ticket EXCEPT ![t].pc = "ends"]
  /\ UNCHANGED <<scope, host, engine, tasks, cancelled, call, drawn, marks, events, refused>>

\* The ticket is forgotten, then announced.
Forgets(t) ==
  /\ ticket[t].pc = "ends"
  /\ tasks' = tasks \ {t}
  /\ ticket' = [ticket EXCEPT ![t].pc = "announces"]
  /\ UNCHANGED <<scope, host, engine, lock, cancelled, call, stateFile, drawn, marks, history>>

Announces(t) ==
  /\ ticket[t].pc = "announces"
  /\ events' = Append(events, t)
  /\ ticket' = [ticket EXCEPT ![t].pc = "over"]
  /\ UNCHANGED <<scope, host, engine, lock, tasks, cancelled, call, stateFile, drawn, marks,
                 saved, refused>>

\* libresync_engine_cancel
Cancel(t) ==
  /\ alive /\ t <= drawn /\ ticket[t].h = handle
  /\ IF t \in tasks
     THEN cancelled' = cancelled \cup {t} /\ UNCHANGED refused
     ELSE refused' = refused \cup {t} /\ UNCHANGED cancelled
  /\ UNCHANGED <<scope, host, engine, lock, ticket, tasks, call, stateFile, drawn, marks,
                 events, saved>>

-----------------------------------------------------------------------------
(* Blocking calls of the host, one at a time, and the listener's threads.  *)

\* libresync_engine_save_state reads the key before it waits for the engine.
SaveState ==
  /\ alive /\ call = NoCall
  /\ call' = [op |-> "save", pc |-> "waits", key |-> engine[handle].key]
  /\ UNCHANGED <<scope, host, engine, lock, ticket, tasks, cancelled, stateFile, drawn, marks,
                 history>>

SaveStateEnds ==
  /\ call.op = "save" /\ lock[handle] = Free
  /\ stateFile' = [key |-> call.key, marks |-> engine[handle].marks]
  /\ saved' = saved \cup engine[handle].marks
  /\ call' = NoCall
  /\ UNCHANGED <<scope, host, engine, lock, ticket, tasks, cancelled, drawn, marks, events,
                 refused>>

\* libresync_engine_link holds the engine across the network; the listener that
\* accepts adopts this device's key, so the key here stays.
Link(d) ==
  /\ alive /\ scope.lists /\ call = NoCall /\ lock[handle] = Free
  /\ engine' = [engine EXCEPT ![handle].allowed = @ \cup {d}]
  /\ UNCHANGED <<scope, host, lock, ticket, tasks, cancelled, call, stateFile, drawn, marks,
                 history>>

\* FfiHandler on a listener's thread: auto_accept approves a device without
\* listing it, and its key replaces the one in memory.
LinkAccepted ==
  /\ alive /\ scope.adopts
  /\ engine' = [engine EXCEPT ![handle].key = HostKey + 1]
  /\ UNCHANGED <<scope, host, lock, ticket, tasks, cancelled, call, stateFile, drawn, marks,
                 history>>

AllowlistClear ==
  /\ alive /\ scope.lists /\ call = NoCall
  /\ engine' = [engine EXCEPT ![handle].allowed = {}]
  /\ UNCHANGED <<scope, host, lock, ticket, tasks, cancelled, call, stateFile, drawn, marks,
                 history>>

\* A background sync that holds the engine, or no longer needs it.
Proceeds(t) == Exchange(t) \/ Saves(t) \/ Forgets(t) \/ Announces(t)

Next ==
  \/ Create \/ FreeHandle \/ SaveState \/ SaveStateEnds \/ LinkAccepted \/ AllowlistClear
  \/ \E d \in Device : SyncAsync(d) \/ Link(d)
  \/ \E t \in Ticket : TakesEngine(t) \/ Proceeds(t) \/ Cancel(t)

Spec == Init /\ [][Next]_vars

\* The threads of the tasks run, and the engine's lock passes to each that waits.
Fairness ==
  \A t \in Ticket :
    /\ SF_vars(TakesEngine(t))
    /\ WF_vars(Proceeds(t))

LiveSpec == Spec /\ Fairness

-----------------------------------------------------------------------------
(* Properties.                                                             *)

\* What a sync or save_state reported as saved is never gone from the state the
\* next handle loads: no save of an older engine or under another key hides it.
SavedIsKept == saved \subseteq Loaded

\* Cancel finds every sync that still runs, and says a ticket is unknown only
\* once it is past every point where it could be stopped.
CancelTruthful ==
  /\ \A t \in refused : ticket[t].pc \in {"announces", "over"}
  /\ \A t \in Ticket : alive /\ ticket[t].h = handle /\ ticket[t].pc = "syncs" => t \in tasks

\* Every background sync is announced, whichever holds the engine before it,
\* whether it is cancelled, and after a free of its handle too.
EverythingAnnounced ==
  \A t \in Ticket : ticket[t].pc = "waits" ~> \E i \in DOMAIN events : events[i] = t
=============================================================================
