------------------------------ MODULE MCHosts -------------------------------
(***************************************************************************)
(* The ways a host application uses the library from its threads, checked  *)
(* together: the event queue with its wake-ups and the C interface of the  *)
(* engine and of managed sessions.  The constants of the C interface are   *)
(* those of this module, so that HostProofs speaks of all their values.    *)
(***************************************************************************)
EXTENDS Bounds

CONSTANTS
  Device, MaxTicket, HostScopes,  \* FfiEngine
  Caller, MaxId, MaxSubs          \* FfiSessions

ConsumerMixes == {{"d1", "d2"}, {"d1", "s1", "b1"}}

VARIABLES
  part,  \* the part whose behaviour this is; the others do nothing
  notifier_mix, notifier_emitted, notifier_queued, notifier_signaled,
  notifier_unread, notifier_waker, notifier_pc,
  ffi_scope, ffi_alive, ffi_handle, ffi_engine, ffi_lock, ffi_ticket, ffi_tasks,
  ffi_cancelled, ffi_call, ffi_stateFile, ffi_drawn, ffi_created, ffi_marks,
  ffi_events, ffi_saved, ffi_refused,
  sessions_next, sessions_registry, sessions_phase, sessions_context,
  sessions_subs, sessions_caller

\* Two emitters and the consumers of one mix.
N == INSTANCE EventNotifier WITH
  Emitter <- {"e1", "e2"}, Drain <- {"d1", "d2"}, Single <- {"s1"},
  Blocking <- {"b1"}, Mixes <- ConsumerMixes, MaxEvents <- 2, mix <- notifier_mix,
  emitted <- notifier_emitted, queued <- notifier_queued,
  signaled <- notifier_signaled, unread <- notifier_unread,
  waker <- notifier_waker, pc <- notifier_pc
notifier_vars ==
  <<notifier_mix, notifier_emitted, notifier_queued, notifier_signaled,
  notifier_unread, notifier_waker, notifier_pc>>

\* One host thread, the tasks of its background syncs, two engines.
F == INSTANCE FfiEngine WITH
  Scopes <- HostScopes, scope <- ffi_scope,
  alive <- ffi_alive, handle <- ffi_handle, engine <- ffi_engine, lock <- ffi_lock,
  ticket <- ffi_ticket, tasks <- ffi_tasks, cancelled <- ffi_cancelled,
  call <- ffi_call, stateFile <- ffi_stateFile, drawn <- ffi_drawn,
  created <- ffi_created, marks <- ffi_marks, events <- ffi_events,
  saved <- ffi_saved, refused <- ffi_refused
ffi_vars ==
  <<ffi_scope, ffi_alive, ffi_handle, ffi_engine, ffi_lock, ffi_ticket, ffi_tasks,
  ffi_cancelled, ffi_call, ffi_stateFile, ffi_drawn, ffi_created, ffi_marks,
  ffi_events, ffi_saved, ffi_refused>>

\* Threads that open, use and close sessions.
S == INSTANCE FfiSessions WITH
  next <- sessions_next,
  registry <- sessions_registry, phase <- sessions_phase,
  context <- sessions_context, subs <- sessions_subs, caller <- sessions_caller
sessions_vars ==
  <<sessions_next, sessions_registry, sessions_phase, sessions_context,
  sessions_subs, sessions_caller>>

ASSUME MCHostsConstants ==
  /\ N!NotifierConstants
  /\ F!FfiAssumption
  /\ S!FfiSessionsAssumption

all == <<part, notifier_vars, ffi_vars, sessions_vars>>

\* A part that is not looked at stays in one of its initial states.
HostsInit ==
  /\ part \in {"notifier", "ffi", "sessions"}
  /\ N!Init /\ (part = "notifier" \/ notifier_mix = {"d1", "d2"})
  /\ F!Init /\ (part = "ffi" \/ ffi_scope = CHOOSE s \in HostScopes : TRUE)
  /\ S!Init

\* Only that part moves.
HostsNext ==
  \/ /\ part = "notifier" /\ N!Next
     /\ UNCHANGED <<part, ffi_vars, sessions_vars>>
  \/ /\ part = "ffi" /\ F!Next
     /\ UNCHANGED <<part, notifier_vars, sessions_vars>>
  \/ /\ part = "sessions" /\ S!Next
     /\ UNCHANGED <<part, notifier_vars, ffi_vars>>

HostsSpec == HostsInit /\ [][HostsNext]_all

\* The fairness of each part, while it is the one that moves.
HostsFairness ==
  /\ \A t \in {"e1", "e2", "d1", "d2", "s1", "b1"} :
       WF_notifier_vars(part = "notifier" /\ N!Signal(t))
  /\ \A c \in {"d1", "d2", "s1", "b1"} :
       WF_notifier_vars(part = "notifier" /\ c \in notifier_mix /\ N!Receive(c))
  /\ \A t \in F!Ticket :
       /\ SF_ffi_vars(part = "ffi" /\ F!TakesEngine(t))
       /\ WF_ffi_vars(part = "ffi" /\ F!Proceeds(t))
  /\ \A c \in Caller : WF_sessions_vars(part = "sessions" /\ S!Proceeds(c))

HostsLiveSpec == HostsSpec /\ HostsFairness

-----------------------------------------------------------------------------
(* Properties, each stated in the module of its part.                      *)

\* Consumers that drain the queue take every event.
EventsTaken == part = "notifier" => N!EventsTaken

\* libresync_engine_cancel finds every sync that still runs.
CancelTruthful == part = "ffi" => F!CancelTruthful

\* Every background sync is announced by task_finished.
EverythingAnnounced == part = "ffi" => F!EverythingAnnounced

\* The callbacks' context is released after everything that may call it.
ContextReleasedLast == part = "sessions" => S!ContextReleasedLast

\* A closed session ends, whatever calls were in flight.
ClosedEnds == part = "sessions" => S!ClosedEnds
=============================================================================
