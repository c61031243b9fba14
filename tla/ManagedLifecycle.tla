--------------------------- MODULE ManagedLifecycle ---------------------------
(***************************************************************************)
(* The lifecycle of one managed Session                                    *)
(* (crates/libresync/src/session/network.rs): start, pause, shutdown and   *)
(* resume, the scheduler and inbound workers a run owns, the registry of   *)
(* cancellable operations, and the calls that pause, resume or remove a    *)
(* peer while exchanges with it are under way.                             *)
(*                                                                         *)
(* The journal is one mutex (Inner::mutate), so every mutate is one action; *)
(* between two of them the threads interleave.  A save that fails leaves    *)
(* the outcome uncertain, and every later mutate is refused.  What an      *)
(* exchange transfers is abstracted to Publish, a mutate that passes       *)
(* `check`.                                                                *)
(***************************************************************************)
EXTENDS Integers, FiniteSets

CONSTANTS
  Peer,            \* enrolled peers
  App,             \* application threads calling the Session
  Worker,          \* inbound worker threads (at most 32 in the code)
  Calls,           \* the API calls the application makes
  MaxGeneration    \* bound: calls that raise the generation stop here

ASSUME LifecycleConstants ==
  /\ Calls \subseteq {"start", "pause", "shutdown", "pause_peer", "remove_peer",
                      "resume_peer", "consent_cancel", "cancel_operations"}
  /\ MaxGeneration \in Nat
  /\ "scheduler" \notin Worker
  /\ "none" \notin App \cup Peer

Scheduler == "scheduler"
Thread == Worker \cup {Scheduler}
None == "none"

VARIABLES
  phase,       \* Envelope::phase
  generation,  \* Envelope::generation
  pstate,      \* pstate[p]: Peer::state
  pending,     \* peers with a bootstrap preview awaiting consent
  revoked,     \* removed peers
  uncertain,   \* Inner::storage_uncertain: no mutate succeeds any more
  lifecycle,   \* the application thread holding the lifecycle lock
  running,     \* Inner::runtime holds a Runtime
  stopping,    \* the runtime's CancelToken is cancelled
  op,          \* op[t]: thread t's entry in Inner::operations
  thread,      \* thread[t]: step, peer and generation of a runtime thread
  todo,        \* peers the scheduler still has to contact in this pass
  app,         \* app[a]: call, step and arguments of an application thread
  muted,       \* peers paused by a call that took effect, and not resumed
  outdated,    \* threads whose exchange began before the last fence
  late,        \* threads that published something while outdated
  astray       \* the last start failed after its mutate, or a stop before it

journal == <<phase, generation, pstate, pending, revoked, uncertain>>
history == <<muted, outdated, late, astray>>
vars == <<journal, lifecycle, running, stopping, op, thread, todo, app, history>>

PeerState == {"waiting", "up_to_date", "needs_merge", "needs_repair", "paused"}
Idle == [pc |-> "idle", peer |-> None, generation |-> 0]
Ready == [call |-> None, pc |-> "ready", peer |-> None, restart |-> FALSE]

ThreadPC == {"idle", "loop", "context", "guard", "exchange", "failed"}
AppPC == {"ready", "note", "lock", "fence", "cancel", "scan", "join", "lock_start",
          "fence_start", "spawn"}

TypeOK ==
  /\ phase \in {"stopped", "running", "paused"}
  /\ generation \in Nat
  /\ pstate \in [Peer -> PeerState]
  /\ pending \subseteq Peer
  /\ revoked \subseteq Peer
  /\ lifecycle \in App \cup {None}
  /\ running \in BOOLEAN
  /\ stopping \in BOOLEAN
  /\ op \in [Thread -> {"none", "live", "cancelled"}]
  /\ thread \in [Thread -> [pc : ThreadPC, peer : Peer \cup {None}, generation : Nat]]
  /\ \A t \in Thread :
       /\ thread[t].pc \in {"idle", "loop"} <=> thread[t].peer = None
       /\ thread[t].generation <= generation
  /\ todo \subseteq Peer
  /\ todo # {} => thread[Scheduler].pc # "idle"
  /\ app \in [App -> [call : Calls \cup {None}, pc : AppPC, peer : Peer \cup {None},
                     restart : BOOLEAN]]
  /\ \A a \in App : app[a].pc = "note" => app[a].peer \in Peer
  /\ uncertain \in BOOLEAN
  /\ muted \subseteq Peer
  /\ outdated \subseteq Thread
  /\ late \subseteq Thread
  /\ astray \in BOOLEAN

\* Session::open leaves the phase Stopped; nothing runs.
Init ==
  /\ phase = "stopped"
  /\ generation = 0
  /\ pstate = [p \in Peer |-> "waiting"]
  /\ pending = {}
  /\ revoked = {}
  /\ lifecycle = None
  /\ running = FALSE
  /\ stopping = FALSE
  /\ op = [t \in Thread |-> "none"]
  /\ thread = [t \in Thread |-> Idle]
  /\ todo = {}
  /\ app = [a \in App |-> Ready]
  /\ uncertain = FALSE
  /\ muted = {}
  /\ outdated = {}
  /\ late = {}
  /\ astray = FALSE

Goto(a, step) == app' = [app EXCEPT ![a].pc = step]
Step(t, step) == thread' = [thread EXCEPT ![t] =
  IF step \in {"idle", "loop"} THEN [Idle EXCEPT !.pc = step]
  ELSE [@ EXCEPT !.pc = step]]

\* Threads whose exchange is bound to the generation it read.
Bound == {t \in Thread : thread[t].pc \in {"guard", "exchange"}}

\* A save fails (save_candidate): the mutate it belongs to and every later one
\* return an error and leave the journal in memory as it is.
StorageFails ==
  /\ ~uncertain
  /\ uncertain' = TRUE
  /\ UNCHANGED <<phase, generation, pstate, pending, revoked, lifecycle, running,
                 stopping, op, thread, todo, app, history>>

-----------------------------------------------------------------------------
(* Session::stop, step by step: pause and shutdown, and the first half of  *)
(* pause_peer and remove_peer                                              *)

LockStop(a) ==
  /\ app[a].pc = "lock"
  /\ lifecycle = None
  /\ lifecycle' = a
  /\ Goto(a, "fence")
  /\ UNCHANGED <<journal, running, stopping, op, thread, todo, history>>

\* The first mutate of stop; a repeated stop keeps the generation.  When it is
\* refused, stop goes on, and returns the error to pause_peer and remove_peer,
\* which then start nothing.
FenceStop(a) ==
  LET target == IF app[a].call = "pause" THEN "paused" ELSE "stopped"
  IN /\ app[a].pc = "fence"
     /\ IF uncertain
        THEN /\ app' = [app EXCEPT ![a].pc = "cancel", ![a].restart = FALSE]
             /\ astray' = (astray \/ phase = "running")
             /\ UNCHANGED <<phase, generation, outdated>>
        ELSE /\ phase' = target
             /\ generation' = IF phase # target THEN generation + 1 ELSE generation
             /\ outdated' = IF phase # target THEN outdated \cup Bound ELSE outdated
             /\ Goto(a, "cancel")
             /\ UNCHANGED astray
     /\ UNCHANGED <<pstate, pending, revoked, uncertain, lifecycle, running,
                    stopping, op, thread, todo, muted, late>>

\* "Fence pre-auth registrations before scanning their independent tokens."
CancelRuntime(a) ==
  /\ app[a].pc = "cancel"
  /\ stopping' = running
  /\ Goto(a, "scan")
  /\ UNCHANGED <<journal, lifecycle, running, op, thread, todo, history>>

CancelledOps == [t \in Thread |-> IF op[t] = "live" THEN "cancelled" ELSE op[t]]

ScanOperations(a) ==
  /\ app[a].pc = "scan"
  /\ op' = CancelledOps
  /\ Goto(a, "join")
  /\ UNCHANGED <<journal, lifecycle, running, stopping, thread, todo, history>>

\* The runtime is taken and its threads joined; the guard drops on return,
\* and pause_peer and remove_peer then start again what was running before.
JoinThreads(a) ==
  /\ app[a].pc = "join"
  /\ \A t \in Thread : thread[t].pc = "idle"
  /\ running' = FALSE
  /\ stopping' = FALSE
  /\ lifecycle' = None
  /\ app' = [app EXCEPT ![a] =
       IF @.restart THEN [@ EXCEPT !.pc = "lock_start"] ELSE Ready]
  /\ UNCHANGED <<journal, op, thread, todo, history>>

(* Session::start and resume *)

LockStart(a) ==
  /\ app[a].pc = "lock_start"
  /\ lifecycle = None
  /\ IF running
     THEN app' = [app EXCEPT ![a] = Ready] /\ UNCHANGED lifecycle
     ELSE Goto(a, "fence_start") /\ lifecycle' = a
  /\ UNCHANGED <<journal, running, stopping, op, thread, todo, history>>

\* The mutate of start, unless the listener cannot be bound or the journal
\* refuses it.
FenceStart(a) ==
  /\ app[a].pc = "fence_start"
  /\ \/ /\ ~uncertain
        /\ phase' = "running"
        /\ generation' = generation + 1
        /\ Goto(a, "spawn")
        /\ UNCHANGED lifecycle
     \/ /\ app' = [app EXCEPT ![a] = Ready]
        /\ lifecycle' = None
        /\ UNCHANGED <<phase, generation>>
  /\ UNCHANGED <<pstate, pending, revoked, uncertain, running, stopping, op,
                 thread, todo, history>>

\* The threads are spawned and the Runtime is published, unless the browser
\* fails: then start returns the error and leaves the phase as it is.
Spawn(a) ==
  /\ app[a].pc = "spawn"
  /\ \/ /\ running' = TRUE
        /\ thread' = [thread EXCEPT ![Scheduler] = [Idle EXCEPT !.pc = "loop"]]
        /\ astray' = FALSE
     \/ astray' = TRUE /\ UNCHANGED <<running, thread>>
  /\ lifecycle' = None
  /\ app' = [app EXCEPT ![a] = Ready]
  /\ todo' = {}
  /\ UNCHANGED <<journal, stopping, op, muted, outdated, late>>

-----------------------------------------------------------------------------
(* The calls of the application *)

Call(a, c) == c \in Calls /\ app[a] = Ready

StartOrStop(a, c) ==
  /\ Call(a, c)
  /\ c \in {"start", "pause", "shutdown"}
  /\ generation < MaxGeneration
  /\ app' = [app EXCEPT ![a] = [Ready EXCEPT !.call = c,
       !.pc = IF c = "start" THEN "lock_start" ELSE "lock"]]
  /\ UNCHANGED <<journal, lifecycle, running, stopping, op, thread, todo, history>>

\* pause_peer and remove_peer first note whether the session is running.
NoteRunning(a, c, p) ==
  /\ Call(a, c)
  /\ c \in {"pause_peer", "remove_peer"}
  /\ generation < MaxGeneration
  /\ app' = [app EXCEPT ![a] =
       [call |-> c, pc |-> "note", peer |-> p, restart |-> phase = "running"]]
  /\ UNCHANGED <<journal, lifecycle, running, stopping, op, thread, todo, history>>

\* Mutant of FencePeer: only a removal raises the generation.
FencePeerKeepsGeneration(a) ==
  LET p == app[a].peer
  IN /\ app[a].pc = "note"
     /\ ~uncertain
     /\ pstate' = [pstate EXCEPT ![p] = "paused"]
     /\ IF app[a].call = "remove_peer"
        THEN /\ revoked' = revoked \cup {p} /\ pending' = pending \ {p}
             /\ generation' = generation + 1
        ELSE UNCHANGED <<revoked, pending, generation>>
     /\ muted' = muted \cup {p}
     /\ outdated' = outdated \cup Bound
     /\ Goto(a, "lock")
     /\ UNCHANGED <<phase, uncertain, lifecycle, running, stopping, op, thread, todo,
                    late, astray>>

\* Then their mutate, which takes effect before anything is cancelled, or ends
\* the call with its error.
FencePeer(a) ==
  LET p == app[a].peer
  IN /\ app[a].pc = "note"
     /\ IF uncertain
        THEN /\ app' = [app EXCEPT ![a] = Ready]
             /\ UNCHANGED <<generation, pstate, pending, revoked, muted, outdated>>
        ELSE /\ pstate' = [pstate EXCEPT ![p] = "paused"]
             /\ generation' = generation + 1
             /\ IF app[a].call = "remove_peer"
                THEN revoked' = revoked \cup {p} /\ pending' = pending \ {p}
                ELSE UNCHANGED <<revoked, pending>>
             /\ muted' = muted \cup {p}
             /\ outdated' = outdated \cup Bound
             /\ Goto(a, "lock")
     /\ UNCHANGED <<phase, uncertain, lifecycle, running, stopping, op, thread, todo,
                    late, astray>>

\* resume_peer; a removed peer needs repair instead.
ResumePeer(a, p) ==
  /\ Call(a, "resume_peer")
  /\ ~uncertain
  /\ p \notin revoked
  /\ pstate' = [pstate EXCEPT ![p] = "waiting"]
  /\ muted' = muted \ {p}
  /\ UNCHANGED <<phase, generation, pending, revoked, uncertain, lifecycle, running,
                 stopping, op, thread, todo, app, outdated, late, astray>>

\* resolve_bootstrap(preview, Cancel): one mutate, and a wake-up.
ConsentCancel(a, p) ==
  /\ Call(a, "consent_cancel")
  /\ ~uncertain
  /\ p \in pending
  /\ p \notin revoked
  /\ pending' = pending \ {p}
  /\ pstate' = [pstate EXCEPT ![p] = "paused"]
  /\ muted' = muted \cup {p}
  /\ UNCHANGED <<phase, generation, revoked, uncertain, lifecycle, running, stopping,
                 op, thread, todo, app, outdated, late, astray>>

CancelOperations(a) ==
  /\ Call(a, "cancel_operations")
  /\ op' = CancelledOps
  /\ op' # op
  /\ UNCHANGED <<journal, lifecycle, running, stopping, thread, todo, app, history>>

-----------------------------------------------------------------------------
(* The threads of a run *)

\* network.rs check: asked again in every mutate of an exchange.
Check(t) ==
  /\ phase = "running"
  /\ thread[t].generation = generation
  /\ thread[t].peer \notin revoked
  /\ pstate[thread[t].peer] \notin {"paused", "needs_repair"}

Eligible == {p \in Peer \ revoked : pstate[p] \notin {"paused", "needs_repair"}}

\* Mutant of Collect: the scheduler never asks whether it shall end.
CollectForever ==
  /\ thread[Scheduler].pc = "loop"
  /\ todo = {} /\ Eligible # {}
  /\ todo' = Eligible
  /\ UNCHANGED <<journal, lifecycle, running, stopping, op, thread, app, history>>

\* The scheduler lists the peers to contact, or ends.
Collect ==
  /\ thread[Scheduler].pc = "loop"
  /\ IF stopping
     THEN Step(Scheduler, "idle") /\ todo' = {}
     ELSE /\ todo = {} /\ Eligible # {}
          /\ todo' = Eligible
          /\ UNCHANGED thread
  /\ UNCHANGED <<journal, lifecycle, running, stopping, op, app, history>>

NextPeer(p) ==
  /\ thread[Scheduler].pc = "loop"
  /\ ~stopping
  /\ p \in todo
  /\ todo' = todo \ {p}
  /\ thread' = [thread EXCEPT ![Scheduler] =
       [pc |-> "context", peer |-> p, generation |-> 0]]
  /\ UNCHANGED <<journal, lifecycle, running, stopping, op, app, history>>

\* context(): the exchange is bound to the generation it begins in.
Context(t) ==
  /\ thread[t].pc = "context"
  /\ thread' = [thread EXCEPT ![t] =
       IF phase = "running"
       THEN [@ EXCEPT !.generation = generation,
                      !.pc = IF t = Scheduler THEN "guard" ELSE "exchange"]
       ELSE [@ EXCEPT !.pc = "failed"]]
  /\ UNCHANGED <<journal, lifecycle, running, stopping, op, todo, app, history>>

\* OperationGuard::new: registered under the journal's lock, while Running.
Guard ==
  /\ thread[Scheduler].pc = "guard"
  /\ IF phase = "running"
     THEN /\ op' = [op EXCEPT ![Scheduler] = "live"]
          /\ Step(Scheduler, "exchange")
          /\ UNCHANGED outdated
     ELSE Step(Scheduler, "failed") /\ outdated' = outdated \ {Scheduler} /\ UNCHANGED op
  /\ UNCHANGED <<journal, lifecycle, running, stopping, todo, app, muted, late, astray>>

\* Mutant of Accept: the socket is registered without asking whether the run
\* is being stopped.
AcceptUnfenced(w, p) ==
  /\ thread[w].pc = "idle"
  /\ running
  /\ op' = [op EXCEPT ![w] = "live"]
  /\ thread' = [thread EXCEPT ![w] = [pc |-> "context", peer |-> p, generation |-> 0]]
  /\ UNCHANGED <<journal, lifecycle, running, stopping, todo, app, history>>

\* A connection is accepted; OperationGuard::preauthenticated registers its
\* socket under the registry's lock unless the run is being stopped.
Accept(w, p) ==
  /\ thread[w].pc = "idle"
  /\ running
  /\ ~stopping
  /\ op' = [op EXCEPT ![w] = "live"]
  /\ thread' = [thread EXCEPT ![w] = [pc |-> "context", peer |-> p, generation |-> 0]]
  /\ UNCHANGED <<journal, lifecycle, running, stopping, todo, app, history>>

\* A mutate of authenticate, export, send_batch or receive_batch.
Publish(t) ==
  LET p == thread[t].peer
  IN /\ thread[t].pc = "exchange"
     /\ ~uncertain
     /\ Check(t)
     /\ \/ UNCHANGED <<pstate, pending>>
        \/ pstate' = [pstate EXCEPT ![p] = "up_to_date"] /\ UNCHANGED pending
        \/ /\ pstate' = [pstate EXCEPT ![p] = "needs_merge"]
           /\ pending' = pending \cup {p}
     /\ late' = IF t \in outdated THEN late \cup {t} ELSE late
     /\ UNCHANGED <<phase, generation, revoked, uncertain, lifecycle, running, stopping,
                    op, thread, todo, app, muted, outdated, astray>>

\* The exchange ends: complete, refused by check, or cut off by the network,
\* a timeout or its token.  The operation leaves the registry.
EndExchange(t) ==
  /\ thread[t].pc = "exchange"
  /\ op' = [op EXCEPT ![t] = "none"]
  /\ \/ Check(t) /\ Step(t, IF t = Scheduler THEN "loop" ELSE "idle")
     \/ Step(t, "failed")
  /\ outdated' = outdated \ {t}
  /\ UNCHANGED <<journal, lifecycle, running, stopping, todo, app, muted, late, astray>>

\* The scheduler's error path: Waiting, or NeedsRepair for a changed
\* certificate, unless the peer was removed, the run is being stopped or the
\* journal refuses the mutate.
Failed ==
  LET p == thread[Scheduler].peer
  IN /\ thread[Scheduler].pc = "failed"
     /\ IF stopping
        THEN Step(Scheduler, "idle") /\ todo' = {} /\ UNCHANGED pstate
        ELSE /\ \E s \in {"waiting", "needs_repair"} :
                  pstate' = IF p \in revoked \/ uncertain THEN pstate
                            ELSE [pstate EXCEPT ![p] = s]
             /\ Step(Scheduler, "loop")
             /\ UNCHANGED todo
     /\ UNCHANGED <<phase, generation, pending, revoked, uncertain, lifecycle, running,
                    stopping, op, app, history>>

\* An inbound worker only reports its error.
FailedInbound(w) ==
  /\ thread[w].pc = "failed"
  /\ Step(w, "idle")
  /\ op' = [op EXCEPT ![w] = "none"]
  /\ UNCHANGED <<journal, lifecycle, running, stopping, todo, app, history>>

-----------------------------------------------------------------------------

AppStep(a) ==
  \/ LockStop(a) \/ FenceStop(a) \/ CancelRuntime(a) \/ ScanOperations(a)
  \/ JoinThreads(a) \/ LockStart(a) \/ FenceStart(a) \/ Spawn(a) \/ FencePeer(a)

AppCall(a) ==
  \/ \E c \in Calls : StartOrStop(a, c) \/ \E p \in Peer : NoteRunning(a, c, p)
  \/ \E p \in Peer : ResumePeer(a, p) \/ ConsentCancel(a, p)
  \/ CancelOperations(a)

SchedulerStep ==
  \/ Collect \/ (\E p \in Peer : NextPeer(p)) \/ Context(Scheduler) \/ Guard
  \/ EndExchange(Scheduler) \/ Failed
WorkerStep(w) == Context(w) \/ EndExchange(w) \/ FailedInbound(w)

Next ==
  \/ \E a \in App : AppStep(a) \/ AppCall(a)
  \/ SchedulerStep
  \/ \E w \in Worker : WorkerStep(w) \/ \E p \in Peer : Accept(w, p)
  \/ \E t \in Thread : Publish(t)
  \/ StorageFails

Spec == Init /\ [][Next]_vars

\* Threads that can run do run; an exchange ends by its timeouts.  The lock is
\* not fair: SF only says that whoever asks again and again gets it.
FairSpec ==
  /\ Spec
  /\ \A a \in App : SF_vars(AppStep(a))
  /\ WF_vars(SchedulerStep)
  /\ \A w \in Worker : WF_vars(WorkerStep(w))

-----------------------------------------------------------------------------
(* Properties *)

\* stop: when it joins the threads, every operation any of them has registered
\* is cancelled, "including connections registered while durable coordinator
\* work is blocked" (MANAGED-SESSION.md).  Only where the journal refused its
\* first mutate and still says Running can the scheduler, past its last look at
\* the token, have registered another one since: that one ends by its timeouts.
StopCancelsAll ==
  \A a \in App : app[a].pc = "join" =>
    \A t \in Thread : op[t] = "live" => t = Scheduler /\ phase = "running"

\* Once stop has returned, nothing of its run is left working.
StoppedIsQuiet ==
  ~running => \A t \in Thread : thread[t].pc = "idle" /\ op[t] = "none"

\* pause_peer and remove_peer (which "durably revokes the identity, cancels
\* current workers and queued exchanges"), pause and shutdown: an exchange that
\* began before their mutate publishes nothing after it, although its thread
\* goes on until it is joined and resume_peer may let the peer in again before.
FencedStaysOut == late = {}

\* Between lifecycle calls the journal says Running exactly when a runtime is
\* there, whatever calls of pause_peer, remove_peer, pause and start overlap.
\* Running without a runtime is left by a start whose browser failed, and by a
\* stop whose mutate the journal refused.
PhaseTruthful ==
  lifecycle = None =>
    /\ running => phase = "running"
    /\ phase = "running" /\ ~astray => running

\* pause, shutdown, pause_peer and remove_peer return: the threads they join
\* end, and nobody keeps the lifecycle lock.
StopReturns == \A a \in App : app[a].pc = "lock" ~> app[a].pc = "ready"

\* MANAGED-SESSION.md: "`pause_peer`/`resume_peer` control exchanges" and
\* "`Cancel` ... pauses that peer": it stays paused until it is resumed.
PauseSticks == \A p \in muted : pstate[p] = "paused"
=============================================================================
