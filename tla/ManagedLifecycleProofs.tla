------------------------ MODULE ManagedLifecycleProofs ------------------------
(***************************************************************************)
(* What stop, start and the removal of a peer promise while the threads of *)
(* a run work, for any number of peers, callers and workers.               *)
(***************************************************************************)
EXTENDS ManagedLifecycle, TLAPS

-----------------------------------------------------------------------------
(* The inductive invariant *)

Held == {"fence", "cancel", "scan", "join", "fence_start", "spawn"}

\* One call at a time is between taking the lifecycle lock and dropping it.
OneHolder ==
  \A a \in App : app[a].pc \in Held <=> lifecycle = a

\* The journal and the runtime agree, but for a start whose browser failed and a
\* stop whose mutate was refused.
InStep ==
  /\ running => phase = "running"
  /\ phase = "running" /\ ~astray => running

\* How far the holder of the lock has got: stop fences the journal, then the
\* registry of sockets, and only then cancels what is registered.
HolderFits ==
  /\ lifecycle = None => InStep
  /\ \A a \in App :
       /\ app[a].pc \in {"fence", "fence_start"} => InStep
       /\ app[a].pc \in {"cancel", "scan", "join"} => phase # "running" \/ astray
       /\ app[a].pc \in {"scan", "join"} => stopping = running
       /\ app[a].pc \in {"fence_start", "spawn"} => ~running
       /\ app[a].pc = "spawn" => phase = "running"

\* An operation is registered by a thread at work, and threads belong to a run.
ThreadsFit ==
  /\ op[Scheduler] # "none" => thread[Scheduler].pc = "exchange"
  /\ \A t \in Thread : op[t] # "none" => thread[t].pc # "idle"
  /\ \A w \in Worker : thread[w].pc \notin {"loop", "guard"}

\* An exchange that began before the last fence is of an older generation.
FencedFits ==
  /\ FencedStaysOut
  /\ \A t \in outdated : t \in Bound /\ thread[t].generation < generation

\* A removed peer is paused, and no preview of it awaits consent.
RemovedIsGone == \A p \in revoked : pstate[p] = "paused" /\ p \notin pending

IInv ==
  /\ TypeOK
  /\ OneHolder
  /\ HolderFits
  /\ ThreadsFit
  /\ StopCancelsAll
  /\ StoppedIsQuiet
  /\ RemovedIsGone
  /\ FencedFits

-----------------------------------------------------------------------------
(* Frames *)

\* A call that goes on moves the calling thread only.
LEMMA GotoMoves ==
  ASSUME TypeOK, NEW a \in App, NEW step \in AppPC, step # "note", Goto(a, step)
  PROVE  /\ app' \in [App -> [call : Calls \cup {None}, pc : AppPC,
                              peer : Peer \cup {None}, restart : BOOLEAN]]
         /\ \A b \in App : app'[b].pc = "note" => app'[b].peer \in Peer
         /\ app'[a].pc = step
         /\ \A b \in App : b # a => app'[b] = app[b]
BY SMTT(30) DEF TypeOK, Goto

\* So does a thread of the run, which forgets its exchange when it is done.
LEMMA StepMoves ==
  ASSUME TypeOK, NEW t \in Thread, NEW step \in ThreadPC, Step(t, step),
         thread[t].peer \in Peer
  PROVE  /\ thread' \in [Thread -> [pc : ThreadPC, peer : Peer \cup {None},
                                    generation : Nat]]
         /\ \A u \in Thread :
              /\ thread'[u].pc \in {"idle", "loop"} <=> thread'[u].peer = None
              /\ thread'[u].generation <= generation
         /\ thread'[t].pc = step
         /\ step \notin {"idle", "loop"} => thread'[t].generation = thread[t].generation
         /\ \A u \in Thread : u # t => thread'[u] = thread[u]
<1>1. None \notin Peer
  BY LifecycleConstants DEF None
<1>2. CASE step \in {"idle", "loop"}
  <2>1. thread' = [thread EXCEPT ![t] = [pc |-> step, peer |-> None, generation |-> 0]]
    <3>1. [Idle EXCEPT !.pc = step] = [pc |-> step, peer |-> None, generation |-> 0]
      BY DEF Idle
    <3> QED
      BY <1>2, <3>1 DEF Step
  <2>2. [pc |-> step, peer |-> None, generation |-> 0]
          \in [pc : ThreadPC, peer : Peer \cup {None}, generation : Nat]
    OBVIOUS
  <2> QED
    BY <1>2, <2>1, <2>2 DEF TypeOK
<1>3. CASE step \notin {"idle", "loop"}
  <2>1. thread' = [thread EXCEPT ![t] = [thread[t] EXCEPT !.pc = step]]
    BY <1>3 DEF Step
  <2> QED
    BY <1>1, <1>3, <2>1 DEF TypeOK
<1> QED
  BY <1>2, <1>3

\* The lock is handed on by the thread that moves.
LEMMA StillOneHolder ==
  ASSUME OneHolder, NEW a \in App, \A b \in App : b # a => app'[b] = app[b],
         app'[a].pc \in Held <=> lifecycle' = a,
         lifecycle \in {a, None}, lifecycle' \in {a, None}
  PROVE  OneHolder'
BY LifecycleConstants DEF OneHolder, None

\* The threads of a run disturb neither the lock nor who waits for it.
LEMMA HolderKept ==
  ASSUME OneHolder, HolderFits,
         UNCHANGED <<phase, lifecycle, running, stopping, app, astray>>
  PROVE  OneHolder' /\ HolderFits'
BY DEF OneHolder, HolderFits, InStep

\* A thread that moves stays bound to the generation it read, or ends its
\* exchange.
LEMMA FencesKept ==
  ASSUME IInv, NEW t \in Thread,
         \A u \in Thread : u # t => thread'[u] = thread[u],
         outdated' \subseteq outdated,
         t \in outdated' => /\ thread'[t].pc \in {"guard", "exchange"}
                            /\ thread'[t].generation = thread[t].generation,
         generation' = generation, late' = late
  PROVE  FencedFits'
<1> SUFFICES ASSUME NEW u \in outdated'
             PROVE  /\ u \in Thread /\ thread'[u].pc \in {"guard", "exchange"}
                    /\ thread'[u].generation < generation'
  BY DEF IInv, FencedFits, FencedStaysOut, Bound
<1>1. /\ u \in Thread /\ thread[u].pc \in {"guard", "exchange"}
      /\ thread[u].generation < generation
  BY DEF IInv, FencedFits, Bound
<1> QED
  BY <1>1

\* A step of no thread keeps what is outdated, and what a new generation makes
\* outdated is of an older one.
LEMMA NewFence ==
  ASSUME IInv, thread' = thread, late' = late,
         \/ generation' = generation /\ outdated' = outdated
         \/ generation' = generation + 1 /\ outdated' \in {outdated, outdated \cup Bound}
  PROVE  FencedFits'
<1> SUFFICES ASSUME NEW u \in outdated'
             PROVE  /\ u \in Thread /\ thread[u].pc \in {"guard", "exchange"}
                    /\ thread[u].generation < generation'
  BY DEF IInv, FencedFits, FencedStaysOut, Bound
<1>1. generation \in Nat
  BY DEF IInv, TypeOK
<1>2. u \in outdated => /\ u \in Thread /\ thread[u].pc \in {"guard", "exchange"}
                        /\ thread[u].generation < generation
  BY DEF IInv, FencedFits, Bound
<1>3. u \in Bound => /\ u \in Thread /\ thread[u].pc \in {"guard", "exchange"}
                     /\ thread[u].generation \in Nat /\ thread[u].generation <= generation
  BY DEF IInv, TypeOK, Bound
<1>4. u \in Thread => thread[u].generation \in Nat
  BY DEF IInv, TypeOK
<1> QED
  BY <1>1, <1>2, <1>3, <1>4

-----------------------------------------------------------------------------
(* stop *)

\* stop takes the lock.
LEMMA LockStopKeeps ==
  ASSUME IInv, NEW a \in App, LockStop(a)
  PROVE  IInv'
<1>1. /\ app' \in [App -> [call : Calls \cup {None}, pc : AppPC,
                           peer : Peer \cup {None}, restart : BOOLEAN]]
      /\ \A b \in App : app'[b].pc = "note" => app'[b].peer \in Peer
      /\ app'[a].pc = "fence"
      /\ \A b \in App : b # a => app'[b] = app[b]
  BY GotoMoves DEF IInv, LockStop, AppPC
<1>2. TypeOK'
  BY <1>1 DEF IInv, TypeOK, LockStop, journal, history
<1>3. OneHolder'
  BY <1>1, StillOneHolder DEF IInv, LockStop, Held
<1>4. HolderFits' /\ StopCancelsAll'
  BY <1>1, LifecycleConstants
  DEF IInv, HolderFits, InStep, StopCancelsAll, LockStop, journal, history, None
<1>5. ThreadsFit' /\ StoppedIsQuiet' /\ RemovedIsGone' /\ FencedFits'
  BY DEF IInv, ThreadsFit, StoppedIsQuiet, RemovedIsGone, FencedFits, FencedStaysOut, Bound, LockStop,
         journal, history
<1> QED
  BY <1>2, <1>3, <1>4, <1>5 DEF IInv

\* The mutate of stop leaves the journal in another phase than Running, or it is
\* refused and the phase astray.
LEMMA FenceStopKeeps ==
  ASSUME IInv, NEW a \in App, FenceStop(a)
  PROVE  IInv'
<1>1. /\ app' \in [App -> [call : Calls \cup {None}, pc : AppPC,
                           peer : Peer \cup {None}, restart : BOOLEAN]]
      /\ \A b \in App : app'[b].pc = "note" => app'[b].peer \in Peer
      /\ app'[a].pc = "cancel"
      /\ \A b \in App : b # a => app'[b] = app[b]
  <2>1. CASE uncertain
    <3>1. PICK r : r = [app[a] EXCEPT !.pc = "cancel", !.restart = FALSE]
      OBVIOUS
    <3>2. /\ r \in [call : Calls \cup {None}, pc : AppPC, peer : Peer \cup {None},
                   restart : BOOLEAN]
          /\ r.pc = "cancel"
      BY <3>1 DEF IInv, TypeOK, AppPC
    <3>3. app' = [app EXCEPT ![a] = r]
      BY <2>1, <3>1 DEF FenceStop
    <3> QED
      BY <3>2, <3>3 DEF IInv, TypeOK
  <2>2. CASE ~uncertain
    BY <2>2, GotoMoves DEF IInv, FenceStop, AppPC
  <2> QED
    BY <2>1, <2>2
<1>2. /\ \/ phase' \in {"stopped", "paused"} /\ astray' = astray
         \/ phase' = phase /\ astray' = (astray \/ phase = "running")
      /\ \/ generation' = generation /\ outdated' = outdated
         \/ generation' = generation + 1 /\ outdated' = outdated \cup Bound
      /\ UNCHANGED <<pstate, pending, revoked, uncertain, lifecycle, running,
                     stopping, op, thread, todo, muted, late>>
  BY DEF FenceStop
<1>3. TypeOK'
  <2>1. /\ generation' \in Nat
        /\ \A t \in Thread : thread[t].generation \in Nat /\ thread[t].generation <= generation'
    BY <1>2 DEF IInv, TypeOK
  <2>2. outdated' \subseteq Thread
    BY <1>2 DEF IInv, TypeOK, Bound
  <2>3. phase' \in {"stopped", "running", "paused"} /\ astray' \in BOOLEAN
    BY <1>2 DEF IInv, TypeOK
  <2> QED
    BY <1>1, <1>2, <2>1, <2>2, <2>3 DEF IInv, TypeOK
<1>4. lifecycle = a /\ OneHolder'
  BY <1>1, <1>2, StillOneHolder DEF IInv, OneHolder, FenceStop, Held
<1>5. HolderFits' /\ StopCancelsAll'
  <2>1. \A b \in App : b # a => app[b].pc \notin Held
    BY <1>4 DEF IInv, OneHolder
  <2>2. phase' # "running" \/ astray'
    BY <1>2
  <2> QED
    BY <1>1, <1>2, <1>4, <2>1, <2>2, LifecycleConstants
    DEF HolderFits, StopCancelsAll, Held, None
<1>6. ThreadsFit' /\ StoppedIsQuiet' /\ RemovedIsGone'
  BY <1>2 DEF IInv, ThreadsFit, StoppedIsQuiet, RemovedIsGone
<1>7. FencedFits'
  BY <1>2, NewFence
<1> QED
  BY <1>3, <1>4, <1>5, <1>6, <1>7 DEF IInv

\* Then the registry of sockets is fenced.
LEMMA CancelRuntimeKeeps ==
  ASSUME IInv, NEW a \in App, CancelRuntime(a)
  PROVE  IInv'
<1>1. /\ app' \in [App -> [call : Calls \cup {None}, pc : AppPC,
                           peer : Peer \cup {None}, restart : BOOLEAN]]
      /\ \A b \in App : app'[b].pc = "note" => app'[b].peer \in Peer
      /\ app'[a].pc = "scan"
      /\ \A b \in App : b # a => app'[b] = app[b]
  BY GotoMoves DEF IInv, CancelRuntime, AppPC
<1>2. TypeOK'
  BY <1>1 DEF IInv, TypeOK, CancelRuntime, journal, history
<1>3. lifecycle = a /\ OneHolder'
  BY <1>1, StillOneHolder DEF IInv, OneHolder, CancelRuntime, Held
<1>4. HolderFits' /\ StopCancelsAll'
  BY <1>1, <1>3, LifecycleConstants
  DEF IInv, OneHolder, HolderFits, InStep, StopCancelsAll, CancelRuntime, Held, None,
      journal, history
<1>5. ThreadsFit' /\ StoppedIsQuiet' /\ RemovedIsGone' /\ FencedFits'
  BY DEF IInv, ThreadsFit, StoppedIsQuiet, RemovedIsGone, FencedFits, FencedStaysOut, Bound,
         CancelRuntime, journal, history
<1> QED
  BY <1>2, <1>3, <1>4, <1>5 DEF IInv

\* The scan leaves no operation live.
LEMMA ScanOperationsKeeps ==
  ASSUME IInv, NEW a \in App, ScanOperations(a)
  PROVE  IInv'
<1>1. /\ app' \in [App -> [call : Calls \cup {None}, pc : AppPC,
                           peer : Peer \cup {None}, restart : BOOLEAN]]
      /\ \A b \in App : app'[b].pc = "note" => app'[b].peer \in Peer
      /\ app'[a].pc = "join"
      /\ \A b \in App : b # a => app'[b] = app[b]
  BY GotoMoves DEF IInv, ScanOperations, AppPC
<1>2. /\ op' \in [Thread -> {"none", "live", "cancelled"}]
      /\ \A t \in Thread : op'[t] # "live" /\ (op'[t] = "none" <=> op[t] = "none")
  BY DEF IInv, TypeOK, ScanOperations, CancelledOps
<1>3. TypeOK'
  BY <1>1, <1>2 DEF IInv, TypeOK, ScanOperations, journal, history
<1>4. lifecycle = a /\ OneHolder'
  BY <1>1, StillOneHolder DEF IInv, OneHolder, ScanOperations, Held
<1>5. HolderFits' /\ StopCancelsAll'
  BY <1>1, <1>2, <1>4, LifecycleConstants
  DEF IInv, OneHolder, HolderFits, InStep, StopCancelsAll, ScanOperations, Held, None,
      journal, history
<1>6. Scheduler \in Thread
  BY DEF Thread
<1>7. ThreadsFit' /\ StoppedIsQuiet' /\ RemovedIsGone' /\ FencedFits'
  BY <1>2, <1>6 DEF IInv, ThreadsFit, StoppedIsQuiet, RemovedIsGone, FencedFits, FencedStaysOut, Bound,
         ScanOperations, journal, history
<1> QED
  BY <1>3, <1>4, <1>5, <1>7 DEF IInv

\* The join waits for every thread, then the runtime is gone.
LEMMA JoinThreadsKeeps ==
  ASSUME IInv, NEW a \in App, JoinThreads(a)
  PROVE  IInv'
<1>1. /\ app' \in [App -> [call : Calls \cup {None}, pc : AppPC,
                           peer : Peer \cup {None}, restart : BOOLEAN]]
      /\ \A b \in App : app'[b].pc = "note" => app'[b].peer \in Peer
      /\ app'[a].pc \in {"lock_start", "ready"}
      /\ \A b \in App : b # a => app'[b] = app[b]
  BY SMTT(30) DEF IInv, TypeOK, JoinThreads, Ready, AppPC
<1>2. TypeOK'
  BY <1>1 DEF IInv, TypeOK, JoinThreads, journal, history
<1>3. lifecycle = a /\ OneHolder'
  BY <1>1, StillOneHolder, LifecycleConstants DEF IInv, OneHolder, JoinThreads, Held, None
<1>4. HolderFits' /\ StopCancelsAll'
  BY <1>1, <1>3, LifecycleConstants
  DEF IInv, OneHolder, HolderFits, InStep, StopCancelsAll, JoinThreads, Held, None,
      journal, history
<1>5. ThreadsFit' /\ StoppedIsQuiet' /\ RemovedIsGone' /\ FencedFits'
  BY DEF IInv, ThreadsFit, StoppedIsQuiet, RemovedIsGone, FencedFits, FencedStaysOut, Bound,
         JoinThreads, journal, history
<1> QED
  BY <1>2, <1>3, <1>4, <1>5 DEF IInv

-----------------------------------------------------------------------------
(* start *)

\* start waits for the lock and goes on only when there is no runtime.
LEMMA LockStartKeeps ==
  ASSUME IInv, NEW a \in App, LockStart(a)
  PROVE  IInv'
<1>1. /\ app' \in [App -> [call : Calls \cup {None}, pc : AppPC,
                           peer : Peer \cup {None}, restart : BOOLEAN]]
      /\ \A b \in App : app'[b].pc = "note" => app'[b].peer \in Peer
      /\ \/ running /\ app'[a].pc = "ready" /\ lifecycle' = lifecycle
         \/ ~running /\ app'[a].pc = "fence_start" /\ lifecycle' = a
      /\ \A b \in App : b # a => app'[b] = app[b]
  <2>1. CASE running
    <3>1. app' = [app EXCEPT ![a] = Ready] /\ lifecycle' = lifecycle
      BY <2>1 DEF LockStart
    <3> QED
      BY <2>1, <3>1 DEF IInv, TypeOK, Ready, AppPC
  <2>2. CASE ~running
    <3>1. TypeOK /\ Goto(a, "fence_start") /\ lifecycle' = a /\ "fence_start" \in AppPC
      BY <2>2 DEF LockStart, IInv, AppPC
    <3>2. app'[a].pc = "fence_start"
      BY <3>1, GotoMoves
    <3> QED
      BY <2>2, <3>1, <3>2, GotoMoves
  <2> QED
    BY <2>1, <2>2
<1>2. TypeOK'
  BY <1>1 DEF IInv, TypeOK, LockStart, journal, history
<1>3. OneHolder'
  BY <1>1, StillOneHolder, LifecycleConstants DEF IInv, LockStart, Held, None
<1>4. HolderFits' /\ StopCancelsAll'
  BY <1>1, LifecycleConstants
  DEF IInv, HolderFits, InStep, StopCancelsAll, LockStart, journal, history, None
<1>5. ThreadsFit' /\ StoppedIsQuiet' /\ RemovedIsGone' /\ FencedFits'
  BY DEF IInv, ThreadsFit, StoppedIsQuiet, RemovedIsGone, FencedFits, FencedStaysOut, Bound, LockStart,
         journal, history
<1> QED
  BY <1>2, <1>3, <1>4, <1>5 DEF IInv

\* The mutate of start comes before its threads, or start returns its error.
LEMMA FenceStartKeeps ==
  ASSUME IInv, NEW a \in App, FenceStart(a)
  PROVE  IInv'
<1>1. /\ app' \in [App -> [call : Calls \cup {None}, pc : AppPC,
                           peer : Peer \cup {None}, restart : BOOLEAN]]
      /\ \A b \in App : app'[b].pc = "note" => app'[b].peer \in Peer
      /\ \/ /\ app'[a].pc = "spawn" /\ lifecycle' = lifecycle
            /\ phase' = "running" /\ generation' = generation + 1
         \/ /\ app'[a].pc = "ready" /\ lifecycle' = None
            /\ phase' = phase /\ generation' = generation
      /\ \A b \in App : b # a => app'[b] = app[b]
  <2>1. CASE phase' = "running" /\ generation' = generation + 1 /\ Goto(a, "spawn")
             /\ UNCHANGED lifecycle
    BY <2>1, GotoMoves DEF IInv, AppPC
  <2>2. CASE /\ app' = [app EXCEPT ![a] = Ready] /\ lifecycle' = None
             /\ UNCHANGED <<phase, generation>>
    BY <2>2 DEF IInv, TypeOK, Ready, AppPC
  <2> QED
    BY <2>1, <2>2 DEF FenceStart
<1>2. UNCHANGED <<pstate, pending, revoked, uncertain, running, stopping, op, thread,
                  todo, muted, outdated, late, astray>>
  BY DEF FenceStart, history
<1>3. TypeOK'
  <2>1. generation' \in Nat /\ \A t \in Thread : thread[t].generation <= generation'
    BY <1>1 DEF IInv, TypeOK
  <2>2. phase' \in {"stopped", "running", "paused"} /\ lifecycle' \in App \cup {None}
    BY <1>1 DEF IInv, TypeOK
  <2> QED
    BY <1>1, <1>2, <2>1, <2>2 DEF IInv, TypeOK
<1>4. lifecycle = a /\ app[a].pc = "fence_start"
  BY DEF IInv, OneHolder, FenceStart, Held
<1>5. OneHolder'
  BY <1>1, <1>4, StillOneHolder, LifecycleConstants DEF IInv, Held, None
<1>6. HolderFits' /\ StopCancelsAll'
  <2>1. \A b \in App : b # a => app[b].pc \notin Held
    BY <1>4 DEF IInv, OneHolder
  <2> QED
    BY <1>1, <1>2, <1>4, <2>1, LifecycleConstants
    DEF IInv, HolderFits, InStep, StopCancelsAll, Held, None
<1>7. ThreadsFit' /\ StoppedIsQuiet' /\ RemovedIsGone'
  BY <1>2 DEF IInv, ThreadsFit, StoppedIsQuiet, RemovedIsGone
<1>8. FencedFits'
  BY <1>1, <1>2, NewFence
<1> QED
  BY <1>3, <1>5, <1>6, <1>7, <1>8 DEF IInv

\* The runtime and its threads appear together, or start fails.
LEMMA SpawnKeeps ==
  ASSUME IInv, NEW a \in App, Spawn(a)
  PROVE  IInv'
<1>1. /\ app' \in [App -> [call : Calls \cup {None}, pc : AppPC,
                           peer : Peer \cup {None}, restart : BOOLEAN]]
      /\ \A b \in App : app'[b].pc = "note" => app'[b].peer \in Peer
      /\ app'[a].pc = "ready"
      /\ \A b \in App : b # a => app'[b] = app[b]
  BY DEF IInv, TypeOK, Spawn, Ready, AppPC
<1>2. lifecycle = a /\ lifecycle' = None /\ ~running /\ phase = "running"
  BY DEF IInv, OneHolder, HolderFits, Spawn, Held
<1>3. /\ thread' \in [Thread -> [pc : ThreadPC, peer : Peer \cup {None}, generation : Nat]]
      /\ \A t \in Thread :
           /\ thread'[t].pc \in {"idle", "loop"} <=> thread'[t].peer = None
           /\ thread'[t].generation <= generation
      /\ \A w \in Worker : thread'[w] = thread[w]
      /\ thread'[Scheduler].pc \in {"idle", "loop"}
      /\ ~running' => thread' = thread
      /\ running' \in BOOLEAN /\ astray' = ~running'
  <2>1. \/ /\ running' = TRUE
           /\ thread' = [thread EXCEPT ![Scheduler] =
                [pc |-> "loop", peer |-> None, generation |-> 0]]
           /\ astray' = FALSE
        \/ running' = FALSE /\ astray' = TRUE /\ thread' = thread
    <3>1. [Idle EXCEPT !.pc = "loop"] = [pc |-> "loop", peer |-> None, generation |-> 0]
      BY DEF Idle
    <3>2. running = FALSE
      BY <1>2 DEF IInv, TypeOK
    <3> QED
      BY <3>1, <3>2 DEF Spawn
  <2>2. /\ thread \in [Thread -> [pc : ThreadPC, peer : Peer \cup {None}, generation : Nat]]
        /\ \A t \in Thread :
             /\ thread[t].pc \in {"idle", "loop"} <=> thread[t].peer = None
             /\ thread[t].generation <= generation
        /\ thread[Scheduler].pc = "idle" /\ Scheduler \in Thread
        /\ generation \in Nat
    BY <1>2 DEF IInv, TypeOK, StoppedIsQuiet, Thread
  <2>3. [pc |-> "loop", peer |-> None, generation |-> 0]
          \in [pc : ThreadPC, peer : Peer \cup {None}, generation : Nat]
    BY DEF ThreadPC
  <2>4. \A w \in Worker : w # Scheduler /\ w \in Thread
    BY LifecycleConstants DEF Scheduler, Thread
  <2>5. CASE running'
    <3>1. PICK loop \in [pc : ThreadPC, peer : Peer \cup {None}, generation : Nat] :
            /\ thread' = [thread EXCEPT ![Scheduler] = loop]
            /\ loop.pc = "loop" /\ loop.peer = None /\ loop.generation = 0
      BY <2>1, <2>3, <2>5
    <3>2. /\ thread' \in [Thread -> [pc : ThreadPC, peer : Peer \cup {None}, generation : Nat]]
          /\ thread'[Scheduler] = loop
          /\ \A t \in Thread : t # Scheduler => thread'[t] = thread[t]
      BY <2>2, <3>1
    <3>3. running' = TRUE /\ astray' = FALSE
      BY <2>1, <2>5
    <3>4. \A t \in Thread :
            /\ thread'[t].pc \in {"idle", "loop"} <=> thread'[t].peer = None
            /\ thread'[t].generation <= generation
      BY <2>2, <3>1, <3>2
    <3> QED
      BY <2>4, <3>1, <3>2, <3>3, <3>4
  <2>6. CASE ~running'
    BY <2>1, <2>2, <2>6
  <2> QED
    BY <2>5, <2>6
<1>4. TypeOK'
  BY <1>1, <1>2, <1>3 DEF IInv, TypeOK, Spawn, journal
<1>5. OneHolder'
  BY <1>1, <1>2, StillOneHolder, LifecycleConstants DEF IInv, Held, None
<1>6. HolderFits' /\ StopCancelsAll'
  BY <1>1, <1>2, <1>3, LifecycleConstants
  DEF IInv, OneHolder, HolderFits, InStep, StopCancelsAll, Spawn, Held, None, journal
<1>7. \A t \in Thread : op[t] = "none" /\ thread[t].pc = "idle"
  BY <1>2 DEF IInv, StoppedIsQuiet
<1>8. ThreadsFit' /\ StoppedIsQuiet' /\ RemovedIsGone' /\ FencedFits'
  BY <1>3, <1>7 DEF IInv, ThreadsFit, StoppedIsQuiet, RemovedIsGone, FencedFits, FencedStaysOut, Bound,
         Spawn, journal, Thread
<1> QED
  BY <1>4, <1>5, <1>6, <1>8 DEF IInv

-----------------------------------------------------------------------------
(* The calls of the application *)

\* A call begins without touching what the threads work on.
LEMMA CallKeeps ==
  ASSUME IInv, NEW a \in App, NEW c \in Calls,
         StartOrStop(a, c) \/ \E p \in Peer : NoteRunning(a, c, p)
  PROVE  IInv'
<1>1. /\ app' \in [App -> [call : Calls \cup {None}, pc : AppPC,
                           peer : Peer \cup {None}, restart : BOOLEAN]]
      /\ \A b \in App : app'[b].pc = "note" => app'[b].peer \in Peer
      /\ app[a].pc = "ready" /\ app'[a].pc \in {"lock_start", "lock", "note"}
      /\ \A b \in App : b # a => app'[b] = app[b]
      /\ UNCHANGED <<journal, lifecycle, running, stopping, op, thread, todo, history>>
  <2>1. PICK r \in [call : Calls \cup {None}, pc : {"lock_start", "lock", "note"},
                    peer : Peer \cup {None}, restart : BOOLEAN] :
          app' = [app EXCEPT ![a] = r] /\ (r.pc = "note" => r.peer \in Peer)
    <3>1. CASE StartOrStop(a, c)
      <4>1. PICK s \in {"lock_start", "lock"} : s = IF c = "start" THEN "lock_start" ELSE "lock"
        OBVIOUS
      <4>2. app' = [app EXCEPT ![a] = [Ready EXCEPT !.call = c, !.pc = s]]
        BY <3>1, <4>1 DEF StartOrStop
      <4>3. PICK r : r = [Ready EXCEPT !.call = c, !.pc = s]
        OBVIOUS
      <4>4. /\ r \in [call : Calls \cup {None}, pc : {"lock_start", "lock", "note"},
                      peer : Peer \cup {None}, restart : BOOLEAN]
            /\ r.pc = s
        BY <4>3 DEF Ready
      <4> QED
        BY <4>2, <4>3, <4>4
    <3>2. ASSUME NEW p \in Peer, NoteRunning(a, c, p)
          PROVE  app' = [app EXCEPT ![a] = [call |-> c, pc |-> "note", peer |-> p,
                                            restart |-> phase = "running"]]
      BY <3>2 DEF NoteRunning
    <3>3. ASSUME NEW p \in Peer
          PROVE  [call |-> c, pc |-> "note", peer |-> p, restart |-> phase = "running"]
                   \in [call : Calls \cup {None}, pc : {"lock_start", "lock", "note"},
                        peer : Peer \cup {None}, restart : BOOLEAN]
      OBVIOUS
    <3> QED
      BY <3>1, <3>2, <3>3
  <2>2. /\ app[a].pc = "ready"
        /\ UNCHANGED <<journal, lifecycle, running, stopping, op, thread, todo, history>>
    BY DEF StartOrStop, NoteRunning, Call, Ready
  <2>3. {"lock_start", "lock", "note"} \subseteq AppPC
    BY DEF AppPC
  <2> QED
    BY <2>1, <2>2, <2>3 DEF IInv, TypeOK
<1>2. TypeOK'
  BY <1>1 DEF IInv, TypeOK, journal, history
<1>3. OneHolder'
  BY <1>1 DEF IInv, OneHolder, Held
<1>4. HolderFits' /\ StopCancelsAll'
  BY <1>1 DEF IInv, HolderFits, InStep, StopCancelsAll, journal, history
<1>5. ThreadsFit' /\ StoppedIsQuiet' /\ RemovedIsGone' /\ FencedFits'
  BY <1>1 DEF IInv, ThreadsFit, StoppedIsQuiet, RemovedIsGone, FencedFits, FencedStaysOut, Bound,
              journal, history
<1> QED
  BY <1>2, <1>3, <1>4, <1>5 DEF IInv

\* pause_peer and remove_peer take effect on the journal first.
LEMMA FencePeerKeeps ==
  ASSUME IInv, NEW a \in App, FencePeer(a)
  PROVE  IInv'
<1>1. /\ app' \in [App -> [call : Calls \cup {None}, pc : AppPC,
                           peer : Peer \cup {None}, restart : BOOLEAN]]
      /\ \A b \in App : app'[b].pc = "note" => app'[b].peer \in Peer
      /\ app[a].pc = "note" /\ app'[a].pc \in {"lock", "ready"}
      /\ \A b \in App : b # a => app'[b] = app[b]
  <2>1. CASE uncertain
    <3>1. /\ Ready \in [call : Calls \cup {None}, pc : AppPC, peer : Peer \cup {None},
                       restart : BOOLEAN]
          /\ Ready.pc = "ready"
      BY DEF Ready, AppPC
    <3>2. app' = [app EXCEPT ![a] = Ready] /\ app[a].pc = "note"
      BY <2>1 DEF FencePeer
    <3> QED
      BY <3>1, <3>2 DEF IInv, TypeOK
  <2>2. CASE ~uncertain
    <3>1. Goto(a, "lock")
      BY <2>2 DEF FencePeer
    <3> QED
      BY <3>1, GotoMoves DEF IInv, FencePeer, AppPC
  <2> QED
    BY <2>1, <2>2
<1>2. PICK p \in Peer : p = app[a].peer
  BY DEF IInv, TypeOK, FencePeer
<1>3. /\ pstate' \in [Peer -> PeerState]
      /\ pstate' = pstate \/ pstate'[p] = "paused"
      /\ \A q \in Peer : q # p => pstate'[q] = pstate[q]
  BY <1>2 DEF IInv, TypeOK, FencePeer, PeerState
<1>4. /\ revoked' \subseteq Peer /\ revoked' \subseteq revoked \cup {p}
      /\ pending' \subseteq pending /\ (p \in revoked' => p \notin pending' \/ p \in revoked)
      /\ muted' \subseteq Peer
      /\ p \in revoked' => p \in revoked \/ pstate'[p] = "paused"
  BY <1>2 DEF IInv, TypeOK, FencePeer
<1>5. /\ \/ generation' = generation /\ outdated' = outdated
         \/ generation' = generation + 1 /\ outdated' = outdated \cup Bound
      /\ UNCHANGED <<phase, uncertain, lifecycle, running, stopping, op, thread, todo,
                     late, astray>>
  BY DEF FencePeer
<1>6. TypeOK'
  <2>1. generation' \in Nat /\ \A t \in Thread : thread[t].generation <= generation'
    BY <1>5 DEF IInv, TypeOK
  <2>2. outdated' \subseteq Thread
    BY <1>5 DEF IInv, TypeOK, Bound
  <2> QED
    BY <1>1, <1>3, <1>4, <1>5, <2>1, <2>2 DEF IInv, TypeOK
<1>7. OneHolder'
  BY <1>1, <1>5 DEF IInv, OneHolder, Held
<1>8. HolderFits' /\ StopCancelsAll'
  BY <1>1, <1>5 DEF IInv, HolderFits, InStep, StopCancelsAll
<1>9. ThreadsFit' /\ StoppedIsQuiet'
  BY <1>5 DEF IInv, ThreadsFit, StoppedIsQuiet
<1>10. FencedFits'
  BY <1>5, NewFence
<1>11. RemovedIsGone'
  BY <1>3, <1>4 DEF IInv, TypeOK, RemovedIsGone
<1> QED
  BY <1>6, <1>7, <1>8, <1>9, <1>10, <1>11 DEF IInv

\* resume_peer and a refused consent change a peer that is not removed.
LEMMA PeerCallKeeps ==
  ASSUME IInv, NEW a \in App, NEW p \in Peer, ResumePeer(a, p) \/ ConsentCancel(a, p)
  PROVE  IInv'
<1>1. /\ pstate' \in [Peer -> PeerState]
      /\ \A q \in Peer : q # p => pstate'[q] = pstate[q]
      /\ p \notin revoked /\ pending' \subseteq pending /\ muted' \subseteq Peer
      /\ UNCHANGED <<phase, generation, revoked, uncertain, lifecycle, running, stopping,
                     op, thread, todo, app, outdated, late, astray>>
  BY DEF IInv, TypeOK, ResumePeer, ConsentCancel, PeerState
<1>2. TypeOK'
  BY <1>1 DEF IInv, TypeOK
<1>3. OneHolder' /\ HolderFits'
  BY <1>1, HolderKept DEF IInv
<1>4. ThreadsFit' /\ StopCancelsAll' /\ StoppedIsQuiet' /\ FencedFits'
  BY <1>1, NewFence DEF IInv, ThreadsFit, StopCancelsAll, StoppedIsQuiet
<1>5. RemovedIsGone'
  BY <1>1 DEF IInv, TypeOK, RemovedIsGone
<1> QED
  BY <1>2, <1>3, <1>4, <1>5 DEF IInv

\* cancel_operations cancels what is registered and registers nothing.
LEMMA CancelOperationsKeeps ==
  ASSUME IInv, NEW a \in App, CancelOperations(a)
  PROVE  IInv'
<1>1. /\ op' \in [Thread -> {"none", "live", "cancelled"}]
      /\ \A t \in Thread : op'[t] # "live" /\ (op'[t] = "none" <=> op[t] = "none")
  BY DEF IInv, TypeOK, CancelOperations, CancelledOps
<1>2. TypeOK'
  BY <1>1 DEF IInv, TypeOK, CancelOperations, journal, history
<1>3. OneHolder' /\ HolderFits'
  BY HolderKept DEF IInv, CancelOperations, journal, history
<1>4. Scheduler \in Thread
  BY DEF Thread
<1>5. ThreadsFit' /\ StopCancelsAll' /\ StoppedIsQuiet' /\ RemovedIsGone' /\ FencedFits'
  BY <1>1, <1>4 DEF IInv, ThreadsFit, StopCancelsAll, StoppedIsQuiet, RemovedIsGone,
         FencedFits, FencedStaysOut, Bound, CancelOperations, journal, history
<1> QED
  BY <1>2, <1>3, <1>5 DEF IInv

-----------------------------------------------------------------------------
(* The threads of a run *)

\* The scheduler lists the peers to contact, or ends with its run.
LEMMA CollectKeeps ==
  ASSUME IInv, Collect
  PROVE  IInv'
<1>1. Scheduler \in Thread /\ Worker \subseteq Thread /\ Scheduler \notin Worker
  BY LifecycleConstants DEF Thread, Scheduler
<1>2. /\ thread' \in [Thread -> [pc : ThreadPC, peer : Peer \cup {None}, generation : Nat]]
      /\ \A t \in Thread :
           /\ thread'[t].pc \in {"idle", "loop"} <=> thread'[t].peer = None
           /\ thread'[t].generation <= generation
      /\ \A w \in Worker : thread'[w] = thread[w]
      /\ \/ thread'[Scheduler].pc = "loop"
         \/ thread'[Scheduler].pc = "idle" /\ todo' = {}
  <2>1. CASE stopping
    <3>1. PICK r : r = [Idle EXCEPT !.pc = "idle"]
      OBVIOUS
    <3>2. thread' = [thread EXCEPT ![Scheduler] = r] /\ todo' = {}
      BY <2>1, <3>1 DEF Collect, Step
    <3>3. /\ r \in [pc : ThreadPC, peer : Peer \cup {None}, generation : Nat]
          /\ r.pc = "idle" /\ r.peer = None /\ r.generation = 0
      BY <3>1 DEF Idle, ThreadPC
    <3> QED
      BY <1>1, <3>2, <3>3 DEF IInv, TypeOK
  <2>2. CASE ~stopping
    <3>1. thread' = thread /\ thread[Scheduler].pc = "loop"
      BY <2>2 DEF Collect
    <3> QED
      BY <1>1, <3>1 DEF IInv, TypeOK
  <2> QED
    BY <2>1, <2>2
<1>3. TypeOK'
  BY <1>2 DEF IInv, TypeOK, Collect, Eligible, journal, history
<1>4. OneHolder' /\ HolderFits'
  BY HolderKept DEF IInv, Collect, journal, history
<1>5. op[Scheduler] = "none"
  BY <1>1 DEF IInv, TypeOK, ThreadsFit, Collect
<1>6. running
  BY <1>1 DEF IInv, StoppedIsQuiet, Collect
<1>7. ThreadsFit' /\ StopCancelsAll' /\ StoppedIsQuiet'
  BY <1>1, <1>2, <1>5, <1>6
  DEF IInv, ThreadsFit, StopCancelsAll, StoppedIsQuiet, Collect, journal, Thread
<1>8. RemovedIsGone' /\ FencedFits'
  <2>1. RemovedIsGone'
    BY DEF IInv, RemovedIsGone, Collect, journal, history
  <2>2. Scheduler \notin outdated
    BY <1>1 DEF IInv, FencedFits, Bound, Collect
  <2>3. UNCHANGED <<generation, outdated, late>>
    BY DEF Collect, journal, history
  <2>4. \A u \in Thread : u # Scheduler => thread'[u] = thread[u]
    BY <1>1, <1>2 DEF Thread
  <2> QED
    BY <1>1, <2>1, <2>2, <2>3, <2>4, FencesKept
<1> QED
  BY <1>3, <1>4, <1>7, <1>8 DEF IInv

\* A thread that takes up an exchange, or leaves one, keeps what the threads
\* have in common; only its registration is left to show.
LEMMA ThreadKeeps ==
  ASSUME IInv, NEW t \in Thread, t = Scheduler \/ thread'[t].pc \notin {"loop", "guard"},
         running \/ thread[t].pc # "idle",
         \A u \in Thread : u # t => thread'[u] = thread[u] /\ op'[u] = op[u],
         op' \in [Thread -> {"none", "live", "cancelled"}],
         op'[t] # "none" => thread'[t].pc # "idle",
         op'[t] # "none" /\ t = Scheduler => thread'[t].pc = "exchange",
         op'[t] = "live" =>
           op[t] = "live" \/ (running /\ ~stopping) \/ (t = Scheduler /\ phase = "running"),
         UNCHANGED <<phase, lifecycle, running, stopping, app, astray>>
  PROVE  OneHolder' /\ HolderFits' /\ ThreadsFit' /\ StopCancelsAll' /\ StoppedIsQuiet'
<1>1. Scheduler \in Thread /\ Worker \subseteq Thread /\ Scheduler \notin Worker
  BY LifecycleConstants DEF Thread, Scheduler
<1>2. OneHolder' /\ HolderFits'
  BY HolderKept DEF IInv
<1>3. ThreadsFit'
  BY <1>1 DEF IInv, ThreadsFit
<1>4. StopCancelsAll'
  BY DEF IInv, HolderFits, StopCancelsAll
<1>5. running
  BY DEF IInv, StoppedIsQuiet
<1>6. StoppedIsQuiet'
  BY <1>5 DEF StoppedIsQuiet
<1> QED
  BY <1>2, <1>3, <1>4, <1>6

\* The scheduler turns to the next peer.
LEMMA NextPeerKeeps ==
  ASSUME IInv, NEW p \in Peer, NextPeer(p)
  PROVE  IInv'
<1>1. Scheduler \in Thread /\ p # None
  BY LifecycleConstants DEF Thread, None
<1>2. PICK r \in [pc : ThreadPC, peer : Peer \cup {None}, generation : Nat] :
        /\ r.pc = "context" /\ r.peer = p /\ r.generation = 0
        /\ thread' = [thread EXCEPT ![Scheduler] = r]
  BY DEF NextPeer, ThreadPC
<1>3. /\ thread' \in [Thread -> [pc : ThreadPC, peer : Peer \cup {None}, generation : Nat]]
      /\ thread'[Scheduler] = r
      /\ \A u \in Thread : u # Scheduler => thread'[u] = thread[u]
  BY <1>1, <1>2 DEF IInv, TypeOK
<1>4. TypeOK'
  <2>1. \A u \in Thread :
          /\ thread'[u].pc \in {"idle", "loop"} <=> thread'[u].peer = None
          /\ thread'[u].generation <= generation
    BY <1>1, <1>2, <1>3 DEF IInv, TypeOK
  <2> QED
    BY <1>1, <1>2, <1>3, <2>1 DEF IInv, TypeOK, NextPeer, journal, history
<1>5. op[Scheduler] = "none" /\ thread[Scheduler].pc # "idle"
  BY DEF IInv, ThreadsFit, NextPeer
<1>6. OneHolder' /\ HolderFits' /\ ThreadsFit' /\ StopCancelsAll' /\ StoppedIsQuiet'
  BY <1>1, <1>3, <1>5, ThreadKeeps DEF IInv, TypeOK, NextPeer, journal, history
<1>7. RemovedIsGone' /\ FencedFits'
  <2>1. RemovedIsGone'
    BY DEF IInv, RemovedIsGone, NextPeer, journal, history
  <2>2. Scheduler \notin outdated
    BY <1>1 DEF IInv, FencedFits, Bound, NextPeer
  <2>3. UNCHANGED <<generation, outdated, late>>
    BY DEF NextPeer, journal, history
  <2>4. \A u \in Thread : u # Scheduler => thread'[u] = thread[u]
    BY <1>1, <1>3 DEF Thread
  <2> QED
    BY <1>1, <2>1, <2>2, <2>3, <2>4, FencesKept
<1> QED
  BY <1>4, <1>6, <1>7 DEF IInv

\* An exchange takes the generation it begins in.
LEMMA ContextKeeps ==
  ASSUME IInv, NEW t \in Thread, Context(t)
  PROVE  IInv'
<1>1. thread[t] \in [pc : ThreadPC, peer : Peer \cup {None}, generation : Nat]
  BY DEF IInv, TypeOK
<1>2. PICK r : /\ r.pc \in {"exchange", "failed"} \/ (t = Scheduler /\ r.pc = "guard")
               /\ r \in [pc : ThreadPC, peer : Peer \cup {None}, generation : Nat]
               /\ r.peer = thread[t].peer
               /\ r.generation \in {generation, thread[t].generation}
               /\ thread' = [thread EXCEPT ![t] = r]
  <2>1. PICK r : r = IF phase = "running"
                     THEN [thread[t] EXCEPT !.generation = generation,
                             !.pc = IF t = Scheduler THEN "guard" ELSE "exchange"]
                     ELSE [thread[t] EXCEPT !.pc = "failed"]
    OBVIOUS
  <2>2. thread' = [thread EXCEPT ![t] = r]
    BY <2>1 DEF Context
  <2>3. r \in [pc : ThreadPC, peer : Peer \cup {None}, generation : Nat]
    BY <1>1, <2>1 DEF IInv, TypeOK, ThreadPC
  <2>4. r.pc \in {"exchange", "failed"} \/ (t = Scheduler /\ r.pc = "guard")
    BY <1>1, <2>1
  <2>5. r.peer = thread[t].peer /\ r.generation \in {generation, thread[t].generation}
    BY <1>1, <2>1
  <2> QED
    BY <2>2, <2>3, <2>4, <2>5
<1>3. /\ thread' \in [Thread -> [pc : ThreadPC, peer : Peer \cup {None}, generation : Nat]]
      /\ thread'[t] = r
      /\ \A u \in Thread : u # t => thread'[u] = thread[u]
  BY <1>2 DEF IInv, TypeOK
<1>4. thread[t].pc = "context" /\ r.pc \notin {"idle", "loop"}
  BY <1>2 DEF Context
<1>5. TypeOK'
  <2>1. \A u \in Thread :
          /\ thread'[u].pc \in {"idle", "loop"} <=> thread'[u].peer = None
          /\ thread'[u].generation <= generation
    BY <1>2, <1>3, <1>4 DEF IInv, TypeOK
  <2>2. Scheduler \in Thread /\ todo # {} => thread'[Scheduler].pc # "idle"
    BY <1>3, <1>4 DEF IInv, TypeOK
  <2> QED
    BY <1>3, <2>1, <2>2 DEF IInv, TypeOK, Context, journal, history, Thread
<1>6. /\ op[t] # "none" => t # Scheduler
      /\ t = Scheduler \/ r.pc \notin {"loop", "guard"}
  BY <1>2, <1>4 DEF IInv, ThreadsFit
<1>7. OneHolder' /\ HolderFits' /\ ThreadsFit' /\ StopCancelsAll' /\ StoppedIsQuiet'
  <2>1. /\ op' = op /\ op \in [Thread -> {"none", "live", "cancelled"}]
        /\ UNCHANGED <<phase, lifecycle, running, stopping, app, astray>>
    BY DEF IInv, TypeOK, Context, journal, history
  <2>2. /\ t = Scheduler \/ thread'[t].pc \notin {"loop", "guard"}
        /\ thread[t].pc # "idle"
        /\ op'[t] # "none" => thread'[t].pc # "idle"
        /\ op'[t] # "none" /\ t = Scheduler => thread'[t].pc = "exchange"
    BY <1>3, <1>4, <1>6, <2>1
  <2> QED
    BY <1>3, <2>1, <2>2, ThreadKeeps
<1>8. RemovedIsGone' /\ FencedFits'
  <2>1. RemovedIsGone'
    BY DEF IInv, RemovedIsGone, Context, journal, history
  <2>2. t \notin outdated
    BY <1>1 DEF IInv, FencedFits, Bound, Context
  <2>3. UNCHANGED <<generation, outdated, late>>
    BY DEF Context, journal, history
  <2>4. \A u \in Thread : u # t => thread'[u] = thread[u]
    BY <1>3 DEF Thread
  <2> QED
    BY <1>1, <2>1, <2>2, <2>3, <2>4, FencesKept
<1> QED
  BY <1>5, <1>7, <1>8 DEF IInv

\* The scheduler registers its operation only while the phase is Running.
LEMMA GuardKeeps ==
  ASSUME IInv, Guard
  PROVE  IInv'
<1>1. /\ Scheduler \in Thread
      /\ thread[Scheduler].pc = "guard" /\ thread[Scheduler].peer \in Peer
  BY DEF IInv, TypeOK, Guard, Thread
<1>2. PICK s \in {"exchange", "failed"} :
        /\ Step(Scheduler, s)
        /\ s = "exchange" => phase = "running"
        /\ op' = IF s = "exchange" THEN [op EXCEPT ![Scheduler] = "live"] ELSE op
        /\ outdated' = IF s = "exchange" THEN outdated ELSE outdated \ {Scheduler}
  BY DEF Guard
<1>3. TypeOK /\ s \in ThreadPC
  BY DEF IInv, ThreadPC
<1>4. /\ thread' \in [Thread -> [pc : ThreadPC, peer : Peer \cup {None}, generation : Nat]]
      /\ \A u \in Thread :
           /\ thread'[u].pc \in {"idle", "loop"} <=> thread'[u].peer = None
           /\ thread'[u].generation <= generation
      /\ thread'[Scheduler].pc = s
      /\ \A u \in Thread : u # Scheduler => thread'[u] = thread[u]
  BY <1>1, <1>2, <1>3, StepMoves
<1>5. op' \in [Thread -> {"none", "live", "cancelled"}]
  BY <1>2 DEF IInv, TypeOK
<1>6. TypeOK'
  BY <1>4, <1>5 DEF IInv, TypeOK, Guard, journal, history
<1>7. op[Scheduler] = "none"
  BY <1>1 DEF IInv, ThreadsFit
<1>8. OneHolder' /\ HolderFits' /\ ThreadsFit' /\ StopCancelsAll' /\ StoppedIsQuiet'
  <2>1. /\ \A u \in Thread : u # Scheduler => op'[u] = op[u]
        /\ op'[Scheduler] # "none" => s = "exchange"
        /\ op'[Scheduler] = "live" => phase = "running"
    BY <1>1, <1>2, <1>7 DEF IInv, TypeOK
  <2>2. /\ thread[Scheduler].pc # "idle"
        /\ op'[Scheduler] # "none" => /\ thread'[Scheduler].pc = "exchange"
                                      /\ thread'[Scheduler].pc # "idle"
        /\ UNCHANGED <<phase, lifecycle, running, stopping, app, astray>>
    BY <1>1, <1>4, <2>1 DEF Guard, journal, history
  <2> QED
    BY <1>1, <1>4, <1>5, <2>1, <2>2, ThreadKeeps
<1>9. RemovedIsGone' /\ FencedFits'
  <2>1. RemovedIsGone'
    BY DEF IInv, RemovedIsGone, Guard, journal, history
  <2>2. /\ outdated' \subseteq outdated /\ generation' = generation /\ late' = late
        /\ Scheduler \in outdated' => s = "exchange"
    BY <1>1, <1>2 DEF Guard, journal
  <2>3. thread'[Scheduler].generation = thread[Scheduler].generation
    <3>1. s \notin {"idle", "loop"}
      OBVIOUS
    <3> QED
      BY <1>1, <1>2, <1>3, <3>1, StepMoves
  <2> QED
    BY <1>1, <1>4, <2>1, <2>2, <2>3, FencesKept
<1> QED
  BY <1>6, <1>8, <1>9 DEF IInv

\* An inbound socket is registered only while its run is not being stopped.
LEMMA AcceptKeeps ==
  ASSUME IInv, NEW w \in Worker, NEW p \in Peer, Accept(w, p)
  PROVE  IInv'
<1>1. w \in Thread /\ w # Scheduler /\ p # None
  BY LifecycleConstants DEF Thread, Scheduler, None
<1>2. PICK r \in [pc : ThreadPC, peer : Peer \cup {None}, generation : Nat] :
        /\ r.pc = "context" /\ r.peer = p /\ r.generation = 0
        /\ thread' = [thread EXCEPT ![w] = r]
  BY DEF Accept, ThreadPC
<1>3. /\ thread' \in [Thread -> [pc : ThreadPC, peer : Peer \cup {None}, generation : Nat]]
      /\ thread'[w] = r
      /\ \A u \in Thread : u # w => thread'[u] = thread[u]
      /\ op' \in [Thread -> {"none", "live", "cancelled"}]
      /\ \A u \in Thread : u # w => op'[u] = op[u]
  BY <1>1, <1>2 DEF IInv, TypeOK, Accept
<1>4. TypeOK'
  <2>1. \A u \in Thread :
          /\ thread'[u].pc \in {"idle", "loop"} <=> thread'[u].peer = None
          /\ thread'[u].generation <= generation
    BY <1>1, <1>2, <1>3 DEF IInv, TypeOK
  <2> QED
    BY <1>1, <1>3, <2>1 DEF IInv, TypeOK, Accept, journal, history, Thread
<1>5. OneHolder' /\ HolderFits' /\ ThreadsFit' /\ StopCancelsAll' /\ StoppedIsQuiet'
  BY <1>1, <1>2, <1>3, ThreadKeeps DEF Accept, journal, history
<1>6. RemovedIsGone' /\ FencedFits'
  <2>1. RemovedIsGone'
    BY DEF IInv, RemovedIsGone, Accept, journal, history
  <2>2. w \notin outdated
    BY <1>1 DEF IInv, FencedFits, Bound, Accept
  <2>3. UNCHANGED <<generation, outdated, late>>
    BY DEF Accept, journal, history
  <2>4. \A u \in Thread : u # w => thread'[u] = thread[u]
    BY <1>1, <1>3 DEF Thread
  <2> QED
    BY <1>1, <2>1, <2>2, <2>3, <2>4, FencesKept
<1> QED
  BY <1>4, <1>5, <1>6 DEF IInv

\* Nothing is published for a removed peer, nor by an exchange begun before the
\* last fence.
LEMMA PublishKeeps ==
  ASSUME IInv, NEW t \in Thread, Publish(t)
  PROVE  IInv'
<1>1. thread[t].peer \in Peer
  BY DEF IInv, TypeOK, Publish
<1>2. PICK p \in Peer : p = thread[t].peer /\ p \notin revoked /\ t \notin outdated
  <2>1. thread[t].generation = generation /\ thread[t].generation \in Nat
    BY DEF IInv, TypeOK, Publish, Check
  <2>2. t \notin outdated
    BY <2>1 DEF IInv, FencedFits
  <2> QED
    BY <1>1, <2>2 DEF Publish, Check
<1>3. /\ pstate' \in [Peer -> PeerState]
      /\ \A q \in Peer : q # p => pstate'[q] = pstate[q]
      /\ pending' \subseteq Peer /\ pending' \subseteq pending \cup {p}
      /\ late' = late
      /\ UNCHANGED <<phase, generation, revoked, uncertain, lifecycle, running, stopping,
                     op, thread, todo, app, muted, outdated, astray>>
  BY <1>2 DEF IInv, TypeOK, Publish, PeerState
<1>4. TypeOK'
  BY <1>3 DEF IInv, TypeOK
<1>5. OneHolder' /\ HolderFits'
  BY <1>3, HolderKept DEF IInv
<1>6. ThreadsFit' /\ StopCancelsAll' /\ StoppedIsQuiet' /\ FencedFits'
  BY <1>3, NewFence DEF IInv, ThreadsFit, StopCancelsAll, StoppedIsQuiet
<1>7. RemovedIsGone'
  BY <1>2, <1>3 DEF IInv, TypeOK, RemovedIsGone
<1> QED
  BY <1>4, <1>5, <1>6, <1>7 DEF IInv

\* An exchange that ends leaves the registry.
LEMMA EndExchangeKeeps ==
  ASSUME IInv, NEW t \in Thread, EndExchange(t)
  PROVE  IInv'
<1>1. PICK s \in {"loop", "idle", "failed"} :
        Step(t, s) /\ (t # Scheduler => s # "loop") /\ (t = Scheduler => s # "idle")
  BY DEF EndExchange
<1>2. TypeOK /\ s \in ThreadPC /\ thread[t].peer \in Peer
  BY DEF IInv, TypeOK, ThreadPC, EndExchange
<1>3. /\ thread' \in [Thread -> [pc : ThreadPC, peer : Peer \cup {None}, generation : Nat]]
      /\ \A u \in Thread :
           /\ thread'[u].pc \in {"idle", "loop"} <=> thread'[u].peer = None
           /\ thread'[u].generation <= generation
      /\ thread'[t].pc = s
      /\ \A u \in Thread : u # t => thread'[u] = thread[u]
  BY <1>1, <1>2, StepMoves
<1>4. /\ op' \in [Thread -> {"none", "live", "cancelled"}]
      /\ op'[t] = "none"
      /\ \A u \in Thread : u # t => op'[u] = op[u]
  BY DEF IInv, TypeOK, EndExchange
<1>5. TypeOK'
  BY <1>1, <1>3, <1>4 DEF IInv, TypeOK, EndExchange, journal, history, Thread
<1>6. OneHolder' /\ HolderFits' /\ ThreadsFit' /\ StopCancelsAll' /\ StoppedIsQuiet'
  BY <1>1, <1>3, <1>4, ThreadKeeps DEF EndExchange, journal, history
<1>7. RemovedIsGone' /\ FencedFits'
  <2>1. RemovedIsGone'
    BY DEF IInv, RemovedIsGone, EndExchange, journal, history
  <2>2. outdated' \subseteq outdated /\ t \notin outdated' /\ UNCHANGED <<generation, late>>
    BY DEF EndExchange, journal
  <2> QED
    BY <1>3, <2>1, <2>2, FencesKept
<1> QED
  BY <1>5, <1>6, <1>7 DEF IInv

\* The scheduler's error path spares a removed peer.
LEMMA FailedKeeps ==
  ASSUME IInv, Failed
  PROVE  IInv'
<1>1. /\ Scheduler \in Thread
      /\ thread[Scheduler].pc = "failed" /\ thread[Scheduler].peer \in Peer
  BY DEF IInv, TypeOK, Failed, Thread
<1>2. PICK s \in {"idle", "loop"} :
        Step(Scheduler, s) /\ todo' = IF s = "idle" THEN {} ELSE todo
  BY DEF Failed
<1>3. TypeOK /\ s \in ThreadPC
  BY DEF IInv, ThreadPC
<1>4. /\ thread' \in [Thread -> [pc : ThreadPC, peer : Peer \cup {None}, generation : Nat]]
      /\ \A u \in Thread :
           /\ thread'[u].pc \in {"idle", "loop"} <=> thread'[u].peer = None
           /\ thread'[u].generation <= generation
      /\ thread'[Scheduler].pc = s
      /\ \A u \in Thread : u # Scheduler => thread'[u] = thread[u]
  BY <1>1, <1>2, <1>3, StepMoves
<1>5. /\ pstate' \in [Peer -> PeerState]
      /\ \A q \in revoked : pstate'[q] = pstate[q]
  BY <1>1 DEF IInv, TypeOK, Failed, PeerState
<1>6. TypeOK'
  BY <1>2, <1>4, <1>5 DEF IInv, TypeOK, Failed, history
<1>7. op[Scheduler] = "none"
  BY <1>1 DEF IInv, ThreadsFit
<1>8. OneHolder' /\ HolderFits' /\ ThreadsFit' /\ StopCancelsAll' /\ StoppedIsQuiet'
  BY <1>1, <1>4, <1>7, ThreadKeeps DEF IInv, TypeOK, Failed, history
<1>9. RemovedIsGone' /\ FencedFits'
  <2>1. RemovedIsGone'
    BY <1>5 DEF IInv, RemovedIsGone, Failed, history
  <2>2. Scheduler \notin outdated
    BY <1>1 DEF IInv, FencedFits, Bound, Failed
  <2>3. UNCHANGED <<generation, outdated, late>>
    BY DEF Failed, history
  <2>4. \A u \in Thread : u # Scheduler => thread'[u] = thread[u]
    BY <1>1, <1>4 DEF Thread
  <2> QED
    BY <1>1, <2>1, <2>2, <2>3, <2>4, FencesKept
<1> QED
  BY <1>6, <1>8, <1>9 DEF IInv

\* An inbound worker that failed closes its socket.
LEMMA FailedInboundKeeps ==
  ASSUME IInv, NEW w \in Worker, FailedInbound(w)
  PROVE  IInv'
<1>1. /\ w \in Thread /\ w # Scheduler
      /\ thread[w].pc = "failed" /\ thread[w].peer \in Peer
      /\ TypeOK /\ "idle" \in ThreadPC /\ Step(w, "idle")
  BY LifecycleConstants DEF IInv, TypeOK, FailedInbound, Thread, Scheduler, ThreadPC
<1>2. /\ thread' \in [Thread -> [pc : ThreadPC, peer : Peer \cup {None}, generation : Nat]]
      /\ \A u \in Thread :
           /\ thread'[u].pc \in {"idle", "loop"} <=> thread'[u].peer = None
           /\ thread'[u].generation <= generation
      /\ thread'[w].pc = "idle"
      /\ \A u \in Thread : u # w => thread'[u] = thread[u]
  BY <1>1, StepMoves
<1>3. /\ op' \in [Thread -> {"none", "live", "cancelled"}]
      /\ op'[w] = "none"
      /\ \A u \in Thread : u # w => op'[u] = op[u]
  BY <1>1 DEF IInv, TypeOK, FailedInbound
<1>4. TypeOK'
  BY <1>1, <1>2, <1>3 DEF IInv, TypeOK, FailedInbound, journal, history, Thread
<1>5. OneHolder' /\ HolderFits' /\ ThreadsFit' /\ StopCancelsAll' /\ StoppedIsQuiet'
  BY <1>1, <1>2, <1>3, ThreadKeeps DEF FailedInbound, journal, history
<1>6. RemovedIsGone' /\ FencedFits'
  <2>1. RemovedIsGone'
    BY DEF IInv, RemovedIsGone, FailedInbound, journal, history
  <2>2. w \notin outdated
    BY <1>1 DEF IInv, FencedFits, Bound, FailedInbound
  <2>3. UNCHANGED <<generation, outdated, late>>
    BY DEF FailedInbound, journal, history
  <2>4. \A u \in Thread : u # w => thread'[u] = thread[u]
    BY <1>1, <1>2 DEF Thread
  <2> QED
    BY <1>1, <2>1, <2>2, <2>3, <2>4, FencesKept
<1> QED
  BY <1>4, <1>5, <1>6 DEF IInv

\* Storage that became uncertain refuses mutates and moves nobody.
LEMMA StorageFailsKeeps ==
  ASSUME IInv, StorageFails
  PROVE  IInv'
<1>1. TypeOK'
  BY DEF IInv, TypeOK, StorageFails, history
<1>2. OneHolder' /\ HolderFits' /\ ThreadsFit' /\ StopCancelsAll' /\ StoppedIsQuiet'
  BY DEF IInv, OneHolder, HolderFits, InStep, ThreadsFit, StopCancelsAll, StoppedIsQuiet,
         StorageFails, history
<1>3. RemovedIsGone' /\ FencedFits'
  BY NewFence DEF IInv, RemovedIsGone, StorageFails, history
<1> QED
  BY <1>1, <1>2, <1>3 DEF IInv

-----------------------------------------------------------------------------
(* The theorems *)

\* The invariant holds initially.
LEMMA InitKeeps == Init => IInv
<1> SUFFICES ASSUME Init PROVE IInv
  OBVIOUS
<1>1. Scheduler \in Thread /\ Worker \subseteq Thread
  BY DEF Thread
<1>2. TypeOK
  <2>1. /\ thread \in [Thread -> [pc : ThreadPC, peer : Peer \cup {None}, generation : Nat]]
        /\ \A t \in Thread : thread[t].pc = "idle" /\ thread[t].peer = None
                             /\ thread[t].generation = 0
    BY DEF Init, Idle, ThreadPC
  <2>2. /\ app \in [App -> [call : Calls \cup {None}, pc : AppPC, peer : Peer \cup {None},
                            restart : BOOLEAN]]
        /\ \A a \in App : app[a].pc = "ready"
    BY DEF Init, Ready, AppPC
  <2>3. \A t \in Thread :
          /\ thread[t].pc \in {"idle", "loop"} <=> thread[t].peer = None
          /\ thread[t].generation <= generation
    BY <2>1 DEF Init
  <2>4. /\ op \in [Thread -> {"none", "live", "cancelled"}]
        /\ pstate \in [Peer -> PeerState]
    BY DEF Init, PeerState
  <2> QED
    BY <2>1, <2>2, <2>3, <2>4 DEF Init, TypeOK
<1>3. OneHolder /\ HolderFits /\ StopCancelsAll
  BY LifecycleConstants
  DEF Init, OneHolder, HolderFits, InStep, StopCancelsAll, Held, Ready, None
<1>4. ThreadsFit /\ StoppedIsQuiet /\ RemovedIsGone /\ FencedFits
  BY <1>1 DEF Init, ThreadsFit, StoppedIsQuiet, RemovedIsGone, FencedFits, FencedStaysOut, Bound, Idle
<1> QED
  BY <1>2, <1>3, <1>4 DEF IInv

\* Every step of every thread keeps the invariant.
LEMMA NextKeeps == IInv /\ [Next]_vars => IInv'
<1> SUFFICES ASSUME IInv, [Next]_vars PROVE IInv'
  OBVIOUS
<1>1. CASE UNCHANGED vars
  BY <1>1 DEF vars, journal, history, IInv, TypeOK, OneHolder, HolderFits, InStep, ThreadsFit,
              StopCancelsAll, StoppedIsQuiet, RemovedIsGone, FencedFits, FencedStaysOut, Bound
<1>2. ASSUME NEW a \in App, AppStep(a) PROVE IInv'
  BY <1>2, LockStopKeeps, FenceStopKeeps, CancelRuntimeKeeps, ScanOperationsKeeps,
     JoinThreadsKeeps, LockStartKeeps, FenceStartKeeps, SpawnKeeps, FencePeerKeeps
  DEF AppStep
<1>3. ASSUME NEW a \in App, AppCall(a) PROVE IInv'
  BY <1>3, CallKeeps, PeerCallKeeps, CancelOperationsKeeps DEF AppCall
<1>4. CASE SchedulerStep
  <2>1. Scheduler \in Thread
    BY DEF Thread
  <2> QED
    BY <1>4, <2>1, CollectKeeps, NextPeerKeeps, ContextKeeps, GuardKeeps, EndExchangeKeeps,
       FailedKeeps DEF SchedulerStep
<1>5. ASSUME NEW w \in Worker, WorkerStep(w) \/ \E p \in Peer : Accept(w, p) PROVE IInv'
  <2>1. w \in Thread
    BY DEF Thread
  <2> QED
    BY <1>5, <2>1, ContextKeeps, EndExchangeKeeps, FailedInboundKeeps, AcceptKeeps
    DEF WorkerStep
<1>6. ASSUME NEW t \in Thread, Publish(t) PROVE IInv'
  BY <1>6, PublishKeeps
<1>7. CASE StorageFails
  BY <1>7, StorageFailsKeeps
<1> QED
  BY <1>1, <1>2, <1>3, <1>4, <1>5, <1>6, <1>7 DEF Next

\* The invariant the theorems below come from: what the holder of the
\* lifecycle lock has fenced so far, and which threads may be at work.
THEOREM LifecycleInductive == Spec => []IInv
<1>1. Init => IInv
  BY InitKeeps
<1>2. IInv /\ [Next]_vars => IInv'
  BY NextKeeps
<1> QED
  BY <1>1, <1>2, PTL DEF Spec

\* Type correctness.
THEOREM LifecycleType == Spec => []TypeOK
<1>1. IInv => TypeOK
  BY DEF IInv
<1> QED
  BY <1>1, LifecycleInductive, PTL

\* When stop joins the threads of a run, no operation of theirs is live, but for
\* one of the scheduler's where the journal refused to be fenced.
THEOREM StopCancels == Spec => []StopCancelsAll
<1>1. IInv => StopCancelsAll
  BY DEF IInv
<1> QED
  BY <1>1, LifecycleInductive, PTL

\* Without a runtime no thread works and no operation is registered.
THEOREM StopIsQuiet == Spec => []StoppedIsQuiet
<1>1. IInv => StoppedIsQuiet
  BY DEF IInv
<1> QED
  BY <1>1, LifecycleInductive, PTL

\* Between lifecycle calls the phase in the journal tells whether the session
\* runs, but for a start whose browser failed and a stop whose mutate was refused.
THEOREM PhaseIsTruthful == Spec => []PhaseTruthful
<1>1. IInv => PhaseTruthful
  BY DEF IInv, HolderFits, InStep, PhaseTruthful
<1> QED
  BY <1>1, LifecycleInductive, PTL

\* No exchange that began before a pause, a removal or a stop publishes anything
\* after its mutate, and a removed peer keeps its state and gets no preview.
THEOREM RemovalFences == Spec => [](FencedStaysOut /\ RemovedIsGone)
<1>1. IInv => FencedStaysOut /\ RemovedIsGone
  BY DEF IInv, FencedFits
<1> QED
  BY <1>1, LifecycleInductive, PTL

=============================================================================
