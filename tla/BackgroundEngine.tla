--------------------------- MODULE BackgroundEngine ---------------------------
(***************************************************************************)
(* BackgroundEngine (crates/libresync/src/engine.rs 1206-1506): application *)
(* threads submit commands to one engine thread, cancel them by ticket and *)
(* shut the thread down.  `current`, `cancelled` and the command channel   *)
(* have a lock each, and no operation holds two of them, so each action is *)
(* one critical section.                                                   *)
(***************************************************************************)
EXTENDS Integers, Sequences, FiniteSets

CONSTANTS
  App,        \* application threads
  Kind,       \* the commands they submit
  MaxTicket   \* bound: commands submitted in a behaviour

\* Commands by what they do here: sync and link poll their token, start and
\* stop change the listener, anything else (save, discover, run) does neither.
ASSUME BackgroundConstants ==
  /\ Kind \subseteq {"sync", "start", "stop", "other"}
  /\ MaxTicket \in Nat

Ticket == 1 .. MaxTicket
Shutdown == 0     \* the Command without a ticket
None == 0

Result == {"success", "failed", "cancelled"}

VARIABLES
  next,       \* next_ticket
  kind,       \* kind[t]: the command of ticket t
  sender,     \* the sender of the channel is still there
  chan,       \* the command channel
  current,    \* ticket in `current`
  token,      \* token[t]: the CancelToken of t is cancelled
  cancelled,  \* the set `cancelled`
  loop,       \* the engine thread: its step and the command it received
  finished,   \* finished[t]: results of the TaskFinished events of t
  listener,   \* the engine's listener is running
  app,        \* app[c]: what application thread c is doing
  asked,      \* tickets a caller has asked to cancel
  confirmed,  \* tickets whose cancel has returned
  late        \* tickets still in the channel when shutdown closed it

vars == <<next, kind, sender, chan, current, token, cancelled, loop, finished,
          listener, app, asked, confirmed, late>>

LoopPC == {"recv", "check", "skip", "set", "run", "clear", "report",
           "stop", "done"}
AppPC == {"idle", "submit", "cancel", "insert", "close", "take", "join", "joined"}

TypeOK ==
  /\ next \in 1 .. MaxTicket + 1
  /\ kind \in [Ticket -> Kind]
  /\ sender \in BOOLEAN
  /\ chan \in Seq(Ticket \cup {Shutdown})
  /\ current \in Ticket \cup {None}
  /\ token \in [Ticket -> BOOLEAN]
  /\ cancelled \subseteq Ticket
  /\ loop \in [pc : LoopPC, ticket : Ticket \cup {None},
               result : Result \cup {"none"}]
  /\ finished \in [Ticket -> Seq(Result)]
  /\ \A t \in Ticket : Len(finished[t]) <= 1
  /\ listener \in BOOLEAN
  /\ app \in [App -> [pc : AppPC, ticket : Ticket \cup {None}]]
  /\ asked \subseteq Ticket
  /\ confirmed \subseteq asked
  /\ late \subseteq Ticket

Init ==
  /\ next = 1
  /\ kind \in [Ticket -> Kind]
  /\ sender = TRUE
  /\ chan = <<>>
  /\ current = None
  /\ token = [t \in Ticket |-> FALSE]
  /\ cancelled = {}
  /\ loop = [pc |-> "recv", ticket |-> None, result |-> "none"]
  /\ finished = [t \in Ticket |-> <<>>]
  /\ listener = FALSE
  /\ app = [c \in App |-> [pc |-> "idle", ticket |-> None]]
  /\ asked = {}
  /\ confirmed = {}
  /\ late = {}

InChannel(t) == \E i \in 1 .. Len(chan) : chan[i] = t
Do(c, step, t) == app' = [app EXCEPT ![c] = [pc |-> step, ticket |-> t]]
Loop(step) == loop' = [loop EXCEPT !.pc = step]

-----------------------------------------------------------------------------
(* The application threads *)

\* submit: the ticket is drawn before the sender is locked.
DrawTicket(c) ==
  /\ app[c].pc = "idle"
  /\ next <= MaxTicket
  /\ next' = next + 1
  /\ Do(c, "submit", next)
  /\ UNCHANGED <<kind, sender, chan, current, token, cancelled, loop, finished,
                 listener, asked, confirmed, late>>

\* The command is queued, or "background engine stopped".
Send(c) ==
  /\ app[c].pc = "submit"
  /\ chan' = IF sender THEN Append(chan, app[c].ticket) ELSE chan
  /\ Do(c, "idle", None)
  /\ UNCHANGED <<next, kind, sender, current, token, cancelled, loop, finished,
                 listener, asked, confirmed, late>>

\* A caller holds only tickets submit has returned: their command was queued.
Returned(t) == InChannel(t) \/ loop.ticket = t \/ finished[t] # <<>>

Cancel(c, t) ==
  /\ app[c].pc = "idle"
  /\ t \notin asked
  /\ Returned(t)
  /\ asked' = asked \cup {t}
  /\ Do(c, "cancel", t)
  /\ UNCHANGED <<next, kind, sender, chan, current, token, cancelled, loop,
                 finished, listener, confirmed, late>>

\* Mutant of LockCurrent: whatever is running is cancelled.
LockCurrentAny(c) ==
  LET t == app[c].ticket
  IN /\ app[c].pc = "cancel"
     /\ token' = IF current # None THEN [token EXCEPT ![current] = TRUE] ELSE token
     /\ Do(c, "insert", t)
     /\ UNCHANGED <<next, kind, sender, chan, current, cancelled, loop,
                    finished, listener, asked, confirmed, late>>

\* cancel, first lock: the running command's token.
LockCurrent(c) ==
  LET t == app[c].ticket
  IN /\ app[c].pc = "cancel"
     /\ IF current = t
        THEN /\ token' = [token EXCEPT ![t] = TRUE]
             /\ confirmed' = confirmed \cup {t}
             /\ Do(c, "idle", None)
        ELSE /\ Do(c, "insert", t)
             /\ UNCHANGED <<token, confirmed>>
     /\ UNCHANGED <<next, kind, sender, chan, current, cancelled, loop,
                    finished, listener, asked, late>>

\* cancel, second lock: leave the ticket for the engine thread to find.
InsertCancelled(c) ==
  LET t == app[c].ticket
  IN /\ app[c].pc = "insert"
     /\ cancelled' = cancelled \cup {t}
     /\ confirmed' = confirmed \cup {t}
     /\ Do(c, "idle", None)
     /\ UNCHANGED <<next, kind, sender, chan, current, token, loop, finished,
                    listener, asked, late>>

CurrentToken ==
  token' = IF current # None THEN [token EXCEPT ![current] = TRUE] ELSE token

CancelCurrent(c) ==
  /\ app[c].pc = "idle"
  /\ CurrentToken
  /\ asked' = IF current = None THEN asked ELSE asked \cup {current}
  /\ UNCHANGED <<next, kind, sender, chan, current, cancelled, loop, finished,
                 listener, app, confirmed, late>>

\* shutdown: cancel_current, then close the channel, then join the thread.
BeginShutdown(c) ==
  /\ app[c].pc = "idle"
  /\ CurrentToken
  /\ asked' = IF current = None THEN asked ELSE asked \cup {current}
  /\ Do(c, "close", None)
  /\ UNCHANGED <<next, kind, sender, chan, current, cancelled, loop, finished,
                 listener, confirmed, late>>

\* Mutant of CloseChannel: queued commands are thrown away.
CloseChannelDropping(c) ==
  /\ app[c].pc = "close"
  /\ chan' = IF sender THEN <<Shutdown>> ELSE chan
  /\ late' = IF sender THEN {t \in Ticket : InChannel(t)} ELSE late
  /\ sender' = FALSE
  /\ Do(c, "take", None)
  /\ UNCHANGED <<next, kind, current, token, cancelled, loop, finished,
                 listener, asked, confirmed>>

\* Mutant of CloseChannel: the sender is left for the drop of the fields.
CloseChannelLater(c) ==
  /\ app[c].pc = "close"
  /\ Do(c, "take", None)
  /\ UNCHANGED <<next, kind, sender, chan, current, token, cancelled, loop, finished,
                 listener, asked, confirmed, late>>

CloseChannel(c) ==
  /\ app[c].pc = "close"
  /\ chan' = IF sender THEN Append(chan, Shutdown) ELSE chan
  /\ late' = IF sender THEN {t \in Ticket : InChannel(t)} ELSE late
  /\ sender' = FALSE
  /\ Do(c, "take", None)
  /\ UNCHANGED <<next, kind, current, token, cancelled, loop, finished,
                 listener, asked, confirmed>>

\* The first caller takes the thread handle, others return at once.
TakeThread(c) ==
  /\ app[c].pc = "take"
  /\ Do(c, IF \E d \in App : app[d].pc \in {"join", "joined"} THEN "idle" ELSE "join", None)
  /\ UNCHANGED <<next, kind, sender, chan, current, token, cancelled, loop,
                 finished, listener, asked, confirmed, late>>

Join(c) ==
  /\ app[c].pc = "join"
  /\ loop.pc = "done"
  /\ Do(c, "joined", None)
  /\ UNCHANGED <<next, kind, sender, chan, current, token, cancelled, loop,
                 finished, listener, asked, confirmed, late>>

-----------------------------------------------------------------------------
(* The engine thread *)

\* recv fails once the sender is gone and the channel is empty, which ends the
\* loop as Shutdown does.
Recv ==
  /\ loop.pc = "recv"
  /\ chan # <<>> \/ ~sender
  /\ LET command == IF chan = <<>> THEN Shutdown ELSE Head(chan)
     IN  loop' = [pc |-> IF command = Shutdown THEN "stop" ELSE "check",
                  ticket |-> command, result |-> "none"]
  /\ chan' = IF chan = <<>> THEN chan ELSE Tail(chan)
  /\ UNCHANGED <<next, kind, sender, current, token, cancelled, finished,
                 listener, app, asked, confirmed, late>>

CheckCancelled ==
  /\ loop.pc = "check"
  /\ Loop(IF loop.ticket \in cancelled THEN "skip" ELSE "set")
  /\ cancelled' = cancelled \ {loop.ticket}
  /\ UNCHANGED <<next, kind, sender, chan, current, token, finished, listener,
                 app, asked, confirmed, late>>

SetCurrent ==
  /\ loop.pc = "set"
  /\ current' = loop.ticket
  /\ Loop("run")
  /\ UNCHANGED <<next, kind, sender, chan, token, cancelled, finished,
                 listener, app, asked, confirmed, late>>

\* run_command: a sync or link whose token is cancelled may end with
\* Cancelled; every command may fail, and a listener starts or stops only
\* from the other state.
Run ==
  LET k == kind[loop.ticket]
  IN /\ loop.pc = "run"
     /\ \E r \in Result :
          /\ r = "cancelled" => k = "sync" /\ token[loop.ticket]
          /\ k = "start" /\ listener => r = "failed"
          /\ k = "stop" /\ ~listener => r = "failed"
          /\ listener' = IF r = "success" /\ k \in {"start", "stop"}
                         THEN k = "start" ELSE listener
          /\ loop' = [loop EXCEPT !.pc = "clear", !.result = r]
     /\ UNCHANGED <<next, kind, sender, chan, current, token, cancelled,
                    finished, app, asked, confirmed, late>>

ClearCurrent ==
  /\ loop.pc = "clear"
  /\ current' = None
  /\ Loop("report")
  /\ UNCHANGED <<next, kind, sender, chan, token, cancelled, finished,
                 listener, app, asked, confirmed, late>>

\* TaskFinished, of a command that ran or of one that was skipped.
Report ==
  /\ loop.pc \in {"report", "skip"}
  /\ finished' = [finished EXCEPT ![loop.ticket] =
       Append(@, IF loop.pc = "skip" THEN "cancelled" ELSE loop.result)]
  /\ loop' = [pc |-> "recv", ticket |-> None, result |-> "none"]
  /\ UNCHANGED <<next, kind, sender, chan, current, token, cancelled, listener,
                 app, asked, confirmed, late>>

StopThread ==
  /\ loop.pc = "stop"
  /\ listener' = FALSE
  /\ Loop("done")
  /\ UNCHANGED <<next, kind, sender, chan, current, token, cancelled, finished,
                 app, asked, confirmed, late>>

EngineThread ==
  Recv \/ CheckCancelled \/ SetCurrent \/ Run \/ ClearCurrent \/ Report \/ StopThread
AppThread(c) ==
  \/ Send(c) \/ LockCurrent(c) \/ InsertCancelled(c)
  \/ CloseChannel(c) \/ TakeThread(c) \/ Join(c)

Next ==
  \/ EngineThread
  \/ \E c \in App : \/ DrawTicket(c) \/ CancelCurrent(c) \/ BeginShutdown(c)
                    \/ AppThread(c) \/ \E t \in Ticket : Cancel(c, t)

Spec == Init /\ [][Next]_vars

\* Threads that can run do run, and a command's own timeouts end it; nothing
\* forces the application to call anything.
Fairness == WF_vars(EngineThread) /\ \A c \in App : WF_vars(AppThread(c))

FairSpec == Spec /\ Fairness

-----------------------------------------------------------------------------
(* Properties *)

Running(t) == loop.ticket = t /\ loop.pc \in {"set", "run", "clear", "report"}

\* Only what someone asked to cancel ends as cancelled: a cancel that comes
\* late, for a finished ticket, never reaches the command running now.
OnlyAskedCancelled ==
  \A t \in Ticket : token[t] \/ finished[t] = <<"cancelled">> => t \in asked

\* A ticket confirmed as cancelled while queued is still known to be so.
QueuedCancelKept ==
  \A t \in confirmed : InChannel(t) => t \in cancelled

\* shutdown joins a thread that has stopped the listener and run everything
\* that was queued before it.
JoinedIsOver ==
  (\E c \in App : app[c].pc = "joined") =>
    ~listener /\ chan = <<>> /\ current = None /\ ~sender

\* Every command that was queued is reported, whatever is cancelled or shut
\* down meanwhile: a caller that waits for TaskFinished does not wait for ever.
TaskFinishes == \A t \in Ticket : InChannel(t) ~> finished[t] # <<>>

\* shutdown returns.
ShutdownReturns ==
  \A c \in App : app[c].pc = "close" ~> app[c].pc \in {"joined", "idle"}

\* cancel, engine.rs 1404: "Cancels a queued or running command."  Once it has
\* returned, the command is skipped or its token is cancelled.
CancelReaches ==
  \A t \in confirmed : loop.pc = "run" /\ loop.ticket = t => token[t]

\* shutdown, engine.rs 1428: "Queued commands are dropped": a command that was
\* still in the channel when shutdown closed it does not run.
QueuedDropped == \A t \in late : ~(loop.pc = "run" /\ loop.ticket = t)
=============================================================================
