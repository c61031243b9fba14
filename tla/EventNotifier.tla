---------------------------- MODULE EventNotifier ----------------------------
(***************************************************************************)
(* The engine's event channel (crates/libresync/src/engine.rs 137-345): an *)
(* unbounded queue, the `signaled` flag and the wake pipe that lets a GUI  *)
(* main loop wait for events with poll() on EventStream::raw_fd.           *)
(*                                                                         *)
(* The flag and the pipe are updated in separate steps, so every atomic    *)
(* operation is an action here: emitters queue, swap the flag, then write; *)
(* consumers take, look at the queue, swap the flag, then read.            *)
(***************************************************************************)
EXTENDS Integers, FiniteSets

CONSTANTS
  Emitter,    \* threads that emit events (sync workers, the engine thread)
  Drain,      \* consumers that poll raw_fd and call try_recv until None
  Single,     \* consumers that poll raw_fd and take one event per wake-up
  Blocking,   \* consumers that block in recv and never look at raw_fd
  Mixes,      \* the sets of consumers that may share the stream
  MaxEvents   \* bound: events emitted in a behaviour

Consumer == Drain \cup Single \cup Blocking

NotifierConstants ==
  /\ Mixes \subseteq SUBSET Consumer
  /\ MaxEvents \in Nat
  /\ Emitter \cap Consumer = {}

VARIABLES
  mix,        \* the consumers of this behaviour
  emitted,    \* events emitted so far
  queued,     \* events in the channel
  signaled,   \* Notifier::signaled
  unread,     \* bytes in the wake pipe
  waker,      \* a waker callback is registered
  pc          \* pc[t]: the next atomic step of thread t

vars == <<mix, emitted, queued, signaled, unread, waker, pc>>

\* Where a consumer starts over: waiting for the descriptor, or in recv.
Rest(c) == IF c \in Blocking THEN "take" ELSE "poll"

\* Where a consumer goes on with an event in hand.
Next1(c) == IF c \in Drain THEN "take" ELSE Rest(c)

EmitterPC == {"idle", "swap", "write", "wake"}
ConsumerPC == {"poll", "take", "look", "load", "swap", "write", "wake",
               "clear", "read", "giveup", "reread"}

TypeOK ==
  /\ mix \in Mixes
  /\ emitted \in 0 .. MaxEvents
  /\ queued \in 0 .. emitted
  /\ signaled \in BOOLEAN
  /\ unread \in Nat
  /\ waker \in BOOLEAN
  /\ \A e \in Emitter : pc[e] \in EmitterPC
  /\ \A c \in Consumer : pc[c] \in ConsumerPC

Init ==
  /\ mix \in Mixes
  /\ emitted = 0
  /\ queued = 0
  /\ signaled = FALSE
  /\ unread = 0
  /\ waker = FALSE
  /\ pc = [t \in Emitter \cup Consumer |->
             IF t \in Emitter THEN "idle" ELSE Rest(t)]

Goto(t, label) == pc' = [pc EXCEPT ![t] = label]

-----------------------------------------------------------------------------
(* EventChannel::emit, and Notifier::signal step by step *)

Emit(e) ==
  /\ pc[e] = "idle"
  /\ emitted < MaxEvents
  /\ emitted' = emitted + 1
  /\ queued' = queued + 1
  /\ Goto(e, "swap")
  /\ UNCHANGED <<mix, signaled, unread, waker>>

\* The thread that sets the flag owes the pipe a byte.
SwapTrue(t) ==
  /\ pc[t] = "swap"
  /\ signaled' = TRUE
  /\ Goto(t, IF signaled THEN "wake" ELSE "write")
  /\ UNCHANGED <<mix, emitted, queued, unread, waker>>

WriteByte(t) ==
  /\ pc[t] = "write"
  /\ unread' = unread + 1
  /\ Goto(t, "wake")
  /\ UNCHANGED <<mix, emitted, queued, signaled, waker>>

\* The registered waker runs on the thread that signals.
RunWaker(t) ==
  /\ pc[t] = "wake"
  /\ Goto(t, IF t \in Emitter THEN "idle" ELSE Next1(t))
  /\ UNCHANGED <<mix, emitted, queued, signaled, unread, waker>>

\* EventStream::set_waker and clear_waker
SetWaker(on) ==
  /\ waker # on
  /\ waker' = on
  /\ UNCHANGED <<mix, emitted, queued, signaled, unread, pc>>

-----------------------------------------------------------------------------
(* EventStream::recv and try_recv, and Notifier::after_take *)

\* The main loop finds the descriptor readable and calls try_recv.
PollReady(c) ==
  /\ pc[c] = "poll"
  /\ unread > 0
  /\ Goto(c, "take")
  /\ UNCHANGED <<mix, emitted, queued, signaled, unread, waker>>

Take(c) ==
  /\ pc[c] = "take"
  /\ queued > 0
  /\ queued' = queued - 1
  /\ Goto(c, "look")
  /\ UNCHANGED <<mix, emitted, signaled, unread, waker>>

\* try_recv on an empty queue: None, unless a wake byte is pending.
FindEmpty(c) ==
  /\ pc[c] = "take"
  /\ c \notin Blocking
  /\ queued = 0
  /\ Goto(c, "giveup")
  /\ UNCHANGED <<mix, emitted, queued, signaled, unread, waker>>

LookAgain(c) ==
  /\ pc[c] = "look"
  /\ Goto(c, IF queued = 0 THEN "clear" ELSE "load")
  /\ UNCHANGED <<mix, emitted, queued, signaled, unread, waker>>

\* More events are queued: signal again unless the flag is set.
Rearm(c) ==
  /\ pc[c] = "load"
  /\ Goto(c, IF signaled THEN Next1(c) ELSE "swap")
  /\ UNCHANGED <<mix, emitted, queued, signaled, unread, waker>>

\* consume_signal after an event was taken.
SwapFalse(c) ==
  /\ pc[c] = "clear"
  /\ signaled' = FALSE
  /\ Goto(c, IF signaled THEN "read" ELSE Next1(c))
  /\ UNCHANGED <<mix, emitted, queued, unread, waker>>

\* read_exact blocks until the thread that set the flag has written.
ReadByte(c) ==
  /\ pc[c] = "read"
  /\ unread > 0
  /\ unread' = unread - 1
  /\ Goto(c, Next1(c))
  /\ UNCHANGED <<mix, emitted, queued, signaled, waker>>

\* consume_signal when the queue was found empty.
SwapFalseEmpty(c) ==
  /\ pc[c] = "giveup"
  /\ signaled' = FALSE
  /\ Goto(c, IF signaled THEN "reread" ELSE "poll")
  /\ UNCHANGED <<mix, emitted, queued, unread, waker>>

\* Mutant of ReadByteEmpty: None is returned once the byte is consumed.
ReadByteReturnsNone(c) ==
  /\ pc[c] = "reread"
  /\ unread > 0
  /\ unread' = unread - 1
  /\ Goto(c, "poll")
  /\ UNCHANGED <<mix, emitted, queued, signaled, waker>>

\* "re-check in case an event landed between the two operations"
ReadByteEmpty(c) ==
  /\ pc[c] = "reread"
  /\ unread > 0
  /\ unread' = unread - 1
  /\ Goto(c, "take")
  /\ UNCHANGED <<mix, emitted, queued, signaled, waker>>

Signal(t) == SwapTrue(t) \/ WriteByte(t) \/ RunWaker(t)
Receive(c) ==
  \/ PollReady(c) \/ Take(c) \/ FindEmpty(c) \/ LookAgain(c) \/ Rearm(c)
  \/ SwapFalse(c) \/ ReadByte(c) \/ SwapFalseEmpty(c) \/ ReadByteEmpty(c)

Next ==
  \/ \E e \in Emitter : Emit(e)
  \/ \E t \in Emitter \cup Consumer : Signal(t)
  \/ \E c \in mix : Receive(c)
  \/ \E on \in BOOLEAN : SetWaker(on)

Spec == Init /\ [][Next]_vars

\* The scheduler runs every thread that can run; nothing forces an emission.
Fairness ==
  /\ \A t \in Emitter \cup Consumer : WF_vars(Signal(t))
  /\ \A c \in Consumer : WF_vars(c \in mix /\ Receive(c))

FairSpec == Spec /\ Fairness

-----------------------------------------------------------------------------
(* Properties *)

\* Nobody is inside an operation of the channel (a blocked recv counts as
\* waiting, not as an operation).
Quiet ==
  /\ \A e \in Emitter : pc[e] = "idle"
  /\ \A c \in Consumer : pc[c] = Rest(c)

\* Notifier::signal's invariant, "exactly one unread wake byte while
\* `signaled` is set", between operations: neither a second byte that would
\* spin the main loop nor a flag without its byte that would silence it.
OneByte == Quiet => unread = IF signaled THEN 1 ELSE 0

\* raw_fd: "readable whenever events are queued".  When every thread waits,
\* no event is left in the queue that the descriptor does not announce.
Announced == Quiet /\ queued > 0 => unread > 0

\* Announced holds for consumers that drain the queue at every wake-up.
NoLostWake == mix \subseteq Drain => Announced

\* A queued event is taken, although such consumers run only when woken.
EventsTaken == mix \subseteq Drain /\ queued > 0 ~> queued = 0
=============================================================================
