---------------------------- MODULE FfiSessions ----------------------------
(***************************************************************************)
(* The managed C interface (crates/libresync-ffi/src/managed.rs): numbered *)
(* sessions in a registry, calls of several threads that each keep the     *)
(* session they found, event subscriptions, and the key store callbacks of *)
(* the host, whose context is released when nothing can call them.         *)
(***************************************************************************)
EXTENDS Integers, FiniteSets

CONSTANTS Caller,   \* threads of the host
          MaxId,    \* the last number, never given out
          MaxSubs   \* subscriptions of a session

FfiSessionsAssumption == MaxId \in Nat \ {0} /\ MaxSubs \in Nat

Id == 1 .. MaxId

VARIABLES
  next,      \* NEXT: the next number
  registry,  \* HANDLES
  phase,     \* phase[i]: what session i does; "none": there is none
  context,   \* context[i]: the callbacks' context: "none", "live" or "released"
  subs,      \* subs[i]: the subscriptions of i
  caller     \* caller[c]: the call c makes: [id, op, pc, running, sub]

vars == <<next, registry, phase, context, subs, caller>>

NoCall == [id |-> 0, op |-> "none", pc |-> "none", running |-> FALSE, sub |-> 0]
Idle(c) == caller[c] = NoCall
Held(i, c) == \E d \in Caller \ {c} : caller[d].id = i

Init ==
  /\ next = 1
  /\ registry = {}
  /\ phase = [i \in Id |-> "none"]
  /\ context = [i \in Id |-> "none"]
  /\ subs = [i \in Id |-> {}]
  /\ caller = [c \in Caller |-> NoCall]

-----------------------------------------------------------------------------

\* next_id: none when the counter is spent.
NextIds == IF next < MaxId THEN {next} ELSE {}

\* libresync_session_open: a failure drops the session and the callbacks, which
\* leaves nothing behind; a number may have been drawn.
Open(c) ==
  /\ Idle(c)
  /\ \E i \in NextIds, ok \in BOOLEAN :
       /\ next' = i + 1
       /\ registry' = IF ok THEN registry \cup {i} ELSE registry
       /\ phase' = IF ok THEN [phase EXCEPT ![i] = "stopped"] ELSE phase
       /\ context' = [context EXCEPT ![i] = IF ok THEN "live" ELSE "released"]
  /\ UNCHANGED <<subs, caller>>

\* dispatch: the call finds its session, and keeps it until it returns.
Call(c, i, op) ==
  /\ Idle(c) /\ i \in registry
  /\ caller' = [caller EXCEPT ![c] = [NoCall EXCEPT !.id = i, !.op = op, !.pc = "begun"]]
  /\ UNCHANGED <<next, registry, phase, context, subs>>

At(c, op, pc) == caller[c].op = op /\ caller[c].pc = pc
Goes(c, pc) == caller' = [caller EXCEPT ![c].pc = pc]

Starts(c) ==
  /\ At(c, "start", "begun")
  /\ phase' = [phase EXCEPT ![caller[c].id] = "running"]
  /\ Goes(c, "returns")
  /\ UNCHANGED <<next, registry, context, subs>>

Pauses(c) ==
  /\ At(c, "pause", "begun") \/ At(c, "close", "begun")
  /\ phase' = [phase EXCEPT ![caller[c].id] = IF caller[c].op = "pause" THEN "paused" ELSE "stopped"]
  /\ Goes(c, "returns")
  /\ UNCHANGED <<next, registry, context, subs>>

\* remove_peer and repair_peer stop the session, and start it if it ran.
Removes(c) ==
  /\ caller[c].op = "remove"
  /\ LET i == caller[c].id IN
     CASE caller[c].pc = "begun" ->
            /\ caller' = [caller EXCEPT ![c].pc = "read", ![c].running = phase[i] = "running"]
            /\ UNCHANGED phase
       [] caller[c].pc = "read" ->
            /\ phase' = [phase EXCEPT ![i] = "stopped"]
            /\ Goes(c, "stopped")
       [] caller[c].pc = "stopped" ->
            /\ phase' = IF caller[c].running THEN [phase EXCEPT ![i] = "running"] ELSE phase
            /\ Goes(c, "returns")
       [] OTHER -> FALSE
  /\ UNCHANGED <<next, registry, context, subs>>

\* Subscribe draws from the same numbers; at capacity, or without one, it fails.
Subscribes(c) ==
  LET i == caller[c].id IN
  /\ At(c, "subscribe", "begun")
  /\ IF Cardinality(subs[i]) < MaxSubs /\ NextIds # {}
     THEN /\ subs' = [subs EXCEPT ![i] = @ \cup {next}]
          /\ next' = next + 1
     ELSE UNCHANGED <<subs, next>>
  /\ Goes(c, "returns")
  /\ UNCHANGED <<registry, phase, context>>

Unsubscribes(c) ==
  /\ At(c, "unsubscribe", "begun")
  /\ \E s \in subs[caller[c].id] \cup {0} : subs' = [subs EXCEPT ![caller[c].id] = @ \ {s}]
  /\ Goes(c, "returns")
  /\ UNCHANGED <<next, registry, phase, context>>

\* A poll takes the queue from its lock and then waits, for a second at most.
Polls(c) ==
  /\ caller[c].op = "events"
  /\ \/ /\ caller[c].pc = "begun"
        /\ \E s \in subs[caller[c].id] \cup {0} :
             caller' = [caller EXCEPT ![c].pc = "waits", ![c].sub = s]
     \/ caller[c].pc = "waits" /\ Goes(c, "returns")
  /\ UNCHANGED <<next, registry, phase, context, subs>>

\* libresync_session_close: out of the registry, then shutdown.
Close(c, i) ==
  /\ Idle(c) /\ i \in registry
  /\ registry' = registry \ {i}
  /\ caller' = [caller EXCEPT ![c] = [NoCall EXCEPT !.id = i, !.op = "close", !.pc = "begun"]]
  /\ UNCHANGED <<next, phase, context, subs>>

\* Mutants: close releases the callbacks' context; only close looks whether the
\* session is to be dropped.
Leaves(c, last) ==
  LET i == caller[c].id IN
  /\ caller[c].pc = "returns"
  /\ caller' = [caller EXCEPT ![c] = NoCall]
  /\ IF last
     THEN context' = [context EXCEPT ![i] = "released"] /\ phase' = [phase EXCEPT ![i] = "none"]
     ELSE UNCHANGED <<context, phase>>
  /\ UNCHANGED <<next, registry, subs>>
ReturnOfClose(c) ==
  Leaves(c, caller[c].id \notin registry /\ (caller[c].op = "close" \/ ~Held(caller[c].id, c)))
ReturnDropsInClose(c) ==
  Leaves(c, caller[c].id \notin registry /\ caller[c].op = "close" /\ ~Held(caller[c].id, c))

\* The last reference drops the session, which shuts it down, and the callbacks.
Return(c) == Leaves(c, caller[c].id \notin registry /\ ~Held(caller[c].id, c))

\* A call under way.
Proceeds(c) ==
  \/ Starts(c) \/ Pauses(c) \/ Removes(c) \/ Subscribes(c) \/ Unsubscribes(c)
  \/ Polls(c) \/ Return(c)

Next ==
  \E c \in Caller :
    \/ Open(c) \/ Proceeds(c)
    \/ \E i \in Id :
         \/ Close(c, i)
         \/ \E op \in {"start", "pause", "remove", "subscribe", "unsubscribe", "events"} :
              Call(c, i, op)

Spec == Init /\ [][Next]_vars

\* Threads that are in a call go on.
Fairness ==
  \A c \in Caller :
    WF_vars(Proceeds(c))

LiveSpec == Spec /\ Fairness

-----------------------------------------------------------------------------
(* Properties.                                                             *)

\* The host's context outlives everything that may call it: it is live while a
\* session is registered, runs, or has a call in flight.
ContextReleasedLast ==
  \A i \in Id :
    LET used == i \in registry \/ (\E c \in Caller : caller[c].id = i) IN
    /\ used => context[i] = "live"
    /\ phase[i] # "none" => context[i] = "live"

\* No number names two things: a stale number of a closed session or of a
\* subscription can never reach another session, at the end of the counter too.
NumbersUnique ==
  /\ \A i \in Id : i >= next => context[i] = "none"
  /\ \A i, j \in Id : subs[i] \cap subs[j] # {} => i = j
  /\ \A i, j \in Id : j \in subs[i] => context[j] = "none" /\ j < next

\* A closed session ends, whatever calls were in flight: one that restarts it
\* after the close does not leave it running.
ClosedEnds ==
  \A i \in Id :
    (context[i] = "live" /\ i \notin registry) ~> (phase[i] = "none" /\ context[i] = "released")
=============================================================================
