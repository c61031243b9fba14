----------------------------- MODULE HostProofs -----------------------------
(***************************************************************************)
(* Proofs about the C interface that hosts use, for any threads, handles,  *)
(* tickets and numbers: the context of a session's callbacks is released   *)
(* after everything that may call it, and a cancellation finds every sync  *)
(* that still runs.                                                        *)
(***************************************************************************)
EXTENDS MCHosts, TLAPS

-----------------------------------------------------------------------------
(* Managed sessions                                                        *)

Phase == {"none", "running", "paused", "stopped"}
CallState ==
  [id : S!Id \cup {0},
   op : {"none", "start", "pause", "remove", "subscribe", "unsubscribe", "events", "close"},
   pc : {"none", "begun", "read", "stopped", "waits", "returns"},
   running : BOOLEAN, sub : S!Id \cup {0}]

SessionsType ==
  /\ sessions_next \in 1 .. MaxId
  /\ sessions_registry \in SUBSET S!Id
  /\ sessions_phase \in [S!Id -> Phase]
  /\ sessions_context \in [S!Id -> {"none", "live", "released"}]
  /\ sessions_subs \in [S!Id -> SUBSET S!Id]
  /\ sessions_caller \in [Caller -> CallState]

\* A call under way keeps the session it found; a number that was not given out
\* yet is the number of nothing.
Kept(i) == i \in sessions_registry \/ \E c \in Caller : sessions_caller[c].id = i
KeptFits ==
  /\ \A c \in Caller : sessions_caller[c] = S!NoCall \/ sessions_caller[c].id \in S!Id
  /\ \A i \in S!Id : Kept(i) => sessions_context[i] = "live"
  /\ \A i \in S!Id : sessions_phase[i] # "none" => Kept(i)

SessionsInv == SessionsType /\ S!NumbersUnique /\ KeptFits

\* The constants of the two interfaces (their modules say what they are).
LEMMA HostConstants == S!FfiSessionsAssumption /\ F!FfiAssumption
BY MCHostsConstants

LEMMA SessionsInit == S!Init => SessionsInv
<1> SUFFICES ASSUME S!Init PROVE SessionsInv
  OBVIOUS
<1>1. MaxId \in Nat \ {0}
  BY HostConstants DEF S!FfiSessionsAssumption
<1>2. SessionsType
  <2>1. S!NoCall \in CallState
    BY DEF S!NoCall, CallState
  <2> QED  BY <1>1, <2>1 DEF S!Init, S!Id, SessionsType, Phase
<1>3. S!NumbersUnique
  BY <1>1 DEF S!Init, S!Id, S!NumbersUnique
<1>4. KeptFits
  BY <1>1 DEF S!Init, S!Id, S!NoCall, KeptFits, Kept
<1> QED  BY <1>2, <1>3, <1>4 DEF SessionsInv

\* A call under way changes what its session does.
LEMMA CallFits ==
  ASSUME SessionsInv, NEW c \in Caller, NEW r, r.id = sessions_caller[c].id,
         sessions_caller[c].id \in S!Id,
         sessions_caller' = [sessions_caller EXCEPT ![c] = r],
         UNCHANGED <<sessions_registry, sessions_context>>,
         \A i \in S!Id : sessions_phase'[i] = sessions_phase[i] \/ i = sessions_caller[c].id
  PROVE  KeptFits'
<1>1. \A d \in Caller : sessions_caller'[d].id = sessions_caller[d].id
  BY DEF SessionsInv, SessionsType
<1>2. \A d \in Caller : d = c \/ sessions_caller'[d] = sessions_caller[d]
  BY DEF SessionsInv, SessionsType
<1>3. \A i \in S!Id : Kept(i)' <=> Kept(i)
  BY <1>1 DEF Kept
<1>4. Kept(sessions_caller[c].id)
  BY DEF Kept
<1> QED  BY <1>1, <1>2, <1>3, <1>4 DEF KeptFits, SessionsInv

LEMMA SessionsOpen ==
  ASSUME SessionsInv, NEW c \in Caller, S!Open(c)
  PROVE  SessionsInv'
<1>1. PICK i \in S!NextIds, ok \in BOOLEAN :
        /\ sessions_next' = i + 1
        /\ sessions_registry' = IF ok THEN sessions_registry \cup {i} ELSE sessions_registry
        /\ sessions_phase' = IF ok THEN [sessions_phase EXCEPT ![i] = "stopped"]
                             ELSE sessions_phase
        /\ sessions_context' = [sessions_context EXCEPT ![i] = IF ok THEN "live"
                                                               ELSE "released"]
        /\ UNCHANGED <<sessions_subs, sessions_caller>>
  BY DEF S!Open
<1>2. i = sessions_next /\ i < MaxId /\ i \in S!Id
  BY DEF S!NextIds, S!Id, SessionsInv, SessionsType
<1>3. MaxId \in Nat /\ S!Id = 1 .. MaxId
  BY HostConstants DEF S!FfiSessionsAssumption, S!Id
<1>4. sessions_context[i] = "none" /\ ~Kept(i) /\ sessions_phase[i] = "none"
  BY <1>2, <1>3 DEF SessionsInv, SessionsType, S!NumbersUnique, KeptFits
<1>5. SessionsType'
  <2>1. sessions_next' \in 1 .. MaxId /\ sessions_registry' \in SUBSET S!Id
    BY <1>1, <1>2, <1>3 DEF SessionsInv, SessionsType
  <2>2. /\ sessions_phase' \in [S!Id -> Phase]
        /\ sessions_context' \in [S!Id -> {"none", "live", "released"}]
    BY <1>1, <1>2 DEF SessionsInv, SessionsType, Phase
  <2> QED  BY <1>1, <2>1, <2>2 DEF SessionsInv, SessionsType
<1>6. S!NumbersUnique'
  BY <1>1, <1>2, <1>3 DEF SessionsInv, SessionsType, S!NumbersUnique
<1>7. \A j \in S!Id : j # i => /\ Kept(j)' <=> Kept(j)
                              /\ sessions_context'[j] = sessions_context[j]
                              /\ sessions_phase'[j] = sessions_phase[j]
  BY <1>1 DEF Kept, SessionsInv, SessionsType
<1>8. /\ Kept(i)' => ok /\ sessions_context'[i] = "live"
      /\ sessions_phase'[i] # "none" => Kept(i)'
  BY <1>1, <1>2, <1>4 DEF Kept, SessionsInv, SessionsType
<1>9. KeptFits'
  BY <1>1, <1>7, <1>8 DEF SessionsInv, KeptFits
<1> QED  BY <1>5, <1>6, <1>9 DEF SessionsInv

\* The calls that neither begin nor end.
LEMMA SessionsCalls ==
  ASSUME SessionsInv, NEW c \in Caller,
         \/ S!Starts(c) \/ S!Pauses(c) \/ S!Removes(c) \/ S!Subscribes(c)
         \/ S!Unsubscribes(c) \/ S!Polls(c)
  PROVE  SessionsInv'
<1> DEFINE k == sessions_caller[c]
<1>1. k \in CallState /\ k.id \in S!Id
  BY DEF SessionsInv, SessionsType, KeptFits, S!Starts, S!Pauses, S!Removes, S!Subscribes,
         S!Unsubscribes, S!Polls, S!At, S!NoCall
<1>2. PICK r \in CallState :
        sessions_caller' = [sessions_caller EXCEPT ![c] = r] /\ r.id = k.id
  <2> DEFINE returns == [k EXCEPT !.pc = "returns"]
             read == [k EXCEPT !.pc = "read", !.running = sessions_phase[k.id] = "running"]
             stopped == [k EXCEPT !.pc = "stopped"]
             waits(s) == [k EXCEPT !.pc = "waits", !.sub = s]
  <2>1. /\ returns \in CallState /\ returns.id = k.id
        /\ read \in CallState /\ read.id = k.id
        /\ stopped \in CallState /\ stopped.id = k.id
        /\ \A s \in S!Id \cup {0} : waits(s) \in CallState /\ waits(s).id = k.id
    BY <1>1 DEF CallState
  <2>2. \/ sessions_caller' = [sessions_caller EXCEPT ![c] = returns]
        \/ sessions_caller' = [sessions_caller EXCEPT ![c] = read]
        \/ sessions_caller' = [sessions_caller EXCEPT ![c] = stopped]
        \/ \E s \in sessions_subs[k.id] \cup {0} :
             sessions_caller' = [sessions_caller EXCEPT ![c] = waits(s)]
    BY DEF S!Starts, S!Pauses, S!Removes, S!Subscribes, S!Unsubscribes, S!Polls, S!Goes
  <2>3. sessions_subs[k.id] \subseteq S!Id
    BY <1>1 DEF SessionsInv, SessionsType
  <2> HIDE DEF returns, read, stopped, waits
  <2> QED  BY <2>1, <2>2, <2>3
<1>3. /\ UNCHANGED <<sessions_registry, sessions_context>>
      /\ \E x \in Phase : \/ sessions_phase' = [sessions_phase EXCEPT ![k.id] = x]
                          \/ sessions_phase' = sessions_phase
  BY DEF S!Starts, S!Pauses, S!Removes, S!Subscribes, S!Unsubscribes, S!Polls, Phase
<1>4. KeptFits'
  BY <1>1, <1>2, <1>3, CallFits DEF SessionsInv, SessionsType
<1>5. MaxId \in Nat /\ S!Id = 1 .. MaxId
  BY HostConstants DEF S!FfiSessionsAssumption, S!Id
<1>6. \/ UNCHANGED <<sessions_next, sessions_subs>>
      \/ /\ sessions_next < MaxId /\ sessions_next' = sessions_next + 1
         /\ sessions_subs' = [sessions_subs EXCEPT ![k.id] = @ \cup {sessions_next}]
      \/ /\ sessions_next' = sessions_next
         /\ \E s : sessions_subs' = [sessions_subs EXCEPT ![k.id] = @ \ {s}]
  BY DEF S!Starts, S!Pauses, S!Removes, S!Subscribes, S!Unsubscribes, S!Polls, S!NextIds
<1>7. SessionsType'
  <2>1. sessions_next' \in 1 .. MaxId /\ sessions_subs' \in [S!Id -> SUBSET S!Id]
    BY <1>1, <1>5, <1>6 DEF SessionsInv, SessionsType
  <2>2. /\ sessions_phase' \in [S!Id -> Phase]
        /\ sessions_caller' \in [Caller -> CallState]
    BY <1>1, <1>2, <1>3 DEF SessionsInv, SessionsType
  <2> QED  BY <1>3, <2>1, <2>2 DEF SessionsInv, SessionsType
<1>8. S!NumbersUnique'
  BY <1>1, <1>3, <1>5, <1>6 DEF SessionsInv, SessionsType, S!NumbersUnique
<1> QED  BY <1>4, <1>7, <1>8 DEF SessionsInv

\* A call begins with a session of the registry, which it may close.
LEMMA SessionsBegin ==
  ASSUME SessionsInv, NEW c \in Caller, NEW i \in S!Id,
         \/ S!Close(c, i)
         \/ \E op \in {"start", "pause", "remove", "subscribe", "unsubscribe", "events"} :
              S!Call(c, i, op)
  PROVE  SessionsInv'
<1> DEFINE call(op) == [S!NoCall EXCEPT !.id = i, !.op = op, !.pc = "begun"]
<1>1. PICK op \in {"start", "pause", "remove", "subscribe", "unsubscribe", "events", "close"} :
        sessions_caller' = [sessions_caller EXCEPT ![c] = call(op)]
  BY DEF S!Close, S!Call
<1>2. call(op) \in CallState /\ call(op).id = i
  BY <1>1 DEF S!NoCall, CallState
<1>3. /\ i \in sessions_registry /\ sessions_caller[c] = S!NoCall
      /\ sessions_registry' \in {sessions_registry, sessions_registry \ {i}}
      /\ UNCHANGED <<sessions_next, sessions_phase, sessions_context, sessions_subs>>
  BY DEF S!Close, S!Call, S!Idle
<1> HIDE DEF call
<1>4. SessionsType' /\ S!NumbersUnique'
  BY <1>1, <1>2, <1>3 DEF SessionsInv, SessionsType, S!NumbersUnique
<1>5. \A d \in Caller : sessions_caller'[d] = IF d = c THEN call(op) ELSE sessions_caller[d]
  BY <1>1 DEF SessionsInv, SessionsType
<1>6. S!NoCall.id = 0 /\ 0 \notin S!Id
  BY HostConstants DEF S!NoCall, S!Id, S!FfiSessionsAssumption
<1>7. \A j \in S!Id : Kept(j)' <=> Kept(j)
  BY <1>2, <1>3, <1>5, <1>6 DEF Kept
<1>8. KeptFits'
  BY <1>2, <1>3, <1>5, <1>7 DEF SessionsInv, KeptFits
<1> QED  BY <1>4, <1>8 DEF SessionsInv

LEMMA SessionsReturn ==
  ASSUME SessionsInv, NEW c \in Caller, S!Return(c), NEW i, i = sessions_caller[c].id
  PROVE  SessionsInv'
<1>1. /\ sessions_caller[c].pc = "returns"
      /\ sessions_caller' = [sessions_caller EXCEPT ![c] = S!NoCall]
      /\ UNCHANGED <<sessions_next, sessions_registry, sessions_subs>>
      /\ \/ /\ i \notin sessions_registry
            /\ ~S!Held(i, c)
            /\ sessions_context' = [sessions_context EXCEPT ![i] = "released"]
            /\ sessions_phase' = [sessions_phase EXCEPT ![i] = "none"]
         \/ /\ i \in sessions_registry \/ S!Held(i, c)
            /\ UNCHANGED <<sessions_context, sessions_phase>>
  BY DEF S!Return, S!Leaves
<1>2. i \in S!Id /\ S!NoCall \in CallState /\ S!NoCall.id = 0 /\ 0 \notin S!Id
  BY <1>1, HostConstants
     DEF SessionsInv, KeptFits, S!NoCall, CallState, S!Id, S!FfiSessionsAssumption
<1>3. \A d \in Caller : sessions_caller'[d] = IF d = c THEN S!NoCall ELSE sessions_caller[d]
  BY <1>1 DEF SessionsInv, SessionsType
<1>4. sessions_context[i] = "live"
  BY <1>2 DEF SessionsInv, KeptFits, Kept
<1>5. SessionsType'
  <2>1. sessions_caller' \in [Caller -> CallState]
    BY <1>1, <1>2 DEF SessionsInv, SessionsType
  <2>2. /\ sessions_phase' \in [S!Id -> Phase]
        /\ sessions_context' \in [S!Id -> {"none", "live", "released"}]
    BY <1>1, <1>2 DEF SessionsInv, SessionsType, Phase
  <2> QED  BY <1>1, <2>1, <2>2 DEF SessionsInv, SessionsType
<1>6. \A j \in S!Id : sessions_context[j] = "none" => sessions_context'[j] = "none"
  BY <1>1, <1>2, <1>4 DEF SessionsInv, SessionsType
<1>7. S!NumbersUnique'
  BY <1>1, <1>6 DEF SessionsInv, SessionsType, S!NumbersUnique
<1>8. \A j \in S!Id : j # i => (Kept(j)' <=> Kept(j))
  BY <1>1, <1>2, <1>3 DEF Kept
<1>9. KeptFits'
  <2>1. CASE i \notin sessions_registry /\ ~S!Held(i, c)
    <3>1. /\ \A j \in S!Id : j # i => /\ sessions_context'[j] = sessions_context[j]
                                     /\ sessions_phase'[j] = sessions_phase[j]
          /\ sessions_phase'[i] = "none"
      BY <1>1, <1>2, <2>1 DEF SessionsInv, SessionsType
    <3>2. ~Kept(i)'
      BY <1>1, <1>2, <1>3, <2>1 DEF Kept, S!Held
    <3> QED  BY <1>3, <1>8, <3>1, <3>2 DEF SessionsInv, KeptFits
  <2>2. CASE i \in sessions_registry \/ S!Held(i, c)
    <3>1. Kept(i)'
      BY <1>1, <1>3, <2>2 DEF Kept, S!Held
    <3>2. UNCHANGED <<sessions_context, sessions_phase>>
      BY <1>1, <2>2
    <3> QED  BY <1>3, <1>4, <1>8, <3>1, <3>2 DEF SessionsInv, KeptFits
  <2> QED  BY <2>1, <2>2
<1> QED  BY <1>5, <1>7, <1>9 DEF SessionsInv

LEMMA SessionsStep ==
  ASSUME SessionsInv, [HostsNext]_all
  PROVE  SessionsInv'
<1>1. CASE S!Next
  BY <1>1, SessionsOpen, SessionsCalls, SessionsBegin, SessionsReturn DEF S!Next, S!Proceeds
<1>2. CASE UNCHANGED sessions_vars
  BY <1>2 DEF sessions_vars, SessionsInv, SessionsType, S!NumbersUnique, KeptFits, Kept
<1> QED  BY <1>1, <1>2 DEF HostsNext, all

\* The host's context is released after everything that may call it: no
\* call in flight, no registered and no running session is without it
\* (managed.rs, dispatch, libresync_session_close and the drop of the last Arc).
THEOREM ContextLast == HostsSpec => []ContextReleasedLast
<1>1. HostsInit => SessionsInv
  BY SessionsInit DEF HostsInit
<1>2. SessionsInv /\ [HostsNext]_all => SessionsInv'
  BY SessionsStep
<1>3. SessionsInv => ContextReleasedLast
  BY DEF SessionsInv, KeptFits, Kept, ContextReleasedLast, S!ContextReleasedLast
<1> QED  BY <1>1, <1>2, <1>3, PTL DEF HostsSpec

-----------------------------------------------------------------------------
(* Background syncs                                                        *)

TicketState == [h : F!Handle, pc : {"none", "waits", "syncs", "saves", "ends",
                                    "announces", "over"},
                peer : Device \cup {0}, ok : BOOLEAN]
FfiType ==
  /\ ffi_handle \in F!Handle
  /\ ffi_ticket \in [F!Ticket -> TicketState]
  /\ ffi_drawn \in 0 .. MaxTicket
  /\ ffi_refused \in SUBSET F!Ticket

\* A sync that is under way with its handle is one the handle knows; no other
\* was refused.
Underway == {"waits", "syncs", "saves", "ends"}
KnownFits ==
  /\ \A t \in F!Ticket : ffi_ticket[t].pc = "none" <=> t > ffi_drawn
  /\ \A t \in F!Ticket :
       ffi_alive /\ ffi_ticket[t].h = ffi_handle /\ ffi_ticket[t].pc \in Underway
         => t \in ffi_tasks
  /\ \A t \in ffi_refused : ffi_ticket[t].pc \in {"announces", "over"}

FfiInv == FfiType /\ KnownFits

LEMMA FfiInitial == F!Init => FfiInv
<1> SUFFICES ASSUME F!Init PROVE FfiInv
  OBVIOUS
<1>1. MaxTicket \in Nat /\ F!Ticket = 1 .. MaxTicket
  BY HostConstants DEF F!FfiAssumption, F!Ticket
<1>2. F!NoTask \in TicketState /\ F!NoTask.pc = "none"
  BY DEF F!NoTask, TicketState, F!Handle
<1>3. /\ ffi_handle = 1 /\ ffi_drawn = 0 /\ ffi_refused = {}
      /\ ffi_ticket = [t \in F!Ticket |-> F!NoTask]
  BY DEF F!Init
<1>4. FfiType
  BY <1>1, <1>2, <1>3 DEF FfiType, F!Handle
<1> QED  BY <1>1, <1>2, <1>3, <1>4 DEF FfiInv, KnownFits, Underway

\* Steps of the host that leave the syncs alone.
LEMMA FfiHost ==
  ASSUME FfiInv,
         \/ F!FreeHandle \/ F!SaveState \/ F!SaveStateEnds \/ F!LinkAccepted
         \/ F!AllowlistClear \/ \E d \in Device : F!Link(d)
  PROVE  FfiInv'
<1>1. /\ ffi_alive' => ffi_alive
      /\ UNCHANGED <<ffi_handle, ffi_ticket, ffi_tasks, ffi_drawn, ffi_refused>>
  BY DEF F!FreeHandle, F!SaveState, F!SaveStateEnds, F!LinkAccepted, F!AllowlistClear,
         F!Link, F!host, F!history
<1> QED  BY <1>1 DEF FfiInv, FfiType, KnownFits

LEMMA FfiCreate ==
  ASSUME FfiInv, F!Create
  PROVE  FfiInv'
<1>1. PICK h \in F!Handle :
        /\ \A t \in F!Ticket : ffi_ticket[t].h = h => ffi_ticket[t].pc \in {"none", "over"}
        /\ ffi_handle' = h
  BY DEF F!Create
<1>2. UNCHANGED <<ffi_ticket, ffi_drawn, ffi_refused>>
  BY DEF F!Create, F!history
<1> QED  BY <1>1, <1>2 DEF FfiInv, FfiType, KnownFits, Underway

LEMMA FfiSync ==
  ASSUME FfiInv, NEW d \in Device, F!SyncAsync(d)
  PROVE  FfiInv'
<1> DEFINE started == [h |-> ffi_handle, pc |-> "waits", peer |-> d, ok |-> FALSE]
<1>1. /\ ffi_drawn < MaxTicket /\ ffi_drawn' = ffi_drawn + 1
      /\ ffi_ticket' = [ffi_ticket EXCEPT ![ffi_drawn'] = started]
      /\ ffi_tasks' = ffi_tasks \cup {ffi_drawn'}
      /\ UNCHANGED <<ffi_handle, ffi_alive, ffi_refused>>
  BY DEF F!SyncAsync, F!host, F!history
<1>2. MaxTicket \in Nat /\ F!Ticket = 1 .. MaxTicket
  BY HostConstants DEF F!FfiAssumption, F!Ticket
<1>3. started \in TicketState /\ started.pc = "waits"
  BY DEF FfiInv, FfiType, TicketState
<1> HIDE DEF started
<1>4. /\ ffi_drawn' \in F!Ticket /\ ffi_drawn' \in 0 .. MaxTicket
      /\ \A t \in F!Ticket : t > ffi_drawn' <=> t > ffi_drawn /\ t # ffi_drawn'
      /\ ffi_drawn' > ffi_drawn
  BY <1>1, <1>2 DEF FfiInv, FfiType
<1>5. \A t \in F!Ticket : ffi_ticket'[t] = IF t = ffi_drawn' THEN started ELSE ffi_ticket[t]
  BY <1>1, <1>4 DEF FfiInv, FfiType
<1>6. FfiType'
  BY <1>1, <1>3, <1>4 DEF FfiInv, FfiType
<1>7. ffi_drawn' \notin ffi_refused
  BY <1>4 DEF FfiInv, KnownFits
<1> QED  BY <1>1, <1>3, <1>4, <1>5, <1>6, <1>7 DEF FfiInv, FfiType, KnownFits

\* A sync goes on; it is forgotten when it is about to be announced.
LEMMA FfiProceeds ==
  ASSUME FfiInv, NEW t \in F!Ticket, F!TakesEngine(t) \/ F!Proceeds(t)
  PROVE  FfiInv'
<1>1. PICK e \in TicketState :
        /\ ffi_ticket' = [ffi_ticket EXCEPT ![t] = e]
        /\ e.h = ffi_ticket[t].h
        /\ \/ /\ ffi_ticket[t].pc \in Underway /\ e.pc \in Underway
              /\ ffi_tasks' = ffi_tasks
           \/ /\ ffi_ticket[t].pc \in Underway \cup {"announces"}
              /\ e.pc \in {"announces", "over"}
              /\ ffi_tasks' \in {ffi_tasks, ffi_tasks \ {t}}
  <2> DEFINE on(pc) == [ffi_ticket[t] EXCEPT !.pc = pc]
             done(pc, ok) == [ffi_ticket[t] EXCEPT !.pc = pc, !.ok = ok]
  <2>1. /\ \A pc \in Underway \cup {"announces", "over"} :
             on(pc) \in TicketState /\ on(pc).h = ffi_ticket[t].h /\ on(pc).pc = pc
        /\ \A pc \in Underway, ok \in BOOLEAN :
             /\ done(pc, ok) \in TicketState /\ done(pc, ok).h = ffi_ticket[t].h
             /\ done(pc, ok).pc = pc
    BY DEF FfiInv, FfiType, TicketState, Underway
  <2> HIDE DEF on, done
  <2>2. CASE F!TakesEngine(t)
    <3>1. /\ ffi_ticket[t].pc = "waits" /\ ffi_tasks' = ffi_tasks
          /\ ffi_ticket' = [ffi_ticket EXCEPT ![t] = on("syncs")]
      BY <2>2 DEF F!TakesEngine, on
    <3>2. /\ "waits" \in Underway /\ "syncs" \in Underway
          /\ "syncs" \in Underway \cup {"announces", "over"}
      BY DEF Underway
    <3>3. /\ on("syncs") \in TicketState /\ on("syncs").h = ffi_ticket[t].h
          /\ on("syncs").pc = "syncs"
      BY <2>1, <3>2
    <3> QED  BY <3>1, <3>2, <3>3
  <2>3. CASE F!Exchange(t)
    <3>1. PICK ok \in BOOLEAN :
            ffi_ticket' = [ffi_ticket EXCEPT ![t] = done(IF ok THEN "saves" ELSE "ends", ok)]
      BY <2>3, ZenonT(30) DEF F!Exchange, done
    <3>2. ffi_ticket[t].pc = "syncs" /\ ffi_tasks' = ffi_tasks
      BY <2>3 DEF F!Exchange
    <3> QED  BY <2>1, <3>1, <3>2 DEF Underway
  <2>4. CASE F!Saves(t)
    <3>1. /\ ffi_ticket[t].pc = "saves" /\ ffi_tasks' = ffi_tasks
          /\ ffi_ticket' = [ffi_ticket EXCEPT ![t] = on("ends")]
      BY <2>4 DEF F!Saves, on
    <3>2. /\ "saves" \in Underway /\ "ends" \in Underway
          /\ "ends" \in Underway \cup {"announces", "over"}
      BY DEF Underway
    <3>3. /\ on("ends") \in TicketState /\ on("ends").h = ffi_ticket[t].h
          /\ on("ends").pc = "ends"
      BY <2>1, <3>2
    <3> QED  BY <3>1, <3>2, <3>3
  <2>5. CASE F!Forgets(t)
    <3>1. /\ ffi_ticket[t].pc = "ends" /\ ffi_tasks' = ffi_tasks \ {t}
          /\ ffi_ticket' = [ffi_ticket EXCEPT ![t] = on("announces")]
      BY <2>5 DEF F!Forgets, on
    <3> QED  BY <2>1, <3>1 DEF Underway
  <2>6. CASE F!Announces(t)
    <3>1. /\ ffi_ticket[t].pc = "announces" /\ ffi_tasks' = ffi_tasks
          /\ ffi_ticket' = [ffi_ticket EXCEPT ![t] = on("over")]
      BY <2>6 DEF F!Announces, on
    <3> QED  BY <2>1, <3>1 DEF Underway
  <2> QED  BY <2>2, <2>3, <2>4, <2>5, <2>6 DEF F!Proceeds
<1>2. UNCHANGED <<ffi_handle, ffi_alive, ffi_drawn, ffi_refused>>
  BY DEF F!TakesEngine, F!Proceeds, F!Exchange, F!Saves, F!Forgets, F!Announces, F!host,
         F!history
<1>3. \A u \in F!Ticket : ffi_ticket'[u] = IF u = t THEN e ELSE ffi_ticket[u]
  BY <1>1 DEF FfiInv, FfiType
<1>4. FfiType'
  BY <1>1, <1>2 DEF FfiInv, FfiType
<1>5. e.pc # "none" /\ ffi_ticket[t].pc # "none"
  BY <1>1 DEF Underway
<1>6. \A u \in F!Ticket : u # t => (u \in ffi_tasks' <=> u \in ffi_tasks)
  BY <1>1
<1>7. /\ e.pc \in Underway => ffi_ticket[t].pc \in Underway /\ ffi_tasks' = ffi_tasks
      /\ ffi_ticket[t].pc \in {"announces", "over"} => e.pc \in {"announces", "over"}
  BY <1>1 DEF Underway
<1> QED  BY <1>1, <1>2, <1>3, <1>4, <1>5, <1>6, <1>7 DEF FfiInv, FfiType, KnownFits

LEMMA FfiCancel ==
  ASSUME FfiInv, NEW t \in F!Ticket, F!Cancel(t)
  PROVE  FfiInv'
<1>1. /\ ffi_alive /\ t <= ffi_drawn /\ ffi_ticket[t].h = ffi_handle
      /\ ffi_refused' = ffi_refused \/ (t \notin ffi_tasks /\ ffi_refused' = ffi_refused \cup {t})
      /\ UNCHANGED <<ffi_handle, ffi_alive, ffi_ticket, ffi_tasks, ffi_drawn>>
  BY DEF F!Cancel, F!host
<1>2. ffi_ticket[t].pc # "none" /\ ffi_ticket[t] \in TicketState
  BY <1>1, HostConstants
     DEF FfiInv, FfiType, KnownFits, F!Ticket, F!FfiAssumption
<1>3. t \notin ffi_tasks => ffi_ticket[t].pc \in {"announces", "over"}
  BY <1>1, <1>2 DEF FfiInv, KnownFits, Underway, TicketState
<1> QED  BY <1>1, <1>3 DEF FfiInv, FfiType, KnownFits

LEMMA FfiStep ==
  ASSUME FfiInv, [HostsNext]_all
  PROVE  FfiInv'
<1>1. CASE F!Next
  BY <1>1, FfiHost, FfiCreate, FfiSync, FfiProceeds, FfiCancel DEF F!Next
<1>2. CASE UNCHANGED ffi_vars
  BY <1>2 DEF ffi_vars, FfiInv, FfiType, KnownFits
<1> QED  BY <1>1, <1>2 DEF HostsNext, all

\* Cancel finds every sync that still runs, and a ticket it does not know is past
\* every point where it could be stopped (lib.rs, libresync_engine_sync_async and
\* libresync_engine_cancel), however many handles share the engine's threads.
THEOREM CancelFinds == HostsSpec => []CancelTruthful
<1>1. HostsInit => FfiInv
  BY FfiInitial DEF HostsInit
<1>2. FfiInv /\ [HostsNext]_all => FfiInv'
  BY FfiStep
<1>3. FfiInv => CancelTruthful
  BY DEF FfiInv, KnownFits, Underway, CancelTruthful, F!CancelTruthful
<1> QED  BY <1>1, <1>2, <1>3, PTL DEF HostsSpec
=============================================================================
