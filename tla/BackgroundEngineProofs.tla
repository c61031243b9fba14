------------------------ MODULE BackgroundEngineProofs ------------------------
(***************************************************************************)
(* What tickets, cancels and shutdown of the background engine promise, for *)
(* any number of application threads and of commands.                      *)
(***************************************************************************)
EXTENDS BackgroundEngine, TLAPS

-----------------------------------------------------------------------------
(* The inductive invariant *)

\* A drawn ticket is in one place: with the thread that submits it, at one
\* place of the channel, with the engine thread or finished.
EachOnce ==
  /\ \A c \in App : app[c].pc = "submit" =>
       /\ app[c].ticket \in 1 .. next - 1
       /\ ~Returned(app[c].ticket)
       /\ \A d \in App : app[d].pc = "submit" /\ app[d].ticket = app[c].ticket
                           => d = c
  /\ \A t \in Ticket : Returned(t) => t < next
  /\ \A i, j \in 1 .. Len(chan) : chan[i] = chan[j] => i = j
  /\ \A t \in Ticket : loop.ticket = t => ~InChannel(t) /\ finished[t] = <<>>
  /\ \A t \in Ticket : finished[t] # <<>> => ~InChannel(t)

\* `current` is the ticket of the engine thread while the command runs.
LoopFits ==
  /\ loop.ticket = None <=> loop.pc \in {"recv", "stop", "done"}
  /\ current = IF loop.pc \in {"run", "clear"} THEN loop.ticket ELSE None
  /\ loop.pc \in {"clear", "report"} => loop.result \in Result

\* Wherever a cancel has got to, a caller asked for it, and it asked for a
\* ticket that submit had returned.
AskedFirst ==
  /\ \A t \in asked : Returned(t)
  /\ \A t \in Ticket : token[t] => t \in asked
  /\ cancelled \subseteq asked
  /\ \A c \in App : app[c].pc \in {"cancel", "insert"} => app[c].ticket \in asked
  /\ loop.pc = "skip" => loop.ticket \in asked
  /\ loop.pc \in {"clear", "report"} /\ loop.result = "cancelled" =>
       loop.ticket \in asked
  /\ \A t \in Ticket : finished[t] = <<"cancelled">> => t \in asked

\* Nothing follows Shutdown in the channel, and the thread stops for nothing
\* else.
ShutdownLast ==
  /\ \A i \in 1 .. Len(chan) : chan[i] = Shutdown => i = Len(chan) /\ ~sender
  /\ loop.pc \in {"stop", "done"} => chan = <<>> /\ ~sender
  /\ loop.pc = "done" => ~listener
  /\ \A c \in App : app[c].pc = "joined" => loop.pc = "done"

IInv ==
  /\ TypeOK
  /\ EachOnce
  /\ LoopFits
  /\ AskedFirst
  /\ ShutdownLast
  /\ QueuedCancelKept

-----------------------------------------------------------------------------
(* The channel *)

\* A command that is sent is in the channel behind what was there.
LEMMA SentBehind ==
  ASSUME NEW x \in Ticket \cup {Shutdown}, chan \in Seq(Ticket \cup {Shutdown}),
         chan' = Append(chan, x)
  PROVE  /\ chan' \in Seq(Ticket \cup {Shutdown})
         /\ Len(chan') = Len(chan) + 1
         /\ chan'[Len(chan) + 1] = x
         /\ \A i \in 1 .. Len(chan) : chan'[i] = chan[i]
         /\ \A t : InChannel(t)' <=> InChannel(t) \/ t = x
<1>1. /\ chan' \in Seq(Ticket \cup {Shutdown})
      /\ Len(chan') = Len(chan) + 1
      /\ chan'[Len(chan) + 1] = x
      /\ \A i \in 1 .. Len(chan) : chan'[i] = chan[i]
  OBVIOUS
<1>2. Len(chan) \in Nat
  OBVIOUS
<1>3. ASSUME NEW t PROVE InChannel(t)' <=> InChannel(t) \/ t = x
  <2>1. ASSUME InChannel(t)' PROVE InChannel(t) \/ t = x
    <3>1. PICK i \in 1 .. Len(chan') : chan'[i] = t
      BY <2>1 DEF InChannel
    <3>2. i \in 1 .. Len(chan) \/ i = Len(chan) + 1
      BY <1>1, <1>2
    <3> QED
      BY <1>1, <3>1, <3>2 DEF InChannel
  <2>2. ASSUME InChannel(t) PROVE InChannel(t)'
    BY <1>1, <1>2, <2>2 DEF InChannel
  <2>3. InChannel(x)'
    BY <1>1, <1>2 DEF InChannel
  <2> QED
    BY <2>1, <2>2, <2>3
<1> QED
  BY <1>1, <1>3

\* What is received leaves the front of the channel.
LEMMA ReceivedFirst ==
  ASSUME chan \in Seq(Ticket \cup {Shutdown}), chan # <<>>, chan' = Tail(chan)
  PROVE  /\ chan' \in Seq(Ticket \cup {Shutdown})
         /\ Head(chan) \in Ticket \cup {Shutdown}
         /\ Head(chan) = chan[1]
         /\ Len(chan) \in Nat /\ Len(chan) >= 1
         /\ Len(chan') = Len(chan) - 1
         /\ \A i \in 1 .. Len(chan') : i + 1 \in 1 .. Len(chan) /\ chan'[i] = chan[i + 1]
         /\ \A t : InChannel(t) <=> InChannel(t)' \/ t = Head(chan)
<1>1. /\ chan' \in Seq(Ticket \cup {Shutdown})
      /\ Head(chan) \in Ticket \cup {Shutdown}
      /\ Head(chan) = chan[1]
      /\ Len(chan) \in Nat /\ Len(chan) >= 1
      /\ Len(chan') = Len(chan) - 1
  OBVIOUS
<1>2. \A i \in 1 .. Len(chan') : i + 1 \in 1 .. Len(chan) /\ chan'[i] = chan[i + 1]
  BY <1>1
<1>3. ASSUME NEW t PROVE InChannel(t) <=> InChannel(t)' \/ t = Head(chan)
  <2>1. ASSUME InChannel(t), t # Head(chan) PROVE InChannel(t)'
    <3>1. PICK i \in 1 .. Len(chan) : chan[i] = t
      BY <2>1 DEF InChannel
    <3>2. i - 1 \in 1 .. Len(chan') /\ i = (i - 1) + 1
      BY <1>1, <2>1, <3>1
    <3>3. chan'[i - 1] = t
      BY <1>2, <3>1, <3>2
    <3> QED
      BY <3>2, <3>3 DEF InChannel
  <2>2. ASSUME InChannel(t)' PROVE InChannel(t)
    BY <1>2, <2>2 DEF InChannel
  <2>3. InChannel(Head(chan))
    BY <1>1 DEF InChannel
  <2> QED
    BY <2>1, <2>2, <2>3
<1> QED
  BY <1>1, <1>2, <1>3

-----------------------------------------------------------------------------
(* The application threads *)

\* A step moves the thread that takes it and no other.
LEMMA Moves ==
  ASSUME TypeOK, NEW c \in App, NEW step \in AppPC, NEW t \in Ticket \cup {None},
         Do(c, step, t)
  PROVE  /\ app' \in [App -> [pc : AppPC, ticket : Ticket \cup {None}]]
         /\ app'[c] = [pc |-> step, ticket |-> t]
         /\ \A d \in App : d # c => app'[d] = app[d]
BY DEF TypeOK, Do

\* A thread draws a ticket that no place knows.
LEMMA DrawTicketKeeps ==
  ASSUME IInv, NEW c \in App, DrawTicket(c)
  PROVE  IInv'
<1>1. next \in Ticket /\ next \in 1 .. next' - 1 /\ next' = next + 1
  BY BackgroundConstants DEF IInv, TypeOK, DrawTicket, Ticket
<1>2. /\ app' \in [App -> [pc : AppPC, ticket : Ticket \cup {None}]]
      /\ app'[c] = [pc |-> "submit", ticket |-> next]
      /\ \A d \in App : d # c => app'[d] = app[d]
  BY <1>1 DEF IInv, TypeOK, DrawTicket, Do, AppPC
<1>3. \A t : /\ InChannel(t)' <=> InChannel(t)
             /\ Returned(t)' <=> Returned(t)
  BY DEF DrawTicket, InChannel, Returned
<1>4. TypeOK'
  BY <1>1, <1>2, BackgroundConstants DEF IInv, TypeOK, DrawTicket, Ticket
<1>5. EachOnce'
  <2>1. ~Returned(next)
    BY <1>1 DEF IInv, EachOnce
  <2>2. \A d \in App : app[d].pc = "submit" => app[d].ticket < next
    BY DEF IInv, EachOnce, TypeOK
  <2>3. \A d \in App : app'[d].pc = "submit" => app'[d].ticket \in 1 .. next' - 1
    <3>1. next \in Nat
      BY <1>1
    <3>2. \A d \in App : app[d].pc = "submit" => app[d].ticket \in 1 .. next' - 1
      BY <1>1, <3>1 DEF IInv, EachOnce
    <3> QED
      BY <1>1, <1>2, <3>2
  <2>4. \A d, e \in App :
          app'[d].pc = "submit" /\ app'[e].pc = "submit"
          /\ app'[e].ticket = app'[d].ticket => e = d
    BY <1>1, <1>2, <2>2 DEF IInv, EachOnce
  <2>5. \A d \in App : app'[d].pc = "submit" => ~Returned(app'[d].ticket)
    BY <1>2, <2>1 DEF IInv, EachOnce
  <2>6. \A t \in Ticket : Returned(t) => t < next'
    BY <1>1 DEF IInv, EachOnce, TypeOK, Ticket
  <2> QED
    BY <1>3, <2>3, <2>4, <2>5, <2>6 DEF IInv, EachOnce, DrawTicket
<1>6. LoopFits' /\ ShutdownLast' /\ QueuedCancelKept'
  BY <1>2, <1>3 DEF IInv, LoopFits, ShutdownLast, QueuedCancelKept, DrawTicket
<1>7. AskedFirst'
  BY <1>2, <1>3 DEF IInv, AskedFirst, DrawTicket
<1> QED
  BY <1>4, <1>5, <1>6, <1>7 DEF IInv

\* A command that is sent is new to the channel, and nothing is sent behind
\* Shutdown.
LEMMA SendKeeps ==
  ASSUME IInv, NEW c \in App, Send(c)
  PROVE  IInv'
<1> DEFINE x == app[c].ticket
<1>1. /\ app' \in [App -> [pc : AppPC, ticket : Ticket \cup {None}]]
      /\ app'[c] = [pc |-> "idle", ticket |-> None]
      /\ \A d \in App : d # c => app'[d] = app[d]
  BY DEF IInv, TypeOK, Send, Do, AppPC
<1>2. x \in Ticket /\ ~Returned(x) /\ x < next
  BY BackgroundConstants DEF IInv, EachOnce, TypeOK, Send, Ticket
<1>3. CASE ~sender
  <2>1. \A t : /\ InChannel(t)' <=> InChannel(t)
               /\ Returned(t)' <=> Returned(t)
    BY <1>3 DEF Send, InChannel, Returned
  <2>2. TypeOK'
    BY <1>1, <1>3 DEF IInv, TypeOK, Send
  <2>3. EachOnce'
    BY <1>1, <1>3, <2>1 DEF IInv, EachOnce, Send
  <2>4. LoopFits' /\ ShutdownLast' /\ QueuedCancelKept'
    BY <1>1, <1>3, <2>1 DEF IInv, LoopFits, ShutdownLast, QueuedCancelKept, Send
  <2>5. AskedFirst'
    BY <1>1, <1>3, <2>1 DEF IInv, AskedFirst, Send
  <2> QED
    BY <2>2, <2>3, <2>4, <2>5 DEF IInv
<1>4. CASE sender
  <2>1. chan \in Seq(Ticket \cup {Shutdown}) /\ chan' = Append(chan, x)
    BY <1>4 DEF IInv, TypeOK, Send
  <2>2. /\ chan' \in Seq(Ticket \cup {Shutdown})
        /\ Len(chan') = Len(chan) + 1
        /\ chan'[Len(chan) + 1] = x
        /\ \A i \in 1 .. Len(chan) : chan'[i] = chan[i]
        /\ \A t : InChannel(t)' <=> InChannel(t) \/ t = x
    BY <1>2, <2>1, SentBehind
  <2>3. \A t : Returned(t)' <=> Returned(t) \/ t = x
    BY <2>2 DEF Send, Returned
  <2>4. Len(chan) \in Nat
    BY <2>1
  <2>5. TypeOK'
    BY <1>1, <2>2 DEF IInv, TypeOK, Send
  <2>6. ~InChannel(x) /\ loop.ticket # x /\ finished[x] = <<>> /\ x # Shutdown
    BY <1>2 DEF Returned, Ticket, Shutdown
  <2>7. EachOnce'
    <3>1. \A d \in App : app'[d].pc = "submit" =>
            app'[d].ticket # x /\ ~Returned(app'[d].ticket)
      BY <1>1 DEF IInv, EachOnce, Send
    <3>2. \A i, j \in 1 .. Len(chan') : chan'[i] = chan'[j] => i = j
      <4>1. \A i \in 1 .. Len(chan) : chan[i] # x
        BY <2>6 DEF InChannel
      <4>2. \A i \in 1 .. Len(chan') : i \in 1 .. Len(chan) \/ i = Len(chan) + 1
        BY <2>2, <2>4
      <4> QED
        BY <2>2, <4>1, <4>2 DEF IInv, EachOnce
    <3>3. \A t \in Ticket : Returned(t)' => t < next'
      BY <1>2, <2>3 DEF IInv, EachOnce, Send
    <3>4. \A t \in Ticket : loop'.ticket = t => ~InChannel(t)' /\ finished'[t] = <<>>
      BY <2>2, <2>6 DEF IInv, EachOnce, Send
    <3>5. \A t \in Ticket : finished'[t] # <<>> => ~InChannel(t)'
      BY <2>2, <2>6 DEF IInv, EachOnce, Send
    <3>6. (\A d \in App : app[d].pc = "submit" =>
             /\ app[d].ticket \in 1 .. next - 1
             /\ ~Returned(app[d].ticket)
             /\ \A e \in App : app[e].pc = "submit"
                               /\ app[e].ticket = app[d].ticket => e = d)'
      BY <1>1, <2>3, <3>1 DEF IInv, EachOnce, Send
    <3> QED
      BY <3>2, <3>3, <3>4, <3>5, <3>6 DEF EachOnce
  <2>8. x \notin asked
    BY <1>2 DEF IInv, AskedFirst
  <2>9. ShutdownLast'
    <3>1. \A i \in 1 .. Len(chan') : chan'[i] # Shutdown
      BY <1>4, <2>2, <2>4, <2>6 DEF IInv, ShutdownLast
    <3> QED
      BY <1>1, <1>4, <3>1 DEF IInv, ShutdownLast, Send
  <2>10. LoopFits' /\ QueuedCancelKept'
    BY <2>2, <2>8 DEF IInv, TypeOK, LoopFits, QueuedCancelKept, Send
  <2>11. AskedFirst'
    BY <1>1, <2>3 DEF IInv, AskedFirst, Send
  <2> QED
    BY <2>5, <2>7, <2>9, <2>10, <2>11 DEF IInv
<1> QED
  BY <1>3, <1>4

\* Where a ticket is changes only with the channel, the engine thread, the
\* reports and the threads that submit.
LEMMA PlacesKept ==
  ASSUME EachOnce, UNCHANGED <<next, chan, loop, finished>>,
         \A d \in App : app'[d].pc = "submit" => app'[d] = app[d]
  PROVE  /\ \A t : /\ InChannel(t)' <=> InChannel(t)
                   /\ Returned(t)' <=> Returned(t)
         /\ EachOnce'
<1>1. \A t : /\ InChannel(t)' <=> InChannel(t)
             /\ Returned(t)' <=> Returned(t)
  BY DEF InChannel, Returned
<1> QED
  BY <1>1 DEF EachOnce

\* A caller cancels a ticket that submit returned.
LEMMA CancelKeeps ==
  ASSUME IInv, NEW c \in App, NEW t \in Ticket, Cancel(c, t)
  PROVE  IInv'
<1>1. /\ app' \in [App -> [pc : AppPC, ticket : Ticket \cup {None}]]
      /\ app'[c] = [pc |-> "cancel", ticket |-> t]
      /\ \A d \in App : d # c => app'[d] = app[d]
  BY DEF IInv, TypeOK, Cancel, Do, AppPC
<1>2. /\ \A u : /\ InChannel(u)' <=> InChannel(u)
                /\ Returned(u)' <=> Returned(u)
      /\ EachOnce'
  BY <1>1, PlacesKept DEF IInv, Cancel
<1>3. TypeOK'
  BY <1>1 DEF IInv, TypeOK, Cancel
<1>4. LoopFits' /\ ShutdownLast' /\ QueuedCancelKept'
  BY <1>1, <1>2 DEF IInv, LoopFits, ShutdownLast, QueuedCancelKept, Cancel
<1>5. AskedFirst'
  BY <1>1, <1>2 DEF IInv, AskedFirst, Cancel
<1> QED
  BY <1>2, <1>3, <1>4, <1>5 DEF IInv

\* The first lock of cancel reaches the running command only when it is the
\* one asked for.
LEMMA LockCurrentKeeps ==
  ASSUME IInv, NEW c \in App, LockCurrent(c)
  PROVE  IInv'
<1> DEFINE t == app[c].ticket
<1>1. t \in asked /\ t \in Ticket
  BY DEF IInv, TypeOK, AskedFirst, LockCurrent
<1>2. /\ app' \in [App -> [pc : AppPC, ticket : Ticket \cup {None}]]
      /\ \/ current = t /\ app'[c] = [pc |-> "idle", ticket |-> None]
         \/ current # t /\ app'[c] = [pc |-> "insert", ticket |-> t]
      /\ \A d \in App : d # c => app'[d] = app[d]
  <2>1. {"idle", "insert"} \subseteq AppPC
    BY DEF AppPC
  <2>2. CASE current = t
    BY <1>1, <2>1, <2>2, Moves DEF IInv, LockCurrent
  <2>3. CASE current # t
    BY <1>1, <2>1, <2>3, Moves DEF IInv, LockCurrent
  <2> QED
    BY <2>2, <2>3
<1>3. /\ \A u : /\ InChannel(u)' <=> InChannel(u)
                /\ Returned(u)' <=> Returned(u)
      /\ EachOnce'
  BY <1>2, PlacesKept DEF IInv, LockCurrent
<1>4. TypeOK'
  BY <1>1, <1>2 DEF IInv, TypeOK, LockCurrent
<1>5. LoopFits' /\ ShutdownLast'
  BY <1>2, <1>3 DEF IInv, LoopFits, ShutdownLast, LockCurrent
<1>6. QueuedCancelKept'
  <2>1. current = t => loop.ticket = t /\ ~InChannel(t)
    BY <1>1 DEF IInv, LoopFits, EachOnce, Ticket, None
  <2> QED
    BY <1>3, <2>1 DEF IInv, QueuedCancelKept, LockCurrent
<1>7. AskedFirst'
  <2>1. \A u \in Ticket : token'[u] => u = t \/ token[u]
    BY <1>1 DEF IInv, TypeOK, LockCurrent
  <2> QED
    BY <1>1, <1>2, <1>3, <2>1 DEF IInv, AskedFirst, LockCurrent
<1> QED
  BY <1>3, <1>4, <1>5, <1>6, <1>7 DEF IInv

\* The second lock of cancel leaves the ticket for the engine thread.
LEMMA InsertCancelledKeeps ==
  ASSUME IInv, NEW c \in App, InsertCancelled(c)
  PROVE  IInv'
<1>1. app[c].ticket \in asked /\ app[c].ticket \in Ticket
  BY DEF IInv, TypeOK, AskedFirst, InsertCancelled
<1>2. /\ app' \in [App -> [pc : AppPC, ticket : Ticket \cup {None}]]
      /\ app'[c] = [pc |-> "idle", ticket |-> None]
      /\ \A d \in App : d # c => app'[d] = app[d]
  BY DEF IInv, TypeOK, InsertCancelled, Do, AppPC
<1>3. /\ \A u : /\ InChannel(u)' <=> InChannel(u)
                /\ Returned(u)' <=> Returned(u)
      /\ EachOnce'
  BY <1>2, PlacesKept DEF IInv, InsertCancelled
<1>4. TypeOK'
  BY <1>1, <1>2 DEF IInv, TypeOK, InsertCancelled
<1>5. LoopFits' /\ ShutdownLast' /\ QueuedCancelKept'
  BY <1>2, <1>3 DEF IInv, LoopFits, ShutdownLast, QueuedCancelKept, InsertCancelled
<1>6. AskedFirst'
  BY <1>1, <1>2, <1>3 DEF IInv, AskedFirst, InsertCancelled
<1> QED
  BY <1>3, <1>4, <1>5, <1>6 DEF IInv

\* cancel_current asks for the command that runs, and shutdown does the same
\* before it closes the channel.
LEMMA CurrentKeeps ==
  ASSUME IInv, NEW c \in App, CancelCurrent(c) \/ BeginShutdown(c)
  PROVE  IInv'
<1>1. /\ current # None => current \in Ticket /\ Returned(current)
      /\ UNCHANGED <<next, kind, sender, chan, current, cancelled, loop,
                     finished, listener, confirmed, late>>
      /\ asked' = IF current = None THEN asked ELSE asked \cup {current}
      /\ CurrentToken
  BY DEF IInv, TypeOK, LoopFits, Returned, CancelCurrent, BeginShutdown
<1>2. /\ app' \in [App -> [pc : AppPC, ticket : Ticket \cup {None}]]
      /\ app'[c].pc \in {"idle", "close"}
      /\ \A d \in App : d # c => app'[d] = app[d]
  <2>1. CASE CancelCurrent(c)
    BY <2>1 DEF IInv, TypeOK, CancelCurrent
  <2>2. CASE BeginShutdown(c)
    <3>1. TypeOK /\ Do(c, "close", None) /\ "close" \in AppPC
      BY <2>2 DEF IInv, BeginShutdown, AppPC
    <3>2. app'[c] = [pc |-> "close", ticket |-> None]
      BY <3>1, Moves
    <3> QED
      BY <3>1, <3>2, Moves
  <2> QED
    BY <2>1, <2>2
<1>3. /\ \A u : /\ InChannel(u)' <=> InChannel(u)
                /\ Returned(u)' <=> Returned(u)
      /\ EachOnce'
  BY <1>1, <1>2, PlacesKept DEF IInv
<1>4. TypeOK'
  BY <1>1, <1>2 DEF IInv, TypeOK, CurrentToken
<1>5. LoopFits' /\ ShutdownLast' /\ QueuedCancelKept'
  BY <1>1, <1>2, <1>3 DEF IInv, LoopFits, ShutdownLast, QueuedCancelKept
<1>6. AskedFirst'
  <2>1. \A u \in Ticket : token'[u] => token[u] \/ (u = current /\ current # None)
    BY <1>1 DEF IInv, TypeOK, CurrentToken
  <2> QED
    BY <1>1, <1>2, <1>3, <2>1 DEF IInv, AskedFirst
<1> QED
  BY <1>3, <1>4, <1>5, <1>6 DEF IInv

\* Shutdown is sent once, behind everything, and the sender is dropped.
LEMMA CloseChannelKeeps ==
  ASSUME IInv, NEW c \in App, CloseChannel(c)
  PROVE  IInv'
<1>1. /\ app' \in [App -> [pc : AppPC, ticket : Ticket \cup {None}]]
      /\ app'[c] = [pc |-> "take", ticket |-> None]
      /\ \A d \in App : d # c => app'[d] = app[d]
  BY DEF IInv, TypeOK, CloseChannel, Do, AppPC
<1>2. late' \subseteq Ticket
  BY DEF IInv, TypeOK, CloseChannel
<1>3. CASE ~sender
  <2>1. /\ \A u : /\ InChannel(u)' <=> InChannel(u)
                  /\ Returned(u)' <=> Returned(u)
        /\ EachOnce'
    BY <1>1, <1>3, PlacesKept DEF IInv, CloseChannel
  <2>2. TypeOK'
    BY <1>1, <1>2, <1>3 DEF IInv, TypeOK, CloseChannel
  <2>3. LoopFits' /\ ShutdownLast' /\ QueuedCancelKept'
    BY <1>1, <1>3, <2>1 DEF IInv, LoopFits, ShutdownLast, QueuedCancelKept, CloseChannel
  <2>4. AskedFirst'
    BY <1>1, <1>3, <2>1 DEF IInv, AskedFirst, CloseChannel
  <2> QED
    BY <2>1, <2>2, <2>3, <2>4 DEF IInv
<1>4. CASE sender
  <2>1. chan \in Seq(Ticket \cup {Shutdown}) /\ chan' = Append(chan, Shutdown)
    BY <1>4 DEF IInv, TypeOK, CloseChannel
  <2>2. /\ chan' \in Seq(Ticket \cup {Shutdown})
        /\ Len(chan') = Len(chan) + 1
        /\ chan'[Len(chan) + 1] = Shutdown
        /\ \A i \in 1 .. Len(chan) : chan'[i] = chan[i]
        /\ \A t : InChannel(t)' <=> InChannel(t) \/ t = Shutdown
    BY <2>1, SentBehind
  <2>3. Len(chan) \in Nat /\ \A t \in Ticket : t # Shutdown
    BY <2>1 DEF Ticket, Shutdown
  <2>4. \A t \in Ticket : /\ InChannel(t)' <=> InChannel(t)
                          /\ Returned(t)' <=> Returned(t)
    BY <2>2, <2>3 DEF Returned, CloseChannel
  <2>5. \A i \in 1 .. Len(chan) : chan[i] # Shutdown
    BY <1>4 DEF IInv, ShutdownLast
  <2>6. \A i \in 1 .. Len(chan') : i \in 1 .. Len(chan) \/ i = Len(chan) + 1
    BY <2>2, <2>3
  <2>7. TypeOK'
    BY <1>1, <1>2, <2>2 DEF IInv, TypeOK, CloseChannel
  <2>8. EachOnce'
    <3>1. \A d \in App : app[d].pc = "submit" => app[d].ticket \in Ticket
      BY BackgroundConstants DEF IInv, EachOnce, TypeOK, Ticket
    <3>2. \A i, j \in 1 .. Len(chan') : chan'[i] = chan'[j] => i = j
      BY <2>2, <2>5, <2>6 DEF IInv, EachOnce
    <3> QED
      BY <1>1, <2>4, <3>1, <3>2 DEF IInv, EachOnce, CloseChannel
  <2>9. ShutdownLast'
    BY <1>1, <1>4, <2>2, <2>5, <2>6 DEF IInv, ShutdownLast, CloseChannel
  <2>10. LoopFits' /\ QueuedCancelKept'
    BY <2>4 DEF IInv, TypeOK, LoopFits, QueuedCancelKept, CloseChannel
  <2>11. AskedFirst'
    <3>1. \A t \in asked : Returned(t)'
      BY <2>4 DEF IInv, TypeOK, AskedFirst
    <3> QED
      BY <1>1, <3>1 DEF IInv, AskedFirst, CloseChannel
  <2> QED
    BY <2>7, <2>8, <2>9, <2>10, <2>11 DEF IInv
<1> QED
  BY <1>3, <1>4

\* Taking and joining the thread move the calling thread only.
LEMMA JoinKeeps ==
  ASSUME IInv, NEW c \in App, TakeThread(c) \/ Join(c)
  PROVE  IInv'
<1>1. /\ app' \in [App -> [pc : AppPC, ticket : Ticket \cup {None}]]
      /\ app'[c].pc \in {"idle", "join", "joined"}
      /\ app'[c].pc = "joined" => loop.pc = "done"
      /\ \A d \in App : d # c => app'[d] = app[d]
      /\ UNCHANGED <<next, kind, sender, chan, current, token, cancelled, loop,
                     finished, listener, asked, confirmed, late>>
  <2>1. PICK s \in {"idle", "join", "joined"} :
          Do(c, s, None) /\ (s = "joined" => loop.pc = "done")
    BY DEF TakeThread, Join
  <2>2. TypeOK /\ s \in AppPC
    BY DEF IInv, AppPC
  <2>3. app'[c] = [pc |-> s, ticket |-> None]
    BY <2>1, <2>2, Moves
  <2>4. app'[c].pc = s
    BY <2>3
  <2>5. /\ app' \in [App -> [pc : AppPC, ticket : Ticket \cup {None}]]
        /\ \A d \in App : d # c => app'[d] = app[d]
    BY <2>1, <2>2, Moves
  <2> QED
    BY <2>1, <2>4, <2>5 DEF TakeThread, Join
<1>2. /\ \A u : /\ InChannel(u)' <=> InChannel(u)
                /\ Returned(u)' <=> Returned(u)
      /\ EachOnce'
  BY <1>1, PlacesKept DEF IInv
<1>3. TypeOK'
  BY <1>1 DEF IInv, TypeOK
<1>4. LoopFits' /\ ShutdownLast' /\ QueuedCancelKept'
  BY <1>1, <1>2 DEF IInv, LoopFits, ShutdownLast, QueuedCancelKept
<1>5. AskedFirst'
  BY <1>1, <1>2 DEF IInv, AskedFirst
<1> QED
  BY <1>2, <1>3, <1>4, <1>5 DEF IInv

-----------------------------------------------------------------------------
(* The engine thread *)

\* What is received is taken from the channel; behind Shutdown there is nothing.
LEMMA ReceiveKeeps ==
  ASSUME IInv, Recv, chan # <<>>
  PROVE  IInv'
<1> PICK h : h = Head(chan)
  OBVIOUS
<1>1. /\ chan' \in Seq(Ticket \cup {Shutdown})
      /\ h \in Ticket \cup {Shutdown}
      /\ h = chan[1]
      /\ Len(chan) \in Nat /\ Len(chan) >= 1
      /\ Len(chan') = Len(chan) - 1
      /\ \A i \in 1 .. Len(chan') : i + 1 \in 1 .. Len(chan) /\ chan'[i] = chan[i + 1]
      /\ \A t : InChannel(t) <=> InChannel(t)' \/ t = h
  <2>1. chan \in Seq(Ticket \cup {Shutdown}) /\ chan # <<>> /\ chan' = Tail(chan)
    BY DEF IInv, TypeOK, Recv
  <2> QED
    BY <2>1, ReceivedFirst
<1>2. /\ loop' = [pc |-> IF h = Shutdown THEN "stop" ELSE "check",
                  ticket |-> h, result |-> "none"]
      /\ loop.ticket = None
      /\ UNCHANGED <<next, kind, sender, current, token, cancelled, finished,
                     listener, app, asked, confirmed, late>>
  BY DEF IInv, LoopFits, Recv
<1>3. \A t \in Ticket : t # Shutdown /\ t # None
  BY DEF Ticket, Shutdown, None
<1>4. ~InChannel(h)'
  <2>1. ASSUME NEW i \in 1 .. Len(chan'), chan'[i] = h PROVE FALSE
    BY <1>1, <2>1 DEF IInv, EachOnce
  <2> QED
    BY <2>1 DEF InChannel
<1>5. \A t \in Ticket : Returned(t)' <=> Returned(t)
  BY <1>1, <1>2, <1>3 DEF Returned
<1>6. \A d \in App : app[d].pc = "submit" => app[d].ticket \in Ticket
  BY BackgroundConstants DEF IInv, EachOnce, TypeOK, Ticket
<1>7. TypeOK'
  BY <1>1, <1>2 DEF IInv, TypeOK, LoopPC, None, Shutdown
<1>8. EachOnce'
  <2>1. \A i, j \in 1 .. Len(chan') : chan'[i] = chan'[j] => i = j
    BY <1>1 DEF IInv, EachOnce
  <2>2. \A t \in Ticket : h = t => finished[t] = <<>>
    BY <1>1 DEF IInv, EachOnce
  <2> QED
    BY <1>1, <1>2, <1>4, <1>5, <1>6, <2>1, <2>2 DEF IInv, EachOnce
<1>9. LoopFits'
  BY <1>1, <1>2, <1>3 DEF IInv, LoopFits, Recv, Shutdown, None
<1>10. ShutdownLast'
  <2>1. \A i \in 1 .. Len(chan') : chan'[i] = Shutdown => i = Len(chan') /\ ~sender'
    BY <1>1, <1>2, SMTT(30) DEF IInv, ShutdownLast
  <2>2. h = Shutdown => Len(chan) = 1 /\ ~sender
    BY <1>1 DEF IInv, ShutdownLast
  <2>3. h = Shutdown => chan' = <<>>
    BY <1>1, <2>2
  <2> QED
    BY <1>2, <2>1, <2>2, <2>3 DEF IInv, ShutdownLast, Recv
<1>11. QueuedCancelKept'
  BY <1>1, <1>2 DEF IInv, QueuedCancelKept
<1>12. AskedFirst'
  <2>1. \A t \in asked : Returned(t)'
    BY <1>5 DEF IInv, TypeOK, AskedFirst
  <2> QED
    BY <1>2, <2>1 DEF IInv, AskedFirst
<1> QED
  BY <1>7, <1>8, <1>9, <1>10, <1>11, <1>12 DEF IInv

\* The end of the channel: nothing is in it.
LEMMA RecvKeeps ==
  ASSUME IInv, Recv
  PROVE  IInv'
<1>1. CASE chan # <<>>
  BY <1>1, ReceiveKeeps
<1>2. CASE chan = <<>>
  <2>1. /\ ~sender /\ chan' = <<>>
        /\ loop' = [pc |-> "stop", ticket |-> Shutdown, result |-> "none"]
        /\ loop.pc = "recv"
        /\ UNCHANGED <<next, kind, sender, current, token, cancelled, finished,
                       listener, app, asked, confirmed, late>>
    BY <1>2 DEF Recv
  <2>2. loop.ticket = None /\ current = None
    BY <2>1 DEF IInv, LoopFits
  <2>3. Shutdown = None
    BY DEF Shutdown, None
  <2>4. \A t \in Ticket : t # Shutdown /\ t # None
    BY DEF Ticket, Shutdown, None
  <2>5. \A t : (InChannel(t)' <=> InChannel(t)) /\ (Returned(t)' <=> Returned(t))
    BY <1>2, <2>1, <2>2, <2>3 DEF InChannel, Returned
  <2>6. TypeOK'
    BY <1>2, <2>1 DEF IInv, TypeOK, LoopPC, None, Shutdown
  <2>7. EachOnce'
    BY <1>2, <2>1, <2>2, <2>3, <2>5 DEF IInv, EachOnce
  <2>8. LoopFits' /\ ShutdownLast'
    BY <1>2, <2>1, <2>2, <2>3 DEF IInv, LoopFits, ShutdownLast
  <2>9. AskedFirst' /\ QueuedCancelKept'
    BY <1>2, <2>1, <2>2, <2>5 DEF IInv, AskedFirst, QueuedCancelKept
  <2> QED  BY <2>6, <2>7, <2>8, <2>9 DEF IInv
<1> QED  BY <1>1, <1>2

\* The steps of the thread between a command and its report leave every ticket
\* where it is.
LEMMA LoopPlacesKept ==
  ASSUME EachOnce, UNCHANGED <<next, chan, finished, app>>,
         loop'.ticket = loop.ticket
  PROVE  /\ \A t : /\ InChannel(t)' <=> InChannel(t)
                   /\ Returned(t)' <=> Returned(t)
         /\ EachOnce'
<1>1. \A t : /\ InChannel(t)' <=> InChannel(t)
             /\ Returned(t)' <=> Returned(t)
  BY DEF InChannel, Returned
<1> QED
  BY <1>1 DEF EachOnce

\* The thread takes its ticket from `cancelled`: only a cancelled command is
\* skipped, and no queued one is forgotten.
LEMMA CheckCancelledKeeps ==
  ASSUME IInv, CheckCancelled
  PROVE  IInv'
<1>1. /\ loop'.ticket = loop.ticket
      /\ loop' \in [pc : LoopPC, ticket : Ticket \cup {None}, result : Result \cup {"none"}]
      /\ loop'.pc = IF loop.ticket \in cancelled THEN "skip" ELSE "set"
  BY DEF IInv, TypeOK, CheckCancelled, Loop, LoopPC
<1>2. /\ \A t : /\ InChannel(t)' <=> InChannel(t)
                /\ Returned(t)' <=> Returned(t)
      /\ EachOnce'
  BY <1>1, LoopPlacesKept DEF IInv, CheckCancelled
<1>3. TypeOK'
  BY <1>1 DEF IInv, TypeOK, CheckCancelled
<1>4. LoopFits' /\ ShutdownLast'
  BY <1>1 DEF IInv, LoopFits, ShutdownLast, CheckCancelled
<1>5. QueuedCancelKept'
  <2>1. loop.ticket \in Ticket /\ ~InChannel(loop.ticket)
    BY DEF IInv, TypeOK, LoopFits, EachOnce, CheckCancelled
  <2> QED
    BY <1>2, <2>1 DEF IInv, QueuedCancelKept, CheckCancelled
<1>6. AskedFirst'
  BY <1>1, <1>2 DEF IInv, AskedFirst, CheckCancelled
<1> QED
  BY <1>2, <1>3, <1>4, <1>5, <1>6 DEF IInv

\* `current` is set and cleared around the command.
LEMMA CurrentSetKeeps ==
  ASSUME IInv, SetCurrent \/ ClearCurrent
  PROVE  IInv'
<1>1. /\ loop'.ticket = loop.ticket /\ loop'.result = loop.result
      /\ loop' \in [pc : LoopPC, ticket : Ticket \cup {None}, result : Result \cup {"none"}]
      /\ \/ loop.pc = "set" /\ loop'.pc = "run" /\ current' = loop.ticket
         \/ loop.pc = "clear" /\ loop'.pc = "report" /\ current' = None
      /\ UNCHANGED <<next, kind, sender, chan, token, cancelled, finished,
                     listener, app, asked, confirmed, late>>
  BY DEF IInv, TypeOK, SetCurrent, ClearCurrent, Loop, LoopPC
<1>2. /\ \A t : /\ InChannel(t)' <=> InChannel(t)
                /\ Returned(t)' <=> Returned(t)
      /\ EachOnce'
  BY <1>1, LoopPlacesKept DEF IInv
<1>3. TypeOK'
  BY <1>1 DEF IInv, TypeOK
<1>4. LoopFits' /\ ShutdownLast' /\ QueuedCancelKept'
  BY <1>1, <1>2 DEF IInv, LoopFits, ShutdownLast, QueuedCancelKept
<1>5. AskedFirst'
  BY <1>1, <1>2 DEF IInv, AskedFirst
<1> QED
  BY <1>2, <1>3, <1>4, <1>5 DEF IInv

\* A command ends as cancelled only when its own token was cancelled.
LEMMA RunKeeps ==
  ASSUME IInv, Run
  PROVE  IInv'
<1>1. loop.ticket \in Ticket
  BY DEF IInv, TypeOK, LoopFits, Run
<1>2. PICK r \in Result :
        /\ r = "cancelled" => token[loop.ticket]
        /\ loop' = [loop EXCEPT !.pc = "clear", !.result = r]
        /\ listener' \in BOOLEAN
  BY DEF IInv, TypeOK, Run
<1>3. /\ loop'.ticket = loop.ticket /\ loop'.pc = "clear" /\ loop'.result = r
      /\ loop' \in [pc : LoopPC, ticket : Ticket \cup {None}, result : Result \cup {"none"}]
  BY <1>2 DEF IInv, TypeOK, LoopPC
<1>4. /\ \A t : /\ InChannel(t)' <=> InChannel(t)
                /\ Returned(t)' <=> Returned(t)
      /\ EachOnce'
  BY <1>3, LoopPlacesKept DEF IInv, Run
<1>5. TypeOK'
  BY <1>2, <1>3 DEF IInv, TypeOK, Run
<1>6. LoopFits' /\ ShutdownLast' /\ QueuedCancelKept'
  BY <1>3, <1>4 DEF IInv, LoopFits, ShutdownLast, QueuedCancelKept, Run
<1>7. AskedFirst'
  BY <1>1, <1>2, <1>3, <1>4 DEF IInv, AskedFirst, Run
<1> QED
  BY <1>4, <1>5, <1>6, <1>7 DEF IInv

\* A ticket is reported once.
LEMMA ReportKeeps ==
  ASSUME IInv, Report
  PROVE  IInv'
<1> PICK t : t = loop.ticket
  OBVIOUS
<1> PICK r : r = IF loop.pc = "skip" THEN "cancelled" ELSE loop.result
  OBVIOUS
<1>1. /\ t \in Ticket /\ t # None
      /\ finished[t] = <<>> /\ ~InChannel(t)
      /\ r \in Result
      /\ r = "cancelled" => t \in asked
  BY DEF IInv, TypeOK, LoopFits, EachOnce, AskedFirst, Report, Result
<1>2. /\ loop' = [pc |-> "recv", ticket |-> None, result |-> "none"]
      /\ loop' \in [pc : LoopPC, ticket : Ticket \cup {None}, result : Result \cup {"none"}]
      /\ UNCHANGED <<next, kind, sender, chan, current, token, cancelled, listener,
                     app, asked, confirmed, late>>
  BY DEF Report, LoopPC
<1>3. /\ finished' = [finished EXCEPT ![t] = Append(<<>>, r)]
      /\ Append(<<>>, r) = <<r>> /\ <<r>> \in Seq(Result) /\ Len(<<r>>) = 1
      /\ <<r>> # <<>> /\ r = <<r>>[1]
  BY <1>1 DEF Report
<1>4. /\ finished' \in [Ticket -> Seq(Result)]
      /\ finished'[t] = <<r>>
      /\ \A u \in Ticket : u # t => finished'[u] = finished[u]
  BY <1>1, <1>3 DEF IInv, TypeOK
<1>5. \A u : InChannel(u)' <=> InChannel(u)
  BY <1>2 DEF InChannel
<1>6. \A u \in Ticket : Returned(u)' <=> Returned(u)
  BY <1>1, <1>2, <1>3, <1>4, <1>5 DEF Returned, Ticket, None
<1>7. \A d \in App : app[d].pc = "submit" => app[d].ticket \in Ticket
  BY BackgroundConstants DEF IInv, EachOnce, TypeOK, Ticket
<1>8. TypeOK'
  <2>1. \A u \in Ticket : Len(finished'[u]) <= 1
    BY <1>3, <1>4 DEF IInv, TypeOK
  <2> QED
    BY <1>2, <1>4, <2>1 DEF IInv, TypeOK
<1>9. EachOnce'
  <2>1. \A u \in Ticket : loop'.ticket # u
    BY <1>2 DEF Ticket, None
  <2>2. \A u \in Ticket : finished'[u] # <<>> => ~InChannel(u)'
    BY <1>1, <1>4, <1>5 DEF IInv, EachOnce
  <2> QED
    BY <1>2, <1>6, <1>7, <2>1, <2>2 DEF IInv, EachOnce
<1>10. LoopFits'
  BY <1>2 DEF IInv, LoopFits, Report
<1>11. ShutdownLast' /\ QueuedCancelKept'
  BY <1>2, <1>5 DEF IInv, ShutdownLast, QueuedCancelKept, Report
<1>12. AskedFirst'
  <2>1. \A u \in asked : Returned(u)'
    BY <1>6 DEF IInv, TypeOK, AskedFirst
  <2>2. \A u \in Ticket : finished'[u] = <<"cancelled">> => u \in asked
    BY <1>1, <1>3, <1>4 DEF IInv, AskedFirst
  <2> QED
    BY <1>2, <2>1, <2>2 DEF IInv, AskedFirst
<1> QED
  BY <1>8, <1>9, <1>10, <1>11, <1>12 DEF IInv

\* The thread that stops has nothing left to run.
LEMMA StopThreadKeeps ==
  ASSUME IInv, StopThread
  PROVE  IInv'
<1>1. /\ loop'.ticket = loop.ticket /\ loop'.pc = "done"
      /\ loop' \in [pc : LoopPC, ticket : Ticket \cup {None}, result : Result \cup {"none"}]
  BY DEF IInv, TypeOK, StopThread, Loop, LoopPC
<1>2. /\ \A t : /\ InChannel(t)' <=> InChannel(t)
                /\ Returned(t)' <=> Returned(t)
      /\ EachOnce'
  BY <1>1, LoopPlacesKept DEF IInv, StopThread
<1>3. TypeOK'
  BY <1>1 DEF IInv, TypeOK, StopThread
<1>4. LoopFits' /\ ShutdownLast' /\ QueuedCancelKept'
  BY <1>1, <1>2 DEF IInv, LoopFits, ShutdownLast, QueuedCancelKept, StopThread
<1>5. AskedFirst'
  BY <1>1, <1>2 DEF IInv, AskedFirst, StopThread
<1> QED
  BY <1>2, <1>3, <1>4, <1>5 DEF IInv

-----------------------------------------------------------------------------
(* The theorems *)

\* The invariant holds initially.
LEMMA InitKeeps == Init => IInv
<1> SUFFICES ASSUME Init PROVE IInv
  OBVIOUS
<1>1. \A t : ~InChannel(t)
  BY DEF Init, InChannel
<1>2. \A t \in Ticket : ~Returned(t)
  BY <1>1 DEF Init, Returned, Ticket, None
<1>3. TypeOK
  <2>1. next \in 1 .. MaxTicket + 1
    BY BackgroundConstants DEF Init
  <2>2. /\ chan \in Seq(Ticket \cup {Shutdown})
        /\ finished \in [Ticket -> Seq(Result)]
        /\ \A t \in Ticket : Len(finished[t]) <= 1
    BY DEF Init
  <2> QED
    BY <2>1, <2>2 DEF Init, TypeOK, LoopPC, AppPC
<1>4. EachOnce /\ AskedFirst
  BY <1>1, <1>2 DEF Init, EachOnce, AskedFirst
<1>5. LoopFits /\ ShutdownLast /\ QueuedCancelKept
  BY DEF Init, LoopFits, ShutdownLast, QueuedCancelKept
<1> QED
  BY <1>3, <1>4, <1>5 DEF IInv

\* Every step of every thread keeps the invariant.
LEMMA NextKeeps == IInv /\ [Next]_vars => IInv'
<1> SUFFICES ASSUME IInv, [Next]_vars PROVE IInv'
  OBVIOUS
<1>1. CASE UNCHANGED vars
  BY <1>1 DEF vars, IInv, TypeOK, EachOnce, LoopFits, AskedFirst, ShutdownLast,
              QueuedCancelKept, InChannel, Returned
<1>2. CASE EngineThread
  BY <1>2, RecvKeeps, CheckCancelledKeeps, CurrentSetKeeps, RunKeeps, ReportKeeps,
     StopThreadKeeps DEF EngineThread
<1>3. ASSUME NEW c \in App,
             DrawTicket(c) \/ CancelCurrent(c) \/ BeginShutdown(c) \/ AppThread(c)
             \/ \E t \in Ticket : Cancel(c, t)
      PROVE  IInv'
  BY <1>3, DrawTicketKeeps, SendKeeps, CancelKeeps, LockCurrentKeeps,
     InsertCancelledKeeps, CurrentKeeps, CloseChannelKeeps, JoinKeeps DEF AppThread
<1> QED
  BY <1>1, <1>2, <1>3 DEF Next

\* The invariant the theorems below come from: a ticket is in one place, a
\* cancel goes only where a caller asked, Shutdown is last.
THEOREM BackgroundInductive == Spec => []IInv
<1>1. Init => IInv
  BY InitKeeps
<1>2. IInv /\ [Next]_vars => IInv'
  BY NextKeeps
<1> QED
  BY <1>1, <1>2, PTL DEF Spec

\* Type correctness; a ticket has at most one TaskFinished.
THEOREM BackgroundType == Spec => []TypeOK
<1>1. IInv => TypeOK
  BY DEF IInv
<1> QED
  BY <1>1, BackgroundInductive, PTL

\* Only what a caller asked to cancel has its token cancelled or ends as
\* cancelled (cancel, cancel_current, run_command).
THEOREM OnlyAskedIsCancelled == Spec => []OnlyAskedCancelled
<1>1. IInv => OnlyAskedCancelled
  BY DEF IInv, AskedFirst, OnlyAskedCancelled
<1> QED
  BY <1>1, BackgroundInductive, PTL

\* A cancel confirmed for a command still in the channel is not forgotten.
THEOREM CancelIsKept == Spec => []QueuedCancelKept
<1>1. IInv => QueuedCancelKept
  BY DEF IInv
<1> QED
  BY <1>1, BackgroundInductive, PTL

\* After shutdown has joined the thread, nothing is queued, runs or listens.
THEOREM JoinIsTheEnd == Spec => []JoinedIsOver
<1>1. IInv => JoinedIsOver
  BY DEF IInv, ShutdownLast, LoopFits, JoinedIsOver
<1> QED
  BY <1>1, BackgroundInductive, PTL

=============================================================================
