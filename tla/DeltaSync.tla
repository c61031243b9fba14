------------------------------ MODULE DeltaSync ------------------------------
(***************************************************************************)
(* The replicated key/value state of crates/libresync/src/state.rs and the *)
(* two sync protocols of sync.rs that move it between devices: protocol 2  *)
(* (one connection, deltas relative to cursors, run_sync_inner 546-623 and *)
(* handle_connection 891-944) and protocol 1 (two connections, full        *)
(* snapshots, 501-544 and 869-890).                                        *)
(*                                                                         *)
(* Every action is one critical section of the code: the state mutex is    *)
(* released between a listener's export and its merge, and between reading *)
(* a cursor and using what it selected, so local writes and other          *)
(* exchanges interleave there.  A connection may end at any step (Drop).   *)
(***************************************************************************)
EXTENDS Integers, FiniteSets

CONSTANTS
  Node,        \* device ids; strings ordered like the numbers standing for them
  Key,         \* entry keys, in the order the state's BTreeMap visits them
  Field,       \* the parts of a value a field-level merge tells apart
  Slot,        \* connections that may be open at the same time
  Legacy,      \* devices that speak protocol version 1 only
  Applier,     \* SyncOptions::applier: "lww" or "logical" (field-level merge)
  MaxCounter,  \* bound: local writes are made only below this Lamport counter
  MaxEpoch     \* bound: how often one device's state may be recreated

ASSUME ConstantsOK ==
  /\ Node \subseteq Nat \ {0}
  /\ Key \subseteq Nat
  /\ IsFiniteSet(Key)
  /\ Legacy \subseteq Node
  /\ Applier \in {"lww", "logical"}
  /\ MaxCounter \in Nat
  /\ MaxEpoch \in Nat

-----------------------------------------------------------------------------
(* Versions *)

\* LamportClock: ordered by counter, then device id.  The third part is not in
\* the code and nothing compares it: it says which of the device's states drew
\* the clock, so that two contents written under one clock are told apart.
Clock == Nat \X Nat \X Nat
NoClock == <<0, 0, 0>>
Less(a, b) == a[1] < b[1] \/ (a[1] = b[1] /\ a[2] < b[2])
Later(a, b) == IF Less(a, b) THEN b ELSE a

\* An Entry's value, abstracted to the clock of the write that produced each
\* of its fields.  Absent stands for a key the state does not hold.
Version == [clock : Clock, fields : [Field -> Clock]]
Absent == [clock |-> NoClock, fields |-> [f \in Field |-> NoClock]]

\* What one inbound entry does to the version held: apply_entry replaces an
\* older version as a whole, merge_records keeps the later write of each field.
Merge(old, new) ==
  IF Applier = "lww"
  THEN IF Less(old.clock, new.clock) THEN new ELSE old
  ELSE [clock  |-> Later(old.clock, new.clock),
        fields |-> [f \in Field |-> Later(old.fields[f], new.fields[f])]]

\* Holding `a` means having no use for `b`: neither merge would take anything
\* from it.
Covers(a, b) ==
  /\ ~Less(a.clock, b.clock)
  /\ Applier = "logical" => \A f \in Field : ~Less(a.fields[f], b.fields[f])

-----------------------------------------------------------------------------
VARIABLES
  counter,   \* counter[n]: Lamport counter of n's State
  held,      \* held[n][k]: the version of entry k in n's State
  seq,       \* seq[n]: apply sequence
  seqOf,     \* seqOf[n][k]: sequence of the version held (0: none held)
  origin,    \* origin[n][k]: device that version came from (0: local)
  cursor,    \* cursor[n][p]: PeerCursor n stores for p
  epoch,     \* epoch[n]: identity of the state's history
  conn       \* conn[s]: the connection in slot s and the message in flight

state == <<counter, held, seq, seqOf, origin, cursor, epoch>>
vars == <<counter, held, seq, seqOf, origin, cursor, epoch, conn>>

NoCursor == [epoch |-> 0, clock |-> 0]
Nothing == [k \in Key |-> Absent]
Idle == [phase |-> "idle", client |-> 0, listener |-> 0,
         cursor |-> NoCursor, acked |-> NoCursor, batch |-> Nothing]

Phase == {"idle",
          "since", "delta", "merged", "acked",       \* protocol 2
          "push", "pushed", "request", "snapshot"}   \* protocol 1

Cursor == [epoch : Nat, clock : Nat]
Connection == [phase : Phase, client : Nat, listener : Nat,
               cursor : Cursor, acked : Cursor, batch : [Key -> Version]]

TypeOK ==
  /\ counter \in [Node -> Nat]
  /\ held \in [Node -> [Key -> Version]]
  /\ seq \in [Node -> Nat]
  /\ seqOf \in [Node -> [Key -> Nat]]
  /\ origin \in [Node -> [Key -> Nat]]
  /\ cursor \in [Node -> [Node -> Cursor]]
  /\ epoch \in [Node -> Nat]
  /\ conn \in [Slot -> Connection]
  /\ \A s \in Slot : conn[s].phase # "idle" =>
       conn[s].client \in Node /\ conn[s].listener \in Node

\* State::new on every device; a random epoch is modelled by a fresh number.
Init ==
  /\ counter = [n \in Node |-> 0]
  /\ held = [n \in Node |-> Nothing]
  /\ seq = [n \in Node |-> 1]
  /\ seqOf = [n \in Node |-> [k \in Key |-> 0]]
  /\ origin = [n \in Node |-> [k \in Key |-> 0]]
  /\ cursor = [n \in Node |-> [p \in Node |-> NoCursor]]
  /\ epoch = [n \in Node |-> 1]
  /\ conn = [s \in Slot |-> Idle]

-----------------------------------------------------------------------------
(* Operations on one State *)

\* State::resolve_cursor
Resolve(n, cur) == IF cur.epoch = epoch[n] THEN cur.clock ELSE 0

\* Mutant of IsFull: an empty cursor is served a delta.
IsFullOnlyAhead(n, since) == since > seq[n]

\* State::is_full_snapshot_request
IsFull(n, since) == since = 0 \/ since > seq[n]

\* Mutant of Delta: the first entry after the cursor is skipped.
DeltaOffByOne(n, since, peer) ==
  [k \in Key |->
     IF IsFull(n, since) \/ (seqOf[n][k] > since + 1 /\ origin[n][k] # peer)
     THEN held[n][k] ELSE Absent]

\* State::delta_since(since, Some(peer)); Absent marks an omitted entry.
Delta(n, since, peer) ==
  [k \in Key |->
     IF IsFull(n, since) \/ (seqOf[n][k] > since /\ origin[n][k] # peer)
     THEN held[n][k] ELSE Absent]

\* State::current_cursor
CurrentCursor(n) == [epoch |-> epoch[n], clock |-> seq[n]]

\* record_write for every key of `changed`, in key order.
RecordWrites(n, changed, from) ==
  /\ seq' = [seq EXCEPT ![n] = @ + Cardinality(changed)]
  /\ seqOf' = [seqOf EXCEPT ![n] = [k \in Key |->
       IF k \in changed
       THEN seq[n] + Cardinality({j \in changed : j <= k})
       ELSE seqOf[n][k]]]
  /\ origin' = [origin EXCEPT ![n] = [k \in Key |->
       IF k \in changed THEN from ELSE origin[n][k]]]

\* The versions n holds once `batch` is merged, and the keys that changes.
MergedWith(n, batch) == [k \in Key |-> Merge(held[n][k], batch[k])]

\* Mutant of ChangedBy: every entry of the batch is recorded as a write.
ChangedByAll(n, batch) == {k \in Key : batch[k] # Absent}

ChangedBy(n, batch) == {k \in Key : MergedWith(n, batch)[k] # held[n][k]}

\* Mutant of RaiseCounter: merging leaves the counter where it is.
RaiseNothing(n, batch) == counter' = counter

\* apply_entry and upsert_entry raise the Lamport counter to the entry's,
\* whether they then store the entry or not.
RaiseCounter(n, batch) ==
  \E c \in 0 .. MaxCounter :
    /\ c = counter[n] \/ \E k \in Key : c = batch[k].clock[1]
    /\ c >= counter[n] /\ \A k \in Key : c >= batch[k].clock[1]
    /\ counter' = [counter EXCEPT ![n] = c]

\* with_inbound_origin(from, apply_inbound(batch))
ApplyInbound(n, from, batch) ==
  /\ held' = [held EXCEPT ![n] = MergedWith(n, batch)]
  /\ RecordWrites(n, ChangedBy(n, batch), from)
  /\ RaiseCounter(n, batch)

-----------------------------------------------------------------------------
(* Local operations *)

\* State::set, or RecordState::set on the fields an edit touches: a fresh
\* clock for the entry and for every field changed.
Set(n, k, changed) ==
  LET now == <<counter[n] + 1, n, epoch[n]>>
  IN /\ counter[n] < MaxCounter
     /\ Applier = "lww" => changed = Field
     /\ counter' = [counter EXCEPT ![n] = @ + 1]
     /\ held' = [held EXCEPT ![n][k] =
          [clock  |-> now,
           fields |-> [f \in Field |-> IF f \in changed
                                       THEN now ELSE held[n][k].fields[f]]]]
     /\ RecordWrites(n, {k}, 0)
     /\ UNCHANGED <<cursor, epoch, conn>>

\* State::reset_peer_cursors
ResetPeerCursors(n) ==
  /\ cursor' = [cursor EXCEPT ![n] = [p \in Node |-> NoCursor]]
  /\ UNCHANGED <<counter, held, seq, seqOf, origin, epoch, conn>>

\* The state file is gone or unreadable and the device starts over with
\* State::new, whose counter draws the old clocks once more.  Its old
\* connections are over: a message of theirs that arrives later is not modelled.
Recreate(n) ==
  /\ epoch[n] < MaxEpoch
  /\ \A s \in Slot : n \notin {conn[s].client, conn[s].listener}
  /\ epoch' = [epoch EXCEPT ![n] = @ + 1]
  /\ counter' = [counter EXCEPT ![n] = 0]
  /\ held' = [held EXCEPT ![n] = Nothing]
  /\ seq' = [seq EXCEPT ![n] = 1]
  /\ seqOf' = [seqOf EXCEPT ![n] = [k \in Key |-> 0]]
  /\ origin' = [origin EXCEPT ![n] = [k \in Key |-> 0]]
  /\ cursor' = [cursor EXCEPT ![n] = [p \in Node |-> NoCursor]]
  /\ UNCHANGED conn

-----------------------------------------------------------------------------
(* Protocol 2, one connection *)

\* After both Hellos the client reads its cursor and sends SnapshotSince.
SendSince(s, c, l) ==
  /\ conn[s] = Idle
  /\ c # l
  /\ {c, l} \cap Legacy = {}
  /\ conn' = [conn EXCEPT ![s] =
       [Idle EXCEPT !.phase = "since", !.client = c, !.listener = l,
                    !.cursor = cursor[c][l]]]
  /\ UNCHANGED state

\* The listener selects its delta, its position and the cursor it holds for
\* the client under one lock, then sends Delta.
ListenerExport(s) ==
  LET c == conn[s].client
      l == conn[s].listener
  IN /\ conn[s].phase = "since"
     /\ conn' = [conn EXCEPT ![s] =
          [@ EXCEPT !.phase = "delta",
                    !.cursor = CurrentCursor(l),
                    !.acked = cursor[l][c],
                    !.batch = Delta(l, Resolve(l, conn[s].cursor), c)]]
     /\ UNCHANGED state

\* The client selects its own delta before it merges the listener's, stores
\* the listener's position and sends Delta.
ClientMerge(s) ==
  LET c == conn[s].client
      l == conn[s].listener
  IN /\ conn[s].phase = "delta"
     /\ conn' = [conn EXCEPT ![s] =
          [@ EXCEPT !.phase = "merged",
                    !.cursor = CurrentCursor(c),
                    !.acked = NoCursor,
                    !.batch = Delta(c, Resolve(c, conn[s].acked), l)]]
     /\ ApplyInbound(c, l, conn[s].batch)
     /\ cursor' = [cursor EXCEPT ![c][l] = conn[s].cursor]
     /\ UNCHANGED epoch

\* The listener merges the client's delta, stores its position, sends Ack.
ListenerMerge(s) ==
  LET c == conn[s].client
      l == conn[s].listener
  IN /\ conn[s].phase = "merged"
     /\ conn' = [conn EXCEPT ![s] =
          [@ EXCEPT !.phase = "acked", !.cursor = NoCursor, !.batch = Nothing]]
     /\ ApplyInbound(l, c, conn[s].batch)
     /\ cursor' = [cursor EXCEPT ![l][c] = conn[s].cursor]
     /\ UNCHANGED epoch

-----------------------------------------------------------------------------
(* Protocol 1, a push and a pull connection *)

PushSnapshot(s, c, l) ==
  /\ conn[s] = Idle
  /\ c # l
  /\ {c, l} \cap Legacy # {}
  /\ conn' = [conn EXCEPT ![s] =
       [Idle EXCEPT !.phase = "push", !.client = c, !.listener = l,
                    !.batch = held[c]]]
  /\ UNCHANGED state

MergePushed(s) ==
  /\ conn[s].phase = "push"
  /\ conn' = [conn EXCEPT ![s] = [@ EXCEPT !.phase = "pushed", !.batch = Nothing]]
  /\ ApplyInbound(conn[s].listener, conn[s].client, conn[s].batch)
  /\ UNCHANGED <<cursor, epoch>>

RequestSnapshot(s) ==
  /\ conn[s].phase = "pushed"
  /\ conn' = [conn EXCEPT ![s].phase = "request"]
  /\ UNCHANGED state

SendSnapshot(s) ==
  /\ conn[s].phase = "request"
  /\ conn' = [conn EXCEPT ![s] =
       [@ EXCEPT !.phase = "snapshot", !.batch = held[conn[s].listener]]]
  /\ UNCHANGED state

MergePulled(s) ==
  /\ conn[s].phase = "snapshot"
  /\ conn' = [conn EXCEPT ![s] = Idle]
  /\ ApplyInbound(conn[s].client, conn[s].listener, conn[s].batch)
  /\ UNCHANGED <<cursor, epoch>>

-----------------------------------------------------------------------------

\* The connection ends: the client has its Ack, or either side cancelled,
\* timed out or lost the other, with whatever message was in flight.
Drop(s) ==
  /\ conn[s].phase # "idle"
  /\ conn' = [conn EXCEPT ![s] = Idle]
  /\ UNCHANGED state

Next ==
  \/ \E n \in Node, k \in Key : \E changed \in SUBSET Field : Set(n, k, changed)
  \/ \E n \in Node : ResetPeerCursors(n)
  \/ \E n \in Node : Recreate(n)
  \/ \E s \in Slot, c, l \in Node : SendSince(s, c, l)
  \/ \E s \in Slot : ListenerExport(s)
  \/ \E s \in Slot : ClientMerge(s)
  \/ \E s \in Slot : ListenerMerge(s)
  \/ \E s \in Slot, c, l \in Node : PushSnapshot(s, c, l)
  \/ \E s \in Slot : MergePushed(s)
  \/ \E s \in Slot : RequestSnapshot(s)
  \/ \E s \in Slot : SendSnapshot(s)
  \/ \E s \in Slot : MergePulled(s)
  \/ \E s \in Slot : Drop(s)

Spec == Init /\ [][Next]_vars

\* Auto-refresh and the apps start an exchange between every pair again and
\* again, and a connection that is attempted for ever is not lost every time.
\* Nothing forces an edit, a restart or a cursor reset.
Between(s, p, q) == {conn[s].client, conn[s].listener} = {p, q}
Fairness ==
  /\ \A p, q \in Node : p < q =>
       /\ SF_vars(\E s \in Slot : SendSince(s, p, q) \/ SendSince(s, q, p))
       /\ SF_vars(\E s \in Slot : Between(s, p, q) /\ ListenerExport(s))
       /\ SF_vars(\E s \in Slot : Between(s, p, q) /\ ClientMerge(s))
       /\ SF_vars(\E s \in Slot : Between(s, p, q) /\ ListenerMerge(s))
  /\ \A s \in Slot : WF_vars(conn[s].phase = "acked" /\ Drop(s))

FairSpec == Spec /\ Fairness

-----------------------------------------------------------------------------
(* Properties *)

\* p can serve q's cursor with a delta instead of a full snapshot.
Resolves(p, q) == Resolve(p, cursor[q][p]) # 0

\* State::delta_since: a peer's cursor stands for every version applied up to
\* it.  Nothing a delta leaves out for being at or before the cursor is
\* missing at the peer, whatever was dropped, repeated or running twice.
CursorSound ==
  \A p, q \in Node : p # q /\ Resolves(p, q) =>
    /\ cursor[q][p].clock <= seq[p]
    /\ \A k \in Key : seqOf[p][k] <= cursor[q][p].clock =>
         Covers(held[q][k], held[p][k])

\* state.rs 162-164: "Versions received from `exclude_origin` are skipped
\* because that peer already holds them."
ExcludedHeld ==
  \A p, q \in Node : p # q /\ Resolves(p, q) =>
    \A k \in Key : origin[p][k] = q => Covers(held[q][k], held[p][k])

\* The Lamport counter is never behind an entry held, so a local write
\* always supersedes the version it overwrites.
CounterAhead ==
  \A n \in Node, k \in Key : held[n][k].clock[1] <= counter[n]

\* No step but the loss of the whole state replaces a version by one that
\* says less: neither a late, repeated or reordered message nor a local write.
HeldGrows ==
  [][\A n \in Node : epoch'[n] = epoch[n] =>
       \A k \in Key : Covers(held'[n][k], held[n][k])]_vars

\* What the state promises whoever uses it (Replicas): a register only moves to
\* a later version, written here or sent by a device that held it, and a write
\* is later than everything its device has seen.
Sending(k) == {conn[s].batch[k] : s \in Slot} \ {Absent}
Promise == INSTANCE Replicas WITH air <- [k \in Key |-> Sending(k)]
Implements == Promise!Spec

\* A recreated state has drawn a clock for other contents than its
\* predecessor: each device refuses the version of the other (apply_entry,
\* state.rs:105-106), whatever they exchange.
ClockReused(p, q, k) ==
  held[p][k] # held[q][k] /\ Covers(held[p][k], held[q][k]) /\ Covers(held[q][k], held[p][k])

\* Once edits and restarts cease (they are bounded), all devices come to hold
\* the same contents and keep them, except where a recreated state has drawn a
\* clock that named other contents already.
Converged ==
  \A p, q \in Node, k \in Key : held[p][k] = held[q][k] \/ ClockReused(p, q, k)
Convergence == <>[]Converged

\* RESEARCH.md:64 asks for more, the same contents everywhere ("Deterministic
\* convergence").  A reused clock refutes it; without Recreate it holds.
SameEverywhere == <>[](\A p, q \in Node : held[p] = held[q])

-----------------------------------------------------------------------------
(* The inductive invariant behind CursorSound and ExcludedHeld *)

\* q may be served a delta of p's versions relative to `cur` once it has
\* merged `batch`: what the delta omits q holds, or is about to.
Sound(q, p, cur, batch) ==
  cur.epoch = epoch[p] /\ cur.clock # 0 =>
    /\ cur.clock <= seq[p]
    /\ \A k \in Key : seqOf[p][k] <= cur.clock \/ origin[p][k] = q =>
         \/ Covers(held[q][k], held[p][k])
         \/ Covers(batch[k], held[p][k])

\* A cursor into p's history was handed out by p in this epoch or before.
HandedOut(p, cur) == cur.epoch <= epoch[p]

\* Every version of a message in flight is still held by its sender.
Sent(p, batch) == \A k \in Key : Covers(held[p][k], batch[k])

\* What each message promises its receiver.
MessageSound(x) ==
  /\ x.phase # "idle" => x.client # x.listener
  /\ x.phase = "since" =>
       /\ HandedOut(x.listener, x.cursor)
       /\ Sound(x.client, x.listener, x.cursor, Nothing)
  /\ x.phase = "delta" =>
       /\ HandedOut(x.listener, x.cursor)
       /\ Sound(x.client, x.listener, x.cursor, x.batch)
       /\ Sent(x.listener, x.batch)
       /\ HandedOut(x.client, x.acked)
       /\ Sound(x.listener, x.client, x.acked, Nothing)
  /\ x.phase = "merged" =>
       /\ HandedOut(x.client, x.cursor)
       /\ Sound(x.listener, x.client, x.cursor, x.batch)
       /\ Sent(x.client, x.batch)
  /\ x.phase = "push" => Sent(x.client, x.batch)
  /\ x.phase = "snapshot" => Sent(x.listener, x.batch)

CursorsSound ==
  \A p, q \in Node : p # q =>
    /\ HandedOut(p, cursor[q][p])
    /\ Sound(q, p, cursor[q][p], Nothing)

IInv ==
  /\ TypeOK
  /\ CounterAhead
  /\ CursorsSound
  /\ \A s \in Slot : MessageSound(conn[s])

=============================================================================
