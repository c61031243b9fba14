--------------------------- MODULE ManagedExchange ---------------------------
(***************************************************************************)
(* Exchanges between managed Sessions                                      *)
(* (crates/libresync/src/session/network.rs 437-969, receipt.rs,           *)
(* adapter.rs): hello, authoritative or incremental export, durable merge, *)
(* receipts, consent to a first merge, and what the applications on top    *)
(* acknowledge.  Each action is one Inner::mutate of one device together   *)
(* with the message it reads and the one it writes; local edits, other     *)
(* exchanges, consent, removal and repair interleave between them.         *)
(*                                                                         *)
(* The journal is durable before a message is sent, so a crash only cuts   *)
(* connections (Drop); ManagedLifecycle models the threads.                *)
(***************************************************************************)
EXTENDS Integers, FiniteSets

CONSTANTS
  Node,    \* devices, enrolled with each other
  Key,     \* records
  Slot,    \* connections
  Scopes   \* bounds of the behaviours, each of which keeps to one of them:
           \*   writers       devices whose user edits
           \*   apps          devices whose application takes up what arrives
           \*   slots         connections that may be open at the same time
           \*   counter       edits are made below this Lamport counter
           \*   incarnations  drawn, one more for each removal and each side of
           \*                 a repair

ASSUME ExchangeConstants ==
  /\ Node \subseteq Nat \ {0}
  /\ Key \subseteq Nat
  /\ IsFiniteSet(Key)
  /\ Scopes \subseteq [writers : SUBSET Node, apps : SUBSET Node,
                      slots : SUBSET Slot, counter : Nat, incarnations : Nat \ {0}]

-----------------------------------------------------------------------------
(* Records are the clock of the write that produced them (RecordsAdapter   *)
(* refuses unequal payloads with equal clocks).                            *)
Absent == <<0, 0>>
Less(a, b) == a[1] < b[1] \/ (a[1] = b[1] /\ a[2] < b[2])
Later(a, b) == IF Less(a, b) THEN b ELSE a

\* ManagedReceipt; the proof binds the source's enrollment incarnation.
NoReceipt == [epoch |-> 0, sequence |-> 0, proof |-> 0]
NoBatch == [checkpoint |-> NoReceipt, records |-> [k \in Key |-> Absent],
            full |-> FALSE]
NoPreview == [local_revision |-> 0, batch |-> NoBatch]

VARIABLES
  scope,       \* the bounds of this behaviour
  records,     \* records[n][k]
  revision,    \* revision[n]
  sequence,    \* sequence[n][k]: revision that stored the record
  origin,      \* origin[n][k]: peer it came from (0: local)
  peer,        \* peer[n][p]: n's journal entry for p
  conn,        \* conn[s]: an exchange
  inbox,       \* inbox[n]: the snapshot n's application is working on
  app,         \* app[n][k]: records n's application has committed
  minted,      \* incarnations drawn so far
  joining      \* joining[n][p]: p has enrolled n anew, n has not committed yet

store == <<records, revision, sequence, origin>>
vars == <<scope, records, revision, sequence, origin, peer, conn, inbox, app, minted, joining>>

Clock == {Absent} \cup (1 .. scope.counter) \X Node
Receipt == [epoch : Node \cup {0}, sequence : Nat, proof : 0 .. scope.incarnations]
State == {"waiting", "stored", "up_to_date", "needs_merge", "paused"}
Batch == [checkpoint : Receipt, records : [Key -> Clock], full : BOOLEAN]

Enrolled(i) ==
  [incarnation |-> i, revoked |-> FALSE, bootstrapped |-> FALSE,
   received |-> NoReceipt, processed |-> NoReceipt, stored |-> NoReceipt,
   applied |-> NoReceipt, pending |-> NoPreview, state |-> "waiting"]

Idle == [phase |-> "idle", client |-> 0, listener |-> 0, back |-> FALSE,
         cut |-> {}, received |-> NoReceipt, processed |-> NoReceipt,
         cursor |-> NoReceipt, back_cursor |-> NoReceipt, batch |-> NoBatch]
NoInbox == [records |-> [k \in Key |-> Absent],
            receipts |-> [p \in Node |-> NoReceipt], done |-> FALSE]

PeerState == [incarnation : 1 .. scope.incarnations, revoked : BOOLEAN,
              bootstrapped : BOOLEAN, received : Receipt, processed : Receipt,
              stored : Receipt, applied : Receipt,
              pending : [local_revision : Nat, batch : Batch], state : State]
ConnState == [phase : {"idle", "hello", "hello_back", "export", "delta", "ack", "wait"},
              client : Node \cup {0}, listener : Node \cup {0}, back : BOOLEAN,
              cut : SUBSET Node, received : Receipt, processed : Receipt,
              cursor : Receipt, back_cursor : Receipt, batch : Batch]
InboxState == [records : [Key -> Clock], receipts : [Node -> Receipt], done : BOOLEAN]

TypeOK ==
  /\ scope \in Scopes
  /\ records \in [Node -> [Key -> Clock]]
  /\ revision \in [Node -> Nat]
  /\ sequence \in [Node -> [Key -> Nat]]
  /\ \A n \in Node, k \in Key : sequence[n][k] <= revision[n]
  /\ origin \in [Node -> [Key -> Node \cup {0}]]
  /\ peer \in [Node -> [Node -> PeerState]]
  /\ \A n, p \in Node :
       /\ peer[n][p].incarnation <= minted
       /\ peer[n][p].bootstrapped <=> peer[n][p].received # NoReceipt
  /\ conn \in [Slot -> ConnState]
  /\ inbox \in [Node -> InboxState]
  /\ app \in [Node -> [Key -> Clock]]
  /\ minted \in 1 .. scope.incarnations
  /\ joining \in [Node -> [Node -> BOOLEAN]]

Init ==
  /\ scope \in Scopes
  /\ records = [n \in Node |-> [k \in Key |-> Absent]]
  /\ revision = [n \in Node |-> 0]
  /\ sequence = [n \in Node |-> [k \in Key |-> 0]]
  /\ origin = [n \in Node |-> [k \in Key |-> 0]]
  /\ peer = [n \in Node |-> [p \in Node |-> Enrolled(1)]]
  /\ conn = [s \in Slot |-> Idle]
  /\ inbox = [n \in Node |-> NoInbox]
  /\ app = [n \in Node |-> [k \in Key |-> Absent]]
  /\ minted = 1
  /\ joining = [n \in Node |-> [p \in Node |-> FALSE]]

-----------------------------------------------------------------------------
(* Operations on one journal *)

\* receipt.rs mint and verify
Mint(n, p) == [epoch |-> n, sequence |-> revision[n], proof |-> peer[n][p].incarnation]
Verify(n, p, r) ==
  /\ ~peer[n][p].revoked
  /\ r.epoch = n
  /\ r.sequence <= revision[n]
  /\ r.proof = peer[n][p].incarnation

\* The newer of two receipts by the rule every handler applies.
Advance(old, new) ==
  IF old.epoch # new.epoch \/ new.sequence > old.sequence THEN new ELSE old

\* The records export selects for p: all, or those after the cursor that did
\* not come from p.
Selected(n, p, cursor) ==
  LET full == cursor.epoch # n \/ cursor.sequence > revision[n]
  IN [k \in Key |->
        IF full \/ (sequence[n][k] > cursor.sequence /\ origin[n][k] # p)
        THEN records[n][k] ELSE Absent]

Empty(batch) == \A k \in Key : batch[k] = Absent

\* RecordsAdapter::prepare and commit_records: the later write of each record;
\* every record that changes takes the next revision, in key order.
Merge(n, batch, from) ==
  LET merged == [k \in Key |-> Later(records[n][k], batch[k])]
      changed == {k \in Key : merged[k] # records[n][k]}
  IN /\ records' = [records EXCEPT ![n] = merged]
     /\ revision' = [revision EXCEPT ![n] = @ + Cardinality(changed)]
     /\ sequence' = [sequence EXCEPT ![n] = [k \in Key |->
          IF k \in changed
          THEN revision[n] + Cardinality({j \in changed : j <= k})
          ELSE sequence[n][k]]]
     /\ origin' = [origin EXCEPT ![n] = [k \in Key |->
          IF k \in changed THEN from ELSE origin[n][k]]]

\* network.rs check, but for the generation: `cut` stands for the threads the
\* remover of a peer has joined.
Check(s, n, p) ==
  /\ n \notin conn[s].cut
  /\ ~peer[n][p].revoked
  /\ peer[n][p].state # "paused"

\* Mutant of Learn: processing evidence counts as durable storage only.
LearnStored(n, p, r) ==
  IF Verify(n, p, r) THEN [peer[n][p] EXCEPT !.stored = Advance(@, r)] ELSE peer[n][p]

\* authenticate: proven processing evidence advances Stored and Applied.
Learn(n, p, r) ==
  IF Verify(n, p, r)
  THEN [peer[n][p] EXCEPT !.stored = Advance(@, r), !.applied = Advance(@, r)]
  ELSE peer[n][p]

\* authenticate: "Unproven cursor hints can never suppress authoritative data."
Proven(n, p, r) == IF Verify(n, p, r) THEN r ELSE NoReceipt

-----------------------------------------------------------------------------
(* The application *)

\* Session::set or delete: the application holds what it writes.
Write(n, k) ==
  \E counter \in 1 .. scope.counter :
    /\ n \in scope.writers
    /\ \A j \in Key : records[n][j][1] < counter
    /\ counter = 1 \/ \E j \in Key : records[n][j][1] = counter - 1
    /\ Merge(n, [j \in Key |-> IF j = k THEN <<counter, n>> ELSE Absent], 0)
    /\ app' = [app EXCEPT ![n][k] = <<counter, n>>]
    /\ UNCHANGED <<peer, conn, inbox, minted, joining, scope>>

\* application_inbox: records and the receipts they represent, in one lock.
Capture(n) ==
  /\ inbox' = [inbox EXCEPT ![n] =
       [records |-> records[n], done |-> FALSE,
        receipts |-> [p \in Node |-> IF peer[n][p].revoked THEN NoReceipt
                                     ELSE peer[n][p].received]]]
  /\ n \in scope.apps
  /\ inbox[n] = NoInbox
  /\ inbox'[n] # NoInbox
  /\ UNCHANGED <<store, peer, conn, app, minted, joining, scope>>

\* The application commits the snapshot in a transaction of its own.
Process(n) ==
  /\ inbox[n] # NoInbox
  /\ ~inbox[n].done
  /\ app' = [app EXCEPT ![n] = [k \in Key |-> Later(@[k], inbox[n].records[k])]]
  /\ inbox' = [inbox EXCEPT ![n].done = TRUE]
  /\ UNCHANGED <<store, peer, conn, minted, joining, scope>>

\* Mutant of Acknowledge: what has been received since is acknowledged too.
AcknowledgeLatest(n) ==
  /\ inbox[n].done
  /\ inbox' = [inbox EXCEPT ![n] = NoInbox]
  /\ peer' = [peer EXCEPT ![n] = [p \in Node |-> [peer[n][p] EXCEPT
       !.processed = IF inbox[n].receipts[p] = NoReceipt THEN peer[n][p].processed
                     ELSE Advance(peer[n][p].processed, peer[n][p].received)]]]
  /\ UNCHANGED <<store, conn, app, minted, joining, scope>>

\* acknowledge_inbox: all receipts are within what was received, or none counts.
Acknowledge(n) ==
  LET listed == {p \in Node : inbox[n].receipts[p] # NoReceipt}
  IN /\ inbox[n].done
     /\ inbox' = [inbox EXCEPT ![n] = NoInbox]
     /\ peer' =
          IF \A p \in listed :
               /\ ~peer[n][p].revoked
               /\ peer[n][p].received.epoch = inbox[n].receipts[p].epoch
               /\ inbox[n].receipts[p].sequence <= peer[n][p].received.sequence
          THEN [peer EXCEPT ![n] = [p \in Node |->
                  IF p \in listed
                  THEN [peer[n][p] EXCEPT !.processed =
                         Advance(peer[n][p].processed, inbox[n].receipts[p])]
                  ELSE peer[n][p]]]
          ELSE peer
     /\ UNCHANGED <<store, conn, app, minted, joining, scope>>

-----------------------------------------------------------------------------
(* One exchange *)

\* outbound: hello with the cursor and evidence of the scheduler's copy.
Hello(s, c, l) ==
  /\ s \in scope.slots
  /\ conn[s] = Idle
  /\ c # l
  /\ ~peer[c][l].revoked
  /\ peer[c][l].state # "paused"
  /\ conn' = [conn EXCEPT ![s] =
       [Idle EXCEPT !.phase = "hello", !.client = c, !.listener = l,
                    !.received = peer[c][l].received,
                    !.processed = peer[c][l].processed]]
  /\ UNCHANGED <<store, peer, inbox, app, minted, joining, scope>>

\* inbound: authenticate, then the listener's own hello.
AcceptHello(s) ==
  LET c == conn[s].client
      l == conn[s].listener
  IN /\ conn[s].phase = "hello"
     /\ Check(s, l, c)
     /\ peer' = [peer EXCEPT ![l][c] = Learn(l, c, conn[s].processed)]
     /\ conn' = [conn EXCEPT ![s] =
          [@ EXCEPT !.phase = "hello_back",
                    !.back_cursor = Proven(l, c, conn[s].received),
                    !.received = peer[l][c].received,
                    !.processed = peer[l][c].processed]]
     /\ UNCHANGED <<store, inbox, app, minted, joining, scope>>

AuthenticateListener(s) ==
  LET c == conn[s].client
      l == conn[s].listener
  IN /\ conn[s].phase = "hello_back"
     /\ Check(s, c, l)
     /\ peer' = [peer EXCEPT ![c][l] = Learn(c, l, conn[s].processed)]
     /\ conn' = [conn EXCEPT ![s] =
          [@ EXCEPT !.phase = "export", !.cursor = Proven(c, l, conn[s].received),
                    !.received = NoReceipt, !.processed = NoReceipt]]
     /\ UNCHANGED <<store, inbox, app, minted, joining, scope>>

\* First the client sends its batch and reads the receipt, then the listener;
\* the listener's export commutes with the client reading its receipt.
Sender(s) == IF conn[s].back THEN conn[s].listener ELSE conn[s].client
Receiver(s) == IF conn[s].back THEN conn[s].client ELSE conn[s].listener

\* export and the first half of send_batch (`transmitted` is only reported)
Export(s) ==
  LET n == Sender(s)
      p == Receiver(s)
      cursor == conn[s].cursor
      batch == [checkpoint |-> Mint(n, p), records |-> Selected(n, p, cursor),
                full |-> cursor.epoch # n \/ cursor.sequence > revision[n]]
  IN /\ conn[s].phase = "export"
     /\ Check(s, n, p)
     /\ conn' = [conn EXCEPT ![s] =
          [@ EXCEPT !.phase = "delta", !.batch = batch, !.cursor = NoReceipt]]
     /\ UNCHANGED <<store, peer, inbox, app, minted, joining, scope>>

\* Mutant of NeedsConsent: a first merge into existing records goes ahead.
NeedsConsentNever(n, p, batch) == FALSE

\* receive_batch: the first batch from a peer and existing local records.
NeedsConsent(n, p, batch) ==
  /\ ~peer[n][p].bootstrapped
  /\ ~Empty(records[n])
  /\ ~Empty(batch.records)

\* apply: merge and remember the checkpoint, in one mutate.
Apply(n, p, batch) ==
  /\ Merge(n, batch.records, p)
  /\ peer' = [peer EXCEPT ![n][p] =
       [@ EXCEPT !.received = batch.checkpoint, !.bootstrapped = TRUE,
                 !.pending = NoPreview]]

\* Mutant of Duplicate: any batch of the same history counts as repeated.
DuplicateEpoch(n, p, batch) == peer[n][p].received.epoch = batch.checkpoint.epoch

Duplicate(n, p, batch) ==
  /\ peer[n][p].received.epoch = batch.checkpoint.epoch
  /\ peer[n][p].received.sequence >= batch.checkpoint.sequence

\* The answer names the batch by its checkpoint alone.
Answer(s, phase) ==
  conn' = [conn EXCEPT ![s] =
    [@ EXCEPT !.phase = phase,
              !.batch = [NoBatch EXCEPT !.checkpoint = conn[s].batch.checkpoint]]]

\* receive_batch: a repeated batch is acknowledged again, a first one may have
\* to wait for consent, any other is merged before it is acknowledged.
Receive(s) ==
  LET n == Receiver(s)
      p == Sender(s)
      batch == conn[s].batch
  IN /\ conn[s].phase = "delta"
     /\ Check(s, n, p)
     /\ Duplicate(n, p, batch) \/ peer[n][p].bootstrapped \/ batch.full
     /\ \/ /\ Duplicate(n, p, batch)
           /\ Answer(s, "ack")
           /\ UNCHANGED <<store, peer>>
        \/ /\ ~Duplicate(n, p, batch)
           /\ NeedsConsent(n, p, batch)
           /\ peer' = [peer EXCEPT ![n][p] =
                [@ EXCEPT !.pending = [local_revision |-> revision[n], batch |-> batch],
                          !.state = "needs_merge"]]
           /\ Answer(s, "wait")
           /\ UNCHANGED store
        \/ /\ ~Duplicate(n, p, batch)
           /\ ~NeedsConsent(n, p, batch)
           /\ Apply(n, p, batch)
           /\ Answer(s, "ack")
     /\ UNCHANGED <<inbox, app, minted, joining, scope>>

\* Where the exchange goes on once the sender has its answer.
Answered(s) ==
  conn' = [conn EXCEPT ![s] =
    IF conn[s].back THEN Idle
    ELSE [@ EXCEPT !.phase = "export", !.back = TRUE, !.batch = NoBatch,
                   !.cursor = conn[s].back_cursor, !.back_cursor = NoReceipt]]

\* send_batch: the receipt of exactly this export advances Stored.
HandleAck(s) ==
  LET n == Sender(s)
      p == Receiver(s)
      r == conn[s].batch.checkpoint
  IN /\ conn[s].phase = "ack"
     /\ Check(s, n, p)
     /\ Verify(n, p, r)
     /\ peer' = [peer EXCEPT ![n][p] =
          [@ EXCEPT !.stored = Advance(peer[n][p].stored, r),
                    !.state = IF peer[n][p].pending # NoPreview THEN "needs_merge"
                              ELSE IF /\ peer[n][p].applied.epoch = r.epoch
                                      /\ peer[n][p].applied.sequence >= r.sequence
                              THEN "up_to_date" ELSE "stored"]]
     /\ Answered(s)
     /\ UNCHANGED <<store, inbox, app, minted, joining, scope>>

\* ManagedPending leaves the sender's journal as it is.
HandlePending(s) ==
  /\ conn[s].phase = "wait"
  /\ Sender(s) \notin conn[s].cut
  /\ Answered(s)
  /\ UNCHANGED <<store, peer, inbox, app, minted, joining, scope>>

\* The connection fails, or a handler refuses: the scheduler of the client
\* sets the peer to Waiting unless it was removed.
Drop(s) ==
  LET c == conn[s].client
      l == conn[s].listener
  IN /\ conn[s].phase # "idle"
     /\ peer' = IF \/ peer[c][l].revoked
                   \/ c \in conn[s].cut
                   \/ conn[s].back /\ conn[s].phase \in {"ack", "wait"}
                THEN peer ELSE [peer EXCEPT ![c][l].state = "waiting"]
     /\ conn' = [conn EXCEPT ![s] = Idle]
     /\ UNCHANGED <<store, inbox, app, minted, joining, scope>>

-----------------------------------------------------------------------------
(* Consent, removal and repair *)

\* resolve_bootstrap(Merge): the preview must still describe this journal.
ConsentMerge(n, p) ==
  LET preview == peer[n][p].pending
  IN /\ preview # NoPreview
     /\ ~peer[n][p].revoked
     /\ preview.local_revision = revision[n]
     /\ Apply(n, p, preview.batch)
     /\ UNCHANGED <<conn, inbox, app, minted, joining, scope>>

ConsentCancel(n, p) ==
  /\ peer[n][p].pending # NoPreview
  /\ ~peer[n][p].revoked
  /\ peer[n][p].pending.local_revision = revision[n]
  /\ peer' = [peer EXCEPT ![n][p] =
       [@ EXCEPT !.pending = NoPreview, !.state = "paused"]]
  /\ UNCHANGED <<store, conn, inbox, app, minted, joining, scope>>

ResumePeer(n, p) ==
  /\ peer[n][p].state = "paused"
  /\ ~peer[n][p].revoked
  /\ peer' = [peer EXCEPT ![n][p].state = "waiting"]
  /\ UNCHANGED <<store, conn, inbox, app, minted, joining, scope>>

\* random_id: an incarnation nobody has had.
Draw == minted < scope.incarnations /\ minted' = minted + 1

\* remove_peer: the entry is revoked and the threads of n are joined, which
\* leaves what n has already sent on its way to p.
RemovePeer(n, p) ==
  /\ n # p
  /\ ~peer[n][p].revoked
  /\ Draw
  /\ peer' = [peer EXCEPT ![n][p] =
       [@ EXCEPT !.revoked = TRUE, !.incarnation = minted',
                 !.state = "paused", !.pending = NoPreview]]
  /\ conn' = [s \in Slot |->
       IF n \in {conn[s].client, conn[s].listener}
       THEN [conn[s] EXCEPT !.cut = @ \cup {n}] ELSE conn[s]]
  /\ joining' = [joining EXCEPT ![n] = [q \in Node |-> FALSE]]
  /\ UNCHANGED <<store, inbox, app, scope>>

\* repair_peer with p's invitation.  p commits the enrollment first (a fresh
\* enrollment resets an existing entry) ...
RepairHost(n, p) ==
  /\ peer[n][p].revoked
  /\ ~peer[p][n].revoked
  /\ Draw
  /\ peer' = [peer EXCEPT ![p][n] = Enrolled(minted')]
  /\ joining' = [joining EXCEPT ![n][p] = TRUE]
  /\ UNCHANGED <<store, conn, inbox, app, scope>>

\* ... and n once it has heard so, or never.
RepairJoin(n, p) ==
  /\ joining[n][p]
  /\ Draw
  /\ peer' = [peer EXCEPT ![n][p] = Enrolled(minted')]
  /\ joining' = [joining EXCEPT ![n][p] = FALSE]
  /\ UNCHANGED <<store, conn, inbox, app, scope>>

-----------------------------------------------------------------------------

Exchange(s) ==
  \/ AcceptHello(s) \/ AuthenticateListener(s) \/ Export(s) \/ Receive(s)
  \/ HandleAck(s) \/ HandlePending(s)

Next ==
  \/ \E n \in Node, k \in Key : Write(n, k)
  \/ \E n \in Node : Capture(n) \/ Process(n) \/ Acknowledge(n)
  \/ \E s \in Slot, c, l \in Node : Hello(s, c, l)
  \/ \E s \in Slot : Exchange(s)
  \/ \E s \in Slot : Drop(s)
  \/ \E n, p \in Node : ConsentMerge(n, p)
  \/ \E n, p \in Node : ConsentCancel(n, p)
  \/ \E n, p \in Node : ResumePeer(n, p)
  \/ \E n, p \in Node : RemovePeer(n, p)
  \/ \E n, p \in Node : RepairHost(n, p)
  \/ \E n, p \in Node : RepairJoin(n, p)

Spec == Init /\ [][Next]_vars

\* A connection fails although a handler would have gone on with it.
Loss(s) == ENABLED Exchange(s) /\ Drop(s) /\ ~Exchange(s)

\* Schedulers go on contacting peers, and a connection nobody goes on with times
\* out; connections eventually stop being lost; the user answers previews and
\* resumes peers; applications process their inbox.
Fairness ==
  /\ \A s \in Slot :
       WF_vars((\E c, l \in Node : Hello(s, c, l)) \/ Exchange(s) \/ Drop(s))
  /\ <>[][\A s \in Slot : ~Loss(s)]_vars
  /\ \A n, p \in Node : SF_vars(ConsentMerge(n, p)) /\ WF_vars(ResumePeer(n, p))
  /\ \A n \in Node : WF_vars(Capture(n)) /\ WF_vars(Process(n)) /\ WF_vars(Acknowledge(n))

FairSpec == Spec /\ Fairness

-----------------------------------------------------------------------------
(* Properties *)

Covers(x, y) == \A k \in Key : ~Less(x[k], y[k])

\* pending(): the records p is still to be sent
PendingFor(n, p) ==
  LET stored == peer[n][p].stored
  IN {k \in Key :
        \/ records[n][k] # Absent /\ (stored.epoch # n \/ stored.sequence > revision[n])
        \/ sequence[n][k] > stored.sequence /\ origin[n][k] # p}

\* Mutant of Status: pending changes do not show.
StatusIgnoresPending(n, p) ==
  IF peer[n][p].revoked THEN "paused"
  ELSE IF peer[n][p].pending # NoPreview THEN "needs_merge" ELSE peer[n][p].state

\* snapshot(): what the application is shown
Status(n, p) ==
  IF peer[n][p].revoked THEN "paused"
  ELSE IF peer[n][p].pending # NoPreview THEN "needs_merge"
  ELSE IF PendingFor(n, p) # {} /\ peer[n][p].state = "up_to_date" THEN "waiting"
  ELSE peer[n][p].state

\* "No preview receipt clears the sender's pending changes": once nothing is
\* pending for p, p durably holds all n has, whatever was cut off or repeated.
PendingTruthful ==
  \A n, p \in Node : n # p /\ ~peer[n][p].revoked /\ PendingFor(n, p) = {} =>
    Covers(records[p], records[n])

\* An Applied receipt stands for records the application of p has committed,
\* however late its acknowledgement arrives.
AppliedTruthful ==
  \A n, p \in Node : n # p /\ peer[n][p].applied.epoch = n =>
    \A k \in Key : sequence[n][k] <= peer[n][p].applied.sequence =>
      ~Less(app[p][k], records[n][k])

\* A record of a third device that n has from p: p's application may not have
\* taken it up yet, and it is no change of n's to confirm.
Relayed(n, p, k) == origin[n][k] = p /\ records[n][k][2] \notin {n, p}

\* "Up to date - device confirmed applied changes": a peer shown as up to date
\* holds what n has, and its application has committed all but what p itself
\* passed on from others.  HandleAck compares the applied receipt with the
\* acknowledged batch and not with the last one stored, so an exchange that
\* overlaps another of the same pair can show it too early.
UpToDateConfirmed ==
  \A n, p \in Node : n # p /\ Status(n, p) = "up_to_date" =>
    /\ Covers(records[p], records[n])
    /\ \A k \in Key : ~Relayed(n, p, k) => ~Less(app[p][k], records[n][k])

\* Exchanges follow each other.
OneAtATime == \A s, t \in scope.slots : s = t

\* As long as exchanges follow each other, a peer shown as up to date has
\* everything, in its store and in its app, whatever was cut off or came late.
UpToDateTruthful == OneAtATime => UpToDateConfirmed

\* "When both devices already have records, incoming candidates remain
\* encrypted and staged": an exchange never merges a peer's records into
\* existing ones before the user has agreed to merge with that peer.
ConsentRespected ==
  [][\A n, p \in Node, k \in Key :
       /\ records'[n][k] # records[n][k]
       /\ origin'[n][k] = p
       /\ ~Empty(records[n])
       => peer[n][p].bootstrapped \/ peer[n][p].pending # NoPreview]_vars

\* Once edits stop, the devices and the applications hold the same records, and
\* the sources know it.
Settled ==
  \A n, p \in Node : n # p =>
    /\ records[n] = records[p]
    /\ p \in scope.apps => app[p] = records[p] /\ Status(n, p) = "up_to_date"
Settles == <>[]Settled

\* "stale processing proofs cannot advance Applied and do not prevent recovery":
\* devices that stay enrolled settle, whatever proofs of an earlier enrollment
\* an application still hands in.
Recovers ==
  <>[](\A n, p \in Node : ~peer[n][p].revoked) => Settles
=============================================================================
