---------------------------- MODULE SessionJournal ----------------------------
(***************************************************************************)
(* The encrypted journal of a managed Session                              *)
(* (crates/libresync/src/session/mod.rs open and mutate, store.rs,         *)
(* lease.rs): every mutation is a durable transaction of two saves when it *)
(* changes records and of one when it does not.  Saves fail, processes are *)
(* killed and the machine loses power between any two file operations.     *)
(*                                                                         *)
(* The content of a journal is abstracted to two counters: `rev` for the   *)
(* records, `meta` for peers, receipts and the rest of the envelope.       *)
(***************************************************************************)
EXTENDS Integers

CONSTANTS
  Process,  \* processes that open the same state directory
  Thread,   \* threads of one process
  MaxRev,   \* bound: mutations of records
  MaxMeta   \* bound: mutations of the rest

Nobody == "nobody"

ASSUME JournalConstants == MaxRev \in Nat /\ MaxMeta \in Nat /\ Nobody \notin Process

Value == [rev : 0 .. MaxRev, meta : 0 .. MaxMeta]
None == [rev |-> -1, meta |-> -1]
\* Envelope: its value and the target of a prepared transaction
Envelope == [rev : 0 .. MaxRev, meta : 0 .. MaxMeta, prepared : Value \cup {None}]
NoFile == [rev |-> -1, meta |-> -1, prepared |-> None]

VARIABLES
  bundle,     \* the secure store holds the identity bundle
  cached,     \* session.enc as the running system shows it
  durable,    \* session.enc as a power loss may leave it
  lease,      \* process that holds session.lock
  session,    \* session[p]: "closed", "opening" or "open"
  current,    \* current[p]: the envelope in memory
  candidate,  \* candidate[p]: the value the lock holder is committing
  uncertain,  \* uncertain[p]: storage_uncertain
  pc,         \* pc[p][t]: thread t of p in mutate
  save,       \* save[p]: progress of store::save
  promised    \* what callers and peers have been told is stored

files == <<bundle, cached, durable>>
vars == <<bundle, cached, durable, lease, session, current, candidate,
          uncertain, pc, save, promised>>

Plain(v) == [rev |-> v.rev, meta |-> v.meta, prepared |-> None]
ValueOf(e) == [rev |-> e.rev, meta |-> e.meta]
Zero == [rev |-> 0, meta |-> 0]

ThreadPC == {"idle", "entered", "prepare", "commit"}
SavePC == {"none", "write", "rename", "sync", "done", "failed"}

TypeOK ==
  /\ bundle \in BOOLEAN
  /\ cached \in Envelope \cup {NoFile}
  /\ durable \in Envelope \cup {NoFile}
  /\ lease \in Process \cup {Nobody}
  /\ session \in [Process -> {"closed", "opening", "open"}]
  /\ current \in [Process -> Envelope]
  /\ candidate \in [Process -> Value]
  /\ uncertain \in [Process -> BOOLEAN]
  /\ pc \in [Process -> [Thread -> ThreadPC]]
  /\ save \in [Process -> SavePC]
  /\ promised \in Value

Init ==
  /\ bundle = FALSE
  /\ cached = NoFile
  /\ durable = NoFile
  /\ lease = Nobody
  /\ session = [p \in Process |-> "closed"]
  /\ current = [p \in Process |-> Plain(Zero)]
  /\ candidate = [p \in Process |-> Zero]
  /\ uncertain = [p \in Process |-> FALSE]
  /\ pc = [p \in Process |-> [t \in Thread |-> "idle"]]
  /\ save = [p \in Process |-> "none"]
  /\ promised = Zero

-----------------------------------------------------------------------------
(* store::save *)

Inside == {"prepare", "commit"}
Holds(p, t) == pc[p][t] \in Inside
Free(p) == \A t \in Thread : ~Holds(p, t)

\* What the save under way in p writes.
Saving(p) ==
  IF \E t \in Thread : pc[p][t] = "prepare"
  THEN [current[p] EXCEPT !.prepared = candidate[p]]
  ELSE IF session[p] = "opening" THEN current[p] ELSE Plain(candidate[p])

\* The temporary file is written and synced.
WriteTemp(p) ==
  /\ save[p] = "write"
  /\ save' = [save EXCEPT ![p] = "rename"]
  /\ UNCHANGED <<files, lease, session, current, candidate, uncertain, pc, promised>>

\* Mutant of Rename: the old journal is removed before the new one is renamed.
RenameRemovesFirst(p) ==
  /\ save[p] = "rename"
  /\ cached' = IF cached = NoFile THEN Saving(p) ELSE NoFile
  /\ save' = [save EXCEPT ![p] = IF cached = NoFile THEN "sync" ELSE "rename"]
  /\ UNCHANGED <<bundle, durable, lease, session, current, candidate, uncertain,
                 pc, promised>>

Rename(p) ==
  /\ save[p] = "rename"
  /\ cached' = Saving(p)
  /\ save' = [save EXCEPT ![p] = "sync"]
  /\ UNCHANGED <<bundle, durable, lease, session, current, candidate, uncertain,
                 pc, promised>>

SyncDirectory(p) ==
  /\ save[p] = "sync"
  /\ durable' = cached
  /\ save' = [save EXCEPT ![p] = "done"]
  /\ UNCHANGED <<bundle, cached, lease, session, current, candidate, uncertain,
                 pc, promised>>

SaveFails(p) ==
  /\ save[p] \in {"write", "rename", "sync"}
  /\ save' = [save EXCEPT ![p] = "failed"]
  /\ UNCHANGED <<files, lease, session, current, candidate, uncertain, pc, promised>>

-----------------------------------------------------------------------------
(* Session::open *)

\* recover_transaction: a prepared transaction is completed.
Recovered(e) == IF e.prepared = None THEN e ELSE Plain(e.prepared)

\* Lease, identity bundle, load and recovery; the result is saved before the
\* session is handed out.  An identity that is missing beside data is an error.
Open(p) ==
  /\ session[p] = "closed"
  /\ lease = Nobody
  /\ bundle \/ cached = NoFile
  /\ lease' = p
  /\ bundle' = TRUE
  /\ session' = [session EXCEPT ![p] = "opening"]
  /\ current' = [current EXCEPT ![p] =
       IF cached = NoFile THEN Plain(Zero) ELSE Recovered(cached)]
  /\ save' = [save EXCEPT ![p] = "write"]
  /\ UNCHANGED <<cached, durable, candidate, uncertain, pc, promised>>

Opened(p) ==
  /\ session[p] = "opening"
  /\ save[p] = "done"
  /\ session' = [session EXCEPT ![p] = "open"]
  /\ save' = [save EXCEPT ![p] = "none"]
  /\ promised' = ValueOf(current[p])
  /\ UNCHANGED <<files, lease, current, candidate, uncertain, pc>>

\* The process is gone, its threads and its lease with it.
Gone(P) ==
  /\ session' = [p \in Process |-> IF p \in P THEN "closed" ELSE session[p]]
  /\ pc' = [p \in Process |-> IF p \in P THEN [t \in Thread |-> "idle"] ELSE pc[p]]
  /\ save' = [p \in Process |-> IF p \in P THEN "none" ELSE save[p]]
  /\ current' = [p \in Process |-> IF p \in P THEN Plain(Zero) ELSE current[p]]
  /\ candidate' = [p \in Process |-> IF p \in P THEN Zero ELSE candidate[p]]
  /\ uncertain' = [p \in Process |-> p \notin P /\ uncertain[p]]
  /\ lease' = IF lease \in P THEN Nobody ELSE lease

OpenFails(p) ==
  /\ session[p] = "opening"
  /\ save[p] = "failed"
  /\ Gone({p})
  /\ UNCHANGED <<files, promised>>

\* The owner drops the Session once its threads are done with it.
Close(p) ==
  /\ session[p] = "open"
  /\ \A t \in Thread : pc[p][t] = "idle"
  /\ Gone({p})
  /\ UNCHANGED <<files, promised>>

Kill(p) ==
  /\ session[p] # "closed"
  /\ Gone({p})
  /\ UNCHANGED <<files, promised>>

\* Of a rename that was not synced, either name may be found afterwards.
PowerLoss ==
  /\ cached' \in {cached, durable}
  /\ durable' = cached'
  /\ Gone(Process)
  /\ UNCHANGED <<bundle, promised>>

-----------------------------------------------------------------------------
(* Inner::mutate *)

Enter(p, t) ==
  /\ session[p] = "open"
  /\ pc[p][t] = "idle"
  /\ ~uncertain[p]
  /\ pc' = [pc EXCEPT ![p][t] = "entered"]
  /\ UNCHANGED <<files, lease, session, current, candidate, uncertain, save, promised>>

\* The operation fails or leaves the envelope as it is, or a writer has fenced
\* the storage while this one waited for the lock.
ReturnEarly(p, t) ==
  /\ pc[p][t] = "entered"
  /\ Free(p)
  /\ pc' = [pc EXCEPT ![p][t] = "idle"]
  /\ UNCHANGED <<files, lease, session, current, candidate, uncertain, save, promised>>

\* Mutant of Begin: storage_uncertain is not read again under the lock.
BeginUnfenced(p, t, v) ==
  /\ pc[p][t] = "entered"
  /\ Free(p)
  /\ v.rev >= current[p].rev /\ v.meta >= current[p].meta
  /\ v # ValueOf(current[p])
  /\ candidate' = [candidate EXCEPT ![p] = v]
  /\ pc' = [pc EXCEPT ![p][t] = IF v.rev # current[p].rev THEN "prepare" ELSE "commit"]
  /\ save' = [save EXCEPT ![p] = "write"]
  /\ UNCHANGED <<files, lease, session, current, uncertain, promised>>

\* The operation makes a candidate.  (mutate would first complete a prepared
\* transaction it finds in memory; by PreparedIsFenced there is none.)
Begin(p, t, v) ==
  /\ pc[p][t] = "entered"
  /\ Free(p)
  /\ ~uncertain[p]
  /\ v.rev >= current[p].rev /\ v.meta >= current[p].meta
  /\ v # ValueOf(current[p])
  /\ candidate' = [candidate EXCEPT ![p] = v]
  /\ pc' = [pc EXCEPT ![p][t] = IF v.rev # current[p].rev THEN "prepare" ELSE "commit"]
  /\ save' = [save EXCEPT ![p] = "write"]
  /\ UNCHANGED <<files, lease, session, current, uncertain, promised>>

\* The prepared transaction is durable: now the candidate itself.
Prepared(p, t) ==
  /\ pc[p][t] = "prepare"
  /\ save[p] = "done"
  /\ current' = [current EXCEPT ![p].prepared = candidate[p]]
  /\ pc' = [pc EXCEPT ![p][t] = "commit"]
  /\ save' = [save EXCEPT ![p] = "write"]
  /\ UNCHANGED <<files, lease, session, candidate, uncertain, promised>>

\* Mutant of Committed: the caller is answered before the directory is synced.
CommittedEarly(p, t) ==
  /\ pc[p][t] = "commit"
  /\ save[p] \in {"sync", "done"}
  /\ current' = [current EXCEPT ![p] = Plain(candidate[p])]
  /\ promised' = candidate[p]
  /\ pc' = [pc EXCEPT ![p][t] = "idle"]
  /\ save' = [save EXCEPT ![p] = "none"]
  /\ UNCHANGED <<files, lease, session, candidate, uncertain>>

Committed(p, t) ==
  /\ pc[p][t] = "commit"
  /\ save[p] = "done"
  /\ current' = [current EXCEPT ![p] = Plain(candidate[p])]
  /\ promised' = candidate[p]
  /\ pc' = [pc EXCEPT ![p][t] = "idle"]
  /\ save' = [save EXCEPT ![p] = "none"]
  /\ UNCHANGED <<files, lease, session, candidate, uncertain>>

\* save_candidate: the outcome is unknown, so the session stops writing.
SaveFailed(p, t) ==
  /\ Holds(p, t)
  /\ save[p] = "failed"
  /\ uncertain' = [uncertain EXCEPT ![p] = TRUE]
  /\ pc' = [pc EXCEPT ![p][t] = "idle"]
  /\ save' = [save EXCEPT ![p] = "none"]
  /\ UNCHANGED <<files, lease, session, current, candidate, promised>>

-----------------------------------------------------------------------------

Next ==
  \/ \E p \in Process :
       \/ WriteTemp(p) \/ Rename(p) \/ SyncDirectory(p) \/ SaveFails(p)
       \/ Open(p) \/ Opened(p) \/ OpenFails(p) \/ Close(p) \/ Kill(p)
  \/ \E p \in Process, t \in Thread :
       \/ Enter(p, t) \/ ReturnEarly(p, t)
       \/ \E v \in Value : Begin(p, t, v)
       \/ Prepared(p, t) \/ Committed(p, t) \/ SaveFailed(p, t)
  \/ PowerLoss

Spec == Init /\ [][Next]_vars

-----------------------------------------------------------------------------
(* Properties *)

Covers(e, v) == e # NoFile /\ Recovered(e).rev >= v.rev /\ Recovered(e).meta >= v.meta

\* MANAGED-SESSION.md: the coordinator saves "and only then acknowledges
\* storage": whichever journal a crash leaves behind, recovery finds all that
\* a caller or a peer has been told.
AcknowledgedDurable ==
  promised # Zero => Covers(cached, promised) /\ Covers(durable, promised)

\* "publishes no failed candidate": what readers of an open session can see
\* (they wait for the lock) survives a crash, also after a failed save.
VisibleDurable ==
  \A p \in Process : session[p] = "open" /\ Free(p) =>
    Covers(cached, current[p]) /\ Covers(durable, current[p])

\* "refuses further mutations": after an uncertain save nothing is written
\* until the session is opened again, not by threads that wait for the lock
\* either; a prepared transaction is left to recovery alone.
PreparedIsFenced ==
  \A p \in Process :
    /\ uncertain[p] => Free(p) /\ save[p] # "sync"
    /\ session[p] = "open" /\ Free(p) /\ current[p].prepared # None => uncertain[p]

\* "it never creates a replacement identity": data without its identity is
\* never left behind, so a directory can always be opened again.
DataHasIdentity == cached # NoFile \/ durable # NoFile => bundle

-----------------------------------------------------------------------------
(* The inductive invariant behind them *)

AtMost(v, w) == v.rev <= w.rev /\ v.meta <= w.meta

\* p has nothing in memory: no thread, no lock, no save.
Shut(p) ==
  /\ session[p] = "closed" /\ save[p] = "none" /\ ~uncertain[p]
  /\ \A t \in Thread : pc[p][t] = "idle"

\* p has recovered a journal and is saving it, before any thread has it.
Starting(p) ==
  /\ session[p] = "opening" /\ save[p] # "none" /\ ~uncertain[p]
  /\ \A t \in Thread : pc[p][t] = "idle"
  /\ current[p].prepared = None

\* p's journal can be read and what is read is on disk; at most one thread is
\* changing it, and only while no save is uncertain.
AtRest(p) ==
  /\ save[p] = "none" /\ Free(p)
  /\ current[p].prepared # None => uncertain[p]

Changing(p, t) ==
  /\ Holds(p, t) /\ \A u \in Thread : Holds(p, u) => u = t
  /\ save[p] # "none" /\ ~uncertain[p]
  /\ AtMost(current[p], candidate[p])

Up(p) ==
  /\ session[p] = "open"
  /\ Covers(cached, current[p]) /\ Covers(durable, current[p])
  /\ AtRest(p) \/ \E t \in Thread : Changing(p, t)

\* How far a save has come determines what is on disk.
Progress(p) ==
  /\ save[p] \in {"sync", "done"} => cached = Saving(p)
  /\ save[p] = "done" => durable = cached

\* Only the holder of the lease has a journal in memory, at least as new as
\* what anybody has been told.
Owner(p) == lease = p /\ AtMost(promised, current[p]) /\ Progress(p)

IInv ==
  /\ TypeOK
  /\ AcknowledgedDurable
  /\ DataHasIdentity
  /\ \A p \in Process :
       \/ Shut(p)
       \/ (Starting(p) \/ Up(p)) /\ Owner(p) /\ bundle
=============================================================================
