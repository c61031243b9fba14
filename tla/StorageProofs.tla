---------------------------- MODULE StorageProofs ----------------------------
(***************************************************************************)
(* Proofs about what a device stores, for any values of the constants of   *)
(* MCStorage; records, tables and databases are in DataProofs.             *)
(*                                                                         *)
(* The session journal: what it keeps through failed saves, kills and      *)
(* power losses, for any number of processes, threads and mutations.       *)
(*                                                                         *)
(* The companion manager: removals and keys keep their promises whatever   *)
(* overlaps, fails, is killed or loses power, and the last backup reported *)
(* is kept or as many later ones are; that only registered sessions run    *)
(* needs device commands to run alone.                                     *)
(*                                                                         *)
(* Linking, as long as no device takes part in two links at once: whatever *)
(* breaks, is declined, unlinked or replaced, two devices that linked last *)
(* with each other can sync.  The invariant adds what a link under way has *)
(* already settled: from the confirmation on the listener pins the caller, *)
(* from set_app_key on both have the caller's key, so the answer never     *)
(* replaces that one.                                                      *)
(*                                                                         *)
(* Key storage: processes that use a store one at a time are handed one    *)
(* key and one pair for good, killed or refused at any step, as long as    *)
(* the power lasts.                                                        *)
(*                                                                         *)
(* The command line: one process at a time, listener and watch included,   *)
(* keeps one key for all it has sealed; without watch, what was stored     *)
(* stays, as whoever saves the state has opened all of it.                 *)
(***************************************************************************)
EXTENDS MCStorage, DataProofs, TLAPS, FiniteSetTheorems

-----------------------------------------------------------------------------
(* Values and envelopes *)

\* NoFile and None are no values, and plain envelopes recover to themselves.
LEMMA Envelopes ==
  /\ None \notin Value
  /\ NoFile \notin Envelope
  /\ Zero \in Value
  /\ \A v \in Value : Plain(v) \in Envelope /\ Recovered(Plain(v)) = Plain(v)
                      /\ Plain(v).rev = v.rev /\ Plain(v).meta = v.meta
                      /\ Plain(v).prepared = None /\ ValueOf(Plain(v)) = v
<1>1. 0 \in 0 .. MaxRev /\ 0 \in 0 .. MaxMeta /\ -1 \notin 0 .. MaxRev
  BY JournalConstants
<1>2. None \notin Value
  BY <1>1 DEF None, Value
<1>3. NoFile \notin Envelope
  BY <1>1 DEF NoFile, Envelope
<1>4. Zero \in Value
  BY <1>1 DEF Zero, Value
<1>5. ASSUME NEW v \in Value
      PROVE  Plain(v) \in Envelope /\ Recovered(Plain(v)) = Plain(v)
             /\ Plain(v).rev = v.rev /\ Plain(v).meta = v.meta
             /\ Plain(v).prepared = None /\ ValueOf(Plain(v)) = v
  BY DEF Plain, Envelope, Value, Recovered, ValueOf
<1> QED
  BY <1>2, <1>3, <1>4, <1>5

\* Recovering an envelope yields an envelope without a prepared transaction.
LEMMA RecoveredPlain ==
  ASSUME NEW e \in Envelope
  PROVE  Recovered(e) \in Envelope /\ Recovered(e).prepared = None
<1>1. CASE e.prepared = None
  BY <1>1 DEF Recovered
<1>2. CASE e.prepared # None
  <2>1. e.prepared \in Value
    BY <1>2 DEF Envelope
  <2> QED
    BY <2>1, <1>2, Envelopes DEF Recovered
<1> QED
  BY <1>1, <1>2

\* An envelope with a prepared transaction is as good as its target.
LEMMA PreparedCovers ==
  ASSUME NEW e \in Envelope, NEW v \in Value
  PROVE  /\ [e EXCEPT !.prepared = v] \in Envelope
         /\ [e EXCEPT !.prepared = v].rev = e.rev
         /\ [e EXCEPT !.prepared = v].meta = e.meta
         /\ Recovered([e EXCEPT !.prepared = v]) = Plain(v)
<1>1. [e EXCEPT !.prepared = v].prepared = v /\ v # None
  BY Envelopes DEF Envelope
<1>2. Recovered([e EXCEPT !.prepared = v]) = Plain(v)
  BY <1>1 DEF Recovered
<1>3. [e EXCEPT !.prepared = v] \in Envelope
  BY DEF Envelope
<1> QED
  BY <1>2, <1>3 DEF Envelope

\* What covers a value covers what is older.
LEMMA CoversOlder ==
  ASSUME NEW e \in Envelope \cup {NoFile}, NEW v, NEW w,
         Covers(e, w), AtMost(v, w),
         v.rev \in Int, v.meta \in Int, w.rev \in Int, w.meta \in Int
  PROVE  Covers(e, v)
<1>1. e \in Envelope
  BY DEF Covers
<1>2. Recovered(e).rev \in Int /\ Recovered(e).meta \in Int
  BY <1>1, RecoveredPlain DEF Envelope
<1> QED
  BY <1>2 DEF Covers, AtMost

-----------------------------------------------------------------------------
(* Type correctness *)

\* What is saved is an envelope.
LEMMA SavingType ==
  ASSUME TypeOK, NEW p \in Process
  PROVE  Saving(p) \in Envelope
<1>1. current[p] \in Envelope /\ candidate[p] \in Value
  BY DEF TypeOK
<1>2. [current[p] EXCEPT !.prepared = candidate[p]] \in Envelope
  BY <1>1, PreparedCovers
<1>3. Plain(candidate[p]) \in Envelope
  BY <1>1, Envelopes
<1> QED
  BY <1>1, <1>2, <1>3 DEF Saving

\* A process that ends leaves well typed state behind.
LEMMA GoneType ==
  ASSUME TypeOK, NEW P \in SUBSET Process, Gone(P)
  PROVE  /\ lease' \in Process \cup {Nobody}
         /\ session' \in [Process -> {"closed", "opening", "open"}]
         /\ current' \in [Process -> Envelope]
         /\ candidate' \in [Process -> Value]
         /\ uncertain' \in [Process -> BOOLEAN]
         /\ pc' \in [Process -> [Thread -> ThreadPC]]
         /\ save' \in [Process -> SavePC]
<1>1. Plain(Zero) \in Envelope /\ Zero \in Value
  BY Envelopes
<1>2. [t \in Thread |-> "idle"] \in [Thread -> ThreadPC] /\ "none" \in SavePC
  BY DEF ThreadPC, SavePC
<1>3. lease' \in Process \cup {Nobody}
  BY DEF TypeOK, Gone
<1>4. current' \in [Process -> Envelope] /\ candidate' \in [Process -> Value]
  BY <1>1 DEF TypeOK, Gone
<1>5. pc' \in [Process -> [Thread -> ThreadPC]] /\ save' \in [Process -> SavePC]
  BY <1>2 DEF TypeOK, Gone
<1>6. session' \in [Process -> {"closed", "opening", "open"}]
  BY DEF TypeOK, Gone
<1>7. uncertain' \in [Process -> BOOLEAN]
  <2>1. \A p \in Process : (p \notin P /\ uncertain[p]) \in BOOLEAN
    OBVIOUS
  <2> QED
    BY <2>1 DEF Gone
<1> QED
  BY <1>3, <1>4, <1>5, <1>6, <1>7

LEMMA TypeInit == Init => TypeOK
<1> SUFFICES ASSUME Init PROVE TypeOK
  OBVIOUS
<1>1. Plain(Zero) \in Envelope /\ Zero \in Value
  BY Envelopes
<1> QED
  BY <1>1 DEF Init, TypeOK, ThreadPC, SavePC

\* One step of the type invariant.
LEMMA TypeStep == TypeOK /\ [Next]_vars => TypeOK'
<1> SUFFICES ASSUME TypeOK, [Next]_vars PROVE TypeOK'
  OBVIOUS
<1> USE DEF files
<1>1. ASSUME NEW p \in Process,
             WriteTemp(p) \/ Rename(p) \/ SyncDirectory(p) \/ SaveFails(p)
      PROVE  TypeOK'
  <2>1. Saving(p) \in Envelope
    BY SavingType
  <2>2. CASE WriteTemp(p)
    BY <2>2 DEF TypeOK, WriteTemp, SavePC
  <2>3. CASE Rename(p)
    BY <2>1, <2>3 DEF TypeOK, Rename, SavePC
  <2>4. CASE SyncDirectory(p)
    BY <2>4 DEF TypeOK, SyncDirectory, SavePC
  <2>5. CASE SaveFails(p)
    BY <2>5 DEF TypeOK, SaveFails, SavePC
  <2> QED
    BY <1>1, <2>2, <2>3, <2>4, <2>5
<1>2. ASSUME NEW p \in Process, Open(p)
      PROVE  TypeOK'
  <2>1. (IF cached = NoFile THEN Plain(Zero) ELSE Recovered(cached)) \in Envelope
    BY Envelopes, RecoveredPlain DEF TypeOK
  <2> QED
    BY <1>2, <2>1 DEF TypeOK, Open, SavePC
<1>3. ASSUME NEW p \in Process, Opened(p)
      PROVE  TypeOK'
  <2>1. current[p] \in Envelope
    BY DEF TypeOK
  <2>2. ValueOf(current[p]) \in Value
    BY <2>1 DEF ValueOf, Envelope, Value
  <2> QED
    BY <1>3, <2>2 DEF TypeOK, Opened, SavePC
<1>4. ASSUME NEW p \in Process, OpenFails(p) \/ Close(p) \/ Kill(p)
      PROVE  TypeOK'
  <2>1. Gone({p}) /\ UNCHANGED <<files, promised>>
    BY <1>4 DEF OpenFails, Close, Kill
  <2>2. {p} \in SUBSET Process
    OBVIOUS
  <2> QED
    BY <2>1, <2>2, GoneType DEF TypeOK
<1>5. ASSUME NEW p \in Process, NEW t \in Thread, Enter(p, t) \/ ReturnEarly(p, t)
      PROVE  TypeOK'
  <2>1. CASE Enter(p, t)
    BY <2>1 DEF TypeOK, Enter, ThreadPC
  <2>2. CASE ReturnEarly(p, t)
    BY <2>2 DEF TypeOK, ReturnEarly, ThreadPC
  <2> QED
    BY <1>5, <2>1, <2>2
<1>6. ASSUME NEW p \in Process, NEW t \in Thread, NEW v \in Value, Begin(p, t, v)
      PROVE  TypeOK'
  BY <1>6 DEF TypeOK, Begin, ThreadPC, SavePC
<1>7. ASSUME NEW p \in Process, NEW t \in Thread, Prepared(p, t)
      PROVE  TypeOK'
  <2>1. current[p] \in Envelope /\ candidate[p] \in Value
    BY DEF TypeOK
  <2>2. [current[p] EXCEPT !.prepared = candidate[p]] \in Envelope
    BY <2>1, PreparedCovers
  <2>3. current' = [current EXCEPT ![p] = [current[p] EXCEPT !.prepared = candidate[p]]]
    BY <1>7 DEF Prepared
  <2>4. current' \in [Process -> Envelope]
    BY <2>2, <2>3 DEF TypeOK
  <2> QED
    BY <1>7, <2>4 DEF TypeOK, Prepared, ThreadPC, SavePC
<1>8. ASSUME NEW p \in Process, NEW t \in Thread, Committed(p, t)
      PROVE  TypeOK'
  <2>1. candidate[p] \in Value /\ Plain(candidate[p]) \in Envelope
    BY Envelopes DEF TypeOK
  <2> QED
    BY <1>8, <2>1 DEF TypeOK, Committed, ThreadPC, SavePC
<1>9. ASSUME NEW p \in Process, NEW t \in Thread, SaveFailed(p, t)
      PROVE  TypeOK'
  BY <1>9 DEF TypeOK, SaveFailed, ThreadPC, SavePC
<1>10. ASSUME PowerLoss
       PROVE  TypeOK'
  <2>1. Gone(Process) /\ UNCHANGED <<bundle, promised>>
        /\ cached' \in {cached, durable} /\ durable' = cached'
    BY <1>10 DEF PowerLoss
  <2> QED
    BY <2>1, GoneType DEF TypeOK
<1>11. ASSUME UNCHANGED vars
       PROVE  TypeOK'
  BY <1>11 DEF TypeOK, vars
<1> QED
  BY <1>1, <1>2, <1>3, <1>4, <1>5, <1>6, <1>7, <1>8, <1>9, <1>10, <1>11 DEF Next

\* Everything stays well typed, for any bounds.
THEOREM JournalTypeCorrect == Spec => []TypeOK
<1>1. Init => TypeOK
  BY TypeInit
<1>2. TypeOK /\ [Next]_vars => TypeOK'
  BY TypeStep
<1> QED
  BY <1>1, <1>2, PTL DEF Spec

-----------------------------------------------------------------------------
(* The journal *)

\* What a session has in memory, apart from its own process: shut.
OthersShut(p) == \A q \in Process : q # p => Shut(q)

\* With p's journal in memory there is no other, since p has the lease.
LEMMA OneOwner ==
  ASSUME IInv, NEW p \in Process, session[p] # "closed"
  PROVE  /\ Starting(p) \/ Up(p)
         /\ Owner(p) /\ bundle /\ OthersShut(p)
<1>1. ~Shut(p)
  BY DEF Shut
<1>2. (Starting(p) \/ Up(p)) /\ Owner(p) /\ bundle
  BY <1>1 DEF IInv
<1>3. ASSUME NEW q \in Process, q # p
      PROVE  Shut(q)
  BY <1>2, <1>3 DEF IInv, Owner
<1> QED
  BY <1>2, <1>3 DEF OthersShut

\* A shut process stays shut unless it opens.
LEMMA StaysShut ==
  ASSUME NEW q \in Process, Shut(q),
         session'[q] = session[q], save'[q] = save[q],
         uncertain'[q] = uncertain[q], pc'[q] = pc[q]
  PROVE  Shut(q)'
BY DEF Shut

\* It is enough to look at the process that takes the step.
LEMMA OwnerSteps ==
  ASSUME TypeOK', AcknowledgedDurable', DataHasIdentity',
         NEW p \in Process,
         Shut(p)' \/ ((Starting(p)' \/ Up(p)') /\ Owner(p)' /\ bundle'),
         \A q \in Process : q # p => Shut(q)'
  PROVE  IInv'
BY DEF IInv

LEMMA SavingAtLeast ==
  ASSUME TypeOK, NEW p \in Process, Starting(p) \/ Up(p), save[p] # "none"
  PROVE  Covers(Saving(p), current[p])
<1>1. current[p] \in Envelope /\ candidate[p] \in Value /\ Saving(p) \in Envelope
  BY SavingType DEF TypeOK
<1>2. Saving(p) # NoFile
  BY <1>1, Envelopes
<1>3. CASE Starting(p)
  <2>1. ~ \E t \in Thread : pc[p][t] = "prepare"
    BY <1>3 DEF Starting
  <2>2. Saving(p) = current[p] /\ Recovered(Saving(p)) = current[p]
    BY <1>3, <2>1 DEF Saving, Starting, Recovered
  <2> QED
    BY <1>1, <1>2, <2>2 DEF Covers, Envelope
<1>4. CASE Up(p)
  <2>1. PICK t \in Thread : Changing(p, t)
    BY <1>4 DEF Up, AtRest
  <2>2. AtMost(current[p], candidate[p])
    BY <2>1 DEF Changing
  <2>3. Recovered(Saving(p)) = Plain(candidate[p])
    <3>1. CASE \E u \in Thread : pc[p][u] = "prepare"
      <4>1. Saving(p) = [current[p] EXCEPT !.prepared = candidate[p]]
        BY <3>1 DEF Saving
      <4> QED
        BY <4>1, <1>1, PreparedCovers
    <3>2. CASE ~ \E u \in Thread : pc[p][u] = "prepare"
      <4>1. Saving(p) = Plain(candidate[p])
        BY <3>2, <1>4 DEF Saving, Up
      <4> QED
        BY <4>1, <1>1, Envelopes
    <3> QED
      BY <3>1, <3>2
  <2>4. Plain(candidate[p]).rev = candidate[p].rev
        /\ Plain(candidate[p]).meta = candidate[p].meta
    BY <1>1, Envelopes
  <2> QED
    BY <1>2, <2>2, <2>3, <2>4 DEF Covers, AtMost
<1> QED
  BY <1>3, <1>4

LEMMA SavingAcknowledged ==
  ASSUME IInv, NEW p \in Process, save[p] # "none"
  PROVE  Covers(Saving(p), current[p]) /\ Covers(Saving(p), promised)
<1>1. TypeOK
  BY DEF IInv
<1>2. ~Shut(p)
  BY DEF Shut
<1>3. (Starting(p) \/ Up(p)) /\ Owner(p)
  BY <1>2 DEF IInv
<1>4. Covers(Saving(p), current[p])
  BY <1>1, <1>3, SavingAtLeast
<1>5. Saving(p) \in Envelope /\ current[p] \in Envelope /\ promised \in Value
  BY <1>1, SavingType DEF TypeOK
<1>6. current[p].rev \in Int /\ current[p].meta \in Int
      /\ promised.rev \in Int /\ promised.meta \in Int
  BY <1>5 DEF Envelope, Value
<1>7. AtMost(promised, current[p])
  BY <1>3 DEF Owner
<1>8. Covers(Saving(p), promised)
  BY <1>4, <1>5, <1>6, <1>7, CoversOlder
<1> QED
  BY <1>4, <1>8

\* A step of store::save puts what p is saving on disk, or nothing.
LEMMA SaveStep ==
  ASSUME IInv, TypeOK', NEW p \in Process, save[p] # "none", NEW x, x # "none",
         save' = [save EXCEPT ![p] = x],
         cached' \in {cached, Saving(p)}, durable' \in {durable, cached},
         x \in {"sync", "done"} => cached' = Saving(p),
         x = "done" => durable' = cached',
         UNCHANGED <<bundle, lease, session, current, candidate, uncertain, pc, promised>>
  PROVE  IInv'
<1> USE DEF IInv
<1>1. session[p] # "closed"
  BY DEF Shut, Starting, Up
<1>2. (Starting(p) \/ Up(p)) /\ Owner(p) /\ bundle /\ OthersShut(p)
  BY <1>1, OneOwner
<1>3. Covers(Saving(p), current[p]) /\ Covers(Saving(p), promised)
  BY SavingAcknowledged
<1>4. save'[p] = x /\ \A q \in Process : q # p => save'[q] = save[q]
  BY DEF TypeOK
<1>5. \A q \in Process : q # p => Shut(q)'
  BY <1>2, <1>4 DEF OthersShut, Shut
<1>6. AcknowledgedDurable'
  <2>1. promised # Zero => Covers(cached, promised) /\ Covers(durable, promised)
    BY DEF AcknowledgedDurable
  <2> QED
    BY <2>1, <1>3 DEF AcknowledgedDurable, Covers
<1>7. DataHasIdentity'
  BY <1>2 DEF DataHasIdentity
<1>8. Owner(p)'
  <2>1. Saving(p)' = Saving(p)
    BY DEF Saving
  <2> QED
    BY <1>2, <1>4, <2>1 DEF Owner, Progress
<1>9. Starting(p)' \/ Up(p)'
  <2>1. CASE Starting(p)
    BY <2>1, <1>4 DEF Starting
  <2>2. CASE Up(p)
    <3>1. PICK t \in Thread : Changing(p, t)
      BY <2>2 DEF Up, AtRest
    <3>2. Changing(p, t)'
      BY <3>1, <1>4 DEF Changing, Holds
    <3>3. Covers(cached, current[p])' /\ Covers(durable, current[p])'
      BY <2>2, <1>3 DEF Up, Covers
    <3> QED
      BY <2>2, <3>2, <3>3 DEF Up
  <2> QED
    BY <1>2, <2>1, <2>2
<1> QED
  BY <1>2, <1>5, <1>6, <1>7, <1>8, <1>9, OwnerSteps

\* Processes that end leave shut processes and the lease, if they had it.
LEMMA GoneShut ==
  ASSUME TypeOK, NEW P \in SUBSET Process, Gone(P), NEW q \in Process
  PROVE  /\ q \in P => Shut(q)'
         /\ q \notin P => session'[q] = session[q] /\ save'[q] = save[q]
                          /\ uncertain'[q] = uncertain[q] /\ pc'[q] = pc[q]
BY DEF Gone, Shut, TypeOK

LEMMA MutationEnds ==
  ASSUME IInv, TypeOK', NEW p \in Process, session[p] # "closed", Gone({p}),
         UNCHANGED <<files, promised>>
  PROVE  IInv'
<1> USE DEF IInv, files
<1>1. OthersShut(p)
  BY OneOwner
<1>2. {p} \in SUBSET Process
  OBVIOUS
<1>3. Shut(p)'
  BY <1>2, GoneShut
<1>4. ASSUME NEW q \in Process, q # p
      PROVE  Shut(q)'
  BY <1>1, <1>2, <1>4, GoneShut, StaysShut DEF OthersShut
<1>5. AcknowledgedDurable' /\ DataHasIdentity'
  BY DEF AcknowledgedDurable, DataHasIdentity, Covers
<1> QED
  BY <1>3, <1>4, <1>5

\* A power loss leaves one of two journals, each of which has everything.
LEMMA PowerLossStep == IInv /\ TypeOK' /\ PowerLoss => IInv'
<1> SUFFICES ASSUME IInv, TypeOK', PowerLoss PROVE IInv'
  OBVIOUS
<1>1. Gone(Process) /\ UNCHANGED <<bundle, promised>>
      /\ cached' \in {cached, durable} /\ durable' = cached'
  BY DEF PowerLoss
<1>2. \A q \in Process : Shut(q)'
  BY <1>1, GoneShut DEF IInv
<1>3. AcknowledgedDurable' /\ DataHasIdentity'
  BY <1>1 DEF IInv, AcknowledgedDurable, DataHasIdentity, Covers
<1> QED
  BY <1>2, <1>3 DEF IInv

\* Whoever opens the journal recovers what has been promised.
LEMMA OpenStep ==
  ASSUME IInv, TypeOK', NEW p \in Process, Open(p)
  PROVE  IInv'
<1> USE DEF IInv
<1> DEFINE found == IF cached = NoFile THEN Plain(Zero) ELSE Recovered(cached)
<1>1. /\ lease = Nobody /\ lease' = p /\ bundle'
      /\ session' = [session EXCEPT ![p] = "opening"]
      /\ current' = [current EXCEPT ![p] = found]
      /\ save' = [save EXCEPT ![p] = "write"]
      /\ UNCHANGED <<cached, durable, candidate, uncertain, pc, promised>>
  BY DEF Open
<1>2. \A q \in Process : Shut(q)
  BY <1>1, JournalConstants DEF Owner
<1>3. ASSUME NEW q \in Process, q # p
      PROVE  Shut(q)'
  BY <1>1, <1>2, <1>3 DEF Shut, TypeOK
<1>4. found.prepared = None
  BY Envelopes, RecoveredPlain DEF TypeOK
<1>5. AtMost(promised, found)
  <2>1. CASE promised = Zero
    <3>1. found \in Envelope
      BY Envelopes, RecoveredPlain DEF TypeOK
    <3> QED
      BY <2>1, <3>1, JournalConstants DEF AtMost, Zero, Envelope
  <2>2. CASE promised # Zero
    BY <2>2 DEF AcknowledgedDurable, Covers, AtMost, TypeOK
  <2> QED
    BY <2>1, <2>2
<1>6. /\ session'[p] = "opening" /\ current'[p] = found /\ save'[p] = "write"
      /\ uncertain'[p] = uncertain[p] /\ pc'[p] = pc[p]
  BY <1>1 DEF TypeOK
<1>7. Starting(p)'
  BY <1>2, <1>4, <1>6 DEF Starting, Shut
<1>8. Owner(p)'
  BY <1>1, <1>5, <1>6 DEF Owner, AtMost, Progress
<1>9. AcknowledgedDurable' /\ DataHasIdentity'
  BY <1>1 DEF AcknowledgedDurable, DataHasIdentity, Covers
<1> QED
  BY <1>1, <1>3, <1>7, <1>8, <1>9, OwnerSteps

\* The journal is handed out when it is durable.
LEMMA OpenedStep ==
  ASSUME IInv, TypeOK', NEW p \in Process, Opened(p)
  PROVE  IInv'
<1> USE DEF IInv, files
<1>1. /\ session[p] = "opening" /\ save[p] = "done"
      /\ session' = [session EXCEPT ![p] = "open"]
      /\ save' = [save EXCEPT ![p] = "none"]
      /\ promised' = ValueOf(current[p])
      /\ UNCHANGED <<files, lease, current, candidate, uncertain, pc>>
  BY DEF Opened
<1>2. Starting(p) /\ Owner(p) /\ bundle /\ OthersShut(p)
  BY <1>1, OneOwner DEF Up
<1>3. session'[p] = "open" /\ save'[p] = "none"
      /\ \A q \in Process : q # p => session'[q] = session[q] /\ save'[q] = save[q]
  BY <1>1 DEF TypeOK
<1>4. \A q \in Process : q # p => Shut(q)'
  BY <1>1, <1>2, <1>3 DEF OthersShut, Shut
<1>5. Covers(cached, current[p]) /\ Covers(durable, current[p])
  <2>1. Covers(Saving(p), current[p])
    BY <1>1, SavingAcknowledged
  <2> QED
    BY <2>1, <1>1, <1>2 DEF Owner, Progress
<1>6. Up(p)'
  <2>1. AtRest(p)'
    BY <1>1, <1>2, <1>3 DEF AtRest, Starting, Free, Holds, Inside
  <2>2. Covers(cached, current[p])' /\ Covers(durable, current[p])'
    BY <1>1, <1>5 DEF Covers
  <2> QED
    BY <1>3, <2>1, <2>2 DEF Up
<1>7. Owner(p)'
  <2>1. current[p] \in Envelope
    BY DEF TypeOK
  <2>2. AtMost(ValueOf(current[p]), current[p])
    BY <2>1, JournalConstants DEF AtMost, ValueOf, Envelope
  <2> QED
    BY <1>1, <1>2, <1>3, <2>2 DEF Owner, AtMost, Progress
<1>8. AcknowledgedDurable' /\ DataHasIdentity'
  BY <1>1, <1>5 DEF AcknowledgedDurable, DataHasIdentity, Covers, ValueOf
<1> QED
  BY <1>1, <1>2, <1>4, <1>6, <1>7, <1>8, OwnerSteps

\* Threads that enter or leave without a change disturb nothing.
LEMMA VisitStep ==
  ASSUME IInv, TypeOK', NEW p \in Process, NEW t \in Thread,
         Enter(p, t) \/ ReturnEarly(p, t)
  PROVE  IInv'
<1> USE DEF IInv, files
<1>1. /\ session[p] = "open"
      /\ \A u \in Thread : pc[p][u] \in Inside <=> pc'[p][u] \in Inside
      /\ \A u \in Thread : pc[p][u] = "prepare" <=> pc'[p][u] = "prepare"
      /\ \A q \in Process : q # p => pc'[q] = pc[q]
      /\ UNCHANGED <<files, lease, session, current, candidate, uncertain, save, promised>>
  <2>1. CASE Enter(p, t)
    BY <2>1 DEF Enter, TypeOK, Inside
  <2>2. CASE ReturnEarly(p, t)
    <3>1. session[p] = "open"
      BY <2>2 DEF ReturnEarly, Shut, Starting, Up
    <3> QED
      BY <2>2, <3>1 DEF ReturnEarly, TypeOK, Inside
  <2> QED
    BY <2>1, <2>2
<1>2. Up(p) /\ Owner(p) /\ bundle /\ OthersShut(p)
  BY <1>1, OneOwner DEF Starting
<1>3. \A q \in Process : q # p => Shut(q)'
  BY <1>1, <1>2 DEF OthersShut, Shut
<1>4. \A u \in Thread : Holds(p, u)' <=> Holds(p, u)
  BY <1>1 DEF Holds
<1>5. Up(p)'
  <2>1. Covers(cached, current[p])' /\ Covers(durable, current[p])'
    BY <1>1, <1>2 DEF Up, Covers
  <2>2. CASE AtRest(p)
    <3>1. AtRest(p)'
      BY <1>1, <1>4, <2>2 DEF AtRest, Free
    <3> QED
      BY <1>1, <2>1, <3>1 DEF Up
  <2>3. CASE \E u \in Thread : Changing(p, u)
    <3>1. PICK u \in Thread : Changing(p, u)
      BY <2>3
    <3>2. Changing(p, u)'
      BY <1>1, <1>4, <3>1 DEF Changing
    <3> QED
      BY <1>1, <2>1, <3>2 DEF Up
  <2> QED
    BY <1>2, <2>2, <2>3 DEF Up
<1>6. Owner(p)'
  <2>1. Saving(p)' = Saving(p)
    BY <1>1 DEF Saving
  <2> QED
    BY <1>1, <1>2, <2>1 DEF Owner, Progress
<1>7. AcknowledgedDurable' /\ DataHasIdentity'
  BY <1>1 DEF AcknowledgedDurable, DataHasIdentity, Covers
<1> QED
  BY <1>1, <1>2, <1>3, <1>5, <1>6, <1>7, OwnerSteps

\* Between the saves of a transaction the thread keeps the lock to itself.
LEMMA ChangeStep ==
  ASSUME IInv, TypeOK', NEW p \in Process, NEW t \in Thread,
         session[p] = "open", OthersShut(p), Owner(p), Up(p), bundle,
         \A u \in Thread : Holds(p, u) => u = t,
         ~uncertain[p], save'[p] = "write", pc'[p][t] \in Inside,
         \A u \in Thread : u # t => pc'[p][u] = pc[p][u],
         \A q \in Process : q # p => pc'[q] = pc[q] /\ save'[q] = save[q],
         current'[p].rev = current[p].rev, current'[p].meta = current[p].meta,
         AtMost(current[p], candidate'[p]),
         UNCHANGED <<files, lease, session, uncertain, promised>>
  PROVE  IInv'
<1> USE DEF IInv, files
<1>1. \A q \in Process : q # p => Shut(q)'
  BY DEF OthersShut, Shut
<1>2. Changing(p, t)'
  BY DEF Changing, Holds, AtMost
<1>3. Covers(cached, current[p])' /\ Covers(durable, current[p])'
  BY DEF Up, Covers
<1>4. Up(p)'
  BY <1>2, <1>3 DEF Up
<1>5. Owner(p)'
  BY DEF Owner, AtMost, Progress
<1>6. AcknowledgedDurable' /\ DataHasIdentity'
  BY DEF AcknowledgedDurable, DataHasIdentity, Covers
<1> QED
  BY <1>1, <1>4, <1>5, <1>6, OwnerSteps

\* A thread inside a transaction is the only one.
LEMMA NothingElse ==
  ASSUME IInv, NEW p \in Process, NEW t \in Thread, Holds(p, t)
  PROVE  /\ Up(p) /\ Owner(p) /\ bundle /\ OthersShut(p) /\ Changing(p, t)
         /\ session[p] = "open"
<1>1. session[p] # "closed" /\ ~Starting(p)
  BY DEF IInv, Shut, Starting, Up, Holds, Inside
<1>2. Up(p) /\ Owner(p) /\ bundle /\ OthersShut(p)
  BY <1>1, OneOwner
<1>3. PICK u \in Thread : Changing(p, u)
  BY <1>2 DEF Up, AtRest, Free
<1> QED
  BY <1>2, <1>3 DEF Changing, Up

LEMMA MutationBegins ==
  ASSUME IInv, TypeOK', NEW p \in Process, NEW t \in Thread, NEW v \in Value,
         Begin(p, t, v)
  PROVE  IInv'
<1>1. session[p] = "open"
  BY DEF Begin, IInv, Shut, Starting, Up
<1>2. Up(p) /\ Owner(p) /\ bundle /\ OthersShut(p)
  BY <1>1, OneOwner DEF Starting
<1>3. TypeOK
  BY DEF IInv
<1>4. pc'[p][t] \in Inside /\ save'[p] = "write" /\ candidate'[p] = v
  BY <1>3 DEF Begin, TypeOK, Inside
<1>5. /\ \A u \in Thread : u # t => pc'[p][u] = pc[p][u]
      /\ \A q \in Process : q # p => pc'[q] = pc[q] /\ save'[q] = save[q]
  BY <1>3 DEF Begin, TypeOK
<1>6. AtMost(current[p], candidate'[p])
  BY <1>4, <1>3 DEF Begin, AtMost, TypeOK, Envelope, Value
<1>7. /\ ~uncertain[p]
      /\ \A u \in Thread : Holds(p, u) => u = t
      /\ UNCHANGED <<files, lease, session, uncertain, promised, current>>
  BY DEF Begin, Free
<1> QED
  BY <1>1, <1>2, <1>4, <1>5, <1>6, <1>7, ChangeStep

LEMMA PreparedStep ==
  ASSUME IInv, TypeOK', NEW p \in Process, NEW t \in Thread, Prepared(p, t)
  PROVE  IInv'
<1>1. Up(p) /\ Owner(p) /\ bundle /\ OthersShut(p) /\ Changing(p, t)
      /\ session[p] = "open"
  BY NothingElse DEF Prepared, Holds, Inside
<1>2. TypeOK
  BY DEF IInv
<1>3. /\ pc'[p][t] \in Inside /\ save'[p] = "write"
      /\ \A u \in Thread : u # t => pc'[p][u] = pc[p][u]
      /\ \A q \in Process : q # p => pc'[q] = pc[q] /\ save'[q] = save[q]
  BY <1>2 DEF Prepared, TypeOK, Inside
<1>4. current'[p].rev = current[p].rev /\ current'[p].meta = current[p].meta
  <2>1. current[p] \in Envelope /\ candidate[p] \in Value
    BY <1>2 DEF TypeOK
  <2>2. current'[p] = [current[p] EXCEPT !.prepared = candidate[p]]
    BY <1>2 DEF Prepared, TypeOK
  <2> QED
    BY <2>1, <2>2, PreparedCovers
<1>5. UNCHANGED <<files, lease, session, uncertain, promised, candidate>>
  BY DEF Prepared
<1>6. ~uncertain[p] /\ AtMost(current[p], candidate'[p])
      /\ \A u \in Thread : Holds(p, u) => u = t
  BY <1>1, <1>5 DEF Changing
<1> QED
  BY <1>1, <1>3, <1>4, <1>5, <1>6, ChangeStep

\* The caller is answered when the candidate is durable.
LEMMA CommittedStep ==
  ASSUME IInv, TypeOK', NEW p \in Process, NEW t \in Thread, Committed(p, t)
  PROVE  IInv'
<1> USE DEF IInv, files
<1>1. /\ pc[p][t] = "commit" /\ save[p] = "done"
      /\ current' = [current EXCEPT ![p] = Plain(candidate[p])]
      /\ promised' = candidate[p]
      /\ pc' = [pc EXCEPT ![p][t] = "idle"]
      /\ save' = [save EXCEPT ![p] = "none"]
      /\ UNCHANGED <<files, lease, session, candidate, uncertain>>
  BY DEF Committed
<1>2. Up(p) /\ Owner(p) /\ bundle /\ OthersShut(p) /\ Changing(p, t)
      /\ session[p] = "open"
  BY <1>1, NothingElse DEF Holds, Inside
<1>3. candidate[p] \in Value
  BY DEF TypeOK
<1>4. cached = Plain(candidate[p]) /\ durable = Plain(candidate[p])
  <2>1. ~ \E u \in Thread : pc[p][u] = "prepare"
    BY <1>1, <1>2 DEF Changing, Holds, Inside
  <2>2. Saving(p) = Plain(candidate[p])
    BY <2>1, <1>2 DEF Saving
  <2> QED
    BY <2>2, <1>1, <1>2 DEF Owner, Progress
<1>5. Covers(cached, candidate[p]) /\ Covers(durable, candidate[p])
  <2>1. Plain(candidate[p]) # NoFile
    BY <1>3, Envelopes
  <2>2. Recovered(Plain(candidate[p])) = Plain(candidate[p])
        /\ Plain(candidate[p]).rev = candidate[p].rev
        /\ Plain(candidate[p]).meta = candidate[p].meta
    BY <1>3, Envelopes
  <2>3. candidate[p].rev \in Int /\ candidate[p].meta \in Int
    BY <1>3 DEF Value
  <2> QED
    BY <1>4, <2>1, <2>2, <2>3 DEF Covers
<1>6. /\ current'[p] = Plain(candidate[p]) /\ save'[p] = "none"
      /\ pc'[p] = [pc[p] EXCEPT ![t] = "idle"]
      /\ \A q \in Process : q # p => pc'[q] = pc[q] /\ save'[q] = save[q]
  BY <1>1 DEF TypeOK
<1>7. current'[p].rev = candidate[p].rev /\ current'[p].meta = candidate[p].meta
      /\ current'[p].prepared = None
  BY <1>3, <1>6, Envelopes
<1>8. \A q \in Process : q # p => Shut(q)'
  BY <1>1, <1>2, <1>6 DEF OthersShut, Shut
<1>9. Up(p)'
  <2>1. ASSUME NEW u \in Thread
        PROVE  pc'[p][u] \notin Inside
    <3>1. pc[p] \in [Thread -> ThreadPC]
      BY DEF TypeOK
    <3>2. u # t => pc[p][u] \notin Inside
      BY <1>2 DEF Changing, Holds
    <3> QED
      BY <1>6, <3>1, <3>2 DEF Inside
  <2>2. AtRest(p)'
    BY <1>6, <1>7, <2>1 DEF AtRest, Free, Holds
  <2>3. Covers(cached, current[p])' /\ Covers(durable, current[p])'
    BY <1>1, <1>5, <1>7 DEF Covers
  <2> QED
    BY <1>1, <1>2, <2>2, <2>3 DEF Up
<1>10. Owner(p)'
  <2>1. candidate[p].rev \in Int /\ candidate[p].meta \in Int
    BY <1>3 DEF Value
  <2>2. AtMost(promised, current[p])'
    BY <1>1, <1>7, <2>1 DEF AtMost
  <2>3. Progress(p)'
    BY <1>6 DEF Progress
  <2> QED
    BY <1>1, <1>2, <2>2, <2>3 DEF Owner
<1>11. AcknowledgedDurable' /\ DataHasIdentity'
  BY <1>1, <1>2, <1>5 DEF AcknowledgedDurable, DataHasIdentity, Covers
<1> QED
  BY <1>1, <1>2, <1>8, <1>9, <1>10, <1>11, OwnerSteps

\* A save of unknown outcome fences the storage; what can be read is still there.
LEMMA SaveFailedStep ==
  ASSUME IInv, TypeOK', NEW p \in Process, NEW t \in Thread, SaveFailed(p, t)
  PROVE  IInv'
<1> USE DEF IInv, files
<1>1. /\ Holds(p, t)
      /\ uncertain' = [uncertain EXCEPT ![p] = TRUE]
      /\ pc' = [pc EXCEPT ![p][t] = "idle"]
      /\ save' = [save EXCEPT ![p] = "none"]
      /\ UNCHANGED <<files, lease, session, current, candidate, promised>>
  BY DEF SaveFailed
<1>2. Up(p) /\ Owner(p) /\ bundle /\ OthersShut(p) /\ Changing(p, t)
      /\ session[p] = "open"
  BY <1>1, NothingElse
<1>3. /\ save'[p] = "none" /\ uncertain'[p]
      /\ pc'[p] = [pc[p] EXCEPT ![t] = "idle"]
      /\ \A q \in Process : q # p => /\ pc'[q] = pc[q] /\ save'[q] = save[q]
                                    /\ uncertain'[q] = uncertain[q]
  BY <1>1 DEF TypeOK
<1>4. \A q \in Process : q # p => Shut(q)'
  BY <1>1, <1>2, <1>3 DEF OthersShut, Shut
<1>5. Up(p)'
  <2>1. ASSUME NEW u \in Thread
        PROVE  pc'[p][u] \notin Inside
    <3>1. pc[p] \in [Thread -> ThreadPC]
      BY DEF TypeOK
    <3>2. u # t => pc[p][u] \notin Inside
      BY <1>2 DEF Changing, Holds
    <3> QED
      BY <1>3, <3>1, <3>2 DEF Inside
  <2>2. AtRest(p)'
    BY <1>3, <2>1 DEF AtRest, Free, Holds
  <2>3. Covers(cached, current[p])' /\ Covers(durable, current[p])'
    BY <1>1, <1>2 DEF Up, Covers
  <2> QED
    BY <1>1, <1>2, <2>2, <2>3 DEF Up
<1>6. Owner(p)'
  BY <1>1, <1>2, <1>3 DEF Owner, AtMost, Progress
<1>7. AcknowledgedDurable' /\ DataHasIdentity'
  BY <1>1 DEF AcknowledgedDurable, DataHasIdentity, Covers
<1> QED
  BY <1>1, <1>2, <1>4, <1>5, <1>6, <1>7, OwnerSteps

-----------------------------------------------------------------------------
(* Theorems *)

LEMMA JournalInit == Init => IInv
<1> SUFFICES ASSUME Init PROVE IInv
  OBVIOUS
<1>1. TypeOK
  BY TypeInit
<1>2. \A p \in Process : Shut(p)
  BY DEF Init, Shut
<1>3. AcknowledgedDurable /\ DataHasIdentity
  BY DEF Init, AcknowledgedDurable, DataHasIdentity
<1> QED
  BY <1>1, <1>2, <1>3 DEF IInv

\* One step of the invariant, action by action.
LEMMA JournalStep == IInv /\ [Next]_vars => IInv'
<1> SUFFICES ASSUME IInv, [Next]_vars PROVE IInv'
  OBVIOUS
<1>1. TypeOK /\ TypeOK'
  BY TypeStep DEF IInv
<1>2. ASSUME NEW p \in Process, WriteTemp(p)
      PROVE  IInv'
  BY <1>1, <1>2, SaveStep DEF WriteTemp, files
<1>3. ASSUME NEW p \in Process, Rename(p)
      PROVE  IInv'
  BY <1>1, <1>3, SaveStep DEF Rename
<1>4. ASSUME NEW p \in Process, SyncDirectory(p)
      PROVE  IInv'
  <2>1. cached = Saving(p)
    <3>1. ~Shut(p)
      BY <1>4 DEF SyncDirectory, Shut
    <3> QED
      BY <1>4, <3>1 DEF IInv, Owner, Progress, SyncDirectory
  <2> QED
    BY <1>1, <1>4, <2>1, SaveStep DEF SyncDirectory
<1>5. ASSUME NEW p \in Process, SaveFails(p)
      PROVE  IInv'
  BY <1>1, <1>5, SaveStep DEF SaveFails, files
<1>6. ASSUME NEW p \in Process, OpenFails(p) \/ Close(p) \/ Kill(p)
      PROVE  IInv'
  <2>1. session[p] # "closed" /\ Gone({p}) /\ UNCHANGED <<files, promised>>
    BY <1>6 DEF OpenFails, Close, Kill
  <2> QED
    BY <1>1, <2>1, MutationEnds
<1>7. ASSUME UNCHANGED vars
      PROVE  IInv'
  <2>1. \A p \in Process : /\ Shut(p)' <=> Shut(p)
                           /\ Starting(p)' <=> Starting(p)
                           /\ Up(p)' <=> Up(p)
                           /\ Owner(p)' <=> Owner(p)
    BY <1>7 DEF vars, files, Shut, Starting, Up, Owner, AtRest, Changing, Covers,
                AtMost, Progress, Saving, Free, Holds
  <2>2. AcknowledgedDurable' /\ DataHasIdentity'
    BY <1>7 DEF IInv, vars, files, AcknowledgedDurable, DataHasIdentity, Covers
  <2> QED
    BY <1>1, <1>7, <2>1, <2>2 DEF IInv, vars, files
<1> QED
  BY <1>1, <1>2, <1>3, <1>4, <1>5, <1>6, <1>7, OpenStep, OpenedStep, PowerLossStep,
     VisitStep, MutationBegins, PreparedStep, CommittedStep, SaveFailedStep DEF Next

\* The invariant that the theorems below rest on holds always.
THEOREM JournalInductive == Spec => []IInv
<1>1. Init => IInv
  BY JournalInit
<1>2. IInv /\ [Next]_vars => IInv'
  BY JournalStep
<1> QED
  BY <1>1, <1>2, PTL DEF Spec

\* What a caller or a peer has been told is stored is found by recovery,
\* whichever of the two journals a crash leaves behind.
THEOREM AcknowledgedIsDurable == Spec => []AcknowledgedDurable
<1>1. IInv => AcknowledgedDurable
  BY DEF IInv
<1> QED
  BY <1>1, JournalInductive, PTL

\* What readers of an open session can see survives a crash.
THEOREM VisibleIsDurable == Spec => []VisibleDurable
<1>1. IInv => VisibleDurable
  <2> SUFFICES ASSUME IInv, NEW p \in Process, session[p] = "open", Free(p)
               PROVE  Covers(cached, current[p]) /\ Covers(durable, current[p])
    BY DEF VisibleDurable
  <2>1. Up(p)
    BY OneOwner DEF Starting
  <2> QED
    BY <2>1 DEF Up
<1> QED
  BY <1>1, JournalInductive, PTL

\* After a save of unknown outcome nothing is written until the session is
\* opened again.
THEOREM UncertainIsFenced == Spec => []PreparedIsFenced
<1>1. IInv => PreparedIsFenced
  <2> SUFFICES ASSUME IInv, NEW p \in Process
               PROVE  /\ uncertain[p] => Free(p) /\ save[p] # "sync"
                      /\ session[p] = "open" /\ Free(p) /\ current[p].prepared # None
                           => uncertain[p]
    BY DEF PreparedIsFenced
  <2>1. CASE Shut(p)
    BY <2>1 DEF Shut
  <2>2. CASE Starting(p)
    BY <2>2 DEF Starting
  <2>3. CASE Up(p) /\ AtRest(p)
    BY <2>3 DEF AtRest
  <2>4. CASE \E t \in Thread : Changing(p, t)
    BY <2>4 DEF Changing, Free
  <2> QED
    BY <2>1, <2>2, <2>3, <2>4 DEF IInv, Up
<1> QED
  BY <1>1, JournalInductive, PTL

\* Data is never left behind without the identity that opens it.
THEOREM IdentityKept == Spec => []DataHasIdentity
<1>1. IInv => DataHasIdentity
  BY DEF IInv
<1> QED
  BY <1>1, JournalInductive, PTL

-----------------------------------------------------------------------------
(* The companion manager: when it keeps what *)

\* Device commands run while the manager has no command under way.
Apart == \A c \in ManagerScopes : ~c.overlap

-----------------------------------------------------------------------------
(* The companion manager: the inductive invariant *)

\* Without a manager nothing runs.
DownIsQuiet ==
  ~companion_up => /\ companion_open = {} /\ ~companion_fenced /\ companion_op = M!NoOp
                   /\ \A s \in Space : companion_phase[s] = "none"
                   /\ \A t \in Task : companion_task[t] = M!NoTask

\* The registry in memory is the file, until a commit of unknown outcome.
FileFits == companion_up /\ ~companion_fenced => companion_registry = companion_file

\* What follows the registry begins when the registry is durable.
OpFits ==
  companion_op # M!NoOp =>
    /\ companion_op.kind = "add" => companion_op.pc = "persist"
         /\ companion_told[companion_op.space] = "nothing"
    /\ companion_op.kind # "add" => companion_op.space \in companion_open
         /\ ~companion_fenced
    /\ companion_op.pc # "persist" =>
         /\ companion_op.pc = companion_op.kind
            \/ (companion_op.kind = "remove" /\ companion_op.pc = "stop")
         /\ companion_told[companion_op.space] = "unknown"
         /\ companion_file[companion_op.space] = companion_disk[companion_op.space]
         /\ companion_file[companion_op.space] =
              CASE companion_op.kind = "resume" -> "on"
                [] companion_op.kind = "pause" -> "paused"
                [] companion_op.kind = "remove" -> "absent"

\* A removed space is nowhere; only device commands still hold its session.
RemovedFits ==
  \A s \in Space : companion_told[s] = "removed" =>
    /\ companion_file[s] = "absent" /\ companion_disk[s] = "absent"
    /\ s \notin companion_open /\ companion_op.space # s
    /\ companion_phase[s] # "none" => M!Held(s)

\* The key of the backups is in the key store or was lost from it last.
KeysFit ==
  \A s \in Space : \A x \in companion_saves[s] :
    x.key = (IF companion_store[s] # 0 THEN companion_store[s] ELSE companion_lost[s])

CompanionInv ==
  /\ M!TypeOK
  /\ DownIsQuiet
  /\ FileFits
  /\ OpFits
  /\ RemovedFits
  /\ KeysFit

\* With device commands apart: what runs is listed, but for the session that the
\* command under way starts before, or stops after, the registry is written.
RunsFit ==
  /\ companion_op # M!NoOp => \A t \in Task : companion_task[t] = M!NoTask
  /\ \A t \in Task : companion_task[t] # M!NoTask /\ companion_task[t].running =>
         companion_task[t].space \in companion_open
         /\ companion_file[companion_task[t].space] = "on" /\ ~companion_fenced
  /\ \A s \in Space : companion_phase[s] = "running" =>
       \/ s \in companion_open /\ companion_file[s] = "on" /\ ~companion_fenced
       \/ s = companion_op.space
          /\ (companion_op.kind = "add" \/ companion_op.pc # "persist")
  /\ \A s \in Space : companion_told[s] = "paused" => companion_file[s] = "paused"
       /\ companion_disk[s] = "paused"

\* The backups can be counted, and the last one reported is kept or outnumbered.
BackupsFit ==
  /\ \A s \in Space : IsFiniteSet(companion_saves[s])
  /\ M!BackupKept

-----------------------------------------------------------------------------
(* Companion: types *)

LEMMA NoneIsNoSpace ==
  ASSUME M!CompanionAssumption
  PROVE  "none" \notin Space
BY DEF M!CompanionAssumption

LEMMA CompanionTypeInit ==
  ASSUME M!CompanionAssumption, M!Init
  PROVE  M!TypeOK
BY DEF M!CompanionAssumption, M!Init, M!TypeOK, M!Empty, M!Listing, M!Save, M!NoTask

\* A command under way, and the registry it writes.
LEMMA Underway ==
  ASSUME M!CompanionAssumption, M!TypeOK, companion_op.pc # "none"
  PROVE  /\ companion_op \in M!OpState /\ companion_op # M!NoOp
            /\ companion_op.space \in Space /\ companion_op.todo \in SUBSET Peer
         /\ companion_op.kind \in {"add", "pause", "resume", "remove"}
         /\ companion_op.pc \in {"persist", "pause", "resume", "remove", "stop"}
BY NoneIsNoSpace DEF M!TypeOK, M!NoOp, M!OpState

LEMMA CandidateListed ==
  ASSUME M!CompanionAssumption, M!TypeOK, companion_op.pc = "persist"
  PROVE  /\ M!Candidate \in M!Listing
         /\ \A s \in Space : s # companion_op.space =>
              M!Candidate[s] = companion_registry[s]
         /\ M!Candidate[companion_op.space] =
              CASE companion_op.kind \in {"add", "resume"} -> "on"
                [] companion_op.kind = "pause" -> "paused"
                [] companion_op.kind = "remove" -> "absent"
<1>1. companion_op.space \in Space
      /\ companion_op.kind \in {"add", "pause", "resume", "remove"}
  BY Underway
<1>2. companion_registry \in M!Listing
  BY DEF M!TypeOK
<1> QED  BY <1>1, <1>2 DEF M!Candidate, M!Listing

\* Tasks that hold a session.
LEMMA Holding ==
  ASSUME M!CompanionAssumption, M!TypeOK, NEW s \in Space
  PROVE  /\ \A t \in Task : companion_task[t].space = s => companion_task[t] # M!NoTask
         /\ M!Held(s) <=> \E t \in Task : companion_task[t] # M!NoTask
              /\ companion_task[t].space = s
BY NoneIsNoSpace DEF M!Held, M!NoTask

-----------------------------------------------------------------------------
(* Companion: steps *)

\* The steps that change the registry, a command or a session.
ManagerStep ==
  \/ M!PersistFails \/ M!PersistUncertain \/ M!Persist \/ M!Pause \/ M!Resume
     \/ M!Remove
  \/ \E s \in Space : M!Add(s) \/ \E kind \in {"pause", "resume", "remove"} :
       M!Change(kind, s)
  \/ \E p \in Peer : M!Revoke(p)
TaskStep ==
  \/ \E s \in Space : \/ \E p \in Peer : M!Enrol(s, p)
                      \/ \E t \in Task : M!Grab(t, s)
  \/ \E t \in Task : M!ReadPhase(t) \/ M!StopSession(t) \/ M!RestartSession(t)
BackupStep ==
  (\E s \in Space : M!Backup(s) \/ M!KeyGoes(s) \/ M!KeyReturns(s)) \/ M!Tick
EndStep == M!Open \/ M!Quit \/ M!Kill \/ M!PowerFails

LEMMA NextSplits ==
  ASSUME M!Next
  PROVE  ManagerStep \/ TaskStep \/ BackupStep \/ EndStep
BY DEF M!Next, ManagerStep, TaskStep, BackupStep, EndStep

LEMMA OutcomeTyped ==
  ASSUME M!CompanionAssumption, M!TypeOK, NEW ok \in BOOLEAN, M!Outcome(ok)
  PROVE  companion_faults' \in Nat
BY DEF M!TypeOK, M!Outcome

LEMMA TypeManager ==
  ASSUME M!CompanionAssumption, M!TypeOK, ManagerStep
  PROVE  M!TypeOK'
<1>1. ASSUME companion_op.pc = "persist"
      PROVE  M!Candidate \in M!Listing /\ companion_op.space \in Space
  BY <1>1, CandidateListed, Underway
<1>2. CASE M!PersistFails
  <2>1. companion_faults' \in Nat
    BY <1>2, OutcomeTyped DEF M!PersistFails, M!TypeOK
  <2> QED  BY <1>1, <1>2, <2>1 DEF M!PersistFails, M!TypeOK, M!registers, M!backups
<1>3. CASE M!PersistUncertain
  <2>1. companion_faults' \in Nat
    BY <1>3, OutcomeTyped DEF M!PersistUncertain
  <2>2. companion_phase' \in [Space -> {"none", "running", "paused", "stopped"}]
    BY <1>3 DEF M!PersistUncertain, M!TypeOK
  <2> QED  BY <1>1, <1>3, <2>1, <2>2 DEF M!PersistUncertain, M!TypeOK, M!backups
<1>4. CASE M!Persist
  <2>1. companion_op' = M!NoOp \/ companion_op' \in M!OpState
    <3>1. companion_op \in M!OpState
          /\ companion_peers[companion_op.space] \in SUBSET Peer
      BY <1>4, Underway DEF M!Persist, M!TypeOK
    <3>2. \/ companion_op' = M!NoOp
          \/ /\ companion_op.kind # "add"
             /\ companion_op' = [companion_op EXCEPT !.pc = companion_op.kind,
                                    !.todo = companion_peers[companion_op.space]]
      BY <1>4 DEF M!Persist
    <3> QED  BY <3>1, <3>2 DEF M!OpState
  <2>2. companion_open' \in SUBSET Space
    BY <1>1, <1>4 DEF M!Persist, M!TypeOK
  <2>3. companion_told' \in [Space -> {"nothing", "on", "paused", "removed", "unknown"}]
    BY <1>4 DEF M!Persist, M!TypeOK
  <2> QED  BY <1>1, <1>4, <2>1, <2>2, <2>3 DEF M!Persist, M!TypeOK, M!backups
<1>5. CASE M!Pause
  <2>1. companion_faults' \in Nat
    BY <1>5, OutcomeTyped DEF M!Pause
  <2> QED  BY <1>5, <2>1 DEF M!Pause, M!TypeOK, M!registers, M!backups
<1>6. CASE M!Resume
  <2>1. companion_faults' \in Nat
    BY <1>6, OutcomeTyped DEF M!Resume
  <2> QED  BY <1>6, <2>1 DEF M!Resume, M!TypeOK, M!registers, M!backups
<1>7. CASE M!Remove
  BY <1>7 DEF M!Remove, M!TypeOK, M!registers, M!backups, M!Dropped
<1>8. ASSUME NEW s \in Space, M!Add(s)
      PROVE  M!TypeOK'
  BY <1>8 DEF M!Add, M!Command, M!TypeOK, M!OpState, M!registers, M!backups
<1>9. ASSUME NEW s \in Space, NEW kind \in {"pause", "resume", "remove"},
               M!Change(kind, s)
      PROVE  M!TypeOK'
  BY <1>9 DEF M!Change, M!Command, M!TypeOK, M!OpState, M!registers, M!sessions,
       M!backups
<1>10. ASSUME NEW p \in Peer, M!Revoke(p)
       PROVE  M!TypeOK'
  <2>1. companion_op \in M!OpState
    BY <1>10, Underway DEF M!Revoke
  <2>2. companion_op' \in M!OpState
    BY <1>10, <2>1 DEF M!Revoke, M!OpState
  <2>3. companion_faults' \in Nat
    BY <1>10, OutcomeTyped DEF M!Revoke
  <2>4. companion_peers' \in [Space -> SUBSET Peer]
    <3>1. companion_peers \in [Space -> SUBSET Peer]
      BY DEF M!TypeOK
    <3>2. companion_peers' = companion_peers
          \/ companion_peers' = [companion_peers EXCEPT ![companion_op.space] = @ \ {p}]
      BY <1>10 DEF M!Revoke
    <3> QED  BY <3>1, <3>2
  <2> QED  BY <1>10, <2>2, <2>3, <2>4 DEF M!Revoke, M!TypeOK, M!registers, M!backups
<1> QED  BY <1>2, <1>3, <1>4, <1>5, <1>6, <1>7, <1>8, <1>9, <1>10 DEF ManagerStep

LEMMA TypeTask ==
  ASSUME M!CompanionAssumption, M!TypeOK, TaskStep
  PROVE  M!TypeOK'
<1>1. ASSUME NEW t \in Task, companion_task[t].pc # "none"
      PROVE  companion_task[t] \in M!TaskState
  BY <1>1 DEF M!TypeOK, M!NoTask
<1>2. ASSUME NEW s \in Space, NEW p \in Peer, M!Enrol(s, p)
      PROVE  M!TypeOK'
  <2>1. companion_peers' \in [Space -> SUBSET Peer]
    BY <1>2 DEF M!Enrol, M!TypeOK
  <2> QED  BY <1>2, <2>1 DEF M!Enrol, M!TypeOK, M!registers, M!backups
<1>3. ASSUME NEW s \in Space, NEW t \in Task, M!Grab(t, s)
      PROVE  M!TypeOK'
  BY <1>3 DEF M!Grab, M!TypeOK, M!TaskState, M!registers, M!sessions, M!backups
<1>4. ASSUME NEW t \in Task, M!ReadPhase(t)
      PROVE  M!TypeOK'
  <2>1. companion_task[t] \in M!TaskState
    BY <1>1, <1>4 DEF M!ReadPhase
  <2>2. companion_task' =
          [companion_task EXCEPT ![t] =
             [companion_task[t] EXCEPT !.pc = "stop",
                !.running = companion_phase[companion_task[t].space] = "running"]]
    BY <1>4 DEF M!ReadPhase, M!TypeOK
  <2>3. (companion_phase[companion_task[t].space] = "running") \in BOOLEAN
    OBVIOUS
  <2>4. [companion_task[t] EXCEPT !.pc = "stop",
          !.running = companion_phase[companion_task[t].space] = "running"]
          \in M!TaskState
    BY <2>1, <2>3 DEF M!TaskState
  <2> QED  BY <1>4, <2>2, <2>4
                DEF M!ReadPhase, M!TypeOK, M!registers, M!sessions, M!backups
<1>5. ASSUME NEW t \in Task, M!StopSession(t)
      PROVE  M!TypeOK'
  <2>1. companion_task[t] \in M!TaskState
    BY <1>1, <1>5 DEF M!StopSession
  <2>2. companion_task' \in [Task -> {M!NoTask} \cup M!TaskState]
    BY <1>5, <2>1 DEF M!StopSession, M!TypeOK, M!TaskState
  <2>3. companion_peers' \in [Space -> SUBSET Peer]
    <3>1. \E gone :
            companion_peers' = [companion_peers EXCEPT ![companion_task[t].space] = @ \ gone]
      BY <1>5 DEF M!StopSession
    <3>2. companion_peers \in [Space -> SUBSET Peer]
      BY DEF M!TypeOK
    <3> QED  BY <3>1, <3>2
  <2> QED  BY <1>5, <2>2, <2>3 DEF M!StopSession, M!TypeOK, M!registers, M!backups
<1>6. ASSUME NEW t \in Task, M!RestartSession(t)
      PROVE  M!TypeOK'
  <2>1. companion_faults' \in Nat
    BY <1>6, OutcomeTyped DEF M!RestartSession
  <2>2. companion_phase' \in [Space -> {"none", "running", "paused", "stopped"}]
    BY <1>6 DEF M!RestartSession, M!TypeOK
  <2> QED  BY <1>6, <2>1, <2>2 DEF M!RestartSession, M!TypeOK, M!registers, M!backups
<1> QED  BY <1>2, <1>3, <1>4, <1>5, <1>6 DEF TaskStep

\* What a backup does to the names: none, a part or all of retention.
TheBackup(k) == [time |-> companion_clock, key |-> k]
BackupWay(s, k, far, left) ==
  /\ k \in M!BackupKey(s) /\ far \in {"key", "file", "all"}
  /\ M!Outcome(far = "all")
  /\ companion_store' = [companion_store EXCEPT ![s] = k]
  /\ companion_keys' = IF k > companion_keys THEN k ELSE companion_keys
  /\ companion_saves' = [companion_saves EXCEPT ![s] = left]
  /\ left \subseteq companion_saves[s] \cup {TheBackup(k)}
  /\ \/ far = "key" /\ left = companion_saves[s]
     \/ far = "file" /\ left \in M!Remains(companion_saves[s] \cup {TheBackup(k)})
     \/ far = "all" /\ left = M!Kept(companion_saves[s] \cup {TheBackup(k)})
  /\ companion_promised' = IF far = "all"
                           THEN [companion_promised EXCEPT ![s] = TheBackup(k)]
                           ELSE companion_promised

LEMMA BackupLeaves ==
  ASSUME NEW s \in Space, M!TypeOK, M!Backup(s)
  PROVE  \E k, far, left : BackupWay(s, k, far, left)
<1>1. PICK k \in M!BackupKey(s), far \in {"key", "file", "all"} :
        LET new == [time |-> companion_clock, key |-> k]
            names == companion_saves[s] \cup {new}
        IN
        /\ M!Outcome(far = "all")
        /\ companion_store' = [companion_store EXCEPT ![s] = k]
        /\ companion_keys' = IF k > companion_keys THEN k ELSE companion_keys
        /\ \E left \in (CASE far = "key" -> {companion_saves[s]}
                          [] far = "file" -> M!Remains(names)
                          [] far = "all" -> {M!Kept(names)}) :
             companion_saves' = [companion_saves EXCEPT ![s] = left]
        /\ companion_promised' =
             IF far = "all" THEN [companion_promised EXCEPT ![s] = new] ELSE companion_promised
  BY DEF M!Backup
<1> DEFINE names == companion_saves[s] \cup {[time |-> companion_clock, key |-> k]}
<1>2. PICK left : /\ companion_saves' = [companion_saves EXCEPT ![s] = left]
                  /\ \/ far = "key" /\ left = companion_saves[s]
                     \/ far = "file" /\ left \in M!Remains(names)
                     \/ far = "all" /\ left = M!Kept(names)
  BY <1>1
<1>3. left \subseteq names
  BY <1>2 DEF M!Remains, M!Kept
<1>4. BackupWay(s, k, far, left)
  BY <1>1, <1>2, <1>3 DEF BackupWay, TheBackup
<1> QED  BY <1>4

LEMMA TypeBackup ==
  ASSUME M!CompanionAssumption, M!TypeOK, BackupStep
  PROVE  M!TypeOK'
<1>1. ASSUME NEW s \in Space, M!Backup(s)
      PROVE  M!TypeOK'
  <2>1. PICK k, far, left : BackupWay(s, k, far, left)
    BY <1>1, BackupLeaves
  <2>2. k \in Nat
    BY <2>1 DEF BackupWay, M!BackupKey, M!TypeOK
  <2>3. TheBackup(k) \in M!Save
    BY <2>2 DEF TheBackup, M!TypeOK, M!Save
  <2>4. companion_saves' \in [Space -> SUBSET M!Save]
    BY <2>1, <2>3 DEF BackupWay, M!TypeOK
  <2>5. companion_promised' \in [Space -> M!Save]
    BY <2>1, <2>3 DEF BackupWay, M!TypeOK
  <2>6. companion_faults' \in Nat
    <3>1. (far = "all") \in BOOLEAN /\ M!Outcome(far = "all")
      BY <2>1 DEF BackupWay
    <3> QED  BY <3>1, OutcomeTyped
  <2>7. companion_spent' \in Nat
    BY <1>1 DEF M!Backup, M!TypeOK
  <2>8. companion_store' \in [Space -> Nat] /\ companion_keys' \in Nat
    BY <2>1, <2>2 DEF BackupWay, M!TypeOK
  <2> QED  BY <1>1, <2>4, <2>5, <2>6, <2>7, <2>8
                DEF M!Backup, M!TypeOK, M!registers, M!sessions
<1>2. ASSUME NEW s \in Space, M!KeyGoes(s)
      PROVE  M!TypeOK'
  <2>1. companion_faults' \in Nat
    BY <1>2, OutcomeTyped DEF M!KeyGoes
  <2> QED  BY <1>2, <2>1 DEF M!KeyGoes, M!TypeOK, M!registers, M!sessions
<1>3. ASSUME NEW s \in Space, M!KeyReturns(s)
      PROVE  M!TypeOK'
  BY <1>3 DEF M!KeyReturns, M!TypeOK, M!registers, M!sessions
<1>4. CASE M!Tick
  BY <1>4 DEF M!Tick, M!TypeOK, M!registers, M!sessions
<1> QED  BY <1>1, <1>2, <1>3, <1>4 DEF BackupStep

LEMMA TypeEnd ==
  ASSUME M!CompanionAssumption, M!TypeOK, EndStep
  PROVE  M!TypeOK'
<1>1. CASE M!Open
  <2>1. companion_faults' \in Nat
    BY <1>1, OutcomeTyped DEF M!Open
  <2>2. companion_registry' \in M!Listing /\ companion_up' \in BOOLEAN
        /\ companion_open' \in SUBSET Space
    BY <1>1 DEF M!Open, M!TypeOK
  <2>3. companion_phase' \in [Space -> {"none", "running", "paused", "stopped"}]
    BY <1>1 DEF M!Open
  <2> QED  BY <1>1, <2>1, <2>2, <2>3 DEF M!Open, M!TypeOK, M!backups
<1>2. CASE M!Quit \/ M!Kill \/ M!PowerFails
  <2>1. companion_faults' \in Nat
    BY <1>2, OutcomeTyped DEF M!Quit, M!Kill, M!PowerFails, M!TypeOK
  <2>2. companion_file' \in M!Listing /\ companion_disk' \in M!Listing
    BY <1>2 DEF M!Quit, M!Kill, M!PowerFails, M!TypeOK
  <2>3. M!Ended
    <3>1. M!Quit => M!Ended
      BY Zenon DEF M!Quit
    <3>2. M!Kill => M!Ended
      BY Zenon DEF M!Kill
    <3>3. M!PowerFails => M!Ended
      BY Zenon DEF M!PowerFails
    <3> QED  BY <1>2, <3>1, <3>2, <3>3
  <2> QED  BY <2>1, <2>2, <2>3 DEF M!Ended, M!TypeOK, M!backups
<1> QED  BY <1>1, <1>2 DEF EndStep

LEMMA CompanionTypeStep ==
  ASSUME M!CompanionAssumption, M!TypeOK, [M!Next]_(M!vars)
  PROVE  M!TypeOK'
<1>1. CASE UNCHANGED M!vars
  BY <1>1 DEF M!vars, M!registers, M!sessions, M!backups, M!TypeOK
<1> QED  BY <1>1, NextSplits, TypeManager, TypeTask, TypeBackup, TypeEnd


-----------------------------------------------------------------------------
(* What always holds *)

LEMMA CompanionInit ==
  ASSUME M!CompanionAssumption, M!Init
  PROVE  CompanionInv
BY CompanionTypeInit
     DEF M!Init, CompanionInv, DownIsQuiet, FileFits, OpFits, RemovedFits, KeysFit,
     M!NoOp

LEMMA ManagerKeeps ==
  ASSUME M!CompanionAssumption, CompanionInv, ManagerStep
  PROVE  DownIsQuiet' /\ FileFits' /\ OpFits' /\ RemovedFits' /\ KeysFit'
<1>1. M!TypeOK /\ DownIsQuiet /\ FileFits /\ OpFits /\ RemovedFits /\ KeysFit
  BY DEF CompanionInv
<1>2. M!TypeOK'
  BY <1>1, TypeManager
<1>3. KeysFit'
  BY <1>1 DEF ManagerStep, KeysFit, M!PersistFails, M!PersistUncertain, M!Persist,
       M!Pause, M!Resume,
     M!Remove, M!Add, M!Change, M!Revoke, M!backups
<1>4. M!NoOp.pc = "none" /\ M!NoOp.space = "none" /\ "none" \notin Space
  BY NoneIsNoSpace DEF M!NoOp
<1>5. ASSUME companion_op.pc # "none"
      PROVE  /\ companion_up /\ companion_op # M!NoOp /\ companion_op.space \in Space
                /\ companion_op \in M!OpState
             /\ companion_op.kind \in {"add", "pause", "resume", "remove"}
             /\ companion_op.pc \in {"persist", "pause", "resume", "remove", "stop"}
             /\ companion_told[companion_op.space] # "removed"
  BY <1>1, <1>5, Underway DEF DownIsQuiet, RemovedFits
<1>6. ASSUME companion_op.pc = "persist"
      PROVE  \A s \in Space : companion_told[s] = "removed" /\ ~companion_fenced =>
               s # companion_op.space /\ M!Candidate[s] = "absent"
  <2> SUFFICES ASSUME NEW s \in Space, companion_told[s] = "removed", ~companion_fenced
               PROVE  s # companion_op.space /\ M!Candidate[s] = "absent"
    OBVIOUS
  <2>1. s # companion_op.space /\ companion_file[s] = "absent" /\ companion_up
    BY <1>1, <1>5, <1>6 DEF RemovedFits
  <2>2. companion_registry[s] = "absent"
    BY <1>1, <2>1 DEF FileFits
  <2> QED  BY <1>1, <1>6, <2>1, <2>2, CandidateListed
<1>7. CASE M!PersistFails
  <2>1. DownIsQuiet' /\ FileFits' /\ OpFits'
    BY <1>1, <1>5, <1>7 DEF M!PersistFails, DownIsQuiet, FileFits, OpFits, M!registers
  <2>2. RemovedFits'
    BY <1>1, <1>4, <1>5, <1>7
         DEF M!PersistFails, RemovedFits, M!Held, M!registers, M!TypeOK
  <2> QED  BY <1>3, <2>1, <2>2
<1>8. CASE M!PersistUncertain
  <2>1. DownIsQuiet' /\ FileFits' /\ OpFits'
    BY <1>1, <1>5, <1>8 DEF M!PersistUncertain, DownIsQuiet, FileFits, OpFits
  <2>2. RemovedFits'
    BY <1>1, <1>4, <1>5, <1>6, <1>8
         DEF M!PersistUncertain, RemovedFits, M!Held, M!TypeOK
  <2> QED  BY <1>3, <2>1, <2>2
<1>9. CASE M!Persist
  <2>1. DownIsQuiet' /\ FileFits'
    BY <1>1, <1>5, <1>9 DEF M!Persist, DownIsQuiet, FileFits
  <2>2. OpFits'
    <3>1. CASE companion_op.kind = "add"
      BY <1>9, <3>1 DEF M!Persist, OpFits
    <3>2. CASE companion_op.kind # "add"
      <4>1. companion_op' = [companion_op EXCEPT !.pc = companion_op.kind,
              !.todo = companion_peers[companion_op.space]]
        BY <1>9, <3>2 DEF M!Persist
      <4>2. companion_op'.kind = companion_op.kind
            /\ companion_op'.space = companion_op.space
            /\ companion_op'.pc = companion_op.kind
        BY <1>5, <1>9, <4>1 DEF M!Persist, M!OpState
      <4>3. companion_file'[companion_op.space] = companion_disk'[companion_op.space]
            /\ companion_told'[companion_op.space] = "unknown"
        BY <1>1, <1>5, <1>9, <3>2 DEF M!Persist, M!TypeOK
      <4>4. companion_file'[companion_op.space] = CASE companion_op.kind = "resume" -> "on"
                                [] companion_op.kind = "pause" -> "paused"
                                [] companion_op.kind = "remove" -> "absent"
        <5>1. companion_op.kind \in {"pause", "resume", "remove"}
          BY <1>5, <1>9, <3>2 DEF M!Persist
        <5> QED  BY <1>1, <1>9, <5>1, CandidateListed DEF M!Persist
      <4>5. companion_op.space \in companion_open' /\ ~companion_fenced'
        BY <1>1, <1>5, <1>9, <3>2 DEF M!Persist, OpFits
      <4> QED  BY <3>2, <4>2, <4>3, <4>4, <4>5 DEF OpFits
    <3> QED  BY <3>1, <3>2
  <2>3. RemovedFits'
    <3> SUFFICES ASSUME NEW s \in Space, companion_told'[s] = "removed"
                 PROVE  /\ companion_file'[s] = "absent"
                           /\ companion_disk'[s] = "absent"
                        /\ s \notin companion_open' /\ companion_op'.space # s
                        /\ companion_phase'[s] # "none" => M!Held(s)'
      BY DEF RemovedFits
    <3>1. companion_told[s] = "removed" /\ s # companion_op.space
      BY <1>1, <1>5, <1>9 DEF M!Persist, M!TypeOK
    <3>2. companion_op'.space = "none" \/ companion_op'.space = companion_op.space
      BY <1>4, <1>5, <1>9 DEF M!Persist, M!OpState
    <3> QED  BY <1>1, <1>4, <1>6, <1>9, <3>1, <3>2 DEF M!Persist, RemovedFits, M!Held
  <2> QED  BY <1>3, <2>1, <2>2, <2>3
<1>10. CASE M!Pause
  <2>1. DownIsQuiet' /\ FileFits' /\ OpFits'
    BY <1>1, <1>5, <1>10 DEF M!Pause, DownIsQuiet, FileFits, OpFits, M!registers
  <2>2. RemovedFits'
    BY <1>1, <1>4, <1>5, <1>10 DEF M!Pause, RemovedFits, M!Held, M!registers, M!TypeOK
  <2> QED  BY <1>3, <2>1, <2>2
<1>11. CASE M!Resume
  <2>1. DownIsQuiet' /\ FileFits' /\ OpFits'
    BY <1>1, <1>5, <1>11 DEF M!Resume, DownIsQuiet, FileFits, OpFits, M!registers
  <2>2. RemovedFits'
    BY <1>1, <1>4, <1>5, <1>11 DEF M!Resume, RemovedFits, M!Held, M!registers, M!TypeOK
  <2> QED  BY <1>3, <2>1, <2>2
<1>12. CASE M!Remove
  <2>1. DownIsQuiet' /\ FileFits' /\ OpFits'
    BY <1>1, <1>5, <1>12 DEF M!Remove, DownIsQuiet, FileFits, OpFits, M!registers
  <2>2. companion_op.pc \in {"remove", "stop"} /\ companion_op.kind = "remove"
    BY <1>1, <1>5, <1>12 DEF M!Remove, OpFits
  <2>3. companion_file[companion_op.space] = "absent"
        /\ companion_disk[companion_op.space] = "absent"
    BY <1>1, <1>5, <2>2 DEF OpFits
  <2>4. companion_task' = companion_task /\ companion_op' = M!NoOp
        /\ companion_open' = companion_open \ {companion_op.space}
    BY <1>12 DEF M!Remove
  <2>5. companion_phase'[companion_op.space] =
          IF M!Held(companion_op.space) THEN "stopped" ELSE "none"
    <3>1. companion_phase' =
            [companion_phase EXCEPT ![companion_op.space] =
               M!Dropped(companion_op.space, companion_open \ {companion_op.space})]
      BY <1>12, <2>4 DEF M!Remove
    <3>2. M!Dropped(companion_op.space, companion_open \ {companion_op.space}) =
            IF M!Held(companion_op.space) THEN "stopped" ELSE "none"
      BY DEF M!Dropped
    <3>3. companion_op.space \in Space
          /\ companion_phase \in [Space -> {"none", "running", "paused", "stopped"}]
      BY <1>1, <1>5, <2>2 DEF M!TypeOK
    <3> QED  BY <3>1, <3>2, <3>3
  <2>6. ASSUME NEW s \in Space, s # companion_op.space
        PROVE  companion_phase'[s] = companion_phase[s]
               /\ companion_told'[s] = companion_told[s]
    BY <1>1, <1>12, <2>6 DEF M!Remove, M!TypeOK
  <2>7. RemovedFits'
    <3> SUFFICES ASSUME NEW s \in Space, companion_told'[s] = "removed"
                 PROVE  /\ companion_file'[s] = "absent"
                           /\ companion_disk'[s] = "absent"
                        /\ s \notin companion_open' /\ companion_op'.space # s
                        /\ companion_phase'[s] # "none" => M!Held(s)'
      BY DEF RemovedFits
    <3>1. companion_file' = companion_file /\ companion_disk' = companion_disk
          /\ companion_op'.space = "none" /\ (M!Held(s)' <=> M!Held(s))
      BY <1>4, <1>12, <2>4 DEF M!Remove, M!registers, M!Held
    <3>2. CASE s = companion_op.space
      BY <1>4, <2>3, <2>4, <2>5, <3>1, <3>2
    <3>3. CASE s # companion_op.space
      BY <1>1, <1>4, <2>4, <2>6, <3>1, <3>3 DEF RemovedFits
    <3> QED  BY <3>2, <3>3
  <2> QED  BY <1>3, <2>1, <2>7
<1>13. ASSUME NEW s \in Space, M!Add(s)
       PROVE  DownIsQuiet' /\ FileFits' /\ OpFits' /\ RemovedFits'
  BY <1>1, <1>13
       DEF M!Add, M!Command, DownIsQuiet, FileFits, OpFits, RemovedFits, M!Held,
     M!registers, M!TypeOK
<1>14. ASSUME NEW s \in Space, NEW kind \in {"pause", "resume", "remove"},
                M!Change(kind, s)
       PROVE  DownIsQuiet' /\ FileFits' /\ OpFits' /\ RemovedFits'
  BY <1>1, <1>14
       DEF M!Change, M!Command, DownIsQuiet, FileFits, OpFits, RemovedFits, M!Held,
     M!registers, M!sessions, M!TypeOK
<1>15. ASSUME NEW p \in Peer, M!Revoke(p)
       PROVE  DownIsQuiet' /\ FileFits' /\ OpFits' /\ RemovedFits'
  <2>1. companion_op'.space = companion_op.space
        /\ companion_op'.kind = companion_op.kind
        /\ companion_op'.pc \in {"remove", "stop"}
    BY <1>5, <1>15 DEF M!Revoke, M!OpState
  <2>2. companion_op.kind = "remove" /\ companion_op # M!NoOp
    BY <1>1, <1>5, <1>15 DEF M!Revoke, OpFits
  <2>3. DownIsQuiet' /\ FileFits'
    BY <1>1, <1>5, <1>15 DEF M!Revoke, DownIsQuiet, FileFits, M!registers
  <2>4. OpFits'
    BY <1>1, <1>15, <2>1, <2>2 DEF M!Revoke, OpFits, M!registers
  <2>5. RemovedFits'
    BY <1>1, <1>15, <2>1 DEF M!Revoke, RemovedFits, M!Held, M!registers
  <2> QED  BY <2>3, <2>4, <2>5
<1> QED  BY <1>3, <1>7, <1>8, <1>9, <1>10, <1>11, <1>12, <1>13, <1>14, <1>15
              DEF ManagerStep

LEMMA TaskKeeps ==
  ASSUME M!CompanionAssumption, CompanionInv, TaskStep
  PROVE  DownIsQuiet' /\ FileFits' /\ OpFits' /\ RemovedFits' /\ KeysFit'
<1>1. M!TypeOK /\ DownIsQuiet /\ FileFits /\ OpFits /\ RemovedFits /\ KeysFit
  BY DEF CompanionInv
<1>2. /\ UNCHANGED <<companion_file, companion_disk, companion_registry, companion_up,
           companion_fenced, companion_open, companion_op, companion_told,
           companion_store, companion_lost, companion_saves>>
      /\ companion_up
  <2>1. UNCHANGED <<companion_file, companion_disk, companion_registry, companion_up,
          companion_fenced, companion_open, companion_op, companion_told,
          companion_store, companion_lost, companion_saves>>
    BY DEF TaskStep, M!Enrol, M!Grab, M!ReadPhase, M!StopSession, M!RestartSession,
         M!registers,
       M!sessions, M!backups
  <2>2. companion_open # {} \/ (\E t \in Task : companion_task[t].pc # "none") =>
          companion_up
    BY <1>1 DEF DownIsQuiet, M!NoTask
  <2>3. companion_open # {} \/ \E t \in Task : companion_task[t].pc # "none"
    BY DEF TaskStep, M!Enrol, M!Grab, M!ReadPhase, M!StopSession, M!RestartSession
  <2> QED  BY <2>1, <2>2, <2>3
<1>3. DownIsQuiet' /\ FileFits' /\ OpFits' /\ KeysFit'
  BY <1>1, <1>2 DEF DownIsQuiet, FileFits, OpFits, KeysFit
<1>4. RemovedFits'
  <2> SUFFICES ASSUME NEW s \in Space, companion_told[s] = "removed",
                        companion_phase'[s] # "none"
               PROVE  \E t \in Task : companion_task'[t].space = s
    BY <1>1, <1>2 DEF RemovedFits, M!Held
  <2>1. /\ companion_phase[s] # "none" => \E t \in Task : companion_task[t].space = s
        /\ s \notin companion_open
    BY <1>1 DEF RemovedFits, M!Held
  <2>2. ASSUME NEW q \in Space, NEW p \in Peer, M!Enrol(q, p)
        PROVE  \E t \in Task : companion_task'[t].space = s
    BY <2>1, <2>2 DEF M!Enrol
  <2>3. ASSUME NEW q \in Space, NEW t \in Task, M!Grab(t, q)
        PROVE  \E u \in Task : companion_task'[u].space = s
    <3>1. companion_phase' = companion_phase /\ companion_task[t].space = "none"
          /\ \A u \in Task : u # t => companion_task'[u] = companion_task[u]
      BY <2>3 DEF M!Grab, M!sessions, M!NoTask
    <3> QED  BY <2>1, <3>1, NoneIsNoSpace
  <2>4. ASSUME NEW t \in Task, M!ReadPhase(t) \/ M!StopSession(t)
        PROVE  \E u \in Task : companion_task'[u].space = s
    <3>1. companion_task[t] \in M!TaskState
      BY <1>1, <2>4 DEF M!ReadPhase, M!StopSession, M!TypeOK, M!NoTask
    <3>2. \A u \in Task : companion_task'[u].space = companion_task[u].space
      BY <1>1, <2>4, <3>1 DEF M!ReadPhase, M!StopSession, M!TypeOK, M!TaskState
    <3>3. companion_phase[s] # "none" \/ s = companion_task[t].space
      BY <1>1, <2>4 DEF M!ReadPhase, M!StopSession, M!sessions, M!TypeOK
    <3> QED  BY <2>1, <3>2, <3>3
  <2>5. ASSUME NEW t \in Task, M!RestartSession(t)
        PROVE  \E u \in Task : companion_task'[u].space = s
    <3>1. \A u \in Task \ {t} : companion_task'[u] = companion_task[u]
      BY <1>1, <2>5 DEF M!RestartSession, M!TypeOK
    <3>2. CASE s = companion_task[t].space
      BY <1>1, <2>1, <2>5, <3>1, <3>2 DEF M!RestartSession, M!TypeOK
    <3>3. CASE s # companion_task[t].space
      BY <1>1, <2>1, <2>5, <3>1, <3>3 DEF M!RestartSession, M!TypeOK
    <3> QED  BY <3>2, <3>3
  <2> QED  BY <2>2, <2>3, <2>4, <2>5 DEF TaskStep
<1> QED  BY <1>3, <1>4

LEMMA BackupKeeps ==
  ASSUME M!CompanionAssumption, CompanionInv, BackupStep
  PROVE  DownIsQuiet' /\ FileFits' /\ OpFits' /\ RemovedFits' /\ KeysFit'
<1>1. M!TypeOK /\ DownIsQuiet /\ FileFits /\ OpFits /\ RemovedFits /\ KeysFit
  BY DEF CompanionInv
<1>2. UNCHANGED <<companion_file, companion_disk, companion_registry, companion_up,
        companion_fenced, companion_open, companion_phase, companion_op, companion_task,
        companion_told>>
  BY DEF BackupStep, M!Backup, M!KeyGoes, M!KeyReturns, M!Tick, M!registers, M!sessions
<1>3. DownIsQuiet' /\ FileFits' /\ OpFits' /\ RemovedFits'
  BY <1>1, <1>2 DEF DownIsQuiet, FileFits, OpFits, RemovedFits, M!Held
<1>4. ASSUME NEW s \in Space, M!Backup(s)
      PROVE  KeysFit'
  <2>1. PICK k, far, left : BackupWay(s, k, far, left)
    BY <1>1, <1>4, BackupLeaves
  <2>2. k # 0 /\ \A x \in companion_saves[s] : x.key = k
    BY <1>1, <2>1 DEF BackupWay, M!BackupKey, KeysFit, M!TypeOK
  <2>3. companion_saves'[s] \subseteq companion_saves[s] \cup {TheBackup(k)}
    BY <1>1, <2>1 DEF BackupWay, M!TypeOK
  <2>4. \A x \in companion_saves'[s] : x.key = k
    BY <2>2, <2>3 DEF TheBackup
  <2>5. companion_store'[s] = k /\ \A q \in Space : q # s =>
          companion_store'[q] = companion_store[q]
          /\ companion_saves'[q] = companion_saves[q]
    BY <1>1, <2>1 DEF BackupWay, M!TypeOK
  <2>6. companion_lost' = companion_lost
    BY <1>4 DEF M!Backup
  <2> QED  BY <1>1, <2>2, <2>4, <2>5, <2>6 DEF KeysFit
<1>5. ASSUME NEW s \in Space, M!KeyGoes(s) \/ M!KeyReturns(s)
      PROVE  KeysFit'
  BY <1>1, <1>5 DEF M!KeyGoes, M!KeyReturns, KeysFit, M!TypeOK
<1>6. CASE M!Tick
  <2>1. companion_store' = companion_store /\ companion_lost' = companion_lost
        /\ companion_saves' = companion_saves
    BY <1>6 DEF M!Tick
  <2> QED  BY <1>1, <1>3, <2>1 DEF KeysFit
<1> QED  BY <1>3, <1>4, <1>5, <1>6 DEF BackupStep

LEMMA EndKeeps ==
  ASSUME M!CompanionAssumption, CompanionInv, EndStep
  PROVE  DownIsQuiet' /\ FileFits' /\ OpFits' /\ RemovedFits' /\ KeysFit'
<1>1. M!TypeOK /\ DownIsQuiet /\ FileFits /\ OpFits /\ RemovedFits /\ KeysFit
  BY DEF CompanionInv
<1>2. KeysFit'
  BY <1>1 DEF EndStep, M!Open, M!Quit, M!Kill, M!PowerFails, M!Ended, KeysFit, M!backups
<1>3. CASE M!Open
  <2>1. companion_op = M!NoOp /\ \A t \in Task : companion_task[t] = M!NoTask
    BY <1>1, <1>3 DEF M!Open, DownIsQuiet
  <2>2. DownIsQuiet' /\ FileFits' /\ OpFits'
    BY <1>1, <1>3, <2>1 DEF M!Open, DownIsQuiet, FileFits, OpFits
  <2>3. RemovedFits'
    BY <1>1, <1>3, <2>1, NoneIsNoSpace DEF M!Open, RemovedFits, M!NoOp
  <2> QED  BY <1>2, <2>2, <2>3
<1>4. CASE M!Quit \/ M!Kill \/ M!PowerFails
  <2>1. M!Ended
    BY <1>4 DEF M!Quit, M!Kill, M!PowerFails
  <2>2. \A s \in Space : companion_file[s] = "absent" /\ companion_disk[s] = "absent" =>
          companion_file'[s] = "absent" /\ companion_disk'[s] = "absent"
    BY <1>4 DEF M!Quit, M!Kill, M!PowerFails
  <2>3. DownIsQuiet' /\ FileFits' /\ OpFits'
    BY <2>1 DEF M!Ended, DownIsQuiet, FileFits, OpFits
  <2>4. RemovedFits'
    BY <1>1, <2>1, <2>2, NoneIsNoSpace DEF M!Ended, RemovedFits, M!NoOp
  <2> QED  BY <1>2, <2>3, <2>4
<1> QED  BY <1>3, <1>4 DEF EndStep

LEMMA CompanionStep ==
  ASSUME M!CompanionAssumption, CompanionInv, [M!Next]_(M!vars)
  PROVE  CompanionInv'
<1>1. M!TypeOK'
  BY CompanionTypeStep DEF CompanionInv
<1>2. CASE UNCHANGED M!vars
  <2>1. UNCHANGED <<companion_file, companion_disk, companion_registry, companion_up,
          companion_fenced, companion_open, companion_phase, companion_op,
          companion_task, companion_told, companion_store, companion_lost,
                    companion_saves>>
    BY <1>2 DEF M!vars, M!registers, M!sessions, M!backups
  <2>2. DownIsQuiet' /\ FileFits' /\ OpFits' /\ KeysFit'
    BY <2>1 DEF CompanionInv, DownIsQuiet, FileFits, OpFits, KeysFit
  <2>3. RemovedFits'
    BY <2>1 DEF CompanionInv, RemovedFits, M!Held
  <2> QED  BY <1>1, <2>2, <2>3 DEF CompanionInv
<1>3. CASE M!Next
  BY <1>1, <1>3, NextSplits, ManagerKeeps, TaskKeeps, BackupKeeps, EndKeeps
       DEF CompanionInv
<1> QED  BY <1>2, <1>3

-----------------------------------------------------------------------------
(* With device commands apart from the manager's *)

LEMMA RunsManager ==
  ASSUME M!CompanionAssumption, Apart, CompanionInv, RunsFit, ManagerStep
  PROVE  RunsFit'
<1>1. M!TypeOK /\ DownIsQuiet /\ FileFits /\ OpFits
  BY DEF CompanionInv
<1>2. M!TypeOK' /\ companion_scope \in ManagerScopes /\ ~companion_scope.overlap
  BY <1>1, TypeManager DEF Apart, M!TypeOK
<1>3. M!NoOp.pc = "none" /\ M!NoOp.space = "none" /\ "none" \notin Space
  BY NoneIsNoSpace DEF M!NoOp
<1>4. ASSUME companion_op.pc # "none"
      PROVE  /\ companion_up /\ companion_op # M!NoOp /\ companion_op.space \in Space
                /\ companion_op \in M!OpState
             /\ companion_op.kind \in {"add", "pause", "resume", "remove"}
             /\ companion_op.pc \in {"persist", "pause", "resume", "remove", "stop"}
  BY <1>1, <1>4, Underway DEF DownIsQuiet
<1>5. companion_task' = companion_task /\ \A t \in Task : companion_task[t] = M!NoTask
  BY <1>2, <1>4
       DEF RunsFit, ManagerStep, M!PersistFails, M!PersistUncertain, M!Persist, M!Pause,
     M!Resume, M!Remove, M!Add, M!Change, M!Command, M!Revoke
<1>6. SUFFICES ASSUME NEW s \in Space
               PROVE  /\ companion_phase'[s] = "running" =>
                           \/ s \in companion_open' /\ companion_file'[s] = "on"
                              /\ ~companion_fenced'
                           \/ /\ s = companion_op'.space
                              /\ companion_op'.kind = "add"
                                 \/ companion_op'.pc # "persist"
                      /\ companion_told'[s] = "paused" => companion_file'[s] = "paused"
                           /\ companion_disk'[s] = "paused"
  BY <1>5 DEF RunsFit, M!NoTask
<1>7. /\ companion_phase[s] = "running" =>
           \/ s \in companion_open /\ companion_file[s] = "on" /\ ~companion_fenced
           \/ /\ s = companion_op.space
              /\ companion_op.kind = "add" \/ companion_op.pc # "persist"
      /\ companion_told[s] = "paused" => companion_file[s] = "paused"
           /\ companion_disk[s] = "paused"
  BY DEF RunsFit
<1>8. ASSUME companion_op.pc = "persist", ~companion_fenced, s # companion_op.space
      PROVE  M!Candidate[s] = companion_file[s]
  BY <1>1, <1>4, <1>8, CandidateListed DEF FileFits
<1>9. CASE M!PersistFails
  <2>1. /\ companion_op.pc = "persist" /\ companion_op' = M!NoOp
        /\ UNCHANGED <<companion_file, companion_disk, companion_open, companion_fenced,
                       companion_told>>
    BY <1>9 DEF M!PersistFails, M!registers
  <2>2. s = companion_op.space /\ companion_op.kind = "add" =>
          companion_phase'[s] = "none"
    BY <1>1, <1>9 DEF M!PersistFails, M!TypeOK
  <2>3. s # companion_op.space \/ companion_op.kind # "add" =>
          companion_phase'[s] = companion_phase[s]
    BY <1>1, <1>9 DEF M!PersistFails, M!TypeOK
  <2> QED  BY <1>7, <2>1, <2>2, <2>3
<1>10. CASE M!PersistUncertain
  <2>1. companion_phase'[s] = IF s \in companion_open THEN "stopped"
                              ELSE IF s = companion_op.space THEN "none"
                              ELSE companion_phase[s]
    BY <1>10 DEF M!PersistUncertain
  <2>2. companion_told'[s] =
          IF s = companion_op.space THEN "unknown" ELSE companion_told[s]
    BY <1>1, <1>10 DEF M!PersistUncertain, M!TypeOK
  <2>3. companion_file' = M!Candidate /\ companion_disk' = companion_disk
        /\ companion_op.pc = "persist" /\ ~companion_fenced
    BY <1>10 DEF M!PersistUncertain
  <2> QED  BY <1>7, <1>8, <2>1, <2>2, <2>3
<1>11. CASE M!Persist
  <2>1. /\ companion_file' = M!Candidate /\ companion_disk' = M!Candidate
           /\ companion_op.pc = "persist" /\ ~companion_fenced
        /\ companion_phase' = companion_phase /\ companion_fenced' = companion_fenced
    BY <1>11 DEF M!Persist
  <2>2. companion_told'[s] = IF s # companion_op.space THEN companion_told[s]
                             ELSE IF companion_op.kind = "add" THEN "on" ELSE "unknown"
    BY <1>1, <1>11 DEF M!Persist, M!TypeOK
  <2>3. /\ companion_open' = IF companion_op.kind = "add" THEN companion_open \cup
             {companion_op.space} ELSE companion_open
        /\ companion_op.kind = "add" => M!Candidate[companion_op.space] = "on"
    BY <1>1, <1>11, <2>1, CandidateListed DEF M!Persist
  <2>4. companion_op.kind # "add" => companion_op'.space = companion_op.space
          /\ companion_op'.pc # "persist"
    <3>1. companion_op.kind # "add" =>
            companion_op' = [companion_op EXCEPT !.pc = companion_op.kind,
                               !.todo = companion_peers[companion_op.space]]
      BY <1>11 DEF M!Persist
    <3> QED  BY <1>4, <2>1, <3>1 DEF M!OpState
  <2> QED  BY <1>7, <1>8, <2>1, <2>2, <2>3, <2>4
<1>12. ASSUME companion_op.pc # "none", companion_op.pc # "persist"
       PROVE  /\ companion_op.space \in companion_open /\ ~companion_fenced
                 /\ companion_told[companion_op.space] = "unknown"
              /\ companion_op.pc = companion_op.kind
                 \/ (companion_op.kind = "remove" /\ companion_op.pc = "stop")
              /\ companion_op.kind # "add"
                 /\ companion_disk[companion_op.space] = companion_file[companion_op.space]
              /\ companion_op.kind = "resume" =>
                   companion_file[companion_op.space] = "on"
              /\ companion_op.kind = "pause" =>
                   companion_file[companion_op.space] = "paused"
  BY <1>1, <1>4, <1>12 DEF OpFits
<1>13. CASE M!Pause
  <2>1. companion_phase'[s] =
          IF s = companion_op.space THEN "paused" ELSE companion_phase[s]
    BY <1>1, <1>13 DEF M!Pause, M!TypeOK
  <2>2. companion_told'[s] = companion_told[s] \/ s = companion_op.space
    BY <1>1, <1>13 DEF M!Pause, M!TypeOK
  <2>3. companion_op.pc = "pause" /\ UNCHANGED <<companion_file, companion_disk,
          companion_open, companion_fenced>>
    BY <1>13 DEF M!Pause, M!registers
  <2> QED  BY <1>7, <1>12, <2>1, <2>2, <2>3
<1>14. CASE M!Resume
  <2>1. companion_phase'[s] = companion_phase[s] \/ s = companion_op.space
    BY <1>1, <1>14 DEF M!Resume, M!TypeOK
  <2>2. companion_told'[s] = companion_told[s]
        \/ (s = companion_op.space /\ companion_told'[s] = "on")
    BY <1>1, <1>14 DEF M!Resume, M!TypeOK
  <2>3. companion_op.pc = "resume" /\ UNCHANGED <<companion_file, companion_disk,
          companion_open, companion_fenced>>
    BY <1>14 DEF M!Resume, M!registers
  <2> QED  BY <1>7, <1>12, <2>1, <2>2, <2>3
<1>15. CASE M!Remove
  <2>1. companion_op.pc \in {"remove", "stop"}
        /\ UNCHANGED <<companion_file, companion_disk, companion_fenced>>
        /\ companion_open' = companion_open \ {companion_op.space}
    BY <1>15 DEF M!Remove, M!registers
  <2>2. s = companion_op.space => companion_phase'[s] # "running"
          /\ companion_told'[s] # "paused"
    BY <1>1, <1>15 DEF M!Remove, M!Dropped, M!TypeOK
  <2>3. s # companion_op.space => companion_phase'[s] = companion_phase[s]
          /\ companion_told'[s] = companion_told[s]
    BY <1>1, <1>15 DEF M!Remove, M!TypeOK
  <2> QED  BY <1>7, <2>1, <2>2, <2>3
<1>16. ASSUME NEW q \in Space, M!Add(q)
       PROVE  /\ companion_phase'[s] = "running" =>
                   \/ s \in companion_open' /\ companion_file'[s] = "on"
                      /\ ~companion_fenced'
                   \/ s = companion_op'.space
                      /\ (companion_op'.kind = "add" \/ companion_op'.pc # "persist")
              /\ companion_told'[s] = "paused" => companion_file'[s] = "paused"
                   /\ companion_disk'[s] = "paused"
  <2>1. /\ companion_op = M!NoOp /\ companion_op'.kind = "add"
           /\ companion_op'.space = q
        /\ UNCHANGED <<companion_file, companion_disk, companion_open, companion_fenced,
             companion_told>>
    BY <1>16 DEF M!Add, M!Command, M!registers
  <2>2. companion_phase'[s] = companion_phase[s] \/ s = q
    BY <1>1, <1>16 DEF M!Add, M!TypeOK
  <2> QED  BY <1>3, <1>7, <2>1, <2>2
<1>17. ASSUME NEW q \in Space, NEW kind \in {"pause", "resume", "remove"},
                M!Change(kind, q)
       PROVE  /\ companion_phase'[s] = "running" =>
                   \/ s \in companion_open' /\ companion_file'[s] = "on"
                      /\ ~companion_fenced'
                   \/ s = companion_op'.space
                      /\ (companion_op'.kind = "add" \/ companion_op'.pc # "persist")
              /\ companion_told'[s] = "paused" => companion_file'[s] = "paused"
                   /\ companion_disk'[s] = "paused"
  <2>1. companion_op = M!NoOp /\ UNCHANGED <<companion_file, companion_disk,
          companion_open, companion_fenced, companion_told, companion_phase>>
    BY <1>17 DEF M!Change, M!Command, M!registers, M!sessions
  <2> QED  BY <1>3, <1>7, <2>1
<1>18. ASSUME NEW p \in Peer, M!Revoke(p)
       PROVE  /\ companion_phase'[s] = "running" =>
                   \/ s \in companion_open' /\ companion_file'[s] = "on"
                      /\ ~companion_fenced'
                   \/ s = companion_op'.space
                      /\ (companion_op'.kind = "add" \/ companion_op'.pc # "persist")
              /\ companion_told'[s] = "paused" => companion_file'[s] = "paused"
                   /\ companion_disk'[s] = "paused"
  <2>1. UNCHANGED <<companion_file, companion_disk, companion_open, companion_fenced,
          companion_told, companion_phase>>
    BY <1>18 DEF M!Revoke, M!registers
  <2>2. companion_op'.space = companion_op.space /\ companion_op'.pc # "persist"
    BY <1>4, <1>18 DEF M!Revoke, M!OpState
  <2> QED  BY <1>7, <2>1, <2>2
<1> QED  BY <1>9, <1>10, <1>11, <1>13, <1>14, <1>15, <1>16, <1>17, <1>18 DEF ManagerStep

LEMMA RunsTask ==
  ASSUME M!CompanionAssumption, Apart, CompanionInv, RunsFit, TaskStep
  PROVE  RunsFit'
<1>1. M!TypeOK /\ companion_scope \in ManagerScopes /\ ~companion_scope.overlap
  BY DEF CompanionInv, M!TypeOK, Apart
<1>2. UNCHANGED <<companion_file, companion_disk, companion_fenced, companion_open,
        companion_op, companion_told>>
  BY DEF TaskStep, M!Enrol, M!Grab, M!ReadPhase, M!StopSession, M!RestartSession,
       M!registers, M!sessions,
     M!backups
<1>3. M!NoOp.space = "none" /\ "none" \notin Space
  BY NoneIsNoSpace DEF M!NoOp
<1>4. ASSUME NEW t \in Task, companion_task[t].pc # "none"
      PROVE  companion_op = M!NoOp /\ companion_task[t] # M!NoTask
             /\ companion_task[t] \in M!TaskState
  BY <1>1, <1>4 DEF RunsFit, M!NoTask, M!TypeOK
<1>5. ASSUME NEW s \in Space, NEW p \in Peer, M!Enrol(s, p)
      PROVE  RunsFit'
  BY <1>2, <1>5 DEF M!Enrol, RunsFit
<1>6. ASSUME NEW s \in Space, NEW t \in Task, M!Grab(t, s)
      PROVE  RunsFit'
  <2>1. companion_op = M!NoOp /\ companion_phase' = companion_phase
    BY <1>6 DEF M!Grab, M!sessions
  <2>2. ~companion_task'[t].running /\ \A u \in Task : u # t =>
          companion_task'[u] = companion_task[u]
    BY <1>1, <1>6 DEF M!Grab, M!TypeOK
  <2> QED  BY <1>2, <2>1, <2>2 DEF RunsFit
<1>7. ASSUME NEW t \in Task, M!ReadPhase(t)
      PROVE  RunsFit'
  <2>1. companion_op = M!NoOp /\ companion_phase' = companion_phase
        /\ companion_task[t] \in M!TaskState
    BY <1>4, <1>7 DEF M!ReadPhase, M!sessions
  <2>2. /\ companion_task'[t].space = companion_task[t].space
        /\ companion_task'[t].running =>
             companion_phase[companion_task[t].space] = "running"
        /\ \A u \in Task : u # t => companion_task'[u] = companion_task[u]
    BY <1>1, <1>7, <2>1 DEF M!ReadPhase, M!TypeOK, M!TaskState
  <2>3. companion_task[t].space \in Space
    BY <2>1 DEF M!TaskState
  <2> QED  BY <1>2, <1>3, <2>1, <2>2, <2>3 DEF RunsFit
<1>8. ASSUME NEW t \in Task, M!StopSession(t)
      PROVE  RunsFit'
  <2>1. companion_op = M!NoOp /\ companion_task[t] # M!NoTask
        /\ companion_task[t] \in M!TaskState
    BY <1>4, <1>8 DEF M!StopSession
  <2>2. /\ companion_task'[t].space = companion_task[t].space
           /\ companion_task'[t].running = companion_task[t].running
        /\ \A u \in Task : u # t => companion_task'[u] = companion_task[u]
    BY <1>1, <1>8, <2>1 DEF M!StopSession, M!TypeOK, M!TaskState
  <2>3. \A s \in Space : companion_phase'[s] = "running" =>
          companion_phase[s] = "running"
    BY <1>1, <1>8 DEF M!StopSession, M!TypeOK
  <2> QED  BY <1>2, <2>1, <2>2, <2>3 DEF RunsFit
<1>9. ASSUME NEW t \in Task, M!RestartSession(t)
      PROVE  RunsFit'
  <2>1. companion_op = M!NoOp /\ companion_task[t] # M!NoTask
        /\ companion_task[t] \in M!TaskState
    BY <1>4, <1>9 DEF M!RestartSession
  <2>2. companion_task'[t] = M!NoTask /\ \A u \in Task : u # t =>
          companion_task'[u] = companion_task[u]
    BY <1>1, <1>9 DEF M!RestartSession, M!TypeOK
  <2>3. \A s \in Space : companion_phase'[s] = "running" =>
          companion_phase[s] = "running"
          \/ (s = companion_task[t].space /\ companion_task[t].running)
    BY <1>1, <1>9 DEF M!RestartSession, M!TypeOK
  <2> QED  BY <1>2, <2>1, <2>2, <2>3 DEF RunsFit
<1> QED  BY <1>5, <1>6, <1>7, <1>8, <1>9 DEF TaskStep

LEMMA RunsOther ==
  ASSUME M!CompanionAssumption, Apart, CompanionInv, RunsFit,
         BackupStep \/ EndStep \/ UNCHANGED M!vars
  PROVE  RunsFit'
<1>1. CASE BackupStep \/ UNCHANGED M!vars
  <2>1. UNCHANGED <<companion_file, companion_disk, companion_fenced, companion_open,
          companion_op, companion_told, companion_task, companion_phase>>
    BY <1>1 DEF BackupStep, M!Backup, M!KeyGoes, M!KeyReturns, M!Tick, M!vars,
         M!registers, M!sessions
  <2> QED  BY <2>1 DEF RunsFit
<1>2. CASE M!Open
  <2>1. companion_op' = M!NoOp /\ \A t \in Task : companion_task'[t] = M!NoTask
    BY <1>2 DEF M!Open, CompanionInv, DownIsQuiet
  <2>2. \A s \in Space : companion_phase'[s] = "running" => s \in companion_open'
          /\ companion_file'[s] = "on" /\ ~companion_fenced'
    BY <1>2 DEF M!Open
  <2>3. UNCHANGED <<companion_file, companion_disk, companion_told>>
    BY <1>2 DEF M!Open
  <2> QED  BY <2>1, <2>2, <2>3 DEF RunsFit
<1>3. CASE M!Quit \/ M!Kill \/ M!PowerFails
  <2>1. M!Ended
    BY <1>3 DEF M!Quit, M!Kill, M!PowerFails
  <2>2. \A s \in Space : companion_file[s] = "paused" /\ companion_disk[s] = "paused" =>
          companion_file'[s] = "paused" /\ companion_disk'[s] = "paused"
    BY <1>3 DEF M!Quit, M!Kill, M!PowerFails
  <2> QED  BY <2>1, <2>2 DEF M!Ended, RunsFit
<1> QED  BY <1>1, <1>2, <1>3 DEF EndStep

LEMMA RunsInit ==
  ASSUME M!CompanionAssumption, M!Init
  PROVE  RunsFit
BY DEF M!Init, RunsFit

LEMMA RunsStep ==
  ASSUME M!CompanionAssumption, Apart, CompanionInv, RunsFit, [M!Next]_(M!vars)
  PROVE  RunsFit'
BY NextSplits, RunsManager, RunsTask, RunsOther

\* What runs is shown unpaused by the file, or a command under way is about to
\* stop it and has promised nothing yet.
LEMMA RunsPaused ==
  ASSUME M!CompanionAssumption, CompanionInv, RunsFit
  PROVE  M!PauseSustained
<1> SUFFICES ASSUME NEW s \in Space, companion_told[s] = "paused",
                      companion_phase[s] = "running"
             PROVE  FALSE
  BY DEF M!PauseSustained
<1>1. companion_file[s] = "paused"
  BY DEF RunsFit
<1>2. s = companion_op.space
      /\ (companion_op.kind = "add" \/ companion_op.pc # "persist")
  BY <1>1 DEF RunsFit
<1>3. companion_op # M!NoOp
  BY <1>2, NoneIsNoSpace DEF M!NoOp
<1> QED  BY <1>2, <1>3 DEF CompanionInv, OpFits

LEMMA RunsRegistered ==
  ASSUME M!CompanionAssumption, RunsFit
  PROVE  M!AsRegistered
<1> SUFFICES ASSUME companion_op = M!NoOp, NEW s \in Space,
                      companion_phase[s] = "running"
             PROVE  s \in companion_open /\ companion_file[s] = "on"
                    /\ ~companion_fenced
  BY DEF M!AsRegistered, M!AtRest
<1>1. s # companion_op.space
  BY NoneIsNoSpace DEF M!NoOp
<1> QED  BY <1>1 DEF RunsFit

-----------------------------------------------------------------------------
(* Retention *)

\* The two countings are one.
LEMMA SameCount ==
  ASSUME NEW S
  PROVE  M!Cardinality(S) = Cardinality(S)
BY DEF M!Cardinality, Cardinality

\* What retention leaves, wherever it ends, has as many later names as it had, or
\* as are retained: of the names it removed, the one with the fewest later names
\* has all of those left, and would be kept with fewer.
LEMMA RemainsEnough ==
  ASSUME M!CompanionAssumption, NEW names, IsFiniteSet(names),
         \A x \in names : x.time \in Nat,
         NEW left \in M!Remains(names), NEW time \in Nat,
         Cardinality({x \in names : x.time > time}) >= Retain
  PROVE  Cardinality({x \in left : x.time > time}) >= Retain
<1> DEFINE After(t) == {x \in names : x.time > t}
           Missing == After(time) \ left
           Ends == {After(q.time) : q \in Missing}
           there == {x \in left : x.time > time}
<1> SUFFICES ASSUME ~ (Cardinality(there) >= Retain)
             PROVE  FALSE
  OBVIOUS
<1>1. Retain \in Nat /\ left \subseteq names /\ M!Kept(names) \subseteq left
      /\ \A x \in left, y \in names : y.time > x.time => y \in left
  BY DEF M!CompanionAssumption, M!Remains
<1>2. /\ IsFiniteSet(there) /\ Cardinality(there) \in Nat
      /\ \A t \in Nat : IsFiniteSet(After(t)) /\ Cardinality(After(t)) \in Nat
  <2>1. there \subseteq names /\ \A t \in Nat : After(t) \subseteq names
    BY <1>1
  <2> QED  BY <2>1, FS_Subset, FS_CardinalityType
<1>3. Missing # {}
  <2> SUFFICES ASSUME Missing = {} PROVE FALSE
    OBVIOUS
  <2>1. After(time) = there
    BY <1>1
  <2> QED  BY <2>1
<1>4. Ends \subseteq FiniteSubsetsOf(names) /\ Ends # {}
  <2>1. Ends \in SUBSET (SUBSET names) /\ Ends # {}
    BY <1>3
  <2>2. FiniteSubsetsOf(names) = SUBSET names
    BY FS_FiniteSubsetsOfFinite
  <2> HIDE DEF Ends
  <2> QED  BY <2>1, <2>2
<1>5. PICK least \in Ends : \A e \in Ends : ~ (<<e, least>> \in StrictSubsetOrdering(names))
  <2> HIDE DEF Ends
  <2> QED  BY <1>4, FS_StrictSubsetOrderingWellFounded, WFMin, Zenon
<1>6. PICK q \in Missing : least = After(q.time)
  OBVIOUS
<1>7. q \in names /\ q \notin left /\ q.time \in Nat /\ q.time > time
  OBVIOUS
<1>8. ASSUME NEW y \in names, y.time > q.time
      PROVE  y \in there
  <2>1. y.time \in Nat /\ y.time > time
    BY <1>7, <1>8
  <2> SUFFICES ASSUME y \notin left PROVE FALSE
    BY <2>1
  <2>2. y \in Missing
    BY <2>1
  <2>3. After(y.time) \subseteq After(q.time) /\ y \in After(q.time) /\ y \notin After(y.time)
    BY <1>7, <1>8, <2>1
  <2>4. <<After(y.time), After(q.time)>> \in StrictSubsetOrdering(names)
    <3>1. After(y.time) \in SUBSET names /\ After(q.time) \in SUBSET names
          /\ After(y.time) # After(q.time)
      BY <2>3
    <3> HIDE DEF After
    <3> QED  BY <2>3, <3>1 DEF StrictSubsetOrdering
  <2>5. After(y.time) \in Ends
    BY <2>2
  <2> QED  BY <1>5, <1>6, <2>4, <2>5
<1>9. Cardinality(After(q.time)) <= Cardinality(there)
  <2>1. After(q.time) \subseteq there
    BY <1>8
  <2> QED  BY <1>2, <2>1, FS_Subset
<1>10. M!Cardinality(After(q.time)) < Retain
  <2>1. Cardinality(After(q.time)) \in Nat
    BY <1>2, <1>7
  <2> HIDE DEF After, there
  <2> QED  BY <1>1, <1>2, <1>9, <2>1, SameCount
<1>11. q \in M!Kept(names)
  BY <1>7, <1>10 DEF M!Kept
<1> QED  BY <1>1, <1>7, <1>11

\* All of retention is one way it may end.
LEMMA KeptRemains ==
  ASSUME M!CompanionAssumption, NEW names, IsFiniteSet(names),
         \A x \in names : x.time \in Nat
  PROVE  M!Kept(names) \in M!Remains(names)
<1> SUFFICES ASSUME NEW x \in M!Kept(names), NEW y \in names, y.time > x.time
             PROVE  y \in M!Kept(names)
  BY DEF M!Remains, M!Kept
<1> DEFINE After(t) == {z \in names : z.time > t}
<1>1. x \in names /\ x.time \in Nat /\ y.time \in Nat /\ M!Cardinality(After(x.time)) < Retain
  BY DEF M!Kept
<1>2. After(y.time) \subseteq After(x.time) /\ After(x.time) \subseteq names
  BY <1>1
<1>3. IsFiniteSet(After(x.time))
  BY <1>2, FS_Subset
<1>4. /\ Cardinality(After(y.time)) \in Nat /\ Cardinality(After(x.time)) \in Nat
      /\ Cardinality(After(y.time)) <= Cardinality(After(x.time))
  BY <1>2, <1>3, FS_Subset, FS_CardinalityType
<1>5. M!Cardinality(After(y.time)) < Retain
  <2>1. Retain \in Nat
    BY DEF M!CompanionAssumption
  <2> HIDE DEF After
  <2> QED  BY <1>1, <1>4, <2>1, SameCount
<1> QED  BY <1>5 DEF M!Kept

\* So a name is left, or as many later ones as are retained.
LEMMA LeftOrOutnumbered ==
  ASSUME M!CompanionAssumption, NEW names, IsFiniteSet(names),
         \A x \in names : x.time \in Nat,
         NEW left \in M!Remains(names), NEW p, p.time \in Nat,
         p \in names \/ M!Cardinality({x \in names : x.time > p.time}) >= Retain
  PROVE  p \in left \/ M!Cardinality({x \in left : x.time > p.time}) >= Retain
<1> DEFINE After == {x \in names : x.time > p.time}
           there == {x \in left : x.time > p.time}
<1>1. Retain \in Nat /\ M!Kept(names) \subseteq left
  BY DEF M!CompanionAssumption, M!Remains
<1>2. CASE M!Cardinality(After) >= Retain
  <2>1. Cardinality(After) >= Retain
    BY <1>2, SameCount
  <2>2. Cardinality(there) >= Retain
    BY <2>1, RemainsEnough
  <2> QED  BY <2>2, SameCount
<1>3. CASE ~ (M!Cardinality(After) >= Retain)
  <2>1. IsFiniteSet(After)
    BY FS_Subset
  <2>2. Cardinality(After) \in Nat
    BY <2>1, FS_CardinalityType
  <2>3. M!Cardinality(After) < Retain
    <3> HIDE DEF After
    <3> QED  BY <1>1, <1>3, <2>2, SameCount
  <2>4. p \in names
    BY <1>3
  <2> QED  BY <1>1, <2>3, <2>4 DEF M!Kept
<1> QED  BY <1>2, <1>3

LEMMA BackupsInit ==
  ASSUME M!CompanionAssumption, M!Init
  PROVE  BackupsFit
<1>1. \A s \in Space : companion_saves[s] = {} /\ companion_promised[s].time = 0
  BY DEF M!Init
<1> QED  BY <1>1, FS_EmptySet DEF BackupsFit, M!BackupKept

LEMMA BackupsBackup ==
  ASSUME M!CompanionAssumption, M!TypeOK, BackupsFit, NEW s \in Space, M!Backup(s)
  PROVE  BackupsFit'
<1>1. PICK k, far, left : BackupWay(s, k, far, left)
  BY BackupLeaves
<1> DEFINE new == TheBackup(k)
           names == companion_saves[s] \cup {new}
           p == companion_promised'[s]
<1>2. new.time \in Nat
  BY DEF TheBackup, M!TypeOK
<1>3. \A x \in names : x.time \in Nat
  BY <1>2 DEF M!TypeOK, M!Save
<1>4. IsFiniteSet(names)
  BY FS_AddElement DEF BackupsFit
<1>5. companion_saves'[s] = left /\ IsFiniteSet(left)
  <2>1. left \subseteq names
    BY <1>1 DEF BackupWay
  <2> HIDE DEF names
  <2> QED  BY <1>1, <1>4, <2>1, FS_Subset DEF BackupWay, M!TypeOK
<1>6. \A q \in Space : q # s => /\ companion_saves'[q] = companion_saves[q]
                                /\ companion_promised'[q] = companion_promised[q]
  BY <1>1 DEF BackupWay, M!TypeOK
<1>7. p = (IF far = "all" THEN new ELSE companion_promised[s]) /\ p.time \in Nat
  BY <1>1, <1>2 DEF BackupWay, M!TypeOK, M!Save
<1>8. \/ p.time = 0
      \/ p \in left
      \/ M!Cardinality({x \in left : x.time > p.time}) >= Retain
  <2>1. CASE far = "key"
    BY <1>1, <1>7, <2>1 DEF BackupWay, BackupsFit, M!BackupKept
  <2>2. CASE far # "key"
    <3>1. left \in M!Remains(names)
      BY <1>1, <1>3, <1>4, <2>2, KeptRemains DEF BackupWay
    <3>2. \/ p.time = 0
          \/ p \in names
          \/ M!Cardinality({x \in names : x.time > p.time}) >= Retain
      <4>1. CASE far = "all"
        <5>1. p = new /\ new \in names
          BY <1>7, <4>1
        <5> HIDE DEF new, names, p
        <5> QED  BY <5>1
      <4>2. CASE far # "all"
        <5>1. p = companion_promised[s]
          BY <1>7, <4>2
        <5> DEFINE before == {x \in companion_saves[s] : x.time > companion_promised[s].time}
                   after == {x \in names : x.time > companion_promised[s].time}
        <5>2. before \subseteq after /\ IsFiniteSet(after)
          BY <1>4, FS_Subset
        <5>3. /\ Cardinality(before) \in Nat /\ Cardinality(after) \in Nat
              /\ Cardinality(before) <= Cardinality(after)
          <6> HIDE DEF before, after
          <6> QED  BY <5>2, FS_Subset, FS_CardinalityType
        <5>4. M!Cardinality(before) >= Retain => M!Cardinality(after) >= Retain
          <6>1. Retain \in Nat
            BY DEF M!CompanionAssumption
          <6> HIDE DEF before, after
          <6> QED  BY <5>3, <6>1, SameCount
        <5>5. \/ companion_promised[s].time = 0 \/ companion_promised[s] \in companion_saves[s]
              \/ M!Cardinality(before) >= Retain
          BY DEF BackupsFit, M!BackupKept
        <5> QED  BY <5>1, <5>4, <5>5
      <4> QED  BY <4>1, <4>2
    <3>3. p.time \in Nat
      BY <1>7
    <3> HIDE DEF names, p
    <3>4. CASE p.time # 0
      <4>1. p \in left \/ M!Cardinality({x \in left : x.time > p.time}) >= Retain
        BY <1>3, <1>4, <3>1, <3>2, <3>3, <3>4, LeftOrOutnumbered
      <4> QED  BY <4>1
    <3> QED  BY <3>4
  <2> QED  BY <2>1, <2>2
<1> HIDE DEF names, new
<1> QED  BY <1>5, <1>6, <1>8 DEF BackupsFit, M!BackupKept

LEMMA BackupsStep ==
  ASSUME M!CompanionAssumption, CompanionInv, BackupsFit, [M!Next]_(M!vars)
  PROVE  BackupsFit'
<1>1. M!TypeOK
  BY DEF CompanionInv
<1>2. ASSUME NEW s \in Space, M!Backup(s)
      PROVE  BackupsFit'
  BY <1>1, <1>2, BackupsBackup
<1>3. ASSUME NEW s \in Space, M!KeyGoes(s) \/ M!KeyReturns(s)
      PROVE  BackupsFit'
  <2>1. UNCHANGED <<companion_saves, companion_promised>>
    BY <1>3 DEF M!KeyGoes, M!KeyReturns
  <2> QED  BY <2>1 DEF BackupsFit, M!BackupKept
<1>4. CASE M!Tick \/ ManagerStep \/ TaskStep \/ EndStep \/ UNCHANGED M!vars
  <2>1. UNCHANGED <<companion_saves, companion_promised>>
    BY <1>4 DEF M!Tick, ManagerStep, TaskStep, EndStep, M!vars, M!backups,
       M!PersistFails, M!PersistUncertain, M!Persist, M!Pause, M!Resume, M!Remove,
         M!Add, M!Change, M!Revoke,
       M!Enrol, M!Grab, M!ReadPhase, M!StopSession, M!RestartSession, M!Open, M!Quit,
         M!Kill, M!PowerFails, M!Ended
  <2> QED  BY <2>1 DEF BackupsFit, M!BackupKept
<1> QED  BY <1>2, <1>3, <1>4, NextSplits DEF BackupStep

-----------------------------------------------------------------------------
(* Linking: the inductive invariant *)

Confirmed == {"approved", "adopted", "answered", "learned"}
KeySettled == {"adopted", "answered", "learned"}

\* A device takes part in one link.
Alone ==
  \A a \in LinkDevice : linking_link[a].pc # "idle" =>
    /\ linking_link[a].to # a
    /\ \A c \in LinkDevice : c # a /\ linking_link[c].pc # "idle" =>
         linking_link[c].to # a /\ linking_link[c].to # linking_link[a].to

\* What a request and the listener's thread hold is still the case.
Current(a) ==
  LET b == linking_link[a].to
  IN  linking_link[a].pc # "idle" =>
        /\ linking_link[a].mine = linking_key[a]
           /\ linking_link[a].mycert = linking_cert[a]
        /\ linking_link[a].pc # "asked" => linking_link[a].shown = linking_served[b]
        /\ linking_link[a].pc \in {"accepted", "approved"} =>
             linking_link[a].theirs = linking_key[b]
        /\ linking_link[a].pc \in Confirmed => linking_pin[b][a] = linking_cert[a]
             /\ linking_last[b] = 0
        /\ linking_link[a].pc \in KeySettled => linking_key[b] = linking_key[a]
        /\ linking_link[a].pc = "answered" => linking_link[a].answer = linking_key[a]

\* Devices that linked last with each other share a key and pin a certificate
\* the other has, if not both.
Joined ==
  \A a, b \in LinkDevice : a # b /\ linking_last[a] = b /\ linking_last[b] = a =>
    linking_key[a] = linking_key[b]
    /\ linking_pin[a][b] \in {linking_cert[b], linking_served[b]}

LinkingInv ==
  /\ L!TypeOK
  /\ Alone
  /\ \A a \in LinkDevice : Current(a)
  /\ Joined

-----------------------------------------------------------------------------
(* Linking: the initial state, and each action *)

LEMMA DeviceIsNoZero ==
  ASSUME L!LinkingAssumption
  PROVE  0 \notin LinkDevice
BY DEF L!LinkingAssumption

LEMMA LinkingInit ==
  ASSUME L!LinkingAssumption, L!Init
  PROVE  LinkingInv
<1>1. L!Idle \in L!LinkState /\ L!Idle.pc = "idle"
  BY DEF L!Idle, L!LinkState
<1>2. L!TypeOK
  BY <1>1 DEF L!LinkingAssumption, L!Init, L!TypeOK
<1> QED  BY <1>1, <1>2, DeviceIsNoZero DEF L!Init, LinkingInv, Alone, Current, Joined

LEMMA PinTyped ==
  ASSUME L!TypeOK, NEW a \in LinkDevice, NEW b \in LinkDevice, NEW c \in Nat,
         linking_pin' = [linking_pin EXCEPT ![a][b] = c]
  PROVE  linking_pin' \in [LinkDevice -> [LinkDevice -> Nat]]
<1>1. linking_pin \in [LinkDevice -> [LinkDevice -> Nat]]
  BY DEF L!TypeOK
<1>2. [linking_pin[a] EXCEPT ![b] = c] \in [LinkDevice -> Nat]
  BY <1>1
<1> QED  BY <1>1, <1>2

LEMMA RequestStep ==
  ASSUME L!LinkingAssumption, ~LinksOverlap, LinkingInv,
         NEW a \in LinkDevice, NEW b \in LinkDevice, L!RequestLink(a, b)
  PROVE  LinkingInv'
<1>1. /\ a # b /\ linking_link[a].pc = "idle" /\ linking_link[b].pc = "idle"
      /\ \A c \in LinkDevice : linking_link[c].pc # "idle" => linking_link[c].to # a
           /\ linking_link[c].to # b
  BY DEF L!RequestLink, L!Engaged, L!Busy, L!Idle
<1>2. /\ linking_link'[a].pc = "asked" /\ linking_link'[a].to = b
         /\ linking_link'[a].mine = linking_key[a]
      /\ linking_link'[a].mycert = linking_cert[a]
      /\ \A c \in LinkDevice : c # a => linking_link'[c] = linking_link[c]
  BY DEF LinkingInv, L!TypeOK, L!RequestLink, L!Idle
<1>3. L!TypeOK'
  <2>1. linking_link'[a] \in L!LinkState
    BY DEF LinkingInv, L!TypeOK, L!RequestLink, L!Idle, L!LinkState
  <2>2. linking_links' \in 0 .. MaxLinks
    BY DEF L!LinkingAssumption, LinkingInv, L!TypeOK, L!RequestLink
  <2> QED  BY <1>2, <2>1, <2>2 DEF LinkingInv, L!TypeOK, L!RequestLink
<1>4. Alone'
  BY <1>1, <1>2 DEF LinkingInv, Alone
<1>5. \A c \in LinkDevice : Current(c)'
  BY <1>2 DEF LinkingInv, Current, L!RequestLink, Confirmed, KeySettled
<1>6. Joined'
  BY DEF LinkingInv, Joined, L!RequestLink
<1> QED  BY <1>3, <1>4, <1>5, <1>6 DEF LinkingInv

\* What the threads of a link do until the application pins or the link is lost.
LEMMA LinkStep ==
  ASSUME L!LinkingAssumption, ~LinksOverlap, LinkingInv, NEW a \in LinkDevice,
         \/ L!Accept(a) \/ L!Approve(a) \/ L!Reject(a) \/ L!Adopt(a) \/ L!Respond(a)
         \/ L!LearnKey(a) \/ L!Pin(a) \/ L!Lose(a)
  PROVE  LinkingInv'
<1> DEFINE b == linking_link[a].to
<1>1. /\ linking_link[a].pc # "idle" /\ b \in LinkDevice /\ b # a /\ Current(a)
      /\ \A c \in LinkDevice : c # a /\ linking_link[c].pc # "idle" =>
           c # b /\ linking_link[c].to # a /\ linking_link[c].to # b
  BY DEF LinkingInv, L!TypeOK, Alone, L!Idle, L!Accept, L!Approve, L!Reject, L!Adopt,
       L!Respond,
     L!LearnKey, L!Pin, L!Lose
<1>2. /\ linking_link[a] \in L!LinkState /\ linking_key[b] \in LinkDevice
         /\ linking_served[b] \in Nat
      /\ linking_link[a].mycert \in Nat /\ linking_link[a].shown \in Nat
  BY <1>1 DEF LinkingInv, L!TypeOK, L!LinkState
<1>3. \A c \in LinkDevice : c # a => linking_link'[c] = linking_link[c]
  BY DEF LinkingInv, L!TypeOK, L!Accept, L!Approve, L!Reject, L!Adopt, L!Respond,
       L!LearnKey, L!Pin, L!Lose
<1>4. linking_link' \in [LinkDevice -> L!LinkState] <=> linking_link'[a] \in L!LinkState
  <2>1. /\ linking_link \in [LinkDevice -> L!LinkState]
        /\ \E x : linking_link' = [linking_link EXCEPT ![a] = x]
    BY DEF LinkingInv, L!TypeOK, L!Accept, L!Approve, L!Reject, L!Adopt, L!Respond,
         L!LearnKey, L!Pin, L!Lose
  <2> QED  BY <2>1
<1>5. ASSUME linking_link'[a] \in L!LinkState, linking_link'[a].pc = "idle"
             \/ linking_link'[a].to = b
      PROVE  /\ Alone'
             /\ linking_link' \in [LinkDevice -> L!LinkState]
             /\ \A c \in LinkDevice : linking_link'[c].pc # "idle" =>
                  linking_link'[c].to \in LinkDevice
  <2>1. Alone'
    BY <1>1, <1>3, <1>5 DEF LinkingInv, Alone
  <2>2. ASSUME NEW c \in LinkDevice, linking_link'[c].pc # "idle"
        PROVE  linking_link'[c].to \in LinkDevice
    BY <1>1, <1>3, <1>5, <2>2 DEF LinkingInv, L!TypeOK
  <2> QED  BY <1>4, <1>5, <2>1, <2>2
<1>6. ASSUME NEW c \in LinkDevice, c # a, linking_link[c].pc # "idle",
             \A d \in LinkDevice : d # a /\ d # b =>
               linking_key'[d] = linking_key[d] /\ linking_last'[d] = linking_last[d]
               /\ linking_pin'[d] = linking_pin[d],
             linking_cert' = linking_cert, linking_served' = linking_served
      PROVE  Current(c)'
  <2>1. c # b /\ linking_link[c].to # a /\ linking_link[c].to # b
        /\ linking_link'[c] = linking_link[c]
    BY <1>1, <1>3, <1>6
  <2>2. linking_link[c].to \in LinkDevice
    BY <1>6 DEF LinkingInv, L!TypeOK, L!Idle
  <2> QED  BY <1>6, <2>1, <2>2 DEF LinkingInv, Current
<1>7. ASSUME NEW c \in LinkDevice, c # a, linking_link[c].pc = "idle"
      PROVE  Current(c)'
  BY <1>3, <1>7 DEF Current
<1>8. CASE L!Accept(a)
  <2>1. linking_link'[a] = [linking_link[a] EXCEPT !.pc = "accepted",
          !.theirs = linking_key[b], !.shown = linking_served[b]]
    BY <1>8 DEF L!Accept, LinkingInv, L!TypeOK
  <2>2. Alone' /\ L!TypeOK'
    <3>1. linking_link'[a] \in L!LinkState
          /\ (linking_link'[a].pc = "idle" \/ linking_link'[a].to = b)
      BY <1>2, <1>1, <2>1 DEF L!LinkState, L!Idle
    <3> QED  BY <1>1, <1>5, <1>8, <3>1 DEF LinkingInv, L!TypeOK, L!Accept
  <2>3. Current(a)'
    BY <1>1, <1>8, <2>1
         DEF LinkingInv, L!TypeOK, L!Accept, Current, Confirmed, KeySettled
  <2>4. Joined'
    BY <1>8 DEF LinkingInv, Joined, L!Accept
  <2> QED  BY <1>6, <1>7, <1>8, <2>2, <2>3, <2>4 DEF LinkingInv, L!Accept
<1>9. CASE L!Approve(a)
  <2>1. linking_link'[a] = [linking_link[a] EXCEPT !.pc = "approved"]
    BY <1>9 DEF L!Approve, LinkingInv, L!TypeOK
  <2>2. Alone' /\ L!TypeOK'
    <3>1. linking_link'[a] \in L!LinkState
          /\ (linking_link'[a].pc = "idle" \/ linking_link'[a].to = b)
      BY <1>2, <1>1, <2>1 DEF L!LinkState, L!Idle
    <3>2. linking_pin' \in [LinkDevice -> [LinkDevice -> Nat]]
      <4>1. linking_pin' = [linking_pin EXCEPT ![b][a] = linking_link[a].mycert]
        BY <1>9 DEF L!Approve
      <4>2. linking_link[a].mycert \in Nat
        BY <1>2
      <4> QED  BY <1>1, <4>1, <4>2, PinTyped DEF LinkingInv
    <3>3. linking_last' \in [LinkDevice -> LinkDevice \cup {0}]
      BY <1>1, <1>9 DEF LinkingInv, L!TypeOK, L!Approve
    <3> QED  BY <1>5, <1>9, <3>1, <3>2, <3>3 DEF LinkingInv, L!TypeOK, L!Approve
  <2>3. Current(a)'
    BY <1>1, <1>9, <2>1
         DEF LinkingInv, L!TypeOK, L!Approve, Current, Confirmed, KeySettled
  <2>4. Joined'
    BY <1>1, <1>9, DeviceIsNoZero DEF LinkingInv, L!TypeOK, Joined, L!Approve
  <2>5. /\ \A d \in LinkDevice : d # a /\ d # b =>
             linking_key'[d] = linking_key[d] /\ linking_last'[d] = linking_last[d]
             /\ linking_pin'[d] = linking_pin[d]
        /\ linking_cert' = linking_cert /\ linking_served' = linking_served
    BY <1>9 DEF LinkingInv, L!TypeOK, L!Approve
  <2>6. \A c \in LinkDevice : Current(c)'
    BY <1>6, <1>7, <2>3, <2>5
  <2> QED  BY <2>2, <2>4, <2>6 DEF LinkingInv
<1>10. CASE L!Reject(a)
  <2>1. linking_link'[a] = L!Idle
    BY <1>10 DEF L!Reject, LinkingInv, L!TypeOK
  <2>2. Alone' /\ L!TypeOK'
    <3>1. linking_link'[a] \in L!LinkState
          /\ (linking_link'[a].pc = "idle" \/ linking_link'[a].to = b)
      BY <1>2, <1>1, <2>1 DEF L!LinkState, L!Idle
    <3> QED  BY <1>1, <1>5, <1>10, <3>1 DEF LinkingInv, L!TypeOK, L!Reject
  <2>3. Current(a)'
    BY <2>1 DEF Current, L!Idle
  <2>4. Joined'
    BY <1>10 DEF LinkingInv, Joined, L!Reject
  <2> QED  BY <1>6, <1>7, <1>10, <2>2, <2>3, <2>4 DEF LinkingInv, L!Reject
<1>11. CASE L!Adopt(a)
  <2>1. linking_link'[a] = [linking_link[a] EXCEPT !.pc = "adopted"]
    BY <1>11 DEF L!Adopt, LinkingInv, L!TypeOK
  <2>2. linking_key'[b] = linking_key[a] /\ \A d \in LinkDevice : d # b =>
          linking_key'[d] = linking_key[d]
    BY <1>1, <1>11 DEF L!Adopt, LinkingInv, L!TypeOK, Current
  <2>3. Alone' /\ L!TypeOK'
    <3>1. linking_link'[a] \in L!LinkState
          /\ (linking_link'[a].pc = "idle" \/ linking_link'[a].to = b)
      BY <1>2, <1>1, <2>1 DEF L!LinkState, L!Idle
    <3>2. linking_key' \in [LinkDevice -> LinkDevice]
      BY <1>1, <1>11 DEF LinkingInv, L!TypeOK, Current, L!Adopt
    <3> QED  BY <1>5, <1>11, <3>1, <3>2 DEF LinkingInv, L!TypeOK, L!Adopt
  <2>4. Current(a)'
    BY <1>1, <1>11, <2>1, <2>2
         DEF LinkingInv, L!TypeOK, L!Adopt, Current, Confirmed, KeySettled
  <2>5. linking_last[b] = 0
    BY <1>1, <1>11 DEF L!Adopt, Current, Confirmed
  <2>6. Joined'
    BY <1>1, <1>11, <2>2, <2>5, DeviceIsNoZero DEF LinkingInv, Joined, L!Adopt
  <2> QED  BY <1>1, <1>6, <1>7, <1>11, <2>2, <2>3, <2>4, <2>6 DEF LinkingInv, L!Adopt
<1>12. CASE L!Respond(a)
  <2>1. \/ linking_link'[a] = L!Idle
        \/ linking_link'[a] = [linking_link[a] EXCEPT !.pc = "answered",
             !.answer = linking_key[b]]
    BY <1>12 DEF L!Respond, LinkingInv, L!TypeOK
  <2>2. Alone' /\ L!TypeOK'
    <3>1. linking_link'[a] \in L!LinkState
          /\ (linking_link'[a].pc = "idle" \/ linking_link'[a].to = b)
      <4>1. CASE linking_link'[a] = L!Idle
        BY <4>1 DEF L!LinkState, L!Idle
      <4>2. CASE linking_link'[a] = [linking_link[a] EXCEPT !.pc = "answered",
                   !.answer = linking_key[b]]
        BY <1>2, <4>2 DEF L!LinkState
      <4> QED  BY <2>1, <4>1, <4>2
    <3> QED  BY <1>1, <1>5, <1>12, <3>1 DEF LinkingInv, L!TypeOK, L!Respond
  <2>3. Current(a)'
    BY <1>1, <1>12, <2>1
         DEF LinkingInv, L!TypeOK, L!Respond, Current, Confirmed, KeySettled, L!Idle
  <2>4. Joined'
    BY <1>12 DEF LinkingInv, Joined, L!Respond
  <2> QED  BY <1>6, <1>7, <1>12, <2>2, <2>3, <2>4 DEF LinkingInv, L!Respond
<1>13. CASE L!LearnKey(a)
  <2>1. linking_link'[a] = [linking_link[a] EXCEPT !.pc = "learned"]
        /\ linking_key' = linking_key
    BY <1>1, <1>13 DEF L!LearnKey, LinkingInv, L!TypeOK, Current
  <2>2. Alone' /\ L!TypeOK'
    <3>1. linking_link'[a] \in L!LinkState
          /\ (linking_link'[a].pc = "idle" \/ linking_link'[a].to = b)
      BY <1>2, <1>1, <2>1 DEF L!LinkState, L!Idle
    <3> QED  BY <1>5, <1>13, <2>1, <3>1 DEF LinkingInv, L!TypeOK, L!LearnKey
  <2>3. Current(a)'
    BY <1>1, <1>13, <2>1
         DEF LinkingInv, L!TypeOK, L!LearnKey, Current, Confirmed, KeySettled
  <2>4. Joined'
    BY <1>13, <2>1 DEF LinkingInv, Joined, L!LearnKey
  <2> QED  BY <1>6, <1>7, <1>13, <2>1, <2>2, <2>3, <2>4 DEF LinkingInv, L!LearnKey
<1>14. CASE L!Pin(a)
  <2>1. linking_link'[a] = L!Idle
    BY <1>14 DEF L!Pin, LinkingInv, L!TypeOK
  <2>2. /\ linking_key[b] = linking_key[a] /\ linking_pin[b][a] = linking_cert[a]
           /\ linking_link[a].shown = linking_served[b]
        /\ linking_link[a].shown \in Nat
    BY <1>1, <1>14 DEF L!Pin, Current, Confirmed, KeySettled, LinkingInv, L!TypeOK
  <2>3. Alone' /\ L!TypeOK'
    <3>1. linking_link'[a] \in L!LinkState
          /\ (linking_link'[a].pc = "idle" \/ linking_link'[a].to = b)
      BY <1>2, <1>1, <2>1 DEF L!LinkState, L!Idle
    <3>2. linking_pin' \in [LinkDevice -> [LinkDevice -> Nat]]
      <4>1. \/ linking_pin' = [linking_pin EXCEPT ![a][b] = linking_link[a].shown]
            \/ linking_pin' = linking_pin
        BY <1>14 DEF L!Pin
      <4>2. linking_link[a].shown \in Nat
        BY <1>2
      <4> QED  BY <1>1, <4>1, <4>2, PinTyped DEF LinkingInv, L!TypeOK
    <3>3. linking_last' \in [LinkDevice -> LinkDevice \cup {0}]
      <4>1. linking_last \in [LinkDevice -> LinkDevice \cup {0}]
        BY DEF LinkingInv, L!TypeOK
      <4>2. \/ linking_last' = [linking_last EXCEPT ![a] = b, ![b] = a]
            \/ linking_last' = linking_last
        BY <1>14 DEF L!Pin
      <4> QED  BY <1>1, <4>1, <4>2
    <3> QED  BY <1>5, <1>14, <3>1, <3>2, <3>3 DEF LinkingInv, L!TypeOK, L!Pin
  <2>4. Current(a)'
    BY <2>1 DEF Current, L!Idle
  <2>5. CASE UNCHANGED <<linking_pin, linking_last>>
    BY <1>6, <1>7, <1>14, <2>3, <2>4, <2>5 DEF LinkingInv, L!Pin, Joined
  <2>6. CASE /\ linking_pin' = [linking_pin EXCEPT ![a][b] = linking_link[a].shown]
             /\ linking_last' = [linking_last EXCEPT ![a] = b, ![b] = a]
    <3>1. /\ linking_pin'[a][b] = linking_served[b]
             /\ linking_pin'[b][a] = linking_cert[a]
          /\ \A c, d \in LinkDevice : (c # a \/ d # b) =>
               linking_pin'[c][d] = linking_pin[c][d]
          /\ \A d \in LinkDevice : d # a => linking_pin'[d] = linking_pin[d]
      BY <1>1, <2>2, <2>6 DEF LinkingInv, L!TypeOK
    <3>2. /\ linking_last'[a] = b /\ linking_last'[b] = a
          /\ \A d \in LinkDevice : d # a /\ d # b => linking_last'[d] = linking_last[d]
      BY <1>1, <2>6 DEF LinkingInv, L!TypeOK
    <3>3. Joined'
      BY <1>1, <1>14, <2>2, <3>1, <3>2 DEF LinkingInv, Joined, L!Pin
    <3> QED  BY <1>6, <1>7, <1>14, <2>3, <2>4, <3>1, <3>2, <3>3 DEF LinkingInv, L!Pin
  <2> QED  BY <1>14, <2>5, <2>6 DEF L!Pin
<1>15. CASE L!Lose(a)
  <2>1. linking_link'[a] = L!Idle
        \/ linking_link'[a] = [linking_link[a] EXCEPT !.gone = TRUE]
    BY <1>15 DEF L!Lose, LinkingInv, L!TypeOK
  <2>2. Alone' /\ L!TypeOK'
    <3>1. linking_link'[a] \in L!LinkState
          /\ (linking_link'[a].pc = "idle" \/ linking_link'[a].to = b)
      <4>1. CASE linking_link'[a] = L!Idle
        BY <4>1 DEF L!LinkState, L!Idle
      <4>2. CASE linking_link'[a] = [linking_link[a] EXCEPT !.gone = TRUE]
        BY <1>2, <4>2 DEF L!LinkState
      <4> QED  BY <2>1, <4>1, <4>2
    <3> QED  BY <1>1, <1>5, <1>15, <3>1 DEF LinkingInv, L!TypeOK, L!Lose
  <2>3. Current(a)'
    BY <1>1, <1>15, <2>1
         DEF LinkingInv, L!TypeOK, L!Lose, Current, Confirmed, KeySettled, L!Idle
  <2>4. Joined'
    BY <1>15 DEF LinkingInv, Joined, L!Lose
  <2> QED  BY <1>6, <1>7, <1>15, <2>2, <2>3, <2>4 DEF LinkingInv, L!Lose
<1> QED  BY <1>8, <1>9, <1>10, <1>11, <1>12, <1>13, <1>14, <1>15

\* Users unlink devices, replace certificates and start listeners again.
LEMMA UserStep ==
  ASSUME L!LinkingAssumption, ~LinksOverlap, LinkingInv, NEW d \in LinkDevice,
         (\E p \in LinkDevice : L!Unlink(d, p)) \/ L!Regenerate(d) \/ L!Restart(d)
  PROVE  LinkingInv'
<1>1. /\ linking_link[d].pc = "idle" /\ linking_link' = linking_link
         /\ linking_key' = linking_key
      /\ \A c \in LinkDevice : linking_link[c].pc # "idle" => linking_link[c].to # d
  BY DEF L!Unlink, L!Regenerate, L!Restart, L!Engaged, L!Busy
<1>2. /\ linking_last'[d] = 0
      /\ \A c \in LinkDevice : linking_last'[c] = linking_last[c]
           \/ linking_last'[c] = 0
      /\ \A c \in LinkDevice : c # d =>
           linking_cert'[c] = linking_cert[c] /\ linking_served'[c] = linking_served[c]
           /\ linking_pin'[c] = linking_pin[c]
  BY DEF LinkingInv, L!TypeOK, L!Unlink, L!Regenerate, L!Restart
<1>3. L!TypeOK'
  <2>1. CASE \E p \in LinkDevice : L!Unlink(d, p)
    BY <2>1 DEF LinkingInv, L!TypeOK, L!Unlink
  <2>2. CASE L!Regenerate(d)
    BY <2>2 DEF LinkingInv, L!TypeOK, L!Regenerate
  <2>3. CASE L!Restart(d)
    BY <2>3 DEF LinkingInv, L!TypeOK, L!Restart
  <2> QED  BY <2>1, <2>2, <2>3
<1>4. Alone'
  BY <1>1 DEF LinkingInv, Alone
<1>5. ASSUME NEW c \in LinkDevice
      PROVE  Current(c)'
  <2>1. CASE linking_link[c].pc = "idle"
    BY <1>1, <2>1 DEF Current
  <2>2. CASE linking_link[c].pc # "idle"
    <3>1. c # d /\ linking_link[c].to # d /\ linking_link[c].to \in LinkDevice
      BY <1>1, <2>2 DEF LinkingInv, L!TypeOK, L!Idle
    <3> QED  BY <1>1, <1>2, <2>2, <3>1 DEF LinkingInv, Current
  <2> QED  BY <2>1, <2>2
<1>6. Joined'
  BY <1>1, <1>2, DeviceIsNoZero DEF LinkingInv, Joined
<1> QED  BY <1>3, <1>4, <1>5, <1>6 DEF LinkingInv

LEMMA LinkingStep ==
  ASSUME L!LinkingAssumption, ~LinksOverlap, LinkingInv, [L!Next]_(L!vars)
  PROVE  LinkingInv'
<1>1. CASE UNCHANGED L!vars
  BY <1>1 DEF L!vars, LinkingInv, L!TypeOK, Alone, Current, Joined
<1>2. CASE L!Next
  BY <1>2, RequestStep, LinkStep, UserStep DEF L!Next
<1> QED  BY <1>1, <1>2

-----------------------------------------------------------------------------
(* Key storage: the inductive invariant *)

KeyState ==
  [pc : {"idle", "app?", "cert?", "key?", "make", "open", "write", "rename"},
   what : {"app", "device"}, item : K!Item, cert : Int, new : Nat,
   at : {"tmp", "file", "lost"}]

KeysType ==
  /\ keys_scope \in KeyBounds
  /\ keys_file \in [K!Item -> Int] /\ keys_disk \in [K!Item -> Int]
  /\ keys_tmp \in [K!Item -> Int]
  /\ keys_proc \in [KeyProc -> KeyState]
  /\ keys_made \in Nat
  /\ keys_used \subseteq [what : {"app", "device"}, cert : Int, key : Int]

\* One process at a time, and no power failure.
Solo == keys_scope.alone /\ ~keys_scope.power

Storing == {"open", "write", "rename"}
\* The item that completes what is stored.
LastItem(what) == IF what = "app" THEN "app" ELSE "key"

\* What a process has read is still the case; it makes only what is not there, and
\* the private key after the certificate of the same pair.
WorkFits(p) ==
  LET w == keys_proc[p] IN
  /\ w.pc = "app?" => w.what = "app"
  /\ w.pc \in {"cert?", "key?"} => w.what = "device"
  /\ w.pc = "key?" => w.cert = keys_file["cert"]
  /\ w.pc \in Storing \cup {"make"} => keys_file[LastItem(w.what)] = K!Absent
  /\ w.pc \in Storing =>
       /\ w.new # K!Absent
       /\ w.item \in (IF w.what = "app" THEN {"app"} ELSE {"cert", "key"})
       /\ w.item = "key" => keys_file["cert"] = w.new
  /\ w.pc = "write" => w.at = "tmp"
  /\ w.pc = "rename" => keys_tmp[w.item] = w.new

\* The files are whole, a private key is that of the certificate, and what was
\* handed out is what they hold.
FilesFit ==
  /\ \A i \in K!Item : keys_file[i] # K!Torn
  /\ keys_file["key"] # K!Absent => keys_file["cert"] = keys_file["key"]
  /\ \A x \in keys_used :
       /\ x.cert = x.key /\ x.key # K!Absent
       /\ x.key = keys_file[LastItem(x.what)]

KeysOne ==
  \A p, q \in KeyProc : p # q => keys_proc[p].pc = "idle" \/ keys_proc[q].pc = "idle"

KeysInv ==
  /\ KeysType
  /\ Solo => FilesFit /\ KeysOne /\ \A p \in KeyProc : WorkFits(p)

-----------------------------------------------------------------------------
(* Key storage: the initial state, and each action *)

LEMMA KeysInit ==
  ASSUME K!Init
  PROVE  KeysInv
<1>1. K!Resting \in KeyState /\ K!Resting.pc = "idle"
  BY DEF K!Resting, KeyState, K!Item, K!Absent
<1>2. \A p \in KeyProc : keys_proc[p] = K!Resting
  BY DEF K!Init
<1>3. KeysType
  BY <1>1 DEF K!Init, KeysType, K!Absent
<1>4. FilesFit
  BY DEF K!Init, FilesFit, K!Item, K!Absent, K!Torn
<1>5. KeysOne /\ \A p \in KeyProc : WorkFits(p)
  BY <1>1, <1>2 DEF KeysOne, WorkFits, Storing
<1> QED  BY <1>3, <1>4, <1>5 DEF KeysInv

\* A process that works is the only one that does, before and after its step.
LEMMA OthersRest ==
  ASSUME KeysType, KeysOne, NEW p \in KeyProc,
         \/ keys_proc[p].pc # "idle"
         \/ \A q \in KeyProc : keys_proc[q].pc = "idle",
         \A q \in KeyProc : q # p => keys_proc'[q] = keys_proc[q],
         WorkFits(p)'
  PROVE  KeysOne' /\ \A q \in KeyProc : WorkFits(q)'
<1>1. \A q \in KeyProc : q # p => keys_proc'[q].pc = "idle"
  BY DEF KeysOne
<1>2. KeysOne'
  BY <1>1 DEF KeysOne
<1> QED  BY <1>1, <1>2 DEF WorkFits, Storing

\* A process that rests again.
LEMMA RestTyped ==
  ASSUME KeysType, NEW p \in KeyProc, keys_proc' = [keys_proc EXCEPT ![p] = K!Resting]
  PROVE  /\ keys_proc' \in [KeyProc -> KeyState]
         /\ WorkFits(p)'
         /\ \A q \in KeyProc : q # p => keys_proc'[q] = keys_proc[q]
<1>1. K!Resting \in KeyState /\ K!Resting.pc = "idle"
  BY DEF K!Resting, KeyState, K!Item, K!Absent
<1>2. keys_proc'[p] = K!Resting
  BY DEF KeysType
<1> QED  BY <1>1, <1>2 DEF KeysType, WorkFits, Storing

\* The steps that neither store nor hand out anything.
LEMMA KeysRests ==
  ASSUME KeysInv, NEW p \in KeyProc, K!Locked(p) \/ K!Kill(p)
  PROVE  KeysInv'
<1>1. /\ keys_proc[p].pc # "idle"
      /\ keys_proc' = [keys_proc EXCEPT ![p] = K!Resting]
      /\ UNCHANGED <<keys_scope, keys_file, keys_disk, keys_tmp, keys_made, keys_used>>
  BY DEF K!Locked, K!Kill, K!Rests
<1>2. KeysType'
  BY <1>1, RestTyped DEF KeysInv, KeysType
<1>3. ASSUME Solo
      PROVE  FilesFit' /\ KeysOne' /\ \A q \in KeyProc : WorkFits(q)'
  <2>1. FilesFit'
    BY <1>1, <1>3 DEF KeysInv, FilesFit
  <2> QED  BY <1>1, <1>3, <2>1, RestTyped, OthersRest DEF KeysInv
<1> QED  BY <1>1, <1>2, <1>3 DEF KeysInv, Solo

LEMMA KeysBegin ==
  ASSUME KeysInv, NEW p \in KeyProc, NEW what \in {"app", "device"}, K!Begin(p, what)
  PROVE  KeysInv'
<1> DEFINE w == [K!Resting EXCEPT !.what = what,
                                  !.pc = IF what = "app" THEN "app?" ELSE "cert?"]
<1>1. /\ w \in KeyState /\ w.what = what
      /\ w.pc = IF what = "app" THEN "app?" ELSE "cert?"
  <2>1. K!Resting \in KeyState
    BY DEF K!Resting, KeyState, K!Item, K!Absent
  <2>2. (IF what = "app" THEN "app?" ELSE "cert?") \in {"app?", "cert?"}
    OBVIOUS
  <2> QED  BY <2>1, <2>2 DEF KeyState
<1>2. /\ keys_proc' = [keys_proc EXCEPT ![p] = w]
      /\ UNCHANGED <<keys_scope, keys_file, keys_disk, keys_tmp, keys_made, keys_used>>
  BY DEF K!Begin
<1> HIDE DEF w
<1>3. keys_proc'[p] = w /\ \A q \in KeyProc : q # p => keys_proc'[q] = keys_proc[q]
  BY <1>2 DEF KeysInv, KeysType
<1>4. KeysType'
  BY <1>1, <1>2 DEF KeysInv, KeysType
<1>5. ASSUME Solo
      PROVE  FilesFit' /\ KeysOne' /\ \A q \in KeyProc : WorkFits(q)'
  <2>1. FilesFit'
    BY <1>2, <1>5 DEF KeysInv, FilesFit
  <2>2. \A q \in KeyProc : keys_proc[q].pc = "idle"
    BY <1>5 DEF K!Begin, Solo
  <2>3. WorkFits(p)'
    BY <1>1, <1>3 DEF WorkFits, Storing
  <2> QED  BY <1>3, <1>5, <2>1, <2>2, <2>3, OthersRest DEF KeysInv
<1> QED  BY <1>2, <1>4, <1>5 DEF KeysInv, Solo

\* A step of p that goes on to another state with what it holds.
LEMMA GoesTyped ==
  ASSUME KeysType, NEW p \in KeyProc, NEW w \in KeyState,
         keys_proc' = [keys_proc EXCEPT ![p] = w]
  PROVE  /\ keys_proc' \in [KeyProc -> KeyState] /\ keys_proc'[p] = w
         /\ \A q \in KeyProc : q # p => keys_proc'[q] = keys_proc[q]
BY DEF KeysType

\* An item is asked for: it is handed out, or found absent and made.
LEMMA KeysGets ==
  ASSUME KeysInv, NEW p \in KeyProc, K!GetApp(p) \/ K!GetCert(p) \/ K!GetKey(p)
  PROVE  KeysInv'
<1> DEFINE w == keys_proc[p]
           make == [w EXCEPT !.pc = "make"]
           asks == [w EXCEPT !.pc = "key?", !.cert = keys_file["cert"]]
           out(c, k) == [what |-> w.what, cert |-> c, key |-> k]
<1>1. /\ w \in KeyState /\ w.pc # "idle"
      /\ "app" \in K!Item /\ "cert" \in K!Item /\ "key" \in K!Item
      /\ \A i \in K!Item : keys_file[i] \in Int
  BY DEF KeysInv, KeysType, K!GetApp, K!GetCert, K!GetKey, K!Item
<1>2. /\ make \in KeyState /\ make.pc = "make" /\ make.what = w.what
      /\ asks \in KeyState /\ asks.pc = "key?" /\ asks.what = w.what
      /\ asks.cert = keys_file["cert"]
  BY <1>1 DEF KeyState
<1>3. UNCHANGED <<keys_scope, keys_file, keys_disk, keys_tmp, keys_made, keys_faults>>
  BY DEF K!GetApp, K!GetCert, K!GetKey
<1>4. \/ /\ w.pc = "app?" /\ keys_file["app"] = K!Absent /\ keys_used' = keys_used
         /\ keys_proc' = [keys_proc EXCEPT ![p] = make]
      \/ /\ w.pc = "app?" /\ keys_file["app"] = K!Torn /\ keys_used' = keys_used
         /\ keys_proc' = [keys_proc EXCEPT ![p] = K!Resting]
      \/ /\ w.pc = "app?" /\ keys_file["app"] # K!Absent
         /\ keys_used' = keys_used \cup {out(keys_file["app"], keys_file["app"])}
         /\ keys_proc' = [keys_proc EXCEPT ![p] = K!Resting]
      \/ /\ w.pc = "cert?" /\ keys_used' = keys_used
         /\ keys_proc' = [keys_proc EXCEPT ![p] = asks]
      \/ /\ w.pc = "key?" /\ keys_used' = keys_used
         /\ keys_file["key"] = K!Absent \/ w.cert = K!Absent
         /\ keys_proc' = [keys_proc EXCEPT ![p] = make]
      \/ /\ w.pc = "key?" /\ keys_file["key"] # K!Absent /\ w.cert # K!Absent
         /\ keys_used' = keys_used \cup {out(w.cert, keys_file["key"])}
         /\ keys_proc' = [keys_proc EXCEPT ![p] = K!Resting]
  <2>1. CASE K!GetApp(p)
    BY <2>1 DEF K!GetApp, K!Found, K!Goes, K!Rests, K!HandsOut, K!Absent, K!Torn
  <2>2. CASE K!GetCert(p)
    BY <2>2 DEF K!GetCert, K!Found, KeysInv, KeysType
  <2>3. CASE K!GetKey(p)
    BY <2>3 DEF K!GetKey, K!Found, K!Goes, K!HandsOut
  <2> QED  BY <2>1, <2>2, <2>3
<1> HIDE DEF make, asks
<1>5. KeysType'
  <2>1. keys_proc' \in [KeyProc -> KeyState]
    BY <1>2, <1>4, RestTyped, GoesTyped DEF KeysInv
  <2>2. \A c \in Int, k \in Int :
          out(c, k) \in [what : {"app", "device"}, cert : Int, key : Int]
    BY <1>1 DEF KeyState
  <2>3. w.cert \in Int
    BY <1>1 DEF KeyState
  <2>4. keys_used' \subseteq [what : {"app", "device"}, cert : Int, key : Int]
    BY <1>1, <1>4, <2>2, <2>3 DEF KeysInv, KeysType
  <2> QED  BY <1>3, <2>1, <2>4 DEF KeysInv, KeysType
<1>6. ASSUME Solo
      PROVE  FilesFit' /\ KeysOne' /\ \A q \in KeyProc : WorkFits(q)'
  <2>1. FilesFit /\ WorkFits(p)
    BY <1>6 DEF KeysInv
  <2>2. FilesFit'
    <3>1. CASE keys_used' = keys_used
      BY <1>3, <2>1, <3>1 DEF FilesFit
    <3>2. CASE /\ w.pc = "app?" /\ keys_file["app"] # K!Absent
               /\ keys_used' = keys_used \cup {out(keys_file["app"], keys_file["app"])}
      BY <1>3, <2>1, <3>2 DEF FilesFit, WorkFits, LastItem
    <3>3. CASE /\ w.pc = "key?" /\ keys_file["key"] # K!Absent
               /\ keys_used' = keys_used \cup {out(w.cert, keys_file["key"])}
      BY <1>3, <2>1, <3>3 DEF FilesFit, WorkFits, LastItem
    <3> QED  BY <1>4, <3>1, <3>2, <3>3
  <2>3. WorkFits(p)' /\ \A q \in KeyProc : q # p => keys_proc'[q] = keys_proc[q]
    <3>1. CASE keys_proc' = [keys_proc EXCEPT ![p] = K!Resting]
      BY <3>1, RestTyped DEF KeysInv
    <3>2. CASE keys_proc' = [keys_proc EXCEPT ![p] = asks] /\ w.pc = "cert?"
      <4>1. keys_proc'[p] = asks /\ \A q \in KeyProc : q # p => keys_proc'[q] = keys_proc[q]
        BY <1>2, <3>2, GoesTyped DEF KeysInv
      <4> QED  BY <1>2, <1>3, <2>1, <3>2, <4>1 DEF WorkFits, Storing
    <3>3. CASE /\ keys_proc' = [keys_proc EXCEPT ![p] = make]
               /\ \/ w.pc = "app?" /\ keys_file["app"] = K!Absent
                  \/ /\ w.pc = "key?"
                     /\ keys_file["key"] = K!Absent \/ w.cert = K!Absent
      <4>1. keys_proc'[p] = make /\ \A q \in KeyProc : q # p => keys_proc'[q] = keys_proc[q]
        BY <1>2, <3>3, GoesTyped DEF KeysInv
      <4>2. keys_file[LastItem(w.what)] = K!Absent
        BY <2>1, <3>3 DEF FilesFit, WorkFits, LastItem
      <4> QED  BY <1>2, <1>3, <2>1, <3>3, <4>1, <4>2 DEF WorkFits, Storing
    <3> QED  BY <1>4, <3>1, <3>2, <3>3
  <2> QED  BY <1>1, <1>6, <2>2, <2>3, OthersRest DEF KeysInv
<1> QED  BY <1>3, <1>5, <1>6 DEF KeysInv, Solo

\* The steps before a file has its name: nobody else sees them.
LEMMA KeysStores ==
  ASSUME KeysInv, NEW p \in KeyProc, K!Make(p) \/ K!Truncate(p) \/ K!Fill(p)
  PROVE  KeysInv'
<1> DEFINE w == keys_proc[p]
           made == [w EXCEPT !.new = keys_made + 1, !.pc = "open",
                             !.item = K!FirstItem(w.what)]
           opened == [w EXCEPT !.pc = "write", !.at = "tmp"]
           filled == [w EXCEPT !.pc = "rename"]
<1>1. w \in KeyState /\ w.pc # "idle" /\ w.new \in Int /\ w.item \in K!Item
  BY DEF KeysInv, KeysType, K!Make, K!Truncate, K!Fill, KeyState
<1>2. keys_made + 1 \in Nat /\ keys_made + 1 # K!Absent
  BY DEF KeysInv, KeysType, K!Absent
<1>3. K!FirstItem(w.what) \in (IF w.what = "app" THEN {"app"} ELSE {"cert", "key"})
      /\ K!FirstItem(w.what) \in K!Item /\ K!FirstItem(w.what) # "key"
  BY DEF K!FirstItem, K!Item
<1>4. /\ made \in KeyState /\ made.pc = "open" /\ made.what = w.what
      /\ made.new = keys_made + 1 /\ made.item = K!FirstItem(w.what)
  BY <1>1, <1>2, <1>3 DEF KeyState
<1>5. /\ opened \in KeyState /\ opened.pc = "write" /\ opened.what = w.what
      /\ opened.new = w.new /\ opened.item = w.item /\ opened.at = "tmp"
  BY <1>1 DEF KeyState
<1>6. /\ filled \in KeyState /\ filled.pc = "rename" /\ filled.what = w.what
      /\ filled.new = w.new /\ filled.item = w.item
  BY <1>1 DEF KeyState
<1>7. UNCHANGED <<keys_scope, keys_disk, keys_faults, keys_used>>
  BY DEF K!Make, K!Truncate, K!Fill
<1>8. \/ /\ w.pc = "make" /\ keys_proc' = [keys_proc EXCEPT ![p] = made]
         /\ keys_made' = keys_made + 1 /\ UNCHANGED <<keys_file, keys_tmp>>
      \/ /\ w.pc = "open" /\ keys_proc' = [keys_proc EXCEPT ![p] = opened]
         /\ UNCHANGED <<keys_file, keys_made>>
         /\ keys_tmp' = [keys_tmp EXCEPT ![w.item] = K!Torn]
      \/ /\ w.pc = "write" /\ keys_proc' = [keys_proc EXCEPT ![p] = filled]
         /\ keys_made' = keys_made
         /\ keys_tmp' = IF w.at = "tmp" THEN [keys_tmp EXCEPT ![w.item] = w.new]
                        ELSE keys_tmp
         /\ keys_file' = IF w.at = "file" THEN [keys_file EXCEPT ![w.item] = w.new]
                         ELSE keys_file
  <2>1. CASE K!Make(p)
    BY <2>1 DEF K!Make
  <2>2. CASE K!Truncate(p)
    BY <2>2 DEF K!Truncate
  <2>3. CASE K!Fill(p)
    BY <2>3 DEF K!Fill, K!Goes
  <2> QED  BY <2>1, <2>2, <2>3
<1> HIDE DEF made, opened, filled
<1>9. KeysType'
  <2>1. keys_proc' \in [KeyProc -> KeyState]
    BY <1>4, <1>5, <1>6, <1>8, GoesTyped DEF KeysInv
  <2>2. keys_tmp' \in [K!Item -> Int] /\ keys_file' \in [K!Item -> Int]
    BY <1>1, <1>8 DEF KeysInv, KeysType, K!Torn
  <2> QED  BY <1>2, <1>7, <1>8, <2>1, <2>2 DEF KeysInv, KeysType
<1>10. ASSUME Solo
       PROVE  FilesFit' /\ KeysOne' /\ \A q \in KeyProc : WorkFits(q)'
  <2>1. FilesFit /\ WorkFits(p)
    BY <1>10 DEF KeysInv
  <2>2. keys_file' = keys_file
    BY <1>8, <2>1 DEF WorkFits
  <2>3. FilesFit'
    BY <1>7, <2>1, <2>2 DEF FilesFit
  <2>4. WorkFits(p)' /\ \A q \in KeyProc : q # p => keys_proc'[q] = keys_proc[q]
    <3>1. CASE w.pc = "make" /\ keys_proc' = [keys_proc EXCEPT ![p] = made]
      <4>1. keys_proc'[p] = made /\ \A q \in KeyProc : q # p => keys_proc'[q] = keys_proc[q]
        BY <1>4, <3>1, GoesTyped DEF KeysInv
      <4> QED  BY <1>2, <1>3, <1>4, <2>1, <2>2, <3>1, <4>1 DEF WorkFits, Storing
    <3>2. CASE w.pc = "open" /\ keys_proc' = [keys_proc EXCEPT ![p] = opened]
      <4>1. keys_proc'[p] = opened /\ \A q \in KeyProc : q # p => keys_proc'[q] = keys_proc[q]
        BY <1>5, <3>2, GoesTyped DEF KeysInv
      <4> QED  BY <1>5, <2>1, <2>2, <3>2, <4>1 DEF WorkFits, Storing
    <3>3. CASE /\ w.pc = "write" /\ keys_proc' = [keys_proc EXCEPT ![p] = filled]
               /\ keys_tmp' = IF w.at = "tmp" THEN [keys_tmp EXCEPT ![w.item] = w.new]
                              ELSE keys_tmp
      <4>1. keys_proc'[p] = filled /\ \A q \in KeyProc : q # p => keys_proc'[q] = keys_proc[q]
        BY <1>6, <3>3, GoesTyped DEF KeysInv
      <4>2. keys_tmp'[w.item] = w.new
        BY <1>1, <2>1, <3>3 DEF WorkFits, KeysInv, KeysType
      <4> QED  BY <1>6, <2>1, <2>2, <3>3, <4>1, <4>2 DEF WorkFits, Storing
    <3> QED  BY <1>8, <3>1, <3>2, <3>3
  <2> QED  BY <1>1, <1>10, <2>3, <2>4, OthersRest DEF KeysInv
<1> QED  BY <1>7, <1>9, <1>10 DEF KeysInv, Solo

\* Nobody else writes: the rename takes no temporary file from another process.
LEMMA NobodyRenamed ==
  ASSUME KeysType, NEW p \in KeyProc, keys_proc[p].pc = "rename", KeysOne, NEW i \in K!Item
  PROVE  K!Renamed(i) = keys_proc
<1>1. \A q \in KeyProc : keys_proc[q].pc # "write"
  BY DEF KeysOne
<1> QED  BY <1>1 DEF K!Renamed, KeysType

\* What a rename does to the processes, whoever they are.
LEMMA RenamedTyped ==
  ASSUME KeysType, NEW i \in K!Item
  PROVE  K!Renamed(i) \in [KeyProc -> KeyState]
<1> SUFFICES ASSUME NEW q \in KeyProc
             PROVE  K!Renamed(i)[q] \in KeyState
  BY DEF K!Renamed
<1>1. keys_proc[q] \in KeyState
  BY DEF KeysType
<1>2. [keys_proc[q] EXCEPT !.at = IF @ = "tmp" THEN "file" ELSE "lost"] \in KeyState
  BY <1>1 DEF KeyState
<1> QED  BY <1>1, <1>2 DEF K!Renamed

LEMMA KeysRenames ==
  ASSUME KeysInv, NEW p \in KeyProc, K!Rename(p)
  PROVE  KeysInv'
<1> DEFINE w == keys_proc[p]
           i == w.item
           rest == [K!Renamed(i) EXCEPT ![p] = K!Resting]
           turned == [K!Renamed(i)[p] EXCEPT !.pc = "open", !.item = "key"]
           out == [what |-> w.what, cert |-> w.new, key |-> w.new]
<1>1. w \in KeyState /\ w.pc = "rename" /\ w.new \in Nat /\ i \in K!Item
      /\ w.what \in {"app", "device"}
  BY DEF KeysInv, KeysType, K!Rename, KeyState
<1>2. K!Renamed(i) \in [KeyProc -> KeyState] /\ K!Resting \in KeyState
  BY <1>1, RenamedTyped DEF KeysInv, K!Resting, KeyState, K!Item, K!Absent
<1>3. /\ turned \in KeyState /\ turned.pc = "open" /\ turned.item = "key"
      /\ turned.what = K!Renamed(i)[p].what /\ turned.new = K!Renamed(i)[p].new
  BY <1>2 DEF KeyState, K!Item
<1>4. UNCHANGED <<keys_scope, keys_disk, keys_made, keys_faults>>
  BY DEF K!Rename
<1>5. \/ /\ keys_tmp[i] = K!Absent
         /\ keys_proc' = [keys_proc EXCEPT ![p] = K!Resting]
         /\ UNCHANGED <<keys_file, keys_tmp, keys_used>>
      \/ /\ keys_tmp[i] # K!Absent
         /\ keys_file' = [keys_file EXCEPT ![i] = keys_tmp[i]]
         /\ keys_tmp' = [keys_tmp EXCEPT ![i] = K!Absent]
         /\ \/ /\ i = "cert" /\ keys_used' = keys_used
               /\ keys_proc' = [K!Renamed(i) EXCEPT ![p] = turned]
            \/ /\ i # "cert" /\ keys_used' = keys_used \cup {out}
               /\ keys_proc' = rest
  <2>1. [K!Renamed(i) EXCEPT ![p].pc = "open", ![p].item = "key"] =
          [K!Renamed(i) EXCEPT ![p] = turned]
    BY <1>2
  <2> QED  BY <2>1 DEF K!Rename, K!Rests
<1> HIDE DEF turned
<1>6. KeysType'
  <2>1. keys_proc' \in [KeyProc -> KeyState]
    BY <1>2, <1>3, <1>5, RestTyped DEF KeysInv
  <2>2. keys_tmp' \in [K!Item -> Int] /\ keys_file' \in [K!Item -> Int]
    BY <1>1, <1>5 DEF KeysInv, KeysType, K!Absent
  <2>3. keys_used' \subseteq [what : {"app", "device"}, cert : Int, key : Int]
    BY <1>1, <1>5 DEF KeysInv, KeysType
  <2> QED  BY <1>4, <2>1, <2>2, <2>3 DEF KeysInv, KeysType
<1>7. ASSUME Solo
      PROVE  FilesFit' /\ KeysOne' /\ \A q \in KeyProc : WorkFits(q)'
  <2>1. FilesFit /\ WorkFits(p) /\ KeysOne
    BY <1>7 DEF KeysInv
  <2>2. /\ keys_tmp[i] = w.new /\ w.new # K!Absent
        /\ keys_file[LastItem(w.what)] = K!Absent
        /\ i \in (IF w.what = "app" THEN {"app"} ELSE {"cert", "key"})
        /\ i = "key" => keys_file["cert"] = w.new
    BY <1>1, <2>1 DEF WorkFits, Storing
  <2>3. K!Renamed(i) = keys_proc
    BY <1>1, <2>1, NobodyRenamed DEF KeysInv
  <2>4. /\ keys_file'[i] = w.new
        /\ \A j \in K!Item : j # i => keys_file'[j] = keys_file[j]
    BY <1>1, <1>5, <2>2 DEF KeysInv, KeysType
  <2>5. "app" \in K!Item /\ "cert" \in K!Item /\ "key" \in K!Item
    BY DEF K!Item
  <2>6. CASE i = "cert"
    <3>1. keys_proc' = [keys_proc EXCEPT ![p] = turned] /\ keys_used' = keys_used
      BY <1>5, <2>2, <2>3, <2>6
    <3>2. /\ keys_proc'[p] = turned
          /\ \A q \in KeyProc : q # p => keys_proc'[q] = keys_proc[q]
      BY <1>3, <3>1, GoesTyped DEF KeysInv
    <3>3. w.what = "device"
      BY <1>1, <2>2, <2>6
    <3>4. FilesFit'
      <4>1. keys_file["key"] = K!Absent /\ keys_file'["key"] = K!Absent
        BY <2>2, <2>4, <2>5, <2>6, <3>3 DEF LastItem
      <4>2. \A x \in keys_used : LastItem(x.what) = "app"
        BY <2>1, <4>1 DEF FilesFit, LastItem
      <4>3. w.new # K!Torn
        BY <1>1 DEF K!Torn
      <4>4. \A j \in K!Item : keys_file'[j] # K!Torn
        BY <2>1, <2>4, <4>3 DEF FilesFit
      <4> QED  BY <2>1, <2>4, <2>5, <2>6, <3>1, <4>1, <4>2, <4>4 DEF FilesFit
    <3>5. WorkFits(p)'
      BY <1>3, <2>2, <2>3, <2>4, <2>5, <2>6, <3>2, <3>3 DEF WorkFits, Storing, LastItem
    <3> QED  BY <1>1, <2>1, <3>2, <3>4, <3>5, OthersRest DEF KeysInv
  <2>7. CASE i # "cert"
    <3>1. keys_proc' = [keys_proc EXCEPT ![p] = K!Resting] /\ keys_used' = keys_used \cup {out}
      BY <1>5, <2>2, <2>3, <2>7
    <3>2. i = LastItem(w.what)
      BY <2>2, <2>7 DEF LastItem
    <3>3. FilesFit'
      <4>1. \A j \in K!Item : keys_file'[j] # K!Torn
        BY <1>1, <2>1, <2>4 DEF FilesFit, K!Torn
      <4>2. keys_file'["key"] # K!Absent => keys_file'["cert"] = keys_file'["key"]
        BY <2>1, <2>2, <2>4, <2>5, <2>7 DEF FilesFit
      <4>3. \A x \in keys_used : LastItem(x.what) # i
        BY <2>1, <2>2, <3>2 DEF FilesFit
      <4>4. \A x \in keys_used' : /\ x.cert = x.key /\ x.key # K!Absent
                                  /\ x.key = keys_file'[LastItem(x.what)]
        <5>1. out.cert = w.new /\ out.key = w.new /\ out.what = w.what
          OBVIOUS
        <5>2. \A x \in keys_used : keys_file'[LastItem(x.what)] = keys_file[LastItem(x.what)]
          BY <2>4, <2>5, <4>3 DEF LastItem
        <5> QED  BY <2>1, <2>2, <2>4, <3>1, <3>2, <5>1, <5>2 DEF FilesFit
      <4> QED  BY <4>1, <4>2, <4>4 DEF FilesFit
    <3> QED  BY <1>1, <2>1, <3>1, <3>3, RestTyped, OthersRest DEF KeysInv
  <2> QED  BY <2>6, <2>7
<1> QED  BY <1>4, <1>6, <1>7 DEF KeysInv, Solo

\* The disk and the power.
LEMMA KeysPower ==
  ASSUME KeysInv, (\E i \in K!Item : K!Settles(i)) \/ K!PowerFails
  PROVE  KeysInv'
<1>1. CASE \E i \in K!Item : K!Settles(i)
  <2>1. /\ UNCHANGED <<keys_scope, keys_file, keys_tmp, keys_proc, keys_made, keys_used>>
        /\ keys_disk' \in [K!Item -> Int]
    BY <1>1 DEF K!Settles, KeysInv, KeysType
  <2>2. KeysType'
    BY <2>1 DEF KeysInv, KeysType
  <2>3. Solo => FilesFit' /\ KeysOne' /\ \A q \in KeyProc : WorkFits(q)'
    BY <2>1 DEF KeysInv, FilesFit, KeysOne, WorkFits
  <2> QED  BY <2>1, <2>2, <2>3 DEF KeysInv, Solo
<1>2. CASE K!PowerFails
  <2>1. K!Resting \in KeyState
    BY DEF K!Resting, KeyState, K!Item, K!Absent
  <2>2. KeysType'
    BY <1>2, <2>1 DEF K!PowerFails, KeysInv, KeysType, K!Absent
  <2>3. ~Solo'
    BY <1>2 DEF K!PowerFails, Solo
  <2> QED  BY <2>2, <2>3 DEF KeysInv
<1> QED  BY <1>1, <1>2

LEMMA KeysStep ==
  ASSUME KeysInv, [K!Next]_(K!vars)
  PROVE  KeysInv'
<1>1. CASE UNCHANGED K!vars
  <2>1. KeysType' /\ (Solo' => Solo)
    BY <1>1 DEF K!vars, KeysInv, KeysType, Solo
  <2>2. Solo => FilesFit' /\ KeysOne' /\ \A q \in KeyProc : WorkFits(q)'
    BY <1>1 DEF K!vars, KeysInv, FilesFit, KeysOne, WorkFits
  <2> QED  BY <2>1, <2>2 DEF KeysInv
<1>2. CASE K!Next
  BY <1>2, KeysBegin, KeysRests, KeysGets, KeysStores, KeysRenames, KeysPower DEF K!Next
<1> QED  BY <1>1, <1>2

\* What the invariant says of two keys handed out.
LEMMA KeysHanded ==
  ASSUME KeysInv
  PROVE  K!KeptAlone
<1> SUFFICES ASSUME Solo
             PROVE  K!KeyKept /\ K!PairMatches
  BY DEF K!KeptAlone, Solo
<1>1. FilesFit
  BY DEF KeysInv
<1>2. \A x \in keys_used : LastItem(x.what) \in K!Item
  BY DEF LastItem, K!Item
<1>3. K!PairMatches
  BY <1>1, <1>2 DEF FilesFit, K!PairMatches
<1>4. ASSUME NEW x \in keys_used, NEW y \in keys_used, x.what = y.what
      PROVE  x = y
  <2>1. x.cert = y.cert /\ x.key = y.key
    BY <1>1, <1>4 DEF FilesFit
  <2> QED  BY <1>4, <2>1 DEF KeysInv, KeysType
<1> QED  BY <1>3, <1>4 DEF K!KeyKept
-----------------------------------------------------------------------------
(* The command line: the inductive invariant *)

\* What a configuration is; backups are enabled with a directory.
Configured(c) ==
  /\ c = [key |-> c.key, keys |-> c.keys, devices |-> c.devices, adapters |-> c.adapters,
          auto |-> c.auto, enabled |-> c.enabled, restore |-> c.restore, dir |-> c.dir]
  /\ c.enabled => c.dir \in CliDir

\* A copy of the configuration has its key and its backups.
Copied(c) ==
  /\ Configured(c) /\ c.key = cli_config.key
  /\ c.enabled = cli_config.enabled /\ c.dir = cli_config.dir

CommandShape(x) ==
  x = [op |-> x.op, pc |-> x.pc, arg |-> x.arg, cfg |-> x.cfg, marks |-> x.marks,
       key |-> x.key, todo |-> x.todo]

\* A rotation seals what is in the directory of its configuration.
OneDirectory == \A d, e \in CliDir : d = e

Opens ==
  /\ cli_state.key \in {C!Cut, cli_config.key}
  /\ OneDirectory =>
       \A s \in cli_snaps : s.adapter = "file" => s.key \in {C!Cut, cli_config.key}

\* A rotation has sealed the state and is at work on the snapshots.
Resealed(x) ==
  /\ cli_state.key = x.key
  /\ OneDirectory => \A s \in cli_snaps : s.adapter = "file" =>
       s.key \in {C!Cut, x.key} \/ (s.id \in x.todo /\ s.key = cli_config.key)

CommandFits(x) ==
  x.op # "none" =>
    /\ Copied(x.cfg)
    /\ x.op = "configure" => x.arg \in CliDir
    /\ x.pc = "opened" => x.op # "init" /\ (x.op = "snapshot" => cli_config.enabled)
    /\ IF x.pc = "sealing" /\ x.op = "rotate" THEN Resealed(x) ELSE Opens

ListenerFits ==
  cli_listener.pid # 0 =>
    /\ cli_listener = [pid |-> cli_listener.pid, cfg |-> cli_listener.cfg,
                       marks |-> cli_listener.marks, key |-> cli_listener.key,
                       auto |-> cli_listener.auto]
    /\ Copied(cli_listener.cfg) /\ cli_listener.key = cli_config.key

SnapsFit ==
  \A s \in cli_snaps :
    /\ s = [id |-> s.id, dir |-> s.dir, adapter |-> s.adapter, key |-> s.key]
    /\ s.dir \in CliDir /\ cli_config.enabled

\* Beside the listener only these run.
Beside == {"none", "listen", "watch", "stop"}

CliFits ==
  /\ Configured(cli_config)
  /\ cli_proc = [p \in CliProc |-> cli_proc[p]]
  /\ \A p \in CliProc : CommandShape(cli_proc[p]) /\ CommandFits(cli_proc[p])
  /\ \A p, q \in CliProc : cli_proc[p].op # "none" /\ cli_proc[q].op # "none" => p = q
  /\ (\A p \in CliProc : cli_proc[p].op = "none") => Opens
  /\ ListenerFits
  /\ cli_listener.pid # 0 => \A p \in CliProc : cli_proc[p].op \in Beside
  /\ SnapsFit

CliInv == cli_scope.alone /\ ~cli_disturbed => CliFits

-----------------------------------------------------------------------------
(* The command line: the initial state, and each action *)

LEMMA CliInit ==
  ASSUME C!Init
  PROVE  CliInv
<1>1. \A p \in CliProc : CommandShape(cli_proc[p]) /\ cli_proc[p].op = "none"
  BY DEF C!Init, C!Resting, C!None, CommandShape
<1>2. Configured(cli_config) /\ cli_config.key = 1
  BY DEF C!Init, C!NewConfig, C!None, Configured
<1> QED
  BY <1>1, <1>2 DEF C!Init, C!Down, CliInv, CliFits, Opens, ListenerFits, SnapsFit, CommandFits

\* One process takes a step; no other runs.
LEMMA CommandMoves ==
  ASSUME CliFits, NEW p \in CliProc, \A q \in CliProc : q # p => cli_proc[q].op = "none",
         NEW x, CommandShape(x), cli_proc' = [cli_proc EXCEPT ![p] = x],
         Configured(cli_config'), CommandFits(x)', x.op = "none" => Opens',
         ListenerFits', cli_listener'.pid # 0 => x.op \in Beside, SnapsFit'
  PROVE  CliFits'
<1>1. /\ cli_proc' = [q \in CliProc |-> cli_proc'[q]] /\ cli_proc'[p] = x
      /\ \A q \in CliProc : q # p => cli_proc'[q] = cli_proc[q]
  BY DEF CliFits
<1>2. \A q \in CliProc : CommandShape(cli_proc'[q])
  BY <1>1 DEF CliFits
<1>3. \A q \in CliProc : q # p => cli_proc'[q].op = "none"
  BY <1>1
<1>4. ASSUME NEW q \in CliProc
      PROVE  CommandFits(cli_proc[q])'
  <2>1. CASE q = p
    BY <1>1, <2>1 DEF CommandFits, Copied, Configured, Resealed, Opens
  <2>2. CASE q # p
    BY <1>3, <2>2 DEF CommandFits
  <2> QED  BY <2>1, <2>2
<1>5. (\A q \in CliProc : cli_proc'[q].op = "none") => Opens'
  BY <1>1
<1>6. Configured(cli_config)'
  BY DEF Configured
<1>7. \A q \in CliProc : CommandShape(cli_proc[q])'
  BY <1>2 DEF CommandShape
<1>8. cli_listener'.pid # 0 => \A q \in CliProc : cli_proc'[q].op \in Beside
  BY <1>1, <1>3 DEF Beside
<1> QED  BY <1>1, <1>3, <1>4, <1>5, <1>6, <1>7, <1>8 DEF CliFits

\* The process that runs, and what it has.
LEMMA OneRuns ==
  ASSUME CliFits, NEW p \in CliProc, cli_proc[p].op # "none"
  PROVE  /\ \A q \in CliProc : q # p => cli_proc[q].op = "none"
         /\ CommandShape(cli_proc[p]) /\ CommandFits(cli_proc[p])
BY DEF CliFits

\* A step that leaves the key, the backups' directory and the sealed files alone.
KeysKept ==
  /\ Configured(cli_config') /\ cli_config'.key = cli_config.key
  /\ cli_config'.enabled = cli_config.enabled /\ cli_config'.dir = cli_config.dir
FilesKept ==
  /\ KeysKept /\ cli_state'.key \in {C!Cut, cli_state.key, cli_config.key}
  /\ cli_snaps' \subseteq cli_snaps /\ cli_listener' = cli_listener

LEMMA ListenerStays ==
  ASSUME ListenerFits, KeysKept, cli_listener' = cli_listener
  PROVE  ListenerFits'
BY DEF ListenerFits, KeysKept, Copied, Configured

LEMMA SnapsStay ==
  ASSUME SnapsFit, KeysKept, cli_snaps' \subseteq cli_snaps
  PROVE  SnapsFit'
BY DEF SnapsFit, KeysKept

LEMMA OpensStill ==
  ASSUME Opens, FilesKept
  PROVE  Opens'
BY DEF Opens, FilesKept, KeysKept

Sealing(x) == x.pc = "sealing" /\ x.op = "rotate"

LEMMA QuietStep ==
  ASSUME CliFits, NEW p \in CliProc, cli_proc[p].op # "none", ~Sealing(cli_proc[p]),
         NEW x, CommandShape(x), cli_proc' = [cli_proc EXCEPT ![p] = x],
         x.op = cli_proc[p].op, x.cfg = cli_proc[p].cfg, x.arg = cli_proc[p].arg,
         x.pc # "sealing",
         x.pc = "opened" => x.op # "init" /\ (x.op = "snapshot" => x.cfg.enabled),
         FilesKept
  PROVE  CliFits'
<1>1. CommandFits(cli_proc[p]) /\ \A q \in CliProc : q # p => cli_proc[q].op = "none"
  BY OneRuns
<1>2. Copied(x.cfg) /\ Opens /\ x.op # "none"
  BY <1>1 DEF CommandFits, Sealing
<1>3. Opens'
  BY <1>2, OpensStill
<1>4. Copied(x.cfg)'
  BY <1>2 DEF Copied, FilesKept, KeysKept, Configured
<1>5. CommandFits(x)'
  BY <1>1, <1>2, <1>3, <1>4 DEF CommandFits, Copied, Sealing
<1>6. ListenerFits' /\ SnapsFit'
  BY ListenerStays, SnapsStay DEF FilesKept, CliFits
<1>7. cli_listener'.pid # 0 => x.op \in Beside
  BY DEF CliFits, FilesKept
<1> QED  BY <1>1, <1>2, <1>5, <1>6, <1>7, CommandMoves DEF FilesKept, KeysKept

LEMMA RestingFits ==
  CommandShape(C!Resting) /\ C!Resting.op = "none"
BY DEF CommandShape, C!Resting, C!None

LEMMA CommandEnds ==
  ASSUME CliFits, NEW p \in CliProc, cli_proc[p].op # "none",
         cli_proc' = [cli_proc EXCEPT ![p] = C!Resting],
         Configured(cli_config'), Opens', ListenerFits', SnapsFit'
  PROVE  CliFits'
<1>1. \A q \in CliProc : q # p => cli_proc[q].op = "none"
  BY OneRuns
<1>2. CommandFits(C!Resting)'
  BY RestingFits DEF CommandFits, C!Resting, C!None
<1>3. C!Resting.op \in Beside
  BY RestingFits DEF Beside
<1> QED  BY <1>1, <1>2, <1>3, RestingFits, CommandMoves

LEMMA QuietEnd ==
  ASSUME CliFits, NEW p \in CliProc, cli_proc[p].op # "none", ~Sealing(cli_proc[p]),
         cli_proc' = [cli_proc EXCEPT ![p] = C!Resting], FilesKept
  PROVE  CliFits'
<1>1. Opens
  BY OneRuns DEF CommandFits, Sealing
<1>2. Opens'
  BY <1>1, OpensStill
<1>3. ListenerFits' /\ SnapsFit'
  BY ListenerStays, SnapsStay DEF FilesKept, CliFits
<1> QED  BY <1>2, <1>3, CommandEnds DEF FilesKept, KeysKept

\* What a command may change of the configuration.
LEMMA EditKeeps ==
  ASSUME CliFits, NEW c, Copied(c), NEW d, cli_config' = d,
         d = [key |-> c.key, keys |-> d.keys, devices |-> d.devices, adapters |-> d.adapters,
              auto |-> d.auto, enabled |-> c.enabled, restore |-> d.restore, dir |-> c.dir]
  PROVE  KeysKept
BY DEF KeysKept, Copied, Configured

LEMMA Unchanged ==
  ASSUME CliFits, cli_config' = cli_config
  PROVE  KeysKept
BY DEF KeysKept, CliFits, Configured

LEMMA ConfigureStep ==
  ASSUME CliFits, NEW p \in CliProc, C!Configure(p)
  PROVE  CliFits'
<1> DEFINE c == cli_proc[p].cfg
           op == cli_proc[p].op
<1>1. /\ op \in {"select", "configure", "approve", "keys", "address", "secret"}
      /\ cli_proc[p].pc = "loaded"
      /\ cli_proc' = [cli_proc EXCEPT ![p] = C!Resting]
      /\ cli_state' = cli_state /\ cli_snaps' = cli_snaps /\ cli_listener' = cli_listener
  BY DEF C!Configure, C!At, C!Ends
<1>2. CommandFits(cli_proc[p]) /\ Copied(c) /\ Opens
  BY <1>1, OneRuns DEF CommandFits
<1>3. /\ op = "select" => cli_config' = [c EXCEPT !.adapters = @ \cup {cli_proc[p].arg}]
      /\ op = "approve" => cli_config' = [c EXCEPT !.auto = cli_proc[p].arg]
      /\ op = "keys" =>
           cli_config' = [c EXCEPT !.keys = cli_fresh + 1,
                            !.devices = IF cli_proc[p].arg = "clear" THEN {} ELSE @]
      /\ op \in {"address", "secret"} => cli_config' = c
      /\ op = "configure" =>
           cli_config' = [c EXCEPT !.enabled = TRUE, !.restore = TRUE, !.dir = cli_proc[p].arg]
  BY <1>1 DEF C!Configure, C!SelectFile, C!SetAutoApprove, C!RotateDeviceKeys,
              C!SetDeviceAddress, C!SetPairingSecret, C!ConfigureBackups, C!Cfg, C!Arg
<1>4. CASE op = "configure"
  <2>1. cli_config'.key = c.key /\ cli_config'.enabled /\ Configured(cli_config')
    BY <1>2, <1>3, <1>4 DEF Copied, Configured, CommandFits
  <2>2. Opens'
    BY <1>1, <1>2, <2>1 DEF Opens, Copied
  <2>3. cli_listener.pid = 0
    BY <1>4 DEF CliFits, Beside
  <2>4. ListenerFits' /\ SnapsFit'
    BY <1>1, <2>1, <2>3 DEF ListenerFits, SnapsFit, CliFits
  <2> QED  BY <1>1, <2>1, <2>2, <2>4, CommandEnds
<1>5. CASE op # "configure"
  <2>1. KeysKept
    <3>1. CASE op = "select"
      BY <1>2, <1>3, <3>1 DEF KeysKept, Copied, Configured
    <3>2. CASE op = "approve"
      BY <1>2, <1>3, <3>2 DEF KeysKept, Copied, Configured
    <3>3. CASE op = "keys"
      BY <1>2, <1>3, <3>3 DEF KeysKept, Copied, Configured
    <3>4. CASE op \in {"address", "secret"}
      BY <1>2, <1>3, <3>4 DEF KeysKept, Copied, Configured
    <3> QED  BY <1>1, <1>5, <3>1, <3>2, <3>3, <3>4
  <2> QED  BY <1>1, <2>1, QuietEnd DEF FilesKept, Sealing
<1> QED  BY <1>4, <1>5

LEMMA LinkCommandStep ==
  ASSUME CliFits, NEW p \in CliProc, C!Link(p) \/ C!Unlink(p)
  PROVE  CliFits'
<1> DEFINE c == cli_proc[p].cfg
<1>1. /\ cli_proc[p].op \in {"link", "unlink"} /\ cli_proc[p].pc = "loaded"
      /\ cli_proc' = [cli_proc EXCEPT ![p] = C!Resting]
      /\ cli_state' = cli_state /\ cli_snaps' = cli_snaps /\ cli_listener' = cli_listener
  BY DEF C!Link, C!Unlink, C!At, C!Ends
<1>2. Copied(c)
  BY <1>1, OneRuns DEF CommandFits
<1>3. \/ cli_config' = cli_config
      \/ cli_config' = [c EXCEPT !.devices = @ \cup {cli_proc[p].arg}]
      \/ cli_config' = [c EXCEPT !.devices = @ \ {cli_proc[p].arg}]
  BY DEF C!Link, C!Unlink, C!Cfg, C!Arg
<1>4. KeysKept
  <2>1. CASE cli_config' = cli_config
    BY <2>1, Unchanged
  <2>2. CASE cli_config' # cli_config
    BY <1>2, <1>3, <2>2 DEF KeysKept, Copied, Configured
  <2> QED  BY <2>1, <2>2
<1> QED  BY <1>1, <1>4, QuietEnd DEF FilesKept, Sealing

\* What fails ends its command, except that a watch goes on.
LEMMA FailsStep ==
  ASSUME CliFits, NEW p \in CliProc, cli_proc[p].op # "none", ~Sealing(cli_proc[p]),
         C!Fails(p), FilesKept
  PROVE  CliFits'
<1>1. CASE cli_proc[p].op = "watch"
  <2> DEFINE x == [cli_proc[p] EXCEPT !.pc = "loaded"]
  <2>1. cli_proc' = [cli_proc EXCEPT ![p] = x]
    BY <1>1 DEF C!Fails
  <2>2. CommandShape(cli_proc[p])
    BY OneRuns
  <2>3. /\ CommandShape(x) /\ x.pc = "loaded" /\ x.op = cli_proc[p].op
        /\ x.cfg = cli_proc[p].cfg /\ x.arg = cli_proc[p].arg
    BY <2>2 DEF CommandShape
  <2> HIDE DEF x
  <2> QED  BY <2>1, <2>3, QuietStep
<1>2. CASE cli_proc[p].op # "watch"
  BY <1>2, QuietEnd DEF C!Fails
<1> QED  BY <1>1, <1>2

\* The record of a process that goes on.
Onto(x, at, marks, key, todo) ==
  [op |-> x.op, pc |-> at, arg |-> x.arg, cfg |-> x.cfg, marks |-> marks, key |-> key,
   todo |-> todo]

LEMMA OntoFields ==
  ASSUME NEW x, NEW at, NEW marks, NEW key, NEW todo
  PROVE  LET y == Onto(x, at, marks, key, todo)
         IN  /\ CommandShape(y) /\ y.op = x.op /\ y.cfg = x.cfg /\ y.arg = x.arg
             /\ y.pc = at /\ y.marks = marks /\ y.key = key /\ y.todo = todo
BY DEF Onto, CommandShape

LEMMA RefreshStep ==
  ASSUME CliFits, NEW p \in CliProc,
         C!OpenState(p) \/ C!Sync(p) \/ C!SyncFails(p) \/ C!SaveState(p) \/ C!SaveConfig(p)
  PROVE  CliFits'
<1> DEFINE c == cli_proc[p].cfg
<1>1. /\ cli_proc[p].op \in {"refresh", "watch", "snapshot", "restore"}
      /\ cli_proc[p].pc \in {"loaded", "opened", "applied", "stored"}
      /\ cli_snaps' = cli_snaps /\ cli_listener' = cli_listener
  BY DEF C!OpenState, C!MayOpen, C!Sync, C!SyncFails, C!SaveState, C!MaySave, C!SaveConfig,
         C!At, C!Refreshing, C!files
<1>2. Copied(c) /\ Opens /\ CommandShape(cli_proc[p]) /\ cli_proc[p].op # "none"
      /\ ~Sealing(cli_proc[p])
  BY <1>1, OneRuns DEF CommandFits, Sealing
<1>3. FilesKept
  <2>1. cli_config' = cli_config \/ cli_config' = c
    BY DEF C!OpenState, C!Sync, C!SyncFails, C!SaveState, C!SaveConfig, C!Cfg, C!files
  <2>2. KeysKept
    <3>1. CASE cli_config' = cli_config
      BY <3>1, Unchanged
    <3>2. CASE cli_config' = c
      BY <1>2, <3>2 DEF KeysKept, Copied, Configured
    <3> QED  BY <2>1, <3>1, <3>2
  <2>3. cli_state'.key \in {cli_state.key, cli_config.key}
    <3>1. CASE C!OpenState(p)
      BY <3>1 DEF C!OpenState, C!Opened, C!NoState
    <3>2. CASE C!SaveState(p)
      <4>1. cli_state'.key = c.key
        BY <3>2 DEF C!SaveState, C!Cfg
      <4> QED  BY <1>2, <4>1 DEF Copied
    <3>3. C!Sync(p) \/ C!SyncFails(p) \/ C!SaveConfig(p) => cli_state' = cli_state
      BY DEF C!Sync, C!SyncFails, C!SaveConfig, C!files
    <3> QED  BY <3>1, <3>2, <3>3
  <2> QED  BY <1>1, <2>2, <2>3 DEF FilesKept
<1>4. CASE C!Fails(p)
  BY <1>2, <1>3, <1>4, FailsStep
<1>5. CASE C!Ends(p)
  BY <1>2, <1>3, <1>5, QuietEnd DEF C!Ends
<1>6. ASSUME NEW at \in {"opened", "stored"}, NEW marks, NEW todo,
             cli_proc' = [cli_proc EXCEPT ![p] =
               Onto(cli_proc[p], at, marks, cli_proc[p].key, todo)],
             at = "opened" /\ cli_proc[p].op = "snapshot" => c.enabled
      PROVE  CliFits'
  <2> DEFINE x == Onto(cli_proc[p], at, marks, cli_proc[p].key, todo)
  <2>1. /\ CommandShape(x) /\ x.op = cli_proc[p].op /\ x.cfg = c /\ x.arg = cli_proc[p].arg
        /\ x.pc = at
    BY OntoFields
  <2>2. cli_proc' = [cli_proc EXCEPT ![p] = x]
    BY <1>6
  <2> HIDE DEF x
  <2>3. x.pc # "sealing" /\ x.op # "init"
        /\ (x.pc = "opened" /\ x.op = "snapshot" => x.cfg.enabled)
    BY <1>1, <1>6, <2>1
  <2> QED  BY <1>2, <1>3, <2>1, <2>2, <2>3, QuietStep
<1>7. CASE C!OpenState(p) /\ ~C!Fails(p)
  <2>1. PICK m, s : cli_proc' =
          [cli_proc EXCEPT ![p].pc = "opened", ![p].marks = m, ![p].todo = s]
    <3> DEFINE o == C!Opened(C!Cfg(p).key)
               t == IF cli_proc[p].op \in C!Refreshing THEN C!Cfg(p).adapters ELSE {}
    <3>1. cli_proc' =
            [cli_proc EXCEPT ![p].pc = "opened", ![p].marks = o.marks, ![p].todo = t]
      BY <1>7, Zenon DEF C!OpenState
    <3> HIDE DEF o, t
    <3> QED  BY <3>1, Zenon
  <2>2. cli_proc' = [cli_proc EXCEPT ![p] =
          Onto(cli_proc[p], "opened", m, cli_proc[p].key, s)]
    <3>1. PICK y : y = cli_proc[p]
      OBVIOUS
    <3>2. CommandShape(y)
      BY <1>2, <2>1, <3>1
    <3>3. PICK z : z = [y EXCEPT !.pc = "opened", !.marks = m, !.todo = s]
      OBVIOUS
    <3>4. cli_proc' = [cli_proc EXCEPT ![p] = z]
      BY <2>1, <3>1, <3>3 DEF CliFits
    <3>5. z = Onto(y, "opened", m, y.key, s)
      BY <3>2, <3>3 DEF CommandShape, Onto
    <3> QED  BY <3>1, <3>4, <3>5
  <2>3. cli_proc[p].op = "snapshot" => c.enabled
    BY <1>7 DEF C!OpenState, C!MayOpen, C!Cfg, C!Backups
  <2> QED  BY <1>6, <2>2, <2>3
<1>8. CASE C!Sync(p)
  <2>1. PICK a \in cli_proc[p].todo :
          cli_proc' = [cli_proc EXCEPT ![p].todo = @ \ {a}, ![p].marks = @ \cup {cli_fresh + 1}]
    BY <1>8 DEF C!Sync
  <2>2. cli_proc[p].pc = "opened" /\ cli_proc[p].op \in {"refresh", "watch"}
    BY <1>8 DEF C!Sync, C!At, C!Refreshing
  <2>3. cli_proc' = [cli_proc EXCEPT ![p] =
          Onto(cli_proc[p], "opened", cli_proc[p].marks \cup {cli_fresh + 1},
               cli_proc[p].key, cli_proc[p].todo \ {a})]
    <3>1. PICK y : y = cli_proc[p]
      OBVIOUS
    <3>2. CommandShape(y) /\ y.pc = "opened"
      BY <1>2, <2>1, <2>2, <3>1
    <3>3. PICK z : z = [y EXCEPT !.todo = @ \ {a}, !.marks = @ \cup {cli_fresh + 1}]
      OBVIOUS
    <3>4. cli_proc' = [cli_proc EXCEPT ![p] = z]
      BY <2>1, <2>2, <3>1, <3>3 DEF CliFits
    <3>5. z = Onto(y, "opened", y.marks \cup {cli_fresh + 1}, y.key, y.todo \ {a})
      BY <3>2, <3>3 DEF CommandShape, Onto
    <3> QED  BY <3>1, <3>4, <3>5
  <2> QED  BY <1>6, <2>2, <2>3
<1>9. CASE C!SaveState(p) /\ ~C!Ends(p)
  <2>1. cli_proc' = [cli_proc EXCEPT ![p].pc = "stored"]
    BY <1>9 DEF C!SaveState
  <2>2. cli_proc' = [cli_proc EXCEPT ![p] =
          Onto(cli_proc[p], "stored", cli_proc[p].marks, cli_proc[p].key, cli_proc[p].todo)]
    <3>1. PICK y : y = cli_proc[p]
      OBVIOUS
    <3>2. CommandShape(y)
      BY <1>2, <2>1, <3>1
    <3>3. PICK z : z = [y EXCEPT !.pc = "stored"]
      OBVIOUS
    <3>4. cli_proc' = [cli_proc EXCEPT ![p] = z]
      BY <2>1, <3>1, <3>3 DEF CliFits
    <3>5. z = Onto(y, "stored", y.marks, y.key, y.todo)
      BY <3>2, <3>3 DEF CommandShape, Onto
    <3> QED  BY <3>1, <3>4, <3>5
  <2> QED  BY <1>6, <2>2
<1>10. CASE (C!SyncFails(p) \/ C!SaveConfig(p)) /\ ~C!Fails(p)
  BY <1>10 DEF C!SyncFails, C!SaveConfig
<1> QED  BY <1>4, <1>5, <1>7, <1>8, <1>9, <1>10

\* Commands that end without a word on keys.
LEMMA CommandEndStep ==
  ASSUME CliFits, NEW p \in CliProc, C!Refused(p) \/ C!Prune(p) \/ C!Interrupted(p)
  PROVE  CliFits'
<1>1. /\ cli_proc[p].op \in {"address", "refresh", "snapshot", "restore", "prune", "watch"}
      /\ cli_proc[p].pc \in {"loaded", "opened"}
      /\ cli_proc' = [cli_proc EXCEPT ![p] = C!Resting]
      /\ cli_config' = cli_config /\ cli_state' = cli_state /\ cli_listener' = cli_listener
  <2>1. CASE C!Refused(p)
    BY <2>1 DEF C!Refused, C!At, C!Ends, C!files, C!Backups
  <2>2. CASE C!Prune(p)
    BY <2>2 DEF C!Prune, C!At, C!Ends
  <2>3. CASE C!Interrupted(p)
    BY <2>3 DEF C!Interrupted, C!At, C!Ends, C!files
  <2> QED  BY <2>1, <2>2, <2>3
<1>2. cli_snaps' \subseteq cli_snaps
  BY DEF C!Refused, C!Prune, C!Interrupted, C!files
<1>3. KeysKept
  BY <1>1, Unchanged
<1> QED  BY <1>1, <1>2, <1>3, QuietEnd DEF FilesKept, Sealing

LEMMA RestoreStep ==
  ASSUME CliFits, NEW p \in CliProc, C!Restore(p)
  PROVE  CliFits'
<1>1. /\ cli_proc[p].op = "restore" /\ cli_proc[p].pc = "opened"
      /\ cli_proc' = [cli_proc EXCEPT ![p].pc = "applied", ![p].marks = @ \cup {cli_fresh + 1}]
      /\ cli_config' = cli_config /\ cli_state' = cli_state
      /\ cli_snaps' = cli_snaps /\ cli_listener' = cli_listener
  BY DEF C!Restore, C!At, C!files
<1>2. CommandShape(cli_proc[p])
  BY <1>1, OneRuns
<1>3. FilesKept
  BY <1>1, Unchanged DEF FilesKept
<1> DEFINE x == Onto(cli_proc[p], "applied", cli_proc[p].marks \cup {cli_fresh + 1},
                     cli_proc[p].key, cli_proc[p].todo)
<1>4. cli_proc' = [cli_proc EXCEPT ![p] = x]
  <2>1. PICK y : y = cli_proc[p]
    OBVIOUS
  <2>2. CommandShape(y)
    BY <1>2, <2>1
  <2>3. PICK z : z = [y EXCEPT !.pc = "applied", !.marks = @ \cup {cli_fresh + 1}]
    OBVIOUS
  <2>4. cli_proc' = [cli_proc EXCEPT ![p] = z]
    BY <1>1, <2>1, <2>3 DEF CliFits
  <2>5. z = Onto(y, "applied", y.marks \cup {cli_fresh + 1}, y.key, y.todo)
    BY <2>2, <2>3 DEF CommandShape, Onto
  <2> QED  BY <2>1, <2>4, <2>5
<1>5. /\ CommandShape(x) /\ x.op = cli_proc[p].op /\ x.cfg = cli_proc[p].cfg
      /\ x.arg = cli_proc[p].arg /\ x.pc = "applied"
  BY OntoFields
<1> HIDE DEF x
<1>6. cli_proc[p].op # "none" /\ ~Sealing(cli_proc[p]) /\ x.pc # "sealing" /\ x.pc # "opened"
  BY <1>1, <1>5 DEF Sealing
<1> QED  BY <1>3, <1>4, <1>5, <1>6, QuietStep

LEMMA SnapshotStep ==
  ASSUME CliFits, NEW p \in CliProc, C!Snapshot(p)
  PROVE  CliFits'
<1>1. /\ cli_proc[p].op = "snapshot" /\ cli_proc[p].pc = "opened"
      /\ cli_proc' = [cli_proc EXCEPT ![p].pc = "applied"]
      /\ cli_snaps' = cli_snaps \cup {C!Created(p)}
      /\ cli_config' = cli_config /\ cli_state' = cli_state /\ cli_listener' = cli_listener
  BY DEF C!Snapshot, C!At
<1>2. CommandShape(cli_proc[p])
  BY <1>1, OneRuns
<1>3. /\ Copied(cli_proc[p].cfg) /\ cli_config.enabled /\ Opens
      /\ \A q \in CliProc : q # p => cli_proc[q].op = "none"
  BY <1>1, OneRuns DEF CommandFits
<1>4. PICK x :
        /\ x = Onto(cli_proc[p], "applied", cli_proc[p].marks, cli_proc[p].key, cli_proc[p].todo)
        /\ cli_proc' = [cli_proc EXCEPT ![p] = x]
  <2>1. PICK y : y = cli_proc[p]
    OBVIOUS
  <2>2. CommandShape(y)
    BY <1>2, <2>1
  <2>3. PICK z : z = [y EXCEPT !.pc = "applied"]
    OBVIOUS
  <2>4. cli_proc' = [cli_proc EXCEPT ![p] = z]
    BY <1>1, <2>1, <2>3 DEF CliFits
  <2>5. z = Onto(y, "applied", y.marks, y.key, y.todo)
    BY <2>2, <2>3 DEF CommandShape, Onto
  <2> QED  BY <2>1, <2>4, <2>5
<1>5. /\ CommandShape(x) /\ x.op = "snapshot" /\ x.cfg = cli_proc[p].cfg
      /\ x.arg = cli_proc[p].arg /\ x.pc = "applied"
  BY <1>1, <1>4, OntoFields
<1>6. SnapsFit' /\ Opens'
  <2>1. /\ C!Created(p).dir \in CliDir /\ C!Created(p).key = cli_config.key
        /\ C!Created(p) = [id |-> C!Created(p).id, dir |-> C!Created(p).dir,
                           adapter |-> C!Created(p).adapter, key |-> C!Created(p).key]
    BY <1>3 DEF C!Created, C!Cfg, Copied, Configured
  <2> QED  BY <1>1, <1>3, <2>1 DEF SnapsFit, CliFits, Opens
<1>7. KeysKept
  BY <1>1, Unchanged
<1>8. Copied(x.cfg)'
  BY <1>3, <1>5, <1>7 DEF Copied, KeysKept, Configured
<1>9. CommandFits(x)'
  BY <1>5, <1>6, <1>8 DEF CommandFits, Copied
<1>10. ListenerFits' /\ cli_listener'.pid = 0
  BY <1>1, <1>7, ListenerStays DEF CliFits, Beside
<1> QED  BY <1>3, <1>4, <1>5, <1>6, <1>7, <1>9, <1>10, CommandMoves DEF KeysKept

\* The state is sealed anew, and the snapshots of the one directory are to be.
LEMMA RotateStateStep ==
  ASSUME CliFits, NEW p \in CliProc, C!RotateState(p)
  PROVE  CliFits'
<1> DEFINE c == cli_proc[p].cfg
           ids == IF ~c.enabled THEN {}
                  ELSE {s.id : s \in {t \in cli_snaps : t.dir = c.dir /\ t.adapter = "file"}}
<1>1. /\ cli_proc[p].op = "rotate" /\ cli_proc[p].pc = "loaded"
      /\ cli_proc' = [cli_proc EXCEPT ![p].pc = "sealing", ![p].key = cli_fresh + 1,
                                      ![p].todo = ids]
      /\ cli_state'.key = cli_fresh + 1 /\ cli_snaps' = cli_snaps
      /\ cli_config' = cli_config /\ cli_listener' = cli_listener
  BY DEF C!RotateState, C!At, C!Cfg
<1>2. CommandShape(cli_proc[p])
  BY <1>1, OneRuns
<1>3. /\ Copied(c) /\ Opens
      /\ \A q \in CliProc : q # p => cli_proc[q].op = "none"
  BY <1>1, OneRuns DEF CommandFits
<1>4. PICK todo : todo = ids
  OBVIOUS
<1>5. OneDirectory => \A s \in cli_snaps : s.adapter = "file" => s.id \in todo
  <2> SUFFICES ASSUME OneDirectory, NEW s \in cli_snaps, s.adapter = "file"
               PROVE  s.id \in todo
    OBVIOUS
  <2>1. s.dir \in CliDir /\ c.enabled /\ c.dir \in CliDir
    BY <1>3 DEF CliFits, SnapsFit, Copied, Configured
  <2>2. s.dir = c.dir
    BY <2>1 DEF OneDirectory
  <2> QED  BY <1>4, <2>1, <2>2
<1> HIDE DEF ids
<1>6. PICK x :
        /\ x = Onto(cli_proc[p], "sealing", cli_proc[p].marks, cli_fresh + 1, todo)
        /\ cli_proc' = [cli_proc EXCEPT ![p] = x]
  <2>1. PICK y : y = cli_proc[p]
    OBVIOUS
  <2>2. CommandShape(y)
    BY <1>2, <2>1
  <2>3. PICK z : z = [y EXCEPT !.pc = "sealing", !.key = cli_fresh + 1, !.todo = todo]
    OBVIOUS
  <2>4. cli_proc' = [cli_proc EXCEPT ![p] = z]
    BY <1>1, <1>4, <2>1, <2>3 DEF CliFits
  <2>5. z = Onto(y, "sealing", y.marks, cli_fresh + 1, todo)
    BY <2>2, <2>3 DEF CommandShape, Onto
  <2> QED  BY <2>1, <2>4, <2>5
<1>7. /\ CommandShape(x) /\ x.op = "rotate" /\ x.cfg = c /\ x.pc = "sealing"
      /\ x.key = cli_fresh + 1 /\ x.todo = todo
  BY <1>1, <1>6, OntoFields
<1>8. Resealed(x)'
  BY <1>1, <1>3, <1>5, <1>7 DEF Resealed, Opens
<1>9. KeysKept
  BY <1>1, Unchanged
<1>10. Copied(x.cfg)'
  BY <1>3, <1>7, <1>9 DEF Copied, KeysKept, Configured
<1>11. CommandFits(x)'
  BY <1>7, <1>8, <1>10 DEF CommandFits, Copied, Resealed
<1>12. ListenerFits' /\ cli_listener'.pid = 0 /\ SnapsFit'
  BY <1>1, <1>9, ListenerStays, SnapsStay DEF CliFits, Beside
<1> QED  BY <1>3, <1>6, <1>7, <1>9, <1>11, <1>12, CommandMoves DEF KeysKept

LEMMA ResealStep ==
  ASSUME CliFits, NEW p \in CliProc, C!Reseal(p), ~cli_disturbed'
  PROVE  CliFits'
<1> DEFINE c == cli_proc[p].cfg
<1>1. PICK i \in cli_proc[p].todo, found \in SUBSET cli_snaps :
        /\ found = {s \in cli_snaps : s.id = i /\ s.key = c.key}
        /\ cli_snaps' = (cli_snaps \ found) \cup {[s EXCEPT !.key = cli_proc[p].key] : s \in found}
        /\ cli_proc' = [cli_proc EXCEPT ![p].todo = @ \ {i}]
  <2>1. PICK i \in cli_proc[p].todo :
          LET found == {s \in cli_snaps : s.id = i /\ s.key = c.key}
          IN  IF found = {} \/ ~C!Legible(c.dir, "file")
              THEN cli_disturbed' = TRUE
              ELSE /\ cli_snaps' = (cli_snaps \ found) \cup C!Reencrypted(found, cli_proc[p].key)
                   /\ cli_proc' = [cli_proc EXCEPT ![p].todo = @ \ {i}]
    BY DEF C!Reseal, C!Cfg
  <2>2. PICK found : found = {s \in cli_snaps : s.id = i /\ s.key = c.key}
    OBVIOUS
  <2>3. found \in SUBSET cli_snaps
    BY <2>2
  <2>4. C!Reencrypted(found, cli_proc[p].key) = {[s EXCEPT !.key = cli_proc[p].key] : s \in found}
    BY DEF C!Reencrypted
  <2>5. /\ cli_snaps' = (cli_snaps \ found) \cup C!Reencrypted(found, cli_proc[p].key)
        /\ cli_proc' = [cli_proc EXCEPT ![p].todo = @ \ {i}]
    BY <2>1, <2>2
  <2> QED  BY <2>2, <2>3, <2>4, <2>5, Zenon
<1>2. /\ cli_proc[p].op = "rotate" /\ cli_proc[p].pc = "sealing"
      /\ cli_config' = cli_config /\ cli_listener' = cli_listener /\ cli_state' = cli_state
  BY DEF C!Reseal, C!At
<1>3. /\ Copied(c) /\ Resealed(cli_proc[p]) /\ CommandShape(cli_proc[p])
      /\ \A q \in CliProc : q # p => cli_proc[q].op = "none"
  BY <1>2, OneRuns DEF CommandFits
<1>4. PICK x :
        /\ x = Onto(cli_proc[p], "sealing", cli_proc[p].marks, cli_proc[p].key,
                    cli_proc[p].todo \ {i})
        /\ cli_proc' = [cli_proc EXCEPT ![p] = x]
  <2>1. PICK y : y = cli_proc[p]
    OBVIOUS
  <2>2. CommandShape(y) /\ y.pc = "sealing"
    BY <1>2, <1>3, <2>1
  <2>3. PICK z : z = [y EXCEPT !.todo = @ \ {i}]
    OBVIOUS
  <2>4. cli_proc' = [cli_proc EXCEPT ![p] = z]
    BY <1>1, <2>1, <2>3 DEF CliFits
  <2>5. z = Onto(y, "sealing", y.marks, y.key, y.todo \ {i})
    BY <2>2, <2>3 DEF CommandShape, Onto
  <2> QED  BY <2>1, <2>4, <2>5
<1>5. /\ CommandShape(x) /\ x.op = "rotate" /\ x.cfg = c /\ x.pc = "sealing"
      /\ x.key = cli_proc[p].key /\ x.todo = cli_proc[p].todo \ {i}
  BY <1>2, <1>4, OntoFields
<1>6. \A s \in cli_snaps' :
        \/ s \in cli_snaps \ found
        \/ \E t \in found : s = [id |-> t.id, dir |-> t.dir, adapter |-> t.adapter,
                              key |-> cli_proc[p].key]
  BY <1>1 DEF CliFits, SnapsFit
<1>7. SnapsFit'
  <2> SUFFICES ASSUME NEW s \in cli_snaps'
               PROVE  /\ s = [id |-> s.id, dir |-> s.dir, adapter |-> s.adapter, key |-> s.key]
                      /\ s.dir \in CliDir /\ cli_config'.enabled
    BY DEF SnapsFit
  <2>1. CASE s \in cli_snaps
    BY <1>2, <2>1 DEF CliFits, SnapsFit
  <2>2. CASE s \notin cli_snaps
    <3>1. PICK t \in found : s = [id |-> t.id, dir |-> t.dir, adapter |-> t.adapter,
                                 key |-> cli_proc[p].key]
      BY <1>6, <2>2
    <3>2. t.dir \in CliDir /\ cli_config.enabled
      BY <3>1 DEF CliFits, SnapsFit
    <3> QED  BY <1>2, <3>1, <3>2
  <2> QED  BY <2>1, <2>2
<1>8. Resealed(x)'
  <2> SUFFICES ASSUME OneDirectory, NEW s \in cli_snaps', s.adapter = "file"
               PROVE  s.key \in {C!Cut, x.key} \/ (s.id \in x.todo /\ s.key = cli_config'.key)
    BY <1>2, <1>3, <1>5 DEF Resealed
  <2>1. CASE s \in cli_snaps \ found
    BY <1>1, <1>2, <1>3, <1>5, <2>1 DEF Resealed, Copied
  <2>2. CASE s \notin cli_snaps \ found
    BY <1>5, <1>6, <2>2
  <2> QED  BY <2>1, <2>2
<1>9. KeysKept
  BY <1>2, Unchanged
<1>10. Copied(x.cfg)'
  BY <1>3, <1>5, <1>9 DEF Copied, KeysKept, Configured
<1>11. CommandFits(x)'
  BY <1>5, <1>8, <1>10 DEF CommandFits, Copied, Resealed
<1>12. ListenerFits' /\ cli_listener'.pid = 0
  BY <1>2, <1>9, ListenerStays DEF CliFits, Beside
<1> QED  BY <1>3, <1>4, <1>5, <1>7, <1>9, <1>11, <1>12, CommandMoves DEF KeysKept

LEMMA RotateConfigStep ==
  ASSUME CliFits, NEW p \in CliProc, C!RotateConfig(p)
  PROVE  CliFits'
<1> DEFINE c == cli_proc[p].cfg
<1>1. /\ cli_proc[p].op = "rotate" /\ cli_proc[p].pc = "sealing" /\ cli_proc[p].todo = {}
      /\ cli_config' = [c EXCEPT !.key = cli_proc[p].key,
                           !.devices = IF cli_proc[p].arg = "clear" THEN {} ELSE @]
      /\ cli_proc' = [cli_proc EXCEPT ![p] = C!Resting]
      /\ cli_state' = cli_state /\ cli_snaps' = cli_snaps /\ cli_listener' = cli_listener
  BY DEF C!RotateConfig, C!At, C!Ends, C!Cfg, C!Arg
<1>2. Copied(c) /\ Resealed(cli_proc[p])
  BY <1>1, OneRuns DEF CommandFits
<1>3. /\ cli_config'.key = cli_proc[p].key /\ cli_config'.enabled = c.enabled
      /\ Configured(cli_config')
  BY <1>1, <1>2 DEF Copied, Configured
<1>4. Opens'
  BY <1>1, <1>2, <1>3 DEF Opens, Resealed
<1>5. cli_listener.pid = 0
  BY <1>1 DEF CliFits, Beside
<1>6. ListenerFits' /\ SnapsFit'
  BY <1>1, <1>2, <1>3, <1>5 DEF ListenerFits, SnapsFit, CliFits, Copied
<1> QED  BY <1>1, <1>3, <1>4, <1>6, CommandEnds

\* A new configuration counts as a key change that was cut short.
LEMMA InitStep ==
  ASSUME CliFits, NEW p \in CliProc, C!InitConfig(p) \/ C!InitState(p)
  PROVE  cli_disturbed'
<1>1. CASE C!InitConfig(p)
  BY <1>1 DEF C!InitConfig
<1>2. CASE C!InitState(p)
  <2>1. cli_proc[p].op = "init" /\ cli_proc[p].pc = "opened"
    BY <1>2 DEF C!InitState, C!At
  <2> QED  BY <2>1, OneRuns DEF CommandFits
<1> QED  BY <1>1, <1>2

\* A listener is started with the configuration as it is.
LEMMA SpawnFits ==
  ASSUME CliFits, NEW auto, C!SpawnChild(auto), cli_config' = cli_config
  PROVE  ListenerFits'
<1>1. \/ cli_listener' = cli_listener
      \/ \E n, m, b : cli_listener' = [pid |-> n, cfg |-> cli_config, marks |-> m,
                                      key |-> cli_config.key, auto |-> b]
  BY DEF C!SpawnChild
<1>2. CASE cli_listener' = cli_listener
  BY <1>2, Unchanged, ListenerStays DEF CliFits
<1>3. CASE cli_listener' # cli_listener
  BY <1>1, <1>3 DEF ListenerFits, Copied, Configured, CliFits
<1> QED  BY <1>2, <1>3

\* What is cut short is not the configuration, or counts as disturbed.
LEMMA CutIsDisturbed ==
  C!NoConfig.key = C!Cut /\ C!NoState.key = C!Cut
BY DEF C!NoConfig, C!NewConfig, C!NoState

LEMMA ListenStep ==
  ASSUME CliFits, ~cli_disturbed', NEW p \in CliProc, C!Listen(p) \/ C!Stop(p)
  PROVE  CliFits'
<1>1. /\ cli_proc[p].op \in {"listen", "stop"} /\ cli_proc[p].pc = "loaded"
      /\ cli_proc' = [cli_proc EXCEPT ![p] = C!Resting]
      /\ cli_config' = cli_config /\ cli_state' \in {cli_state, C!NoState}
      /\ cli_snaps' = cli_snaps
  BY CutIsDisturbed DEF C!Listen, C!Stop, C!At, C!Ends
<1>2. Opens
  BY <1>1, OneRuns DEF CommandFits
<1>3. Opens' /\ KeysKept
  BY <1>1, <1>2, Unchanged, CutIsDisturbed DEF Opens
<1>4. ListenerFits'
  <2>1. CASE C!Listen(p)
    BY <1>1, <2>1, SpawnFits DEF C!Listen, C!Spawn
  <2>2. CASE C!Stop(p)
    <3>1. cli_listener' = cli_listener \/ cli_listener'.pid = 0
      BY <2>2 DEF C!Stop, C!Down
    <3>2. CASE cli_listener' = cli_listener
      BY <1>3, <3>2, ListenerStays DEF CliFits
    <3> QED  BY <3>1, <3>2 DEF ListenerFits
  <2> QED  BY <2>1, <2>2
<1>5. SnapsFit'
  BY <1>1, <1>3, SnapsStay DEF CliFits
<1> QED  BY <1>1, <1>3, <1>4, <1>5, CommandEnds DEF KeysKept

LEMMA EnsureListenerStep ==
  ASSUME CliFits, NEW p \in CliProc, C!EnsureListener(p)
  PROVE  CliFits'
<1>1. /\ cli_proc[p].op = "watch" /\ cli_proc[p].pc = "begun"
      /\ cli_proc' = [cli_proc EXCEPT ![p].pc = "loaded"]
      /\ cli_config' = cli_config /\ cli_state' = cli_state /\ cli_snaps' = cli_snaps
  BY DEF C!EnsureListener, C!At
<1>2. /\ CommandShape(cli_proc[p]) /\ Copied(cli_proc[p].cfg) /\ Opens
      /\ \A q \in CliProc : q # p => cli_proc[q].op = "none"
  BY <1>1, OneRuns DEF CommandFits
<1>3. PICK x :
        /\ x = Onto(cli_proc[p], "loaded", cli_proc[p].marks, cli_proc[p].key, cli_proc[p].todo)
        /\ cli_proc' = [cli_proc EXCEPT ![p] = x]
  <2>1. PICK y : y = cli_proc[p]
    OBVIOUS
  <2>2. CommandShape(y)
    BY <1>2, <2>1
  <2>3. PICK z : z = [y EXCEPT !.pc = "loaded"]
    OBVIOUS
  <2>4. cli_proc' = [cli_proc EXCEPT ![p] = z]
    BY <1>1, <2>1, <2>3 DEF CliFits
  <2>5. z = Onto(y, "loaded", y.marks, y.key, y.todo)
    BY <2>2, <2>3 DEF CommandShape, Onto
  <2> QED  BY <2>1, <2>4, <2>5
<1>4. CommandShape(x) /\ x.op = "watch" /\ x.cfg = cli_proc[p].cfg /\ x.pc = "loaded"
  BY <1>1, <1>3, OntoFields
<1>5. KeysKept /\ Opens' /\ Copied(x.cfg)'
  BY <1>1, <1>2, <1>4, Unchanged DEF Opens, Copied, Configured
<1>6. CommandFits(x)'
  BY <1>4, <1>5 DEF CommandFits, Copied, Opens
<1>7. ListenerFits'
  <2>1. CASE cli_listener' = cli_listener
    BY <1>5, <2>1, ListenerStays DEF CliFits
  <2>2. CASE cli_listener' # cli_listener
    BY <1>1, <2>2, SpawnFits DEF C!EnsureListener, C!Spawn
  <2> QED  BY <2>1, <2>2
<1>8. SnapsFit' /\ x.op \in Beside
  BY <1>1, <1>4, <1>5, SnapsStay DEF CliFits, Beside
<1> QED  BY <1>2, <1>3, <1>4, <1>5, <1>6, <1>7, <1>8, CommandMoves DEF KeysKept

\* A command is killed, and the state, a snapshot or the pid file may be cut short.
LEMMA KillStep ==
  ASSUME CliFits, NEW p \in CliProc, C!Kill(p), ~cli_disturbed'
  PROVE  CliFits'
<1>1. /\ cli_proc[p].op # "none"
      /\ cli_proc' = [cli_proc EXCEPT ![p] = C!Resting]
      /\ cli_config' = cli_config /\ cli_state' \in {cli_state, C!NoState}
  BY CutIsDisturbed DEF C!Kill, C!Running, C!None, C!Ends, C!files
<1>2. ~Sealing(cli_proc[p])
  BY DEF C!Kill, C!At, Sealing
<1>3. KeysKept /\ cli_state'.key \in {C!Cut, cli_state.key}
  BY <1>1, Unchanged, CutIsDisturbed
<1>4. CASE cli_snaps' = cli_snaps /\ cli_listener' = cli_listener
  BY <1>1, <1>2, <1>3, <1>4, QuietEnd DEF FilesKept
<1>5. Copied(cli_proc[p].cfg) /\ Opens
      /\ (cli_proc[p].op = "snapshot" /\ cli_proc[p].pc = "opened" => cli_config.enabled)
  BY <1>1, <1>2, OneRuns DEF CommandFits, Sealing
<1>6. CASE C!CutSnapshot(p) /\ cli_listener' = cli_listener
  <2>1. /\ cli_proc[p].op = "snapshot" /\ cli_proc[p].pc = "opened"
        /\ cli_snaps' = cli_snaps \cup {[C!Created(p) EXCEPT !.key = C!Cut]}
    BY <1>2, <1>6 DEF C!CutSnapshot, C!At, Sealing
  <2>2. PICK new : new = [C!Created(p) EXCEPT !.key = C!Cut]
    OBVIOUS
  <2>3. /\ new = [id |-> new.id, dir |-> new.dir, adapter |-> new.adapter, key |-> new.key]
        /\ new.dir \in CliDir /\ new.key = C!Cut
    BY <1>5, <2>1, <2>2 DEF C!Created, C!Cfg, Copied, Configured
  <2>4. SnapsFit'
    BY <1>1, <1>5, <2>1, <2>2, <2>3 DEF SnapsFit, CliFits
  <2>5. Opens'
    BY <1>1, <1>3, <1>5, <2>1, <2>2, <2>3 DEF Opens
  <2>6. ListenerFits'
    BY <1>3, <1>6, ListenerStays DEF CliFits
  <2> QED  BY <1>1, <1>3, <2>4, <2>5, <2>6, CommandEnds DEF KeysKept
<1>7. CASE C!CutPid(p) /\ cli_state' = cli_state /\ cli_snaps' = cli_snaps
  <2>1. PICK auto : C!SpawnChild(auto)
    BY <1>7 DEF C!CutPid
  <2>2. ListenerFits'
    BY <1>1, <2>1, SpawnFits
  <2>3. Opens' /\ SnapsFit'
    BY <1>1, <1>3, <1>5, <1>7, SnapsStay DEF Opens, CliFits
  <2> QED  BY <1>1, <1>3, <2>2, <2>3, CommandEnds DEF KeysKept
<1> QED  BY <1>4, <1>6, <1>7 DEF C!Kill, C!files

\* A command begins when no other runs.
LEMMA BeginStep ==
  ASSUME C!CliAssumption, CliFits, cli_scope.alone,
         NEW p \in CliProc, NEW op \in C!Ops, NEW arg \in C!Arguments(op), C!Begin(p, op, arg)
  PROVE  CliFits'
<1>1. /\ \A q \in CliProc : cli_proc[q].op = "none"
      /\ cli_listener.pid # 0 => op \in {"stop", "listen"}
      /\ cli_state' = cli_state /\ cli_snaps' = cli_snaps /\ cli_listener' = cli_listener
  BY DEF C!Begin, C!MayBegin, C!Running, C!None
<1>2. PICK c, d, x :
        /\ c \in {cli_config} \cup C!Loaded(cli_config)
        /\ d = IF op \in C!Backups /\ c.dir = C!None THEN [c EXCEPT !.dir = C!Default] ELSE c
        /\ cli_config' = d
        /\ x = [C!Resting EXCEPT !.op = op, !.arg = arg, !.cfg = d,
                               !.pc = IF op = "watch" THEN "begun" ELSE "loaded"]
        /\ cli_proc' = [cli_proc EXCEPT ![p] = x]
  <2>1. PICK c \in IF op = "init" THEN {cli_config} ELSE C!Loaded(cli_config) :
          LET d == IF op \in C!Backups /\ c.dir = C!None THEN [c EXCEPT !.dir = C!Default] ELSE c
          IN  /\ cli_config' = d
              /\ cli_proc' = [cli_proc EXCEPT ![p] =
                   [C!Resting EXCEPT !.op = op, !.arg = arg, !.cfg = d,
                                   !.pc = IF op = "watch" THEN "begun" ELSE "loaded"]]
    BY Zenon DEF C!Begin
  <2>2. c \in {cli_config} \cup C!Loaded(cli_config)
    BY <2>1
  <2> QED  BY <2>1, <2>2, Zenon
<1>3. /\ CommandShape(x) /\ x.op = op /\ x.arg = arg /\ x.cfg = d
      /\ x.pc \in {"begun", "loaded"}
  BY <1>2 DEF C!Resting, CommandShape
<1>4. Configured(c) /\ c.key = cli_config.key /\ c.enabled = cli_config.enabled
      /\ c.dir = cli_config.dir
  BY <1>2 DEF C!Loaded, CliFits, Configured
<1>5. C!Default \in CliDir
  BY DEF C!Default, C!CliAssumption
<1>6. Configured(d) /\ d.key = cli_config.key /\ d.enabled = cli_config.enabled
  BY <1>2, <1>4, <1>5 DEF Configured
<1>7. cli_listener.pid # 0 => d = c
  BY <1>1, <1>2 DEF C!Backups
<1>8. Opens' /\ SnapsFit'
  BY <1>1, <1>2, <1>6 DEF Opens, SnapsFit, CliFits
<1>9. ListenerFits'
  <2>1. cli_listener.pid # 0 => KeysKept
    BY <1>2, <1>4, <1>6, <1>7 DEF KeysKept
  <2>2. CASE cli_listener.pid # 0
    BY <1>1, <2>1, <2>2, ListenerStays DEF CliFits
  <2> QED  BY <1>1, <2>2 DEF ListenerFits
<1>10. Copied(x.cfg)'
  BY <1>2, <1>3, <1>6 DEF Copied, Configured
<1>11. op = "configure" => arg \in CliDir
  BY DEF C!Arguments
<1>12. CommandFits(x)'
  BY <1>3, <1>8, <1>10, <1>11 DEF CommandFits, Copied, Opens
<1>13. cli_listener'.pid # 0 => x.op \in Beside
  BY <1>1, <1>3 DEF Beside
<1> QED  BY <1>1, <1>2, <1>3, <1>6, <1>8, <1>9, <1>12, <1>13, CommandMoves

\* The listener takes a step beside the commands.
LEMMA BesideStep ==
  ASSUME CliFits, cli_proc' = cli_proc, KeysKept,
         cli_state'.key \in {cli_state.key, cli_config.key},
         cli_snaps' = cli_snaps, ListenerFits', cli_listener.pid # 0
  PROVE  CliFits'
<1>1. \A p \in CliProc : cli_proc[p].op \in Beside
  BY DEF CliFits
<1>2. \A p \in CliProc : CommandShape(cli_proc[p])'
  BY DEF CliFits, CommandShape
<1>3. \A p \in CliProc : CommandFits(cli_proc[p])'
  <2> SUFFICES ASSUME NEW p \in CliProc, cli_proc[p].op # "none"
               PROVE  CommandFits(cli_proc[p])'
    BY DEF CommandFits
  <2>1. Copied(cli_proc[p].cfg) /\ Opens /\ ~Sealing(cli_proc[p])
    BY <1>1, OneRuns DEF CommandFits, Beside, Sealing
  <2>2. Copied(cli_proc[p].cfg)'
    BY <2>1 DEF Copied, KeysKept, Configured
  <2>3. Opens'
    BY <2>1 DEF Opens, KeysKept
  <2>4. cli_proc[p].op \notin {"init", "snapshot", "configure"}
    BY <1>1 DEF Beside
  <2> QED  BY <2>1, <2>2, <2>3, <2>4 DEF CommandFits, Sealing
<1>4. (\A p \in CliProc : cli_proc[p].op = "none") => Opens'
  BY DEF CliFits, Opens, KeysKept
<1>5. SnapsFit'
  BY SnapsStay DEF CliFits
<1>6. Configured(cli_config)' /\ cli_proc' = [p \in CliProc |-> cli_proc'[p]]
  BY DEF KeysKept, Configured, CliFits
<1>7. \A p, q \in CliProc : cli_proc'[p].op # "none" /\ cli_proc'[q].op # "none" => p = q
  BY DEF CliFits
<1> QED  BY <1>1, <1>2, <1>3, <1>4, <1>5, <1>6, <1>7 DEF CliFits

\* The key a listener works with opens the state, as nobody rotates it meanwhile.
LEMMA ListenerOpens ==
  ASSUME CliFits, cli_listener.pid # 0
  PROVE  Opens
<1>1. CASE \A p \in CliProc : cli_proc[p].op = "none"
  BY <1>1 DEF CliFits
<1>2. ASSUME NEW p \in CliProc, cli_proc[p].op # "none"
      PROVE  Opens
  BY <1>2, OneRuns DEF CommandFits, CliFits, Beside
<1> QED  BY <1>1, <1>2

LEMMA ListenerStep ==
  ASSUME CliFits, ~cli_disturbed',
         \/ \E d \in CliDevice : \E k \in {cli_listener.cfg.key, cli_fresh + 1} :
              C!Approve(d, k) \/ C!AutoLink(d, k)
         \/ C!Expire \/ C!Serve \/ C!WatchSave \/ C!Exit
  PROVE  CliFits'
<1>1. cli_listener.pid # 0 /\ cli_proc' = cli_proc /\ cli_snaps' = cli_snaps
  BY DEF C!Approve, C!AutoLink, C!Expire, C!Serve, C!WatchSave, C!Exit, C!Up, C!files
<1>2. PICK l : l = cli_listener
  OBVIOUS
<1>3. /\ l = [pid |-> l.pid, cfg |-> l.cfg, marks |-> l.marks, key |-> l.key, auto |-> l.auto]
      /\ Copied(l.cfg) /\ l.key = cli_config.key /\ l.pid # 0
  BY <1>1, <1>2 DEF CliFits, ListenerFits
<1>5. ASSUME NEW c, cli_config' = c, cli_listener' = [l EXCEPT !.cfg = c],
             c = [key |-> l.cfg.key, keys |-> c.keys, devices |-> c.devices,
                  adapters |-> c.adapters, auto |-> c.auto, enabled |-> l.cfg.enabled,
                  restore |-> c.restore, dir |-> l.cfg.dir],
             cli_state' = cli_state
      PROVE  CliFits'
  <2>1. KeysKept
    BY <1>3, <1>5, EditKeeps
  <2>2. cli_listener' = [pid |-> l.pid, cfg |-> c, marks |-> l.marks, key |-> l.key,
                         auto |-> l.auto]
    BY <1>3, <1>5
  <2>3. ListenerFits'
    BY <1>3, <1>5, <2>1, <2>2 DEF ListenerFits, Copied, KeysKept, Configured
  <2> QED  BY <1>1, <1>5, <2>1, <2>3, BesideStep
<1>6. ASSUME NEW d \in CliDevice, NEW k, C!Approve(d, k) \/ C!AutoLink(d, k)
      PROVE  CliFits'
  <2>1. k = l.cfg.key
    BY <1>2, <1>6 DEF C!Approve, C!AutoLink
  <2>2. PICK c : c = [l.cfg EXCEPT !.devices = @ \cup {d}, !.key = k]
    OBVIOUS
  <2>3. /\ cli_config' = c /\ cli_listener' = [l EXCEPT !.cfg = c]
        /\ cli_state' = cli_state
    BY <1>2, <1>6, <2>2 DEF C!Approve, C!AutoLink
  <2>4. c = [key |-> l.cfg.key, keys |-> c.keys, devices |-> c.devices,
             adapters |-> c.adapters, auto |-> c.auto, enabled |-> l.cfg.enabled,
             restore |-> c.restore, dir |-> l.cfg.dir]
    BY <1>3, <2>1, <2>2 DEF Copied, Configured
  <2> QED  BY <1>5, <2>3, <2>4
<1>7. CASE C!Expire
  <2>1. PICK c : c = [l.cfg EXCEPT !.auto = "off"]
    OBVIOUS
  <2>2. /\ cli_config' = c /\ cli_listener' = [l EXCEPT !.cfg = c]
        /\ cli_state' = cli_state
    BY <1>2, <1>7, <2>1 DEF C!Expire
  <2>3. c = [key |-> l.cfg.key, keys |-> c.keys, devices |-> c.devices,
             adapters |-> c.adapters, auto |-> c.auto, enabled |-> l.cfg.enabled,
             restore |-> c.restore, dir |-> l.cfg.dir]
    BY <1>3, <2>1 DEF Copied, Configured
  <2> QED  BY <1>5, <2>2, <2>3
<1>8. CASE C!Serve
  <2>1. /\ cli_config' = cli_config /\ cli_state' = cli_state
        /\ cli_listener' = [l EXCEPT !.marks = @ \cup {cli_fresh + 1}]
    BY <1>2, <1>8 DEF C!Serve, C!files
  <2>2. /\ cli_listener'.pid = l.pid /\ cli_listener'.cfg = l.cfg /\ cli_listener'.key = l.key
        /\ cli_listener' = [pid |-> l.pid, cfg |-> l.cfg, marks |-> l.marks \cup {cli_fresh + 1},
                            key |-> l.key, auto |-> l.auto]
    BY <1>3, <2>1
  <2>3. KeysKept
    BY <2>1, Unchanged
  <2>4. ListenerFits'
    BY <1>3, <2>1, <2>2 DEF ListenerFits, Copied, Configured
  <2> QED  BY <1>1, <2>1, <2>3, <2>4, BesideStep
<1>9. CASE C!WatchSave \/ C!Exit
  <2>1. /\ cli_config' = cli_config /\ cli_state'.key = cli_config.key
        /\ cli_listener' = cli_listener \/ cli_listener'.pid = 0
    BY <1>2, <1>3, <1>9 DEF C!WatchSave, C!Exit, C!Down, Copied
  <2>2. KeysKept
    BY <2>1, Unchanged
  <2>3. ListenerFits'
    <3>1. CASE cli_listener' = cli_listener
      BY <2>2, <3>1, ListenerStays DEF CliFits
    <3> QED  BY <2>1, <3>1 DEF ListenerFits
  <2> QED  BY <1>1, <2>1, <2>2, <2>3, BesideStep
<1> QED  BY <1>6, <1>7, <1>8, <1>9

\* What is disturbed stays so, and the scope is one for good.
LEMMA ScopeKept ==
  ASSUME [C!Next]_(C!vars)
  PROVE  cli_scope' = cli_scope /\ (cli_disturbed => cli_disturbed')
<1>1. ASSUME NEW p \in CliProc, C!Command(p)
      PROVE  cli_scope' = cli_scope /\ (cli_disturbed => cli_disturbed')
  <2>1. CASE C!Configure(p) \/ C!Link(p) \/ C!Unlink(p) \/ C!OpenState(p) \/ C!Sync(p)
             \/ C!SyncFails(p)
    BY <2>1 DEF C!Configure, C!Link, C!Unlink, C!OpenState, C!Sync, C!SyncFails
  <2>2. CASE C!SaveState(p) \/ C!SaveConfig(p) \/ C!Refused(p) \/ C!Snapshot(p)
             \/ C!Restore(p) \/ C!Prune(p)
    BY <2>2 DEF C!SaveState, C!SaveConfig, C!Refused, C!Snapshot, C!Restore, C!Prune
  <2>3. CASE C!RotateState(p) \/ C!Reseal(p) \/ C!RotateConfig(p) \/ C!InitConfig(p)
             \/ C!InitState(p)
    BY <2>3 DEF C!RotateState, C!Reseal, C!RotateConfig, C!InitConfig, C!InitState
  <2>4. CASE C!Listen(p) \/ C!EnsureListener(p) \/ C!Interrupted(p)
    BY <2>4 DEF C!Listen, C!EnsureListener, C!Interrupted
  <2>5. CASE C!Stop(p)
    BY <2>5, Zenon DEF C!Stop
  <2> QED  BY <1>1, <2>1, <2>2, <2>3, <2>4, <2>5, Zenon DEF C!Command
<1>2. ASSUME NEW p \in CliProc,
             C!Kill(p) \/ \E op \in C!Ops : \/ C!KillBegun(p, op)
                                           \/ \E arg \in C!Arguments(op) : C!Begin(p, op, arg)
      PROVE  cli_scope' = cli_scope /\ (cli_disturbed => cli_disturbed')
  <2>1. CASE C!Kill(p)
    BY <2>1 DEF C!Kill
  <2>2. ASSUME NEW op, NEW arg, C!Begin(p, op, arg)
        PROVE  cli_scope' = cli_scope /\ (cli_disturbed => cli_disturbed')
    BY <2>2 DEF C!Begin
  <2>3. ASSUME NEW op, C!KillBegun(p, op)
        PROVE  cli_scope' = cli_scope /\ (cli_disturbed => cli_disturbed')
    BY <2>3 DEF C!KillBegun
  <2> QED  BY <1>2, <2>1, <2>2, <2>3
<1>3. CASE \/ \E d \in CliDevice : \E k \in {cli_listener.cfg.key, cli_fresh + 1} :
                C!Approve(d, k) \/ C!AutoLink(d, k)
           \/ C!Expire \/ C!Serve \/ C!WatchSave \/ C!Exit
  <2>1. ASSUME NEW d, NEW k, C!Approve(d, k) \/ C!AutoLink(d, k)
        PROVE  cli_scope' = cli_scope /\ (cli_disturbed => cli_disturbed')
    BY <2>1 DEF C!Approve, C!AutoLink
  <2>2. CASE C!Expire \/ C!Serve \/ C!WatchSave \/ C!Exit
    BY <2>2 DEF C!Expire, C!Serve, C!WatchSave, C!Exit, C!files
  <2> QED  BY <1>3, <2>1, <2>2
<1>4. CASE UNCHANGED C!vars
  BY <1>4 DEF C!vars
<1> QED  BY <1>1, <1>2, <1>3, <1>4 DEF C!Next

LEMMA CliStep ==
  ASSUME C!CliAssumption, CliInv, [C!Next]_(C!vars)
  PROVE  CliInv'
<1> SUFFICES ASSUME cli_scope.alone, ~cli_disturbed, ~cli_disturbed', CliFits
             PROVE  CliFits'
  BY ScopeKept DEF CliInv
<1>1. ASSUME NEW p \in CliProc, C!Command(p)
      PROVE  CliFits'
  <2>1. C!Configure(p) \/ C!Link(p) \/ C!Unlink(p) => CliFits'
    BY ConfigureStep, LinkCommandStep
  <2>2. C!OpenState(p) \/ C!Sync(p) \/ C!SyncFails(p) \/ C!SaveState(p) \/ C!SaveConfig(p)
        => CliFits'
    BY RefreshStep
  <2>3. C!Refused(p) \/ C!Prune(p) \/ C!Interrupted(p) => CliFits'
    BY CommandEndStep
  <2>4. C!Snapshot(p) \/ C!Restore(p) => CliFits'
    BY SnapshotStep, RestoreStep
  <2>5. C!RotateState(p) \/ C!Reseal(p) \/ C!RotateConfig(p) => CliFits'
    BY RotateStateStep, ResealStep, RotateConfigStep
  <2>6. ~(C!InitConfig(p) \/ C!InitState(p))
    BY InitStep
  <2>7. C!Listen(p) \/ C!Stop(p) \/ C!EnsureListener(p) => CliFits'
    BY ListenStep, EnsureListenerStep
  <2> QED  BY <1>1, <2>1, <2>2, <2>3, <2>4, <2>5, <2>6, <2>7 DEF C!Command
<1>2. ASSUME NEW p \in CliProc, C!Kill(p)
      PROVE  CliFits'
  BY <1>2, KillStep
<1>3. ASSUME NEW p \in CliProc, NEW op \in C!Ops, NEW arg \in C!Arguments(op),
             C!Begin(p, op, arg)
      PROVE  CliFits'
  BY <1>3, BeginStep
<1>6. ASSUME NEW p, NEW op, C!KillBegun(p, op)
      PROVE  CliFits'
  BY <1>6 DEF C!KillBegun
<1>4. CASE \/ \E d \in CliDevice : \E k \in {cli_listener.cfg.key, cli_fresh + 1} :
                C!Approve(d, k) \/ C!AutoLink(d, k)
           \/ C!Expire \/ C!Serve \/ C!WatchSave \/ C!Exit
  BY <1>4, ListenerStep
<1>5. CASE UNCHANGED C!vars
  <2>1. /\ cli_config' = cli_config /\ cli_proc' = cli_proc /\ cli_state' = cli_state
        /\ cli_snaps' = cli_snaps /\ cli_listener' = cli_listener
    BY <1>5 DEF C!vars, C!files
  <2> QED
    BY <2>1 DEF CliFits, Configured, CommandShape, CommandFits, Copied, Resealed, Opens,
                ListenerFits, SnapsFit
<1> QED  BY <1>1, <1>2, <1>3, <1>4, <1>5, <1>6 DEF C!Next

\* With nobody at work the configured key opens what there is.
LEMMA CliOpens ==
  ASSUME CliInv
  PROVE  C!KeyOpens
BY DEF CliInv, CliFits, Opens, OneDirectory, C!KeyOpens, C!Running, C!None

-----------------------------------------------------------------------------
(* The command line without watch: what is stored stays *)

\* A command that will save the state has all of it.
Carries(x) ==
  /\ x.op # "watch"
  /\ x.op \in {"refresh", "snapshot", "restore"} /\ x.pc \in {"opened", "applied"} =>
       cli_state.marks \subseteq x.marks

CarryInv ==
  /\ CliInv
  /\ cli_scope.alone /\ ~cli_disturbed => \A p \in CliProc : Carries(cli_proc[p])

\* Watch starts a listener and goes on beside it, each with a state of its own.
NoWatch == \A c \in CliBounds : c.alone => "watch" \notin c.ops

MarksKept ==
  cli_listener.pid = 0 /\ cli_state.key # C!Cut /\ cli_state'.key # C!Cut =>
    cli_state.marks \subseteq cli_state'.marks

LEMMA CarryMoves ==
  ASSUME CliFits, NEW p \in CliProc, cli_proc[p].op # "none",
         NEW x, cli_proc' = [cli_proc EXCEPT ![p] = x], Carries(x)'
  PROVE  \A q \in CliProc : Carries(cli_proc[q])'
<1>1. cli_proc'[p] = x /\ \A q \in CliProc : q # p => cli_proc'[q].op = "none"
  BY OneRuns DEF CliFits
<1> QED  BY <1>1 DEF Carries

LEMMA CarryEnds ==
  ASSUME CliFits, NEW p \in CliProc, cli_proc[p].op # "none",
         cli_proc' = [cli_proc EXCEPT ![p] = C!Resting]
  PROVE  \A q \in CliProc : Carries(cli_proc[q])'
<1>1. Carries(C!Resting)'
  BY DEF Carries, C!Resting, C!None
<1> QED  BY <1>1, CarryMoves

\* Commands that end and leave the state alone.
LEMMA EndCarries ==
  ASSUME CliFits, NEW p \in CliProc, Carries(cli_proc[p]),
         \/ C!Configure(p) \/ C!Link(p) \/ C!Unlink(p) \/ C!SyncFails(p) \/ C!SaveConfig(p)
         \/ C!Refused(p) \/ C!Prune(p) \/ C!RotateConfig(p) \/ C!Listen(p)
         \/ C!Interrupted(p)
  PROVE  (\A q \in CliProc : Carries(cli_proc[q])') /\ cli_state' = cli_state
<1>1. CASE C!Configure(p) \/ C!Link(p) \/ C!Unlink(p) \/ C!Prune(p)
  <2>1. cli_proc[p].op # "none" /\ cli_state' = cli_state
        /\ cli_proc' = [cli_proc EXCEPT ![p] = C!Resting]
    BY <1>1 DEF C!Configure, C!Link, C!Unlink, C!Prune, C!At, C!Ends
  <2> QED  BY <2>1, CarryEnds
<1>2. CASE C!SyncFails(p) \/ C!SaveConfig(p)
  <2>1. cli_proc[p].op # "none" /\ cli_state' = cli_state /\ C!Fails(p)
    BY <1>2 DEF C!SyncFails, C!SaveConfig, C!At, C!Refreshing, C!files
  <2>2. cli_proc' = [cli_proc EXCEPT ![p] = C!Resting]
    BY <2>1 DEF C!Fails, Carries
  <2> QED  BY <2>1, <2>2, CarryEnds
<1>3. CASE C!Refused(p) \/ C!Interrupted(p)
  <2>1. cli_proc[p].op # "none" /\ cli_state' = cli_state
        /\ cli_proc' = [cli_proc EXCEPT ![p] = C!Resting]
    BY <1>3 DEF C!Refused, C!Interrupted, C!At, C!Ends, C!files, C!Backups
  <2> QED  BY <2>1, CarryEnds
<1>4. CASE C!RotateConfig(p) \/ C!Listen(p)
  <2>1. cli_proc[p].op # "none" /\ cli_state' = cli_state
        /\ cli_proc' = [cli_proc EXCEPT ![p] = C!Resting]
    BY <1>4 DEF C!RotateConfig, C!Listen, C!At, C!Ends
  <2> QED  BY <2>1, CarryEnds
<1> QED  BY <1>1, <1>2, <1>3, <1>4

\* A kill leaves the state as it was, or cut short.
LEMMA KillCarries ==
  ASSUME CliFits, NEW p \in CliProc, C!Stop(p) \/ C!Kill(p)
  PROVE  /\ \A q \in CliProc : Carries(cli_proc[q])'
         /\ cli_state' = cli_state \/ cli_state'.key = C!Cut
<1>1. cli_proc[p].op # "none" /\ cli_proc' = [cli_proc EXCEPT ![p] = C!Resting]
  BY DEF C!Stop, C!Kill, C!Running, C!None, C!At, C!Ends
<1>2. cli_state' = cli_state \/ cli_state' = C!NoState
  BY DEF C!Stop, C!Kill, C!files
<1> QED  BY <1>1, <1>2, CarryEnds, CutIsDisturbed

\* A command opens the state: it takes all of it.
LEMMA OpenCarries ==
  ASSUME CliFits, NEW p \in CliProc, Carries(cli_proc[p]), C!OpenState(p)
  PROVE  (\A q \in CliProc : Carries(cli_proc[q])') /\ cli_state' = cli_state
<1>1. cli_proc[p].op # "none" /\ CommandShape(cli_proc[p])
  BY OneRuns DEF C!OpenState, C!MayOpen, C!At, C!Refreshing
<1>2. CASE C!Fails(p) /\ cli_state' = cli_state
  <2>1. cli_proc' = [cli_proc EXCEPT ![p] = C!Resting]
    BY <1>2 DEF C!Fails, Carries
  <2> QED  BY <1>1, <1>2, <2>1, CarryEnds
<1>3. CASE ~(C!Fails(p) /\ cli_state' = cli_state)
  <2>1. PICK s : /\ cli_state' = cli_state
                 /\ cli_proc' = [cli_proc EXCEPT ![p].pc = "opened",
                                   ![p].marks = cli_state.marks, ![p].todo = s]
    BY <1>3 DEF C!OpenState, C!Opened
  <2>2. PICK y : y = cli_proc[p]
    OBVIOUS
  <2>3. PICK z : z = [y EXCEPT !.pc = "opened", !.marks = cli_state.marks, !.todo = s]
    OBVIOUS
  <2>4. cli_proc' = [cli_proc EXCEPT ![p] = z]
    BY <2>1, <2>2, <2>3 DEF CliFits
  <2>5. z.op = y.op /\ z.marks = cli_state.marks
    BY <1>1, <2>2, <2>3 DEF CommandShape
  <2>6. Carries(z)'
    BY <2>1, <2>2, <2>5 DEF Carries
  <2> QED  BY <1>1, <2>1, <2>4, <2>6, CarryMoves
<1> QED  BY <1>2, <1>3

\* It goes on, with more of it.
LEMMA OnCarries ==
  ASSUME CliFits, NEW p \in CliProc, Carries(cli_proc[p]),
         C!Sync(p) \/ C!Snapshot(p) \/ C!Restore(p)
  PROVE  (\A q \in CliProc : Carries(cli_proc[q])') /\ cli_state' = cli_state
<1>1. PICK y : y = cli_proc[p]
  OBVIOUS
<1>2. /\ y.op \in {"refresh", "watch", "snapshot", "restore"} /\ y.pc = "opened"
      /\ cli_state' = cli_state
  BY <1>1 DEF C!Sync, C!Snapshot, C!Restore, C!At, C!Refreshing, C!files
<1>3. CommandShape(y) /\ cli_proc[p].op # "none"
  BY <1>1, <1>2, OneRuns
<1>4. cli_state.marks \subseteq y.marks /\ y.op # "watch"
  BY <1>1, <1>2 DEF Carries
<1>5. PICK z : cli_proc' = [cli_proc EXCEPT ![p] = z]
                /\ z.op = y.op /\ y.marks \subseteq z.marks
  <2>1. CASE C!Sync(p)
    <3>1. PICK a \in y.todo : cli_proc' =
            [cli_proc EXCEPT ![p].todo = @ \ {a}, ![p].marks = @ \cup {cli_fresh + 1}]
      BY <1>1, <2>1 DEF C!Sync
    <3>2. PICK z : z = [y EXCEPT !.todo = @ \ {a}, !.marks = @ \cup {cli_fresh + 1}]
      OBVIOUS
    <3>3. cli_proc' = [cli_proc EXCEPT ![p] = z]
      BY <1>1, <3>1, <3>2 DEF CliFits
    <3>4. z.op = y.op /\ z.marks = y.marks \cup {cli_fresh + 1}
      BY <1>3, <3>2 DEF CommandShape
    <3> QED  BY <3>3, <3>4
  <2>2. CASE C!Snapshot(p)
    <3>1. PICK z : z = [y EXCEPT !.pc = "applied"]
      OBVIOUS
    <3>2. cli_proc' = [cli_proc EXCEPT ![p] = z]
      BY <1>1, <2>2, <3>1 DEF CliFits, C!Snapshot
    <3>3. z.op = y.op /\ z.marks = y.marks
      BY <1>3, <3>1 DEF CommandShape
    <3> QED  BY <3>2, <3>3
  <2>3. CASE C!Restore(p)
    <3>1. PICK z : z = [y EXCEPT !.pc = "applied", !.marks = @ \cup {cli_fresh + 1}]
      OBVIOUS
    <3>2. cli_proc' = [cli_proc EXCEPT ![p] = z]
      BY <1>1, <2>3, <3>1 DEF CliFits, C!Restore
    <3>3. z.op = y.op /\ z.marks = y.marks \cup {cli_fresh + 1}
      BY <1>3, <3>1 DEF CommandShape
    <3> QED  BY <3>2, <3>3
  <2> QED  BY <2>1, <2>2, <2>3
<1>6. Carries(z)'
  BY <1>2, <1>4, <1>5 DEF Carries
<1> QED  BY <1>2, <1>3, <1>5, <1>6, CarryMoves

\* It saves what it has.
LEMMA SaveCarries ==
  ASSUME CliFits, NEW p \in CliProc, Carries(cli_proc[p]), C!SaveState(p)
  PROVE  /\ \A q \in CliProc : Carries(cli_proc[q])'
         /\ cli_state.marks \subseteq cli_state'.marks
<1>1. PICK y : y = cli_proc[p]
  OBVIOUS
<1>2. /\ y.op \in {"refresh", "watch", "snapshot", "restore"} /\ y.pc \in {"opened", "applied"}
      /\ cli_state'.marks = y.marks
  BY <1>1 DEF C!SaveState, C!MaySave, C!At, C!Refreshing
<1>3. CommandShape(y) /\ cli_proc[p].op # "none"
  BY <1>1, <1>2, OneRuns
<1>4. cli_state.marks \subseteq y.marks /\ y.op # "watch"
  BY <1>1, <1>2 DEF Carries
<1>5. CASE C!Ends(p)
  BY <1>2, <1>3, <1>4, <1>5, CarryEnds DEF C!Ends
<1>6. CASE ~C!Ends(p)
  <2>1. PICK z : z = [y EXCEPT !.pc = "stored"]
    OBVIOUS
  <2>2. cli_proc' = [cli_proc EXCEPT ![p] = z]
    BY <1>1, <1>6, <2>1 DEF CliFits, C!SaveState
  <2>3. z.op = y.op /\ z.pc = "stored"
    BY <1>3, <2>1 DEF CommandShape
  <2>4. Carries(z)'
    BY <1>4, <2>3 DEF Carries
  <2> QED  BY <1>2, <1>3, <1>4, <2>2, <2>4, CarryMoves
<1> QED  BY <1>5, <1>6

\* A rotation opens the state with the old key, and seals all of it.
LEMMA RotateCarries ==
  ASSUME CliFits, NEW p \in CliProc, ~cli_disturbed', C!RotateState(p) \/ C!Reseal(p)
  PROVE  /\ \A q \in CliProc : Carries(cli_proc[q])'
         /\ cli_state.key # C!Cut => cli_state'.marks = cli_state.marks
<1>1. PICK y : y = cli_proc[p]
  OBVIOUS
<1>2. y.op = "rotate" /\ (C!RotateState(p) => y.pc = "loaded")
  BY <1>1 DEF C!RotateState, C!Reseal, C!At
<1>3. CommandShape(y) /\ cli_proc[p].op # "none" /\ CommandFits(y)
  BY <1>1, <1>2, OneRuns
<1>4. CASE C!RotateState(p)
  <2>1. Copied(y.cfg) /\ Opens
    BY <1>2, <1>3, <1>4 DEF CommandFits
  <2>2. cli_state.key # C!Cut => C!Opened(y.cfg.key) = cli_state
    BY <2>1 DEF C!Opened, Copied, Opens
  <2>3. cli_state.key # C!Cut => cli_state'.marks = cli_state.marks
    <3>1. cli_state' = [key |-> cli_fresh + 1, marks |-> C!Opened(C!Cfg(p).key).marks]
      BY <1>4, Zenon DEF C!RotateState
    <3>2. C!Cfg(p).key = y.cfg.key
      BY <1>1 DEF C!Cfg
    <3> QED  BY <2>2, <3>1, <3>2
  <2>4. PICK k, s : cli_proc' =
          [cli_proc EXCEPT ![p].pc = "sealing", ![p].key = k, ![p].todo = s]
    BY <1>4, Zenon DEF C!RotateState
  <2>5. PICK z : z = [y EXCEPT !.pc = "sealing", !.key = k, !.todo = s]
    OBVIOUS
  <2>6. cli_proc' = [cli_proc EXCEPT ![p] = z]
    BY <1>1, <2>4, <2>5 DEF CliFits
  <2>7. z.op = y.op
    BY <1>3, <2>5 DEF CommandShape
  <2>8. Carries(z)'
    BY <1>2, <2>7 DEF Carries
  <2> QED  BY <1>3, <2>3, <2>6, <2>8, CarryMoves
<1>5. CASE C!Reseal(p)
  <2>1. cli_state' = cli_state
    BY <1>5 DEF C!Reseal
  <2>2. PICK i : cli_proc' = [cli_proc EXCEPT ![p].todo = @ \ {i}]
    BY <1>5 DEF C!Reseal
  <2>3. PICK z : z = [y EXCEPT !.todo = @ \ {i}]
    OBVIOUS
  <2>4. cli_proc' = [cli_proc EXCEPT ![p] = z]
    BY <1>1, <2>2, <2>3 DEF CliFits
  <2>5. z.op = y.op
    BY <1>3, <2>3 DEF CommandShape
  <2>6. Carries(z)'
    BY <1>2, <2>5 DEF Carries
  <2> QED  BY <1>3, <2>1, <2>4, <2>6, CarryMoves
<1> QED  BY <1>4, <1>5

LEMMA BeginCarries ==
  ASSUME CliFits, cli_scope.alone, "watch" \notin cli_scope.ops,
         NEW p \in CliProc, NEW op, NEW arg, C!Begin(p, op, arg)
  PROVE  (\A q \in CliProc : Carries(cli_proc[q])') /\ cli_state' = cli_state
<1>1. /\ \A q \in CliProc : cli_proc[q].op = "none"
      /\ op # "watch" /\ cli_state' = cli_state
  BY DEF C!Begin, C!MayBegin, C!Running, C!None
<1>2. PICK d, x :
        /\ x = [C!Resting EXCEPT !.op = op, !.arg = arg, !.cfg = d,
                               !.pc = IF op = "watch" THEN "begun" ELSE "loaded"]
        /\ cli_proc' = [cli_proc EXCEPT ![p] = x]
  BY Zenon DEF C!Begin
<1>3. x.op = op /\ x.pc = "loaded"
  BY <1>1, <1>2 DEF C!Resting
<1>4. cli_proc'[p] = x /\ \A q \in CliProc : q # p => cli_proc'[q].op = "none"
  BY <1>1, <1>2 DEF CliFits
<1> QED  BY <1>1, <1>3, <1>4 DEF Carries

\* A listener saves beside commands that save nothing.
LEMMA ListenerCarries ==
  ASSUME CliFits, \A q \in CliProc : Carries(cli_proc[q]), cli_proc' = cli_proc,
         cli_listener.pid # 0
  PROVE  \A q \in CliProc : Carries(cli_proc[q])'
<1>1. \A q \in CliProc : cli_proc[q].op \in Beside
  BY DEF CliFits
<1> QED  BY <1>1 DEF Carries, Beside

LEMMA CarryNext ==
  ASSUME CliFits, cli_scope.alone, ~cli_disturbed', "watch" \notin cli_scope.ops,
         \A q \in CliProc : Carries(cli_proc[q]), [C!Next]_(C!vars)
  PROVE  (\A q \in CliProc : Carries(cli_proc[q])') /\ MarksKept
<1> DEFINE Done == (\A q \in CliProc : Carries(cli_proc[q])') /\ MarksKept
<1>1. ASSUME NEW p \in CliProc, C!Command(p) \/ C!Kill(p)
      PROVE  Done
  <2>1. ~(C!InitConfig(p) \/ C!InitState(p))
    BY InitStep
  <2>2. ~C!EnsureListener(p)
    BY DEF C!EnsureListener, C!At, Carries
  <2>3. CASE C!Stop(p) \/ C!Kill(p)
    BY <2>3, KillCarries DEF MarksKept
  <2> QED  BY <1>1, <2>1, <2>2, <2>3, EndCarries, OpenCarries, OnCarries, SaveCarries,
              RotateCarries DEF C!Command, MarksKept
<1>2. ASSUME NEW p \in CliProc, NEW op, NEW arg, C!Begin(p, op, arg)
      PROVE  Done
  BY <1>2, BeginCarries DEF MarksKept
<1>5. ASSUME NEW p, NEW op, C!KillBegun(p, op)
      PROVE  Done
  BY <1>5 DEF C!KillBegun
<1>3. CASE \/ \E d \in CliDevice : \E k \in {cli_listener.cfg.key, cli_fresh + 1} :
                C!Approve(d, k) \/ C!AutoLink(d, k)
           \/ C!Expire \/ C!Serve \/ C!WatchSave \/ C!Exit
  <2>1. cli_listener.pid # 0 /\ cli_proc' = cli_proc
    BY <1>3 DEF C!Approve, C!AutoLink, C!Expire, C!Serve, C!WatchSave, C!Exit, C!Up
  <2> QED  BY <2>1, ListenerCarries DEF MarksKept
<1>4. CASE UNCHANGED C!vars
  BY <1>4 DEF C!vars, C!files, Carries, MarksKept
<1> QED  BY <1>1, <1>2, <1>3, <1>4, <1>5 DEF C!Next

LEMMA CarryInit ==
  ASSUME C!Init
  PROVE  CarryInv
<1>1. \A p \in CliProc : cli_proc[p].op = "none"
  BY DEF C!Init, C!Resting, C!None
<1> QED  BY <1>1, CliInit DEF CarryInv, Carries

LEMMA CarryStep ==
  ASSUME C!CliAssumption, NoWatch, cli_scope \in CliBounds, CarryInv,
         [C!Next]_(C!vars)
  PROVE  /\ CarryInv' /\ cli_scope' \in CliBounds
         /\ cli_scope.alone /\ ~cli_disturbed' => MarksKept
<1>1. CliInv' /\ cli_scope' = cli_scope /\ (cli_disturbed => cli_disturbed')
  BY CliStep, ScopeKept DEF CarryInv
<1>2. ASSUME cli_scope.alone, ~cli_disturbed'
      PROVE  (\A q \in CliProc : Carries(cli_proc[q])') /\ MarksKept
  <2>1. CliFits /\ \A q \in CliProc : Carries(cli_proc[q])
    BY <1>1, <1>2 DEF CarryInv, CliInv
  <2>2. "watch" \notin cli_scope.ops
    BY <1>2 DEF NoWatch
  <2> QED  BY <1>2, <2>1, <2>2, CarryNext
<1> QED  BY <1>1, <1>2 DEF CarryInv

-----------------------------------------------------------------------------
(* Each part on its own *)

\* companion.rs 284-568: whatever the commands, device commands, failing steps,
\* kills and power failures, the manager is quiet when it is down, its registry
\* in memory is the file unless a commit is in doubt, what follows a commit
\* follows a durable one, and the backups of a space have one key.
THEOREM CompanionInductive == M!Spec => []CompanionInv
<1>1. M!Init => CompanionInv
  BY MCStorageConstants, CompanionInit
<1>2. CompanionInv /\ [M!Next]_(M!vars) => CompanionInv'
  BY MCStorageConstants, CompanionStep
<1> QED  BY <1>1, <1>2, PTL DEF M!Spec

\* companion.rs 510-523: no key replaces the one that the backups of a space
\* were sealed under, wherever a backup stops and whatever the key store shows.
THEOREM OneBackupKey == M!Spec => []M!OneKey
<1>1. CompanionInv => M!OneKey
  BY DEF CompanionInv, KeysFit, M!OneKey
<1> QED  BY <1>1, CompanionInductive, PTL

\* The strengthening that holds while device commands run apart.
LEMMA RunsInductive ==
  ASSUME Apart
  PROVE  M!Spec => [](CompanionInv /\ RunsFit)
<1>1. M!Init => RunsFit
  BY MCStorageConstants, RunsInit
<1>2. CompanionInv /\ RunsFit /\ [M!Next]_(M!vars) => RunsFit'
  BY MCStorageConstants, RunsStep
<1> QED  BY <1>1, <1>2, CompanionInductive, PTL DEF M!Spec

\* companion.rs 284-480: a space reported as paused does not run until it is
\* resumed, across failing commands, kills, power failures and restarts.
THEOREM PausesLast ==
  ASSUME Apart
  PROVE  M!Spec => []M!PauseSustained
<1>1. CompanionInv /\ RunsFit => M!PauseSustained
  BY MCStorageConstants, RunsPaused
<1> QED  BY <1>1, RunsInductive, PTL

\* As long as links follow each other, what a link has read, confirmed and
\* stored stays current until it ends (sync.rs, handle_connection).
THEOREM LinkingInductive ==
  ASSUME ~LinksOverlap
  PROVE  L!Spec => []LinkingInv
<1>1. L!Init => LinkingInv
  BY MCStorageConstants, LinkingInit
<1>2. LinkingInv /\ [L!Next]_(L!vars) => LinkingInv'
  BY MCStorageConstants, LinkingStep
<1> QED  BY <1>1, <1>2, PTL DEF L!Spec

\* SECURITY.md, "the newest linking wins", holds of links that follow each other.
THEOREM NewestLinkWins ==
  ASSUME ~LinksOverlap
  PROVE  L!Spec => []L!NewestWins
<1>1. LinkingInv => L!NewestWins
  BY DEF LinkingInv, Joined, L!NewestWins
<1> QED  BY <1>1, LinkingInductive, PTL

\* keystore.rs, load_or_create_app_key and load_or_create_device_keys: with one
\* process at a time, what a process has read stays so until it makes what was
\* not there, and what was handed out is what the files hold.
THEOREM KeysInductive == K!Spec => []KeysInv
<1>1. K!Init => KeysInv
  BY KeysInit
<1>2. KeysInv /\ [K!Next]_(K!vars) => KeysInv'
  BY KeysStep
<1> QED  BY <1>1, <1>2, PTL DEF K!Spec

\* main.rs: with one process at a time, whoever is at work has the key that opens
\* the state and the snapshots; a rotation has both keys between it and its end.
THEOREM CliInductive == C!Spec => []CliInv
<1>1. C!Init => CliInv
  BY CliInit
<1>2. CliInv /\ [C!Next]_(C!vars) => CliInv'
  BY MCStorageConstants, CliStep
<1> QED  BY <1>1, <1>2, PTL DEF C!Spec

-----------------------------------------------------------------------------
(* The parts side by side: each one moves as it does alone *)

LEMMA CompanionRuns == StorageSpec => M!Spec
<1>1. StorageInit => M!Init
  BY DEF StorageInit
<1>2. [StorageNext]_all => [M!Next]_(M!vars)
  BY DEF StorageNext, all, companion_vars, M!vars, M!registers, M!sessions, M!backups
<1> QED  BY <1>1, <1>2, PTL DEF StorageSpec, M!Spec

LEMMA LinkingRuns == StorageSpec => L!Spec
<1>1. StorageInit => L!Init
  BY DEF StorageInit
<1>2. [StorageNext]_all => [L!Next]_(L!vars)
  BY DEF StorageNext, all, linking_vars, L!vars
<1> QED  BY <1>1, <1>2, PTL DEF StorageSpec, L!Spec

LEMMA KeysRun == StorageSpec => K!Spec
<1>1. StorageInit => K!Init
  BY DEF StorageInit
<1>2. [StorageNext]_all => [K!Next]_(K!vars)
  BY DEF StorageNext, all, keys_vars, K!vars
<1> QED  BY <1>1, <1>2, PTL DEF StorageSpec, K!Spec

LEMMA CliRuns == StorageSpec => C!Spec
<1>1. StorageInit => C!Init
  BY DEF StorageInit
<1>2. [StorageNext]_all => [C!Next]_(C!vars)
  BY DEF StorageNext, all, cli_vars, C!vars, C!files
<1> QED  BY <1>1, <1>2, PTL DEF StorageSpec, C!Spec

\* companion.rs 481-496: a space reported as removed is in no copy of the registry
\* that a power failure can bring back, and only device commands that took its
\* session before still hold it.
THEOREM RemovalStays == StorageSpec => []RemovedStays
<1>1. CompanionInv => RemovedStays
  BY DEF CompanionInv, RemovedFits, RemovedStays, M!RemovedStays
<1> QED  BY <1>1, CompanionRuns, CompanionInductive, PTL

\* companion.rs 284-496: between commands no session runs that a restart would
\* not run, and none once a commit is in doubt.
THEOREM RunsAsRegistered ==
  ASSUME Apart
  PROVE  StorageSpec => []AsRegistered
<1>1. RunsFit => AsRegistered
  BY MCStorageConstants, RunsRegistered DEF AsRegistered
<1> QED  BY <1>1, CompanionRuns, RunsInductive, PTL

\* companion.rs 530-546: retention never takes the backup that was last reported as
\* taken before as many backups as are kept, each under a later name, have followed
\* it, wherever a retention that failed left the directory and wherever the clock was
\* set back to.
THEOREM LastBackupKept == StorageSpec => []BackupKept
<1>1. M!Init => BackupsFit
  BY MCStorageConstants, BackupsInit
<1>2. CompanionInv /\ BackupsFit /\ [M!Next]_(M!vars) => BackupsFit'
  BY MCStorageConstants, BackupsStep
<1>3. BackupsFit => BackupKept
  BY DEF BackupsFit, BackupKept
<1> QED  BY <1>1, <1>2, <1>3, CompanionRuns, CompanionInductive, PTL DEF M!Spec

\* Two devices whose latest completed link was with each other share one app
\* key and accept each other's certificate in both directions, whatever was
\* lost, declined, unlinked or replaced before (link_with_device_using,
\* handle_connection, PinnedServerVerifier).
THEOREM LinkedDevicesSync ==
  ASSUME ~LinksOverlap
  PROVE  StorageSpec => []LinkedCanSync
<1>1. LinkingInv => LinkedCanSync
  <2> SUFFICES ASSUME LinkingInv, NEW a \in LinkDevice, NEW b \in LinkDevice, a # b,
                      linking_last[a] = b, linking_last[b] = a,
                      linking_served[a] = linking_cert[a],
                      linking_served[b] = linking_cert[b]
               PROVE  L!CanSync(a, b)
    BY DEF LinkedCanSync, L!LinkedCanSync
  <2> QED  BY DEF LinkingInv, Joined, L!CanSync, L!ClientAccepts, L!ListenerAccepts
<1> QED  BY <1>1, LinkingRuns, LinkingInductive, PTL

\* keystore.rs: one process at a time is handed one application key and one pair
\* of device keys for good, and a certificate with the private key it was made
\* with, killed or refused at any step.
THEOREM KeysKeptAlone == StorageSpec => []KeptAlone
<1>1. KeysInv => KeptAlone
  BY KeysHanded DEF KeptAlone
<1> QED  BY <1>1, KeysRun, KeysInductive, PTL

\* main.rs, rotate_app_key: the configured key opens the state and the snapshots of
\* the default adapter whenever no command runs, but for those whose own write was
\* killed (state.rs 278, backup.rs 69), whatever commands failed or were killed
\* before, unless a key change or the configuration was cut short, or a peer brought
\* a key.
THEOREM TheKeyOpens == StorageSpec => []KeyOpens
<1>1. CliInv => KeyOpens
  BY CliOpens DEF KeyOpens
<1> QED  BY <1>1, CliRuns, CliInductive, PTL

\* main.rs: what one command has stored in the state file is in what every later
\* one stores, if it is not killed in its own write, nor is watch, which saves beside
\* its own listener.
LEMMA CliKeeps ==
  ASSUME NoWatch
  PROVE  C!Spec => C!StoredIsKept
<1> DEFINE Kept == cli_scope.alone /\ ~cli_disturbed' /\ ~C!Up /\ cli_state.key # C!Cut
                     /\ cli_state'.key # C!Cut =>
                       cli_state.marks \subseteq cli_state'.marks
           Carrying == CarryInv /\ cli_scope \in CliBounds
<1>1. C!Init => Carrying
  BY CarryInit DEF C!Init
<1>2. Carrying /\ [C!Next]_(C!vars) => Carrying' /\ [Kept]_(C!vars)
  BY MCStorageConstants, CarryStep DEF MarksKept, C!Up
<1>3. C!StoredIsKept <=> [][Kept]_(C!vars)
  BY DEF C!StoredIsKept
<1> HIDE DEF Carrying, Kept
<1> QED  BY <1>1, <1>2, <1>3, PTL DEF C!Spec

\* main.rs: what one command has stored in the state file is in what every later one
\* stores, unless a write of the state, of the configuration or of a key change was
\* cut short, or a listener runs beside it; and a row
\* of a mapped table is not written over with what it was made on
\* (sqlite_logical.rs), unless the application edits rows the adapter knows.
THEOREM WhatIsStoredStays ==
  ASSUME NoWatch
  PROVE  StorageSpec => StoredIsKept
<1>1. C!StoredIsKept /\ T!RowsForward => StoredIsKept
  BY DEF StoredIsKept
<1> QED  BY <1>1, CliRuns, CliKeeps, TableRuns, RowsGoForward, PTL
=============================================================================
