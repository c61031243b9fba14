----------------------------- MODULE MCProgress -----------------------------
(***************************************************************************)
(* What has to happen eventually, checked together: delta synchronization  *)
(* converges, an enrollment is completed from its preparation, and the     *)
(* files of the engine agree.                                              *)
(***************************************************************************)
EXTENDS Bounds

CONSTANTS one, other, invite, again

\* One enrollment with two faults, or two of them, crossed or one after the
\* other, with one fault.
ReconcilingScopes ==
  {[devices |-> 2, inviters |-> 2, invitations |-> n, attempts |-> 1, faults |-> 3 - n,
    calls |-> 0, repairs |-> FALSE] : n \in {1, 2}}

VARIABLES
  part,  \* the part whose behaviour this is; the others do nothing
  delta_counter, delta_held, delta_seq, delta_seqOf, delta_origin, delta_cursor,
  delta_epoch, delta_conn,
  pairing_scope, pairing_life, pairing_key, pairing_peers, pairing_journal,
  pairing_prepared, pairing_inv, pairing_host, pairing_join, pairing_rec,
  pairing_wants, pairing_faults, pairing_calls, pairing_approved, pairing_consent,
  engine_scope, engine_faults, engine_file, engine_cache, engine_ver,
  engine_counter, engine_disk, engine_client, engine_behind, engine_past

\* Two devices, one entry, one connection, one lost state each.
D == INSTANCE DeltaSync WITH
  Node <- {1, 2}, Key <- {1}, Field <- {1}, Slot <- {1}, Legacy <- {},
  Applier <- "lww", MaxCounter <- 2, MaxEpoch <- 2, counter <- delta_counter,
  held <- delta_held, seq <- delta_seq, seqOf <- delta_seqOf,
  origin <- delta_origin, cursor <- delta_cursor, epoch <- delta_epoch,
  conn <- delta_conn
delta_vars ==
  <<delta_counter, delta_held, delta_seq, delta_seqOf, delta_origin, delta_cursor,
  delta_epoch, delta_conn>>

\* Two devices that may invite each other.
P == INSTANCE SecurePairing WITH
  Device <- {one, other}, Invitation <- {invite, again}, Scopes <- ReconcilingScopes,
  scope <- pairing_scope, life <- pairing_life, key <- pairing_key,
  peers <- pairing_peers, journal <- pairing_journal, prepared <- pairing_prepared,
  inv <- pairing_inv, host <- pairing_host, join <- pairing_join,
  rec <- pairing_rec, wants <- pairing_wants, faults <- pairing_faults,
  calls <- pairing_calls, approved <- pairing_approved, consent <- pairing_consent
pairing_vars ==
  <<pairing_scope, pairing_life, pairing_key, pairing_peers, pairing_journal,
  pairing_prepared, pairing_inv, pairing_host, pairing_join, pairing_rec,
  pairing_wants, pairing_faults, pairing_calls, pairing_approved, pairing_consent>>

\* Two devices and the file of one adapter.
E == INSTANCE EngineSync WITH
  Devices <- {1, 2}, Scopes <- EngineScopes, MaxCounter <- 4,
  scope <- engine_scope, faults <- engine_faults, file <- engine_file,
  cache <- engine_cache, ver <- engine_ver, counter <- engine_counter,
  disk <- engine_disk, client <- engine_client, behind <- engine_behind,
  past <- engine_past
engine_vars ==
  <<engine_scope, engine_faults, engine_file, engine_cache, engine_ver,
  engine_counter, engine_disk, engine_client, engine_behind, engine_past>>

ASSUME MCProgressConstants ==
  /\ E!EngineAssumption

all == <<part, delta_vars, pairing_vars, engine_vars>>

\* A part that is not looked at stays in one of its initial states.
ProgressInit ==
  /\ part \in {"delta", "pairing", "engine"}
  /\ D!Init
  /\ P!Init /\ invite \in pairing_scope.invitations
            /\ (part = "pairing" \/ pairing_scope.invitations = {invite})
  /\ E!Init /\ (part = "engine" \/ engine_scope = CHOOSE s \in EngineScopes : TRUE)

\* Only that part moves.
ProgressNext ==
  \/ /\ part = "delta" /\ D!Next
     /\ UNCHANGED <<part, pairing_vars, engine_vars>>
  \/ /\ part = "pairing" /\ P!Next
     /\ UNCHANGED <<part, delta_vars, engine_vars>>
  \/ /\ part = "engine" /\ E!Next
     /\ UNCHANGED <<part, delta_vars, pairing_vars>>

ProgressSpec == ProgressInit /\ [][ProgressNext]_all

\* The fairness of each part, while it is the one that moves.
ProgressFairness ==
  \/ part = "delta" /\ D!Fairness
  \/ part = "pairing" /\ P!Fairness
  \/ part = "engine" /\ E!Fairness

ProgressLiveSpec == ProgressSpec /\ ProgressFairness

-----------------------------------------------------------------------------
(* Properties, each stated in the module of its part.                      *)

\* Once edits stop, devices that keep trying hold the same contents, or two
\* under one clock.
Convergence == part = "delta" => D!Convergence

\* The joiner completes its enrollment from its preparation, unless it has
\* joined another group.  Nothing tells the devices, or the invitations, apart,
\* so what holds of one of each holds of all.
Reconciles == part = "pairing" => P!ReconcilesAt(invite, other)

\* Logical records never give way to what they were made from.
LogicalNeverReverts == E!LogicalNeverReverts

\* Once users stop editing, every file shows the same content, unless a device
\* that died has drawn a clock once more.
FilesAgree == part = "engine" => E!FilesAgree
=============================================================================
