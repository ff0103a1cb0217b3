---------------------------- MODULE ReceiptChain ----------------------------
(* The files behind AttemptStore (_runstate.py). AttemptStore.tla takes a  *)
(* write of an attempt as one step, because the run lock is held; here the *)
(* files are replaced one at a time, a process may die between any two of  *)
(* them, and validate_durable_run reads them without the lock.             *)
(*                                                                         *)
(* A record of the state of an attempt carries the digest of its content,  *)
(* its place in the chain and the digest before it. The three are one      *)
(* fresh number here: two records are equal exactly when they come from    *)
(* the same write. Leases are AttemptStore's: here a target has an         *)
(* executor or none, and an executor that dies leaves none.                *)
EXTENDS Integers, Sequences, FiniteSets, SequencesExt

CONSTANTS Target,        \* node names
          Writer,        \* executor processes
          NoOne,         \* no process
          LastAttempt,   \* bound: highest attempt number
          MaxWrites      \* bound: digests ever made

ASSUME ReceiptChainAssumption ==
  /\ NoOne \notin Writer
  /\ LastAttempt \in Nat \ {0}
  /\ MaxWrites \in Nat

VARIABLES manifest,    \* _run.json: status, chain and ledger of every target
          folder,      \* targets whose directory exists
          state,       \* attempts/<target>/state.json
          receipt,     \* attempts/<target>/attempt-NNNN.json
          candidate,   \* attempts/<target>/candidate-NNNN.json, its digest
          recovery,    \* digests of the recovery-<time>.json files
          lock,        \* who holds the run lock
          job,         \* the files its holder has still to replace
          lease,       \* who executes each target
          writes,      \* digests made so far
          torn,        \* a holder died inside a write
          sent,        \* <<target, attempt>> pairs the provider has seen
          view         \* the reader without the lock

files == <<manifest, folder, state, receipt, candidate, recovery>>
vars  == <<files, lock, job, lease, writes, torn, sent, view>>

Attempt == 1 .. LastAttempt
Status  == {"running", "success_candidate", "retry_scheduled", "ambiguous",
            "failed", "completed"}

Absent == [status |-> "absent", attempt |-> 0, next |-> 0, effect |-> FALSE,
           candidate |-> 0, recovered |-> 0, resolved |-> FALSE, digest |-> 0]

State == [status: Status, attempt: Attempt, next: Nat, effect: BOOLEAN,
          candidate: Nat, recovered: Nat, resolved: BOOLEAN, digest: Nat]

-----------------------------------------------------------------------------
(* What a reader demands. Its arguments are what it has read so far.       *)

\* _validate_recovery_decision_ledger: every decision has its receipt
LedgerBound(m) ==
  \A t \in Target : \A i \in DOMAIN m.ledger[t] :
    m.ledger[t][i].receipt \in recovery

\* _validate_attempt_receipts: a receipt is the last entry of its attempt, and
\* only the receipt of the current attempt may be missing
Anchored(m, t) ==
  LET chain == m.chain[t]
      last(n) == CHOOSE i \in DOMAIN chain :
                   /\ chain[i].attempt = n
                   /\ \A j \in DOMAIN chain : chain[j].attempt = n => j <= i
      known == {chain[i].attempt : i \in DOMAIN chain}
  IN /\ \A n \in Attempt : receipt[t][n] # Absent =>
          n \in known /\ receipt[t][n].digest = chain[last(n)].digest
     /\ \A n \in known : receipt[t][n] # Absent \/ n = Last(chain).attempt

\* _validate_candidate_binding
CandidateBound(t, s) ==
  IF s.candidate = 0 THEN s.status # "success_candidate"
                     ELSE candidate[t][s.attempt] = s.candidate

\* _validate_recovery_receipt_binding
RecoveryBound(m, t, s) ==
  s.recovered # 0 =>
    /\ s.recovered \in recovery
    /\ \E i \in DOMAIN m.ledger[t] : m.ledger[t][i].receipt = s.recovered

\* _validate_recovery_decision_state
LedgerReflected(m, t, s) ==
  \A i \in DOMAIN m.ledger[t] : LET d == m.ledger[t][i] IN
    IF d.to = d.from THEN s.status = "failed" /\ s.attempt = d.from
                     ELSE s.attempt >= d.to

\* Mutant: takes the state file for granted.
BoundLoosely(m, t, s) ==
  /\ CandidateBound(t, s)
  /\ RecoveryBound(m, t, s)
  /\ LedgerReflected(m, t, s)

\* _validate_state_binding: the state is the head of the chain, and the
\* receipt of its attempt is the same record or was never written
Bound(m, t, s) ==
  /\ m.chain[t] # <<>>
  /\ Last(m.chain[t]) = [attempt |-> s.attempt, digest |-> s.digest]
  /\ CandidateBound(t, s)
  /\ RecoveryBound(m, t, s)
  /\ LedgerReflected(m, t, s)
  /\ \/ receipt[t][s.attempt] = s
     \/ receipt[t][s.attempt] = Absent /\ ~s.effect /\ s.status = "running"

\* _validate_manifest_state_consistency, on the statuses kept here
Agrees(m, states) ==
  /\ m.status = "completed" => \A s \in states : s.status = "completed"
  /\ m.status = "pending_retry" => \E s \in states : s.status = "retry_scheduled"
  /\ m.status = "ambiguous" =>
       \E s \in states : \/ s.status = "ambiguous"
                         \/ s.resolved /\ s.status \in {"retry_scheduled", "failed"}
  /\ m.status = "failed" /\ states # {} =>
       \E s \in states : s.status \in {"failed", "retry_scheduled",
                                       "success_candidate"}

\* _validate_all_attempt_receipts, by a holder of the lock: the records ...
Intact ==
  /\ LedgerBound(manifest)
  /\ \A t \in Target : manifest.chain[t] # <<>> => t \in folder
  /\ \A t \in folder : /\ state[t] # Absent
                       /\ Anchored(manifest, t)
                       /\ Bound(manifest, t, state[t])

Records == {state[t] : t \in folder}

\* ... and the status that was published
Accepted == Intact /\ Agrees(manifest, Records)

-----------------------------------------------------------------------------
(* Writes: the holder of the lock has validated everything, and knows the  *)
(* files it will replace. One step replaces one of them.                   *)

Put(file, t, value) == [file |-> file, target |-> t, value |-> value]

MakeFolder(t) == <<Put("folder", t, t)>>

\* the entry of a record in the chain
Chained(m, t, s) ==
  [m EXCEPT !.chain[t] = Append(@, [attempt |-> s.attempt, digest |-> s.digest])]

\* Mutant: the manifest is committed first and the state after it.
WriteStateManifestFirst(m, t, s) ==
  <<Put("manifest", t, Chained(m, t, s)), Put("receipt", t, s), Put("state", t, s)>>

\* _write_state_locked
WriteState(m, t, s) ==
  <<Put("state", t, s), Put("receipt", t, s), Put("manifest", t, Chained(m, t, s))>>

\* Mutant: replaces the files without taking the lock file.
LockedAtOnce(w) == job[w] = <<>>

\* _run_locked
Locked(w) == lock = NoOne /\ job[w] = <<>>

Begin(w, steps, made) ==
  /\ Locked(w)
  /\ Accepted
  /\ writes + made <= MaxWrites
  /\ lock' = w
  /\ job' = [job EXCEPT ![w] = steps]
  /\ writes' = writes + made
  /\ UNCHANGED <<files, torn, sent, view>>

Digest == writes + 1

\* _start_attempt: a fresh record; the directory is made first
StartAttempt(w, t, n) ==
  LET s == [Absent EXCEPT !.status = "running", !.attempt = n, !.digest = Digest]
  IN /\ n <= LastAttempt
     /\ Begin(w, MakeFolder(t) \o WriteState(manifest, t, s), 1)
     /\ lease' = [lease EXCEPT ![t] = w]

\* prepare: no record yet, an attempt that never crossed, or a retry
Prepare(w, t) ==
  /\ lease[t] = NoOne
  /\ LET s == state[t] IN
       \/ s = Absent /\ StartAttempt(w, t, 1)
       \/ s.status = "running" /\ ~s.effect /\ StartAttempt(w, t, s.attempt)
       \/ s.status = "retry_scheduled" /\ StartAttempt(w, t, s.next)

\* the files of an update of the present record
Update(w, t, s, before) ==
  Begin(w, before \o WriteState(manifest, t, [s EXCEPT !.digest = Digest]), 1)

\* prepare: an attempt that crossed and lost its executor
PrepareAmbiguous(w, t) ==
  /\ lease[t] = NoOne
  /\ state[t].status = "running" /\ state[t].effect
  /\ Update(w, t, [state[t] EXCEPT !.status = "ambiguous"], <<>>)
  /\ UNCHANGED lease

Executing(w, t) == lease[t] = w /\ state[t].status = "running"

\* mark_side_effect
MarkSideEffect(w, t) ==
  /\ Executing(w, t) /\ ~state[t].effect
  /\ Update(w, t, [state[t] EXCEPT !.effect = TRUE], <<>>)
  /\ UNCHANGED lease

\* Mutant: the provider is called before the boundary is on disk.
SendEarly(w, t) ==
  /\ Locked(w)
  /\ Executing(w, t)
  /\ sent' = sent \cup {<<t, state[t].attempt>>}
  /\ UNCHANGED <<files, lock, job, lease, writes, torn, view>>

\* the provider is called after mark_side_effect has returned
Send(w, t) ==
  /\ Locked(w)
  /\ Executing(w, t) /\ state[t].effect
  /\ sent' = sent \cup {<<t, state[t].attempt>>}
  /\ UNCHANGED <<files, lock, job, lease, writes, torn, view>>

\* save_candidate: the candidate file, then the record that names it
SaveCandidate(w, t) ==
  /\ Executing(w, t)
  /\ Update(w, t, [state[t] EXCEPT !.status = "success_candidate",
                                   !.candidate = Digest],
            <<Put("candidate", t, [attempt |-> state[t].attempt, digest |-> Digest])>>)
  /\ lease' = [lease EXCEPT ![t] = NoOne]

\* record_failure
RecordFailure(w, t) ==
  /\ Executing(w, t)
  /\ \/ Update(w, t, [state[t] EXCEPT !.status = "failed"], <<>>)
     \/ /\ state[t].attempt < LastAttempt
        /\ Update(w, t, [state[t] EXCEPT !.status = "retry_scheduled",
                                         !.next = state[t].attempt + 1], <<>>)
  /\ lease' = [lease EXCEPT ![t] = NoOne]

\* mark_completed
MarkCompleted(w, t) ==
  /\ state[t].status = "success_candidate"
  /\ lease[t] = NoOne
  /\ Update(w, t, [state[t] EXCEPT !.status = "completed"], <<>>)
  /\ UNCHANGED lease

\* resolve: claims the ambiguous record, then decides; the resolution file in
\* between is read by nobody
Resolve(w, t) ==
  LET claimed == [state[t] EXCEPT !.digest = Digest]
      decided(status, n) == [claimed EXCEPT !.status = status, !.next = n,
                                            !.resolved = TRUE,
                                            !.digest = Digest + 1]
      files2(s) == WriteState(manifest, t, claimed)
                     \o WriteState(Chained(manifest, t, claimed), t, s)
  IN /\ lease[t] = NoOne
     /\ claimed.status = "ambiguous"
     /\ \/ Begin(w, files2(decided("failed", 0)), 2)
        \/ /\ claimed.attempt < LastAttempt
           /\ Begin(w, files2(decided("retry_scheduled", claimed.attempt + 1)), 2)
     /\ UNCHANGED lease

\* _append_recovery_decision_locked
Decided(m, t, to, file) ==
  [m EXCEPT !.ledger[t] = Append(@, [from |-> state[t].attempt, to |-> to,
                                     receipt |-> file])]

Undecided(t) ==
  /\ manifest.status = "failed"
  /\ lease[t] = NoOne
  /\ state[t].status = "failed"
  /\ \A i \in DOMAIN manifest.ledger[t] :
       manifest.ledger[t][i].from # state[t].attempt

\* _write_recovery_receipt_locked: a new file, never one that is there
RecoveryReceipt(t) == <<Put("recovery", t, Digest)>>

\* record_recovery_decision and schedule_recovery: the recovery receipt, then
\* a record of the next attempt bound to it, and both in one manifest
RecoverRetry(w, t) ==
  LET to == state[t].attempt + 1
  IN /\ Undecided(t) /\ to <= LastAttempt
     /\ receipt[t][to] = Absent
     /\ Begin(w, RecoveryReceipt(t) \o WriteState(Decided(manifest, t, to, Digest), t,
                        [state[t] EXCEPT !.status = "retry_scheduled",
                            !.attempt = to, !.next = to, !.recovered = Digest,
                            !.digest = Digest]), 1)
     /\ UNCHANGED lease

\* record_recovery_decision, verdict fail: ledger only
RecoverFail(w, t) ==
  /\ Undecided(t)
  /\ LET m == Decided(manifest, t, state[t].attempt, Digest) IN
       Begin(w, RecoveryReceipt(t) \o <<Put("manifest", t, m)>>, 1)
  /\ UNCHANGED lease

\* _validate_manifest_status_update; whether a writer that has written nothing
\* may publish a failure of nothing but completed targets is AttemptStore's
StatusAllowed(status) ==
  LET has(x) == \E s \in Records : s.status = x IN
  /\ manifest.status = "completed" => status = "completed"
  /\ status = "completed" => \A s \in Records : s.status = "completed"
  /\ status = "pending_retry" => has("retry_scheduled")
  /\ status = "ambiguous" => has("ambiguous")
  /\ status = "failed" => (has("running") => has("failed"))

\* update_manifest, by any store at any time
Publish(w) ==
  /\ \E status \in {"running", "pending_retry", "ambiguous", "failed", "completed"} :
       /\ StatusAllowed(status)
       /\ Begin(w, <<Put("manifest", NoOne, [manifest EXCEPT !.status = status])>>, 0)
  /\ UNCHANGED lease

\* _atomic_write_json_at replaces one file
Replace(p) ==
  LET t == p.target  v == p.value IN
  /\ manifest' = IF p.file = "manifest" THEN v ELSE manifest
  /\ folder' = IF p.file = "folder" THEN folder \cup {t} ELSE folder
  /\ state' = IF p.file = "state" THEN [state EXCEPT ![t] = v] ELSE state
  /\ receipt' = IF p.file = "receipt" THEN [receipt EXCEPT ![t][v.attempt] = v]
                                      ELSE receipt
  /\ candidate' = IF p.file = "candidate"
                  THEN [candidate EXCEPT ![t][v.attempt] = v.digest] ELSE candidate
  /\ recovery' = IF p.file = "recovery" THEN recovery \cup {v} ELSE recovery

WriteFile(w) ==
  /\ job[w] # <<>>
  /\ Replace(Head(job[w]))
  /\ job' = [job EXCEPT ![w] = Tail(@)]
  /\ lock' = IF Len(job[w]) = 1 THEN NoOne ELSE lock
  /\ UNCHANGED <<lease, writes, torn, sent, view>>

\* a record is on disk that no manifest names yet, or a directory without one
MidWrite(w) ==
  \/ \E t \in Target : /\ \E i \in DOMAIN job[w] : job[w][i].target = t
                       /\ \/ t \in folder /\ state[t] = Absent
                          \/ /\ state[t] # Absent
                             /\ \A i \in DOMAIN manifest.chain[t] :
                                  manifest.chain[t][i].digest # state[t].digest

\* the process dies, or the write fails: the lock file and the leases of the
\* process are released, what was written stays
Crash(w) ==
  /\ \/ job[w] # <<>>
     \/ \E t \in Target : lease[t] = w
  /\ torn' = (torn \/ MidWrite(w))
  /\ job' = [job EXCEPT ![w] = <<>>]
  /\ lock' = IF lock = w THEN NoOne ELSE lock
  /\ lease' = [t \in Target |-> IF lease[t] = w THEN NoOne ELSE lease[t]]
  /\ UNCHANGED <<files, writes, sent, view>>

-----------------------------------------------------------------------------
(* validate_durable_run: one reader, no lock. The receipts of a target are *)
(* listed and read in one step, and so are the files a state is bound to.  *)

Nothing == [status |-> "absent", chain |-> <<>>, ledger |-> <<>>]

NoView == [at |-> "idle", manifest |-> Nothing, anchor |-> Nothing,
           todo |-> {}, target |-> NoOne, state |-> Absent, states |-> {}]

Look(v) == view' = v /\ UNCHANGED <<files, lock, job, lease, writes, torn, sent>>
Check(ok, v) == Look(IF ok THEN v ELSE [NoView EXCEPT !.at = "refused"])

ReadManifest ==
  /\ view.at \in {"idle", "reported", "refused"}
  /\ Check(LedgerBound(manifest), [NoView EXCEPT !.at = "list", !.manifest = manifest])

ListTargets ==
  /\ view.at = "list"
  /\ Check(\A t \in Target : view.manifest.chain[t] # <<>> => t \in folder,
           [view EXCEPT !.at = "target", !.todo = folder])

ReadState ==
  /\ view.at = "target"
  /\ \E t \in view.todo :
       Check(state[t] # Absent,
             [view EXCEPT !.at = "anchor", !.target = t, !.state = state[t],
                          !.todo = @ \ {t}])

ReadAnchor ==
  /\ view.at = "anchor"
  /\ Check(LedgerBound(manifest), [view EXCEPT !.at = "receipts", !.anchor = manifest])

ReadReceipts ==
  /\ view.at = "receipts"
  /\ Check(Anchored(view.anchor, view.target),
           [view EXCEPT !.at = "bind"])

BindState ==
  /\ view.at = "bind"
  /\ Check(LedgerBound(manifest) /\ Bound(manifest, view.target, view.state),
           [view EXCEPT !.at = "target", !.anchor = Nothing,
                        !.states = @ \cup {<<view.target, view.state>>}])

Report ==
  /\ view.at = "target" /\ view.todo = {}
  /\ Check(Agrees(view.manifest, {x[2] : x \in view.states}),
           [NoView EXCEPT !.at = "reported", !.states = view.states])

Reader == ReadManifest \/ ListTargets \/ ReadState \/ ReadAnchor
            \/ ReadReceipts \/ BindState \/ Report

-----------------------------------------------------------------------------
Init ==
  /\ manifest = [status |-> "running", chain |-> [t \in Target |-> <<>>],
                 ledger |-> [t \in Target |-> <<>>]]
  /\ folder = {}
  /\ state = [t \in Target |-> Absent]
  /\ receipt = [t \in Target |-> [n \in Attempt |-> Absent]]
  /\ candidate = [t \in Target |-> [n \in Attempt |-> 0]]
  /\ recovery = {}
  /\ lock = NoOne
  /\ job = [w \in Writer |-> <<>>]
  /\ lease = [t \in Target |-> NoOne]
  /\ writes = 0
  /\ torn = FALSE
  /\ sent = {}
  /\ view = NoView

Next ==
  \/ \E w \in Writer : WriteFile(w) \/ Crash(w) \/ Publish(w)
  \/ \E w \in Writer, t \in Target :
       \/ Prepare(w, t) \/ PrepareAmbiguous(w, t) \/ MarkSideEffect(w, t)
       \/ Send(w, t) \/ SaveCandidate(w, t) \/ RecordFailure(w, t)
       \/ MarkCompleted(w, t) \/ Resolve(w, t)
       \/ RecoverRetry(w, t) \/ RecoverFail(w, t)
  \/ Reader

Spec == Init /\ [][Next]_vars

-----------------------------------------------------------------------------
\* The records a crash leaves are refused exactly when it cut a write of a
\* record short: legal writes, and the publication of any status among them,
\* never make the records unreadable, a crash beside them does not either, and
\* no later write makes a torn run readable again. Whether the status agrees
\* with the records is AttemptStore's subject
\* (_write_state_locked against _validate_all_attempt_receipts).
RefusedIffTorn == lock = NoOne => (Intact <=> ~torn)

\* A request the provider has seen is never forgotten by a run whose records
\* can still be read: its attempt is recorded as having crossed, or is over
\* (mark_side_effect, retry-resume.md:60).
SentSurvives ==
  Intact => \A x \in sent : LET s == state[x[1]] IN
    \/ s.attempt > x[2]
    \/ s.attempt = x[2] /\ s.effect

\* What the reader without the lock reports was committed: every state it
\* returns is an entry of the chain (validate_durable_run).
ReportCommitted ==
  view.at = "reported" => \A x \in view.states :
    \E i \in DOMAIN manifest.chain[x[1]] :
      manifest.chain[x[1]][i].digest = x[2].digest

\* StateIntegrityError means that records exist and cannot be trusted
\* (docs/adoption.md:662).
RefusalMeansDamage == view.at = "refused" => torn

Log == INSTANCE RunLog WITH Digest <- 1 .. MaxWrites,
                            log <- manifest.chain, damaged <- torn

\* The chains grow one entry at a time, in the order of the attempts, and stop
\* for good once a write was torn.
RunLogSpec == Log!Spec
=============================================================================
