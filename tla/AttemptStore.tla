---------------------------- MODULE AttemptStore ----------------------------
(***************************************************************************)
(* The durable state of one kigumi run: _run.json (runStatus, ledger), one *)
(* attempt state per target, the run artifact and sidecar of each target,  *)
(* and the AttemptStore instances ("executors") that read and write them.  *)
(* An executor is one Dag.run / Dag.resume / Dag.recover / retry-resolve   *)
(* call with its own AttemptStore, living in a process.                    *)
(*                                                                         *)
(* Every public method of AttemptStore runs under the run lock, so each is *)
(* one action; what is NOT under the run lock (materialization, deciding   *)
(* the final status before publishing it, the moments between two calls)   *)
(* is a step of its own.  The files one method writes (receipt,           *)
(* state.json, _run.json) are one step here.                               *)
(*                                                                         *)
(* Three abstractions.  A lease token is the executor that minted it: a    *)
(* store holds at most one lease per target and a released token is never  *)
(* looked at again.  The manifest generation is insync[e], "the generation *)
(* executor e remembers is the one on disk": it only grows, so the number  *)
(* itself tells nothing more.  A sidecar is a stamp: every writing makes   *)
(* another file (created_at, seconds), and what is asked of it is whether  *)
(* it is the one that the state has pinned.                                *)
(***************************************************************************)
EXTENDS Naturals, FiniteSets

CONSTANTS Target,       \* node names of the run
          Deps,         \* what each target depends on directly
          Executor,     \* AttemptStore instances
          Process,      \* operating-system processes
          HostOf,       \* the process each executor lives in
          NoOne,        \* absent owner token
          Workers,      \* how many targets one executor works on at a time
          MaxAttempts,  \* RetryPolicy.max_attempts
          LastAttempt,  \* bound on attempts queued by an operator
          Fault         \* errors outside record_failure that may occur: in the
                        \* key of a node, in what it returned, in the files

Faults == {"key", "artifact", "materialize"}

ASSUME ConstantsOK ==
  /\ Deps \in [Target -> SUBSET Target]
  /\ HostOf \in [Executor -> Process]
  /\ NoOne \notin Executor
  /\ Workers \in Nat /\ MaxAttempts \in Nat \ {0} /\ LastAttempt \in Nat \ {0}
  /\ MaxAttempts <= LastAttempt
  /\ Fault \subseteq Faults

VARIABLES
  runStatus,  \* _run.json "status"; "absent" before initialize
  ledger,     \* recovery_decisions: <<target, from_attempt, "fail" or "retry">>
  state,      \* attempts/<target>/state.json
  pair,       \* <target>.json and <target>.json.meta.json
  session,    \* where each executor's call is
  verdict,    \* the status an executor has decided to publish
  insync,     \* _manifest_generation equals the manifest's
  mutated,    \* _state_mutated_since_status
  admitted,   \* _terminal_status_admission_generation equals the manifest's
  lease,      \* _target_leases; "fenced" is an entry whose handle was closed
  stage,      \* how far each executor is with each target
  crossed     \* history: executions that crossed the effect boundary of the
              \* current attempt since it was last (re)admitted from a record

durable  == <<runStatus, ledger, state, pair>>
fences   == <<insync, mutated, admitted>>
vars     == <<runStatus, ledger, state, pair, session, verdict, insync,
              mutated, admitted, lease, stage, crossed>>

RunStatus     == {"running", "pending_retry", "ambiguous",
                  "checkpoint_pending", "completed", "failed"}
AttemptStatus == {"running", "success_candidate", "retry_scheduled",
                  "ambiguous", "checkpoint_pending", "completed", "failed"}
Stage         == {"waiting", "run", "effect", "candidate", "torn", "paired",
                  "restored", "success", "pending", "checkpoint", "skipped",
                  "error"}
Busy          == {"run", "effect", "candidate", "torn", "paired", "restored"}
Parked        == {"pending", "checkpoint", "skipped"}
Stamp         == 0..2     \* no sidecar, two that differ

Attempt == [status: AttemptStatus \cup {"absent"}, attempt: Nat, next: Nat,
            effect: BOOLEAN, owner: Executor \cup {NoOne},
            resolved: BOOLEAN, pin: Stamp]

NoAttempt == [status |-> "absent", attempt |-> 0, next |-> 0, effect |-> FALSE,
              owner |-> NoOne, resolved |-> FALSE, pin |-> 0]
NoPair    == [artifact |-> FALSE, sidecar |-> 0]

TypeOK ==
  /\ runStatus \in RunStatus \cup {"absent"}
  /\ ledger \subseteq Target \X Nat \X {"fail", "retry"}
  /\ state \in [Target -> Attempt]
  /\ pair \in [Target -> [artifact: BOOLEAN, sidecar: Stamp]]
  /\ session \in [Executor -> {"off", "bound", "open", "ruled",
                            "closing", "closed"}]
  /\ verdict \in [Executor -> RunStatus]
  /\ insync \in [Executor -> BOOLEAN]
  /\ mutated \in [Executor -> BOOLEAN]
  /\ admitted \in [Executor -> BOOLEAN]
  /\ lease \in [Executor -> [Target -> {"none", "held", "fenced"}]]
  /\ stage \in [Executor -> [Target -> Stage]]
  /\ crossed \in [Target -> Nat]

-----------------------------------------------------------------------------
(* What a reader demands of the durable records.                           *)

Has(s) == \E t \in Target : state[t].status = s
Known  == {t \in Target : state[t].status # "absent"}

\* _validate_manifest_state_consistency
Agrees ==
  /\ runStatus = "completed" => \A t \in Known : state[t].status = "completed"
  /\ runStatus = "pending_retry" => Has("retry_scheduled")
  /\ runStatus = "ambiguous" =>
       \/ Has("ambiguous")
       \/ \E t \in Target : /\ state[t].resolved
                            /\ state[t].status \in {"retry_scheduled", "failed"}
  /\ runStatus = "checkpoint_pending" => Has("checkpoint_pending")
  /\ runStatus = "failed" /\ Known # {} =>
       Has("failed") \/ Has("retry_scheduled") \/ Has("success_candidate")

\* _validate_recovery_decision_state
LedgerReflected ==
  \A d \in ledger : LET s == state[d[1]] IN
    IF d[3] = "fail" THEN s.status = "failed" /\ s.attempt = d[2]
                     ELSE s.attempt >= d[2] + 1

\* _validate_all_attempt_receipts
Readable ==
  /\ runStatus # "absent"
  /\ \A t \in Target : state[t].status = "running" => state[t].owner # NoOne
  /\ LedgerReflected
  /\ Agrees

\* _validate_run_materializations, for one target
Materialized(t) ==
  /\ pair[t].artifact => pair[t].sidecar # 0
  /\ pair[t].artifact =>
       state[t].status \in {"running", "success_candidate", "completed"}
  /\ state[t].status = "completed" =>
       pair[t].artifact /\ pair[t].sidecar = state[t].pin

MaterializationsReadable == \A t \in Target : Materialized(t)

-----------------------------------------------------------------------------
(* Leases and committed writes.                                            *)

\* Mutant: takes the lease without asking who holds the flock.
CanAcquireUnlocked(e, t, fence) ==
  lease[e][t] # "none" => state[t].owner = e

\* _acquire_target_lease: the flock is free, or a holder in the same process
\* may be fenced off; a store that already has an entry must own the state.
CanAcquire(e, t, fence) ==
  IF lease[e][t] # "none"
  THEN state[t].owner = e
  ELSE \A x \in Executor :
         lease[x][t] = "held" => fence /\ HostOf[x] = HostOf[e]

\* Mutant: leaves the handle of the holder it takes over from open.
AcquiredBeside(e, t, mine) == [lease EXCEPT ![e][t] = mine]

\* the caller's own handle becomes mine, live ones of its process are fenced
Acquired(e, t, mine) ==
  [x \in Executor |->
     [lease[x] EXCEPT ![t] =
        IF x = e THEN mine
        ELSE IF @ = "held" /\ HostOf[x] = HostOf[e] THEN "fenced" ELSE @]]

\* _clear_target_owner without a preceding acquire
Released(e, t) == [lease EXCEPT ![e][t] = "none"]

\* _require_target_lease
Owns(e, t) == lease[e][t] = "held" /\ state[t].owner = e

\* _write_state: commits without advancing the generation, and so leaves the
\* writer with the generation it found.
WriteState(e, t, s) ==
  /\ state' = [state EXCEPT ![t] = s]
  /\ insync' = [insync EXCEPT ![e] = TRUE]
  /\ mutated' = [mutated EXCEPT ![e] = TRUE]

\* _commit_manifest(advance_generation=True)
WriteStatus(e, s) ==
  /\ runStatus' = s
  /\ insync' = [x \in Executor |-> x = e]
  /\ mutated' = [mutated EXCEPT ![e] = FALSE]
  /\ admitted' = [x \in Executor |-> FALSE]

\* _start_attempt
StartAttempt(e, t, a) ==
  /\ WriteState(e, t, [NoAttempt EXCEPT !.status = "running", !.attempt = a,
                                        !.owner = e])
  /\ lease' = Acquired(e, t, "held")
  /\ crossed' = [crossed EXCEPT ![t] =
                   IF state[t].status = "running" THEN @ ELSE 0]

Move(e, t, s) == stage' = [stage EXCEPT ![e][t] = s]
Goto(e, s)    == session' = [session EXCEPT ![e] = s]

Failed(e)  == \E t \in Target : stage[e][t] = "error"
Working(e) == {t \in Target : stage[e][t] \in Busy}

-----------------------------------------------------------------------------
(* Opening a run.                                                          *)

\* initialize, then (for a run that exists) mark_resumed, whose own commit
\* makes the generation the store remembers the one it found.
Initialize(e) ==
  /\ session[e] = "off"
  /\ \/ runStatus = "absent" /\ runStatus' = "running"
     \/ Readable /\ MaterializationsReadable /\ UNCHANGED runStatus
  /\ Goto(e, "bound")
  /\ insync' = [insync EXCEPT ![e] = TRUE]
  /\ UNCHANGED <<ledger, state, pair, verdict, mutated, admitted, lease, stage,
                 crossed>>

\* update_manifest("running")
Admit(e) ==
  /\ session[e] = "bound"
  /\ Readable /\ insync[e]
  /\ Goto(e, "open")
  /\ \/ /\ runStatus = "running"
        /\ mutated' = [mutated EXCEPT ![e] = FALSE]
        /\ UNCHANGED <<runStatus, insync, admitted>>
     \/ /\ runStatus = "completed"
        /\ mutated' = [mutated EXCEPT ![e] = FALSE]
        /\ admitted' = [admitted EXCEPT ![e] = TRUE]
        /\ UNCHANGED <<runStatus, insync>>
     \/ /\ runStatus \notin {"running", "completed"}
        /\ WriteStatus(e, "running")
  /\ UNCHANGED <<ledger, state, pair, verdict, lease, stage, crossed>>

\* a newer generation, or records that no longer agree
AdmitRefused(e) ==
  /\ session[e] = "bound"
  /\ ~(Readable /\ insync[e])
  /\ Goto(e, "closed")
  /\ UNCHANGED <<durable, verdict, fences, lease, stage, crossed>>

-----------------------------------------------------------------------------
(* Executing one target.                                                   *)

\* the scheduler submits a target whose dependencies have succeeded, and no
\* new one after a failure
Submitted(e, t) ==
  /\ session[e] = "open"
  /\ stage[e][t] = "waiting"
  /\ \A d \in Deps[t] : stage[e][d] = "success"
  /\ ~Failed(e)
  /\ Cardinality(Working(e)) < Workers

\* classify_ready: what depends on a parked target is not executed
Skip(e, t) ==
  /\ session[e] = "open"
  /\ stage[e][t] = "waiting"
  /\ \E d \in Deps[t] : stage[e][d] \in Parked
  /\ ~Failed(e)
  /\ Move(e, t, "skipped")
  /\ UNCHANGED <<durable, session, verdict, fences, lease, crossed>>

\* Mutant: revisits a checkpoint as a new attempt.
StartNumberAnew(t) ==
  CASE state[t].status = "retry_scheduled" -> state[t].next
    [] OTHER -> state[t].attempt + 1

StartNumber(t) ==
  CASE state[t].status = "absent" -> 1
    [] state[t].status = "retry_scheduled" -> state[t].next
    [] OTHER -> state[t].attempt

\* Mutant: restarts any attempt whose owner died.
StartableAfterEffect(t) ==
  state[t].status \in {"absent", "checkpoint_pending", "retry_scheduled",
                       "running"}

Startable(t) ==
  \/ state[t].status \in {"absent", "checkpoint_pending", "retry_scheduled"}
  \/ state[t].status = "running" /\ ~state[t].effect

Uncertain(t) == state[t].status = "running" /\ state[t].effect

\* prepare -> "run": a first attempt, a due retry, a checkpoint to revisit, or
\* the restart of an attempt whose owner died before the effect boundary
PrepareRun(e, t) ==
  /\ Submitted(e, t)
  /\ Readable /\ MaterializationsReadable
  /\ Startable(t)
  /\ CanAcquire(e, t, FALSE)
  /\ StartAttempt(e, t, StartNumber(t))
  /\ Move(e, t, "run")
  /\ UNCHANGED <<runStatus, ledger, pair, session, verdict, admitted>>

\* prepare -> "pending": the retry is not due yet
PreparePending(e, t) ==
  /\ Submitted(e, t)
  /\ Readable /\ MaterializationsReadable
  /\ state[t].status = "retry_scheduled"
  /\ Move(e, t, "pending")
  /\ UNCHANGED <<durable, session, verdict, fences, lease, crossed>>

\* Mutant: reports the ambiguity and records nothing.
PrepareAmbiguousUnrecorded(e, t) ==
  /\ Submitted(e, t)
  /\ Readable /\ MaterializationsReadable
  /\ Uncertain(t)
  /\ CanAcquire(e, t, TRUE)
  /\ Move(e, t, "error")
  /\ UNCHANGED <<durable, session, verdict, fences, lease, crossed>>

\* prepare -> AmbiguousAttemptError, recording the ambiguity
PrepareAmbiguous(e, t) ==
  /\ Submitted(e, t)
  /\ Readable /\ MaterializationsReadable
  /\ Uncertain(t)
  /\ CanAcquire(e, t, TRUE)
  /\ WriteState(e, t, [state[t] EXCEPT !.status = "ambiguous", !.owner = NoOne])
  /\ lease' = Acquired(e, t, "none")
  /\ Move(e, t, "error")
  /\ UNCHANGED <<runStatus, ledger, pair, session, verdict, admitted, crossed>>

\* Mutant: materializes a completed target like a candidate.
PrepareDoneAnew(e, t) ==
  /\ Submitted(e, t)
  /\ Readable /\ MaterializationsReadable
  /\ state[t].status \in {"success_candidate", "completed"}
  /\ Move(e, t, "candidate")
  /\ UNCHANGED <<durable, session, verdict, fences, lease, crossed>>

\* prepare -> "candidate" or "completed"; neither takes a lease.  A resume
\* looks for the completed pair itself and reads the state with the same
\* checks (state_for).
PrepareDone(e, t) ==
  /\ Submitted(e, t)
  /\ Readable /\ MaterializationsReadable
  /\ \/ state[t].status = "success_candidate" /\ Move(e, t, "candidate")
     \/ state[t].status = "completed" /\ Move(e, t, "restored")
  /\ UNCHANGED <<durable, session, verdict, fences, lease, crossed>>

\* prepare raises: an integrity error, a busy target, a terminal attempt
PrepareRefused(e, t) ==
  /\ Submitted(e, t)
  /\ \/ ~(Readable /\ MaterializationsReadable)
     \/ state[t].status \in {"ambiguous", "failed"}
     \/ Startable(t) /\ ~CanAcquire(e, t, FALSE)
     \/ Uncertain(t) /\ ~CanAcquire(e, t, TRUE)
  /\ Move(e, t, "error")
  /\ UNCHANGED <<durable, session, verdict, fences, lease, crossed>>

\* _node_key_decision raises: nothing durable exists for this execution
KeyError(e, t) ==
  /\ "key" \in Fault
  /\ Submitted(e, t)
  /\ Move(e, t, "error")
  /\ UNCHANGED <<durable, session, verdict, fences, lease, crossed>>

\* the precondition of mark_side_effect, mark_checkpoint, save_candidate and
\* record_failure
MayRecord(e, t) ==
  Readable /\ state[t].status = "running" /\ Owns(e, t)

Executing(e, t) == session[e] = "open" /\ stage[e][t] \in {"run", "effect"}

\* mark_side_effect, before each provider call or Agent spawn
MarkSideEffect(e, t) ==
  /\ Executing(e, t) /\ stage[e][t] = "run"
  /\ MayRecord(e, t)
  /\ WriteState(e, t, [state[t] EXCEPT !.effect = TRUE])
  /\ Move(e, t, "effect")
  /\ crossed' = [crossed EXCEPT ![t] = @ + 1]
  /\ UNCHANGED <<runStatus, ledger, pair, session, verdict, admitted, lease>>

\* CheckpointPending: mark_checkpoint
MarkCheckpoint(e, t) ==
  /\ Executing(e, t)
  /\ MayRecord(e, t)
  /\ WriteState(e, t, [state[t] EXCEPT !.status = "checkpoint_pending",
                                       !.owner = NoOne])
  /\ lease' = Released(e, t)
  /\ Move(e, t, "checkpoint")
  /\ UNCHANGED <<runStatus, ledger, pair, session, verdict, admitted, crossed>>

\* record_failure; whether the policy allows the failure kind is the
\* provider's choice, whether attempts are left is not
RecordFailure(e, t) ==
  /\ Executing(e, t)
  /\ MayRecord(e, t)
  /\ \/ /\ state[t].attempt < MaxAttempts
        /\ WriteState(e, t, [state[t] EXCEPT !.status = "retry_scheduled",
                                             !.next = state[t].attempt + 1,
                                             !.owner = NoOne])
        /\ Move(e, t, "pending")
     \/ /\ WriteState(e, t, [state[t] EXCEPT !.status = "failed",
                                             !.owner = NoOne])
        /\ Move(e, t, "error")
  /\ lease' = Released(e, t)
  /\ UNCHANGED <<runStatus, ledger, pair, session, verdict, admitted, crossed>>

\* save_candidate
SaveCandidate(e, t) ==
  /\ Executing(e, t)
  /\ MayRecord(e, t)
  /\ WriteState(e, t, [state[t] EXCEPT !.status = "success_candidate",
                                       !.owner = NoOne])
  /\ lease' = Released(e, t)
  /\ Move(e, t, "candidate")
  /\ UNCHANGED <<runStatus, ledger, pair, session, verdict, admitted, crossed>>

\* any of the four refuses: the error leaves execute unrecorded
RecordRefused(e, t) ==
  /\ Executing(e, t)
  /\ ~MayRecord(e, t)
  /\ Move(e, t, "error")
  /\ UNCHANGED <<durable, session, verdict, fences, lease, crossed>>

\* the node returned something that is not a dict: raised after the handler
\* that calls record_failure, with the lease still held
BadArtifact(e, t) ==
  /\ "artifact" \in Fault
  /\ Executing(e, t)
  /\ Move(e, t, "error")
  /\ UNCHANGED <<durable, session, verdict, fences, lease, crossed>>

-----------------------------------------------------------------------------
(* Materializing a candidate: under the executor's state_lock, but outside *)
(* the run lock.                                                           *)

\* seal, validation, materialize and post_node succeed; write_artifact
\* replaces the artifact file first ...
WriteArtifact(e, t) ==
  /\ session[e] = "open" /\ stage[e][t] = "candidate"
  /\ \A u \in Target : stage[e][u] \notin {"torn", "paired"}
  /\ pair' = [pair EXCEPT ![t].artifact = TRUE]
  /\ Move(e, t, "torn")
  /\ UNCHANGED <<runStatus, ledger, state, session, verdict, fences, lease,
                 crossed>>

\* ... and the sidecar, unlike any before it, in a second replacement
WriteSidecar(e, t) ==
  /\ session[e] = "open" /\ stage[e][t] = "torn"
  /\ pair' = [pair EXCEPT ![t].sidecar = IF state[t].pin = 1 THEN 2 ELSE 1]
  /\ Move(e, t, "paired")
  /\ UNCHANGED <<runStatus, ledger, state, session, verdict, fences, lease,
                 crossed>>

\* _resume_completed_artifact and materialize have found the record, the files
\* and the outputs of a completed target as they were left; nothing is written
Restore(e, t) ==
  /\ session[e] = "open" /\ stage[e][t] = "restored"
  /\ \A u \in Target : stage[e][u] \notin {"torn", "paired"}
  /\ Move(e, t, "success")
  /\ UNCHANGED <<durable, session, verdict, fences, lease, crossed>>

\* materialize, post_node or one of the two replacements raises, or an output
\* of a completed target is not what it was
MaterializeError(e, t) ==
  /\ "materialize" \in Fault
  /\ session[e] = "open" /\ stage[e][t] \in {"candidate", "torn", "restored"}
  /\ Move(e, t, "error")
  /\ UNCHANGED <<durable, session, verdict, fences, lease, crossed>>

\* mark_completed: pins the sidecar it finds on disk
MarkCompleted(e, t) ==
  /\ session[e] = "open" /\ stage[e][t] = "paired"
  /\ Readable
  /\ \/ /\ state[t].status = "completed"
        /\ UNCHANGED <<state, insync, mutated, lease>>
     \/ /\ state[t].status = "success_candidate"
        /\ CanAcquire(e, t, TRUE)
        /\ WriteState(e, t, [state[t] EXCEPT !.status = "completed",
                                             !.owner = NoOne,
                                             !.pin = pair[t].sidecar])
        /\ lease' = Acquired(e, t, "none")
  /\ Move(e, t, "success")
  /\ UNCHANGED <<runStatus, ledger, pair, session, verdict, admitted, crossed>>

MarkCompletedRefused(e, t) ==
  /\ session[e] = "open" /\ stage[e][t] = "paired"
  /\ \/ ~Readable
     \/ state[t].status \notin {"completed", "success_candidate"}
     \/ state[t].status = "success_candidate" /\ ~CanAcquire(e, t, TRUE)
  /\ Move(e, t, "error")
  /\ UNCHANGED <<durable, session, verdict, fences, lease, crossed>>

-----------------------------------------------------------------------------
(* Publishing the run status.                                              *)

\* Mutant: does not look again for what has become ready.
DrainedAtLull(e) ==
  /\ Working(e) = {}
  /\ Failed(e) \/ \A t \in Target : stage[e][t] = "waiting" => Deps[t] # {}

\* nothing in flight, and nothing left to submit
Drained(e) ==
  /\ Working(e) = {}
  /\ Failed(e) \/ \A t \in Target : stage[e][t] # "waiting"

FinalStatus(e) ==
  IF Has("ambiguous") THEN "ambiguous"
  ELSE IF Failed(e) THEN "failed"
  ELSE IF Has("retry_scheduled") THEN "pending_retry"
  ELSE IF \E t \in Target : stage[e][t] = "checkpoint" THEN "checkpoint_pending"
  ELSE "completed"

\* Dag.run, Dag.recover and Dag.retry_resolve read pending_retries() and
\* ambiguous_attempts() first; an operator's status is already decided ...
Conclude(e) ==
  /\ (session[e] = "open" /\ Drained(e)) \/ session[e] = "ruled"
  /\ \/ /\ Readable /\ MaterializationsReadable
        /\ verdict' = IF session[e] = "ruled" THEN verdict
                      ELSE [verdict EXCEPT ![e] = FinalStatus(e)]
        /\ Goto(e, "closing")
     \/ /\ ~(Readable /\ MaterializationsReadable)
        /\ Goto(e, "closed")
        /\ UNCHANGED verdict
  /\ UNCHANGED <<durable, fences, lease, stage, crossed>>

\* Mutant: publishes "completed" without a look at the attempts.
StatusAllowedUnchecked(e, s) == s = "completed"

\* _validate_manifest_status_update
StatusAllowed(e, s) ==
  /\ runStatus = "completed" => s = "completed"
  /\ s = "completed" => \A t \in Known : state[t].status = "completed"
  /\ s = "pending_retry" => Has("retry_scheduled")
  /\ s = "ambiguous" => Has("ambiguous")
  /\ s = "checkpoint_pending" => Has("checkpoint_pending")
  /\ s = "failed" =>
       /\ ~ /\ Known # {}
            /\ \A t \in Known : state[t].status = "completed"
            /\ ~mutated[e] /\ ~admitted[e]
       /\ Has("running") => Has("failed")

\* ... and then calls update_manifest with that status
Publish(e) ==
  /\ session[e] = "closing"
  /\ \/ /\ Readable /\ insync[e] /\ StatusAllowed(e, verdict[e])
        /\ WriteStatus(e, verdict[e])
     \/ /\ ~(Readable /\ insync[e] /\ StatusAllowed(e, verdict[e]))
        /\ UNCHANGED <<runStatus, fences>>
  /\ Goto(e, "closed")
  /\ UNCHANGED <<ledger, state, pair, verdict, lease, stage, crossed>>

-----------------------------------------------------------------------------
(* Operators.                                                              *)

\* Mutant: leaves no trace of the decision in the state.
ResolveUntraced(e, t, action) ==
  /\ session[e] = "off"
  /\ Readable
  /\ state[t].status = "ambiguous" \/ Uncertain(t)
  /\ CanAcquire(e, t, TRUE)
  /\ action = "fail"
  /\ WriteState(e, t, [state[t] EXCEPT !.status = "failed", !.owner = NoOne])
  /\ verdict' = [verdict EXCEPT ![e] = "failed"]
  /\ lease' = Acquired(e, t, "none")
  /\ Goto(e, "ruled")
  /\ UNCHANGED <<runStatus, ledger, pair, admitted, stage, crossed>>

\* AttemptStore.resolve, called by Dag.retry_resolve, which then publishes
Resolve(e, t, action) ==
  /\ session[e] = "off"
  /\ Readable
  /\ state[t].status = "ambiguous" \/ Uncertain(t)
  /\ CanAcquire(e, t, TRUE)
  /\ \/ /\ action = "retry"
        /\ state[t].attempt < LastAttempt
        /\ WriteState(e, t, [state[t] EXCEPT !.status = "retry_scheduled",
                                             !.next = state[t].attempt + 1,
                                             !.owner = NoOne,
                                             !.resolved = TRUE])
        /\ verdict' = [verdict EXCEPT ![e] = "pending_retry"]
     \/ /\ action = "fail"
        /\ WriteState(e, t, [state[t] EXCEPT !.status = "failed",
                                             !.owner = NoOne,
                                             !.resolved = TRUE])
        /\ verdict' = [verdict EXCEPT ![e] = "failed"]
  /\ lease' = Acquired(e, t, "none")
  /\ Goto(e, "ruled")
  /\ UNCHANGED <<runStatus, ledger, pair, admitted, stage, crossed>>

\* Mutant: enters the decision and leaves the failed attempt as it is.
RecoverLedgerOnly(e, t, decision) ==
  /\ session[e] = "off"
  /\ Readable /\ MaterializationsReadable
  /\ runStatus = "failed" /\ state[t].status = "failed"
  /\ \A d \in ledger : ~(d[1] = t /\ d[2] = state[t].attempt)
  /\ CanAcquire(e, t, FALSE)
  /\ ledger' = ledger \cup {<<t, state[t].attempt, decision>>}
  /\ Goto(e, "closed")
  /\ UNCHANGED <<runStatus, state, pair, verdict, fences, lease, stage, crossed>>

\* AttemptStore.record_recovery_decision, called by Dag.recover
Recover(e, t, decision) ==
  /\ session[e] = "off"
  /\ Readable /\ MaterializationsReadable
  /\ runStatus = "failed" /\ state[t].status = "failed"
  /\ \A d \in ledger : ~(d[1] = t /\ d[2] = state[t].attempt)
  /\ CanAcquire(e, t, FALSE)
  /\ ledger' = ledger \cup {<<t, state[t].attempt, decision>>}
  /\ \/ /\ decision = "fail"
        /\ insync' = [insync EXCEPT ![e] = TRUE]
        /\ Goto(e, "closed")
        /\ UNCHANGED <<state, mutated, verdict>>
     \/ /\ decision = "retry"
        /\ state[t].attempt < LastAttempt
        /\ WriteState(e, t, [state[t] EXCEPT !.status = "retry_scheduled",
                                             !.attempt = state[t].attempt + 1,
                                             !.next = state[t].attempt + 1,
                                             !.owner = NoOne])
        /\ verdict' = [verdict EXCEPT ![e] = "pending_retry"]
        /\ Goto(e, "ruled")
  /\ UNCHANGED <<runStatus, pair, admitted, lease, stage, crossed>>

-----------------------------------------------------------------------------
(* Processes.  When one ends, the kernel drops its flocks and its stores   *)
(* are gone; an executor name may then be used for a new call.             *)

Forget(p) ==
  LET gone == {e \in Executor : HostOf[e] = p}
      Reset(f, v) == [e \in Executor |-> IF e \in gone THEN v ELSE f[e]]
  IN  /\ session' = Reset(session, "off")
      /\ verdict' = Reset(verdict, "running")
      /\ insync' = Reset(insync, FALSE)
      /\ mutated' = Reset(mutated, FALSE)
      /\ admitted' = Reset(admitted, FALSE)
      /\ lease' = Reset(lease, [t \in Target |-> "none"])
      /\ stage' = Reset(stage, [t \in Target |-> "waiting"])
      /\ UNCHANGED <<durable, crossed>>

Idle(p) == \A e \in Executor : HostOf[e] = p => session[e] \in {"off", "closed"}

Exit(p) ==
  /\ Idle(p)
  /\ \E e \in Executor : HostOf[e] = p /\ session[e] = "closed"
  /\ Forget(p)

Crash(p) == ~Idle(p) /\ Forget(p)

-----------------------------------------------------------------------------
Init ==
  /\ runStatus = "absent"
  /\ ledger = {}
  /\ state = [t \in Target |-> NoAttempt]
  /\ pair = [t \in Target |-> NoPair]
  /\ session = [e \in Executor |-> "off"]
  /\ verdict = [e \in Executor |-> "running"]
  /\ insync = [e \in Executor |-> FALSE]
  /\ mutated = [e \in Executor |-> FALSE]
  /\ admitted = [e \in Executor |-> FALSE]
  /\ lease = [e \in Executor |-> [t \in Target |-> "none"]]
  /\ stage = [e \in Executor |-> [t \in Target |-> "waiting"]]
  /\ crossed = [t \in Target |-> 0]

\* the steps of a call that was made
Progress(e) ==
  \/ Admit(e) \/ AdmitRefused(e) \/ Conclude(e) \/ Publish(e)
  \/ \E t \in Target :
       \/ PrepareRun(e, t) \/ PreparePending(e, t) \/ PrepareAmbiguous(e, t)
       \/ PrepareDone(e, t) \/ PrepareRefused(e, t) \/ KeyError(e, t)
       \/ Skip(e, t) \/ Restore(e, t)
       \/ MarkSideEffect(e, t) \/ MarkCheckpoint(e, t) \/ RecordFailure(e, t)
       \/ SaveCandidate(e, t) \/ RecordRefused(e, t) \/ BadArtifact(e, t)
       \/ WriteArtifact(e, t) \/ WriteSidecar(e, t) \/ MaterializeError(e, t)
       \/ MarkCompleted(e, t) \/ MarkCompletedRefused(e, t)

Operator(e) ==
  \E t \in Target :
    \/ \E action \in {"retry", "fail"} : Resolve(e, t, action)
    \/ \E decision \in {"retry", "fail"} : Recover(e, t, decision)

Next ==
  \/ \E e \in Executor : Initialize(e) \/ Progress(e) \/ Operator(e)
  \/ \E p \in Process : Exit(p) \/ Crash(p)

Spec == Init /\ [][Next]_vars

\* the behaviours in which no process dies while it works
UndisturbedSpec == Init /\ [][Next /\ \A p \in Process : ~Crash(p)]_vars

-----------------------------------------------------------------------------
(* Safety.                                                                 *)

\* One live lock per target: no interleaving of acquisitions, fencing and
\* process deaths leaves two executors holding the flock of one target
\* (_acquire_target_lease, _release_target_lease).
LeaseExclusive ==
  \A t \in Target : \A e, f \in Executor :
    lease[e][t] = "held" /\ lease[f][t] = "held" => e = f

\* The effect boundary of an attempt is crossed by at most one execution
\* until the attempt is recorded as failed, retried, ambiguous or parked at a
\* checkpoint: neither a resume, nor a second executor, nor a crash at any
\* point makes a second execution call the provider (prepare,
\* mark_side_effect, _require_target_lease).
CrossedOnce == \A t \in Target : crossed[t] <= 1

\* An executor still inside a node whose boundary it crossed, and which no one
\* fenced off, works on an attempt the durable state shows as running, with
\* the boundary recorded: a crash at that moment is seen as ambiguous and
\* never as "not started" (mark_side_effect before the call).
EffectRecorded ==
  \A e \in Executor, t \in Target :
    stage[e][t] = "effect" /\ lease[e][t] = "held" =>
      Uncertain(t) /\ state[t].owner = e

\* A run artifact appears only for a target whose success candidate is
\* durable: no retry, failure or ambiguity can find an artifact in its way,
\* which every later read would reject (save_candidate before materialize).
ArtifactHasCandidate ==
  \A t \in Target : pair[t].artifact \/ pair[t].sidecar # 0 =>
    state[t].status \in {"success_candidate", "completed"}

\* The operators' ledger holds at most one decision per failed attempt and is
\* reflected in the state, whatever the executors do afterwards
\* (record_recovery_decision).
LedgerSound ==
  /\ LedgerReflected
  /\ \A c, d \in ledger : c[1] = d[1] /\ c[2] = d[2] => c = d

\* Whatever fails, wherever the process dies and whatever an operator decides
\* and does not live to publish, a run that is not published as failed is one
\* its readers accept (update_manifest, resolve,
\* _validate_manifest_state_consistency).
UnfailedReadable == runStatus \notin {"absent", "failed"} => Readable

\* A status that was published is one that readers accept: also a failure
\* leaves a run that can be resumed or recovered (docs/recovery.md:3;
\* _validate_manifest_status_update, _validate_manifest_state_consistency).
PublishedAgrees == Agrees

\* A completed target keeps the sidecar whose digest its state pinned, however
\* often the run is resumed and the target restored, beside other targets that
\* are materialized and with crashes in between (mark_completed,
\* _resume_completed_artifact, _validate_completed_materialization).
CompletedPinned ==
  \A t \in Target : state[t].status = "completed" =>
    pair[t].artifact /\ pair[t].sidecar = state[t].pin

\* A run published as completed has every target completed, and stays so:
\* neither a target that was skipped below a parked one, nor an executor that
\* ran on after the publication, met an error or was stale makes a run
\* complete too early or starts anything more (FinalStatus, update_manifest,
\* prepare).
CompletedRunDone ==
  runStatus = "completed" => \A t \in Target : state[t].status = "completed"

\* <t>.json without its sidecar, and no one about to write it
Orphaned(t) ==
  /\ pair[t].artifact /\ pair[t].sidecar = 0
  /\ \A e \in Executor : stage[e][t] # "torn"

\* Without faults a target ends in an error only for a cause that is on
\* record: its own failure or ambiguity, or a pair that a crash tore.  The
\* work on another ready target is no such cause (docs/adoption.md:331;
\* prepare, _validate_run_materializations, write_artifact).
ErrorsExplained ==
  \A e \in Executor, t \in Target :
    stage[e][t] = "error" =>
      \/ state[t].status \in {"failed", "ambiguous"}
      \/ \E u \in Target : Orphaned(u)

\* An attempt that crossed the effect boundary is never started again as it
\* stands: it leaves "running" only by its own outcome, an operator's verdict
\* or as ambiguous, and "ambiguous" only by a verdict (prepare, resolve).
NoSilentReplay ==
  [][\A t \in Target :
       state[t].effect /\ state[t].status \in {"running", "ambiguous"}
         /\ state'[t] # state[t] =>
       \/ state'[t].status # "running"
       \/ state'[t].effect /\ state'[t].owner = state[t].owner]_vars

\* While the owner of a running attempt lives and holds its flock, the attempt
\* changes only by a step of the owner, unless it is fenced off from inside
\* its own process: a second process can neither restart nor rule on it.
OwnerRules ==
  [][\A t \in Target : \A e \in Executor :
       state[t].status = "running" /\ Owns(e, t) /\ state'[t] # state[t] =>
         \/ stage'[e][t] # stage[e][t]
         \/ lease'[e][t] = "fenced"]_vars

-----------------------------------------------------------------------------
(* Refinement.                                                             *)

PhaseOf(s) ==
  CASE s.status = "absent"             -> "new"
    [] s.status = "running"            -> IF s.effect THEN "exposed" ELSE "started"
    [] s.status = "ambiguous"          -> "uncertain"
    [] s.status = "retry_scheduled"    -> "queued"
    [] s.status = "checkpoint_pending" -> "parked"
    [] s.status = "success_candidate"  -> "sealed"
    [] s.status = "completed"          -> "done"
    [] s.status = "failed"             -> "failed"

NumberOf(s) == IF s.status = "retry_scheduled" THEN s.next ELSE s.attempt

Lifecycle == INSTANCE AttemptLifecycle WITH
  phase <- [t \in Target |-> PhaseOf(state[t])],
  number <- [t \in Target |-> NumberOf(state[t])],
  over <- runStatus = "completed"

\* Seen through PhaseOf and NumberOf the store is an AttemptLifecycle: no
\* interleaving of executors, crashes and operators takes a target along a
\* path the lifecycle does not have (every write of state.json).
LifecycleSpec == Lifecycle!Spec

-----------------------------------------------------------------------------
(* Liveness.  A call that was made goes on to its end, a process whose     *)
(* calls are over exits, and someone resumes the run (the contract leaves  *)
(* that to an external supervisor).  No operator is required to act.       *)

FairSpec ==
  /\ Spec
  /\ \A e \in Executor : WF_vars(Progress(e)) /\ WF_vars(Initialize(e))
  /\ \A p \in Process : WF_vars(Exit(p))

\* If processes stop dying, every attempt left running is settled: resumed to
\* an outcome, or recorded as ambiguous.
RunningSettles ==
  (<>[][\A p \in Process : ~Crash(p)]_vars) =>
    \A t \in Target : state[t].status = "running" ~> state[t].status # "running"
=============================================================================
