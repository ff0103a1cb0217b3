------------------------- MODULE AttemptStoreProofs -------------------------
(***************************************************************************)
(* Theorems about AttemptStore, for any targets, executors, processes and  *)
(* bounds.                                                                 *)
(***************************************************************************)
EXTENDS AttemptStore, FiniteSetTheorems, TLAPS

-----------------------------------------------------------------------------
(* Types.                                                                  *)

LEMMA InitType == Init => TypeOK
BY ConstantsOK DEF Init, TypeOK, Attempt, NoAttempt, NoPair, AttemptStatus,
                   RunStatus, Stage, Stamp

LEMMA Stamps == 0 \in Stamp /\ 1 \in Stamp /\ 2 \in Stamp
BY DEF Stamp

\* What a committed attempt record and the two writers of fences preserve.
LEMMA WriteStateType ==
  ASSUME TypeOK, NEW e \in Executor, NEW t \in Target, NEW s \in Attempt,
         WriteState(e, t, s)
  PROVE  /\ state' \in [Target -> Attempt]
         /\ insync' \in [Executor -> BOOLEAN]
         /\ mutated' \in [Executor -> BOOLEAN]
BY DEF TypeOK, WriteState

\* The records the operations write, field by field.
LEMMA AttemptUpdates ==
  ASSUME NEW s \in Attempt
  PROVE  /\ \A v \in AttemptStatus : [s EXCEPT !.status = v] \in Attempt
         /\ \A v \in Nat : [s EXCEPT !.attempt = v] \in Attempt
         /\ \A v \in Nat : [s EXCEPT !.next = v] \in Attempt
         /\ [s EXCEPT !.effect = TRUE] \in Attempt
         /\ \A v \in Executor \cup {NoOne} : [s EXCEPT !.owner = v] \in Attempt
         /\ [s EXCEPT !.resolved = TRUE] \in Attempt
         /\ \A v \in Stamp : [s EXCEPT !.pin = v] \in Attempt
BY DEF Attempt

LEMMA OutcomeType ==
  ASSUME TypeOK, NEW t \in Target, NEW v \in AttemptStatus
  PROVE  /\ state[t] \in Attempt
         /\ state[t].attempt + 1 \in Nat
         /\ [state[t] EXCEPT !.status = v, !.owner = NoOne] \in Attempt
<1>1. state[t] \in Attempt /\ state[t].attempt + 1 \in Nat
  BY DEF TypeOK, Attempt
<1> QED BY <1>1, AttemptUpdates

LEMMA WriteStatusType ==
  ASSUME TypeOK, NEW e \in Executor, NEW s \in RunStatus, WriteStatus(e, s)
  PROVE  /\ runStatus' \in RunStatus
         /\ insync' \in [Executor -> BOOLEAN]
         /\ mutated' \in [Executor -> BOOLEAN]
         /\ admitted' \in [Executor -> BOOLEAN]
BY DEF TypeOK, WriteStatus

LEMMA LeaseType ==
  ASSUME TypeOK, NEW e \in Executor, NEW t \in Target
  PROVE  /\ \A mine \in {"none", "held"} :
              Acquired(e, t, mine)
                \in [Executor -> [Target -> {"none", "held", "fenced"}]]
         /\ Released(e, t)
              \in [Executor -> [Target -> {"none", "held", "fenced"}]]
BY DEF TypeOK, Acquired, Released

LEMMA MoveType ==
  ASSUME TypeOK, NEW e \in Executor, NEW t \in Target, NEW s \in Stage,
         Move(e, t, s)
  PROVE  stage' \in [Executor -> [Target -> Stage]]
BY DEF TypeOK, Move

LEMMA StartNumberType ==
  ASSUME TypeOK, NEW t \in Target
  PROVE  StartNumber(t) \in Nat
BY DEF TypeOK, StartNumber, Attempt

LEMMA FinalStatusType ==
  ASSUME NEW e \in Executor
  PROVE  FinalStatus(e) \in RunStatus
BY DEF FinalStatus, RunStatus

LEMMA Restamped ==
  ASSUME NEW e, NEW t, WriteSidecar(e, t)
  PROVE  \E q \in Stamp : pair' = [pair EXCEPT ![t].sidecar = q]
<1> DEFINE q == IF state[t].pin = 1 THEN 2 ELSE 1
<1>1. q \in Stamp
  BY Stamps
<1>2. pair' = [pair EXCEPT ![t].sidecar = q]
  BY DEF WriteSidecar
<1> HIDE DEF q
<1> QED BY <1>1, <1>2

LEMMA NextType == TypeOK /\ [Next]_vars => TypeOK'
<1> SUFFICES ASSUME TypeOK, [Next]_vars PROVE TypeOK'
  OBVIOUS
<1> USE ConstantsOK
<1>0. CASE UNCHANGED vars
  BY <1>0 DEF TypeOK, vars
<1>1. ASSUME NEW e \in Executor, Initialize(e) PROVE TypeOK'
  BY <1>1 DEF Initialize, Goto, TypeOK, RunStatus
<1>2. ASSUME NEW e \in Executor, Admit(e) PROVE TypeOK'
  <2>1. CASE WriteStatus(e, "running")
    BY <1>2, <2>1, WriteStatusType DEF Admit, Goto, TypeOK, RunStatus
  <2>2. CASE ~WriteStatus(e, "running")
    BY <1>2, <2>2 DEF Admit, Goto, TypeOK
  <2> QED BY <2>1, <2>2
<1>3. ASSUME NEW e \in Executor, AdmitRefused(e) PROVE TypeOK'
  BY <1>3 DEF AdmitRefused, Goto, TypeOK, durable, fences
<1>4. ASSUME NEW e \in Executor, Conclude(e) PROVE TypeOK'
  <2>1. verdict' \in [Executor -> RunStatus]
    BY <1>4, FinalStatusType DEF Conclude, TypeOK
  <2> QED BY <1>4, <2>1 DEF Conclude, Goto, TypeOK, durable, fences
<1>5. ASSUME NEW e \in Executor, Publish(e) PROVE TypeOK'
  <2>1. CASE WriteStatus(e, verdict[e])
    BY <1>5, <2>1, WriteStatusType DEF Publish, Goto, TypeOK
  <2>2. CASE ~WriteStatus(e, verdict[e])
    BY <1>5, <2>2 DEF Publish, Goto, TypeOK, fences
  <2> QED BY <2>1, <2>2
<1>6. ASSUME NEW e \in Executor, NEW t \in Target, PrepareRun(e, t)
      PROVE  TypeOK'
  <2> DEFINE s == [NoAttempt EXCEPT !.status = "running",
                                    !.attempt = StartNumber(t), !.owner = e]
  <2>1. s \in Attempt
    BY StartNumberType, Stamps DEF Attempt, NoAttempt, AttemptStatus
  <2>2. WriteState(e, t, s)
    BY <1>6 DEF PrepareRun, StartAttempt
  <2>3. lease' \in [Executor -> [Target -> {"none", "held", "fenced"}]]
    BY <1>6, LeaseType DEF PrepareRun, StartAttempt
  <2>4. crossed' \in [Target -> Nat]
    BY <1>6 DEF PrepareRun, StartAttempt, TypeOK
  <2>5. stage' \in [Executor -> [Target -> Stage]]
    BY <1>6, MoveType DEF PrepareRun, Stage
  <2> HIDE DEF s
  <2> QED BY <1>6, <2>1, <2>2, <2>3, <2>4, <2>5, WriteStateType
          DEF PrepareRun, TypeOK
<1>7. ASSUME NEW e \in Executor, NEW t \in Target,
             \/ PreparePending(e, t) \/ PrepareDone(e, t) \/ PrepareRefused(e, t)
             \/ KeyError(e, t) \/ RecordRefused(e, t) \/ BadArtifact(e, t)
             \/ MaterializeError(e, t) \/ MarkCompletedRefused(e, t)
             \/ Skip(e, t) \/ Restore(e, t)
      PROVE  TypeOK'
  <2>1. PICK s \in Stage : Move(e, t, s)
    BY <1>7 DEF PreparePending, PrepareDone, PrepareRefused, KeyError,
                RecordRefused, BadArtifact, MaterializeError,
                MarkCompletedRefused, Skip, Restore, Stage
  <2>2. UNCHANGED <<durable, session, verdict, fences, lease, crossed>>
    BY <1>7 DEF PreparePending, PrepareDone, PrepareRefused, KeyError,
                RecordRefused, BadArtifact, MaterializeError,
                MarkCompletedRefused, Skip, Restore
  <2> QED BY <2>1, <2>2, MoveType DEF TypeOK, durable, fences
<1>8. ASSUME NEW e \in Executor, NEW t \in Target,
             NEW s \in Attempt, WriteState(e, t, s),
             NEW g \in Stage, Move(e, t, g),
             lease' \in {lease, Released(e, t), Acquired(e, t, "none")},
             crossed' \in [Target -> Nat],
             UNCHANGED <<runStatus, ledger, pair, session, verdict, admitted>>
      PROVE  TypeOK'
  <2>1. lease' \in [Executor -> [Target -> {"none", "held", "fenced"}]]
    BY <1>8, LeaseType, SMTT(30) DEF TypeOK
  <2>2. stage' \in [Executor -> [Target -> Stage]]
    BY <1>8, MoveType
  <2> QED BY <1>8, <2>1, <2>2, WriteStateType DEF TypeOK
<1> DEFINE Outcome(t, v) == [state[t] EXCEPT !.status = v, !.owner = NoOne]
<1>9. ASSUME NEW e \in Executor, NEW t \in Target, PrepareAmbiguous(e, t)
       PROVE  TypeOK'
  <2>1. Outcome(t, "ambiguous") \in Attempt
    BY OutcomeType, Zenon DEF AttemptStatus
  <2>2. WriteState(e, t, Outcome(t, "ambiguous"))
    BY <1>9 DEF PrepareAmbiguous
  <2>3. crossed' \in [Target -> Nat]
    BY <1>9 DEF PrepareAmbiguous, TypeOK
  <2> HIDE DEF Outcome
  <2> QED BY <1>8, <1>9, <2>1, <2>2, <2>3 DEF PrepareAmbiguous, Stage
<1>10. ASSUME NEW e \in Executor, NEW t \in Target, MarkSideEffect(e, t)
       PROVE  TypeOK'
  <2> DEFINE s == [state[t] EXCEPT !.effect = TRUE]
  <2>1. s \in Attempt
    BY AttemptUpdates, Zenon DEF TypeOK
  <2>2. WriteState(e, t, s)
    BY <1>10 DEF MarkSideEffect
  <2>3. crossed' \in [Target -> Nat]
    BY <1>10 DEF MarkSideEffect, TypeOK
  <2> HIDE DEF s
  <2> QED BY <1>8, <1>10, <2>1, <2>2, <2>3 DEF MarkSideEffect, Stage
<1>11. ASSUME NEW e \in Executor, NEW t \in Target, MarkCheckpoint(e, t)
       PROVE  TypeOK'
  <2>1. Outcome(t, "checkpoint_pending") \in Attempt
    BY OutcomeType, Zenon DEF AttemptStatus
  <2>2. WriteState(e, t, Outcome(t, "checkpoint_pending"))
    BY <1>11 DEF MarkCheckpoint
  <2>3. crossed' \in [Target -> Nat]
    BY <1>11 DEF MarkCheckpoint, TypeOK
  <2> HIDE DEF Outcome
  <2> QED BY <1>8, <1>11, <2>1, <2>2, <2>3 DEF MarkCheckpoint, Stage
<1>12. ASSUME NEW e \in Executor, NEW t \in Target, SaveCandidate(e, t)
       PROVE  TypeOK'
  <2>1. Outcome(t, "success_candidate") \in Attempt
    BY OutcomeType, Zenon DEF AttemptStatus
  <2>2. WriteState(e, t, Outcome(t, "success_candidate"))
    BY <1>12 DEF SaveCandidate
  <2>3. crossed' \in [Target -> Nat]
    BY <1>12 DEF SaveCandidate, TypeOK
  <2> HIDE DEF Outcome
  <2> QED BY <1>8, <1>12, <2>1, <2>2, <2>3, SMTT(30) DEF SaveCandidate, Stage
<1>13. ASSUME NEW e \in Executor, NEW t \in Target, RecordFailure(e, t)
       PROVE  TypeOK'
  <2> DEFINE again == [state[t] EXCEPT !.status = "retry_scheduled",
                                       !.next = state[t].attempt + 1,
                                       !.owner = NoOne]
  <2>1. Outcome(t, "failed") \in Attempt
    BY OutcomeType, Zenon DEF AttemptStatus
  <2>2. again \in Attempt
    BY OutcomeType, AttemptUpdates, Zenon DEF AttemptStatus
  <2>3. \/ WriteState(e, t, again) /\ Move(e, t, "pending")
        \/ WriteState(e, t, Outcome(t, "failed")) /\ Move(e, t, "error")
    BY <1>13 DEF RecordFailure
  <2>4. crossed' \in [Target -> Nat]
    BY <1>13 DEF RecordFailure, TypeOK
  <2> HIDE DEF Outcome, again
  <2> QED BY <1>8, <1>13, <2>1, <2>2, <2>3, <2>4, SMTT(30) DEF RecordFailure, Stage
<1>14. ASSUME NEW e \in Executor, NEW t \in Target,
             WriteArtifact(e, t) \/ WriteSidecar(e, t)
      PROVE  TypeOK'
  <2>1. PICK s \in Stage : Move(e, t, s)
    BY <1>14 DEF WriteArtifact, WriteSidecar, Stage
  <2>2. pair' \in [Target -> [artifact : BOOLEAN, sidecar : Stamp]]
    <3>1. pair[t] \in [artifact : BOOLEAN, sidecar : Stamp]
      BY DEF TypeOK
    <3>2. /\ [pair[t] EXCEPT !.artifact = TRUE]
               \in [artifact : BOOLEAN, sidecar : Stamp]
          /\ \A q \in Stamp : [pair[t] EXCEPT !.sidecar = q]
               \in [artifact : BOOLEAN, sidecar : Stamp]
      BY <3>1
    <3>3. \/ pair' = [pair EXCEPT ![t].artifact = TRUE]
          \/ \E q \in Stamp : pair' = [pair EXCEPT ![t].sidecar = q]
      BY <1>14, Restamped DEF WriteArtifact
    <3>4. pair \in [Target -> [artifact : BOOLEAN, sidecar : Stamp]]
      BY DEF TypeOK
    <3>5. CASE pair' = [pair EXCEPT ![t].artifact = TRUE]
      BY <3>2, <3>4, <3>5
    <3>6. CASE \E q \in Stamp : pair' = [pair EXCEPT ![t].sidecar = q]
      BY <3>4, <3>6
    <3> QED BY <3>3, <3>5, <3>6
  <2> QED BY <1>14, <2>1, <2>2, MoveType
          DEF WriteArtifact, WriteSidecar, TypeOK, fences
<1>15. ASSUME NEW e \in Executor, NEW t \in Target, MarkCompleted(e, t)
       PROVE  TypeOK'
  <2>1. stage' \in [Executor -> [Target -> Stage]]
    BY <1>15, MoveType DEF MarkCompleted, Stage
  <2>2. CASE UNCHANGED <<state, insync, mutated, lease>>
    BY <1>15, <2>1, <2>2 DEF MarkCompleted, TypeOK
  <2>3. CASE ~UNCHANGED <<state, insync, mutated, lease>>
    <3> DEFINE s == [state[t] EXCEPT !.status = "completed", !.owner = NoOne,
                                     !.pin = pair[t].sidecar]
    <3>1. s \in Attempt
      BY OutcomeType, AttemptUpdates, Zenon DEF TypeOK, AttemptStatus
    <3>2. WriteState(e, t, s) /\ lease' = Acquired(e, t, "none")
      BY <1>15, <2>3 DEF MarkCompleted
    <3>3. lease' \in [Executor -> [Target -> {"none", "held", "fenced"}]]
      BY <3>2, LeaseType
    <3> HIDE DEF s
    <3> QED BY <1>15, <2>1, <3>1, <3>2, <3>3, WriteStateType, SMTT(30)
            DEF MarkCompleted, TypeOK
  <2> QED BY <2>2, <2>3
<1>16. ASSUME NEW e \in Executor, NEW t \in Target,
              NEW action \in {"retry", "fail"}, Resolve(e, t, action)
       PROVE  TypeOK'
  <2> DEFINE again == [state[t] EXCEPT !.status = "retry_scheduled",
                                       !.next = state[t].attempt + 1,
                                       !.owner = NoOne, !.resolved = TRUE]
             ruled == [state[t] EXCEPT !.status = "failed", !.owner = NoOne,
                                       !.resolved = TRUE]
  <2>0. again \in Attempt /\ ruled \in Attempt
    BY OutcomeType, AttemptUpdates, Zenon DEF AttemptStatus
  <2>1. WriteState(e, t, again) \/ WriteState(e, t, ruled)
    BY <1>16 DEF Resolve
  <2>2. lease' \in [Executor -> [Target -> {"none", "held", "fenced"}]]
    BY <1>16, LeaseType DEF Resolve
  <2>3. verdict' \in [Executor -> RunStatus]
    BY <1>16 DEF Resolve, TypeOK, RunStatus
  <2>4. session' \in [Executor -> {"off", "bound", "open", "ruled",
                                   "closing", "closed"}]
    BY <1>16 DEF Resolve, TypeOK, Goto
  <2> HIDE DEF again, ruled
  <2> QED BY <1>16, <2>0, <2>1, <2>2, <2>3, <2>4, WriteStateType, SMTT(30)
          DEF Resolve, TypeOK
<1>17. ASSUME NEW e \in Executor, NEW t \in Target,
              NEW decision \in {"retry", "fail"}, Recover(e, t, decision)
       PROVE  TypeOK'
  <2> state[t] \in Attempt
    BY DEF TypeOK
  <2>1. ledger' \subseteq Target \X Nat \X {"fail", "retry"}
    BY <1>17 DEF Recover, TypeOK, Attempt
  <2>2. session' \in [Executor -> {"off", "bound", "open", "ruled",
                                   "closing", "closed"}]
    BY <1>17 DEF Recover, TypeOK, Goto
  <2>3. CASE decision = "fail"
    BY <1>17, <2>1, <2>2, <2>3 DEF Recover, TypeOK
  <2>4. CASE decision = "retry"
    <3> DEFINE s == [state[t] EXCEPT !.status = "retry_scheduled",
                                     !.attempt = state[t].attempt + 1,
                                     !.next = state[t].attempt + 1,
                                     !.owner = NoOne]
    <3>0. s \in Attempt
      BY OutcomeType, AttemptUpdates, Zenon DEF AttemptStatus
    <3>1. WriteState(e, t, s)
      BY <1>17, <2>4 DEF Recover
    <3>2. verdict' \in [Executor -> RunStatus]
      BY <1>17, <2>4 DEF Recover, TypeOK, RunStatus
    <3> HIDE DEF s
    <3> QED BY <1>17, <2>1, <2>2, <3>0, <3>1, <3>2, WriteStateType, SMTT(30)
            DEF Recover, TypeOK
  <2> QED BY <2>3, <2>4
<1>18. ASSUME NEW p \in Process, Forget(p) PROVE TypeOK'
  BY <1>18 DEF Forget, TypeOK, durable, RunStatus, Stage
<1> QED
  BY <1>0, <1>1, <1>2, <1>3, <1>4, <1>5, <1>6, <1>7, <1>8, <1>14, <1>15, <1>16,
     <1>17, <1>18, <1>9, <1>10, <1>11, <1>12, <1>13 DEF Next, Progress, Operator, Exit, Crash

\* Every reachable state is of the declared shape.
THEOREM TypeCorrect == Spec => []TypeOK
BY InitType, NextType, PTL DEF Spec

-----------------------------------------------------------------------------
(* The steps, by what they do to the attempt records, leases and stages.   *)

\* a step of a call that leaves every target as it is
Aside == UNCHANGED <<state, pair, lease, stage, crossed>>

\* an attempt starts, or one that had no effect yet starts over
Started(e, t) ==
  /\ session[e] = "open" /\ session' = session
  /\ Startable(t)
  /\ stage[e][t] = "waiting" /\ Move(e, t, "run")
  /\ CanAcquire(e, t, FALSE)
  /\ lease' = Acquired(e, t, "held")
  /\ \E s \in Attempt :
       /\ s.status = "running" /\ s.owner = e /\ s.effect = FALSE
       /\ s.attempt = StartNumber(t)
       /\ state' = [state EXCEPT ![t] = s]
  /\ crossed' = [crossed EXCEPT ![t] =
                   IF state[t].status = "running" THEN @ ELSE 0]
  /\ UNCHANGED <<ledger, pair>>

\* e gets on with t, or gives it up, and records nothing about it
Unrecorded(e, t, s) ==
  /\ session[e] = "open" /\ session' = session
  /\ stage[e][t] \in {"waiting"} \cup Busy
  /\ Move(e, t, s)
  /\ s = "candidate" => state[t].status = "success_candidate"
  /\ s = "restored" => state[t].status = "completed"
  /\ s = "pending" => state[t].status = "retry_scheduled"
  /\ s = "success" => stage[e][t] \in {"paired", "restored"}
  /\ s = "skipped" => \E d \in Deps[t] : stage[e][d] \in Parked
  /\ s = "torn" => stage[e][t] = "candidate"
  /\ s = "paired" => stage[e][t] = "torn"
  /\ \/ s \notin {"torn", "paired"} /\ UNCHANGED pair
     \/ s = "torn" /\ pair' = [pair EXCEPT ![t].artifact = TRUE]
     \/ s = "paired" /\ \E q \in Stamp : pair' = [pair EXCEPT ![t].sidecar = q]
  /\ UNCHANGED <<ledger, state, lease, crossed>>

Silent == {"pending", "candidate", "torn", "paired", "restored", "success",
           "skipped", "error"}

\* the owner records the outcome of a running attempt
Outcome(e, t) ==
  /\ Executing(e, t) /\ session' = session
  /\ state[t].status = "running" /\ Owns(e, t)
  /\ \E s \in Attempt :
       /\ s.status \in {"checkpoint_pending", "retry_scheduled", "failed",
                        "success_candidate"}
       /\ s.owner = NoOne
       /\ s.attempt = state[t].attempt
       /\ s.status = "retry_scheduled" => s.next = s.attempt + 1
       /\ state' = [state EXCEPT ![t] = s]
       /\ \E g \in {"checkpoint", "pending", "candidate", "error"} :
            /\ Move(e, t, g)
            /\ g = "candidate" => s.status = "success_candidate"
            /\ g = "pending" => s.status = "retry_scheduled"
  /\ lease' = Released(e, t)
  /\ UNCHANGED <<ledger, pair, crossed>>

\* a fenced takeover: an ambiguity recorded, a verdict, or a completion
Takeover(e, t) ==
  /\ CanAcquire(e, t, TRUE)
  /\ lease' = Acquired(e, t, "none")
  /\ \E s \in Attempt :
       /\ \/ /\ Uncertain(t) /\ s.status = "ambiguous"
             /\ s.attempt = state[t].attempt
          \/ /\ state[t].status = "ambiguous" \/ Uncertain(t)
             /\ s.attempt = state[t].attempt
             /\ \/ s.status = "failed"
                \/ s.status = "retry_scheduled" /\ s.next = s.attempt + 1
          \/ /\ state[t].status = "success_candidate"
             /\ s.attempt = state[t].attempt
             /\ s.status = "completed"
             /\ stage[e][t] = "paired" /\ s.pin = pair[t].sidecar
       /\ s.owner = NoOne
       /\ session[e] = "off" =>
            s.resolved /\ s.status \in {"failed", "retry_scheduled"}
       /\ state' = [state EXCEPT ![t] = s]
  /\ \/ session[e] = "off" /\ Goto(e, "ruled") /\ UNCHANGED stage
     \/ /\ session[e] = "open" /\ session' = session
        /\ stage[e][t] \in {"waiting", "paired"}
        /\ state[t].status = "running" => stage[e][t] = "waiting"
        /\ \E s \in {"error", "success"} : Move(e, t, s)
  /\ UNCHANGED <<ledger, pair, crossed>>

\* an operator's first decision on a failed attempt
Decided(t, d) ==
  /\ state[t].status = "failed"
  /\ \A c \in ledger : ~(c[1] = t /\ c[2] = state[t].attempt)
  /\ ledger' = ledger \cup {<<t, state[t].attempt, d>>}

Declined(e, t) ==
  /\ session[e] = "off" /\ Goto(e, "closed")
  /\ Decided(t, "fail")
  /\ Aside

Retried(e, t) ==
  /\ session[e] = "off" /\ Goto(e, "ruled")
  /\ Decided(t, "retry")
  /\ runStatus = "failed" /\ state[t].status = "failed"
  /\ \E s \in Attempt :
       /\ s.status = "retry_scheduled" /\ s.owner = NoOne
       /\ s.attempt = state[t].attempt + 1 /\ s.next = s.attempt
       /\ state' = [state EXCEPT ![t] = s]
  /\ UNCHANGED <<pair, lease, stage, crossed>>

\* the call itself moves on
Onward(e) ==
  /\ Aside
  /\ \E s \in {"bound", "open", "closing", "closed"} :
       /\ Goto(e, s)
       /\ s = "bound" => session[e] = "off"
       /\ s = "open" => runStatus' \in {"running", "completed"}
  /\ UNCHANGED ledger

StepKind ==
  \/ UNCHANGED <<session, ledger, state, pair, lease, stage, crossed>>
  \/ \E e \in Executor : Onward(e)
  \/ \E e \in Executor, t \in Target :
       \/ Started(e, t) \/ MarkSideEffect(e, t)
       \/ \E s \in Silent : Unrecorded(e, t, s)
       \/ Outcome(e, t) \/ Takeover(e, t) \/ Declined(e, t) \/ Retried(e, t)
  \/ \E p \in Process : Forget(p)

\* Every step is of one of these kinds.
LEMMA Kinds == TypeOK /\ [Next]_vars => StepKind
<1> SUFFICES ASSUME TypeOK, [Next]_vars PROVE StepKind
  OBVIOUS
<1> DEFINE Ended(t, v) == [state[t] EXCEPT !.status = v, !.owner = NoOne]
           Again(t) == [state[t] EXCEPT !.status = "retry_scheduled",
                                        !.next = state[t].attempt + 1,
                                        !.owner = NoOne]
<1>0. CASE UNCHANGED vars
  BY <1>0 DEF StepKind, vars
<1>1. ASSUME NEW e \in Executor,
             Initialize(e) \/ Admit(e) \/ AdmitRefused(e) \/ Publish(e)
      PROVE  StepKind
  <2> Onward(e)
    BY <1>1 DEF Onward, Aside, Initialize, Admit, AdmitRefused, Publish, Goto,
                WriteStatus, durable
  <2> QED BY DEF StepKind
<1>2. ASSUME NEW e \in Executor, Conclude(e) PROVE StepKind
  <2> Onward(e)
    BY <1>2 DEF Onward, Aside, Conclude, durable
  <2> QED BY DEF StepKind
<1>3. ASSUME NEW e \in Executor, NEW t \in Target, PrepareRun(e, t)
      PROVE  StepKind
  <2> DEFINE s == [NoAttempt EXCEPT !.status = "running",
                                    !.attempt = StartNumber(t), !.owner = e]
  <2>1. /\ s \in Attempt
        /\ s.status = "running" /\ s.owner = e /\ s.effect = FALSE
        /\ s.attempt = StartNumber(t)
    BY StartNumberType, Stamps DEF Attempt, NoAttempt, AttemptStatus
  <2>2. state' = [state EXCEPT ![t] = s]
    BY <1>3 DEF PrepareRun, StartAttempt, WriteState
  <2> HIDE DEF s
  <2>3. Started(e, t)
    BY <1>3, <2>1, <2>2 DEF PrepareRun, Submitted, StartAttempt, Started
  <2> QED BY <2>3 DEF StepKind
<1>3a. ASSUME NEW e \in Executor, NEW t \in Target, MarkSideEffect(e, t)
       PROVE  StepKind
  BY <1>3a DEF StepKind
<1>4. ASSUME NEW e \in Executor, NEW t \in Target,
             \/ PreparePending(e, t) \/ PrepareDone(e, t)
             \/ Skip(e, t) \/ Restore(e, t)
      PROVE  StepKind
  <2> PICK s \in {"pending", "candidate", "restored", "skipped", "success"} :
        Unrecorded(e, t, s)
    BY <1>4 DEF Unrecorded, PreparePending, PrepareDone, Skip, Restore,
                Submitted, Busy, durable
  <2> QED BY DEF StepKind, Silent
<1>5. ASSUME NEW e \in Executor, NEW t \in Target,
             \/ PrepareRefused(e, t) \/ KeyError(e, t) \/ RecordRefused(e, t)
             \/ BadArtifact(e, t) \/ MaterializeError(e, t)
             \/ MarkCompletedRefused(e, t)
      PROVE  StepKind
  <2> Unrecorded(e, t, "error")
    BY <1>5 DEF Unrecorded, PrepareRefused, KeyError, RecordRefused,
                BadArtifact, MaterializeError, MarkCompletedRefused, Submitted,
                Executing, Busy, durable
  <2> QED BY DEF StepKind, Silent
<1>5a. ASSUME NEW e \in Executor, NEW t \in Target,
              WriteArtifact(e, t) \/ WriteSidecar(e, t)
       PROVE  StepKind
  <2>1. CASE WriteArtifact(e, t)
    <3> Unrecorded(e, t, "torn")
      BY <2>1 DEF Unrecorded, WriteArtifact, Busy
    <3> QED BY DEF StepKind, Silent
  <2>2. CASE WriteSidecar(e, t)
    <3>1. \E q \in Stamp : pair' = [pair EXCEPT ![t].sidecar = q]
      BY <2>2, Restamped
    <3> Unrecorded(e, t, "paired")
      BY <2>2, <3>1 DEF Unrecorded, WriteSidecar, Busy
    <3> QED BY DEF StepKind, Silent
  <2> QED BY <1>5a, <2>1, <2>2
<1>6. ASSUME NEW e \in Executor, NEW t \in Target, PrepareAmbiguous(e, t)
      PROVE  StepKind
  <2>1. /\ Ended(t, "ambiguous") \in Attempt
        /\ Ended(t, "ambiguous").status = "ambiguous"
        /\ Ended(t, "ambiguous").owner = NoOne
        /\ Ended(t, "ambiguous").attempt = state[t].attempt
    <3> state[t] \in Attempt
      BY OutcomeType, Zenon DEF AttemptStatus
    <3>1. Ended(t, "ambiguous") \in Attempt
      BY OutcomeType, Zenon DEF AttemptStatus
    <3> QED BY <3>1 DEF Attempt
  <2>2. state' = [state EXCEPT ![t] = Ended(t, "ambiguous")]
    BY <1>6 DEF PrepareAmbiguous, WriteState
  <2> HIDE DEF Ended
  <2>3. Takeover(e, t)
    BY <1>6, <2>1, <2>2, ZenonT(30) DEF Takeover, PrepareAmbiguous, Submitted, Stage
  <2> QED BY <2>3 DEF StepKind
<1>7. ASSUME NEW e \in Executor, NEW t \in Target,
             NEW v \in {"checkpoint_pending", "success_candidate", "failed"},
             WriteState(e, t, Ended(t, v)), MayRecord(e, t), Executing(e, t),
             UNCHANGED <<session, ledger, pair, crossed>>,
             lease' = Released(e, t),
             NEW g \in {"checkpoint", "candidate", "error"}, Move(e, t, g),
             g = "candidate" => v = "success_candidate"
      PROVE  StepKind
  <2>1. /\ Ended(t, v) \in Attempt
        /\ Ended(t, v).status = v
        /\ Ended(t, v).owner = NoOne
        /\ Ended(t, v).attempt = state[t].attempt
    <3> state[t] \in Attempt
      BY OutcomeType, Zenon DEF AttemptStatus
    <3>1. Ended(t, v) \in Attempt
      BY OutcomeType, Zenon DEF AttemptStatus
    <3> QED BY <3>1 DEF Attempt
  <2>2. state' = [state EXCEPT ![t] = Ended(t, v)]
    BY <1>7 DEF WriteState
  <2> HIDE DEF Ended
  <2>3. Outcome(e, t)
    BY <1>7, <2>1, <2>2, ZenonT(30) DEF Outcome, MayRecord, Executing, Stage
  <2> QED BY <2>3 DEF StepKind
<1>8. ASSUME NEW e \in Executor, NEW t \in Target,
             MarkCheckpoint(e, t) \/ SaveCandidate(e, t)
      PROVE  StepKind
  BY <1>7, <1>8, Zenon DEF MarkCheckpoint, SaveCandidate
<1>9. ASSUME NEW e \in Executor, NEW t \in Target, RecordFailure(e, t)
      PROVE  StepKind
  <2>1. CASE WriteState(e, t, Ended(t, "failed")) /\ Move(e, t, "error")
    BY <1>7, <1>9, <2>1, Zenon DEF RecordFailure
  <2>2. CASE WriteState(e, t, Again(t)) /\ Move(e, t, "pending")
    <3>1. /\ Again(t) \in Attempt
          /\ Again(t).status = "retry_scheduled"
          /\ Again(t).owner = NoOne
          /\ Again(t).attempt = state[t].attempt
          /\ Again(t).next = state[t].attempt + 1
      <4> state[t] \in Attempt
        BY OutcomeType DEF AttemptStatus
      <4>1. Again(t) \in Attempt
        BY OutcomeType, AttemptUpdates, Zenon DEF AttemptStatus
      <4> QED BY <4>1, SMTT(30) DEF Attempt
    <3>2. state' = [state EXCEPT ![t] = Again(t)]
      BY <2>2 DEF WriteState
    <3> HIDE DEF Again
    <3>3. /\ Executing(e, t) /\ UNCHANGED <<session, ledger, pair, crossed>>
          /\ state[t].status = "running" /\ Owns(e, t)
          /\ lease' = Released(e, t)
      BY <1>9 DEF RecordFailure, MayRecord
    <3>4. Outcome(e, t)
      BY <2>2, <3>1, <3>2, <3>3 DEF Outcome
    <3> QED BY <3>4 DEF StepKind
  <2> QED BY <1>9, <2>1, <2>2 DEF RecordFailure
<1>10. ASSUME NEW e \in Executor, NEW t \in Target, MarkCompleted(e, t)
       PROVE  StepKind
  <2>1. CASE UNCHANGED <<state, lease>>
    <3> Unrecorded(e, t, "success")
      BY <1>10, <2>1 DEF Unrecorded, MarkCompleted, Busy
    <3> QED BY DEF StepKind, Silent
  <2>2. CASE ~UNCHANGED <<state, lease>>
    <3> DEFINE s == [state[t] EXCEPT !.status = "completed", !.owner = NoOne,
                                     !.pin = pair[t].sidecar]
    <3>1. /\ s \in Attempt
          /\ s.status = "completed"
          /\ s.owner = NoOne
          /\ s.attempt = state[t].attempt
          /\ s.pin = pair[t].sidecar
      <4> state[t] \in Attempt
        BY OutcomeType DEF AttemptStatus
      <4>1. s \in Attempt
        BY OutcomeType, AttemptUpdates, Zenon DEF TypeOK, AttemptStatus
      <4> QED BY <4>1 DEF Attempt
    <3>2. state' = [state EXCEPT ![t] = s]
      BY <1>10, <2>2 DEF MarkCompleted, WriteState
    <3> HIDE DEF s
    <3>3. Takeover(e, t)
      BY <1>10, <2>2, <3>1, <3>2, ZenonT(30) DEF Takeover, MarkCompleted, Stage
    <3> QED BY <3>3 DEF StepKind
  <2> QED BY <2>1, <2>2
<1>11. ASSUME NEW e \in Executor, NEW t \in Target,
              NEW action \in {"retry", "fail"}, Resolve(e, t, action)
       PROVE  StepKind
  <2> DEFINE again == [state[t] EXCEPT !.status = "retry_scheduled",
                                       !.next = state[t].attempt + 1,
                                       !.owner = NoOne, !.resolved = TRUE]
             ruled == [state[t] EXCEPT !.status = "failed", !.owner = NoOne,
                                       !.resolved = TRUE]
  <2>1. /\ again \in Attempt
        /\ again.status = "retry_scheduled"
        /\ again.owner = NoOne
        /\ again.attempt = state[t].attempt
        /\ again.next = state[t].attempt + 1
        /\ again.resolved
    <3> state[t] \in Attempt
      BY OutcomeType, Zenon DEF AttemptStatus
    <3>1. again \in Attempt
      BY OutcomeType, AttemptUpdates, Zenon DEF AttemptStatus
    <3> QED BY <3>1 DEF Attempt
  <2>2. /\ ruled \in Attempt
        /\ ruled.status = "failed"
        /\ ruled.owner = NoOne
        /\ ruled.attempt = state[t].attempt
        /\ ruled.resolved
    <3> state[t] \in Attempt
      BY OutcomeType DEF AttemptStatus
    <3>1. ruled \in Attempt
      BY OutcomeType, AttemptUpdates, Zenon DEF AttemptStatus
    <3> QED BY <3>1 DEF Attempt
  <2>3. \/ state' = [state EXCEPT ![t] = again]
        \/ state' = [state EXCEPT ![t] = ruled]
    BY <1>11 DEF Resolve, WriteState
  <2> HIDE DEF again, ruled
  <2>4. Takeover(e, t)
    BY <1>11, <2>1, <2>2, <2>3 DEF Takeover, Resolve
  <2> QED BY <2>4 DEF StepKind
<1>12. ASSUME NEW e \in Executor, NEW t \in Target,
              NEW decision \in {"retry", "fail"}, Recover(e, t, decision)
       PROVE  StepKind
  <2>1. CASE decision = "fail"
    <3> Declined(e, t)
      BY <1>12, <2>1 DEF Declined, Decided, Aside, Recover
    <3> QED BY DEF StepKind
  <2>2. CASE decision = "retry"
    <3> DEFINE s == [state[t] EXCEPT !.status = "retry_scheduled",
                                     !.attempt = state[t].attempt + 1,
                                     !.next = state[t].attempt + 1,
                                     !.owner = NoOne]
    <3>1. /\ s \in Attempt
          /\ s.status = "retry_scheduled"
          /\ s.owner = NoOne
          /\ s.attempt = state[t].attempt + 1
          /\ s.next = s.attempt
      <4> state[t] \in Attempt
        BY OutcomeType DEF AttemptStatus
      <4>1. s \in Attempt
        BY OutcomeType, AttemptUpdates, Zenon DEF AttemptStatus
      <4> QED BY <4>1 DEF Attempt
    <3>2. state' = [state EXCEPT ![t] = s]
      BY <1>12, <2>2 DEF Recover, WriteState
    <3> HIDE DEF s
    <3>3. Retried(e, t)
      BY <1>12, <2>2, <3>1, <3>2 DEF Retried, Decided, Recover
    <3> QED BY <3>3 DEF StepKind
  <2> QED BY <2>1, <2>2
<1>13. ASSUME NEW p \in Process, Forget(p) PROVE StepKind
  BY <1>13 DEF StepKind
<1> QED
  BY <1>0, <1>1, <1>2, <1>3, <1>3a, <1>4, <1>5, <1>5a, <1>6, <1>8, <1>9, <1>10, <1>11,
     <1>12, <1>13 DEF Next, Progress, Operator, Exit, Crash

\* Which of them write records.
LEMMA Writers ==
  StepKind =>
    \/ UNCHANGED state
    \/ \E e \in Executor, t \in Target :
         \/ Started(e, t) \/ MarkSideEffect(e, t) \/ Outcome(e, t)
         \/ Takeover(e, t) \/ Retried(e, t)
<1>1. ASSUME NEW e \in Executor, NEW t \in Target, NEW s \in Silent,
             Unrecorded(e, t, s)
      PROVE  UNCHANGED state
  BY <1>1 DEF Unrecorded
<1>2. ASSUME NEW e \in Executor, NEW t \in Target, Declined(e, t)
      PROVE  UNCHANGED state
  BY <1>2 DEF Declined, Aside
<1>3. ASSUME NEW e \in Executor, Onward(e) PROVE UNCHANGED state
  BY <1>3 DEF Onward, Aside
<1>4. ASSUME NEW p \in Process, Forget(p) PROVE UNCHANGED state
  BY <1>4 DEF Forget, durable
<1> QED BY <1>1, <1>2, <1>3, <1>4 DEF StepKind

-----------------------------------------------------------------------------
(* Ownership.  LeaseExclusive and EffectRecorded are not inductive: a      *)
(* fenced store must not come back as owner, and a store that has not yet  *)
(* begun must hold nothing.                                                *)

RunningOwned ==
  \A t \in Target : state[t].status = "running" <=> state[t].owner # NoOne

OwnerNotFenced ==
  \A e \in Executor, t \in Target :
    state[t].owner = e => lease[e][t] # "fenced"

NotBegun ==
  \A e \in Executor, t \in Target :
    session[e] \in {"off", "bound", "ruled"} =>
      lease[e][t] = "none" /\ stage[e][t] = "waiting"

\* A live executor inside a node works on its own running attempt.
Live ==
  \A e \in Executor, t \in Target :
    lease[e][t] = "held" /\ stage[e][t] \in {"run", "effect"} =>
      /\ state[t].status = "running" /\ state[t].owner = e
      /\ state[t].effect <=> stage[e][t] = "effect"

Uncrossed ==
  \A t \in Target :
    state[t].status = "running" /\ ~state[t].effect => crossed[t] = 0

Ownership ==
  /\ TypeOK /\ RunningOwned /\ OwnerNotFenced /\ NotBegun
  /\ LeaseExclusive /\ Live /\ Uncrossed /\ CrossedOnce

LEMMA InitOwnership == Init => Ownership
BY InitType, ConstantsOK
   DEF Init, Ownership, RunningOwned, OwnerNotFenced, NotBegun, LeaseExclusive,
       Live, Uncrossed, CrossedOnce, NoAttempt

LEMMA NextOwnership == Ownership /\ [Next]_vars => Ownership'
<1> SUFFICES ASSUME Ownership, [Next]_vars PROVE Ownership'
  OBVIOUS
<1> USE ConstantsOK
<1>t. TypeOK /\ TypeOK'
  BY NextType DEF Ownership
<1>k. StepKind
  BY <1>t, Kinds
<1> DEFINE Rest == /\ RunningOwned /\ OwnerNotFenced /\ NotBegun
                   /\ LeaseExclusive /\ Live /\ Uncrossed /\ CrossedOnce
<1>1. CASE UNCHANGED <<session, state, lease, stage, crossed>>
  BY <1>1, <1>t DEF Ownership, RunningOwned, OwnerNotFenced, NotBegun,
              LeaseExclusive, Live, Uncrossed, CrossedOnce
<1>2. ASSUME NEW e \in Executor, Onward(e) PROVE Rest'
  BY <1>2, <1>t DEF Onward, Aside, Goto, Ownership, RunningOwned, OwnerNotFenced,
              NotBegun, LeaseExclusive, Live, Uncrossed, CrossedOnce, TypeOK
<1>3. ASSUME NEW e \in Executor, NEW t \in Target, Started(e, t) PROVE Rest'
  <2> USE <1>t, <1>3 DEF Ownership, Started, Move
  <2>1. RunningOwned'
    BY DEF RunningOwned, TypeOK
  <2>2. OwnerNotFenced'
    BY DEF OwnerNotFenced, Acquired, CanAcquire, TypeOK
  <2>3. NotBegun'
    BY DEF NotBegun, Acquired, TypeOK
  <2>4. LeaseExclusive'
    BY DEF LeaseExclusive, OwnerNotFenced, Acquired, CanAcquire, TypeOK
  <2>5. Live'
    BY DEF Live, Acquired, CanAcquire, TypeOK
  <2>6. Uncrossed' /\ CrossedOnce'
    BY DEF Startable, Uncrossed, CrossedOnce, TypeOK
  <2> QED BY <2>1, <2>2, <2>3, <2>4, <2>5, <2>6
<1>4. ASSUME NEW e \in Executor, NEW t \in Target, MarkSideEffect(e, t)
      PROVE  Rest'
  <2> USE <1>t, <1>4 DEF Ownership, MarkSideEffect, MayRecord, Owns, Executing,
                         WriteState, Move
  <2>1. RunningOwned'
    BY DEF RunningOwned, TypeOK, Attempt
  <2>2. OwnerNotFenced' /\ LeaseExclusive'
    BY DEF OwnerNotFenced, LeaseExclusive, TypeOK, Attempt
  <2>3. NotBegun'
    BY DEF NotBegun, TypeOK
  <2>4. Live'
    BY DEF Live, LeaseExclusive, TypeOK, Attempt
  <2>5. state[t].status = "running" /\ ~state[t].effect /\ crossed[t] = 0
    BY DEF Live, Uncrossed
  <2>6. Uncrossed' /\ CrossedOnce'
    BY <2>5 DEF Uncrossed, CrossedOnce, TypeOK, Attempt
  <2> QED BY <2>1, <2>2, <2>3, <2>4, <2>6
<1>5. ASSUME NEW e \in Executor, NEW t \in Target, NEW s \in Silent,
             Unrecorded(e, t, s)
      PROVE  Rest'
  BY <1>5, <1>t DEF Unrecorded, Silent, Move, Ownership, RunningOwned, OwnerNotFenced,
              NotBegun, LeaseExclusive, Live, Uncrossed, CrossedOnce, TypeOK
<1>6. ASSUME NEW e \in Executor, NEW t \in Target, Outcome(e, t) PROVE Rest'
  <2> USE <1>t, <1>6 DEF Ownership, Outcome, Executing, Owns, Move, Released
  <2>1. RunningOwned'
    BY DEF RunningOwned, TypeOK
  <2>2. OwnerNotFenced' /\ LeaseExclusive'
    BY DEF OwnerNotFenced, LeaseExclusive, TypeOK
  <2>3. NotBegun'
    BY DEF NotBegun, TypeOK
  <2>4. Live'
    BY DEF Live, LeaseExclusive, TypeOK
  <2>5. Uncrossed' /\ CrossedOnce'
    BY DEF Uncrossed, CrossedOnce, TypeOK
  <2> QED BY <2>1, <2>2, <2>3, <2>4, <2>5
<1>7. ASSUME NEW e \in Executor, NEW t \in Target, Takeover(e, t) PROVE Rest'
  <2> USE <1>t, <1>7 DEF Ownership
  <2>1. RunningOwned'
    BY DEF Takeover, RunningOwned, TypeOK
  <2>2. OwnerNotFenced' /\ LeaseExclusive'
    BY DEF Takeover, Acquired, OwnerNotFenced, LeaseExclusive, TypeOK
  <2>3. NotBegun'
    BY DEF Takeover, Acquired, Goto, Move, NotBegun, TypeOK
  <2>4. Live'
    BY DEF Takeover, Acquired, CanAcquire, Move, Live, RunningOwned, NotBegun, TypeOK
  <2>5. Uncrossed' /\ CrossedOnce'
    BY DEF Takeover, Uncrossed, CrossedOnce, TypeOK
  <2> QED BY <2>1, <2>2, <2>3, <2>4, <2>5
<1>8. ASSUME NEW e \in Executor, NEW t \in Target,
             Declined(e, t) \/ Retried(e, t)
      PROVE  Rest'
  <2>1. CASE Declined(e, t)
    BY <1>t, <2>1 DEF Declined, Aside, Goto, Ownership, RunningOwned,
              OwnerNotFenced, NotBegun, LeaseExclusive, Live, Uncrossed,
              CrossedOnce, TypeOK
  <2>2. CASE Retried(e, t)
    BY <1>t, <2>2 DEF Retried, Decided, Goto, Ownership, RunningOwned,
              OwnerNotFenced, NotBegun, LeaseExclusive, Live, Uncrossed,
              CrossedOnce, TypeOK
  <2> QED BY <1>8, <2>1, <2>2
<1>9. ASSUME NEW p \in Process, Forget(p) PROVE Rest'
  BY <1>9, <1>t DEF Forget, durable, Ownership, RunningOwned, OwnerNotFenced,
              NotBegun, LeaseExclusive, Live, Uncrossed, CrossedOnce, TypeOK
<1> QED
  BY <1>t, <1>k, <1>1, <1>2, <1>3, <1>4, <1>5, <1>6, <1>7, <1>8, <1>9
     DEF StepKind, Ownership

LEMMA OwnershipInvariant == Spec => []Ownership
BY InitOwnership, NextOwnership, PTL DEF Spec

\* However executors, processes and operators interleave, at most one holds
\* the flock of a target.
THEOREM LeaseSafe == Spec => []LeaseExclusive
<1>1. Ownership => LeaseExclusive
  BY DEF Ownership
<1> QED BY <1>1, OwnershipInvariant, PTL

\* No interleaving and no crash makes a second execution cross the effect
\* boundary of an attempt that has not been recorded as over.
THEOREM CrossedAtMostOnce == Spec => []CrossedOnce
<1>1. Ownership => CrossedOnce
  BY DEF Ownership
<1> QED BY <1>1, OwnershipInvariant, PTL

\* Whoever is past the boundary and still holds its lease is on record as
\* being there.
THEOREM EffectOnRecord == Spec => []EffectRecorded
<1>1. Ownership => EffectRecorded
  BY DEF Ownership, Live, EffectRecorded, Uncertain, TypeOK
<1> QED BY <1>1, OwnershipInvariant, PTL

-----------------------------------------------------------------------------
(* What a step may do to one target's record.                              *)

\* A running attempt with a live owner changes only by its owner's step, or
\* after the owner was fenced off.
THEOREM OwnersRule == Spec => OwnerRules
<1> DEFINE A == \A t \in Target : \A e \in Executor :
                  state[t].status = "running" /\ Owns(e, t)
                    /\ state'[t] # state[t] =>
                      \/ stage'[e][t] # stage[e][t]
                      \/ lease'[e][t] = "fenced"
<1>1. ASSUME Ownership, [Next]_vars PROVE A
  <2> SUFFICES ASSUME NEW t \in Target, NEW e \in Executor,
                      state[t].status = "running", Owns(e, t),
                      state'[t] # state[t], stage'[e][t] = stage[e][t]
               PROVE  lease'[e][t] = "fenced"
    OBVIOUS
  <2>t. TypeOK /\ TypeOK'
    BY <1>1, NextType DEF Ownership
  <2>k. StepKind
    BY <1>1, <2>t, Kinds
  <2>1. ASSUME NEW f \in Executor, NEW u \in Target, Started(f, u)
        PROVE  lease'[e][t] = "fenced"
    BY <2>1, <2>t DEF Started, CanAcquire, Owns, Move, TypeOK
  <2>2. ASSUME NEW f \in Executor, NEW u \in Target, MarkSideEffect(f, u)
        PROVE  lease'[e][t] = "fenced"
    BY <2>2, <2>t DEF MarkSideEffect, MayRecord, Owns, WriteState, Move, TypeOK
  <2>3. ASSUME NEW f \in Executor, NEW u \in Target, Outcome(f, u)
        PROVE  lease'[e][t] = "fenced"
    BY <2>3, <2>t DEF Outcome, Owns, Executing, Move, TypeOK
  <2>4. ASSUME NEW f \in Executor, NEW u \in Target, Takeover(f, u)
        PROVE  lease'[e][t] = "fenced"
    BY <1>1, <2>4, <2>t
       DEF Takeover, Acquired, CanAcquire, Owns, Move, Ownership, NotBegun, TypeOK
  <2>5. ASSUME NEW f \in Executor, NEW u \in Target, Retried(f, u)
        PROVE  lease'[e][t] = "fenced"
    BY <2>5, <2>t DEF Retried, Decided, TypeOK
  <2> QED BY <2>k, <2>1, <2>2, <2>3, <2>4, <2>5, Writers
<1>2. Ownership /\ [Next]_vars => [A]_vars
  BY <1>1
<1> QED BY <1>2, OwnershipInvariant, PTL DEF Spec, OwnerRules

-----------------------------------------------------------------------------
(***************************************************************************)
(* What becomes of the durable records: AttemptStore implements            *)
(* AttemptLifecycle, for any targets, executors, processes and bounds.     *)
(***************************************************************************)
\* An attempt past its effect boundary is never started again as it stands.
THEOREM NoReplay == Spec => NoSilentReplay
<1> DEFINE A == \A t \in Target :
                  state[t].effect /\ state[t].status \in {"running", "ambiguous"}
                    /\ state'[t] # state[t] =>
                  \/ state'[t].status # "running"
                  \/ state'[t].effect /\ state'[t].owner = state[t].owner
<1>1. ASSUME TypeOK, [Next]_vars PROVE A
  <2>k. StepKind
    BY <1>1, Kinds
  <2>1. ASSUME NEW e \in Executor, NEW u \in Target, Started(e, u) PROVE A
    BY <1>1, <2>1 DEF Started, Startable, TypeOK
  <2>2. ASSUME NEW e \in Executor, NEW u \in Target, MarkSideEffect(e, u) PROVE A
    BY <1>1, <2>2 DEF MarkSideEffect, WriteState, TypeOK, Attempt
  <2>3. ASSUME NEW e \in Executor, NEW u \in Target,
               Outcome(e, u) \/ Takeover(e, u) \/ Retried(e, u)
        PROVE  A
    BY <1>1, <2>3 DEF Outcome, Takeover, Retried, TypeOK
  <2>4. UNCHANGED state => A
    OBVIOUS
  <2> QED BY <2>k, <2>1, <2>2, <2>3, <2>4, Writers
<1>2. TypeOK /\ [Next]_vars => [A]_vars
  BY <1>1
<1> QED BY <1>2, TypeCorrect, PTL DEF Spec, NoSilentReplay

-----------------------------------------------------------------------------
(* Records that are here to stay.                                          *)

LEMMA Settled ==
  ASSUME TypeOK, [Next]_vars, NEW t \in Target
  PROVE  /\ state[t].status = "completed" => state'[t] = state[t]
         /\ state[t].status # "absent" => state'[t].status # "absent"
         /\ state[t].status = "success_candidate" =>
              state'[t].status \in {"success_candidate", "completed"}
<1>k. StepKind
  BY Kinds
<1> DEFINE G == /\ state[t].status = "completed" => state'[t] = state[t]
                /\ state[t].status # "absent" => state'[t].status # "absent"
                /\ state[t].status = "success_candidate" =>
                     state'[t].status \in {"success_candidate", "completed"}
<1>1. ASSUME NEW e \in Executor, NEW u \in Target, Started(e, u) PROVE G
  BY <1>1 DEF Started, Startable, TypeOK
<1>2. ASSUME NEW e \in Executor, NEW u \in Target, MarkSideEffect(e, u) PROVE G
  BY <1>2 DEF MarkSideEffect, MayRecord, WriteState, TypeOK, Attempt
<1>3. ASSUME NEW e \in Executor, NEW u \in Target, Outcome(e, u) PROVE G
  BY <1>3 DEF Outcome, TypeOK
<1>4. ASSUME NEW e \in Executor, NEW u \in Target, Takeover(e, u) PROVE G
  BY <1>4 DEF Takeover, Uncertain, TypeOK
<1>5. ASSUME NEW e \in Executor, NEW u \in Target, Retried(e, u) PROVE G
  BY <1>5 DEF Retried, Decided, TypeOK
<1> QED BY <1>k, <1>1, <1>2, <1>3, <1>4, <1>5
        DEF StepKind, Onward, Declined, Aside, Unrecorded, Forget, durable

\* An executor at the candidate or beyond has a durable candidate behind it,
\* one that restores a target its completion.
Sealed ==
  \A e \in Executor, t \in Target :
    /\ stage[e][t] \in {"candidate", "torn", "paired"} =>
         state[t].status \in {"success_candidate", "completed"}
    /\ stage[e][t] = "restored" => state[t].status = "completed"

LEMMA NextSealed == TypeOK /\ Sealed /\ [Next]_vars => Sealed'
<1> SUFFICES ASSUME TypeOK, Sealed, [Next]_vars,
                    NEW e \in Executor, NEW t \in Target
             PROVE  /\ stage'[e][t] \in {"candidate", "torn", "paired"} =>
                         state'[t].status \in {"success_candidate", "completed"}
                    /\ stage'[e][t] = "restored" => state'[t].status = "completed"
  BY DEF Sealed
<1> DEFINE G == /\ stage'[e][t] \in {"candidate", "torn", "paired"} =>
                     state'[t].status \in {"success_candidate", "completed"}
                /\ stage'[e][t] = "restored" => state'[t].status = "completed"
<1>k. StepKind
  BY Kinds
<1>0. stage'[e][t] = stage[e][t] => G
  BY Settled DEF Sealed
<1>1. ASSUME NEW f \in Executor, NEW u \in Target, Started(f, u) PROVE G
  BY <1>0, <1>1 DEF Started, Move, TypeOK
<1>2. ASSUME NEW f \in Executor, NEW u \in Target, MarkSideEffect(f, u) PROVE G
  BY <1>0, <1>2 DEF MarkSideEffect, Move, TypeOK
<1>3. ASSUME NEW f \in Executor, NEW u \in Target, Outcome(f, u) PROVE G
  BY <1>0, <1>3 DEF Outcome, Move, TypeOK
<1>4. ASSUME NEW f \in Executor, NEW u \in Target, Takeover(f, u) PROVE G
  <2>1. CASE stage' = stage
    BY <1>0, <2>1
  <2>2. PICK s \in {"error", "success"} : stage' = stage \/ Move(f, u, s)
    BY <1>4 DEF Takeover
  <2>3. CASE Move(f, u, s)
    BY <1>0, <2>2, <2>3 DEF Move, TypeOK
  <2> QED BY <2>1, <2>2, <2>3
<1>5. ASSUME NEW f \in Executor, NEW u \in Target, NEW s \in Silent,
             Unrecorded(f, u, s)
      PROVE  G
  <2>1. CASE f = e /\ u = t
    BY <1>5, <2>1 DEF Unrecorded, Move, Sealed, TypeOK
  <2>2. CASE ~(f = e /\ u = t)
    BY <1>0, <1>5, <2>2 DEF Unrecorded, Move, TypeOK
  <2> QED BY <2>1, <2>2
<1>6. ASSUME NEW p \in Process, Forget(p) PROVE G
  BY <1>0, <1>6 DEF Forget, TypeOK
<1> QED BY <1>k, <1>0, <1>1, <1>2, <1>3, <1>4, <1>5, <1>6
        DEF StepKind, Onward, Declined, Retried, Aside

LEMMA NextArtifact ==
  TypeOK /\ Sealed /\ ArtifactHasCandidate /\ [Next]_vars => ArtifactHasCandidate'
<1> SUFFICES ASSUME TypeOK, Sealed, ArtifactHasCandidate, [Next]_vars,
                    NEW t \in Target,
                    pair'[t].artifact \/ pair'[t].sidecar # 0
             PROVE  state'[t].status \in {"success_candidate", "completed"}
  BY DEF ArtifactHasCandidate
<1> DEFINE G == state'[t].status \in {"success_candidate", "completed"}
<1>k. StepKind
  BY Kinds
<1>0. pair'[t] = pair[t] => G
  BY Settled DEF ArtifactHasCandidate
<1>1. ASSUME NEW f \in Executor, NEW u \in Target, NEW s \in Silent,
             Unrecorded(f, u, s)
      PROVE  G
  <2>1. CASE s \in {"torn", "paired"} /\ u = t
    BY <1>1, <2>1, Settled DEF Unrecorded, Sealed
  <2>2. CASE ~(s \in {"torn", "paired"} /\ u = t)
    <3>1. CASE UNCHANGED pair
      BY <1>0, <3>1
    <3>2. CASE u # t
      BY <1>0, <1>1, <3>2 DEF Unrecorded, TypeOK
    <3> QED BY <1>1, <2>2, <3>1, <3>2 DEF Unrecorded
  <2> QED BY <2>1, <2>2
<1>2. ASSUME NEW f \in Executor, NEW u \in Target, MarkSideEffect(f, u) PROVE G
  BY <1>0, <1>2 DEF MarkSideEffect
<1>3. ASSUME NEW f \in Executor, NEW u \in Target,
             \/ Started(f, u) \/ Outcome(f, u) \/ Takeover(f, u)
             \/ Declined(f, u) \/ Retried(f, u)
      PROVE  G
  <2> UNCHANGED pair
    BY <1>3 DEF Started, Outcome, Takeover, Declined, Retried, Aside
  <2> QED BY <1>0
<1>4. ASSUME NEW f \in Executor, Onward(f) PROVE G
  BY <1>0, <1>4 DEF Onward, Aside
<1>5. ASSUME NEW p \in Process, Forget(p) PROVE G
  BY <1>0, <1>5 DEF Forget, durable
<1> QED BY <1>k, <1>0, <1>1, <1>2, <1>3, <1>4, <1>5 DEF StepKind

\* A run artifact appears only for a target whose candidate is durable.
THEOREM ArtifactsHaveCandidates == Spec => []ArtifactHasCandidate
<1>1. Init => Sealed /\ ArtifactHasCandidate
  BY DEF Init, Sealed, ArtifactHasCandidate, NoPair
<1> QED BY <1>1, TypeCorrect, NextSealed, NextArtifact, PTL DEF Spec

-----------------------------------------------------------------------------
(* The operators' ledger.                                                  *)

\* Numbers never run backwards into a ledger entry.
Numbered ==
  \A t \in Target :
    /\ state[t].status = "absent" => state[t].attempt = 0
    /\ state[t].status = "retry_scheduled" => state[t].next >= state[t].attempt

Ledger == TypeOK /\ Numbered /\ LedgerSound

LEMMA InitLedger == Init => Ledger
BY InitType DEF Init, Ledger, Numbered, LedgerSound, LedgerReflected, NoAttempt

LEMMA NextNumbered ==
  ASSUME TypeOK, Numbered, [Next]_vars
  PROVE  /\ Numbered'
         /\ \A t \in Target : state'[t].attempt >= state[t].attempt
<1>k. StepKind /\ TypeOK'
  BY Kinds, NextType
<1> DEFINE G == \A t \in Target : state'[t].attempt >= state[t].attempt
<1>1. ASSUME NEW e \in Executor, NEW u \in Target, Started(e, u)
      PROVE  Numbered' /\ G
  BY <1>k, <1>1 DEF Started, Startable, StartNumber, Numbered, TypeOK, Attempt
<1>2. ASSUME NEW e \in Executor, NEW u \in Target, MarkSideEffect(e, u)
      PROVE  Numbered' /\ G
  BY <1>k, <1>2 DEF MarkSideEffect, WriteState, Numbered, TypeOK, Attempt
<1>3. ASSUME NEW e \in Executor, NEW u \in Target, Outcome(e, u)
      PROVE  Numbered' /\ G
  BY <1>k, <1>3 DEF Outcome, Numbered, TypeOK, Attempt
<1>4. ASSUME NEW e \in Executor, NEW u \in Target, Takeover(e, u)
      PROVE  Numbered' /\ G
  BY <1>k, <1>4 DEF Takeover, Numbered, TypeOK, Attempt
<1>5. ASSUME NEW e \in Executor, NEW u \in Target, Retried(e, u)
      PROVE  Numbered' /\ G
  BY <1>k, <1>5 DEF Retried, Numbered, TypeOK, Attempt
<1>6. ASSUME UNCHANGED state PROVE Numbered' /\ G
  BY <1>6 DEF Numbered, TypeOK, Attempt
<1> QED BY <1>k, <1>1, <1>2, <1>3, <1>4, <1>5, <1>6
        DEF StepKind, Onward, Declined, Aside, Unrecorded, Forget, durable

LEMMA NextLedger == Ledger /\ [Next]_vars => Ledger'
<1> SUFFICES ASSUME Ledger, [Next]_vars PROVE LedgerSound'
  BY NextNumbered, NextType DEF Ledger
<1>k. StepKind /\ TypeOK /\ TypeOK'
  BY Kinds, NextType DEF Ledger
<1>n. \A t \in Target : state'[t].attempt >= state[t].attempt
  BY NextNumbered DEF Ledger
\* a failed attempt stays failed until an operator's first decision on it
<1>f. ASSUME NEW t \in Target, state[t].status = "failed",
             \E d \in ledger : d[1] = t /\ d[2] = state[t].attempt
      PROVE  state'[t].status = "failed" /\ state'[t].attempt = state[t].attempt
  <2>1. ASSUME NEW e \in Executor, NEW u \in Target, Started(e, u)
        PROVE  state'[t] = state[t]
    BY <1>k, <1>f, <2>1 DEF Started, Startable, TypeOK
  <2>2. ASSUME NEW e \in Executor, NEW u \in Target, MarkSideEffect(e, u)
        PROVE  state'[t] = state[t]
    BY <1>k, <1>f, <2>2 DEF MarkSideEffect, MayRecord, WriteState, TypeOK
  <2>3. ASSUME NEW e \in Executor, NEW u \in Target, Outcome(e, u)
        PROVE  state'[t] = state[t]
    BY <1>k, <1>f, <2>3 DEF Outcome, TypeOK
  <2>4. ASSUME NEW e \in Executor, NEW u \in Target, Takeover(e, u)
        PROVE  state'[t] = state[t]
    BY <1>k, <1>f, <2>4 DEF Takeover, Uncertain, TypeOK
  <2>5. ASSUME NEW e \in Executor, NEW u \in Target, Retried(e, u)
        PROVE  state'[t] = state[t]
    BY <1>k, <1>f, <2>5 DEF Retried, Decided, TypeOK
  <2> QED BY <1>f, <1>k, <2>1, <2>2, <2>3, <2>4, <2>5
          DEF StepKind, Onward, Declined, Aside, Unrecorded, Forget, durable
\* what an entry asks of the records
<1> DEFINE Shown(d) == IF d[3] = "fail"
                       THEN /\ state[d[1]].status = "failed"
                            /\ state[d[1]].attempt = d[2]
                       ELSE state[d[1]].attempt >= d[2] + 1
<1>s. ASSUME NEW d \in ledger PROVE Shown(d)'
  <2>1. d \in Target \X Nat \X {"fail", "retry"} /\ Shown(d)
    BY <1>k DEF TypeOK, Ledger, LedgerSound, LedgerReflected
  <2>2. d[1] \in Target /\ d[2] \in Nat
    BY <2>1
  <2>3. state'[d[1]].attempt >= state[d[1]].attempt
    BY <1>n, <2>2
  <2>4. state[d[1]].attempt \in Nat /\ state'[d[1]].attempt \in Nat
    BY <1>k, <2>2 DEF TypeOK, Attempt
  <2>5. CASE d[3] = "fail"
    BY <1>f, <2>1, <2>2, <2>5
  <2>6. CASE d[3] # "fail"
    BY <2>1, <2>2, <2>3, <2>4, <2>6
  <2> QED BY <2>5, <2>6
<1>1. CASE UNCHANGED ledger
  BY <1>1, <1>s DEF Ledger, LedgerSound, LedgerReflected
<1>2. ASSUME NEW e \in Executor, NEW t \in Target, NEW d \in {"fail", "retry"},
             Decided(t, d),
             NEW n \in Nat, n = state[t].attempt, Shown(<<t, n, d>>)'
      PROVE  LedgerSound'
  <2>1. \A c \in ledger' : Shown(c)'
    BY <1>s, <1>2 DEF Decided
  <2>2. ledger' = ledger \cup {<<t, n, d>>}
    BY <1>2 DEF Decided
  <2>3. \A c, g \in ledger : c[1] = g[1] /\ c[2] = g[2] => c = g
    BY DEF Ledger, LedgerSound
  <2>4. \A c \in ledger : ~(c[1] = t /\ c[2] = n)
    BY <1>2 DEF Decided
  <2>5. \A c, g \in ledger' : c[1] = g[1] /\ c[2] = g[2] => c = g
    BY <2>2, <2>3, <2>4
  <2> QED BY <2>1, <2>5 DEF LedgerSound, LedgerReflected
<1>3. ASSUME NEW e \in Executor, NEW t \in Target, Declined(e, t)
      PROVE  LedgerSound'
  <2>1. Decided(t, "fail") /\ UNCHANGED state
    BY <1>3 DEF Declined, Aside
  <2>2. PICK n \in Nat : n = state[t].attempt
    BY <1>k DEF TypeOK, Attempt
  <2>3. Shown(<<t, n, "fail">>)'
    BY <2>1, <2>2 DEF Decided
  <2> HIDE DEF Shown
  <2> QED BY <1>2, <2>1, <2>2, <2>3
<1>4. ASSUME NEW e \in Executor, NEW t \in Target, Retried(e, t)
      PROVE  LedgerSound'
  <2>1. Decided(t, "retry") /\ state'[t].attempt = state[t].attempt + 1
    BY <1>4, <1>k DEF Retried, TypeOK
  <2>2. PICK n \in Nat : n = state[t].attempt
    BY <1>k DEF TypeOK, Attempt
  <2>3. Shown(<<t, n, "retry">>)'
    BY <2>1, <2>2
  <2> HIDE DEF Shown
  <2> QED BY <1>2, <2>1, <2>2, <2>3
<1>5. ASSUME NEW e \in Executor, NEW t \in Target,
             \/ Started(e, t) \/ MarkSideEffect(e, t)
             \/ \E s \in Silent : Unrecorded(e, t, s)
             \/ Outcome(e, t) \/ Takeover(e, t)
      PROVE  UNCHANGED ledger
  BY <1>5 DEF Started, MarkSideEffect, Unrecorded, Outcome, Takeover
<1>6. ASSUME NEW e \in Executor, Onward(e) PROVE UNCHANGED ledger
  BY <1>6 DEF Onward
<1>7. ASSUME NEW p \in Process, Forget(p) PROVE UNCHANGED ledger
  BY <1>7 DEF Forget, durable
<1> QED BY <1>k, <1>1, <1>3, <1>4, <1>5, <1>6, <1>7 DEF StepKind

\* One decision per failed attempt, and the records always reflect it.
THEOREM LedgerKept == Spec => []LedgerSound
<1>1. Ledger => LedgerSound
  BY DEF Ledger
<1> QED BY <1>1, InitLedger, NextLedger, PTL DEF Spec

-----------------------------------------------------------------------------
(* The published status, and the refinement.                               *)

\* What becomes of the run status.
LEMMA Publication ==
  ASSUME [Next]_vars
  PROVE  \/ runStatus' = runStatus
         \/ runStatus' = "running" /\ runStatus # "completed"
         \/ \E e \in Executor :
              /\ session[e] = "closing" /\ runStatus' = verdict[e]
              /\ StatusAllowed(e, verdict[e])
              /\ UNCHANGED state
<1> DEFINE G == \/ runStatus' = runStatus
                \/ runStatus' = "running" /\ runStatus # "completed"
                \/ \E e \in Executor :
                     /\ session[e] = "closing" /\ runStatus' = verdict[e]
                     /\ StatusAllowed(e, verdict[e])
                     /\ UNCHANGED state
<1>1. ASSUME NEW e \in Executor,
             \/ Initialize(e) \/ Admit(e) \/ AdmitRefused(e)
             \/ Conclude(e) \/ Publish(e)
      PROVE  G
  BY <1>1 DEF Initialize, Admit, AdmitRefused, Conclude, Publish, WriteStatus,
              durable
<1>2. ASSUME NEW e \in Executor, NEW t \in Target,
             \/ PrepareRun(e, t) \/ PreparePending(e, t)
             \/ PrepareAmbiguous(e, t) \/ PrepareDone(e, t)
             \/ PrepareRefused(e, t) \/ KeyError(e, t)
             \/ MarkSideEffect(e, t) \/ MarkCheckpoint(e, t)
             \/ RecordFailure(e, t)
      PROVE  UNCHANGED runStatus
  BY <1>2 DEF PrepareRun, PreparePending, PrepareAmbiguous, PrepareDone,
              PrepareRefused, KeyError, MarkSideEffect, MarkCheckpoint,
              RecordFailure, durable
<1>3. ASSUME NEW e \in Executor, NEW t \in Target,
             \/ SaveCandidate(e, t) \/ RecordRefused(e, t)
             \/ BadArtifact(e, t) \/ WriteArtifact(e, t)
             \/ WriteSidecar(e, t) \/ MaterializeError(e, t)
             \/ MarkCompleted(e, t) \/ MarkCompletedRefused(e, t)
             \/ Skip(e, t) \/ Restore(e, t)
             \/ \E d \in {"retry", "fail"} : Resolve(e, t, d) \/ Recover(e, t, d)
      PROVE  UNCHANGED runStatus
  BY <1>3 DEF SaveCandidate, RecordRefused, BadArtifact, WriteArtifact,
              WriteSidecar, MaterializeError, MarkCompleted,
              MarkCompletedRefused, Skip, Restore, Resolve, Recover, durable
<1>4. ASSUME NEW p \in Process, Forget(p) PROVE UNCHANGED runStatus
  BY <1>4 DEF Forget, durable
<1> QED BY <1>1, <1>2, <1>3, <1>4
        DEF Next, vars, Progress, Operator, Exit, Crash

\* An executor that is past waiting found or wrote a record, unless it failed
\* or passed the target over.
Processed ==
  \A e \in Executor, t \in Target :
    stage[e][t] \notin {"waiting", "skipped", "error"} => state[t].status # "absent"

\* An executor that decided "completed" had processed every target.
Concluded ==
  \A e \in Executor :
    /\ session[e] = "ruled" => verdict[e] # "completed"
    /\ session[e] = "closing" /\ verdict[e] = "completed" =>
         \A t \in Target : state[t].status # "absent"

\* An executor that is about to decide "completed" has passed over nothing.
Thorough ==
  \A e \in Executor :
    session[e] = "open" /\ FinalStatus(e) = "completed" =>
      \A t \in Target : stage[e][t] # "skipped"

Completion == TypeOK /\ Processed /\ Concluded /\ CompletedRunDone

LEMMA NextProcessed == TypeOK /\ Processed /\ [Next]_vars => Processed'
<1> SUFFICES ASSUME TypeOK, Processed, [Next]_vars,
                    NEW e \in Executor, NEW t \in Target,
                    stage'[e][t] \notin {"waiting", "skipped", "error"}
             PROVE  state'[t].status # "absent"
  BY DEF Processed
<1> DEFINE G == state'[t].status # "absent"
<1>k. StepKind
  BY Kinds
<1>0. state[t].status # "absent" => G
  BY Settled
<1>1. stage'[e][t] = stage[e][t] => G
  BY <1>0 DEF Processed
<1>2. ASSUME NEW f \in Executor, NEW u \in Target, Started(f, u) PROVE G
  BY <1>1, <1>2 DEF Started, Move, TypeOK
<1>3. ASSUME NEW f \in Executor, NEW u \in Target, MarkSideEffect(f, u) PROVE G
  BY <1>0, <1>1, <1>3 DEF MarkSideEffect, MayRecord, Move, TypeOK
<1>4. ASSUME NEW f \in Executor, NEW u \in Target, NEW s \in Silent,
             Unrecorded(f, u, s)
      PROVE  G
  BY <1>0, <1>1, <1>4 DEF Unrecorded, Silent, Busy, Move, Processed, TypeOK
<1>5. ASSUME NEW f \in Executor, NEW u \in Target, Outcome(f, u) PROVE G
  BY <1>0, <1>1, <1>5 DEF Outcome, Move, TypeOK
<1>6. ASSUME NEW f \in Executor, NEW u \in Target, Takeover(f, u) PROVE G
  <2>1. PICK s \in {"error", "success"} : stage' = stage \/ Move(f, u, s)
    BY <1>6 DEF Takeover
  <2>2. state[u].status # "absent"
    BY <1>6 DEF Takeover, Uncertain
  <2>3. CASE u = t
    BY <1>0, <2>2, <2>3
  <2>4. CASE stage' = stage
    BY <1>1, <2>4
  <2>5. CASE u # t /\ Move(f, u, s)
    BY <1>1, <2>5 DEF Move, TypeOK
  <2> QED BY <2>1, <2>3, <2>4, <2>5
<1>7. ASSUME NEW f \in Executor, NEW u \in Target,
             Declined(f, u) \/ Retried(f, u)
      PROVE  G
  BY <1>1, <1>7 DEF Declined, Retried, Aside
<1>8. ASSUME NEW f \in Executor, Onward(f) PROVE G
  BY <1>1, <1>8 DEF Onward, Aside
<1>9. ASSUME NEW p \in Process, Forget(p) PROVE G
  BY <1>1, <1>9 DEF Forget, TypeOK
<1> QED BY <1>k, <1>1, <1>2, <1>3, <1>4, <1>5, <1>6, <1>7, <1>8, <1>9
        DEF StepKind

\* Where verdicts come from.
LEMMA Verdicts ==
  ASSUME TypeOK, [Next]_vars, NEW e \in Executor
  PROVE  \/ session'[e] = session[e] /\ verdict'[e] = verdict[e]
         \/ session'[e] \notin {"ruled", "closing"}
         \/ session'[e] = "ruled" /\ verdict'[e] # "completed"
         \/ session[e] = "ruled" /\ verdict'[e] = verdict[e]
              /\ session'[e] = "closing"
         \/ /\ session[e] = "open" /\ Drained(e)
            /\ session'[e] = "closing" /\ verdict'[e] = FinalStatus(e)
<1> DEFINE G == \/ session'[e] = session[e] /\ verdict'[e] = verdict[e]
                \/ session'[e] \notin {"ruled", "closing"}
                \/ session'[e] = "ruled" /\ verdict'[e] # "completed"
                \/ session[e] = "ruled" /\ verdict'[e] = verdict[e]
                     /\ session'[e] = "closing"
                \/ /\ session[e] = "open" /\ Drained(e)
                   /\ session'[e] = "closing" /\ verdict'[e] = FinalStatus(e)
<1>1. ASSUME NEW f \in Executor,
             \/ Initialize(f) \/ Admit(f) \/ AdmitRefused(f) \/ Publish(f)
      PROVE  G
  <2> PICK s \in {"bound", "open", "closed"} : Goto(f, s) /\ UNCHANGED verdict
    BY <1>1 DEF Initialize, Admit, AdmitRefused, Publish
  <2> QED BY DEF Goto, TypeOK
<1>2. ASSUME NEW f \in Executor, Conclude(f) PROVE G
  BY <1>2 DEF Conclude, Goto, TypeOK
<1>3. ASSUME NEW f \in Executor, NEW t \in Target,
             \/ PrepareRun(f, t) \/ PreparePending(f, t)
             \/ PrepareAmbiguous(f, t) \/ PrepareDone(f, t)
             \/ PrepareRefused(f, t) \/ KeyError(f, t)
             \/ MarkSideEffect(f, t) \/ MarkCheckpoint(f, t)
             \/ RecordFailure(f, t)
      PROVE  UNCHANGED <<session, verdict>>
  BY <1>3 DEF PrepareRun, PreparePending, PrepareAmbiguous, PrepareDone,
              PrepareRefused, KeyError, MarkSideEffect, MarkCheckpoint,
              RecordFailure
<1>4. ASSUME NEW f \in Executor, NEW t \in Target,
             \/ SaveCandidate(f, t) \/ RecordRefused(f, t)
             \/ BadArtifact(f, t) \/ WriteArtifact(f, t)
             \/ WriteSidecar(f, t) \/ MaterializeError(f, t)
             \/ MarkCompleted(f, t) \/ MarkCompletedRefused(f, t)
             \/ Skip(f, t) \/ Restore(f, t)
      PROVE  UNCHANGED <<session, verdict>>
  BY <1>4 DEF SaveCandidate, RecordRefused, BadArtifact, WriteArtifact,
              WriteSidecar, MaterializeError, MarkCompleted,
              MarkCompletedRefused, Skip, Restore
<1>5. ASSUME NEW f \in Executor, NEW t \in Target, NEW d \in {"retry", "fail"},
             Resolve(f, t, d) \/ Recover(f, t, d)
      PROVE  G
  BY <1>5 DEF Resolve, Recover, Goto, TypeOK
<1>6. ASSUME NEW p \in Process, Forget(p) PROVE G
  BY <1>6 DEF Forget, TypeOK
<1> QED BY <1>1, <1>2, <1>3, <1>4, <1>5, <1>6
        DEF Next, vars, Progress, Operator, Exit, Crash

LEMMA NextConcluded ==
  TypeOK /\ Processed /\ Concluded /\ Thorough /\ [Next]_vars => Concluded'
<1> SUFFICES ASSUME TypeOK, Processed, Concluded, Thorough, [Next]_vars,
                    NEW e \in Executor
             PROVE  /\ session'[e] = "ruled" => verdict'[e] # "completed"
                    /\ session'[e] = "closing" /\ verdict'[e] = "completed" =>
                         \A t \in Target : state'[t].status # "absent"
  BY DEF Concluded
<1>0. (\A t \in Target : state[t].status # "absent") =>
        \A t \in Target : state'[t].status # "absent"
  BY Settled
<1>1. CASE session[e] = "open" /\ Drained(e) /\ session'[e] = "closing"
             /\ verdict'[e] = FinalStatus(e)
  <2>1. SUFFICES ASSUME FinalStatus(e) = "completed"
                 PROVE  \A t \in Target : state[t].status # "absent"
    BY <1>0, <1>1
  <2>2. ~Failed(e)
    BY <2>1 DEF FinalStatus
  <2>3. \A t \in Target : stage[e][t] # "skipped"
    BY <1>1, <2>1 DEF Thorough
  <2> QED BY <1>1, <2>2, <2>3 DEF Drained, Failed, Processed
<1> QED BY <1>0, <1>1, Verdicts DEF Concluded

LEMMA NextCompletedRun ==
  TypeOK /\ Concluded /\ CompletedRunDone /\ [Next]_vars => CompletedRunDone'
<1> SUFFICES ASSUME TypeOK, Concluded, CompletedRunDone, [Next]_vars,
                    runStatus' = "completed", NEW t \in Target
             PROVE  state'[t].status = "completed"
  BY DEF CompletedRunDone
<1>1. CASE runStatus = "completed"
  BY <1>1, Settled DEF CompletedRunDone
<1>2. ASSUME NEW e \in Executor, session[e] = "closing",
             verdict[e] = "completed", StatusAllowed(e, verdict[e]),
             UNCHANGED state
      PROVE  state'[t].status = "completed"
  BY <1>2 DEF Concluded, StatusAllowed, Known
<1> QED BY <1>1, <1>2, Publication

-----------------------------------------------------------------------------
(* A target below a parked one is passed over, and a second executor may    *)
(* meanwhile finish what the first one found parked; the first then         *)
(* concludes that all it knows of is completed, while the target that it    *)
(* passed over was never begun.  So what a completed run is asks for one of *)
(* two things: no target depends on another, or one executor, whose calls   *)
(* follow one another with crashes and operators' decisions in between.     *)

Independent == \A t \in Target : Deps[t] = {}
OneExecutor == \A e, f \in Executor : e = f

\* Where the one executor is with a target is what the target's files say.
Placed ==
  \A e \in Executor, t \in Target :
    /\ stage[e][t] \in {"candidate", "torn", "paired"} =>
         state[t].status = "success_candidate"
    /\ stage[e][t] \in {"torn", "paired"} => pair[t].artifact
    /\ stage[e][t] = "pending" => state[t].status = "retry_scheduled"
    /\ stage[e][t] = "skipped" =>
         \E u \in Target : stage[e][u] \in {"pending", "checkpoint"}

\* A step of the executor with one target.
Local(e, t) ==
  /\ \A u \in Target \ {t} : UNCHANGED <<state[u], pair[u], stage[e][u]>>
  /\ stage[e][t] \notin {"pending", "checkpoint"}
  /\ stage'[e][t] \in {"candidate", "torn", "paired"} =>
       state'[t].status = "success_candidate"
  /\ stage'[e][t] \in {"torn", "paired"} => pair'[t].artifact
  /\ stage'[e][t] = "pending" => state'[t].status = "retry_scheduled"
  /\ stage'[e][t] = "skipped" =>
       \E d \in Target \ {t} : stage[e][d] \in Parked

LEMMA LocalKeeps ==
  ASSUME OneExecutor, Placed, NEW e \in Executor, NEW t \in Target, Local(e, t)
  PROVE  Placed'
<1> SUFFICES ASSUME NEW u \in Target
             PROVE  /\ stage'[e][u] \in {"candidate", "torn", "paired"} =>
                         state'[u].status = "success_candidate"
                    /\ stage'[e][u] \in {"torn", "paired"} => pair'[u].artifact
                    /\ stage'[e][u] = "pending" =>
                         state'[u].status = "retry_scheduled"
                    /\ stage'[e][u] = "skipped" =>
                         \E v \in Target : stage'[e][v] \in {"pending", "checkpoint"}
  BY DEF Placed, OneExecutor
<1>1. (\E v \in Target : stage[e][v] \in {"pending", "checkpoint"}) =>
        \E v \in Target : stage'[e][v] \in {"pending", "checkpoint"}
  BY DEF Local
<1>2. CASE u # t
  BY <1>1, <1>2 DEF Local, Placed
<1>3. CASE u = t
  <2>1. (\E d \in Target : stage[e][d] \in Parked) =>
          \E v \in Target : stage[e][v] \in {"pending", "checkpoint"}
    BY DEF Placed, Parked
  <2> QED BY <1>1, <1>3, <2>1 DEF Local
<1> QED BY <1>2, <1>3

LEMMA NextPlaced ==
  ASSUME OneExecutor, Ownership, Placed, [Next]_vars
  PROVE  Placed'
<1>k. StepKind /\ TypeOK /\ TypeOK'
  BY Kinds, NextType DEF Ownership
<1>0. CASE UNCHANGED <<state, pair, stage>>
  BY <1>0 DEF Placed
<1>1. ASSUME NEW e \in Executor, NEW t \in Target, Started(e, t) PROVE Placed'
  <2> Local(e, t)
    BY <1>1, <1>k DEF Started, Move, Local, TypeOK
  <2> QED BY LocalKeeps
<1>2. ASSUME NEW e \in Executor, NEW t \in Target, MarkSideEffect(e, t)
      PROVE  Placed'
  <2> Local(e, t)
    BY <1>2, <1>k DEF MarkSideEffect, Executing, WriteState, Move, Local, TypeOK
  <2> QED BY LocalKeeps
<1>3. ASSUME NEW e \in Executor, NEW t \in Target, Outcome(e, t) PROVE Placed'
  <2> Local(e, t)
    BY <1>3, <1>k DEF Outcome, Executing, Move, Local, TypeOK
  <2> QED BY LocalKeeps
<1>4. ASSUME NEW e \in Executor, NEW t \in Target, Takeover(e, t) PROVE Placed'
  <2>1. CASE session[e] = "off"
    <3>1. UNCHANGED stage /\ \A u \in Target : stage[e][u] = "waiting"
      BY <1>4, <2>1 DEF Takeover, Ownership, NotBegun
    <3> QED BY <3>1 DEF Placed, OneExecutor
  <2>2. CASE session[e] # "off"
    <3>1. PICK s \in {"error", "success"} :
            Move(e, t, s) /\ stage[e][t] \in {"waiting", "paired"}
      BY <1>4, <2>2 DEF Takeover
    <3>2. UNCHANGED pair /\ \E q : state' = [state EXCEPT ![t] = q]
      BY <1>4 DEF Takeover
    <3> Local(e, t)
      BY <1>k, <3>1, <3>2 DEF Move, Local, TypeOK
    <3> QED BY LocalKeeps
  <2> QED BY <2>1, <2>2
<1>5. ASSUME NEW e \in Executor, NEW t \in Target, NEW s \in Silent,
             Unrecorded(e, t, s)
      PROVE  Placed'
  <2>1. /\ \A u \in Target \ {t} : UNCHANGED <<state[u], pair[u], stage[e][u]>>
        /\ state' = state /\ stage'[e][t] = s
        /\ stage[e][t] \in {"waiting"} \cup Busy
    BY <1>5, <1>k DEF Unrecorded, Move, TypeOK
  <2>2. s \in {"candidate", "torn", "paired"} => state[t].status = "success_candidate"
    BY <1>5 DEF Unrecorded, Placed
  <2>3. s \in {"torn", "paired"} => pair'[t].artifact
    <3>1. CASE s = "torn"
      BY <1>5, <1>k, <3>1 DEF Unrecorded, TypeOK
    <3>2. CASE s = "paired"
      <4>1. pair[t].artifact /\ \E q \in Stamp : pair' = [pair EXCEPT ![t].sidecar = q]
        BY <1>5, <3>2 DEF Unrecorded, Placed
      <4> QED BY <1>k, <4>1 DEF TypeOK
    <3> QED BY <3>1, <3>2
  <2>4. s = "skipped" => \E d \in Target \ {t} : stage[e][d] \in Parked
    <3>1. s = "skipped" => \E d \in Target : stage[e][d] \in Parked
      BY <1>5, ConstantsOK DEF Unrecorded
    <3>2. stage[e][t] \notin Parked
      BY <2>1 DEF Parked, Busy
    <3> QED BY <3>1, <3>2
  <2>5. s = "pending" => state[t].status = "retry_scheduled"
    BY <1>5 DEF Unrecorded
  <2> Local(e, t)
    BY <2>1, <2>2, <2>3, <2>4, <2>5 DEF Local, Busy
  <2> QED BY LocalKeeps
<1>6. ASSUME NEW e \in Executor, NEW t \in Target, Retried(e, t) PROVE Placed'
  <2> UNCHANGED stage /\ \A u \in Target : stage[e][u] = "waiting"
    BY <1>6 DEF Retried, Ownership, NotBegun
  <2> QED BY DEF Placed, OneExecutor
<1>7. ASSUME NEW p \in Process, Forget(p) PROVE Placed'
  <2> SUFFICES ASSUME NEW e \in Executor, NEW t \in Target
               PROVE  \/ \A u \in Target : stage'[e][u] = "waiting"
                      \/ UNCHANGED <<state, pair, stage[e]>>
    BY DEF Placed
  <2> QED BY <1>7 DEF Forget, durable
<1> QED BY <1>k, <1>0, <1>1, <1>2, <1>3, <1>4, <1>5, <1>6, <1>7
        DEF StepKind, Onward, Declined, Aside

LEMMA NoneSkipped ==
  ASSUME Independent
  PROVE  Spec => [](\A e \in Executor, t \in Target : stage[e][t] # "skipped")
<1> DEFINE I == \A e \in Executor, t \in Target : stage[e][t] # "skipped"
<1>1. Init => I
  BY DEF Init
<1>2. TypeOK /\ I /\ [Next]_vars => I'
  <2> SUFFICES ASSUME TypeOK, I, StepKind,
                      NEW e \in Executor, NEW t \in Target
               PROVE  stage'[e][t] # "skipped"
    BY Kinds
  <2> DEFINE G == stage'[e][t] # "skipped"
  <2>1. stage'[e][t] = stage[e][t] => G
    OBVIOUS
  <2>2. ASSUME NEW f \in Executor, NEW u \in Target,
               NEW s, s # "skipped", Move(f, u, s)
        PROVE  G
    BY <2>1, <2>2 DEF Move, TypeOK
  <2>3. ASSUME NEW f \in Executor, NEW u \in Target, Started(f, u) PROVE G
    BY <2>2, <2>3 DEF Started
  <2>4. ASSUME NEW f \in Executor, NEW u \in Target, MarkSideEffect(f, u) PROVE G
    BY <2>2, <2>4 DEF MarkSideEffect
  <2>5. ASSUME NEW f \in Executor, NEW u \in Target, Outcome(f, u) PROVE G
    <3> PICK g \in {"checkpoint", "pending", "candidate", "error"} : Move(f, u, g)
      BY <2>5 DEF Outcome
    <3> QED BY <2>2
  <2>6. ASSUME NEW f \in Executor, NEW u \in Target, Takeover(f, u) PROVE G
    <3> PICK g \in {"error", "success"} : UNCHANGED stage \/ Move(f, u, g)
      BY <2>6 DEF Takeover
    <3> QED BY <2>1, <2>2
  <2>7. ASSUME NEW f \in Executor, NEW u \in Target, NEW s \in Silent,
               Unrecorded(f, u, s)
        PROVE  G
    BY <2>2, <2>7 DEF Unrecorded, Independent
  <2>8. ASSUME NEW p \in Process, Forget(p) PROVE G
    BY <2>8 DEF Forget
  <2> QED BY <2>1, <2>3, <2>4, <2>5, <2>6, <2>7, <2>8
          DEF StepKind, Onward, Declined, Retried, Aside
<1> QED BY <1>1, <1>2, TypeCorrect, PTL DEF Spec

LEMMA PlacedInvariant == ASSUME OneExecutor PROVE Spec => []Placed
<1>1. Init => Placed
  BY DEF Init, Placed
<1>2. Ownership /\ Placed /\ [Next]_vars => Placed'
  BY NextPlaced
<1> QED BY <1>1, <1>2, OwnershipInvariant, PTL DEF Spec

LEMMA ThoroughInvariant ==
  ASSUME Independent \/ OneExecutor
  PROVE  Spec => []Thorough
<1>1. CASE Independent
  <2>1. (\A e \in Executor, t \in Target : stage[e][t] # "skipped") => Thorough
    BY DEF Thorough
  <2> QED BY <1>1, <2>1, NoneSkipped, PTL
<1>2. CASE OneExecutor
  <2>1. Placed => Thorough
    <3> SUFFICES ASSUME Placed, NEW e \in Executor, FinalStatus(e) = "completed",
                        NEW t \in Target, stage[e][t] = "skipped"
                 PROVE  FALSE
      BY DEF Thorough
    <3>1. PICK u \in Target : stage[e][u] \in {"pending", "checkpoint"}
      BY DEF Placed
    <3>2. ~Has("retry_scheduled") /\ stage[e][u] # "checkpoint"
      BY DEF FinalStatus
    <3> QED BY <3>1, <3>2 DEF Placed, Has
  <2> QED BY <1>2, <2>1, PlacedInvariant, PTL
<1> QED BY <1>1, <1>2

LEMMA CompletionInvariant ==
  ASSUME Independent \/ OneExecutor
  PROVE  Spec => []Completion
<1>1. Init => Completion
  BY InitType DEF Init, Completion, Processed, Concluded, CompletedRunDone
<1>2. Completion /\ Thorough /\ [Next]_vars => Completion'
  BY NextType, NextProcessed, NextConcluded, NextCompletedRun DEF Completion
<1> QED BY <1>1, <1>2, ThoroughInvariant, PTL DEF Spec

\* A run published as completed has every target completed, for good, if
\* targets do not depend on one another or one executor works on the run.
THEOREM CompletedRunsAreDone ==
  ASSUME Independent \/ OneExecutor
  PROVE  Spec => []CompletedRunDone
<1>1. Completion => CompletedRunDone
  BY DEF Completion
<1> QED BY <1>1, CompletionInvariant, PTL

\* A completed target keeps the sidecar its state pinned, through resumes,
\* crashes and errors of one executor, with any number of workers.
THEOREM CompletedKeepTheirPin ==
  ASSUME OneExecutor
  PROVE  Spec => []CompletedPinned
<1>1. Init => CompletedPinned
  BY DEF Init, CompletedPinned, NoAttempt
<1>2. TypeOK /\ Placed /\ CompletedPinned /\ [Next]_vars => CompletedPinned'
  <2> SUFFICES ASSUME TypeOK, Placed, CompletedPinned, [Next]_vars,
                      NEW t \in Target, state'[t].status = "completed"
               PROVE  pair'[t].artifact /\ pair'[t].sidecar = state'[t].pin
    BY DEF CompletedPinned
  <2> DEFINE G == pair'[t].artifact /\ pair'[t].sidecar = state'[t].pin
  <2>k. StepKind /\ TypeOK'
    BY Kinds, NextType
  <2>0. UNCHANGED <<state[t], pair[t]>> => G
    BY DEF CompletedPinned
  <2>1. ASSUME NEW e \in Executor, NEW u \in Target,
               Started(e, u) \/ Outcome(e, u) \/ Retried(e, u)
        PROVE  G
    BY <2>0, <2>1, <2>k DEF Started, Outcome, Retried, TypeOK
  <2>2. ASSUME NEW e \in Executor, NEW u \in Target, MarkSideEffect(e, u) PROVE G
    BY <2>0, <2>2, <2>k DEF MarkSideEffect, MayRecord, WriteState, TypeOK, Attempt
  <2>3. ASSUME NEW e \in Executor, NEW u \in Target, Takeover(e, u) PROVE G
    <3>1. CASE u # t
      BY <2>0, <2>3, <2>k, <3>1 DEF Takeover, TypeOK
    <3>2. CASE u = t
      <4>1. /\ stage[e][t] = "paired" /\ state'[t].pin = pair[t].sidecar
            /\ UNCHANGED pair
        BY <2>3, <2>k, <3>2 DEF Takeover, TypeOK
      <4> QED BY <4>1 DEF Placed
    <3> QED BY <3>1, <3>2
  <2>4. ASSUME NEW e \in Executor, NEW u \in Target, NEW s \in Silent,
               Unrecorded(e, u, s)
        PROVE  G
    <3>1. UNCHANGED state
      BY <2>4 DEF Unrecorded
    <3>2. CASE u = t /\ s \in {"torn", "paired"}
      BY <2>4, <3>1, <3>2 DEF Unrecorded, Placed
    <3>3. CASE ~(u = t /\ s \in {"torn", "paired"})
      BY <2>0, <2>4, <2>k, <3>1, <3>3 DEF Unrecorded, TypeOK
    <3> QED BY <3>2, <3>3
  <2> QED BY <2>k, <2>0, <2>1, <2>2, <2>3, <2>4
          DEF StepKind, Onward, Declined, Aside, Forget, durable
<1> QED BY <1>1, <1>2, TypeCorrect, PlacedInvariant, PTL DEF Spec

-----------------------------------------------------------------------------
(* What readers find.                                                      *)

\* A call works on a run whose status is running, or that is complete.
Opened ==
  \A e \in Executor :
    session[e] = "open" => runStatus \in {"running", "completed"}

LEMMA NextOpened ==
  ASSUME OneExecutor, TypeOK, Opened, [Next]_vars
  PROVE  Opened'
<1> SUFFICES ASSUME NEW e \in Executor, session'[e] = "open"
             PROVE  runStatus' \in {"running", "completed"}
  BY DEF Opened
<1>k. StepKind
  BY Kinds
<1>1. session[e] = "open" \/ runStatus' \in {"running", "completed"}
  <2>1. ASSUME NEW f \in Executor, Onward(f)
        PROVE  session[e] = "open" \/ runStatus' \in {"running", "completed"}
    BY <2>1 DEF Onward, Goto, TypeOK
  <2>2. ASSUME NEW f \in Executor, NEW t \in Target,
               \/ Started(f, t) \/ MarkSideEffect(f, t)
               \/ \E s \in Silent : Unrecorded(f, t, s)
               \/ Outcome(f, t)
        PROVE  session[e] = "open"
    BY <2>2 DEF Started, MarkSideEffect, Unrecorded, Outcome
  <2>3. ASSUME NEW f \in Executor, NEW t \in Target,
               Takeover(f, t) \/ Declined(f, t) \/ Retried(f, t)
        PROVE  session[e] = "open"
    BY <2>3 DEF Takeover, Declined, Retried, Goto, TypeOK
  <2>4. ASSUME NEW p \in Process, Forget(p) PROVE session[e] = "open"
    BY <2>4 DEF Forget
  <2> QED BY <1>k, <2>1, <2>2, <2>3, <2>4 DEF StepKind
<1>2. ASSUME session[e] = "open" PROVE runStatus' \in {"running", "completed"}
  <2>1. runStatus \in {"running", "completed"}
    BY <1>2 DEF Opened
  <2>2. \A f \in Executor : session[f] # "closing"
    BY <1>2 DEF OneExecutor
  <2> QED BY <2>1, <2>2, Publication
<1> QED BY <1>1, <1>2

LEMMA NextAgrees ==
  ASSUME OneExecutor, TypeOK, Opened, CompletedRunDone,
         runStatus \notin {"absent", "failed"} => Agrees, [Next]_vars,
         runStatus' \notin {"absent", "failed"}
  PROVE  Agrees'
<1>k. StepKind /\ TypeOK'
  BY Kinds, NextType
<1>1. CASE runStatus' = "running"
  BY <1>1 DEF Agrees
<1>2. ASSUME NEW e \in Executor, runStatus' = verdict[e],
             StatusAllowed(e, verdict[e]), UNCHANGED state
      PROVE  Agrees'
  BY <1>2 DEF StatusAllowed, Agrees, Has, Known
<1>3. CASE runStatus' = runStatus /\ runStatus # "running"
  <2>0. CASE UNCHANGED state
    BY <1>3, <2>0 DEF Agrees, Has, Known
  <2>1. CASE runStatus = "completed"
    <3> \A t \in Target : state'[t] = state[t]
      BY <2>1, Settled DEF CompletedRunDone
    <3> QED BY <1>3, <2>1 DEF CompletedRunDone, Agrees, Known
  <2>2. ASSUME NEW e \in Executor, session[e] = "open" PROVE runStatus = "completed"
    BY <1>3, <2>2 DEF Opened
  <2>3. ASSUME NEW e \in Executor, NEW t \in Target, Takeover(e, t),
               session[e] = "off", runStatus # "completed"
        PROVE  Agrees'
    <3>1. /\ state[t].status \in {"ambiguous", "running"}
          /\ state'[t].status \in {"failed", "retry_scheduled"}
          /\ state'[t].resolved
          /\ \A u \in Target \ {t} : state'[u] = state[u]
      BY <2>3, <1>k DEF Takeover, Uncertain, TypeOK
    <3>2. \A v \in {"retry_scheduled", "checkpoint_pending"} : Has(v) => Has(v)'
      BY <3>1 DEF Has
    <3> QED BY <1>3, <2>3, <3>1, <3>2 DEF Agrees
  <2>4. ASSUME NEW e \in Executor, NEW t \in Target,
               \/ Started(e, t) \/ MarkSideEffect(e, t) \/ Outcome(e, t)
               \/ Takeover(e, t) /\ session[e] # "off"
        PROVE  session[e] = "open"
    BY <2>4 DEF Started, MarkSideEffect, Executing, Outcome, Takeover
  <2>5. ASSUME NEW e \in Executor, NEW t \in Target, Retried(e, t)
        PROVE  FALSE
    BY <1>3, <2>5 DEF Retried
  <2> QED BY <1>k, <2>0, <2>1, <2>2, <2>3, <2>4, <2>5, Writers
<1> QED BY <1>1, <1>2, <1>3, Publication

\* Whatever fails, wherever the one executor's process dies and whatever an
\* operator decides in between, a run that is not published as failed is one
\* its readers accept.
THEOREM UnfailedRunsReadable ==
  ASSUME OneExecutor
  PROVE  Spec => []UnfailedReadable
<1> DEFINE I == Opened /\ (runStatus \notin {"absent", "failed"} => Agrees)
<1>1. Init => I
  BY DEF Init, Opened
<1>2. TypeOK /\ CompletedRunDone /\ I /\ [Next]_vars => I'
  BY NextOpened, NextAgrees
<1>3. Spec => []I
  BY <1>1, <1>2, TypeCorrect, CompletedRunsAreDone, PTL DEF Spec
<1>4. I /\ Ownership /\ LedgerSound => UnfailedReadable
  BY DEF UnfailedReadable, Readable, Ownership, RunningOwned, LedgerSound
<1> QED BY <1>3, <1>4, OwnershipInvariant, LedgerKept, PTL

-----------------------------------------------------------------------------
(* AttemptStore implements AttemptLifecycle.                               *)

PhaseMap  == [t \in Target |-> PhaseOf(state[t])]
NumberMap == [t \in Target |-> NumberOf(state[t])]

LEMMA PhaseFacts ==
  ASSUME NEW s
  PROVE  /\ s.status = "absent" => PhaseOf(s) = "new"
         /\ s.status = "running" /\ s.effect = TRUE => PhaseOf(s) = "exposed"
         /\ s.status = "running" /\ s.effect = FALSE => PhaseOf(s) = "started"
         /\ s.status = "ambiguous" => PhaseOf(s) = "uncertain"
         /\ s.status = "retry_scheduled" => PhaseOf(s) = "queued"
         /\ s.status = "checkpoint_pending" => PhaseOf(s) = "parked"
         /\ s.status = "success_candidate" => PhaseOf(s) = "sealed"
         /\ s.status = "completed" => PhaseOf(s) = "done"
         /\ s.status = "failed" => PhaseOf(s) = "failed"
         /\ s.status = "retry_scheduled" => NumberOf(s) = s.next
         /\ s.status # "retry_scheduled" => NumberOf(s) = s.attempt
BY DEF PhaseOf, NumberOf

\* A step that rewrites one record, seen through the mapping.
LEMMA MapStep ==
  ASSUME TypeOK, NEW t \in Target, NEW s, state' = [state EXCEPT ![t] = s]
  PROVE  /\ PhaseMap' = [PhaseMap EXCEPT ![t] = PhaseOf(s)]
         /\ NumberMap' = [NumberMap EXCEPT ![t] = NumberOf(s)]
         /\ PhaseMap[t] = PhaseOf(state[t])
         /\ NumberMap[t] = NumberOf(state[t])
BY DEF TypeOK, PhaseMap, NumberMap

\* The lifecycle's actions, in terms of the mapping.
LEMMA LifecycleStep ==
  ASSUME TypeOK, NEW t \in Target, NEW p, NEW n,
         PhaseMap' = [PhaseMap EXCEPT ![t] = p],
         NumberMap' = [NumberMap EXCEPT ![t] = n],
         \/ PhaseMap[t] = "new" /\ p = "started" /\ n = NumberMap[t] + 1
         \/ PhaseMap[t] = "queued" /\ p = "started" /\ n = NumberMap[t]
         \/ PhaseMap[t] = "parked" /\ p = "started" /\ n = NumberMap[t]
         \/ PhaseMap[t] = "started" /\ p = "exposed" /\ n = NumberMap[t]
         \/ PhaseMap[t] = "exposed" /\ p = "uncertain" /\ n = NumberMap[t]
         \/ /\ PhaseMap[t] \in {"started", "exposed"}
            /\ \/ p \in {"parked", "sealed", "failed"} /\ n = NumberMap[t]
               \/ p = "queued" /\ n = NumberMap[t] + 1
         \/ /\ PhaseMap[t] \in {"exposed", "uncertain"}
            /\ p = "failed" /\ n = NumberMap[t]
         \/ /\ PhaseMap[t] \in {"exposed", "uncertain", "failed"}
            /\ p = "queued" /\ n = NumberMap[t] + 1
         \/ PhaseMap[t] = "sealed" /\ p = "done" /\ n = NumberMap[t]
  PROVE  Lifecycle!Step(t)
<1>1. n = NumberMap[t] => NumberMap' = NumberMap
  BY DEF NumberMap
<1>2. NumberMap' = [NumberMap EXCEPT ![t] = n]
  OBVIOUS
<1> QED
  BY <1>1, <1>2
     DEF Lifecycle!Step, Lifecycle!Begin, Lifecycle!Restart, Lifecycle!Expose,
         Lifecycle!Lose, Lifecycle!Settle, Lifecycle!Rule, Lifecycle!Finish,
         Lifecycle!Becomes, Lifecycle!Advance, PhaseMap, NumberMap

LEMMA InitLifecycle == Init => Lifecycle!Init
<1> SUFFICES ASSUME Init PROVE Lifecycle!Init
  OBVIOUS
<1>1. /\ \A t \in Target : state[t] = NoAttempt
      /\ NoAttempt.status = "absent" /\ NoAttempt.attempt = 0
      /\ runStatus = "absent"
  BY DEF Init, NoAttempt
<1>2. PhaseOf(NoAttempt) = "new" /\ NumberOf(NoAttempt) = 0
  BY <1>1, PhaseFacts
<1> QED BY <1>1, <1>2 DEF Lifecycle!Init

\* Whoever writes a record has found the records in agreement.
LEMMA WriterReads == ASSUME [Next]_vars PROVE UNCHANGED state \/ Readable
<1> DEFINE G == UNCHANGED state \/ Readable
<1>1. ASSUME NEW e \in Executor,
             \/ Initialize(e) \/ Admit(e) \/ AdmitRefused(e)
             \/ Conclude(e) \/ Publish(e)
      PROVE  G
  BY <1>1 DEF Initialize, Admit, AdmitRefused, Conclude, Publish, durable
<1>2. ASSUME NEW e \in Executor, NEW t \in Target,
             \/ PreparePending(e, t) \/ PrepareDone(e, t)
             \/ PrepareRefused(e, t) \/ KeyError(e, t) \/ Skip(e, t)
             \/ RecordRefused(e, t) \/ BadArtifact(e, t) \/ WriteArtifact(e, t)
             \/ WriteSidecar(e, t) \/ MaterializeError(e, t)
             \/ MarkCompletedRefused(e, t) \/ Restore(e, t)
      PROVE  UNCHANGED state
  BY <1>2 DEF PreparePending, PrepareDone, PrepareRefused, KeyError, Skip,
              RecordRefused, BadArtifact, WriteArtifact, WriteSidecar,
              MaterializeError, MarkCompletedRefused, Restore, durable
<1>3. ASSUME NEW e \in Executor, NEW t \in Target,
             \/ PrepareRun(e, t) \/ PrepareAmbiguous(e, t)
             \/ MarkSideEffect(e, t) \/ MarkCheckpoint(e, t)
             \/ RecordFailure(e, t) \/ SaveCandidate(e, t)
             \/ MarkCompleted(e, t)
             \/ \E d \in {"retry", "fail"} : Resolve(e, t, d) \/ Recover(e, t, d)
      PROVE  Readable
  BY <1>3 DEF PrepareRun, PrepareAmbiguous, MarkSideEffect, MarkCheckpoint,
              RecordFailure, SaveCandidate, MayRecord, MarkCompleted, Resolve,
              Recover
<1>4. ASSUME NEW p \in Process, Forget(p) PROVE UNCHANGED state
  BY <1>4 DEF Forget, durable
<1> QED BY <1>1, <1>2, <1>3, <1>4
        DEF Next, vars, Progress, Operator, Exit, Crash

\* A run whose records agree with a completion has nothing under way.
LEMMA QuietRun ==
  ASSUME \A t \in Known : state[t].status = "completed"
  PROVE  \A t \in Target : PhaseMap[t] \in {"new", "done"}
BY PhaseFacts DEF Known, PhaseMap

LEMMA NextLifecycle ==
  Ownership /\ Numbered /\ [Next]_vars => [Lifecycle!Next]_(Lifecycle!vars)
<1> SUFFICES ASSUME Ownership, Numbered, [Next]_vars
             PROVE  [Lifecycle!Next]_(Lifecycle!vars)
  OBVIOUS
<1>k. StepKind /\ TypeOK
  BY Kinds DEF Ownership
<1> DEFINE Over == runStatus = "completed"
           G == [Lifecycle!Next]_(Lifecycle!vars)
\* the run status moves only where no record does
<1>o. \/ UNCHANGED Over
      \/ Over' /\ UNCHANGED state /\ \A t \in Known : state[t].status = "completed"
  BY Publication DEF StatusAllowed
<1>a. UNCHANGED state => G
  <2> SUFFICES ASSUME UNCHANGED state PROVE G
    OBVIOUS
  <2>1. UNCHANGED <<PhaseMap, NumberMap>>
    BY DEF PhaseMap, NumberMap
  <2>2. CASE UNCHANGED Over
    BY <2>1, <2>2 DEF Lifecycle!vars, PhaseMap, NumberMap
  <2>3. CASE Over' /\ \A t \in Known : state[t].status = "completed"
    <3> \A t \in Target : PhaseMap[t] \in {"new", "done"}
      BY <2>3, QuietRun
    <3> QED BY <2>1, <2>3
            DEF Lifecycle!Next, Lifecycle!Complete, Lifecycle!Quiet, PhaseMap,
                NumberMap
  <2> QED BY <1>o, <2>2, <2>3
\* no record moves in a run that is over unless all is quiet
<1>q. UNCHANGED state \/ (Over => \A t \in Target : PhaseMap[t] \in {"new", "done"})
  BY WriterReads, QuietRun DEF Readable, Agrees
\* otherwise a step of the mapped record is enough
<1>b. ASSUME NEW t \in Target, Lifecycle!Step(t) PROVE G
  <2>1. CASE UNCHANGED state
    BY <1>a, <2>1
  <2>2. CASE ~UNCHANGED state
    <3>1. UNCHANGED Over /\ (Over => \A u \in Target : PhaseMap[u] \in {"new", "done"})
      BY <1>o, <1>q, <2>2
    <3> QED BY <1>b, <3>1 DEF Lifecycle!Next, Lifecycle!Quiet, PhaseMap
  <2> QED BY <2>1, <2>2
<1>1. ASSUME NEW e \in Executor, NEW t \in Target, Started(e, t) PROVE G
  <2>1. PICK s \in Attempt :
          /\ s.status = "running" /\ s.effect = FALSE
          /\ s.attempt = StartNumber(t)
          /\ state' = [state EXCEPT ![t] = s]
    BY <1>1 DEF Started
  <2>2. PhaseOf(s) = "started" /\ NumberOf(s) = StartNumber(t)
    BY <2>1, PhaseFacts
  <2>3. /\ PhaseMap' = [PhaseMap EXCEPT ![t] = PhaseOf(s)]
        /\ NumberMap' = [NumberMap EXCEPT ![t] = NumberOf(s)]
        /\ PhaseMap[t] = PhaseOf(state[t])
        /\ NumberMap[t] = NumberOf(state[t])
    BY <1>k, <2>1, MapStep
  <2>4. CASE state[t].status \in {"absent", "checkpoint_pending", "retry_scheduled"}
    <3>1. \/ /\ PhaseMap[t] = "new"
             /\ NumberMap[t] = 0 /\ StartNumber(t) = 1
          \/ /\ PhaseMap[t] \in {"queued", "parked"}
             /\ NumberMap[t] = StartNumber(t)
      BY <2>3, <2>4, PhaseFacts DEF StartNumber, Numbered
    <3>2. Lifecycle!Step(t)
      <4>1. CASE PhaseMap[t] = "new" /\ NumberMap[t] = 0 /\ StartNumber(t) = 1
        <5>1. /\ PhaseOf(s) = "started"
              /\ NumberOf(s) = NumberMap[t] + 1
          BY <2>2, <4>1
        <5> QED BY <1>k, <2>3, <4>1, <5>1, LifecycleStep
      <4>2. CASE PhaseMap[t] \in {"queued", "parked"} /\ NumberMap[t] = StartNumber(t)
        BY <1>k, <2>2, <2>3, <4>2, LifecycleStep
      <4> QED BY <3>1, <4>1, <4>2
    <3> QED BY <1>b, <3>2
  <2>5. CASE state[t].status = "running" /\ ~state[t].effect
    <3>1. state[t].effect = FALSE
      BY <1>k, <2>5 DEF TypeOK, Attempt
    <3>2. PhaseMap[t] = PhaseOf(s) /\ NumberMap[t] = NumberOf(s)
      BY <2>2, <2>3, <2>5, <3>1, PhaseFacts DEF StartNumber
    <3>3. UNCHANGED <<PhaseMap, NumberMap>>
      BY <2>3, <3>2 DEF PhaseMap, NumberMap
    <3>4. CASE UNCHANGED Over
      BY <3>3, <3>4 DEF Lifecycle!vars, PhaseMap, NumberMap
    <3> QED BY <1>a, <1>o, <3>4
  <2> QED BY <1>1, <2>4, <2>5 DEF Started, Startable
<1>2. ASSUME NEW e \in Executor, NEW t \in Target, MarkSideEffect(e, t) PROVE G
  <2> DEFINE s == [state[t] EXCEPT !.effect = TRUE]
  <2>1. /\ state[t].status = "running" /\ state[t].effect = FALSE
        /\ state' = [state EXCEPT ![t] = s]
    BY <1>2, <1>k DEF MarkSideEffect, MayRecord, WriteState, Owns, Ownership,
                      Live, TypeOK, Attempt
  <2>2. s.status = "running" /\ s.effect = TRUE /\ s.attempt = state[t].attempt
    BY <2>1, <1>k DEF TypeOK, Attempt
  <2> HIDE DEF s
  <2>3. /\ PhaseMap' = [PhaseMap EXCEPT ![t] = "exposed"]
        /\ NumberMap' = [NumberMap EXCEPT ![t] = NumberMap[t]]
        /\ PhaseMap[t] = "started"
    <3>1. /\ PhaseOf(s) = "exposed" /\ NumberOf(s) = state[t].attempt
          /\ PhaseOf(state[t]) = "started" /\ NumberOf(state[t]) = state[t].attempt
      BY <2>1, <2>2, PhaseFacts
    <3>2. /\ PhaseMap' = [PhaseMap EXCEPT ![t] = PhaseOf(s)]
          /\ NumberMap' = [NumberMap EXCEPT ![t] = NumberOf(s)]
          /\ PhaseMap[t] = PhaseOf(state[t])
          /\ NumberMap[t] = NumberOf(state[t])
      BY <1>k, <2>1, MapStep
    <3> QED BY <3>1, <3>2
  <2>4. Lifecycle!Step(t)
    BY <1>k, <2>3, LifecycleStep
  <2> QED BY <1>b, <2>4
<1>3. ASSUME NEW e \in Executor, NEW t \in Target, Outcome(e, t) PROVE G
  <2>1. PICK s \in Attempt :
          /\ s.status \in {"checkpoint_pending", "retry_scheduled", "failed",
                           "success_candidate"}
          /\ s.attempt = state[t].attempt
          /\ s.status = "retry_scheduled" => s.next = s.attempt + 1
          /\ state' = [state EXCEPT ![t] = s]
    BY <1>3 DEF Outcome
  <2>2. /\ PhaseMap' = [PhaseMap EXCEPT ![t] = PhaseOf(s)]
        /\ NumberMap' = [NumberMap EXCEPT ![t] = NumberOf(s)]
        /\ PhaseMap[t] \in {"started", "exposed"}
        /\ NumberMap[t] = state[t].attempt
    <3> state[t].status = "running" /\ state[t].effect \in BOOLEAN
      BY <1>3, <1>k DEF Outcome, TypeOK, Attempt
    <3> QED BY <1>k, <2>1, MapStep, PhaseFacts
  <2>3. \/ PhaseOf(s) \in {"parked", "sealed", "failed"} /\ NumberOf(s) = NumberMap[t]
        \/ PhaseOf(s) = "queued" /\ NumberOf(s) = NumberMap[t] + 1
    BY <2>1, <2>2, PhaseFacts
  <2>4. Lifecycle!Step(t)
    BY <1>k, <2>2, <2>3, LifecycleStep
  <2> QED BY <1>b, <2>4
<1>4. ASSUME NEW e \in Executor, NEW t \in Target, Takeover(e, t) PROVE G
  <2>1. PICK s \in Attempt :
          /\ \/ Uncertain(t) /\ s.status = "ambiguous"
             \/ /\ state[t].status = "ambiguous" \/ Uncertain(t)
                /\ \/ s.status = "failed"
                   \/ s.status = "retry_scheduled" /\ s.next = s.attempt + 1
             \/ state[t].status = "success_candidate" /\ s.status = "completed"
          /\ s.attempt = state[t].attempt
          /\ state' = [state EXCEPT ![t] = s]
    BY <1>4 DEF Takeover
  <2>2. /\ PhaseMap' = [PhaseMap EXCEPT ![t] = PhaseOf(s)]
        /\ NumberMap' = [NumberMap EXCEPT ![t] = NumberOf(s)]
        /\ PhaseMap[t] = PhaseOf(state[t])
        /\ NumberMap[t] = NumberOf(state[t])
    BY <1>k, <2>1, MapStep
  <2>3. /\ Uncertain(t) => PhaseMap[t] = "exposed"
        /\ NumberMap[t] = state[t].attempt
    <3> state[t].effect \in BOOLEAN
      BY <1>k DEF TypeOK, Attempt
    <3> QED BY <2>1, <2>2, PhaseFacts DEF Uncertain
  <2>4. \/ /\ PhaseMap[t] = "exposed" /\ PhaseOf(s) = "uncertain"
           /\ NumberOf(s) = NumberMap[t]
        \/ /\ PhaseMap[t] \in {"exposed", "uncertain"} /\ PhaseOf(s) = "failed"
           /\ NumberOf(s) = NumberMap[t]
        \/ /\ PhaseMap[t] \in {"exposed", "uncertain"} /\ PhaseOf(s) = "queued"
           /\ NumberOf(s) = NumberMap[t] + 1
        \/ /\ PhaseMap[t] = "sealed" /\ PhaseOf(s) = "done"
           /\ NumberOf(s) = NumberMap[t]
    BY <2>1, <2>2, <2>3, PhaseFacts
  <2>5. Lifecycle!Step(t)
    BY <1>k, <2>2, <2>4, LifecycleStep
  <2> QED BY <1>b, <2>5
<1>5. ASSUME NEW e \in Executor, NEW t \in Target, Retried(e, t) PROVE G
  <2>1. PICK s \in Attempt :
          /\ s.status = "retry_scheduled"
          /\ s.attempt = state[t].attempt + 1 /\ s.next = s.attempt
          /\ state' = [state EXCEPT ![t] = s]
    BY <1>5 DEF Retried
  <2>2. /\ PhaseMap' = [PhaseMap EXCEPT ![t] = "queued"]
        /\ NumberMap' = [NumberMap EXCEPT ![t] = NumberMap[t] + 1]
        /\ PhaseMap[t] = "failed"
    <3>1. /\ PhaseOf(s) = "queued" /\ NumberOf(s) = state[t].attempt + 1
          /\ PhaseOf(state[t]) = "failed" /\ NumberOf(state[t]) = state[t].attempt
      BY <1>5, <2>1, PhaseFacts DEF Retried
    <3>2. /\ PhaseMap' = [PhaseMap EXCEPT ![t] = PhaseOf(s)]
          /\ NumberMap' = [NumberMap EXCEPT ![t] = NumberOf(s)]
          /\ PhaseMap[t] = PhaseOf(state[t])
          /\ NumberMap[t] = NumberOf(state[t])
      BY <1>k, <2>1, MapStep
    <3> QED BY <3>1, <3>2
  <2>3. Lifecycle!Step(t)
    BY <1>k, <2>2, LifecycleStep
  <2> QED BY <1>b, <2>3
<1>6. ASSUME NEW e \in Executor, NEW t \in Target,
             Declined(e, t) \/ \E s \in Silent : Unrecorded(e, t, s)
      PROVE  G
  BY <1>a, <1>6 DEF Declined, Unrecorded, Aside
<1>7. ASSUME NEW e \in Executor, Onward(e) PROVE G
  BY <1>a, <1>7 DEF Onward, Aside
<1>8. ASSUME NEW p \in Process, Forget(p) PROVE G
  BY <1>a, <1>8 DEF Forget, durable
<1> QED BY <1>k, <1>a, <1>1, <1>2, <1>3, <1>4, <1>5, <1>6, <1>7, <1>8
        DEF StepKind

\* Seen through the mapping, the attempt store is an attempt lifecycle.
THEOREM ImplementsLifecycle == Spec => LifecycleSpec
<1>1. Ledger => Numbered
  BY DEF Ledger
<1>2. Spec => []Ledger
  BY InitLedger, NextLedger, PTL DEF Spec
<1> QED BY <1>1, <1>2, InitLifecycle, NextLifecycle, OwnershipInvariant, PTL
        DEF Spec, LifecycleSpec, Lifecycle!Spec
=============================================================================
