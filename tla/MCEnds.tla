------------------------------- MODULE MCEnds -------------------------------
(* What has begun ends: one agent task (agents.py, pi.py), one target of a  *)
(* run that is resumed after every crash (_runstate.py), and calls of two   *)
(* threads (calling.py, slots.py). The three share no state; `part` says of *)
(* which a behaviour is.                                                    *)
EXTENDS AgentTask, LLMCaller, TLC

CONSTANTS t1, e1, p1, a, b
VARIABLES part,
          v1, v2, v3, v4, v5, v6, v7, v8, v9, v10, v11, v12

storeVars == <<v1, v2, v3, v4, v5, v6, v7, v8, v9, v10, v11, v12>>

-----------------------------------------------------------------------------
(* One executor after the other, one target, no attempt beyond the third.   *)

Store == INSTANCE AttemptStore WITH
  Target <- {t1}, Deps <- [t \in {t1} |-> {}], Executor <- {e1}, Process <- {p1}, HostOf <- (e1 :> p1),
  Workers <- 1, MaxAttempts <- 2, LastAttempt <- 3, Fault <- {},
  runStatus <- v1, ledger <- v2, state <- v3, pair <- v4, session <- v5, verdict <- v6,
  insync <- v7, mutated <- v8, admitted <- v9, lease <- v10, stage <- v11, crossed <- v12

-----------------------------------------------------------------------------
(* Two threads of a process, two keys, one request slot, and a budget that    *)
(* answers may overshoot.                                                   *)

MCHostOf == (a :> p1) @@ (b :> p1)

-----------------------------------------------------------------------------

NoStore == /\ v1 = 0 /\ v2 = 0 /\ v3 = 0 /\ v4 = 0 /\ v5 = 0 /\ v6 = 0
           /\ v7 = 0 /\ v8 = 0 /\ v9 = 0 /\ v10 = 0 /\ v11 = 0 /\ v12 = 0

EndsInit ==
  /\ TaskInit /\ Init
  /\ \/ part \in {"task", "calls"} /\ NoStore
     \/ part = "store" /\ Store!Init

OfTask(A)  == part = "task"  /\ A /\ UNCHANGED <<part, storeVars, vars>>
OfStore(A) == part = "store" /\ A /\ UNCHANGED <<part, taskVars, vars>>
OfCalls(A) == part = "calls" /\ A /\ UNCHANGED <<part, taskVars, storeVars>>

EndsNext == OfTask(TaskNext) \/ OfStore(Store!Next) \/ OfCalls(Next)
endsVars == <<part, taskVars, storeVars, vars>>

\* FairSpec of each of the three. Of a behaviour all but one are disabled for
\* good, so that what is fair to a disjunction is fair to the one that is not.
EndsSpec ==
  /\ EndsInit /\ [][EndsNext]_endsVars
  /\ WF_endsVars(\/ OfTask(Execute)
                 \/ OfStore(Store!Progress(e1))
                 \/ OfCalls(Progress(a)))
  /\ WF_endsVars(OfStore(Store!Initialize(e1)) \/ OfCalls(Progress(b)))
  /\ WF_endsVars(OfStore(Store!Exit(p1)))

-----------------------------------------------------------------------------
\* A task ends, whatever its process writes or does not write, unless it is
\* held for ever in a write to a process that runs and does not read (pi.py,
\* the deadline of PiRpcAdapter.run, which does not cover _send_json).
AgentReturns == []<>~Blocked => (part = "task" ~> part = "task" /\ at = "over")

Running == part = "store" /\ v3[t1].status = "running"

\* If processes stop dying, an attempt left running is settled: resumed to an
\* outcome, or recorded as ambiguous (_runstate.py, AttemptStore.prepare).
RunningSettles ==
  (<>[][~OfStore(Store!Crash(p1))]_endsVars) => (Running ~> ~Running)

=============================================================================
