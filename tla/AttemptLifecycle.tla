-------------------------- MODULE AttemptLifecycle --------------------------
(***************************************************************************)
(* What the attempt store promises about a run, without executors, leases, *)
(* fences or files: each target goes through numbered attempts, an attempt *)
(* whose effect may have happened is never started again as it stands, and *)
(* a run is over only when nothing is under way, and then for good: at     *)
(* most one target that was never begun may still start, and nothing moves *)
(* after it.                                                               *)
(* AttemptStore implements this specification (Lifecycle!Spec there).      *)
(***************************************************************************)
EXTENDS Naturals

CONSTANT Target

VARIABLES phase,   \* where each target's current attempt is
          number,  \* which attempt that is; of a queued retry, the next one
          over     \* the run was published as completed

vars == <<phase, number, over>>

Phase == {"new", "started", "exposed", "uncertain", "queued", "parked",
          "sealed", "done", "failed"}

TypeOK ==
  /\ phase \in [Target -> Phase]
  /\ number \in [Target -> Nat]
  /\ over \in BOOLEAN

Init ==
  /\ phase = [t \in Target |-> "new"]
  /\ number = [t \in Target |-> 0]
  /\ over = FALSE

Becomes(t, p) == phase' = [phase EXCEPT ![t] = p]
Advance(t)    == number' = [number EXCEPT ![t] = @ + 1]

\* a first attempt, numbered 1
Begin(t) == phase[t] = "new" /\ Becomes(t, "started") /\ Advance(t)

\* a queued retry takes the number it was queued with; a checkpoint is
\* revisited within its attempt
Restart(t) ==
  phase[t] \in {"queued", "parked"} /\ Becomes(t, "started") /\ UNCHANGED number

\* past this point the provider may have been called
Expose(t) == phase[t] = "started" /\ Becomes(t, "exposed") /\ UNCHANGED number

\* nobody knows whether it was
Lose(t) == phase[t] = "exposed" /\ Becomes(t, "uncertain") /\ UNCHANGED number

\* an outcome of an attempt under way
Settle(t) ==
  /\ phase[t] \in {"started", "exposed"}
  /\ \/ \E p \in {"parked", "sealed", "failed"} : Becomes(t, p) /\ UNCHANGED number
     \/ Becomes(t, "queued") /\ Advance(t)

\* an operator's verdict on an attempt that cannot go on
Rule(t) ==
  \/ /\ phase[t] \in {"exposed", "uncertain"}
     /\ Becomes(t, "failed") /\ UNCHANGED number
  \/ /\ phase[t] \in {"exposed", "uncertain", "failed"}
     /\ Becomes(t, "queued") /\ Advance(t)

Finish(t) == phase[t] = "sealed" /\ Becomes(t, "done") /\ UNCHANGED number

Quiet == \A t \in Target : phase[t] \in {"new", "done"}

Complete ==
  /\ Quiet
  /\ over' = TRUE
  /\ UNCHANGED <<phase, number>>

Step(t) ==
  \/ Begin(t) \/ Restart(t) \/ Expose(t) \/ Lose(t)
  \/ Settle(t) \/ Rule(t) \/ Finish(t)

Next ==
  \/ Complete
  \/ (over => Quiet) /\ UNCHANGED over /\ \E t \in Target : Step(t)

Spec == Init /\ [][Next]_vars
=============================================================================
