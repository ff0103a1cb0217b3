------------------------------- MODULE RunLog -------------------------------
(* What the durable records of a run promise: every target has a log of    *)
(* its attempts that only grows, one entry at a time, and the logs stop    *)
(* for good once a write was cut short: somebody has to look at the files  *)
(* (docs/contracts/retry-resume.md:50).                                    *)
EXTENDS Naturals, Sequences

CONSTANTS Target,   \* node names
          Digest    \* contents of records

VARIABLES log,      \* per target the records written, oldest first
          damaged   \* some write was cut short

vars == <<log, damaged>>

\* the attempts the next record may be of: the first one, the latest one
\* again, or the one after it
Following(t) ==
  IF log[t] = <<>> THEN {1}
  ELSE LET n == log[t][Len(log[t])].attempt IN {n, n + 1}

Fresh(d) == \A t \in Target : \A i \in DOMAIN log[t] : log[t][i].digest # d

Record(t) ==
  /\ ~damaged
  /\ \E n \in Following(t), d \in Digest :
       Fresh(d) /\ log' = [log EXCEPT ![t] = Append(@, [attempt |-> n, digest |-> d])]
  /\ UNCHANGED damaged

Damage == ~damaged /\ damaged' = TRUE /\ UNCHANGED log

Init == log = [t \in Target |-> <<>>] /\ damaged = FALSE
Next == Damage \/ \E t \in Target : Record(t)
Spec == Init /\ [][Next]_vars
=============================================================================
