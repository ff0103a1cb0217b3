--------------------------- MODULE MCAttemptStore ---------------------------
(* Instances of AttemptStore: one executor over three targets, and two in  *)
(* one process beside one in another.                                      *)
EXTENDS AttemptStore, TLC

CONSTANTS t1, t2, t3, e1, e2, e3, p1, p2

Alone   == (e1 :> p1)
Several == (e1 :> p1) @@ (e2 :> p1) @@ (e3 :> p2)

\* t3 is made of t1; t2 depends on nothing
Fork  == (t1 :> {}) @@ (t2 :> {}) @@ (t3 :> {t1})
Loose == [t \in Target |-> {}]

SymTargets == Permutations(Target)
SymStores  == Permutations({e1, e2})
=============================================================================
