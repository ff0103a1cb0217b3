---------------------------- MODULE MCScheduler ----------------------------
(* Instances of Scheduler for TLC.                                         *)
EXTENDS Scheduler

CONSTANTS A, B, C, M, S, i1, i2, k1, k2

\* two static nodes that share both pools, a map, a scan below it and a static
\* node below the scan
MixNode     == {A, B, M, S, C}
MixOrder    == <<A, B, M, S, C>>
MixDeps     == [n \in MixNode |-> CASE n = S -> {A, M} [] n = C -> {S} [] OTHER -> {}]
MixEntries  == [n \in {M, S} |-> IF n = M THEN <<i1, i2>> ELSE <<k1, k2>>]
MixDeclared == [n \in MixNode |-> CASE n \in {A, C} -> <<"api", "gpu">>
                                    [] n = B        -> <<"gpu", "api">>
                                    [] n = M        -> <<"api">>
                                    [] n = S        -> <<"gpu">>]
MixNeeds    == [n \in MixNode |-> CASE n = A        -> [api |-> 2, gpu |-> 1]
                                    [] n \in {B, C} -> [api |-> 1, gpu |-> 1]
                                    [] n = M        -> [api |-> 2, gpu |-> 0]
                                    [] n = S        -> [api |-> 0, gpu |-> 1]]
MixLimit    == [api |-> 2, gpu |-> 1]

ByName == [api |-> 1, gpu |-> 2]
=============================================================================
