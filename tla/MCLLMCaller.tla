---------------------------- MODULE MCLLMCaller ----------------------------
(* Instances of LLMCaller for TLC.                                         *)
EXTENDS LLMCaller, TLC

CONSTANTS a, b, c, p1, p2

\* two threads of one process and a second process
TwoAndOne == (a :> p1) @@ (b :> p1) @@ (c :> p2)

SymThreads == Permutations({a, b})
=============================================================================
