----------------------------- MODULE MCNodeCache -----------------------------
(* A list, a scan over it, and a node that consumes a view of the scan, which  *)
(* is the same for both contents.                                             *)
EXTENDS NodeCache, TLC

MCOrder == <<"list", "scan", "sum">>
MCFnOf == [n \in Node |-> "f"]
MCDeps == [list |-> {}, scan |-> {"list"}, sum |-> {"scan"}]
MCItemsFrom == [scan |-> "list"]
MCEntries == [c \in Content |-> IF c = 0 THEN <<"i", "j">> ELSE <<"j">>]
MCFiles == [n \in Node |-> IF n = "list" THEN {"p"} ELSE {}]
MCItemFiles == [i \in Item |-> {"q"}]
MCReturns == [n \in Node |-> IF n = "sum" THEN {0} ELSE Content]
MCView == [c \in Content |-> 0]
MCConsumes == {<<"sum", "scan">>}
MCCarryOf == [c \in Content |-> c]
MCAggregate(s) == s[Len(s)]
MCPolicy == [n \in Node |-> "auto"]

Symmetry == Permutations(Run)
=============================================================================
