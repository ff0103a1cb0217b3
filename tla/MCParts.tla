------------------------------- MODULE MCParts -------------------------------
(* Six components that share no state with one another, each on an instance  *)
(* of its own. A behaviour is one of one of them: `part` says of which. The  *)
(* variables of the others stand still in it.                                *)
EXTENDS Publication, Retention, Throttle, FileReads, Capsule, Registry, TLC

VARIABLE part

-----------------------------------------------------------------------------
(* store.py, _execution.py (Publication): two nodes that meet at two places, *)
(* a node that names one place twice, a map item and its aggregate.          *)

CONSTANTS n1, n2, twice, item, map, P, Q, R

MCPlaceOf == [a |-> P, alias |-> P, b |-> Q, c |-> R]
MCDeclares == [q \in Producer |->
  CASE q = n1    -> <<"a", "b">>
    [] q = n2    -> <<"c", "alias">>
    [] q = twice -> <<"a", "alias">>
    [] OTHER     -> <<"c">>]
MCItemsOf == [q \in Producer |-> IF q = map THEN {item} ELSE {}]

\* nobody publishes
NoPublication ==
  /\ disk = [pl \in Place |-> NoFile] /\ before = disk
  /\ owners = {} /\ turn = NoTurn /\ stage = "idle" /\ claimed = {}
  /\ backup = <<>> /\ changes = <<>> /\ unable = FALSE
  /\ outcome = [p \in Producer |-> "none"] /\ keptAside = {} /\ faults = 0

-----------------------------------------------------------------------------
(* store.py, blobs.py: two processes that produce for one key, with one of   *)
(* two blobs, beside a collection.                                           *)

CONSTANTS p1, p2, theKey, b1, b2

-----------------------------------------------------------------------------
(* agents.py: a manifest, and a skill of two files and a directory with two  *)
(* more, loaded while somebody edits them.                                   *)

MCContent == [root |-> <<"agent.toml", "skill">>, skill |-> <<"a", "b", "deep">>,
              deep |-> <<"c", "d">>]
MCResources == <<"agent.toml", "skill">>

\* a directory that nobody loads
NoCapsule ==
  /\ tree = [f \in CapsuleFile |-> Missing] /\ stamp = [d \in Dir |-> 0] /\ held = [d \in Dir |-> {}]
  /\ loader = [at |-> "start", walk |-> <<>>, next |-> 1, got |-> tree]
  /\ overwritten = FALSE /\ left = 0

-----------------------------------------------------------------------------
(* dag.py, subgraph.py: two ordinary names, one template of two nodes and    *)
(* one port, two namespaces; deps that lead forward, back and across one.    *)

MCCalled == {<<"a">>, <<"b">>, <<"m", "x">>}
MCEach == {<<<<<<"a">>, <<"b">>>>, <<<<>>, <<<<"a">>>>>>, {}>>,
           <<<<<<"a">>, <<"b">>>>, <<<<<<"m", "x">>>>, <<>>>>, {<<"m", "x">>}>>}
MCDepLists == {<<>>, <<<<"a">>>>, <<<<"m", "x">>>>}
MCLocalDeps == {<<>>, <<"y">>, <<"x", "p">>}
MCSources == {<<"b">>}
MCProjected == {{}, {<<"a">>}}

-----------------------------------------------------------------------------
(* slots.py, retry.py (Throttle): three clients for two slots.               *)
(* _safe_io.py, calling.py (FileReads): one reader, and a file that is       *)
(* replaced, removed or written in place.                                    *)

\* the path of a reader that does not come
NoReads ==
  /\ path = Nothing /\ file = <<>> /\ kind = "cache" /\ rd = Idle /\ past = {}
  /\ edited = FALSE /\ silent = FALSE /\ removed = FALSE /\ pathChanges = 0

-----------------------------------------------------------------------------

PartsInit ==
  /\ Init /\ RetInit /\ RegInit
  /\ \/ part = "publication" /\ PubInit /\ NoReads /\ NoCapsule
     \/ part = "reads" /\ ReadsInit /\ NoPublication /\ NoCapsule
     \/ part = "capsule" /\ CapInit /\ NoPublication /\ NoReads
     \/ part \in {"throttle", "retention", "registry"} /\ NoPublication /\ NoReads /\ NoCapsule

PartsNext ==
  /\ UNCHANGED part
  /\ part = "publication" \/ UNCHANGED pubVars
  /\ part = "retention" \/ UNCHANGED retVars
  /\ part = "throttle" \/ UNCHANGED vars
  /\ part = "reads" \/ UNCHANGED readsVars
  /\ part = "capsule" \/ UNCHANGED capVars
  /\ part = "registry" \/ UNCHANGED regVars
  /\ \/ part = "publication" /\ PubNext
     \/ part = "retention" /\ RetNext
     \/ part = "throttle" /\ Next
     \/ part = "reads" /\ ReadsNext
     \/ part = "capsule" /\ CapNext
     \/ part = "registry" /\ RegNext

PartsSpec ==
  PartsInit /\ [][PartsNext]_<<part, pubVars, retVars, vars, readsVars, capVars, regVars>>

-----------------------------------------------------------------------------
Symmetry == Permutations({p1, p2}) \cup Permutations({b1, b2}) \cup Permutations(Client)
=============================================================================
