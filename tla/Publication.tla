----------------------------- MODULE Publication -----------------------------
(* How the nodes of one run publish the files their artifacts declare:     *)
(* ExecutionEnvelope.materialize (_execution.py) and materialize_artifact, *)
(* _commit_staged_outputs and _rollback_staged_outputs (store.py).         *)
(*                                                                         *)
(* A producer declares a sequence of output names. Two names are one place *)
(* when the file system says so (output_paths_equivalent); what is at a    *)
(* place is whose file it is. Any rename, unlink or removal may fail, and  *)
(* the process may die between any two of them.                            *)
EXTENDS Integers, Sequences, FiniteSets, SequencesExt

CONSTANTS Producer,      \* nodes, map items and their aggregates
          Output,        \* output names
          Place,         \* places in the project
          PlaceOf,       \* [Output -> Place]
          Declares,      \* [Producer -> Seq(Output)]
          ItemsOf,       \* [Producer -> SUBSET Producer], the items of an aggregate
          Older,         \* whose files are there before the run
          NoFile,
          MaxFaults      \* bound: failing operations and crashes

VARIABLES disk,       \* [Place -> Producer \cup {Older, NoFile}]
          owners,     \* <<place, producer>> pairs of the envelope
          turn,       \* who holds the output lock
          stage,      \* what the holder is at
          claimed,    \* what its claim added to owners
          backup,     \* [index -> file] of its rollback directory
          changes,    \* its changes so far: [index, saved, installed]
          unable,     \* some operation of its rollback failed
          outcome,    \* [Producer -> "none", "published", "failed", "refused"]
          keptAside,  \* files in rollback directories nobody removes any more
          before,     \* what was on disk when the holder began
          faults

pubVars == <<disk, owners, turn, stage, claimed, backup, changes, unable, outcome,
             keptAside, before, faults>>

NoTurn == "nobody"
Places(p) == [i \in DOMAIN Declares[p] |-> PlaceOf[Declares[p][i]]]
PlaceSet(p) == {Places(p)[i] : i \in DOMAIN Declares[p]}

\* materialize_artifact: two outputs of one artifact at one place
Duplicates(p) == Cardinality(PlaceSet(p)) < Len(Declares[p])

\* Mutant: an aggregate may take any place of a producer below another.
MayShareAll(p, owner) == owner = p \/ \E q \in Producer : owner \in ItemsOf[q]

\* _claim_outputs: its own places, and an aggregate those of its items
MayShare(p, owner) == owner = p \/ owner \in ItemsOf[p]

Conflict(p) ==
  \E o \in owners : o[1] \in PlaceSet(p) /\ ~MayShare(p, o[2])

Unowned(p) == {pl \in PlaceSet(p) : \A o \in owners : o[1] # pl}

Fault == faults < MaxFaults /\ faults' = faults + 1

Holders(p) == {p} \cup {q \in Producer : p \in ItemsOf[q]}

\* _validate_materialized_outputs: a producer that is completed is published
\* again only when its files are what is recorded; an aggregate's file is its
\* item's when their contents agree
Invalid(p) == \E pl \in PlaceSet(p) : disk[pl] \notin Holders(p)
Doubtful(p) == \E pl \in PlaceSet(p) : disk[pl] # p

Validate(p) ==
  /\ outcome[p] = "done" /\ turn # p /\ Doubtful(p)
  /\ outcome' = [outcome EXCEPT ![p] = "invalid"]
  /\ UNCHANGED <<disk, owners, turn, stage, claimed, backup, changes, unable,
                 keptAside, before, faults>>

\* materialize: the whole of it inside the output lock; a producer publishes
\* once in a process, an aggregate after its items
Enter(p) ==
  /\ turn = NoTurn
  /\ \A q \in ItemsOf[p] : outcome[q] = "published"
  /\ outcome[p] \in {"none", "done"}
  /\ outcome[p] = "done" => ~Invalid(p)
  /\ turn' = p /\ stage' = "stage"
  /\ claimed' = {} /\ backup' = <<>> /\ changes' = <<>> /\ unable' = FALSE
  /\ before' = disk
  /\ UNCHANGED <<disk, owners, outcome, keptAside, faults>>

LeaveTurn(result, out) ==
  /\ turn' = NoTurn /\ stage' = "idle"
  /\ owners' = IF result = "published" THEN owners ELSE owners \ claimed
  /\ outcome' = [outcome EXCEPT ![turn] = out]
  /\ claimed' = {} /\ backup' = <<>> /\ changes' = <<>> /\ unable' = FALSE
  /\ before' = before

\* the checks before anything is written, and the private staging directory
Stage ==
  /\ stage = "stage"
  /\ \/ /\ Duplicates(turn)
        /\ LeaveTurn("failed", "refused")
        /\ UNCHANGED faults
     \/ /\ ~Duplicates(turn)
        /\ Fault                                  \* a blob is missing, disk full
        /\ LeaveTurn("failed", "failed")
     \/ /\ ~Duplicates(turn)
        /\ stage' = "claim"
        /\ UNCHANGED <<owners, turn, claimed, backup, changes, unable, outcome,
                       before, faults>>
  /\ UNCHANGED <<disk, keptAside>>

Claim ==
  /\ stage = "claim"
  /\ \/ /\ Conflict(turn)
        /\ LeaveTurn("failed", "refused")
     \/ /\ ~Conflict(turn)
        /\ claimed' = Unowned(turn) \X {turn}
        /\ owners' = owners \cup claimed'
        /\ stage' = "commit"
        /\ UNCHANGED <<turn, backup, changes, unable, outcome, before>>
  /\ UNCHANGED <<disk, keptAside, faults>>

Here == Len(changes) + 1
Destination(i) == Places(turn)[i]

\* one output: an older file is moved to the rollback directory, the staged
\* one takes its place
Install ==
  /\ stage = "commit" /\ Here <= Len(Declares[turn])
  /\ LET old == disk[Destination(Here)] IN
       \/ /\ backup' = Append(backup, old)
          /\ changes' = Append(changes, [saved |-> old # NoFile, installed |-> TRUE])
          /\ disk' = [disk EXCEPT ![Destination(Here)] = turn]
          /\ UNCHANGED <<stage, faults>>
       \/ /\ Fault                    \* saved, and the staged file does not move
          /\ backup' = Append(backup, old)
          /\ changes' = Append(changes, [saved |-> old # NoFile, installed |-> FALSE])
          /\ disk' = [disk EXCEPT ![Destination(Here)] = NoFile]
          /\ stage' = "rollback"
       \/ /\ Fault                    \* the older file does not move
          /\ stage' = "rollback"
          /\ UNCHANGED <<backup, changes, disk>>
  /\ UNCHANGED <<owners, turn, claimed, unable, outcome, keptAside, before>>

\* the rollback directory is removed; when that fails the artifact is in place
\* and the producer is told that it is not
Finish ==
  /\ stage = "commit" /\ Here > Len(Declares[turn])
  /\ \/ LeaveTurn("published", "published") /\ UNCHANGED faults
     \/ Fault /\ LeaveTurn("failed", "failed")
  /\ UNCHANGED <<disk, keptAside>>

\* Mutant: puts the older file back and leaves the new one of a place that
\* had none.
UndoSavedOnly(i, removes, restores) ==
  disk' = [disk EXCEPT ![Destination(i)] =
             IF changes[i].saved /\ restores THEN backup[i] ELSE @]

\* one change undone: unlink what was installed, put back what was saved
Undo(i, removes, restores) ==
  disk' = [disk EXCEPT ![Destination(i)] =
             IF changes[i].saved /\ restores THEN backup[i]
             ELSE IF changes[i].installed /\ removes THEN NoFile
             ELSE @]

\* _rollback_staged_outputs: newest first, on and on past failing operations
RollBack ==
  /\ stage = "rollback" /\ changes # <<>>
  /\ LET i == Len(changes) IN
       /\ \/ /\ Undo(i, TRUE, TRUE)
             /\ backup' = Front(backup)
             /\ UNCHANGED <<unable, faults, keptAside>>
          \/ \E removes, restores \in BOOLEAN :
               /\ ~(removes /\ restores)
               /\ changes[i].installed \/ changes[i].saved
               /\ Fault
               /\ Undo(i, removes, restores)
               /\ unable' = TRUE
               /\ keptAside' = IF changes[i].saved /\ ~restores
                               THEN keptAside \cup {<<Destination(i), backup[i]>>}
                               ELSE keptAside
               /\ backup' = Front(backup)
       /\ changes' = Front(changes)
  /\ UNCHANGED <<owners, turn, stage, claimed, outcome, before>>

\* a rollback that failed keeps its directory and says that recovery is needed
RolledBack ==
  /\ stage = "rollback" /\ changes = <<>>
  /\ LeaveTurn("failed", IF unable THEN "unrecovered" ELSE "failed")
  /\ UNCHANGED <<disk, keptAside, faults>>

Recorded == {p \in Producer : outcome[p] = "published" /\ ItemsOf[p] = {}}

\* the process dies, or the run stops; a resume starts with an empty table of
\* owners and runs every producer again that has no completed record (an
\* aggregate never has one)
Stop ==
  /\ Fault
  /\ turn' = NoTurn /\ stage' = "idle"
  /\ owners' = {} /\ claimed' = {}
  /\ keptAside' = keptAside \cup
       {<<Destination(i), backup[i]>> : i \in {j \in DOMAIN changes : changes[j].saved}}
  /\ \E completed \in SUBSET Recorded :
       outcome' = [p \in Producer |->
                    IF p \in completed \/ outcome[p] = "done" THEN "done" ELSE "none"]
  /\ backup' = <<>> /\ changes' = <<>> /\ unable' = FALSE
  /\ UNCHANGED <<disk, before>>

PubInit ==
  /\ disk \in [Place -> {Older, NoFile}]
  /\ owners = {} /\ turn = NoTurn /\ stage = "idle" /\ claimed = {}
  /\ backup = <<>> /\ changes = <<>> /\ unable = FALSE
  /\ outcome = [p \in Producer |-> "none"]
  /\ keptAside = {} /\ before = disk /\ faults = 0

PubNext ==
  \/ \E p \in Producer : Enter(p) \/ Validate(p)
  \/ Stage \/ Claim \/ Install \/ Finish \/ RollBack \/ RolledBack \/ Stop

PubSpec == PubInit /\ [][PubNext]_pubVars

-----------------------------------------------------------------------------
\* What a producer published in this process stays where it is, or in the
\* directory of a rollback that could not put it back: another producer's
\* claim, its failure half-way and the undoing of it never take it away
\* (output-ownership.md:39). Only an aggregate of it may stand in its place.
PublishedKept ==
  turn = NoTurn =>
    \A p \in Producer : outcome[p] = "published" =>
      \A pl \in PlaceSet(p) : \E f \in Holders(p) :
        disk[pl] = f \/ <<pl, f>> \in keptAside

\* The same for what an earlier process of the run has completed: a run gives a
\* place to one producer (adoption.md:1782, output-ownership.md:10). The table
\* of owners is the process's, so it does not hold across a resume.
CompletedKept ==
  turn = NoTurn =>
    \A p \in Producer : outcome[p] \in {"published", "done"} =>
      \A pl \in PlaceSet(p) : \E f \in Holders(p) :
        disk[pl] = f \/ <<pl, f>> \in keptAside

\* A publication that is over has put all of its files in place or none of
\* them, and what was there before is there again, whichever operation failed;
\* or else it is one that asked for a recovery, and has set aside whatever of
\* the earlier files is not in place.
Whole(d) ==
  d = before \/ (\A pl \in Place : d[pl] = IF pl \in PlaceSet(turn) THEN turn ELSE before[pl])

AsideOrBack(d, kept) ==
  \A pl \in Place : d[pl] # before[pl] /\ before[pl] # NoFile => <<pl, before[pl]>> \in kept

Died == outcome'[turn] \in {"none", "done"}

EndsWhole ==
  turn # NoTurn /\ turn' = NoTurn /\ outcome' # outcome =>
    \/ Whole(disk')
    \/ (unable \/ Died) /\ AsideOrBack(disk', keptAside')

AllOrNothing == [][EndsWhole]_pubVars

=============================================================================
