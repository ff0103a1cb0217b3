------------------------------ MODULE Capsule ------------------------------
(* AgentSpec.load (agents.py): the files of an agent capsule are read while  *)
(* somebody may be changing them. A file is read in one step, since one that *)
(* changes meanwhile is refused by its own stamps (as in FileReads); that a  *)
(* directory changes is told by the stamp of the directory alone.            *)
EXTENDS Naturals, Sequences, SequencesExt

CONSTANTS Dir, CapsuleFile,
          Content,    \* Content[d]: its files and directories, sorted
          Resources,  \* what agent.toml names, in the order it is read
          Skill,      \* the directories among them
          Missing,
          MaxRevisions  \* bound

VARIABLES tree,     \* the version of each file, None where there is none
          stamp,    \* mtime and ctime of each directory
          held,     \* what each directory has held
          loader,   \* how far load is: the directories it is in, what it has
          overwritten,   \* a file has been written in place
          left      \* changes left

capVars == <<tree, stamp, held, loader, overwritten, left>>

\* all that is in n, and n: what each set has that has n and, with a
\* directory, its content
Within(n) ==
  LET Closed(S) == \A d \in S \cap Dir : ToSet(Content[d]) \subseteq S
  IN {m \in Dir \cup CapsuleFile :
        \A S \in SUBSET (Dir \cup CapsuleFile) : n \in S /\ Closed(S) => m \in S}

\* Directories are a tree, and nothing is declared by two resources: `owners`
\* of _load_bound refuses what is met twice.
ASSUME CapsuleAssumption ==
  /\ Dir \cap CapsuleFile = {} /\ \A S \in SUBSET (Dir \cup CapsuleFile) : S # Missing
  /\ Content \in [Dir -> Seq(Dir \cup CapsuleFile)]
  /\ \A d, e \in Dir : ToSet(Content[d]) \cap ToSet(Content[e]) # {} => d = e
  /\ \A d \in Dir : \A n \in ToSet(Content[d]) : d \notin Within(n)
  /\ Resources \in Seq(Dir \cup CapsuleFile)
  /\ \A i, j \in DOMAIN Resources : Within(Resources[i]) \cap Within(Resources[j]) # {} => i = j
  /\ Skill = Dir \cap UNION {Within(Resources[i]) : i \in DOMAIN Resources}

Listing(d, t) == [f \in ToSet(Content[d]) \cap CapsuleFile |-> t[f]]
Home(f) == CHOOSE d \in Dir : f \in ToSet(Content[d])

-----------------------------------------------------------------------------
(* Somebody edits the capsule. *)

Change(f, new, moved) ==
  /\ left > 0 /\ left' = left - 1
  /\ tree' = [tree EXCEPT ![f] = new]
  /\ stamp' = IF moved THEN [stamp EXCEPT ![Home(f)] = @ + 1] ELSE stamp
  /\ held' = [d \in Dir |-> held[d] \cup {Listing(d, tree')}]
  /\ UNCHANGED loader

Newest == MaxRevisions - left + 1

\* a new file, or another in the place of the old one
ReplaceFile(f) == Change(f, Newest, TRUE) /\ UNCHANGED overwritten
Delete(f) == tree[f] # Missing /\ Change(f, Missing, TRUE) /\ UNCHANGED overwritten
WriteInPlace(f) == tree[f] # Missing /\ Change(f, Newest, FALSE) /\ overwritten' = TRUE

-----------------------------------------------------------------------------
(* load *)

Top == Head(loader.walk)
Refuse == loader' = [loader EXCEPT !.at = "refused"]
Loading(from) == loader.at = from /\ UNCHANGED <<tree, stamp, held, overwritten, left>>

\* _open_capsule_directory
Entered(d) == [dir |-> d, before |-> stamp[d], names |-> Missing]

\* _validate_capsule_tree: all of it is walked once, for the names
Begin(root) ==
  /\ Loading("start")
  /\ loader' = [loader EXCEPT !.at = "tree", !.walk = <<Entered(root)>>]

Walking == loader.at \in {"tree", "resource"} /\ loader.walk # <<>>

\* os.listdir
ListNames ==
  /\ Walking /\ Top.names = Missing /\ Loading(loader.at)
  /\ LET there == {n \in ToSet(Content[Top.dir]) : n \in Dir \/ tree[n] # Missing}
     IN loader' = [loader EXCEPT !.walk = <<[Top EXCEPT !.names = there]>> \o Tail(@)]

\* Mutant: what the directory was before is not compared.
StampsIgnored(frame) == TRUE

\* the `finally` of _walk_capsule_fd
Unmoved(frame) == frame.before = stamp[frame.dir]

\* names are sorted
First(d, names) ==
  Content[d][CHOOSE k \in DOMAIN Content[d] :
               Content[d][k] \in names /\ \A j \in 1..(k-1) : Content[d][j] \notin names]

Rest(n) == <<[Top EXCEPT !.names = @ \ {n}]>> \o Tail(loader.walk)

\* _walk_capsule_fd: the next name, read unless only the names are wanted
Advance ==
  /\ Walking /\ Top.names # Missing /\ Loading(loader.at)
  /\ IF Top.names = {}
     THEN IF Unmoved(Top) THEN loader' = [loader EXCEPT !.walk = Tail(@)] ELSE Refuse
     ELSE LET n == First(Top.dir, Top.names)
          IN IF n \in Dir THEN loader' = [loader EXCEPT !.walk = <<Entered(n)>> \o Rest(n)]
             ELSE IF tree[n] = Missing THEN Refuse
             ELSE loader' = [loader EXCEPT !.walk = Rest(n),
                               !.got = IF loader.at = "tree" THEN @ ELSE [@ EXCEPT ![n] = tree[n]]]

\* _load_bound, one resource after the other: the manifest, the system prompt,
\* the skills and the hooks. None that is declared twice gets here.
Resource ==
  /\ loader.at \in {"tree", "resource"} /\ loader.walk = <<>> /\ Loading(loader.at)
  /\ IF loader.next > Len(Resources) THEN loader' = [loader EXCEPT !.at = "loaded"]
     ELSE LET r == Resources[loader.next]
              on == [loader EXCEPT !.at = "resource", !.next = @ + 1]
          IN IF r \in Dir THEN loader' = [on EXCEPT !.walk = <<Entered(r)>>]
             ELSE IF tree[r] = Missing THEN Refuse
             ELSE loader' = [on EXCEPT !.got[r] = tree[r]]

-----------------------------------------------------------------------------

CapInit ==
  /\ tree \in [CapsuleFile -> {0, Missing}] /\ stamp = [d \in Dir |-> 0]
  /\ held = [d \in Dir |-> {Listing(d, tree)}]
  /\ loader = [at |-> "start", walk |-> <<>>, next |-> 1, got |-> [f \in CapsuleFile |-> Missing]]
  /\ overwritten = FALSE /\ left = MaxRevisions

CapNext ==
  \/ \E f \in CapsuleFile : ReplaceFile(f) \/ Delete(f) \/ WriteInPlace(f)
  \/ Begin("root")
  \/ ListNames
  \/ Advance
  \/ Resource

CapSpec == CapInit /\ [][CapNext]_capVars

-----------------------------------------------------------------------------

\* What was loaded of a directory is all that the directory held at one
\* moment, so a skill is never put together from two editions of it, as long
\* as its files are replaced and not written in place. (Of two directories the
\* moments may differ.) It is these bytes that the digest names and that are
\* staged for the agent (agent-node.md:44, "capsule snapshot").
SkillWhole ==
  loader.at = "loaded" /\ ~overwritten => \A d \in Skill : Listing(d, loader.got) \in held[d]

=============================================================================
