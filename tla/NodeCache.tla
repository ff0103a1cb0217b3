------------------------------ MODULE NodeCache ------------------------------
(* What the cache of nodes promises: an artifact is taken from it only when  *)
(* the function would have been given the same. Processes load the code,     *)
(* plan, run, crash and resume, while files and sources are edited and other *)
(* runs write the same cache.                                                *)
(*                                                                           *)
(* An artifact is its content, one of a few; `from`, what its function was   *)
(* given, is a history variable. A target is <<node, None>> or <<dynamic     *)
(* node, item>>; <<dynamic node, None>> is the aggregate. What prepare says  *)
(* of interrupted work is the matter of AttemptStore, integrity and garbage  *)
(* collection of Retention.                                                  *)
EXTENDS Naturals, Sequences, SequencesExt

CONSTANTS Run, Node, Item, Fn, File, Content, None,
          Order,        \* the nodes, topologically
          FnOf,         \* the function of a node; a mounted one has several
          Deps,
          ItemsFrom,    \* on dynamic nodes: the node whose artifact lists the items
          Scan,         \* dynamic nodes whose items carry
          Entries,      \* the list in an artifact
          Files,        \* declared for a node
          ItemFiles,    \* files_fn
          Returns,      \* the contents a node may have
          Consumes,     \* <<node, dependency>>: it is given View of the artifact
          View, CarryOf,
          Aggregate(_),  \* of the contents of the items
          Policy,       \* "auto", "refresh", "off"
          Gated,        \* nodes whose function passes a checkpoint
          Forcible,     \* targets a run may be forced to recompute
          MaxEdits,     \* bound
          MaxCrashes,   \* bound
          MaxTogether,  \* bound: processes at a time
          LiveEdits     \* sources are edited while a process has loaded them

VARIABLES text,      \* the functions as they are written
          disk,      \* the declared files
          cache,     \* key |-> [content, from, origin]
          phase, loaded, snap, forced, approval,
          identity,  \* of the run's manifest: sources and files
          ledger,    \* dynamic files of the run's manifest
          open,      \* dynamic nodes this process has bound to it
          state,     \* of the targets begun: stage, key, content, from, origin, hit
          unchecked, \* targets a former process has left, not yet looked at
          forecast, calm, edits, crashes

run == <<phase, loaded, snap, forced, approval, identity, ledger, open, state, unchecked,
         forecast, calm, crashes>>
vars == <<text, disk, cache, edits, run>>

Dynamic == DOMAIN ItemsFrom
Static == Node \ Dynamic
StaticFiles == UNION {Files[n] : n \in Node}

-----------------------------------------------------------------------------
(* The key of a target, from the contents of the nodes before it.            *)

\* the dependencies a function is given; the list of items it is not
Inputs(n) == Deps[n] \ (IF n \in Dynamic THEN {ItemsFrom[n]} ELSE {})

\* each node is ordered once; the items of a map are told apart (dag.py:4252);
\* nodes that share a function and what it is given share its checkpoints
ASSUME NodeCacheAssumption ==
  /\ None \notin Content /\ None \notin Item
  /\ Order \in Seq(Node) /\ IsInjective(Order)
  /\ Deps \in [Node -> SUBSET Node]
  /\ \A n \in Dynamic : n \in Node /\ ItemsFrom[n] \in Deps[n]
  /\ Entries \in [Content -> Seq(Item)] /\ \A c \in Content : IsInjective(Entries[c])
  /\ \A c \in Content : \A s \in [DOMAIN Entries[c] -> Content] : Aggregate(s) \in Content
  /\ Returns \in [Node -> SUBSET Content]
  /\ \A m, n \in Node : FnOf[m] = FnOf[n] /\ Inputs(m) = Inputs(n) =>
                          (m \in Gated <=> n \in Gated)

\* what the function sees of its dependencies
Seen(con, n) ==
  [d \in Inputs(n) |-> IF <<n, d>> \in Consumes THEN View[con[d]] ELSE con[d]]

Key(con, files, n, i, carry) ==
  [source |-> <<FnOf[n], text[FnOf[n]]>>, upstream |-> Seen(con, n), files |-> files,
   item |-> i, carry |-> carry]

FilesOf(n, i) == Files[n] \cup (IF i = None THEN {} ELSE ItemFiles[i])

\* the items of a map, from the artifact that lists them
Listing(con, n) == LET src == con[ItemsFrom[n]] IN IF src = None THEN <<>> ELSE Entries[src]

Lookup(k, n, t, force) ==
  IF Policy[n] = "auto" /\ {t, <<n, None>>} \cap force = {} /\ k \in DOMAIN cache
  THEN cache[k].content ELSE None

-----------------------------------------------------------------------------
(* Dag.plan: a forecast from the cache as it is.                             *)

\* Mutant: plan forgets the files of the items.
OnDiskDeclared(n, i) == [p \in Files[n] |-> disk[p]]

OnDisk(n, i) == [p \in FilesOf(n, i) |-> disk[p]]

\* the contents of the items of n as far as the cache has them, and the carry
\* before each; a scan has nothing behind an item that is missing
Chain(con, n, force) ==
  LET its == Entries[con[ItemsFrom[n]]]
      found[k \in 0..Len(its)] ==
        IF k = 0 THEN [carry |-> None, key |-> None, got |-> None, past |-> TRUE]
        ELSE LET past == found[k-1].past /\ (n \in Scan /\ k > 1 => found[k-1].got # None)
                 carry == IF n \in Scan /\ k > 1 /\ past THEN CarryOf[found[k-1].got] ELSE None
                 key == Key(con, OnDisk(n, its[k]), n, its[k], carry)
             IN  [carry |-> carry, key |-> key, past |-> past,
                  got |-> IF past THEN Lookup(key, n, <<n, its[k]>>, force) ELSE None]
  IN  [k \in DOMAIN its |-> found[k]]

Blocked(s, n) == \E d \in Deps[n] : s.con[d] = None

Judged(s, n, force) ==
  LET its == IF n \in Dynamic THEN Listing(s.con, n) ELSE <<>>
      all == {<<n, its[k]>> : k \in DOMAIN its}
  IN  IF Blocked(s, n)
      THEN [s EXCEPT !.unknown = @ \cup {<<n, None>>} \cup IF n \in Scan THEN {} ELSE all]
      ELSE IF n \in Static
      THEN LET got == Lookup(Key(s.con, OnDisk(n, None), n, None, None), n, <<n, None>>, force)
           IN  IF got = None THEN [s EXCEPT !.miss = @ \cup {<<n, None>>}]
               ELSE [s EXCEPT !.hit = @ \cup {<<n, None>>}, !.con[n] = got]
      ELSE LET ch == Chain(s.con, n, force)
               hits == {k \in DOMAIN its : ch[k].got # None}
               late == {k \in DOMAIN its : ~ch[k].past}
               whole == its # <<>> /\ hits = DOMAIN its
           IN  [hit |-> s.hit \cup {<<n, its[k]>> : k \in hits}
                              \cup (IF whole THEN {<<n, None>>} ELSE {}),
                miss |-> s.miss \cup {<<n, its[k]>> : k \in DOMAIN its \ (hits \cup late)}
                                \cup (IF whole THEN {} ELSE {<<n, None>>}),
                unknown |-> s.unknown \cup {<<n, its[k]>> : k \in late},
                con |-> IF whole
                        THEN [s.con EXCEPT ![n] = Aggregate([k \in DOMAIN its |-> ch[k].got])]
                        ELSE s.con]

Plan(force) ==
  LET s[k \in 0..Len(Order)] ==
        IF k = 0
        THEN [hit |-> {}, miss |-> {}, unknown |-> {}, con |-> [n \in Node |-> None]]
        ELSE Judged(s[k-1], Order[k], force)
  IN  s[Len(Order)]

(* Dag.explain: the components a target would have now, from the cache alone. *)
Current(n) ==
  LET con[k \in 0..Len(Order)] ==
        IF k = 0 THEN [m \in Node |-> None]
        ELSE LET m == Order[k]
                 c == con[k-1]
                 ch == Chain(c, m, {})
             IN  IF \E d \in Deps[m] : c[d] = None THEN c
                 ELSE IF m \in Static
                 THEN [c EXCEPT ![m] = Lookup(Key(c, OnDisk(m, None), m, None, None), m,
                                              <<m, None>>, {})]
                 ELSE IF \E j \in DOMAIN ch : ch[j].got = None THEN c
                 ELSE [c EXCEPT ![m] = Aggregate([j \in DOMAIN ch |-> ch[j].got])]
  IN  con[Len(Order)]

\* Mutant: an item of a scan is explained with the carry the scan begins with.
ExplainedFirst(n, i) == Key(Current(n), OnDisk(n, i), n, i, None)

Explained(n, i) ==
  LET con == Current(n)
      its == Entries[con[ItemsFrom[n]]]
  IN  IF i = None THEN Key(con, OnDisk(n, i), n, i, None)
      ELSE Chain(con, n, {})[CHOOSE k \in DOMAIN its : its[k] = i].key

-----------------------------------------------------------------------------
(* A run.                                                                    *)

Have(r, t) == t \in DOMAIN state[r] \ unchecked[r] /\ state[r][t].stage = "completed"
Got(r, t) == state[r][t].content

\* what a run has of its targets
Taken(r) == [t \in {u \in DOMAIN state[r] : Have(r, u)} |-> Got(r, t)]

\* a static node has its artifact when its target has; a dynamic one when it is
\* bound and all of its items have theirs
Known(con, n, taken, bound) ==
  IF n \in Static
  THEN IF <<n, None>> \in DOMAIN taken THEN [con EXCEPT ![n] = taken[<<n, None>>]] ELSE con
  ELSE LET its == Listing(con, n) IN
       IF con[ItemsFrom[n]] # None /\ n \in bound
          /\ \A j \in DOMAIN its : <<n, its[j]>> \in DOMAIN taken
       THEN [con EXCEPT ![n] = Aggregate([j \in DOMAIN its |-> taken[<<n, its[j]>>]])]
       ELSE con

ContentsOf(taken, bound) ==
  LET con[k \in 0..Len(Order)] ==
        IF k = 0 THEN [m \in Node |-> None] ELSE Known(con[k-1], Order[k], taken, bound)
  IN  con[Len(Order)]

Contents(r) == ContentsOf(Taken(r), open[r])

\* _FileSnapshot: files of the nodes at the start of the process, files of items
\* when their node is bound, the former first
Captured(r, n, i) ==
  [p \in FilesOf(n, i) |-> IF p \in StaticFiles THEN snap[r][p] ELSE ledger[r][n][p]]

ItemsOf(r, n) == Listing(Contents(r), n)

Before(r, n, i) == LET its == ItemsOf(r, n)
                       k == CHOOSE j \in DOMAIN its : its[j] = i
                   IN  {its[j] : j \in 1..(k-1)}

Carry(r, n, i) ==
  LET its == ItemsOf(r, n)
      k == CHOOSE j \in DOMAIN its : its[j] = i
  IN  IF n \notin Scan \/ k = 1 THEN None ELSE CarryOf[Got(r, <<n, its[k-1]>>)]

KeyOf(r, n, i) ==
  Key(Contents(r), Captured(r, n, i), n, i, IF i = None THEN None ELSE Carry(r, n, i))

\* what the function is given, and what it is
Given(r, n, i) ==
  LET con == Contents(r) IN
  [code |-> <<FnOf[n], loaded[r][FnOf[n]]>>,
   upstream |-> [d \in Inputs(n) |-> IF <<n, d>> \in Consumes THEN View[con[d]] ELSE con[d]],
   files |-> Captured(r, n, i), item |-> i,
   carry |-> IF i = None THEN None ELSE Carry(r, n, i),
   approved |-> IF n \in Gated THEN approval[r] ELSE None]

\* what a target needs to begin, and has from then on
Standing(r, n, i) ==
  /\ \A d \in Deps[n] : Contents(r)[d] # None
  /\ n \in Dynamic => /\ n \in open[r] /\ i \in ToSet(ItemsOf(r, n))
                      /\ n \in Scan => \A j \in Before(r, n, i) : Have(r, <<n, j>>)

Ready(r, n, i) == phase[r] = "running" /\ Standing(r, n, i)

Targets == (Static \X {None}) \cup (Dynamic \X Item)

With(f, x, y) == [z \in DOMAIN f \cup {x} |-> IF z = x THEN y ELSE f[z]]
Set(r, t, s) == state' = [state EXCEPT ![r] = With(@, t, s)]
Goto(r, p) == phase' = [phase EXCEPT ![r] = p]
Alive == {r \in Run : phase[r] \in {"loaded", "running"}}

\* the process imports the code
Load(r) ==
  /\ phase[r] = "idle" /\ Cardinality(Alive) < MaxTogether /\ Goto(r, "loaded")
  /\ loaded' = [loaded EXCEPT ![r] = text]
  /\ UNCHANGED <<text, disk, cache, edits, snap, forced, approval, identity, ledger, open,
                 state, unchecked, forecast, calm, crashes>>

\* plan, then run; sources and files of the nodes are read once
Begin(r) ==
  /\ phase[r] = "loaded" /\ Goto(r, "running")
  /\ \E f \in SUBSET Forcible :
       /\ forced' = [forced EXCEPT ![r] = f]
       /\ forecast' = [forecast EXCEPT ![r] = Plan(f)]
  /\ \E a \in IF Gated = {} THEN {0} ELSE {0, 1} : approval' = [approval EXCEPT ![r] = a]
  /\ calm' = [calm EXCEPT ![r] = TRUE]
  /\ snap' = [snap EXCEPT ![r] = [p \in StaticFiles |-> disk[p]]]
  /\ identity' = [identity EXCEPT ![r] = <<text, [p \in StaticFiles |-> disk[p]]>>]
  /\ UNCHANGED <<text, disk, cache, edits, loaded, ledger, open, state, unchecked, crashes>>

\* the ledger of the manifest: what was observed first stays
Bound(r, n, now) == ledger[r][n] = None \/ ledger[r][n] = now

Bind(r, n) ==
  LET files == UNION {ItemFiles[i] : i \in ToSet(ItemsOf(r, n))}
      now == [p \in files |-> IF p \in StaticFiles THEN snap[r][p] ELSE disk[p]]
  IN  /\ phase[r] = "running" /\ n \notin open[r]
      /\ \A d \in Deps[n] : Contents(r)[d] # None
      /\ \/ /\ Bound(r, n, now)
            /\ ledger' = [ledger EXCEPT ![r][n] = now]
            /\ open' = [open EXCEPT ![r] = @ \cup {n}]
            /\ UNCHANGED phase
         \/ /\ ~Bound(r, n, now) /\ Goto(r, "refused")
            /\ UNCHANGED <<ledger, open>>
      /\ UNCHANGED <<text, disk, cache, edits, loaded, snap, forced, approval, identity, state,
                     unchecked, forecast, calm, crashes>>

\* a target begins: its key is made, the cache is asked unless a former process
\* has begun the target already
Start(r, n, i) ==
  LET t == <<n, i>>
      k == KeyOf(r, n, i)
      again == t \in DOMAIN state[r]
      hit == ~again /\ Lookup(k, n, t, forced[r]) # None
  IN  /\ Ready(r, n, i)
      /\ again => t \in unchecked[r] /\ state[r][t].stage = "running"
      /\ Set(r, t, IF hit
                   THEN [stage |-> "candidate", key |-> k, content |-> cache[k].content,
                         from |-> cache[k].from, origin |-> "none", hit |-> TRUE]
                   ELSE [stage |-> "running", key |-> k, content |-> None,
                         from |-> None, origin |-> "none", hit |-> FALSE])
      /\ unchecked' = [unchecked EXCEPT ![r] = @ \ {t}]
      /\ UNCHANGED <<text, disk, cache, edits, phase, loaded, snap, forced, approval, identity,
                     ledger, open, forecast, calm, crashes>>

\* the function returns, and its artifact is saved with its calls
Return(r, n, i) ==
  LET t == <<n, i>> IN
  /\ phase[r] = "running" /\ t \in DOMAIN state[r] \ unchecked[r]
  /\ state[r][t].stage = "running"
  /\ \E c \in Returns[n] :
       Set(r, t, [state[r][t] EXCEPT !.stage = "candidate", !.content = c,
                                     !.from = Given(r, n, i), !.origin = "calls"])
  /\ UNCHANGED <<text, disk, cache, edits, phase, loaded, snap, forced, approval, identity,
                 ledger, open, unchecked, forecast, calm, crashes>>

\* Mutant: an artifact that rests on an approval is cached.
SealsGated(r, n, t) == ~state[r][t].hit /\ Policy[n] # "off"

Seals(r, n, t) == ~state[r][t].hit /\ Policy[n] # "off" /\ n \notin Gated

\* ExecutionEnvelope.seal
Sealed(s) == [content |-> s.content, from |-> s.from, origin |-> s.origin]

\* what is no hit of this process is sealed into the cache
Complete(r, n, i) ==
  LET t == <<n, i>>
      s == state[r][t]
  IN  /\ phase[r] = "running" /\ t \in DOMAIN state[r] \ unchecked[r]
      /\ s.stage = "candidate"
      /\ Set(r, t, [s EXCEPT !.stage = "completed"])
      /\ IF Seals(r, n, t)
         THEN /\ cache' = With(cache, s.key, Sealed(s))
              /\ calm' = [q \in Run |-> calm[q] /\ q = r]
         ELSE UNCHANGED <<cache, calm>>
      /\ UNCHANGED <<text, disk, edits, phase, loaded, snap, forced, approval, identity,
                     ledger, open, unchecked, forecast, crashes>>

Finish(r) ==
  /\ phase[r] = "running" /\ \A n \in Node : Contents(r)[n] # None
  /\ Goto(r, "over")
  /\ UNCHANGED <<text, disk, cache, edits, loaded, snap, forced, approval, identity, ledger,
                 open, state, unchecked, forecast, calm, crashes>>

Crash(r) ==
  /\ phase[r] = "running" /\ crashes < MaxCrashes
  /\ crashes' = crashes + 1 /\ Goto(r, "stopped")
  /\ open' = [open EXCEPT ![r] = {}]
  /\ unchecked' = [unchecked EXCEPT ![r] = DOMAIN state[r]]
  /\ state' = [state EXCEPT ![r] = [t \in DOMAIN @ |->
                 IF @[t].stage = "candidate" THEN [@[t] EXCEPT !.hit = FALSE] ELSE @[t]]]
  /\ calm' = [calm EXCEPT ![r] = FALSE]
  /\ UNCHANGED <<text, disk, cache, edits, loaded, snap, forced, approval, identity, ledger,
                 forecast>>

\* a new process; the manifest holds the run to its sources and files
Resume(r) ==
  /\ phase[r] = "stopped" /\ Cardinality(Alive) < MaxTogether
  /\ loaded' = [loaded EXCEPT ![r] = text]
  /\ snap' = [snap EXCEPT ![r] = [p \in StaticFiles |-> disk[p]]]
  /\ Goto(r, IF identity[r] = <<text, [p \in StaticFiles |-> disk[p]]>>
             THEN "running" ELSE "refused")
  /\ UNCHANGED <<text, disk, cache, edits, forced, approval, identity, ledger, open, state,
                 unchecked, forecast, calm, crashes>>

\* _resume_completed_artifact, and the same comparison for a candidate
Owns(r, n, i) == state[r][<<n, i>>].key = KeyOf(r, n, i)

Keep(r, n, i) ==
  LET t == <<n, i>> IN
  /\ Ready(r, n, i) /\ t \in unchecked[r] /\ state[r][t].stage # "running"
  /\ \/ /\ Owns(r, n, i)
        /\ unchecked' = [unchecked EXCEPT ![r] = @ \ {t}]
        /\ UNCHANGED phase
     \/ /\ ~Owns(r, n, i) /\ Goto(r, "refused")
        /\ UNCHANGED unchecked
  /\ UNCHANGED <<text, disk, cache, edits, loaded, snap, forced, approval, identity, ledger,
                 open, state, forecast, calm, crashes>>

-----------------------------------------------------------------------------
\* someone edits a file, or a source
Edit ==
  /\ edits < MaxEdits /\ edits' = edits + 1
  /\ calm' = [r \in Run |-> FALSE]
  /\ \/ \E p \in File : disk' = [disk EXCEPT ![p] = 1 - @] /\ UNCHANGED text
     \/ /\ LiveEdits \/ Alive = {}
        /\ \E f \in Fn : text' = [text EXCEPT ![f] = 1 - @]
        /\ UNCHANGED disk
  /\ UNCHANGED <<cache, phase, loaded, snap, forced, approval, identity, ledger, open, state,
                 unchecked, forecast, crashes>>

Init ==
  /\ text = [f \in Fn |-> 0] /\ disk = [p \in File |-> 0] /\ cache = <<>> /\ edits = 0
  /\ phase = [r \in Run |-> "idle"] /\ crashes = 0
  /\ loaded = [r \in Run |-> text] /\ snap = [r \in Run |-> [p \in StaticFiles |-> 0]]
  /\ forced = [r \in Run |-> {}] /\ approval = [r \in Run |-> 0]
  /\ identity = [r \in Run |-> None]
  /\ ledger = [r \in Run |-> [n \in Dynamic |-> None]] /\ open = [r \in Run |-> {}]
  /\ state = [r \in Run |-> <<>>] /\ unchecked = [r \in Run |-> {}]
  /\ forecast = [r \in Run |-> None] /\ calm = [r \in Run |-> FALSE]

Next ==
  \/ \E r \in Run :
       \/ Load(r) \/ Begin(r) \/ Finish(r) \/ Crash(r) \/ Resume(r)
       \/ \E n \in Dynamic : Bind(r, n)
       \/ \E t \in Targets : \/ Start(r, t[1], t[2]) \/ Return(r, t[1], t[2])
                             \/ Complete(r, t[1], t[2]) \/ Keep(r, t[1], t[2])
  \/ Edit

Spec == Init /\ [][Next]_vars

-----------------------------------------------------------------------------
\* No stale result is replayed: whatever a run has completed, or taken over
\* from the cache or from an earlier process, was made of exactly what its
\* function would be given in this run - code, views of the dependencies,
\* files, item, carry and approvals (cache-key.md:15).
NothingStale ==
  \A r \in Run, t \in Targets :
    phase[r] \in {"running", "over"} /\ Have(r, t) => state[r][t].from = Given(r, t[1], t[2])

\* Plan bounds the work of the run it precedes, when nothing changes meanwhile:
\* what it lists as a hit is taken from the cache; what it lists as a miss is
\* executed, or taken from a target of the run that has the same key
\* (adoption.md:950).
PlanBounds ==
  \A r \in Run : phase[r] = "over" /\ calm[r] =>
    \A t \in DOMAIN state[r] :
      /\ t \in forecast[r].hit => state[r][t].hit
      /\ t \in forecast[r].miss => \E u \in DOMAIN state[r] :
                                     state[r][u].key = state[r][t].key /\ ~state[r][u].hit

\* Explain and plan speak of one key: asked between the runs, the components
\* explained of a hit are those of an entry, those of a miss are not.
ExplainAgrees ==
  LET now == Plan({}) IN
  Alive = {} => \A t \in Targets :
    /\ t \in now.hit => Explained(t[1], t[2]) \in DOMAIN cache
    /\ t \in now.miss /\ Policy[t[1]] = "auto" => Explained(t[1], t[2]) \notin DOMAIN cache

\* What cache-key.md:147 says: the origin of an entry is that of the execution
\* that made its artifact. It does not hold: the run that takes the entry over
\* replaces it.
OriginKept == \A k \in DOMAIN cache : cache[k].origin = "calls"

=============================================================================
