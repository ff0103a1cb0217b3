------------------------------ MODULE Scheduler ------------------------------
(***************************************************************************)
(* One Dag.run: the scheduler loop, the thread pool it shares with the     *)
(* items of map nodes, the permit plane and the abort flag of the budget.  *)
(*                                                                         *)
(* A job is a static node or an item.  Static nodes are submitted to the   *)
(* pool; a dynamic node (map or scan) is executed by the scheduler thread, *)
(* which submits batches of items to the same pool or, when there is       *)
(* nothing to run in parallel, works through them itself.                  *)
(*                                                                         *)
(* What a job does to the durable state is the subject of AttemptStore; of *)
(* that only the outcome is left here.                                     *)
(***************************************************************************)
EXTENDS Integers, Sequences, SequencesExt, FiniteSetsExt

CONSTANTS Node, Item, NoOne,
          Order,       \* the topological order of the nodes
          Deps,        \* the nodes a node depends on
          Dynamic,     \* map and scan nodes
          Scan,
          Entries,     \* the items of a dynamic node, in order
          Pool,        \* resource names in use, the default pool among them
          Declared,    \* per node, the pools it asks for, in no special order
          Needs,       \* and how many units of each
          Rank,        \* the place of a pool in the order of names
          Limit,
          Workers,
          Restricted,  \* resource_limits was given
          Outcome      \* how jobs may end

Parked  == {"pending", "retry_pending"}
Results == {"success", "failed", "exceeded"} \cup Parked

ASSUME ConstantsOK ==
  /\ IsFiniteSet(Node) /\ IsFiniteSet(Item) /\ IsFiniteSet(Pool)
  /\ Node \cap Item = {} /\ NoOne \notin Node \cup Item
  /\ Scan \subseteq Dynamic /\ Dynamic \subseteq Node
  /\ Entries \in [Dynamic -> Seq(Item)]
  /\ Needs \in [Node -> [Pool -> Nat]] /\ Rank \in [Pool -> Nat]
  /\ Workers \in Nat \ {0} /\ Restricted \in BOOLEAN
  /\ Limit \in [Pool -> Nat]
  /\ Outcome \subseteq Results

\* _build_permit_plane refuses a node that asks for more than there is
Served == \A n \in Node, p \in Pool : Needs[n][p] <= Limit[p]

\* an item is one of the items of one dynamic node, and there once: ids are
\* unique within a node (_map_entries), and names of items carry the node's
Distinct ==
  /\ \A i \in Item : \E n \in Dynamic : i \in ToSet(Entries[n])
  /\ \A m, n \in Dynamic : \A i \in DOMAIN Entries[m], k \in DOMAIN Entries[n] :
       Entries[m][i] = Entries[n][k] => m = n /\ i = k

\* what _topological_order and _build_permit_plane have checked
ASSUME Validated ==
  /\ Distinct
  /\ Order \in Seq(Node) /\ ToSet(Order) = Node
  /\ \A i, k \in 1..Len(Order) : Order[i] = Order[k] => i = k
  /\ \A i \in 1..Len(Order) : Deps[Order[i]] \subseteq {Order[j] : j \in 1..(i-1)}
  /\ Served
  /\ ~Restricted => \A p \in Pool : Limit[p] = Workers

VARIABLES
  limited,  \* the budget of the caller is finite
  timed,    \* resource_timeout_seconds is set
  states,   \* of the nodes
  ready,    \* nodes whose dependencies have succeeded, not yet started
  inflight, \* static nodes whose futures are not yet collected
  phase,    \* where the scheduler thread is
  dyn,      \* the dynamic node it executes
  rest,     \* items not yet begun
  batch,    \* items begun and waited for
  queue,    \* jobs waiting for a thread of the pool
  pc,       \* where a job is
  result,   \* how it ended
  gate,     \* who holds _acquire_lock of a pool
  free,     \* the semaphore of a pool
  held,     \* units a job took
  aborted   \* budget_abort

scheduling == <<states, ready, inflight, phase, dyn, rest, batch>>
permits    == <<gate, free, held>>
fixed      == <<limited, timed>>
vars       == <<fixed, scheduling, queue, pc, result, permits, aborted>>

Job    == (Node \ Dynamic) \cup Item
NodeOf(j) == IF j \in Node THEN j
             ELSE CHOOSE n \in Dynamic : j \in ToSet(Entries[n])

\* all units of all pools
Units   == UNION {{p} \X (1..Limit[p]) : p \in Pool}
Threads == IF Restricted /\ Cardinality(Units) > Workers THEN Cardinality(Units)
           ELSE Workers
Window  == IF Workers = 1 THEN 1 ELSE Workers - 1

Active == {"begun", "waiting", "filling", "running", "ended"}

Goto(j, s) == pc' = [pc EXCEPT ![j] = s]

-----------------------------------------------------------------------------
(* The permit plane.                                                       *)

\* pools of which a job has less than it asks for
Short(j) == {p \in Pool : held[j][p] < Needs[NodeOf(j)][p]}

\* Mutant: pools are taken in the order the node declares them.
NextPoolDeclared(j) ==
  LET d == Declared[NodeOf(j)] IN
  {d[i] : i \in {k \in DOMAIN d : d[k] \in Short(j)
                                 /\ \A h \in 1..(k - 1) : d[h] \notin Short(j)}}

\* the pool a job takes units of: the first, by name, it has too little of
NextPool(j) == {p \in Short(j) : \A q \in Short(j) : Rank[p] <= Rank[q]}

\* _acquire_lock, with no order among those who wait
EnterGate(j) ==
  \E p \in NextPool(j) :
    /\ pc[j] = "waiting" /\ gate[p] = NoOne
    /\ gate' = [gate EXCEPT ![p] = j]
    /\ Goto(j, "filling")
    /\ UNCHANGED <<fixed, scheduling, queue, result, free, held, aborted>>

\* one unit; with the last one the gate is opened
TakeUnit(j) ==
  \E p \in NextPool(j) :
    /\ pc[j] = "filling" /\ free[p] > 0
    /\ free' = [free EXCEPT ![p] = @ - 1]
    /\ held' = [held EXCEPT ![j][p] = @ + 1]
    /\ IF held[j][p] + 1 < Needs[NodeOf(j)][p] THEN UNCHANGED <<gate, pc>>
       ELSE gate' = [gate EXCEPT ![p] = NoOne] /\ Goto(j, "waiting")
    /\ UNCHANGED <<fixed, scheduling, queue, result, aborted>>

GiveBack(j) ==
  /\ free' = [p \in Pool |-> free[p] + held[j][p]]
  /\ held' = [held EXCEPT ![j] = [p \in Pool |-> 0]]

\* Mutant: gives back only what it took of the pool it waited for.
TimedOutHolding(j) ==
  \E p \in NextPool(j) :
    /\ timed
    /\ pc[j] = "filling" /\ free[p] = 0
    /\ free' = [free EXCEPT ![p] = @ + held[j][p]]
    /\ held' = [held EXCEPT ![j] = [q \in Pool |-> 0]]
    /\ gate' = [gate EXCEPT ![p] = NoOne]
    /\ Goto(j, "ended")
    /\ result' = [result EXCEPT ![j] = "failed"]
    /\ UNCHANGED <<fixed, scheduling, queue, aborted>>

\* the deadline passes while it waits for a unit
TimedOut(j) ==
  \E p \in NextPool(j) :
    /\ timed
    /\ pc[j] = "filling" /\ free[p] = 0
    /\ GiveBack(j)
    /\ gate' = [gate EXCEPT ![p] = NoOne]
    /\ Goto(j, "ended")
    /\ result' = [result EXCEPT ![j] = "failed"]
    /\ UNCHANGED <<fixed, scheduling, queue, aborted>>

-----------------------------------------------------------------------------
(* A job.                                                                  *)

Busy     == {j \in Job : pc[j] \in Active}
OnThread == {j \in Busy : j \in inflight \cup batch}

End(j, r) == Goto(j, "ended") /\ result' = [result EXCEPT ![j] = r]

\* a thread of the pool takes a job, and drops it after a budget abort
Begin(j) ==
  /\ queue # <<>> /\ j = Head(queue)
  /\ Cardinality(OnThread) < Threads
  /\ queue' = Tail(queue)
  /\ IF aborted THEN End(j, "aborted") ELSE Goto(j, "begun") /\ UNCHANGED result
  /\ UNCHANGED <<fixed, scheduling, permits, aborted>>

\* scans do not look at budget_abort
Heeds(j) == NodeOf(j) \notin Scan

\* the second look, before prepare
Abort(j) ==
  /\ pc[j] = "begun" /\ aborted /\ Heeds(j)
  /\ End(j, "aborted")
  /\ UNCHANGED <<fixed, scheduling, queue, permits, aborted>>

\* a cache hit, a candidate, a result of an earlier run, a retry that is not
\* due or an error before the function: no permit is needed
Bypass(j, r) ==
  /\ pc[j] = "begun"
  /\ r \in Outcome \cap {"success", "retry_pending", "failed"}
  /\ End(j, r)
  /\ UNCHANGED <<fixed, scheduling, queue, permits, aborted>>

\* prepare says "run"
Admit(j) ==
  /\ pc[j] = "begun" /\ (aborted => ~Heeds(j))
  /\ Goto(j, "waiting")
  /\ UNCHANGED <<fixed, scheduling, queue, result, permits, aborted>>

Run(j) ==
  /\ pc[j] = "waiting" /\ Short(j) = {}
  /\ Goto(j, "running")
  /\ UNCHANGED <<fixed, scheduling, queue, result, permits, aborted>>

\* the function returns or raises; only a finite budget is ever exceeded
Return(j, r) ==
  /\ pc[j] = "running"
  /\ r \in Outcome /\ (r = "exceeded" => limited)
  /\ GiveBack(j)
  /\ End(j, r)
  /\ UNCHANGED <<fixed, scheduling, queue, gate, aborted>>

\* the outcome is recorded and the future, or the call, is done
Settle(j) ==
  /\ pc[j] = "ended"
  /\ Goto(j, "done")
  /\ aborted' = (aborted \/ result[j] = "exceeded")
  /\ UNCHANGED <<fixed, scheduling, queue, result, permits>>

-----------------------------------------------------------------------------
(* The scheduler loop.                                                     *)

Failures == {n \in Node : states[n] = "failed"}

StateOf(r) == CASE r \in {"failed", "exceeded"} -> "failed"
                [] r = "aborted"                -> "skipped"
                [] OTHER                        -> r

Waiting(s) == {n \in Node : s[n] = "waiting"}

\* waiting nodes with a dependency that is parked or skipped, or in B
Below(s, B) == {n \in Waiting(s) :
                  \E d \in Deps[n] : s[d] \in Parked \cup {"skipped"} \/ d \in B}

\* waiting nodes below one that is parked or skipped: the passes over the order
\* (classify_ready) end with the least set that is closed
Barred(s) == {n \in Waiting(s) :
                \A B \in SUBSET Waiting(s) : Below(s, B) \subseteq B => n \in B}

\* Mutant: looks only at the nodes right below.
ClassifiedOnce(s) ==
  [n \in Node |->
     IF s[n] = "waiting" /\ \E d \in Deps[n] : s[d] \in Parked
     THEN "skipped" ELSE s[n]]

Classified(s) == LET b == Barred(s)
                 IN  [n \in Node |-> IF n \in b THEN "skipped" ELSE s[n]]

Earlier(m, n) == \E i, k \in 1..Len(Order) : i < k /\ Order[i] = m /\ Order[k] = n

\* the one sequence of the nodes of S in topological order
Listed(S) == {q \in [1..Cardinality(S) -> S] :
                /\ ToSet(q) = S
                /\ \A i, k \in DOMAIN q : i < k => Earlier(q[i], q[k])}

\* outcomes are entered; nothing becomes ready any more after a failure
Enter(s) ==
  IF \E n \in Node : s[n] = "failed" THEN states' = s /\ UNCHANGED ready
  ELSE LET c     == Classified(s)
           fresh == {n \in Node \ ToSet(ready) :
                       c[n] = "waiting" /\ \A d \in Deps[n] : c[d] = "success"}
       IN  /\ states' = c
           /\ \E q \in Listed(fresh) : ready' = ready \o q

Closed == limited /\ inflight # {}

Top ==
  /\ phase = "top"
  /\ phase' = IF ready = <<>> /\ inflight = {} THEN "over"
              ELSE IF Failures = {} /\ ~Closed THEN "submit" ELSE "wait"
  /\ UNCHANGED <<fixed, states, ready, inflight, dyn, rest, batch, queue, pc,
                 result, permits, aborted>>

\* where the first ready node of S is
FirstOf(S) == {i \in DOMAIN ready : ready[i] \in S /\ \A k \in 1..(i - 1) : ready[k] \notin S}

Static == Node \ Dynamic

Full == Cardinality(inflight) >= (IF limited THEN Window ELSE Threads)

\* the node leaves the ready list
StartAt(i) ==
  /\ ready' = RemoveAt(ready, i)
  /\ states' = [states EXCEPT ![ready[i]] = "running"]

Submit ==
  \E i \in FirstOf(Static) :
    /\ phase = "submit" /\ ~Full
    /\ StartAt(i)
    /\ inflight' = inflight \cup {ready[i]}
    /\ queue' = Append(queue, ready[i])
    /\ Goto(ready[i], "queued")
    /\ UNCHANGED <<fixed, phase, dyn, rest, batch, result, permits, aborted>>

MayStartDynamic == ~Closed

\* the scheduler thread turns to a dynamic node, or waits
SubmitDone ==
  /\ phase = "submit" /\ (FirstOf(Static) = {} \/ Full)
  /\ \/ \E i \in FirstOf(Dynamic) :
          /\ MayStartDynamic
          /\ StartAt(i)
          /\ dyn' = ready[i] /\ rest' = Entries[ready[i]]
          /\ phase' = "dynamic"
     \/ /\ FirstOf(Dynamic) = {} \/ ~MayStartDynamic
        /\ phase' = "wait" /\ UNCHANGED <<states, ready, dyn, rest>>
  /\ UNCHANGED <<fixed, inflight, batch, queue, pc, result, permits, aborted>>

\* with no failure, whatever is done; a finite budget waits for the window
Collect ==
  LET done == {j \in inflight : pc[j] = "done"} IN
  /\ phase = "wait"
  /\ \/ inflight = {} /\ phase' = "over" /\ UNCHANGED <<states, ready, inflight>>
     \/ /\ done # {} /\ (limited => done = inflight)
        /\ inflight' = inflight \ done
        /\ Enter([n \in Node |-> IF n \in done THEN StateOf(result[n]) ELSE states[n]])
        /\ phase' = "top"
  /\ UNCHANGED <<fixed, dyn, rest, batch, queue, pc, result, permits, aborted>>

-----------------------------------------------------------------------------
(* A dynamic node on the scheduler thread (_execute_map, _execute_scan).   *)

Ended == {result[i] : i \in {k \in ToSet(Entries[dyn]) : pc[k] = "done"}}

Serial == dyn \in Scan \/ Len(Entries[dyn]) <= 1 \/ Workers = 1

Idle == \A i \in ToSet(Entries[dyn]) : pc[i] \in {"none", "done"}

\* Mutant: only a budget stops the later items of a scan.
StoppedMap == Ended \cap {"aborted", "exceeded"} # {}

\* a scan stops at the first item without a result to carry on
Stopped == IF dyn \in Scan THEN Ended \ {"success"} # {}
           ELSE Ended \cap {"aborted", "exceeded"} # {}

\* the thread works through the items itself
NextItem ==
  /\ phase = "dynamic" /\ Serial
  /\ Idle /\ rest # <<>> /\ ~Stopped
  /\ rest' = Tail(rest)
  /\ Goto(Head(rest), "begun")
  /\ UNCHANGED <<fixed, states, ready, inflight, phase, dyn, batch, queue,
                 result, permits, aborted>>

NextBatch ==
  LET size == Min({Len(rest), IF limited THEN Window ELSE Workers}) IN
  /\ phase = "dynamic" /\ ~Serial
  /\ Idle /\ rest # <<>> /\ ~Stopped /\ ~aborted
  /\ rest' = SubSeq(rest, size + 1, Len(rest))
  /\ batch' = ToSet(SubSeq(rest, 1, size))
  /\ queue' = queue \o SubSeq(rest, 1, size)
  /\ pc' = [j \in Job |-> IF j \in batch' THEN "queued" ELSE pc[j]]
  /\ UNCHANGED <<fixed, states, ready, inflight, phase, dyn, result, permits,
                 aborted>>

Aggregate == IF Ended \cap {"failed", "exceeded"} # {} THEN "failed"
             ELSE IF "pending" \in Ended THEN "pending"
             ELSE IF "retry_pending" \in Ended THEN "retry_pending" ELSE "success"

ItemsOver == rest = <<>> \/ Stopped \/ (~Serial /\ aborted)

\* an error of the node beside those of its items: before the first, in their
\* list or their files; after one that succeeded, when it is materialized, by a
\* scan at once and by a map in the end; in the aggregate
MayFail ==
  \/ \A i \in ToSet(Entries[dyn]) : pc[i] = "none"
  \/ "success" \in Ended /\ (dyn \in Scan \/ ItemsOver)

FinishDynamic ==
  /\ phase = "dynamic" /\ Idle
  /\ \E r \in Results :
       /\ (ItemsOver /\ r = Aggregate) \/ (MayFail /\ r = "failed")
       /\ Enter([states EXCEPT ![dyn] = r])
  /\ dyn' = NoOne /\ rest' = <<>> /\ batch' = {}
  /\ phase' = "top"
  /\ UNCHANGED <<fixed, inflight, queue, pc, result, permits, aborted>>

-----------------------------------------------------------------------------
Init ==
  /\ limited \in BOOLEAN /\ timed \in BOOLEAN
  /\ states = [n \in Node |-> "waiting"]
  /\ ready \in Listed({n \in Node : Deps[n] = {}})
  /\ inflight = {} /\ phase = "top" /\ dyn = NoOne /\ rest = <<>> /\ batch = {}
  /\ queue = <<>>
  /\ pc = [j \in Job |-> "none"]
  /\ result = [j \in Job |-> "none"]
  /\ gate = [p \in Pool |-> NoOne]
  /\ free = Limit
  /\ held = [j \in Job |-> [p \in Pool |-> 0]]
  /\ aborted = FALSE

Loop == Top \/ Submit \/ SubmitDone \/ Collect
          \/ NextItem \/ NextBatch \/ FinishDynamic

Step(j) ==
  \/ Begin(j) \/ Abort(j) \/ Admit(j) \/ Run(j) \/ Settle(j)
  \/ EnterGate(j) \/ TakeUnit(j) \/ TimedOut(j)
  \/ \E r \in Outcome : Bypass(j, r) \/ Return(j, r)

Next == Loop \/ \E j \in Job : Step(j)

Spec == Init /\ [][Next]_vars

\* Threads run, node functions return.
FairSpec == Spec /\ WF_vars(Loop) /\ \A j \in Job : WF_vars(Step(j))

-----------------------------------------------------------------------------
\* the units of a pool that are with jobs
Taken(p) == {u \in Job \X (1..Limit[p]) : u[2] <= held[u[1]][p]}

\* Every unit of a pool is free or with a job that waits for more of them or
\* runs: none is lost or doubled by a timeout, an error or a release in a
\* different order (_ResourcePool.acquire, _PermitPlane.acquire).
PermitsConserved ==
  /\ \A p \in Pool : free[p] + Cardinality(Taken(p)) = Limit[p]
  /\ \A j \in Job : pc[j] \notin {"waiting", "filling", "running"} =>
       \A p \in Pool : held[j][p] = 0

\* When the loop ends without a failure every node has an outcome, and a node
\* was skipped just when something it depends on was parked or skipped: a
\* branch beside a checkpoint is never held up and none disappears without a
\* record.  With or without a failure nothing is left running.
AllAccounted ==
  phase = "over" =>
    /\ Busy = {} /\ queue = <<>>
    /\ Failures = {} => \A n \in Node :
         /\ states[n] \in Parked \cup {"success", "skipped"}
         /\ states[n] = "skipped" <=>
              \E d \in Deps[n] : states[d] \in Parked \cup {"skipped"}

\* The items of a dynamic node: those of a scan are carried one from the other,
\* so none is begun before the one in front of it has succeeded, and the node
\* succeeds only with the result of every one, however the budget or a failure
\* cut its batches short.
ItemsSound ==
  /\ \A n \in Scan : \A k \in 2..Len(Entries[n]) :
       pc[Entries[n][k]] # "none" => result[Entries[n][k - 1]] = "success"
  /\ \A n \in Dynamic : states[n] = "success" =>
       \A i \in ToSet(Entries[n]) : result[i] = "success"

\* Every run comes to its end: no order of gates, units of several pools,
\* threads and batches leaves jobs waiting on one another.
RunEnds == <>(phase = "over")

\* What the comment in _build_permit_plane (dag.py:1486) says: without
\* resource_limits workers is a ceiling on the node functions that run at one
\* time. It does not hold of a map item beside a static node.
Ceiling ==
  ~Restricted => Cardinality({j \in Job : pc[j] = "running"}) <= Workers

=============================================================================
