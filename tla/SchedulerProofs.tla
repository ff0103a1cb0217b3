--------------------------- MODULE SchedulerProofs ---------------------------
(***************************************************************************)
(* Theorems about Scheduler, for any graph, items, pools and budgets: no   *)
(* permit is lost, items are carried in order and whole, every node has an *)
(* outcome.                                                                *)
(***************************************************************************)
EXTENDS Scheduler, FiniteSetTheorems, WellFoundedInduction, TLAPS

-----------------------------------------------------------------------------
(* The inductive invariant.                                                *)

PcState   == {"none", "queued", "done"} \cup Active
Ends      == Results \cup {"aborted"}
NodeState == {"waiting", "running", "success", "failed", "skipped"} \cup Parked

TypeOK ==
  /\ limited \in BOOLEAN /\ timed \in BOOLEAN
  /\ states \in [Node -> NodeState]
  /\ ready \in Seq(Node)
  /\ inflight \subseteq Static
  /\ phase \in {"top", "submit", "dynamic", "wait", "over"}
  /\ dyn \in Dynamic \cup {NoOne} /\ (phase = "dynamic" => dyn \in Dynamic)
  /\ rest \in Seq(Item) /\ batch \subseteq Item
  /\ queue \in Seq(Job)
  /\ pc \in [Job -> PcState]
  /\ result \in [Job -> Ends \cup {"none"}]
  /\ gate \in [Pool -> Job \cup {NoOne}]
  /\ free \in [Pool -> Nat]
  /\ held \in [Job -> [Pool -> Nat]]
  /\ aborted \in BOOLEAN

\* Nothing is held beyond what is asked for, nor by a job that does not run.
HoldsOK ==
  /\ \A j \in Job, p \in Pool : held[j][p] <= Needs[NodeOf(j)][p]
  /\ PermitsConserved

\* Jobs on their way are in the queue once, and are static nodes in flight or
\* items of the dynamic node at hand.
PlacesOK ==
  /\ \A i, k \in DOMAIN queue : queue[i] = queue[k] => i = k
  /\ \A i \in DOMAIN queue : pc[queue[i]] = "queued"
  /\ \A j \in Job : pc[j] \in Active \cup {"queued"} =>
       \/ j \in inflight
       \/ phase = "dynamic" /\ j \in ToSet(Entries[dyn])
  /\ \A n \in Static : states[n] = "waiting" => pc[n] = "none"
  /\ \A n \in Node : states[n] = "running" <=> n \in inflight \/ (phase = "dynamic" /\ n = dyn)

\* The ready list holds nodes once each, whose dependencies have succeeded.
ReadyOK ==
  /\ \A i, k \in DOMAIN ready : ready[i] = ready[k] => i = k
  /\ \A i \in DOMAIN ready : states[ready[i]] = "waiting"
  /\ \A n \in Node : states[n] \notin {"waiting", "skipped"} \/ n \in ToSet(ready) =>
       \A d \in Deps[n] : states[d] = "success"

PhasesOK ==
  /\ phase = "over" => inflight = {}
  /\ phase \in {"submit", "dynamic"} => Failures = {}
  /\ phase = "dynamic" /\ limited => inflight = {}
  /\ phase \in {"wait", "over"} /\ inflight = {} /\ Failures = {} => ready = <<>>

\* As long as nothing has failed, the waiting nodes are classified.
GraphOK ==
  Failures = {} =>
    \A n \in Node :
      /\ states[n] = "waiting" =>
           /\ \A d \in Deps[n] : states[d] \notin Parked \cup {"skipped"}
           /\ (\A d \in Deps[n] : states[d] = "success") => n \in ToSet(ready)
      /\ states[n] = "skipped" =>
           \E d \in Deps[n] : states[d] \in Parked \cup {"skipped"}

Overspent(j) == pc[j] = "done" /\ result[j] = "exceeded"

\* The abort flag goes up with a budget that was exceeded, by a job whose
\* failure is entered or will be with the outcomes now awaited.
BudgetOK ==
  /\ \A j \in Job : /\ result[j] = "none" <=> pc[j] \notin {"ended", "done"}
                    /\ result[j] = "exceeded" => limited
                    /\ result[j] = "aborted"  => aborted
  /\ aborted =>
       /\ limited
       /\ \/ Failures # {}
          \/ \E j \in inflight : Overspent(j)
          \/ phase = "dynamic" /\ \E j \in ToSet(Entries[dyn]) : Overspent(j)

\* The items of the dynamic node at hand that are left are its last ones.
Begun == Len(Entries[dyn]) - Len(rest)
ItemsOK ==
  /\ \A n \in Dynamic : states[n] = "waiting" =>
       \A i \in ToSet(Entries[n]) : pc[i] = "none"
  /\ phase = "dynamic" =>
       /\ Begun >= 0
       /\ \A k \in DOMAIN rest : rest[k] = Entries[dyn][Begun + k]
       /\ \A k \in DOMAIN Entries[dyn] : pc[Entries[dyn][k]] = "none" <=> k > Begun
  /\ ItemsSound

Inv == TypeOK /\ HoldsOK /\ PlacesOK /\ ReadyOK /\ PhasesOK /\ GraphOK
         /\ BudgetOK /\ ItemsOK

-----------------------------------------------------------------------------
(* Numbers, sequences and the constants.                                   *)

\* What makes an argument by the first counterexample possible.
LEMMA NatLeast ==
  ASSUME NEW T, T \subseteq Nat, T # {}
  PROVE  \E x \in T : \A y \in T : x <= y
<1> DEFINE R == OpToRel(<, Nat)
<1>1. IsWellFoundedOn(R, Nat) BY NatLessThanWellFounded
<1>2. \A x, y \in Nat : x < y => <<x, y>> \in R BY Zenon DEF OpToRel
<1> HIDE DEF R
<1>3. PICK x \in T : \A y \in T : ~ (<<y, x>> \in R) BY <1>1, WFMin
<1>4. \A y \in T : ~(y < x) BY <1>2, <1>3, Zenon
<1>5. \A y \in T : x <= y BY <1>4
<1> QED BY <1>5

LEMMA NodeOfOK ==
  /\ \A j \in Job : NodeOf(j) \in Node
  /\ \A i \in Item : NodeOf(i) \in Dynamic /\ i \in ToSet(Entries[NodeOf(i)])
<1>1. ASSUME NEW i \in Item
      PROVE  NodeOf(i) \in Dynamic /\ i \in ToSet(Entries[NodeOf(i)])
  <2>1. i \notin Node BY ConstantsOK
  <2>2. \E n \in Dynamic : i \in ToSet(Entries[n]) BY Validated DEF Distinct
  <2> QED BY <2>1, <2>2, Zenon DEF NodeOf
<1>2. \A n \in Node \ Dynamic : NodeOf(n) = n BY DEF NodeOf
<1> QED BY <1>1, <1>2, ConstantsOK DEF Job

\* Items of a dynamic node are items; nodes have different ones.
LEMMA EntriesOK ==
  /\ \A n \in Dynamic : Entries[n] \in Seq(Item) /\ ToSet(Entries[n]) \subseteq Item
  /\ \A n \in Dynamic : Entries[n] \in Seq(Job) /\ ToSet(Entries[n]) \subseteq Job
  /\ \A n \in Dynamic : \A i, k \in DOMAIN Entries[n] :
       Entries[n][i] = Entries[n][k] => i = k
  /\ \A m, n \in Dynamic : m # n => ToSet(Entries[m]) \cap ToSet(Entries[n]) = {}
<1>1. \A n \in Dynamic : Entries[n] \in Seq(Item) /\ ToSet(Entries[n]) \subseteq Item
  BY ConstantsOK DEF ToSet
<1>2. \A n \in Dynamic : Entries[n] \in Seq(Job) /\ ToSet(Entries[n]) \subseteq Job
  BY <1>1 DEF Job
<1>3. \A n \in Dynamic : \A i, k \in DOMAIN Entries[n] :
        Entries[n][i] = Entries[n][k] => i = k
  BY Validated DEF Distinct
<1>4. \A m, n \in Dynamic : m # n => ToSet(Entries[m]) \cap ToSet(Entries[n]) = {}
  BY Validated DEF Distinct, ToSet
<1> QED BY <1>1, <1>2, <1>3, <1>4

LEMMA ThreadsOK == Threads \in Nat \ {0} /\ Window \in Nat \ {0}
<1> DEFINE f == [p \in Pool |-> {p} \X (1..Limit[p])]
           U == {{p} \X (1..Limit[p]) : p \in Pool}
<1>1. f \in Surjection(Pool, U) BY DEF Surjection
<1>2. IsFiniteSet(U) BY <1>1, FS_Surjection, ConstantsOK
<1>3. ASSUME NEW p \in Pool PROVE IsFiniteSet({p} \X (1..Limit[p]))
  <2>1. IsFiniteSet({p}) BY FS_Singleton
  <2>2. 1 \in Int /\ Limit[p] \in Int BY ConstantsOK
  <2>3. IsFiniteSet(1..Limit[p]) BY <2>2, FS_Interval
  <2> QED BY <2>1, <2>3, FS_Product
<1>4. \A T \in U : IsFiniteSet(T) BY <1>3
<1>5. IsFiniteSet(Units) BY <1>2, <1>4, FS_UNION DEF Units
<1>6. Cardinality(Units) \in Nat BY <1>5, FS_CardinalityType
<1> QED BY <1>6, ConstantsOK DEF Threads, Window

\* the ready list without the node at i
LEMMA Removed ==
  ASSUME NEW S, NEW q \in Seq(S), NEW i \in DOMAIN q,
         \A h, k \in DOMAIN q : q[h] = q[k] => h = k
  PROVE  /\ RemoveAt(q, i) \in Seq(S)
         /\ \A h, k \in DOMAIN RemoveAt(q, i) :
              RemoveAt(q, i)[h] = RemoveAt(q, i)[k] => h = k
         /\ ToSet(RemoveAt(q, i)) = ToSet(q) \ {q[i]}
<1> DEFINE r == RemoveAt(q, i)
<1> DEFINE a == SubSeq(q, 1, i - 1)
           b == SubSeq(q, i + 1, Len(q))
<1>a. i \in 1..Len(q) /\ Len(q) \in Nat OBVIOUS
<1>b. a \in Seq(S) /\ Len(a) = i - 1 /\ \A k \in 1..(i - 1) : a[k] = q[k]
  BY <1>a
<1>c. b \in Seq(S) /\ Len(b) = Len(q) - i
        /\ \A k \in 1..(Len(q) - i) : b[k] = q[k + i]
  BY <1>a
<1>d. r = a \o b BY DEF RemoveAt
<1> HIDE DEF a, b, r
<1>1. r \in Seq(S) /\ Len(r) = Len(q) - 1
  BY <1>a, <1>b, <1>c, <1>d
<1>2. \A k \in 1..(Len(q) - 1) : r[k] = IF k < i THEN q[k] ELSE q[k + 1]
  BY <1>a, <1>b, <1>c, <1>d
<1>3. ASSUME NEW h \in DOMAIN r, NEW k \in DOMAIN r, r[h] = r[k] PROVE h = k
  <2> DEFINE g(x) == IF x < i THEN x ELSE x + 1
  <2>1. h \in 1..(Len(q) - 1) /\ k \in 1..(Len(q) - 1) BY <1>1
  <2>2. g(h) \in DOMAIN q /\ g(k) \in DOMAIN q BY <1>a, <2>1
  <2>3. r[h] = q[g(h)] /\ r[k] = q[g(k)] BY <1>2, <2>1
  <2>4. g(h) = g(k) BY <1>3, <2>2, <2>3
  <2> QED BY <1>a, <2>1, <2>4
<1>4. ToSet(r) \subseteq ToSet(q) \ {q[i]}
  BY <1>1, <1>2 DEF ToSet
<1>5. ASSUME NEW k \in DOMAIN q, k # i PROVE q[k] \in ToSet(r)
  <2>1. CASE k < i
    <3>1. k \in DOMAIN r /\ r[k] = q[k] BY <1>1, <1>2, <2>1
    <3> QED BY <3>1 DEF ToSet
  <2>2. CASE k > i
    <3>1. k - 1 \in DOMAIN r /\ r[k - 1] = q[k] BY <1>1, <1>2, <2>2
    <3> QED BY <3>1 DEF ToSet
  <2> QED BY <1>5, <2>1, <2>2
<1>6. ToSet(q) \ {q[i]} \subseteq ToSet(r)
  BY <1>5 DEF ToSet
<1> QED BY <1>1, <1>3, <1>4, <1>6 DEF r

-----------------------------------------------------------------------------
(* Outcomes entered and nodes classified.                                  *)

LEMMA DepsOK == \A n \in Node : Deps[n] \subseteq Node
BY Validated DEF ToSet

LEMMA ListedOK ==
  ASSUME NEW S \in SUBSET Node, NEW q \in Listed(S)
  PROVE  /\ q \in Seq(Node) /\ ToSet(q) = S
         /\ \A i, k \in DOMAIN q : q[i] = q[k] => i = k
<1>1. IsFiniteSet(S) BY ConstantsOK, FS_Subset
<1>2. Cardinality(S) \in Nat BY <1>1, FS_CardinalityType
<1>3. q \in [1..Cardinality(S) -> S] /\ ToSet(q) = S BY DEF Listed
<1>4. q \in Seq(Node) BY <1>2, <1>3
<1>5. \A n \in Node : ~Earlier(n, n) BY Validated DEF Earlier
<1>6. ASSUME NEW i \in DOMAIN q, NEW k \in DOMAIN q, q[i] = q[k] PROVE i = k
  <2>1. i \in Nat /\ k \in Nat BY <1>2, <1>3
  <2>2. q[i] \in Node /\ q[k] \in Node BY <1>3
  <2>3. ~(i < k) /\ ~(k < i) BY <1>5, <1>6, <2>2 DEF Listed
  <2> QED BY <2>1, <2>3
<1> QED BY <1>3, <1>4, <1>6

LEMMA Appended ==
  ASSUME NEW S, NEW q \in Seq(S), NEW r \in Seq(S),
         \A i, k \in DOMAIN q : q[i] = q[k] => i = k,
         \A i, k \in DOMAIN r : r[i] = r[k] => i = k,
         ToSet(q) \cap ToSet(r) = {}
  PROVE  /\ q \o r \in Seq(S) /\ ToSet(q \o r) = ToSet(q) \cup ToSet(r)
         /\ \A i, k \in DOMAIN (q \o r) : (q \o r)[i] = (q \o r)[k] => i = k
<1> DEFINE c == q \o r
<1>1. c \in Seq(S) /\ Len(c) = Len(q) + Len(r) OBVIOUS
<1>2. \A k \in DOMAIN c : c[k] = IF k <= Len(q) THEN q[k] ELSE r[k - Len(q)]
  OBVIOUS
<1> HIDE DEF c
<1>3. \A k \in DOMAIN c : \/ k \in DOMAIN q /\ c[k] = q[k]
                          \/ k - Len(q) \in DOMAIN r /\ c[k] = r[k - Len(q)]
  BY <1>1, <1>2
<1>4. ToSet(c) \subseteq ToSet(q) \cup ToSet(r) BY <1>3 DEF ToSet
<1>5. ASSUME NEW k \in DOMAIN q PROVE q[k] \in ToSet(c)
  <2>1. k \in DOMAIN c /\ c[k] = q[k] BY <1>1, <1>2
  <2> QED BY <2>1 DEF ToSet
<1>6. ASSUME NEW k \in DOMAIN r PROVE r[k] \in ToSet(c)
  <2>1. k + Len(q) \in DOMAIN c /\ c[k + Len(q)] = r[k] BY <1>1, <1>2
  <2> QED BY <2>1 DEF ToSet
<1>7. ToSet(c) = ToSet(q) \cup ToSet(r)
  <2>1. ToSet(q) \subseteq ToSet(c) BY <1>5, Zenon DEF ToSet
  <2>2. ToSet(r) \subseteq ToSet(c) BY <1>6, Zenon DEF ToSet
  <2> QED BY <1>4, <2>1, <2>2
<1>8. \A i \in DOMAIN q, k \in DOMAIN r : q[i] # r[k] BY DEF ToSet
<1>9. ASSUME NEW i \in DOMAIN c, NEW k \in DOMAIN c, c[i] = c[k] PROVE i = k
  <2>1. i \in Nat /\ k \in Nat /\ Len(q) \in Nat BY <1>1
  <2>2. CASE i \in DOMAIN q /\ c[i] = q[i] /\ k \in DOMAIN q /\ c[k] = q[k]
    BY <1>9, <2>2
  <2>3. CASE i - Len(q) \in DOMAIN r /\ c[i] = r[i - Len(q)]
              /\ k - Len(q) \in DOMAIN r /\ c[k] = r[k - Len(q)]
    <3>1. i - Len(q) = k - Len(q) BY <1>9, <2>3
    <3> QED BY <2>1, <3>1
  <2> QED BY <1>3, <1>8, <1>9, <2>2, <2>3
<1> QED BY <1>1, <1>7, <1>9 DEF c

\* The least closed set is a fixpoint: every node in it has its reason.
LEMMA BarredOK ==
  ASSUME NEW s
  PROVE  Barred(s) \subseteq Waiting(s) /\ Below(s, Barred(s)) = Barred(s)
<1> DEFINE b == Barred(s)
<1>1. b \subseteq Waiting(s) BY DEF Barred
<1>2. \A B \in SUBSET Waiting(s) : Below(s, B) \subseteq B => b \subseteq B
  BY DEF Barred
<1>3. \A n \in Waiting(s) :
        (\A B \in SUBSET Waiting(s) : Below(s, B) \subseteq B => n \in B) => n \in b
  BY DEF Barred
<1> HIDE DEF b
<1>4. \A B, C : B \subseteq C => Below(s, B) \subseteq Below(s, C) BY DEF Below
<1>5. \A B : Below(s, B) \subseteq Waiting(s) BY DEF Below
<1>6. Below(s, b) \subseteq b
  <2> SUFFICES ASSUME NEW n \in Below(s, b) PROVE n \in b OBVIOUS
  <2>1. n \in Waiting(s) BY <1>5
  <2>2. ASSUME NEW B \in SUBSET Waiting(s), Below(s, B) \subseteq B PROVE n \in B
    <3>1. b \subseteq B BY <1>2, <2>2
    <3> QED BY <1>4, <2>2, <3>1
  <2> QED BY <1>3, <2>1, <2>2
<1>7. b \subseteq Below(s, b)
  <2> DEFINE B == Below(s, b)
  <2>1. B \in SUBSET Waiting(s) BY <1>5
  <2>2. Below(s, B) \subseteq B BY <1>4, <1>6
  <2> QED BY <1>2, <2>1, <2>2
<1> QED BY <1>1, <1>6, <1>7 DEF b

\* What entering outcomes does to the states and the ready list.
LEMMA EnterOK ==
  ASSUME NEW s \in [Node -> NodeState], ready \in Seq(Node), Enter(s),
         \A i, k \in DOMAIN ready : ready[i] = ready[k] => i = k
  PROVE  /\ states' \in [Node -> NodeState] /\ ready' \in Seq(Node)
         /\ \A i, k \in DOMAIN ready' : ready'[i] = ready'[k] => i = k
         /\ \A n \in Node : \/ states'[n] = s[n]
                            \/ s[n] = "waiting" /\ states'[n] = "skipped"
         /\ ToSet(ready) \subseteq ToSet(ready')
         /\ \A n \in ToSet(ready') \ ToSet(ready) :
              states'[n] = "waiting" /\ \A d \in Deps[n] : states'[d] = "success"
         /\ (\E n \in Node : s[n] = "failed") => states' = s
         /\ (\A n \in Node : s[n] # "failed") =>
              \A n \in Node :
                /\ states'[n] = "waiting" =>
                     /\ \A d \in Deps[n] : states'[d] \notin Parked \cup {"skipped"}
                     /\ (\A d \in Deps[n] : states'[d] = "success") => n \in ToSet(ready')
                /\ s[n] = "waiting" /\ states'[n] = "skipped" =>
                     \E d \in Deps[n] : states'[d] \in Parked \cup {"skipped"}
<1>1. CASE \E n \in Node : s[n] = "failed"
  <2>1. states' = s /\ ready' = ready BY <1>1 DEF Enter
  <2> QED BY <1>1, <2>1
<1>2. CASE \A n \in Node : s[n] # "failed"
  <2> DEFINE b == Barred(s)
             fresh == {n \in Node \ ToSet(ready) :
                         states'[n] = "waiting"
                           /\ \A d \in Deps[n] : states'[d] = "success"}
  <2>1. states' = [n \in Node |-> IF n \in b THEN "skipped" ELSE s[n]]
    BY <1>2 DEF Enter, Classified
  <2>2. PICK q \in Listed(fresh) : ready' = ready \o q
    BY <1>2 DEF Enter
  <2>3. b \subseteq Waiting(s) /\ Below(s, b) = b BY BarredOK
  <2> HIDE DEF b
  <2>4. fresh \in SUBSET Node OBVIOUS
  <2>5. /\ q \in Seq(Node) /\ ToSet(q) = fresh
        /\ \A i, k \in DOMAIN q : q[i] = q[k] => i = k
    BY <2>4, ListedOK
  <2>6. ToSet(ready) \cap ToSet(q) = {} BY <2>5
  <2>7. /\ ready' \in Seq(Node) /\ ToSet(ready') = ToSet(ready) \cup fresh
        /\ \A i, k \in DOMAIN ready' : ready'[i] = ready'[k] => i = k
    <3> DEFINE r == ready \o q
    <3>1. /\ r \in Seq(Node) /\ ToSet(r) = ToSet(ready) \cup ToSet(q)
          /\ \A i, k \in DOMAIN r : r[i] = r[k] => i = k
      BY <2>5, <2>6, Appended, Zenon
    <3>2. ready' = r BY <2>2
    <3> HIDE DEF r
    <3> QED BY <2>5, <3>1, <3>2
  <2>8. \A n \in Node : n \in b <=>
          s[n] = "waiting" /\ \E d \in Deps[n] : s[d] \in Parked \cup {"skipped"} \/ d \in b
    BY <2>3 DEF Below, Waiting
  <2>9. states' \in [Node -> NodeState] BY <2>1 DEF NodeState
  <2>10. \A n \in Node : \/ states'[n] = s[n] /\ n \notin b
                         \/ s[n] = "waiting" /\ states'[n] = "skipped" /\ n \in b
    BY <2>1, <2>8
  <2>11. \A d \in Node : states'[d] \in Parked \cup {"skipped"} <=>
                           s[d] \in Parked \cup {"skipped"} \/ d \in b
    BY <2>1, <2>10 DEF Parked
  <2>12. ASSUME NEW n \in Node, states'[n] = "waiting"
         PROVE  \A d \in Deps[n] : states'[d] \notin Parked \cup {"skipped"}
    <3>1. n \notin b /\ s[n] = "waiting" BY <2>10, <2>12
    <3> QED BY <3>1, <2>8, <2>11, DepsOK
  <2>13. ASSUME NEW n \in Node, s[n] = "waiting", states'[n] = "skipped"
         PROVE  \E d \in Deps[n] : states'[d] \in Parked \cup {"skipped"}
    <3>1. n \in b BY <2>10, <2>13
    <3> QED BY <3>1, <2>8, <2>11, DepsOK
  <2> QED BY <1>2, <2>7, <2>9, <2>10, <2>12, <2>13
<1> QED BY <1>1, <1>2

-----------------------------------------------------------------------------
(* What a step of a job does, seen from the scheduler.                     *)

Ending(j) ==
  /\ pc'[j] = "ended"
  /\ \/ result'[j] = "aborted" /\ aborted
     \/ result'[j] \in Results /\ (result'[j] = "exceeded" => limited)
  /\ aborted' = aborted

LEMMA StepEffect ==
  ASSUME TypeOK, PlacesOK, NEW j \in Job, Step(j)
  PROVE  /\ UNCHANGED <<fixed, scheduling>>
         /\ pc' \in [Job -> PcState] /\ result' \in [Job -> Ends \cup {"none"}]
         /\ aborted' \in BOOLEAN
         /\ \A i \in Job \ {j} : pc'[i] = pc[i] /\ result'[i] = result[i]
         /\ \/ pc[j] \in Active /\ queue' = queue
            \/ queue # <<>> /\ j = Head(queue) /\ queue' = Tail(queue) /\ pc[j] = "queued"
         /\ \/ Ending(j) /\ pc[j] # "ended"
            \/ /\ pc[j] # "ended" /\ pc'[j] \in Active \ {"ended"}
               /\ UNCHANGED <<result, aborted>>
            \/ /\ pc[j] = "ended" /\ pc'[j] = "done" /\ UNCHANGED result
               /\ aborted' = (aborted \/ result[j] = "exceeded")
<1> USE DEF TypeOK, Active, PcState, Goto, scheduling
<1>1. CASE Begin(j)
  <2>1. 1 \in DOMAIN queue /\ Head(queue) = queue[1] BY <1>1 DEF Begin
  <2>2. pc[j] = "queued" BY <1>1, <2>1 DEF Begin, PlacesOK
  <2>3. CASE aborted BY <1>1, <2>2, <2>3 DEF Begin, End, Ending, Ends
  <2>4. CASE ~aborted BY <1>1, <2>2, <2>4 DEF Begin
  <2> QED BY <2>3, <2>4
<1>2. CASE Abort(j) BY <1>2 DEF Abort, End, Ending, Ends
<1>3. CASE Admit(j) BY <1>3 DEF Admit
<1>4. CASE Run(j) BY <1>4 DEF Run
<1>5. CASE Settle(j) BY <1>5 DEF Settle
<1>6. CASE EnterGate(j) BY <1>6 DEF EnterGate
<1>7. CASE TakeUnit(j) BY <1>7 DEF TakeUnit
<1>8. CASE TimedOut(j) BY <1>8 DEF TimedOut, Ending, Ends, Results
<1>9. ASSUME NEW r \in Outcome, Bypass(j, r) PROVE Ending(j) /\ pc[j] = "begun"
  BY <1>9, ConstantsOK DEF Bypass, End, Ending, Results
<1>10. ASSUME NEW r \in Outcome, Bypass(j, r)
       PROVE  /\ UNCHANGED <<fixed, scheduling, queue>> /\ pc' = [pc EXCEPT ![j] = "ended"]
              /\ result' = [result EXCEPT ![j] = r] /\ aborted' = aborted
  BY <1>10 DEF Bypass, End
<1>11. ASSUME NEW r \in Outcome, Return(j, r) PROVE Ending(j) /\ pc[j] = "running"
  BY <1>11, ConstantsOK DEF Return, End, Ending, Results
<1>12. ASSUME NEW r \in Outcome, Return(j, r)
       PROVE  /\ UNCHANGED <<fixed, scheduling, queue>> /\ pc' = [pc EXCEPT ![j] = "ended"]
              /\ result' = [result EXCEPT ![j] = r] /\ aborted' = aborted
  BY <1>12 DEF Return, End
<1>13. CASE \E r \in Outcome : Bypass(j, r) \/ Return(j, r)
  <2> PICK r \in Outcome : Bypass(j, r) \/ Return(j, r) BY <1>13
  <2>1. r \in Ends BY ConstantsOK DEF Ends
  <2> QED BY <1>9, <1>10, <1>11, <1>12, <2>1
<1> QED BY <1>1, <1>2, <1>3, <1>4, <1>5, <1>6, <1>7, <1>8, <1>13 DEF Step

-----------------------------------------------------------------------------
(* The permit plane.                                                       *)

LEMMA TakenFinite ==
  /\ IsFiniteSet(Job)
  /\ \A p \in Pool : IsFiniteSet(Taken(p)) /\ Cardinality(Taken(p)) \in Nat
<1>1. IsFiniteSet(Node \ Dynamic) BY ConstantsOK, FS_Difference
<1>2. IsFiniteSet(Job) BY <1>1, ConstantsOK, FS_Union DEF Job
<1>3. ASSUME NEW p \in Pool PROVE IsFiniteSet(Taken(p))
  <2>1. 1 \in Int /\ Limit[p] \in Int BY ConstantsOK
  <2>2. IsFiniteSet(1..Limit[p]) BY <2>1, FS_Interval
  <2>3. IsFiniteSet(Job \X (1..Limit[p])) BY <1>2, <2>2, FS_Product
  <2>4. Taken(p) \in SUBSET (Job \X (1..Limit[p])) BY DEF Taken
  <2> QED BY <2>3, <2>4, FS_Subset
<1> QED BY <1>2, <1>3, FS_CardinalityType

\* A job that has less than it asks for takes one unit.
LEMMA TakenOneMore ==
  ASSUME TypeOK, HoldsOK, NEW j \in Job, NEW p \in Pool,
         held[j][p] < Needs[NodeOf(j)][p], free[p] > 0,
         free' = [free EXCEPT ![p] = @ - 1],
         held' = [held EXCEPT ![j][p] = @ + 1]
  PROVE  /\ free' \in [Pool -> Nat] /\ held' \in [Job -> [Pool -> Nat]]
         /\ \A q \in Pool : free'[q] + Cardinality(Taken(q)') = Limit[q]
         /\ \A i \in Job, q \in Pool : held'[i][q] <= Needs[NodeOf(i)][q]
         /\ \A i \in Job \ {j} : held'[i] = held[i]
<1> DEFINE h == held[j][p]
           unit == <<j, h + 1>>
<1>1. h \in Nat /\ h + 1 <= Limit[p] /\ Limit[p] \in Nat
        /\ Needs[NodeOf(j)][p] \in Nat
  <2>1. Needs[NodeOf(j)][p] \in Nat /\ Needs[NodeOf(j)][p] <= Limit[p]
    BY NodeOfOK, ConstantsOK, Validated DEF Served
  <2>2. h \in Nat BY DEF TypeOK
  <2>3. Limit[p] \in Nat BY ConstantsOK
  <2> HIDE DEF h
  <2>4. h < Needs[NodeOf(j)][p] BY DEF h
  <2> QED BY <2>1, <2>2, <2>3, <2>4
<1>2. free' \in [Pool -> Nat] /\ held' \in [Job -> [Pool -> Nat]]
  BY DEF TypeOK
<1>3. \A i \in Job, q \in Pool :
        held'[i][q] = IF i = j /\ q = p THEN h + 1 ELSE held[i][q]
  BY DEF TypeOK
<1>4. \A i \in Job, q \in Pool : held'[i][q] <= Needs[NodeOf(i)][q]
  BY <1>1, <1>3 DEF HoldsOK
<1>5. Taken(p)' = Taken(p) \cup {unit}
  <2>1. ASSUME NEW u \in Job \X (1..Limit[p])
        PROVE  u \in Taken(p)' <=> u \in Taken(p) \/ u = unit
    <3>1. u[1] \in Job /\ u[2] \in Nat /\ u = <<u[1], u[2]>> OBVIOUS
    <3>2. u \in Taken(p)' <=> u[2] <= held'[u[1]][p] BY DEF Taken
    <3>3. u \in Taken(p) <=> u[2] <= held[u[1]][p] BY DEF Taken
    <3>4. u = unit <=> u[1] = j /\ u[2] = h + 1 BY <3>1
    <3>5. CASE u[1] = j BY <1>1, <1>3, <3>1, <3>2, <3>3, <3>4, <3>5
    <3>6. CASE u[1] # j BY <1>3, <3>1, <3>2, <3>3, <3>4, <3>6
    <3> QED BY <3>5, <3>6
  <2>2. unit \in Job \X (1..Limit[p]) BY <1>1
  <2> QED BY <2>1, <2>2 DEF Taken
<1>6. unit \notin Taken(p) BY <1>1 DEF Taken
<1>7. Cardinality(Taken(p)') = Cardinality(Taken(p)) + 1
  BY <1>5, <1>6, TakenFinite, FS_AddElement
<1>8. \A q \in Pool \ {p} : Taken(q)' = Taken(q) /\ free'[q] = free[q]
  BY <1>3 DEF Taken, TypeOK
<1>9. free'[p] = free[p] - 1 /\ free[p] \in Nat BY DEF TypeOK
<1>10. free'[p] + Cardinality(Taken(p)') = Limit[p]
  BY <1>7, <1>9, TakenFinite DEF HoldsOK, PermitsConserved
<1>11. \A i \in Job \ {j} : held'[i] = held[i] BY DEF TypeOK
<1> QED BY <1>2, <1>4, <1>8, <1>10, <1>11 DEF HoldsOK, PermitsConserved

\* A job gives back all it took, of every pool.
LEMMA GivenBack ==
  ASSUME TypeOK, HoldsOK, NEW j \in Job, GiveBack(j)
  PROVE  /\ free' \in [Pool -> Nat] /\ held' \in [Job -> [Pool -> Nat]]
         /\ \A q \in Pool : free'[q] + Cardinality(Taken(q)') = Limit[q]
         /\ \A i \in Job, q \in Pool : held'[i][q] <= Needs[NodeOf(i)][q]
         /\ \A i \in Job \ {j} : held'[i] = held[i]
         /\ \A q \in Pool : held'[j][q] = 0
<1>1. free' \in [Pool -> Nat] /\ held' \in [Job -> [Pool -> Nat]]
  BY DEF TypeOK, GiveBack
<1>2. /\ \A i \in Job \ {j} : held'[i] = held[i]
      /\ \A q \in Pool : held'[j][q] = 0
  BY DEF TypeOK, GiveBack
<1>3. ASSUME NEW i \in Job, NEW q \in Pool PROVE held'[i][q] <= Needs[NodeOf(i)][q]
  <2>1. Needs[NodeOf(i)][q] \in Nat BY NodeOfOK, ConstantsOK
  <2> QED BY <1>2, <2>1 DEF HoldsOK
<1>4. ASSUME NEW p \in Pool
      PROVE  free'[p] + Cardinality(Taken(p)') = Limit[p]
  <2> DEFINE h == held[j][p]
             G == {j} \X (1..h)
  <2>1. h \in Nat /\ h <= Limit[p] /\ Limit[p] \in Nat
    <3>1. Needs[NodeOf(j)][p] \in Nat /\ Needs[NodeOf(j)][p] <= Limit[p]
      BY NodeOfOK, ConstantsOK, Validated DEF Served
    <3> QED BY <3>1, ConstantsOK DEF TypeOK, HoldsOK
  <2>2. Cardinality(G) = h /\ IsFiniteSet(G)
    <3> HIDE DEF h
    <3>1. 1 \in Int /\ h \in Int BY <2>1
    <3>a. /\ IsFiniteSet(1..h)
          /\ Cardinality(1..h) = IF 1 > h THEN 0 ELSE h - 1 + 1
      BY <3>1, FS_Interval, Zenon
    <3>2. IsFiniteSet(1..h) /\ Cardinality(1..h) = h BY <2>1, <3>a
    <3>3. IsFiniteSet({j}) /\ Cardinality({j}) = 1 BY FS_Singleton
    <3>4. Cardinality(G) = Cardinality({j}) * Cardinality(1..h) /\ IsFiniteSet(G)
      BY <3>2, <3>3, FS_Product
    <3> QED BY <2>1, <3>2, <3>3, <3>4
  <2>3. G \subseteq Taken(p) BY <2>1 DEF Taken
  <2>4. Taken(p)' = Taken(p) \ G
    <3>1. ASSUME NEW u \in Job \X (1..Limit[p])
          PROVE  u \in Taken(p)' <=> u \in Taken(p) /\ u \notin G
      <4>1. u[1] \in Job /\ u[2] \in Nat \ {0} /\ u = <<u[1], u[2]>> BY <2>1
      <4>2. u \in Taken(p)' <=> u[2] <= held'[u[1]][p] BY DEF Taken
      <4>3. u \in Taken(p) <=> u[2] <= held[u[1]][p] BY DEF Taken
      <4>4. u \in G <=> u[1] = j /\ u[2] <= h BY <2>1, <4>1
      <4>5. CASE u[1] = j BY <1>2, <4>1, <4>2, <4>3, <4>4, <4>5
      <4>6. CASE u[1] # j BY <1>2, <4>1, <4>2, <4>3, <4>4, <4>6
      <4> QED BY <4>5, <4>6
    <3> QED BY <3>1 DEF Taken
  <2> HIDE DEF G
  <2>5. Taken(p) \cap G = G BY <2>3
  <2>6. Cardinality(Taken(p)') = Cardinality(Taken(p)) - Cardinality(G)
    BY <2>4, <2>5, TakenFinite, FS_Difference
  <2>7. free'[p] = free[p] + h /\ free[p] \in Nat BY DEF TypeOK, GiveBack
  <2>8. free[p] + Cardinality(Taken(p)) = Limit[p] BY DEF HoldsOK, PermitsConserved
  <2>9. Cardinality(Taken(p)) \in Nat BY TakenFinite
  <2> HIDE DEF h
  <2> QED BY <2>1, <2>2, <2>6, <2>7, <2>8, <2>9
<1> QED BY <1>1, <1>2, <1>3, <1>4

Holding == {"waiting", "filling", "running"}

\* A step of a job leaves the permit plane alone, takes one unit or gives back
\* everything.
LEMMA StepHolds ==
  ASSUME TypeOK, HoldsOK, PlacesOK, NEW j \in Job, Step(j)
  PROVE  /\ free' \in [Pool -> Nat] /\ held' \in [Job -> [Pool -> Nat]]
         /\ gate' \in [Pool -> Job \cup {NoOne}]
         /\ HoldsOK'
<1> DEFINE Done == /\ free' \in [Pool -> Nat] /\ held' \in [Job -> [Pool -> Nat]]
                   /\ gate' \in [Pool -> Job \cup {NoOne}]
                   /\ HoldsOK'
<1> SUFFICES Done OBVIOUS
<1>1. /\ pc' \in [Job -> PcState] /\ \A i \in Job \ {j} : pc'[i] = pc[i]
      /\ pc[j] \in Active \cup {"queued"}
  BY StepEffect
<1>2. ASSUME UNCHANGED <<free, held>>, gate' \in [Pool -> Job \cup {NoOne}],
             pc[j] \notin Holding \/ pc'[j] \in Holding
      PROVE  Done
  <2>1. \A p \in Pool : Taken(p)' = Taken(p) BY <1>2 DEF Taken
  <2> QED BY <1>1, <1>2, <2>1 DEF TypeOK, HoldsOK, PermitsConserved, Holding
<1>3. ASSUME GiveBack(j), gate' \in [Pool -> Job \cup {NoOne}]
      PROVE  Done
  <2>1. /\ free' \in [Pool -> Nat] /\ held' \in [Job -> [Pool -> Nat]]
        /\ \A q \in Pool : free'[q] + Cardinality(Taken(q)') = Limit[q]
        /\ \A i \in Job, q \in Pool : held'[i][q] <= Needs[NodeOf(i)][q]
        /\ \A i \in Job \ {j} : held'[i] = held[i]
        /\ \A q \in Pool : held'[j][q] = 0
    BY <1>3, GivenBack
  <2> QED BY <1>1, <1>3, <2>1 DEF HoldsOK, PermitsConserved
<1>4. CASE TakeUnit(j)
  <2> PICK p \in NextPool(j) :
        /\ pc[j] = "filling" /\ free[p] > 0
        /\ free' = [free EXCEPT ![p] = @ - 1]
        /\ held' = [held EXCEPT ![j][p] = @ + 1]
        /\ IF held[j][p] + 1 < Needs[NodeOf(j)][p] THEN UNCHANGED <<gate, pc>>
           ELSE gate' = [gate EXCEPT ![p] = NoOne] /\ Goto(j, "waiting")
    BY <1>4 DEF TakeUnit
  <2>1. p \in Pool /\ held[j][p] < Needs[NodeOf(j)][p] BY DEF NextPool, Short
  <2>2. /\ free' \in [Pool -> Nat] /\ held' \in [Job -> [Pool -> Nat]]
        /\ \A q \in Pool : free'[q] + Cardinality(Taken(q)') = Limit[q]
        /\ \A i \in Job, q \in Pool : held'[i][q] <= Needs[NodeOf(i)][q]
        /\ \A i \in Job \ {j} : held'[i] = held[i]
    BY <2>1, TakenOneMore
  <2>3. gate' \in [Pool -> Job \cup {NoOne}] BY DEF TypeOK
  <2>4. pc'[j] \in Holding BY DEF TypeOK, Goto, Holding
  <2> QED BY <1>1, <2>2, <2>3, <2>4 DEF HoldsOK, PermitsConserved, Holding
<1> HIDE DEF Done
<1>5. CASE Begin(j)
  <2>1. 1 \in DOMAIN queue /\ Head(queue) = queue[1]
    BY <1>5 DEF Begin, TypeOK
  <2>2. pc[j] = "queued" BY <1>5, <2>1 DEF Begin, PlacesOK
  <2> QED BY <1>2, <1>5, <2>2 DEF Begin, permits, TypeOK, Holding
<1>6. CASE Abort(j) BY <1>2, <1>6 DEF Abort, permits, TypeOK, Holding
<1>7. CASE Admit(j) BY <1>2, <1>7 DEF Admit, permits, TypeOK, Holding
<1>8. CASE Run(j) BY <1>2, <1>8 DEF Run, Goto, permits, TypeOK, Holding
<1>9. CASE Settle(j) BY <1>2, <1>9 DEF Settle, permits, TypeOK, Holding
<1>10. CASE EnterGate(j)
  BY <1>2, <1>10 DEF EnterGate, NextPool, Short, Goto, TypeOK, Holding
<1>11. CASE TimedOut(j)
  BY <1>3, <1>11 DEF TimedOut, NextPool, Short, TypeOK
<1>12. ASSUME NEW r \in Outcome, Bypass(j, r) PROVE Done
  BY <1>2, <1>12 DEF Bypass, permits, TypeOK, Holding
<1>13. ASSUME NEW r \in Outcome, Return(j, r) PROVE Done
  BY <1>3, <1>13 DEF Return, TypeOK
<1> QED BY <1>4, <1>5, <1>6, <1>7, <1>8, <1>9, <1>10, <1>11, <1>12, <1>13
        DEF Step, Done

-----------------------------------------------------------------------------
(* Steps of jobs and the rest of the invariant.                            *)

LEMMA StepPlaces ==
  ASSUME TypeOK, PlacesOK, NEW j \in Job, Step(j)
  PROVE  PlacesOK' /\ queue' \in Seq(Job)
<1>1. /\ UNCHANGED <<states, inflight, phase, dyn>>
      /\ pc' \in [Job -> PcState]
      /\ \A i \in Job \ {j} : pc'[i] = pc[i]
      /\ \/ pc[j] \in Active /\ queue' = queue
         \/ queue # <<>> /\ j = Head(queue) /\ queue' = Tail(queue) /\ pc[j] = "queued"
  BY StepEffect DEF scheduling
<1>2. /\ queue' \in Seq(Job)
      /\ \A i, k \in DOMAIN queue' : queue'[i] = queue'[k] => i = k
      /\ \A i \in DOMAIN queue' : pc'[queue'[i]] = "queued"
  <2>1. CASE pc[j] \in Active /\ queue' = queue
    <3>1. \A i \in DOMAIN queue : queue[i] \in Job \ {j}
      BY <2>1 DEF TypeOK, PlacesOK, Active
    <3> QED BY <1>1, <2>1, <3>1 DEF TypeOK, PlacesOK
  <2>2. CASE queue # <<>> /\ j = Head(queue) /\ queue' = Tail(queue)
    <3>1. /\ queue \in Seq(Job) /\ Len(queue) \in Nat \ {0} /\ j = queue[1]
          /\ queue' \in Seq(Job) /\ Len(queue') = Len(queue) - 1
          /\ \A i \in DOMAIN queue' : i + 1 \in DOMAIN queue /\ queue'[i] = queue[i + 1]
      BY <2>2 DEF TypeOK
    <3>2. ASSUME NEW i \in DOMAIN queue' PROVE queue'[i] \in Job \ {j}
      <4>1. 1 \in DOMAIN queue /\ i + 1 \in DOMAIN queue /\ i + 1 # 1 BY <3>1
      <4> QED BY <3>1, <4>1 DEF PlacesOK
    <3>3. \A i \in DOMAIN queue' : pc'[queue'[i]] = "queued"
      BY <1>1, <3>1, <3>2 DEF PlacesOK
    <3>4. ASSUME NEW i \in DOMAIN queue', NEW k \in DOMAIN queue', queue'[i] = queue'[k]
          PROVE  i = k
      <4>1. i + 1 = k + 1 BY <3>1, <3>4 DEF PlacesOK
      <4>2. i \in Nat /\ k \in Nat BY <3>1
      <4> QED BY <4>1, <4>2
    <3> QED BY <3>1, <3>3, <3>4
  <2> QED BY <1>1, <2>1, <2>2
<1>3. pc[j] \in Active \cup {"queued"} BY <1>1
<1>4. \A i \in Job : pc'[i] \in Active \cup {"queued"} =>
        \/ i \in inflight'
        \/ phase' = "dynamic" /\ i \in ToSet(Entries[dyn'])
  BY <1>1, <1>3 DEF PlacesOK
<1>5. \A n \in Static : states'[n] = "waiting" => pc'[n] = "none"
  BY <1>1, <1>3 DEF PlacesOK, Static, Job, Active
<1> QED BY <1>1, <1>2, <1>4, <1>5 DEF PlacesOK

LEMMA StepGraph ==
  ASSUME Inv, NEW j \in Job, Step(j)
  PROVE  ReadyOK' /\ PhasesOK' /\ GraphOK'
<1>1. UNCHANGED <<limited, states, ready, inflight, phase, dyn>>
  BY StepEffect DEF Inv, scheduling, fixed
<1> QED BY <1>1 DEF Inv, ReadyOK, PhasesOK, GraphOK, Failures

LEMMA StepBudget ==
  ASSUME Inv, NEW j \in Job, Step(j)
  PROVE  BudgetOK'
<1>1. /\ UNCHANGED <<limited, states, inflight, phase, dyn>>
      /\ \A i \in Job \ {j} : pc'[i] = pc[i] /\ result'[i] = result[i]
      /\ pc[j] \in Active \cup {"queued"}
      /\ \/ Ending(j) /\ pc[j] # "ended"
         \/ /\ pc[j] # "ended" /\ pc'[j] \in Active \ {"ended"}
            /\ UNCHANGED <<result, aborted>>
         \/ /\ pc[j] = "ended" /\ pc'[j] = "done" /\ UNCHANGED result
            /\ aborted' = (aborted \/ result[j] = "exceeded")
  BY StepEffect DEF Inv, scheduling, fixed
<1>2. Failures' = Failures BY <1>1 DEF Failures
<1>3. \A i \in Job : Overspent(i) => Overspent(i)'
  BY <1>1 DEF Overspent, Active
<1>4. aborted => aborted' BY <1>1 DEF Ending
<1>5. /\ result'[j] = "none" <=> pc'[j] \notin {"ended", "done"}
      /\ result'[j] = "exceeded" => limited
      /\ result'[j] = "aborted"  => aborted'
  <2>1. /\ result[j] = "none" <=> pc[j] \notin {"ended", "done"}
        /\ result[j] = "exceeded" => limited
        /\ result[j] = "aborted"  => aborted
    BY DEF Inv, BudgetOK
  <2>2. CASE Ending(j) BY <2>2 DEF Ending, Results, Parked
  <2>3. CASE pc[j] # "ended" /\ pc'[j] \in Active \ {"ended"} /\ UNCHANGED result
    BY <1>1, <1>4, <2>1, <2>3 DEF Active
  <2>4. CASE pc[j] = "ended" /\ pc'[j] = "done" /\ UNCHANGED result
    BY <1>1, <1>4, <2>1, <2>4
  <2> QED BY <1>1, <2>2, <2>3, <2>4
<1>6. \A i \in Job : /\ result'[i] = "none" <=> pc'[i] \notin {"ended", "done"}
                     /\ result'[i] = "exceeded" => limited'
                     /\ result'[i] = "aborted"  => aborted'
  BY <1>1, <1>4, <1>5 DEF Inv, BudgetOK
<1>7. ASSUME aborted'
      PROVE  /\ limited'
             /\ \/ Failures' # {}
                \/ \E i \in inflight' : Overspent(i)'
                \/ phase' = "dynamic" /\ \E i \in ToSet(Entries[dyn']) : Overspent(i)'
  <2>1. CASE aborted
    <3>1. inflight \subseteq Job BY DEF Inv, TypeOK, Static, Job
    <3>2. phase = "dynamic" => ToSet(Entries[dyn]) \subseteq Job
      BY EntriesOK DEF Inv, TypeOK
    <3> QED BY <1>1, <1>2, <1>3, <2>1, <3>1, <3>2 DEF Inv, BudgetOK
  <2>2. CASE ~aborted
    <3>1. pc[j] = "ended" /\ result[j] = "exceeded" /\ Overspent(j)'
      BY <1>1, <1>7, <2>2 DEF Ending, Overspent
    <3>2. \/ j \in inflight
          \/ phase = "dynamic" /\ j \in ToSet(Entries[dyn])
      BY <3>1 DEF Inv, PlacesOK, Active
    <3>3. limited' BY <1>1, <3>1 DEF Inv, BudgetOK
    <3> QED BY <1>1, <3>1, <3>2, <3>3
  <2> QED BY <2>1, <2>2
<1> QED BY <1>6, <1>7 DEF BudgetOK

LEMMA StepItems ==
  ASSUME Inv, NEW j \in Job, Step(j)
  PROVE  ItemsOK'
<1>1. /\ UNCHANGED <<states, phase, dyn, rest>>
      /\ \A i \in Job \ {j} : pc'[i] = pc[i] /\ result'[i] = result[i]
      /\ pc[j] \in Active \cup {"queued"}
      /\ pc'[j] # "none"
      /\ result' = result \/ result[j] = "none"
  BY StepEffect DEF Inv, scheduling, Ending, BudgetOK, Active
<1>2. \A i \in Job : pc'[i] = "none" <=> pc[i] = "none" BY <1>1 DEF Active
<1>3. \A i \in Job : result[i] = "success" => result'[i] = "success" BY <1>1
<1>4. \A n \in Dynamic : \A k \in DOMAIN Entries[n] : Entries[n][k] \in Job
  BY EntriesOK
<1>5. \A n \in Dynamic : ToSet(Entries[n]) \subseteq Job BY EntriesOK
<1>6. \A n \in Dynamic : \A k \in 2..Len(Entries[n]) :
        k \in DOMAIN Entries[n] /\ k - 1 \in DOMAIN Entries[n]
  BY EntriesOK
<1>7. ItemsSound' 
  BY <1>1, <1>2, <1>3, <1>4, <1>5, <1>6, ConstantsOK DEF Inv, ItemsOK, ItemsSound
<1>8. phase = "dynamic" => dyn \in Dynamic BY DEF Inv, TypeOK
<1>9. Begun' = Begun BY <1>1 DEF Begun
<1> QED BY <1>1, <1>2, <1>4, <1>5, <1>7, <1>8, <1>9 DEF Inv, ItemsOK

-----------------------------------------------------------------------------
(* The scheduler loop.                                                     *)

\* The steps of the loop leave the permit plane alone, and start only jobs
\* that were not begun.
LEMMA LoopHolds ==
  ASSUME TypeOK, HoldsOK, UNCHANGED <<free, held>>,
         \A j \in Job : pc'[j] = pc[j] \/ pc[j] = "none"
  PROVE  HoldsOK'
<1>1. \A p \in Pool : Taken(p)' = Taken(p) BY DEF Taken
<1> QED BY <1>1 DEF HoldsOK, PermitsConserved

\* Items stay sound when none is begun and no node succeeds.
LEMMA SoundKept ==
  ASSUME ItemsSound,
         \A n \in Dynamic : states'[n] = "success" => states[n] = "success",
         \A i \in Item : pc'[i] = pc[i] /\ result'[i] = result[i]
  PROVE  ItemsSound'
<1>1. ASSUME NEW n \in Scan, NEW k \in 2..Len(Entries[n]), pc'[Entries[n][k]] # "none"
      PROVE  result'[Entries[n][k - 1]] = "success"
  <2>1. Entries[n][k] \in Item /\ Entries[n][k - 1] \in Item
    BY EntriesOK, ConstantsOK
  <2>2. pc[Entries[n][k]] # "none" BY <1>1, <2>1
  <2>3. result[Entries[n][k - 1]] = "success" BY <2>2 DEF ItemsSound
  <2> QED BY <2>1, <2>3
<1>2. \A m \in Dynamic : ToSet(Entries[m]) \subseteq Item BY EntriesOK
<1>3. \A n \in Dynamic : states'[n] = "success" =>
        \A i \in ToSet(Entries[n]) : result'[i] = "success"
  BY <1>2 DEF ItemsSound
<1> QED BY <1>1, <1>3 DEF ItemsSound

\* What is left of the items of the dynamic node at hand.
LEMMA AtHand ==
  ASSUME Inv, phase = "dynamic"
  PROVE  /\ dyn \in Dynamic /\ Entries[dyn] \in Seq(Item) /\ rest \in Seq(Item)
         /\ Begun \in Nat /\ Begun + Len(rest) = Len(Entries[dyn])
         /\ \A k \in DOMAIN rest :
              /\ Begun + k \in DOMAIN Entries[dyn]
              /\ rest[k] = Entries[dyn][Begun + k]
              /\ rest[k] \in Item /\ rest[k] \in Job
              /\ rest[k] \in ToSet(Entries[dyn])
              /\ pc[rest[k]] = "none"
         /\ \A h, k \in DOMAIN rest : rest[h] = rest[k] => h = k
<1>1. dyn \in Dynamic /\ rest \in Seq(Item) BY DEF Inv, TypeOK
<1>2. Entries[dyn] \in Seq(Item) BY <1>1, EntriesOK
<1>3. Begun \in Nat /\ Begun + Len(rest) = Len(Entries[dyn])
  BY <1>1, <1>2 DEF Inv, ItemsOK, Begun
<1>4. ASSUME NEW k \in DOMAIN rest
      PROVE  /\ Begun + k \in DOMAIN Entries[dyn]
             /\ rest[k] = Entries[dyn][Begun + k]
             /\ rest[k] \in Item /\ rest[k] \in Job
             /\ rest[k] \in ToSet(Entries[dyn])
             /\ pc[rest[k]] = "none"
  <2>1. Begun + k \in DOMAIN Entries[dyn] /\ Begun + k > Begun BY <1>1, <1>2, <1>3
  <2>2. rest[k] = Entries[dyn][Begun + k] BY DEF Inv, ItemsOK
  <2>3. rest[k] \in Item BY <1>1
  <2>4. pc[rest[k]] = "none" BY <2>1, <2>2 DEF Inv, ItemsOK
  <2> QED BY <2>1, <2>2, <2>3, <2>4 DEF ToSet, Job
<1>5. ASSUME NEW h \in DOMAIN rest, NEW k \in DOMAIN rest, rest[h] = rest[k]
      PROVE  h = k
  <2>1. Begun + h = Begun + k BY <1>1, <1>4, <1>5, EntriesOK
  <2> QED BY <1>1, <1>3, <2>1
<1> QED BY <1>1, <1>2, <1>3, <1>4, <1>5

LEMMA TopInv ==
  ASSUME Inv, Top
  PROVE  Inv'
<1> USE DEF Inv
<1>1. /\ phase = "top" /\ phase' \in {"over", "submit", "wait"}
      /\ phase' = "over" => ready = <<>> /\ inflight = {}
      /\ phase' = "submit" => Failures = {}
      /\ phase' = "wait" => Failures # {} \/ inflight # {}
      /\ UNCHANGED <<fixed, states, ready, inflight, dyn, rest, batch, queue, pc,
                     result, permits, aborted>>
  BY DEF Top, Closed
<1>2. TypeOK' BY <1>1 DEF TypeOK, fixed, permits
<1>3. HoldsOK' BY <1>1, LoopHolds DEF permits
<1>4. PlacesOK' BY <1>1 DEF PlacesOK
<1>5. ReadyOK' BY <1>1 DEF ReadyOK
<1>6. PhasesOK' BY <1>1 DEF PhasesOK, Failures
<1>7. GraphOK' BY <1>1 DEF GraphOK, Failures
<1>8. BudgetOK' BY <1>1 DEF BudgetOK, Failures, Overspent, fixed
<1>9. ItemsOK' BY <1>1 DEF ItemsOK, ItemsSound
<1> QED BY <1>2, <1>3, <1>4, <1>5, <1>6, <1>7, <1>8, <1>9

\* A node that leaves the ready list is running; the rest of the graph waits
\* as before.
LEMMA StartedGraph ==
  ASSUME Inv, NEW i \in DOMAIN ready, StartAt(i), Failures = {}
  PROVE  /\ states' \in [Node -> NodeState] /\ ready' \in Seq(Node)
         /\ ready[i] \in Node /\ states[ready[i]] = "waiting"
         /\ \A n \in Node : states'[n] = IF n = ready[i] THEN "running" ELSE states[n]
         /\ Failures' = {}
         /\ ReadyOK' /\ GraphOK'
<1> DEFINE n == ready[i]
<1> USE DEF Inv
<1>1. n \in Node /\ states[n] = "waiting" /\ n \in ToSet(ready)
  BY DEF TypeOK, ReadyOK, ToSet
<1>2. /\ states' \in [Node -> NodeState]
      /\ \A m \in Node : states'[m] = IF m = n THEN "running" ELSE states[m]
  BY <1>1 DEF StartAt, TypeOK, NodeState
<1>3. /\ ready' \in Seq(Node)
      /\ \A h, k \in DOMAIN ready' : ready'[h] = ready'[k] => h = k
      /\ ToSet(ready') = ToSet(ready) \ {n}
  <2> DEFINE r == RemoveAt(ready, i)
  <2>1. /\ r \in Seq(Node) /\ \A h, k \in DOMAIN r : r[h] = r[k] => h = k
        /\ ToSet(r) = ToSet(ready) \ {n}
    <3>1. /\ ready \in Seq(Node)
          /\ \A h, k \in DOMAIN ready : ready[h] = ready[k] => h = k
      BY DEF TypeOK, ReadyOK
    <3> QED BY <3>1, Removed, Zenon
  <2>2. ready' = r BY DEF StartAt
  <2> HIDE DEF r, n
  <2> QED BY <2>1, <2>2
<1> HIDE DEF n
<1>4. Failures' = {} BY <1>2 DEF Failures
<1>5. \A m \in Node : states[m] = "success" => states'[m] = "success"
  BY <1>1, <1>2
<1>6. ReadyOK'
  <2>1. \A k \in DOMAIN ready' : ready'[k] \in ToSet(ready) \ {n}
    BY <1>3 DEF ToSet
  <2>2. \A m \in ToSet(ready) : states[m] = "waiting" /\ m \in Node
    BY DEF ReadyOK, TypeOK, ToSet
  <2>3. \A k \in DOMAIN ready' : states'[ready'[k]] = "waiting"
    BY <1>2, <2>1, <2>2
  <2>4. ASSUME NEW m \in Node,
               states'[m] \notin {"waiting", "skipped"} \/ m \in ToSet(ready')
        PROVE  \A d \in Deps[m] : states'[d] = "success"
    <3>1. states[m] \notin {"waiting", "skipped"} \/ m \in ToSet(ready)
      BY <1>1, <1>2, <1>3, <2>4
    <3> QED BY <1>5, <3>1, DepsOK DEF ReadyOK
  <2> QED BY <1>3, <2>3, <2>4 DEF ReadyOK
<1>7. GraphOK'
  <2>1. \A m \in Node : /\ states'[m] \in Parked \cup {"skipped"} <=>
                              states[m] \in Parked \cup {"skipped"}
                        /\ states'[m] = "skipped" <=> states[m] = "skipped"
                        /\ states'[m] = "waiting" => states[m] = "waiting" /\ m # n
                        /\ states'[m] = "success" <=> states[m] = "success"
    BY <1>1, <1>2 DEF Parked
  <2> QED BY <1>3, <2>1, DepsOK DEF GraphOK
<1> QED BY <1>1, <1>2, <1>3, <1>4, <1>6, <1>7 DEF n

LEMMA SubmitInv ==
  ASSUME Inv, Submit
  PROVE  Inv'
<1> USE DEF Inv
<1> PICK i \in FirstOf(Static) :
      /\ phase = "submit" /\ StartAt(i)
      /\ inflight' = inflight \cup {ready[i]}
      /\ queue' = Append(queue, ready[i])
      /\ Goto(ready[i], "queued")
      /\ UNCHANGED <<fixed, phase, dyn, rest, batch, result, permits, aborted>>
  BY DEF Submit
<1> DEFINE n == ready[i]
<1>1. i \in DOMAIN ready /\ n \in Static BY DEF FirstOf
<1>2. Failures = {} BY DEF PhasesOK
<1>3. /\ states' \in [Node -> NodeState] /\ ready' \in Seq(Node)
      /\ n \in Node /\ states[n] = "waiting"
      /\ \A m \in Node : states'[m] = IF m = n THEN "running" ELSE states[m]
      /\ Failures' = {}
      /\ ReadyOK' /\ GraphOK'
  BY <1>1, <1>2, StartedGraph
<1>4. inflight' = inflight \cup {n} /\ queue' = Append(queue, n) OBVIOUS
<1>5. n \in Job /\ pc[n] = "none" /\ pc' = [pc EXCEPT ![n] = "queued"]
  BY <1>1, <1>3 DEF PlacesOK, Job, Static, Goto
<1> HIDE DEF n
<1>6. pc' \in [Job -> PcState] /\ \A j \in Job : pc'[j] = IF j = n THEN "queued" ELSE pc[j]
  BY <1>5 DEF TypeOK, PcState
<1>7. queue' \in Seq(Job) BY <1>4, <1>5 DEF TypeOK
<1>8. TypeOK' BY <1>1, <1>3, <1>4, <1>6, <1>7 DEF TypeOK, fixed, permits
<1>9. HoldsOK' BY <1>5, <1>6, LoopHolds DEF permits
<1>10. PlacesOK'
  <2>1. \A k \in DOMAIN queue : queue[k] \in Job /\ queue[k] # n
    BY <1>5 DEF PlacesOK, TypeOK
  <2>2. /\ queue \in Seq(Job) /\ Len(queue') = Len(queue) + 1
        /\ DOMAIN queue' = 1..(Len(queue) + 1)
        /\ \A k \in DOMAIN queue : queue'[k] = queue[k]
        /\ queue'[Len(queue) + 1] = n
        /\ \A k \in DOMAIN queue' : k \in DOMAIN queue \/ k = Len(queue) + 1
    BY <1>4 DEF TypeOK
  <2>3. \A h, k \in DOMAIN queue' : queue'[h] = queue'[k] => h = k
    BY <2>1, <2>2 DEF PlacesOK
  <2>4. \A k \in DOMAIN queue' : pc'[queue'[k]] = "queued"
    BY <1>5, <1>6, <2>1, <2>2 DEF PlacesOK
  <2>5. \A j \in Job : pc'[j] \in Active \cup {"queued"} =>
          \/ j \in inflight'
          \/ phase' = "dynamic" /\ j \in ToSet(Entries[dyn'])
    BY <1>4, <1>6 DEF PlacesOK
  <2>6. \A m \in Static : m \in Job /\ m \in Node BY DEF Static, Job
  <2>7. \A m \in Static : states'[m] = "waiting" => pc'[m] = "none"
    BY <1>3, <1>6, <2>6 DEF PlacesOK
  <2>8. \A m \in Node : states'[m] = "running" <=>
                          m \in inflight' \/ (phase' = "dynamic" /\ m = dyn')
    BY <1>3, <1>4 DEF PlacesOK
  <2> QED BY <2>3, <2>4, <2>5, <2>7, <2>8 DEF PlacesOK
<1>11. PhasesOK' BY <1>3, <1>2 DEF PhasesOK
<1>12. BudgetOK'
  <2>1. \A j \in Job : Overspent(j) => Overspent(j)' BY <1>5, <1>6 DEF Overspent
  <2>2. inflight \subseteq Job BY DEF TypeOK, Static, Job
  <2>3. \A j \in Job : result'[j] = "none" <=> pc'[j] \notin {"ended", "done"}
    BY <1>5, <1>6 DEF BudgetOK
  <2> QED BY <1>2, <1>4, <2>1, <2>2, <2>3 DEF BudgetOK, fixed
<1>13. ItemsOK'
  <2>1. \A m \in Dynamic : m # n /\ m \in Node BY <1>1, ConstantsOK DEF Static
  <2>2. \A j \in Item : j # n /\ j \in Job /\ pc'[j] = pc[j]
    BY <1>3, <1>6, ConstantsOK DEF Job
  <2>4. \A m \in Dynamic : ToSet(Entries[m]) \subseteq Item BY EntriesOK
  <2>6. ItemsSound'
    BY <1>3, <2>1, <2>2, SoundKept DEF ItemsOK
  <2> QED BY <1>3, <2>1, <2>2, <2>4, <2>6 DEF ItemsOK
<1> QED BY <1>3, <1>8, <1>9, <1>10, <1>11, <1>12, <1>13

\* The scheduler thread turns to a dynamic node, which nothing else runs.
LEMMA StartDynamicInv ==
  ASSUME Inv, NEW i \in FirstOf(Dynamic), phase = "submit", MayStartDynamic,
         StartAt(i), dyn' = ready[i], rest' = Entries[ready[i]], phase' = "dynamic",
         UNCHANGED <<fixed, inflight, batch, queue, pc, result, permits, aborted>>
  PROVE  Inv'
<1> USE DEF Inv
<1> DEFINE n == ready[i]
<1>1. i \in DOMAIN ready /\ n \in Dynamic BY DEF FirstOf
<1>2. Failures = {} BY DEF PhasesOK
<1>3. /\ states' \in [Node -> NodeState] /\ ready' \in Seq(Node)
      /\ n \in Node /\ states[n] = "waiting"
      /\ \A m \in Node : states'[m] = IF m = n THEN "running" ELSE states[m]
      /\ Failures' = {}
      /\ ReadyOK' /\ GraphOK'
  BY <1>1, <1>2, StartedGraph
<1>4. dyn' = n /\ rest' = Entries[n] /\ Entries[n] \in Seq(Item)
  BY <1>1, EntriesOK
<1> HIDE DEF n
<1>5. TypeOK' BY <1>1, <1>3, <1>4 DEF TypeOK, fixed, permits
<1>6. HoldsOK' BY LoopHolds DEF permits
<1>7. PlacesOK'
  <2>1. \A j \in Job : pc[j] \in Active \cup {"queued"} => j \in inflight
    BY DEF PlacesOK
  <2>2. \A m \in Static : states'[m] = "waiting" => states[m] = "waiting"
    BY <1>3 DEF Static
  <2>3. \A m \in Node : states'[m] = "running" <=>
                          m \in inflight' \/ (phase' = "dynamic" /\ m = dyn')
    BY <1>3, <1>4 DEF PlacesOK
  <2> QED BY <2>1, <2>2, <2>3 DEF PlacesOK
<1>8. PhasesOK' BY <1>3 DEF PhasesOK, MayStartDynamic, Closed, fixed
<1>9. BudgetOK'
  <2>1. \A j : Overspent(j)' <=> Overspent(j) BY DEF Overspent
  <2> QED BY <1>2, <2>1 DEF BudgetOK, fixed
<1>10. ItemsOK'
  <2>1. \A k \in DOMAIN Entries[n] : pc[Entries[n][k]] = "none" /\ k > 0
    BY <1>1, <1>3, <1>4 DEF ItemsOK, ToSet
  <2>2. Begun' = 0 BY <1>4 DEF Begun
  <2>3. \A m \in Dynamic : m \in Node BY ConstantsOK
  <2>4. ItemsSound' BY <1>3, <2>3, SoundKept DEF ItemsOK
  <2>5. \A m \in Dynamic : states'[m] = "waiting" =>
          \A k \in ToSet(Entries[m]) : pc'[k] = "none"
    BY <1>3, <2>3 DEF ItemsOK
  <2>6. \A k \in DOMAIN rest' : rest'[k] = Entries[dyn'][Begun' + k]
    BY <1>4, <2>2
  <2>7. \A k \in DOMAIN Entries[dyn'] : pc'[Entries[dyn'][k]] = "none" <=> k > Begun'
    BY <1>4, <2>1, <2>2
  <2> QED BY <2>2, <2>4, <2>5, <2>6, <2>7 DEF ItemsOK
<1> QED BY <1>3, <1>5, <1>6, <1>7, <1>8, <1>9, <1>10

\* It waits for futures only when there is nothing it could start.
LEMMA SubmitDoneInv ==
  ASSUME Inv, SubmitDone
  PROVE  Inv'
<1> USE DEF Inv
<1>1. CASE \E i \in FirstOf(Dynamic) :
             /\ MayStartDynamic /\ StartAt(i)
             /\ dyn' = ready[i] /\ rest' = Entries[ready[i]] /\ phase' = "dynamic"
  BY <1>1, StartDynamicInv DEF SubmitDone
<1>2. CASE /\ FirstOf(Dynamic) = {} \/ ~MayStartDynamic
           /\ phase' = "wait" /\ UNCHANGED <<states, ready, dyn, rest>>
  <2>1. UNCHANGED <<fixed, states, ready, dyn, rest, inflight, batch, queue, pc,
                    result, permits, aborted>>
    BY <1>2 DEF SubmitDone
  <2>2. phase = "submit" /\ (FirstOf(Static) = {} \/ Full) BY DEF SubmitDone
  <2>3. ASSUME inflight = {} PROVE ready = <<>>
    <3>1. Cardinality(inflight) = 0 BY <2>3, FS_EmptySet
    <3>2. ~Full BY <3>1, ThreadsOK DEF Full
    <3>3. FirstOf(Static) = {} /\ FirstOf(Dynamic) = {}
      BY <1>2, <2>2, <2>3, <3>2 DEF MayStartDynamic, Closed
    <3>4. ASSUME ready # <<>> PROVE FALSE
      <4>1. 1 \in DOMAIN ready /\ ready[1] \in Node BY <3>4 DEF TypeOK
      <4>2. \A k \in 1..(1 - 1) : FALSE OBVIOUS
      <4>3. ready[1] \in Static \/ ready[1] \in Dynamic BY <4>1 DEF Static
      <4> QED BY <3>3, <4>1, <4>2, <4>3 DEF FirstOf
    <3> QED BY <3>4
  <2>4. TypeOK' BY <1>2, <2>1 DEF TypeOK, fixed, permits
  <2>5. HoldsOK' BY <2>1, LoopHolds DEF permits
  <2>6. PlacesOK' BY <1>2, <2>1, <2>2 DEF PlacesOK
  <2>7. ReadyOK' BY <2>1 DEF ReadyOK
  <2>8. PhasesOK' BY <1>2, <2>1, <2>3 DEF PhasesOK, Failures
  <2>9. GraphOK' BY <2>1 DEF GraphOK, Failures
  <2>10. BudgetOK' BY <1>2, <2>1, <2>2 DEF BudgetOK, Failures, Overspent, fixed
  <2>11. ItemsOK' BY <1>2, <2>1 DEF ItemsOK, ItemsSound
  <2> QED BY <2>4, <2>5, <2>6, <2>7, <2>8, <2>9, <2>10, <2>11
<1> QED BY <1>1, <1>2 DEF SubmitDone

\* Outcomes s of running nodes D are entered.
LEMMA EnterGraph ==
  ASSUME Inv, NEW s \in [Node -> NodeState], NEW D \in SUBSET Node, Enter(s),
         \A n \in Node \ D : s[n] = states[n],
         \A n \in D : states[n] = "running" /\ s[n] \notin {"waiting", "running"},
         \A n \in D : s[n] = "skipped" /\ Failures = {} => \E m \in D : s[m] = "failed"
  PROVE  /\ states' \in [Node -> NodeState] /\ ready' \in Seq(Node)
         /\ \A n \in Node : states'[n] = "waiting" => states[n] = "waiting"
         /\ \A n \in Node : states'[n] = "success" => s[n] = "success"
         /\ \A n \in Node : states'[n] = "running" <=> states[n] = "running" /\ n \notin D
         /\ \A n \in Node : s[n] = "failed" => n \in Failures'
         /\ Failures # {} => Failures' # {}
         /\ ReadyOK' /\ GraphOK'
<1> USE DEF Inv
<1>1. \A i, k \in DOMAIN ready : ready[i] = ready[k] => i = k BY DEF ReadyOK
<1>2. ready \in Seq(Node) BY DEF TypeOK
<1>3. /\ states' \in [Node -> NodeState] /\ ready' \in Seq(Node)
      /\ \A i, k \in DOMAIN ready' : ready'[i] = ready'[k] => i = k
      /\ \A n \in Node : \/ states'[n] = s[n]
                         \/ s[n] = "waiting" /\ states'[n] = "skipped"
      /\ ToSet(ready) \subseteq ToSet(ready')
      /\ \A n \in ToSet(ready') \ ToSet(ready) :
           states'[n] = "waiting" /\ \A d \in Deps[n] : states'[d] = "success"
  BY <1>1, <1>2, EnterOK, Zenon
<1>4. /\ (\E n \in Node : s[n] = "failed") => states' = s
      /\ (\A n \in Node : s[n] # "failed") =>
           \A n \in Node :
             /\ states'[n] = "waiting" =>
                  /\ \A d \in Deps[n] : states'[d] \notin Parked \cup {"skipped"}
                  /\ (\A d \in Deps[n] : states'[d] = "success") => n \in ToSet(ready')
             /\ s[n] = "waiting" /\ states'[n] = "skipped" =>
                  \E d \in Deps[n] : states'[d] \in Parked \cup {"skipped"}
  BY <1>1, <1>2, EnterOK, Zenon
<1>5. \A n \in Node : states'[n] = "waiting" => states[n] = "waiting"
  BY <1>3
<1>6. \A n \in Node : states'[n] = "success" => s[n] = "success"
  BY <1>3
<1>7. \A n \in Node : states'[n] = "running" <=> states[n] = "running" /\ n \notin D
  BY <1>3
<1>8. \A n \in Node : s[n] = "failed" => n \in Failures'
  BY <1>3 DEF Failures
<1>9. \A n \in Failures : n \in Node /\ n \notin D /\ s[n] = "failed"
  BY DEF Failures
<1>10. Failures # {} => Failures' # {} BY <1>8, <1>9
\* what is settled stays as it is
<1>11. \A n \in Node : states[n] \notin {"waiting", "running"} => states'[n] = states[n]
  BY <1>3
<1>12. ReadyOK'
  <2>1. \A m \in ToSet(ready) : m \in Node /\ states[m] = "waiting"
    BY <1>2 DEF ReadyOK, ToSet
  <2>2. ASSUME NEW m \in ToSet(ready)
        PROVE  states'[m] = "waiting" /\ \A d \in Deps[m] : states'[d] = "success"
    <3>1. m \in Node /\ m \notin D /\ s[m] = "waiting" BY <2>1
    <3>2. \A d \in Deps[m] : states'[d] = "success"
      BY <1>11, <3>1, DepsOK DEF ReadyOK
    <3>3. CASE \E n \in Node : s[n] = "failed" BY <1>4, <3>1, <3>2, <3>3
    <3>4. CASE \A n \in Node : s[n] # "failed"
      <4>1. states'[m] # "skipped"
        BY <1>4, <3>1, <3>2, <3>4 DEF Parked
      <4> QED BY <1>3, <3>1, <3>2, <4>1
    <3> QED BY <3>3, <3>4
  <2>3. \A m \in ToSet(ready') :
          states'[m] = "waiting" /\ \A d \in Deps[m] : states'[d] = "success"
    BY <1>3, <2>2
  <2>4. ASSUME NEW m \in Node, states'[m] \notin {"waiting", "skipped"}
        PROVE  \A d \in Deps[m] : states'[d] = "success"
    <3>1. states[m] \notin {"waiting", "skipped"}
      BY <1>3, <1>11, <2>4
    <3> QED BY <1>11, <3>1, DepsOK DEF ReadyOK
  <2>5. \A i \in DOMAIN ready' : ready'[i] \in ToSet(ready') BY DEF ToSet
  <2> QED BY <1>3, <2>3, <2>4, <2>5 DEF ReadyOK
<1>13. GraphOK'
  <2> SUFFICES ASSUME Failures' = {}
               PROVE  \A n \in Node :
                 /\ states'[n] = "waiting" =>
                      /\ \A d \in Deps[n] : states'[d] \notin Parked \cup {"skipped"}
                      /\ (\A d \in Deps[n] : states'[d] = "success") => n \in ToSet(ready')
                 /\ states'[n] = "skipped" =>
                      \E d \in Deps[n] : states'[d] \in Parked \cup {"skipped"}
    BY DEF GraphOK
  <2>1. Failures = {} /\ \A n \in Node : s[n] # "failed" BY <1>8, <1>10
  <2>2. ASSUME NEW n \in Node, states'[n] = "skipped"
        PROVE  \E d \in Deps[n] : states'[d] \in Parked \cup {"skipped"}
    <3>1. CASE s[n] = "waiting" BY <1>4, <2>1, <2>2, <3>1
    <3>2. CASE s[n] # "waiting"
      <4>1. s[n] = "skipped" BY <1>3, <2>2, <3>2
      <4>2. n \notin D BY <2>1, <4>1
      <4>3. states[n] = "skipped" BY <4>1, <4>2
      <4>4. PICK d \in Deps[n] : states[d] \in Parked \cup {"skipped"}
        BY <2>1, <4>3 DEF GraphOK
      <4>5. states'[d] = states[d] BY <1>11, <4>4, DepsOK DEF Parked
      <4> QED BY <4>4, <4>5
    <3> QED BY <3>1, <3>2
  <2> QED BY <1>4, <2>1, <2>2
<1> QED BY <1>3, <1>5, <1>6, <1>7, <1>8, <1>10, <1>12, <1>13

LEMMA CollectInv ==
  ASSUME Inv, Collect
  PROVE  Inv'
<1> USE DEF Inv
<1>1. CASE inflight = {} /\ phase' = "over" /\ UNCHANGED <<states, ready, inflight>>
  <2>1. /\ phase = "wait"
        /\ UNCHANGED <<fixed, states, ready, dyn, rest, inflight, batch, queue, pc,
                       result, permits, aborted>>
    BY <1>1 DEF Collect
  <2>2. TypeOK' BY <1>1, <2>1 DEF TypeOK, fixed, permits
  <2>3. HoldsOK' BY <2>1, LoopHolds DEF permits
  <2>4. PlacesOK' BY <1>1, <2>1 DEF PlacesOK
  <2>5. ReadyOK' BY <2>1 DEF ReadyOK
  <2>6. PhasesOK' BY <1>1, <2>1 DEF PhasesOK, Failures
  <2>7. GraphOK' BY <2>1 DEF GraphOK, Failures
  <2>8. BudgetOK' BY <1>1, <2>1 DEF BudgetOK, Failures, Overspent, fixed
  <2>9. ItemsOK' BY <1>1, <2>1 DEF ItemsOK, ItemsSound
  <2> QED BY <2>2, <2>3, <2>4, <2>5, <2>6, <2>7, <2>8, <2>9
<1> DEFINE done == {j \in inflight : pc[j] = "done"}
           s    == [n \in Node |-> IF n \in done THEN StateOf(result[n]) ELSE states[n]]
<1>2. CASE /\ limited => done = inflight
           /\ inflight' = inflight \ done
           /\ Enter(s)
           /\ phase' = "top"
  <2>1. /\ phase = "wait"
        /\ UNCHANGED <<fixed, dyn, rest, batch, queue, pc, result, permits, aborted>>
    BY DEF Collect
  <2>2. done \subseteq inflight /\ \A j \in done : pc[j] = "done" OBVIOUS
  <2>3. inflight \subseteq Static /\ Static \subseteq Node /\ Static \subseteq Job
    BY DEF TypeOK, Static, Job
  <2>4. \A n \in done : result[n] \in Ends BY <2>2, <2>3 DEF TypeOK, BudgetOK
  <2>5. \A r \in Ends : /\ StateOf(r) \in NodeState \ {"waiting", "running"}
                        /\ StateOf(r) = "skipped" => r = "aborted"
                        /\ r = "exceeded" => StateOf(r) = "failed"
    BY DEF Ends, Results, Parked, StateOf, NodeState
  <2>6. /\ s \in [Node -> NodeState]
        /\ \A n \in Node \ done : s[n] = states[n]
        /\ \A n \in done : s[n] = StateOf(result[n])
    BY <2>2, <2>3, <2>4, <2>5 DEF TypeOK
  <2>7. limited => done = inflight BY <1>2
  <2>8. inflight' = inflight \ done /\ Enter(s) /\ phase' = "top" BY <1>2
  <2>9. \A j \in inflight : Overspent(j) => j \in done BY DEF Overspent
  <2>10. \A j \in inflight : pc[j] # "done" => j \notin done OBVIOUS
  <2>11. \A j \in inflight : pc[j] = "done" => j \in done OBVIOUS
  <2> HIDE DEF done, s
  <2>12. ASSUME aborted, Failures = {}
         PROVE  limited /\ \E m \in done : s[m] = "failed"
    <3>1. limited /\ \E j \in inflight : Overspent(j) BY <2>1, <2>12 DEF BudgetOK
    <3>2. PICK j \in inflight : Overspent(j) BY <3>1
    <3>3. j \in done /\ result[j] = "exceeded" BY <2>9, <3>2 DEF Overspent
    <3> QED BY <2>4, <2>5, <2>6, <3>1, <3>3
  <2>13. ASSUME NEW n \in done
         PROVE  /\ states[n] = "running" /\ s[n] \notin {"waiting", "running"}
                /\ s[n] = "skipped" /\ Failures = {} => \E m \in done : s[m] = "failed"
    <3>1. states[n] = "running" BY <2>2, <2>3 DEF PlacesOK
    <3>2. s[n] \notin {"waiting", "running"} BY <2>4, <2>5, <2>6
    <3>3. s[n] = "skipped" => aborted BY <2>2, <2>3, <2>4, <2>5, <2>6 DEF BudgetOK
    <3> QED BY <2>12, <3>1, <3>2, <3>3
  <2>14. done \in SUBSET Node BY <2>2, <2>3
  <2>15. /\ states' \in [Node -> NodeState] /\ ready' \in Seq(Node)
         /\ \A n \in Node : states'[n] = "waiting" => states[n] = "waiting"
         /\ \A n \in Node : states'[n] = "success" => s[n] = "success"
         /\ \A n \in Node : states'[n] = "running" <=> states[n] = "running" /\ n \notin done
         /\ \A n \in Node : s[n] = "failed" => n \in Failures'
         /\ Failures # {} => Failures' # {}
         /\ ReadyOK' /\ GraphOK'
    BY <2>6, <2>8, <2>13, <2>14, EnterGraph
  <2>16. TypeOK' BY <2>1, <2>3, <2>8, <2>15 DEF TypeOK, fixed, permits
  <2>17. HoldsOK' BY <2>1, LoopHolds DEF permits
  <2>18. PlacesOK'
    <3>1. \A j \in Job : pc[j] \in Active \cup {"queued"} => j \in inflight
      BY <2>1 DEF PlacesOK
    <3>2. \A j \in Job : pc'[j] \in Active \cup {"queued"} => j \in inflight'
      BY <2>1, <2>2, <2>8, <3>1 DEF Active
    <3>3. \A n \in Static : states'[n] = "waiting" => pc'[n] = "none"
      BY <2>1, <2>3, <2>15 DEF PlacesOK
    <3>4. \A n \in Node : states'[n] = "running" <=> n \in inflight'
      BY <2>1, <2>8, <2>15 DEF PlacesOK
    <3> QED BY <2>1, <2>8, <3>2, <3>3, <3>4 DEF PlacesOK
  <2>19. PhasesOK' BY <2>8 DEF PhasesOK
  <2>20. BudgetOK'
    <3>1. ASSUME aborted PROVE limited /\ Failures' # {}
      <4>1. CASE Failures # {} BY <2>15, <3>1, <4>1 DEF BudgetOK
      <4>2. CASE Failures = {} BY <2>12, <2>14, <2>15, <3>1, <4>2
      <4> QED BY <4>1, <4>2
    <3> QED BY <2>1, <3>1 DEF BudgetOK, fixed
  <2>21. ItemsOK'
    <3>1. \A n \in Dynamic : n \in Node /\ n \notin done
      BY <2>2, <2>3, ConstantsOK DEF Static
    <3>2. \A n \in Dynamic : states'[n] = "success" => states[n] = "success"
      BY <2>6, <2>15, <3>1
    <3>3. ItemsSound' BY <2>1, <3>2, SoundKept DEF ItemsOK
    <3> QED BY <2>1, <2>8, <2>15, <3>1, <3>3 DEF ItemsOK
  <2> QED BY <2>15, <2>16, <2>17, <2>18, <2>19, <2>20, <2>21
<1> QED BY <1>1, <1>2 DEF Collect

\* The node succeeds only with all its items: what would leave some of them out
\* is an outcome that fails or parks the node.
LEMMA AggregateOK ==
  ASSUME Inv, phase = "dynamic", Idle, ItemsOver
  PROVE  /\ Aggregate \in {"failed", "pending", "retry_pending", "success"}
         /\ Aggregate = "success" =>
              \A i \in ToSet(Entries[dyn]) : result[i] = "success"
         /\ aborted => limited /\ Aggregate = "failed"
<1> USE DEF Inv
<1>1. Aggregate \in {"failed", "pending", "retry_pending", "success"} BY DEF Aggregate
<1>2. /\ dyn \in Dynamic /\ Begun \in Nat /\ Begun + Len(rest) = Len(Entries[dyn])
      /\ Entries[dyn] \in Seq(Item)
  BY AtHand
<1>3. \A i \in ToSet(Entries[dyn]) : i \in Job BY <1>2, EntriesOK
<1>4. \A i \in ToSet(Entries[dyn]) : pc[i] = "done" => result[i] \in Ended
  BY DEF Ended
<1>5. Ended \subseteq Ends BY <1>3 DEF Ended, TypeOK, BudgetOK
<1>6. ASSUME aborted PROVE limited /\ "exceeded" \in Ended
  <2>1. limited /\ \E i \in ToSet(Entries[dyn]) : Overspent(i)
    BY <1>6 DEF BudgetOK, PhasesOK
  <2> QED BY <1>4, <2>1 DEF Overspent
<1>7. ASSUME aborted PROVE limited /\ Aggregate = "failed"
  <2>1. Ended \cap {"failed", "exceeded"} # {} BY <1>6, <1>7
  <2> QED BY <1>6, <1>7, <2>1 DEF Aggregate
<1>8. ASSUME Aggregate = "success"
      PROVE  \A i \in ToSet(Entries[dyn]) : result[i] = "success"
  <2>1. Ended \cap {"failed", "exceeded", "pending", "retry_pending"} = {}
    BY <1>8 DEF Aggregate
  <2>2. ~aborted BY <1>6, <2>1
  <2>3. "aborted" \notin Ended BY <1>3, <2>2 DEF Ended, BudgetOK
  <2>4. Ended \subseteq {"success"}
    BY <1>5, <2>1, <2>3 DEF Ends, Results, Parked
  <2>5. rest = <<>> BY <2>1, <2>2, <2>3, <2>4 DEF ItemsOver, Stopped
  <2>6. Begun = Len(Entries[dyn]) BY <1>2, <2>5
  <2>7. ASSUME NEW i \in ToSet(Entries[dyn]) PROVE pc[i] = "done"
    <3>1. PICK k \in DOMAIN Entries[dyn] : i = Entries[dyn][k] BY DEF ToSet
    <3>2. ~(k > Begun) BY <1>2, <2>6
    <3>3. pc[i] # "none" BY <3>1, <3>2 DEF ItemsOK
    <3> QED BY <3>3 DEF Idle
  <2> QED BY <1>4, <2>4, <2>7
<1> QED BY <1>1, <1>7, <1>8

LEMMA FinishDynamicInv ==
  ASSUME Inv, FinishDynamic
  PROVE  Inv'
<1> USE DEF Inv
<1>1. /\ phase = "dynamic" /\ Idle
      /\ dyn' = NoOne /\ rest' = <<>> /\ batch' = {} /\ phase' = "top"
      /\ UNCHANGED <<fixed, inflight, queue, pc, result, permits, aborted>>
  BY DEF FinishDynamic
<1>0. PICK r \in Results :
        /\ (ItemsOver /\ r = Aggregate) \/ (MayFail /\ r = "failed")
        /\ Enter([states EXCEPT ![dyn] = r])
  BY DEF FinishDynamic
<1> DEFINE s == [states EXCEPT ![dyn] = r]
<1>2. /\ r \in {"failed", "pending", "retry_pending", "success"}
      /\ r = "success" =>
           \A i \in ToSet(Entries[dyn]) : result[i] = "success"
      /\ aborted => limited /\ r = "failed"
  <2>1. CASE ItemsOver /\ r = Aggregate
    BY <1>1, <2>1, AggregateOK
  <2>2. CASE r = "failed"
    <3>1. aborted => limited BY <1>1 DEF BudgetOK, PhasesOK
    <3> QED BY <2>2, <3>1
  <2> QED BY <1>0, <2>1, <2>2
<1>3. dyn \in Dynamic /\ dyn \in Node BY <1>1, ConstantsOK DEF TypeOK
<1>4. /\ s \in [Node -> NodeState] /\ s[dyn] = r
      /\ \A n \in Node \ {dyn} : s[n] = states[n]
      /\ Enter(s)
  BY <1>0, <1>2, <1>3 DEF TypeOK, NodeState, Parked
<1>5. states[dyn] = "running" BY <1>1, <1>3 DEF PlacesOK
<1> HIDE DEF s
<1>6. /\ states' \in [Node -> NodeState] /\ ready' \in Seq(Node)
      /\ \A n \in Node : states'[n] = "waiting" => states[n] = "waiting"
      /\ \A n \in Node : states'[n] = "success" => s[n] = "success"
      /\ \A n \in Node : states'[n] = "running" <=> states[n] = "running" /\ n # dyn
      /\ \A n \in Node : s[n] = "failed" => n \in Failures'
      /\ Failures # {} => Failures' # {}
      /\ ReadyOK' /\ GraphOK'
  <2> DEFINE D == {dyn}
  <2>1. /\ D \in SUBSET Node
        /\ \A n \in Node \ D : s[n] = states[n]
        /\ \A n \in D : states[n] = "running" /\ s[n] \notin {"waiting", "running"}
        /\ \A n \in D : s[n] = "skipped" /\ Failures = {} => \E m \in D : s[m] = "failed"
    BY <1>2, <1>3, <1>4, <1>5
  <2>2. \A n : n \notin D <=> n # dyn OBVIOUS
  <2> HIDE DEF D
  <2> QED BY <1>1, <1>4, <2>1, <2>2, EnterGraph
<1>7. TypeOK' BY <1>1, <1>6 DEF TypeOK, fixed, permits
<1>8. HoldsOK' BY <1>1, LoopHolds DEF permits
<1>9. PlacesOK'
  <2>1. \A j \in Job : pc[j] \in Active \cup {"queued"} => j \in inflight
    BY <1>1 DEF PlacesOK, Idle, Active
  <2>2. \A n \in Static : n \in Node BY DEF Static
  <2>3. \A n \in Static : states'[n] = "waiting" => pc'[n] = "none"
    BY <1>1, <1>6, <2>2 DEF PlacesOK
  <2>4. dyn \notin inflight BY <1>3 DEF TypeOK, Static
  <2>5. \A n \in Node : states'[n] = "running" <=> n \in inflight'
    BY <1>1, <1>6, <2>4 DEF PlacesOK
  <2> QED BY <1>1, <2>1, <2>3, <2>5 DEF PlacesOK
<1>10. PhasesOK' BY <1>1 DEF PhasesOK
<1>11. BudgetOK'
  <2>1. aborted => limited /\ Failures' # {} BY <1>2, <1>3, <1>4, <1>6
  <2> QED BY <1>1, <2>1 DEF BudgetOK, fixed
<1>12. ItemsOK'
  <2>1. ASSUME NEW n \in Dynamic, states'[n] = "success"
        PROVE  \A i \in ToSet(Entries[n]) : result'[i] = "success"
    <3>1. n \in Node /\ s[n] = "success" BY <1>6, <2>1, ConstantsOK
    <3>2. CASE n = dyn BY <1>1, <1>2, <1>4, <3>1, <3>2
    <3>3. CASE n # dyn
      <4>1. states[n] = "success" BY <1>4, <3>1, <3>3
      <4> QED BY <1>1, <4>1 DEF ItemsOK, ItemsSound
    <3> QED BY <3>2, <3>3
  <2>2. ItemsSound' BY <1>1, <2>1 DEF ItemsOK, ItemsSound
  <2>3. \A n \in Dynamic : states'[n] = "waiting" => states[n] = "waiting"
    BY <1>6, ConstantsOK
  <2> QED BY <1>1, <2>2, <2>3 DEF ItemsOK
<1> QED BY <1>6, <1>7, <1>8, <1>9, <1>10, <1>11, <1>12

\* The next item of a scan is begun after the one in front of it succeeded.
LEMMA NextItemInv ==
  ASSUME Inv, NextItem
  PROVE  Inv'
<1> USE DEF Inv
<1>1. /\ phase = "dynamic" /\ Serial /\ Idle /\ rest # <<>> /\ ~Stopped
      /\ rest' = Tail(rest) /\ Goto(Head(rest), "begun")
      /\ UNCHANGED <<fixed, states, ready, inflight, phase, dyn, batch, queue,
                     result, permits, aborted>>
  BY DEF NextItem
<1> DEFINE i == Head(rest)
           E == Entries[dyn]
<1>2. /\ dyn \in Dynamic /\ E \in Seq(Item) /\ rest \in Seq(Item)
      /\ Begun \in Nat /\ Begun + Len(rest) = Len(E)
      /\ \A k \in DOMAIN rest :
           /\ Begun + k \in DOMAIN E /\ rest[k] = E[Begun + k]
           /\ rest[k] \in Item /\ rest[k] \in Job /\ rest[k] \in ToSet(E)
           /\ pc[rest[k]] = "none"
  BY <1>1, AtHand
<1>3. 1 \in DOMAIN rest /\ i = rest[1] /\ Len(rest) \in Nat \ {0} BY <1>1, <1>2
<1>4. /\ i \in Item /\ i \in Job /\ i \in ToSet(E) /\ pc[i] = "none"
      /\ Begun + 1 \in DOMAIN E /\ i = E[Begun + 1]
  BY <1>2, <1>3
<1>4a. \A n \in Dynamic : n # dyn => i \notin ToSet(Entries[n])
  <2> HIDE DEF i
  <2>1. \A n \in Dynamic : n # dyn => ToSet(Entries[n]) \cap ToSet(Entries[dyn]) = {}
    BY <1>2, EntriesOK, Zenon
  <2> QED BY <1>4, <2>1
<1>5. pc' = [pc EXCEPT ![i] = "begun"] BY <1>1 DEF Goto
<1>6. /\ rest' \in Seq(Item) /\ Len(rest') = Len(rest) - 1
      /\ \A k \in DOMAIN rest' : k + 1 \in DOMAIN rest /\ rest'[k] = rest[k + 1]
  BY <1>1, <1>2, <1>3
<1>7. /\ dyn' = dyn /\ phase' = "dynamic" /\ queue' = queue /\ UNCHANGED <<states, result>>
  BY <1>1
<1> HIDE DEF i
<1>8. /\ pc' \in [Job -> PcState]
      /\ \A j \in Job : pc'[j] = IF j = i THEN "begun" ELSE pc[j]
  BY <1>4, <1>5 DEF TypeOK, PcState, Active
<1>9. TypeOK' BY <1>1, <1>6, <1>8 DEF TypeOK, fixed, permits
<1>10. HoldsOK' BY <1>1, <1>4, <1>8, LoopHolds DEF permits
<1>11. PlacesOK'
  <2>1. \A k \in DOMAIN queue : queue[k] \in Job /\ queue[k] # i
    BY <1>4 DEF PlacesOK, TypeOK
  <2>2. \A k \in DOMAIN queue' : pc'[queue'[k]] = "queued"
    BY <1>7, <1>8, <2>1 DEF PlacesOK
  <2>3. \A j \in Job : pc'[j] \in Active \cup {"queued"} =>
          \/ j \in inflight'
          \/ phase' = "dynamic" /\ j \in ToSet(Entries[dyn'])
    BY <1>1, <1>4, <1>8 DEF PlacesOK
  <2>4. \A n \in Static : n \in Job /\ n # i
    BY <1>4, ConstantsOK DEF Static, Job
  <2> QED BY <1>1, <1>8, <2>2, <2>3, <2>4 DEF PlacesOK
<1>12. ReadyOK' BY <1>1 DEF ReadyOK
<1>13. PhasesOK' BY <1>1 DEF PhasesOK, Failures, fixed
<1>14. GraphOK' BY <1>1 DEF GraphOK, Failures
<1>15. BudgetOK'
  <2>1. \A j \in Job : Overspent(j) => Overspent(j)' BY <1>4, <1>7, <1>8 DEF Overspent
  <2>2. inflight \subseteq Job /\ ToSet(E) \subseteq Job
    BY <1>2, EntriesOK DEF TypeOK, Static, Job
  <2>3. \A j \in Job : result'[j] = "none" <=> pc'[j] \notin {"ended", "done"}
    BY <1>4, <1>7, <1>8 DEF BudgetOK
  <2>4. Failures' = Failures BY <1>1 DEF Failures
  <2> QED BY <1>1, <2>1, <2>2, <2>3, <2>4 DEF BudgetOK, fixed
<1>16. ItemsOK'
  <2>1. Begun' = Begun + 1 BY <1>2, <1>6, <1>7 DEF Begun
  <2>2. \A k \in DOMAIN E : E[k] \in Job BY <1>2 DEF Job
  <2>3. \A k \in DOMAIN E : E[k] = i => k = Begun + 1
    BY <1>2, <1>4, EntriesOK
  <2>4. \A k \in DOMAIN E : pc'[E[k]] = "none" <=> k > Begun + 1
    <3> SUFFICES ASSUME NEW k \in DOMAIN E
                 PROVE  pc'[E[k]] = "none" <=> k > Begun + 1
      OBVIOUS
    <3>1. k \in Nat BY <1>2
    <3>2. pc[E[k]] = "none" <=> k > Begun BY <1>1 DEF ItemsOK
    <3>3. CASE k = Begun + 1 BY <1>2, <1>4, <1>8, <3>3
    <3>4. CASE k # Begun + 1
      <4>1. pc'[E[k]] = pc[E[k]] BY <1>8, <2>2, <2>3, <3>4
      <4> QED BY <1>2, <3>1, <3>2, <3>4, <4>1
    <3> QED BY <3>3, <3>4
  <2>5. \A k \in DOMAIN rest' : rest'[k] = E[Begun' + k]
    <3> SUFFICES ASSUME NEW k \in DOMAIN rest' PROVE rest'[k] = E[Begun' + k]
      OBVIOUS
    <3>1. rest'[k] = E[Begun + (k + 1)] BY <1>2, <1>6
    <3>a. k \in Nat BY <1>6
    <3>2. Begun + (k + 1) = Begun' + k BY <1>2, <2>1, <3>a
    <3> QED BY <3>1, <3>2
  <2>6. \A n \in Dynamic : states'[n] = "waiting" =>
          \A j \in ToSet(Entries[n]) : pc'[j] = "none"
    <3> SUFFICES ASSUME NEW n \in Dynamic, states[n] = "waiting"
                 PROVE  \A j \in ToSet(Entries[n]) : pc'[j] = "none"
      BY <1>7
    <3>1. n # dyn BY <1>1, <1>2, ConstantsOK DEF PlacesOK
    <3>2. i \notin ToSet(Entries[n]) BY <1>4a, <3>1
    <3>3. ToSet(Entries[n]) \subseteq Job BY EntriesOK
    <3> QED BY <1>8, <3>2, <3>3 DEF ItemsOK
  <2>7. ASSUME NEW n \in Scan, NEW k \in 2..Len(Entries[n]), pc'[Entries[n][k]] # "none"
        PROVE  result'[Entries[n][k - 1]] = "success"
    <3>1. n \in Dynamic BY ConstantsOK
    <3>2. /\ k \in DOMAIN Entries[n] /\ k - 1 \in DOMAIN Entries[n]
          /\ k \in Nat
      BY <3>1, EntriesOK
    <3>3. Entries[n][k] \in Job /\ Entries[n][k] \in ToSet(Entries[n])
      BY <3>1, <3>2, EntriesOK DEF ToSet
    <3>4. CASE Entries[n][k] # i
      <4>1. pc[Entries[n][k]] # "none" BY <1>8, <2>7, <3>3, <3>4
      <4> QED BY <1>7, <4>1 DEF ItemsOK, ItemsSound
    <3>5. CASE Entries[n][k] = i
      <4>1. n = dyn BY <1>4a, <3>1, <3>3, <3>5
      <4>2. k = Begun + 1 BY <2>3, <3>2, <3>5, <4>1
      <4>3. k - 1 \in DOMAIN E /\ ~(k - 1 > Begun) BY <1>2, <3>2, <4>1, <4>2
      <4>4. pc[E[k - 1]] # "none" BY <1>1, <4>3 DEF ItemsOK
      <4>5. E[k - 1] \in ToSet(E) BY <4>3 DEF ToSet
      <4>6. result[E[k - 1]] \in Ended BY <1>1, <4>4, <4>5 DEF Idle, Ended
      <4>7. Ended \subseteq {"success"} BY <1>1, <4>1 DEF Stopped
      <4> QED BY <1>7, <4>1, <4>6, <4>7
    <3> QED BY <3>4, <3>5
  <2>8. ItemsSound' BY <1>7, <2>7 DEF ItemsOK, ItemsSound
  <2> HIDE DEF E
  <2>9. Begun' >= 0 BY <1>2, <2>1
  <2> QED BY <1>7, <2>1, <2>4, <2>5, <2>6, <2>8, <2>9 DEF ItemsOK, E
<1> QED BY <1>9, <1>10, <1>11, <1>12, <1>13, <1>14, <1>15, <1>16

\* A batch is the next items, all at once.
LEMMA NextBatchInv ==
  ASSUME Inv, NextBatch
  PROVE  Inv'
<1> USE DEF Inv
<1> DEFINE size == Min({Len(rest), IF limited THEN Window ELSE Workers})
           new  == SubSeq(rest, 1, size)
           E    == Entries[dyn]
<1>1. /\ phase = "dynamic" /\ ~Serial /\ Idle /\ rest # <<>>
      /\ rest' = SubSeq(rest, size + 1, Len(rest))
      /\ batch' = ToSet(new) /\ queue' = queue \o new
      /\ pc' = [j \in Job |-> IF j \in ToSet(new) THEN "queued" ELSE pc[j]]
      /\ UNCHANGED <<fixed, states, ready, inflight, phase, dyn, result, permits,
                     aborted>>
  BY DEF NextBatch
<1>2. /\ dyn \in Dynamic /\ E \in Seq(Item) /\ rest \in Seq(Item)
      /\ Begun \in Nat /\ Begun + Len(rest) = Len(E)
      /\ \A k \in DOMAIN rest :
           /\ Begun + k \in DOMAIN E /\ rest[k] = E[Begun + k]
           /\ rest[k] \in Item /\ rest[k] \in Job /\ rest[k] \in ToSet(E)
           /\ pc[rest[k]] = "none"
      /\ \A h, k \in DOMAIN rest : rest[h] = rest[k] => h = k
  BY <1>1, AtHand
<1>3. size \in Nat /\ 1 <= size /\ size <= Len(rest)
  <2>1. Len(rest) \in Nat \ {0} BY <1>1, <1>2
  <2>2. (IF limited THEN Window ELSE Workers) \in Nat \ {0} BY ThreadsOK, ConstantsOK
  <2>3. \A a, b \in Nat : Min({a, b}) \in {a, b} /\ Min({a, b}) <= a
    BY DEF Min
  <2> QED BY <2>1, <2>2, <2>3
<1> HIDE DEF size
<1>4. /\ new \in Seq(Item) /\ Len(new) = size
      /\ \A k \in DOMAIN new : k \in DOMAIN rest /\ k <= size /\ new[k] = rest[k]
      /\ DOMAIN new = 1..size
  BY <1>2, <1>3
<1>5. /\ rest' \in Seq(Item) /\ Len(rest') = Len(rest) - size
      /\ \A k \in DOMAIN rest' : k + size \in DOMAIN rest /\ rest'[k] = rest[k + size]
  BY <1>1, <1>2, <1>3
<1> HIDE DEF new
<1>6. ASSUME NEW j \in ToSet(new)
      PROVE  j \in Item /\ j \in Job /\ j \in ToSet(E) /\ pc[j] = "none"
  <2>1. PICK k \in DOMAIN new : j = new[k] BY DEF ToSet
  <2> QED BY <1>2, <1>4, <2>1
<1>7. /\ pc' \in [Job -> PcState]
      /\ \A j \in Job : pc'[j] = IF j \in ToSet(new) THEN "queued" ELSE pc[j]
  BY <1>1 DEF TypeOK, PcState
<1>8. /\ dyn' = dyn /\ phase' = "dynamic" /\ inflight' = inflight
      /\ UNCHANGED <<states, result, aborted, limited>>
  BY <1>1 DEF fixed
<1>9. new \in Seq(Job) BY <1>4, <1>6 DEF ToSet
<1>10. queue' \in Seq(Job) BY <1>1, <1>9 DEF TypeOK
<1>11. ToSet(new) \subseteq Item BY <1>6
<1>12. TypeOK' BY <1>1, <1>5, <1>7, <1>10, <1>11 DEF TypeOK, fixed, permits
<1>13. HoldsOK' BY <1>1, <1>6, <1>7, LoopHolds DEF permits
<1>14. PlacesOK'
  <2>1. /\ queue \in Seq(Job)
        /\ \A h, k \in DOMAIN queue : queue[h] = queue[k] => h = k
        /\ \A k \in DOMAIN queue : pc[queue[k]] = "queued"
    BY DEF TypeOK, PlacesOK
  <2>2. \A h, k \in DOMAIN new : new[h] = new[k] => h = k BY <1>2, <1>4
  <2>3. ToSet(queue) \cap ToSet(new) = {} BY <1>6, <2>1 DEF ToSet
  <2> DEFINE q == queue \o new
  <2>4. /\ ToSet(q) = ToSet(queue) \cup ToSet(new)
        /\ \A h, k \in DOMAIN q : q[h] = q[k] => h = k
        /\ q \in Seq(Job)
    BY <1>9, <2>1, <2>2, <2>3, Appended, Zenon
  <2>5. queue' = q BY <1>1
  <2> HIDE DEF q
  <2>6. \A j \in ToSet(queue') : j \in Job /\ pc'[j] = "queued"
    <3>1. \A j \in ToSet(queue) : j \in Job /\ pc[j] = "queued" BY <2>1 DEF ToSet
    <3> QED BY <1>6, <1>7, <2>4, <2>5, <3>1
  <2>7. \A k \in DOMAIN queue' : queue'[k] \in ToSet(queue') BY DEF ToSet
  <2>8. \A j \in Job : pc'[j] \in Active \cup {"queued"} =>
          \/ j \in inflight'
          \/ phase' = "dynamic" /\ j \in ToSet(Entries[dyn'])
    BY <1>1, <1>6, <1>7, <1>8 DEF PlacesOK
  <2>9. \A n \in Static : n \in Job /\ n \notin ToSet(new)
    BY <1>11, ConstantsOK DEF Static, Job
  <2>10. \A n \in Static : states'[n] = "waiting" => pc'[n] = "none"
    BY <1>7, <1>8, <2>9 DEF PlacesOK
  <2>11. \A n \in Node : states'[n] = "running" <=>
                           n \in inflight' \/ (phase' = "dynamic" /\ n = dyn')
    BY <1>1, <1>8 DEF PlacesOK
  <2> QED BY <2>4, <2>5, <2>6, <2>7, <2>8, <2>10, <2>11 DEF PlacesOK
<1>15. ReadyOK' BY <1>1 DEF ReadyOK
<1>16. PhasesOK' BY <1>1 DEF PhasesOK, Failures, fixed
<1>17. GraphOK' BY <1>1 DEF GraphOK, Failures
<1>18. BudgetOK'
  <2>1. \A j \in Job : Overspent(j) => Overspent(j)'
    BY <1>6, <1>7, <1>8 DEF Overspent
  <2>2. inflight \subseteq Job /\ ToSet(E) \subseteq Job
    BY <1>2, EntriesOK DEF TypeOK, Static, Job
  <2>3. \A j \in Job : result'[j] = "none" <=> pc'[j] \notin {"ended", "done"}
    BY <1>6, <1>7, <1>8 DEF BudgetOK
  <2>4. Failures' = Failures BY <1>8 DEF Failures
  <2> QED BY <1>1, <1>8, <2>1, <2>2, <2>3, <2>4 DEF BudgetOK
<1>19. ItemsOK'
  <2>1. Begun' = Begun + size BY <1>2, <1>3, <1>5, <1>8 DEF Begun
  <2>2. ASSUME NEW k \in DOMAIN E PROVE E[k] \in ToSet(new) <=> k > Begun /\ k <= Begun + size
    <3>1. k \in Nat /\ k <= Len(E) /\ k >= 1 BY <1>2
    <3>2. ASSUME E[k] \in ToSet(new) PROVE k > Begun /\ k <= Begun + size
      <4>1. PICK h \in DOMAIN new : E[k] = new[h] BY <3>2 DEF ToSet
      <4>2. Begun + h \in DOMAIN E /\ E[k] = E[Begun + h] BY <1>2, <1>4, <4>1
      <4>3. k = Begun + h BY <1>2, <4>2, EntriesOK
      <4> QED BY <1>2, <1>3, <1>4, <4>3
    <3>3. ASSUME k > Begun, k <= Begun + size PROVE E[k] \in ToSet(new)
      <4>1. k - Begun \in DOMAIN new BY <1>2, <1>3, <1>4, <3>1, <3>3
      <4>2. new[k - Begun] = E[Begun + (k - Begun)] BY <1>2, <1>4, <4>1
      <4>3. Begun + (k - Begun) = k BY <1>2, <3>1
      <4>4. new[k - Begun] = E[k] BY <4>2, <4>3
      <4> QED BY <4>1, <4>4 DEF ToSet
    <3> QED BY <3>2, <3>3
  <2>3. \A k \in DOMAIN E : pc'[E[k]] = "none" <=> k > Begun'
    <3> SUFFICES ASSUME NEW k \in DOMAIN E
                 PROVE  pc'[E[k]] = "none" <=> k > Begun + size
      BY <2>1
    <3>1. k \in Nat /\ E[k] \in Job BY <1>2 DEF Job
    <3>2. pc[E[k]] = "none" <=> k > Begun BY <1>1 DEF ItemsOK
    <3>3. pc'[E[k]] = IF E[k] \in ToSet(new) THEN "queued" ELSE pc[E[k]]
      BY <1>7, <3>1
    <3> HIDE DEF E
    <3> QED BY <1>2, <1>3, <2>2, <3>1, <3>2, <3>3
  <2>4. \A k \in DOMAIN rest' : rest'[k] = E[Begun' + k]
    <3> SUFFICES ASSUME NEW k \in DOMAIN rest' PROVE rest'[k] = E[Begun' + k]
      OBVIOUS
    <3>1. rest'[k] = E[Begun + (k + size)] BY <1>2, <1>5
    <3>2. k \in Nat BY <1>5
    <3>3. Begun + (k + size) = Begun' + k BY <1>2, <1>3, <2>1, <3>2
    <3> QED BY <3>1, <3>3
  <2>5. \A n \in Dynamic : n # dyn => ToSet(Entries[n]) \cap ToSet(E) = {}
    BY <1>2, EntriesOK, Zenon
  <2>6. \A n \in Dynamic : n # dyn =>
          \A j \in ToSet(Entries[n]) : j \in Job /\ pc'[j] = pc[j]
    <3>1. \A n \in Dynamic : ToSet(Entries[n]) \subseteq Job BY EntriesOK
    <3> QED BY <1>6, <1>7, <2>5, <3>1
  <2>7. \A n \in Dynamic : states'[n] = "waiting" =>
          \A j \in ToSet(Entries[n]) : pc'[j] = "none"
    <3> SUFFICES ASSUME NEW n \in Dynamic, states[n] = "waiting"
                 PROVE  \A j \in ToSet(Entries[n]) : pc'[j] = "none"
      BY <1>8
    <3>1. n # dyn BY <1>1, <1>2, ConstantsOK DEF PlacesOK
    <3> QED BY <2>6, <3>1 DEF ItemsOK
  <2>8. ASSUME NEW n \in Scan, NEW k \in 2..Len(Entries[n]), pc'[Entries[n][k]] # "none"
        PROVE  result'[Entries[n][k - 1]] = "success"
    <3>1. n \in Dynamic /\ n # dyn BY <1>1, ConstantsOK DEF Serial
    <3>2. k \in DOMAIN Entries[n] BY <3>1, EntriesOK
    <3>3. Entries[n][k] \in ToSet(Entries[n]) BY <3>2 DEF ToSet
    <3>4. pc[Entries[n][k]] # "none" BY <2>6, <2>8, <3>1, <3>3
    <3> QED BY <1>8, <3>4 DEF ItemsOK, ItemsSound
  <2>9. ItemsSound' BY <1>8, <2>8 DEF ItemsOK, ItemsSound
  <2> HIDE DEF E
  <2>10. Begun' >= 0 BY <1>2, <1>3, <2>1
  <2> QED BY <1>8, <2>3, <2>4, <2>7, <2>9, <2>10 DEF ItemsOK, E
<1> QED BY <1>12, <1>13, <1>14, <1>15, <1>16, <1>17, <1>18, <1>19

-----------------------------------------------------------------------------
LEMMA InitInv == Init => Inv
<1> SUFFICES ASSUME Init PROVE Inv OBVIOUS
<1> DEFINE roots == {n \in Node : Deps[n] = {}}
<1>1. PICK q \in Listed(roots) : ready = q BY DEF Init
<1>2. roots \in SUBSET Node OBVIOUS
<1>3. /\ ready \in Seq(Node) /\ ToSet(ready) = roots
      /\ \A i, k \in DOMAIN ready : ready[i] = ready[k] => i = k
  BY <1>1, <1>2, ListedOK
<1>4. TypeOK
  <2>1. free \in [Pool -> Nat] BY ConstantsOK DEF Init
  <2>2. rest \in Seq(Item) /\ queue \in Seq(Job) BY DEF Init
  <2>3. dyn = NoOne /\ phase = "top" BY DEF Init
  <2> QED BY <1>3, <2>1, <2>2, <2>3 DEF Init, TypeOK, NodeState, PcState
<1>5. HoldsOK
  <2>1. \A j \in Job, p \in Pool : held[j][p] = 0 BY DEF Init
  <2>2. \A j \in Job, p \in Pool : Needs[NodeOf(j)][p] \in Nat
    BY NodeOfOK, ConstantsOK
  <2>3. \A p \in Pool : Taken(p) = {} BY <2>1 DEF Taken
  <2>4. \A p \in Pool : free[p] + Cardinality(Taken(p)) = Limit[p]
    <3>1. Cardinality({}) = 0 BY FS_EmptySet
    <3>2. \A p \in Pool : free[p] = Limit[p] /\ Limit[p] \in Nat
      BY ConstantsOK DEF Init
    <3> QED BY <2>3, <3>1, <3>2
  <2> QED BY <2>1, <2>2, <2>4 DEF HoldsOK, PermitsConserved
<1>6. \A j \in Job : pc[j] = "none" /\ result[j] = "none" BY DEF Init
<1>7. \A n \in Node : states[n] = "waiting" BY DEF Init
<1>8. Failures = {} BY <1>7 DEF Failures
<1>9. /\ phase = "top" /\ inflight = {} /\ queue = <<>> /\ ~aborted
  BY DEF Init
<1>10. PlacesOK BY <1>6, <1>7, <1>9 DEF PlacesOK, Active, Static, Job
<1>11. ReadyOK
  <2>1. \A i \in DOMAIN ready : ready[i] \in Node BY <1>3
  <2> QED BY <1>3, <1>7, <2>1 DEF ReadyOK
<1>12. PhasesOK BY <1>9 DEF PhasesOK
<1>13. GraphOK BY <1>3, <1>7, DepsOK DEF GraphOK, Parked
<1>14. BudgetOK BY <1>6, <1>9 DEF BudgetOK
<1>15. ItemsOK
  <2>1. \A n \in Dynamic : n \in Node BY ConstantsOK
  <2>2. \A n \in Dynamic : \A k \in DOMAIN Entries[n] : Entries[n][k] \in Job
    BY EntriesOK
  <2>3. \A n \in Dynamic : ToSet(Entries[n]) \subseteq Job BY EntriesOK
  <2>4. \A n \in Scan : \A k \in 2..Len(Entries[n]) : Entries[n][k] \in Job
    BY EntriesOK, ConstantsOK
  <2>5. ItemsSound BY <1>6, <1>7, <2>1, <2>4 DEF ItemsSound
  <2> QED BY <1>6, <1>9, <2>3, <2>5 DEF ItemsOK
<1> QED BY <1>4, <1>5, <1>10, <1>11, <1>12, <1>13, <1>14, <1>15 DEF Inv

LEMMA NextInv == Inv /\ [Next]_vars => Inv'
<1> SUFFICES ASSUME Inv, [Next]_vars PROVE Inv' OBVIOUS
<1>1. CASE Loop
  <2>1. CASE Top BY <2>1, TopInv
  <2>2. CASE Submit BY <2>2, SubmitInv
  <2>3. CASE SubmitDone BY <2>3, SubmitDoneInv
  <2>4. CASE Collect BY <2>4, CollectInv
  <2>5. CASE NextItem BY <2>5, NextItemInv
  <2>6. CASE NextBatch BY <2>6, NextBatchInv
  <2>7. CASE FinishDynamic BY <2>7, FinishDynamicInv
  <2> QED BY <1>1, <2>1, <2>2, <2>3, <2>4, <2>5, <2>6, <2>7 DEF Loop
<1>2. ASSUME NEW j \in Job, Step(j) PROVE Inv'
  <2>1. /\ UNCHANGED <<limited, timed, states, ready, inflight, phase, dyn, rest, batch>>
        /\ pc' \in [Job -> PcState] /\ result' \in [Job -> Ends \cup {"none"}]
        /\ aborted' \in BOOLEAN
    BY <1>2, StepEffect DEF Inv, fixed, scheduling
  <2>2. /\ free' \in [Pool -> Nat] /\ held' \in [Job -> [Pool -> Nat]]
        /\ gate' \in [Pool -> Job \cup {NoOne}]
        /\ HoldsOK'
    BY <1>2, StepHolds DEF Inv
  <2>3. PlacesOK' /\ queue' \in Seq(Job) BY <1>2, StepPlaces DEF Inv
  <2>4. TypeOK' BY <2>1, <2>2, <2>3 DEF Inv, TypeOK
  <2>5. ReadyOK' /\ PhasesOK' /\ GraphOK' BY <1>2, StepGraph
  <2>6. BudgetOK' BY <1>2, StepBudget
  <2>7. ItemsOK' BY <1>2, StepItems
  <2> QED BY <2>2, <2>3, <2>4, <2>5, <2>6, <2>7 DEF Inv
<1>3. CASE UNCHANGED vars
  <2>1. UNCHANGED <<limited, timed, states, ready, inflight, phase, dyn, rest, batch,
                    queue, pc, result, gate, free, held, aborted>>
    BY <1>3 DEF vars, fixed, scheduling, permits
  <2>2. TypeOK' BY <2>1 DEF Inv, TypeOK
  <2>3. HoldsOK' BY <2>1, LoopHolds DEF Inv
  <2>4. PlacesOK' BY <2>1 DEF Inv, PlacesOK
  <2>5. ReadyOK' BY <2>1 DEF Inv, ReadyOK
  <2>6. PhasesOK' /\ GraphOK' BY <2>1 DEF Inv, PhasesOK, GraphOK, Failures
  <2>7. BudgetOK' BY <2>1 DEF Inv, BudgetOK, Failures, Overspent
  <2>8. ItemsOK' BY <2>1 DEF Inv, ItemsOK, ItemsSound, Begun
  <2> QED BY <2>2, <2>3, <2>4, <2>5, <2>6, <2>7, <2>8 DEF Inv
<1> QED BY <1>1, <1>2, <1>3 DEF Next

THEOREM Invariance == Spec => []Inv
<1> QED BY InitInv, NextInv, PTL DEF Spec

-----------------------------------------------------------------------------
\* Every unit of a pool is free or with a job that waits for more of them or
\* runs, after any number of timeouts, errors and releases.
THEOREM PermitsAreConserved == Spec => []PermitsConserved
<1>1. Inv => PermitsConserved BY DEF Inv, HoldsOK
<1> QED BY <1>1, Invariance, PTL

\* Items of a scan follow on one another's success, and a dynamic node
\* succeeds only with the success of all its items.
THEOREM ItemsAreSound == Spec => []ItemsSound
<1>1. Inv => ItemsSound BY DEF Inv, ItemsOK
<1> QED BY <1>1, Invariance, PTL

\* The argument for nodes that would wait for ever: the first of them in the
\* topological order has only dependencies that succeeded, so it would be ready.
LEMMA NobodyWaits ==
  ASSUME Inv, phase = "over", Failures = {}
  PROVE  \A n \in Node : states[n] # "waiting"
<1> USE DEF Inv
<1> DEFINE T == {i \in DOMAIN Order : states[Order[i]] = "waiting"}
<1> SUFFICES ASSUME NEW m \in Node, states[m] = "waiting" PROVE FALSE OBVIOUS
<1>1. /\ Order \in Seq(Node)
      /\ \A n \in Node : \E i \in DOMAIN Order : Order[i] = n
      /\ \A i \in DOMAIN Order : Deps[Order[i]] \subseteq {Order[k] : k \in 1..(i - 1)}
  <2>1. Order \in Seq(Node) /\ ToSet(Order) = Node BY Validated
  <2>2. DOMAIN Order = 1..Len(Order) BY <2>1
  <2>3. \A i \in 1..Len(Order) : Deps[Order[i]] \subseteq {Order[k] : k \in 1..(i - 1)}
    BY Validated
  <2>4. \A n \in Node : n \in {Order[i] : i \in DOMAIN Order} BY <2>1, Zenon DEF ToSet
  <2> QED BY <2>1, <2>2, <2>3, <2>4
<1>2. inflight = {} /\ ready = <<>> BY DEF PhasesOK
<1>3. T \subseteq Nat /\ T # {} BY <1>1
<1>4. PICK i \in T : \A k \in T : i <= k BY <1>3, NatLeast
<1> DEFINE n == Order[i]
<1>5. i \in DOMAIN Order /\ n \in Node /\ states[n] = "waiting" BY <1>1, <1>4
<1>6. ASSUME NEW d \in Deps[n] PROVE states[d] = "success"
  <2>1. PICK k \in 1..(i - 1) : d = Order[k] BY <1>1, <1>5
  <2>2. k \in DOMAIN Order /\ k < i /\ k \in Nat /\ i \in Nat BY <1>1, <1>5
  <2>3. k \notin T BY <1>4, <2>2
  <2>4. states[d] # "waiting" BY <2>1, <2>2, <2>3
  <2>5. d \in Node BY <1>1, <2>1, <2>2
  <2>6. states[d] # "running" BY <1>2, <2>5 DEF PlacesOK
  <2>7. states[d] # "failed" BY <2>5 DEF Failures
  <2>8. states[d] \notin Parked \cup {"skipped"} BY <1>5 DEF GraphOK
  <2>9. states[d] \in NodeState BY <2>5 DEF TypeOK
  <2> QED BY <2>4, <2>6, <2>7, <2>8, <2>9 DEF NodeState
<1>7. n \in ToSet(ready) BY <1>5, <1>6 DEF GraphOK
<1> QED BY <1>2, <1>7 DEF ToSet

\* When the loop ends nothing is left on its way, and without a failure every
\* node has an outcome, skipped ones just below what was parked or skipped.
THEOREM AllAreAccounted == Spec => []AllAccounted
<1>1. ASSUME Inv PROVE AllAccounted
  <2> SUFFICES ASSUME phase = "over"
               PROVE  /\ Busy = {} /\ queue = <<>>
                      /\ Failures = {} => \A n \in Node :
                           /\ states[n] \in Parked \cup {"success", "skipped"}
                           /\ states[n] = "skipped" <=>
                                \E d \in Deps[n] : states[d] \in Parked \cup {"skipped"}
    BY DEF AllAccounted
  <2>1. inflight = {} BY <1>1 DEF Inv, PhasesOK
  <2>2. \A j \in Job : pc[j] \notin Active \cup {"queued"}
    BY <1>1, <2>1 DEF Inv, PlacesOK
  <2>3. Busy = {} BY <2>2 DEF Busy
  <2>4. queue = <<>>
    <3>1. queue \in Seq(Job) BY <1>1 DEF Inv, TypeOK
    <3>2. ASSUME queue # <<>> PROVE FALSE
      <4>1. 1 \in DOMAIN queue /\ queue[1] \in Job BY <3>1, <3>2
      <4>2. pc[queue[1]] = "queued" BY <1>1, <4>1 DEF Inv, PlacesOK
      <4> QED BY <2>2, <4>1, <4>2
    <3> QED BY <3>2
  <2>5. ASSUME Failures = {}, NEW n \in Node
        PROVE  /\ states[n] \in Parked \cup {"success", "skipped"}
               /\ states[n] = "skipped" <=>
                    \E d \in Deps[n] : states[d] \in Parked \cup {"skipped"}
    <3>1. states[n] # "waiting" BY <1>1, <2>5, NobodyWaits
    <3>2. states[n] # "running" BY <1>1, <2>1 DEF Inv, PlacesOK
    <3>3. states[n] # "failed" BY <2>5 DEF Failures
    <3>4. states[n] \in Parked \cup {"success", "skipped"}
      BY <1>1, <3>1, <3>2, <3>3 DEF Inv, TypeOK, NodeState
    <3>5. states[n] = "skipped" => \E d \in Deps[n] : states[d] \in Parked \cup {"skipped"}
      BY <1>1, <2>5 DEF Inv, GraphOK
    <3>6. ASSUME NEW d \in Deps[n], states[d] \in Parked \cup {"skipped"}
          PROVE  states[n] = "skipped"
      <4>1. ~(\A c \in Deps[n] : states[c] = "success") BY <3>6 DEF Parked
      <4> QED BY <1>1, <3>1, <4>1 DEF Inv, ReadyOK
    <3> QED BY <3>4, <3>5, <3>6
  <2> QED BY <2>3, <2>4, <2>5
<1> QED BY <1>1, Invariance, PTL

=============================================================================
