------------------------------ MODULE DagProofs ------------------------------
(* The keys of the cache of nodes are sound for every set of nodes, any      *)
(* dependencies, lists of items and files, and any number of runs: as long   *)
(* as no source is edited while a process has it loaded, what is taken from  *)
(* the cache was made of what its function would be given now.               *)
(*                                                                           *)
(* The argument: what a run knows of its nodes only grows, so the key a      *)
(* target began with is the key it would have now; the key names everything  *)
(* its function is given but the approvals, and what rests on an approval    *)
(* never enters the cache. The contents of the nodes are computed along      *)
(* their order, and each fact about them is proved by an induction over the  *)
(* order: a set of the positions up to which it holds, which has them all.   *)
(*                                                                           *)
(* Explain agrees with plan, whatever the cache holds: both go along the     *)
(* order of the nodes, and wherever plan has the contents a key is made of,  *)
(* explain has the same and keeps them.                                      *)
(*                                                                           *)
(* And about Registry: a template is mounted alike wherever it is mounted.   *)
EXTENDS NodeCache, Registry, WellFoundedInduction, SequenceTheorems, TLAPS

\* A set of numbers has a least one: what the proofs have for an induction.
LEMMA LeastNumber ==
  ASSUME NEW T, T \subseteq Nat, T # {}
  PROVE  \E n \in T : \A m \in T : n <= m
<1>1. \E n \in T : \A m \in T : <<m, n>> \notin OpToRel(<, Nat)
  BY NatLessThanWellFounded, WFMin
<1>2. \A x, y \in Nat : <<x, y>> \in OpToRel(<, Nat) <=> x < y
  BY SMT DEF OpToRel
<1>3. PICK n \in T : \A m \in T : <<m, n>> \notin OpToRel(<, Nat)
  BY <1>1
<1>4. ASSUME NEW m \in T PROVE n <= m
  <2>1. n \in Nat /\ m \in Nat
    OBVIOUS
  <2>2. ~(m < n)
    BY <1>2, <1>3, <2>1
  <2> QED BY <2>1, <2>2
<1> QED BY <1>3, <1>4

\* Induction, with a set for the statement.
LEMMA UpTo ==
  ASSUME NEW N \in Nat, NEW S, 0 \in S, \A k \in 1..N : k - 1 \in S => k \in S
  PROVE  \A k \in 0..N : k \in S
<1> DEFINE T == {k \in 0..N : k \notin S}
<1>1. ASSUME T # {} PROVE FALSE
  <2>1. T \subseteq Nat
    OBVIOUS
  <2> HIDE DEF T
  <2>2. PICK n \in T : \A m \in T : n <= m
    BY <1>1, <2>1, LeastNumber
  <2>3. n \in 1..N /\ n \notin S
    BY <2>2 DEF T
  <2>4. n - 1 \in 0..N /\ n - 1 \notin T
    BY <2>1, <2>2, <2>3
  <2> QED BY <2>3, <2>4 DEF T
<1> QED BY <1>1

Nothing == [m \in Node |-> None]

\* the recursion of ContentsOf, and of others
Follows(f, n, owned, bound) ==
  f = [k \in 0..n |-> IF k = 0 THEN Nothing ELSE Known(f[k-1], Order[k], owned, bound)]

LEMMA FollowsOne ==
  ASSUME NEW owned, NEW bound, NEW n \in Nat, NEW f, Follows(f, n, owned, bound)
  PROVE  \E g : Follows(g, n + 1, owned, bound)
<1> DEFINE g == [k \in 0..(n+1) |-> IF k = n + 1 THEN Known(f[n], Order[n+1], owned, bound) ELSE f[k]]
           h == [k \in 0..(n+1) |-> IF k = 0 THEN Nothing ELSE Known(g[k-1], Order[k], owned, bound)]
<1>1. ASSUME NEW k \in 0..(n+1) PROVE g[k] = h[k]
  <2>1. CASE k = 0
    <3>1. f[0] = Nothing
      BY DEF Follows
    <3> QED BY <2>1, <3>1
  <2>2. CASE k = n + 1
    <3>1. g[k-1] = f[n] /\ k # 0
      BY <2>2
    <3> HIDE DEF Nothing
    <3> QED BY <2>2, <3>1
  <2>3. CASE k \in 1..n
    <3>1. f[k] = Known(f[k-1], Order[k], owned, bound)
      BY <2>3 DEF Follows
    <3>2. g[k] = f[k] /\ g[k-1] = f[k-1]
      BY <2>3
    <3> QED BY <2>3, <3>1, <3>2
  <2> QED BY <2>1, <2>2, <2>3
<1>2. g = h
  BY <1>1
<1> HIDE DEF g
<1> QED BY <1>2 DEF Follows

LEMMA FollowsAll ==
  ASSUME NEW owned, NEW bound, NEW N \in Nat
  PROVE  \E f : Follows(f, N, owned, bound)
<1> DEFINE S == {n \in Nat : \E f : Follows(f, n, owned, bound)}
<1>1. 0 \in S
  <2>1. Follows([k \in 0..0 |-> Nothing], 0, owned, bound)
    BY DEF Follows
  <2> QED BY <2>1
<1>2. ASSUME NEW k \in 1..N, k - 1 \in S PROVE k \in S
  <2>1. k - 1 \in Nat /\ k = (k - 1) + 1 /\ k \in Nat
    OBVIOUS
  <2>2. \E f : Follows(f, k - 1, owned, bound)
    BY <1>2
  <2>3. \E g : Follows(g, (k - 1) + 1, owned, bound)
    BY <2>1, <2>2, FollowsOne
  <2> QED BY <2>1, <2>3
<1> HIDE DEF S
<1>3. \A k \in 0..N : k \in S
  BY <1>1, <1>2, UpTo
<1> QED BY <1>3 DEF S

\* what ContentsOf goes through
Filling(owned, bound) == CHOOSE f : Follows(f, Len(Order), owned, bound)

LEMMA ContentsFollow ==
  ASSUME NEW owned, NEW bound
  PROVE  /\ Len(Order) \in Nat /\ DOMAIN Order = 1..Len(Order)
         /\ ContentsOf(owned, bound) = Filling(owned, bound)[Len(Order)]
         /\ Filling(owned, bound)[0] = Nothing
         /\ \A k \in 1..Len(Order) :
              /\ Order[k] \in Node
              /\ Filling(owned, bound)[k] = Known(Filling(owned, bound)[k-1], Order[k], owned, bound)
<1>1. /\ Len(Order) \in Nat /\ DOMAIN Order = 1..Len(Order)
      /\ \A k \in 1..Len(Order) : Order[k] \in Node
  BY NodeCacheAssumption, LenProperties, ElementOfSeq
<1>2. ContentsOf(owned, bound) = Filling(owned, bound)[Len(Order)]
  BY DEF ContentsOf, Filling, Follows, Nothing
<1> DEFINE f == Filling(owned, bound)
<1>3. Follows(f, Len(Order), owned, bound)
  BY <1>1, FollowsAll DEF Filling
<1> HIDE DEF f
<1>4. f[0] = Nothing
  BY <1>1, <1>3 DEF Follows
<1>5. ASSUME NEW k \in 1..Len(Order) PROVE f[k] = Known(f[k-1], Order[k], owned, bound)
  BY <1>1, <1>3, <1>5 DEF Follows
<1> QED BY <1>1, <1>2, <1>4, <1>5 DEF f

\* one step of the filling touches one node
LEMMA KnownOne ==
  ASSUME NEW con, DOMAIN con = Node, NEW n \in Node, NEW owned, NEW bound
  PROVE  /\ DOMAIN Known(con, n, owned, bound) = Node
         /\ \A m \in Node \ {n} : Known(con, n, owned, bound)[m] = con[m]
  BY DEF Known

LEMMA FillingOne ==
  ASSUME NEW owned, NEW bound
  PROVE  \A k \in 0..Len(Order) :
           /\ DOMAIN Filling(owned, bound)[k] = Node
           /\ \A m \in Node : Filling(owned, bound)[k][m] # None => \E j \in 1..k : Order[j] = m
<1> DEFINE f == Filling(owned, bound)
           S == {k \in 0..Len(Order) : /\ DOMAIN f[k] = Node
                                       /\ \A m \in Node : f[k][m] # None => \E j \in 1..k : Order[j] = m}
<1>0. /\ Len(Order) \in Nat /\ f[0] = Nothing
      /\ \A k \in 1..Len(Order) : Order[k] \in Node /\ f[k] = Known(f[k-1], Order[k], owned, bound)
  BY ContentsFollow
<1> HIDE DEF f
<1>1. 0 \in S
  BY <1>0 DEF Nothing
<1>2. ASSUME NEW k \in 1..Len(Order), k - 1 \in S PROVE k \in S
  <2>1. DOMAIN f[k] = Node /\ \A m \in Node \ {Order[k]} : f[k][m] = f[k-1][m]
    BY <1>0, <1>2, KnownOne
  <2>2. ASSUME NEW m \in Node, f[k][m] # None PROVE \E j \in 1..k : Order[j] = m
    <3>1. CASE m = Order[k]
      BY <1>0, <3>1
    <3>2. CASE m # Order[k]
      <4>1. PICK j \in 1..(k-1) : Order[j] = m
        BY <1>2, <2>1, <2>2, <3>2
      <4> QED BY <1>0, <4>1
    <3> QED BY <3>1, <3>2
  <2> QED BY <2>1, <2>2
<1> HIDE DEF S
<1>3. \A k \in 0..Len(Order) : k \in S
  BY <1>0, <1>1, <1>2, UpTo
<1> QED BY <1>3 DEF S, f

\* What is listed by now is listed for good: a node comes once.
LEMMA FirstTime ==
  ASSUME NEW owned, NEW bound, NEW k \in 1..Len(Order)
  PROVE  Filling(owned, bound)[k-1][Order[k]] = None
<1>1. Len(Order) \in Nat /\ DOMAIN Order = 1..Len(Order) /\ Order[k] \in Node
  BY ContentsFollow
<1>2. ASSUME NEW j \in 1..(k-1) PROVE Order[j] # Order[k]
  <2>1. j \in DOMAIN Order /\ k \in DOMAIN Order /\ j # k
    BY <1>1
  <2> QED BY <2>1, NodeCacheAssumption, Zenon DEF IsInjective
<1>3. k - 1 \in 0..Len(Order)
  BY <1>1
<1> QED BY <1>1, <1>2, <1>3, FillingOne

Artifacts(owned) == \A t \in DOMAIN owned : owned[t] \in Content

LEMMA KnownTyped ==
  ASSUME NEW con \in [Node -> Content \cup {None}], NEW n \in Node, NEW owned, NEW bound,
         Artifacts(owned)
  PROVE  Known(con, n, owned, bound) \in [Node -> Content \cup {None}]
<1>1. CASE n \in Static
  BY <1>1 DEF Known, Artifacts
<1>2. CASE n \notin Static /\ con[ItemsFrom[n]] # None
           /\ \A j \in DOMAIN Listing(con, n) : <<n, Listing(con, n)[j]>> \in DOMAIN owned
  <2>1. n \in Dynamic /\ ItemsFrom[n] \in Node
    BY <1>2, NodeCacheAssumption DEF Static
  <2> DEFINE c == con[ItemsFrom[n]]
             s == [j \in DOMAIN Listing(con, n) |-> owned[<<n, Listing(con, n)[j]>>]]
  <2>2. c \in Content /\ Listing(con, n) = Entries[c]
    BY <1>2, <2>1 DEF Listing
  <2>3. s \in [DOMAIN Entries[c] -> Content]
    BY <1>2, <2>2 DEF Artifacts
  <2>4. Aggregate(s) \in Content
    BY <2>2, <2>3, NodeCacheAssumption
  <2> HIDE DEF s
  <2>5. [con EXCEPT ![n] = Aggregate(s)] \in [Node -> Content \cup {None}]
    BY <2>4
  <2> QED BY <1>2, <2>5 DEF Known, s
<1> QED BY <1>1, <1>2 DEF Known

LEMMA FillingTyped ==
  ASSUME NEW owned, NEW bound, Artifacts(owned)
  PROVE  \A k \in 0..Len(Order) : Filling(owned, bound)[k] \in [Node -> Content \cup {None}]
<1> DEFINE f == Filling(owned, bound)
           S == {k \in 0..Len(Order) : f[k] \in [Node -> Content \cup {None}]}
<1>0. /\ Len(Order) \in Nat /\ f[0] = Nothing
      /\ \A k \in 1..Len(Order) : Order[k] \in Node /\ f[k] = Known(f[k-1], Order[k], owned, bound)
  BY ContentsFollow
<1> HIDE DEF f
<1>1. 0 \in S
  BY <1>0 DEF Nothing
<1>2. ASSUME NEW k \in 1..Len(Order), k - 1 \in S PROVE k \in S
  <2>1. f[k-1] \in [Node -> Content \cup {None}] /\ Order[k] \in Node
    BY <1>0, <1>2
  <2>2. Known(f[k-1], Order[k], owned, bound) \in [Node -> Content \cup {None}]
    BY <2>1, KnownTyped
  <2> QED BY <1>0, <2>2
<1> HIDE DEF S
<1>3. \A k \in 0..Len(Order) : k \in S
  BY <1>0, <1>1, <1>2, UpTo
<1> QED BY <1>3 DEF S, f

LEMMA ContentsTyped ==
  ASSUME NEW owned, NEW bound, Artifacts(owned)
  PROVE  ContentsOf(owned, bound) \in [Node -> Content \cup {None}]
  BY ContentsFollow, FillingTyped

\* what is there in c is the same in d
Kept(c, d) == \A m \in Node : c[m] # None => d[m] = c[m]

Grown(owned, more) ==
  /\ DOMAIN owned \subseteq DOMAIN more
  /\ \A t \in DOMAIN owned : more[t] = owned[t]

LEMMA KnownKept ==
  ASSUME NEW c, NEW d, DOMAIN c = Node, DOMAIN d = Node, Kept(c, d), NEW n \in Node, c[n] = None,
         NEW owned, NEW more, Grown(owned, more), NEW bound, NEW further, bound \subseteq further
  PROVE  Kept(Known(c, n, owned, bound), Known(d, n, more, further))
<1> DEFINE e == Known(c, n, owned, bound)
           g == Known(d, n, more, further)
<1>1. \A m \in Node \ {n} : e[m] = c[m] /\ g[m] = d[m]
  BY KnownOne
<1>2. ASSUME e[n] # None PROVE g[n] = e[n]
  <2>1. CASE n \in Static
    BY <1>2, <2>1 DEF Known, Grown
  <2>2. CASE n \notin Static
    <3>1. /\ c[ItemsFrom[n]] # None /\ n \in bound
          /\ \A j \in DOMAIN Listing(c, n) : <<n, Listing(c, n)[j]>> \in DOMAIN owned
      BY <1>2, <2>2 DEF Known
    <3>2. ItemsFrom[n] \in Node
      BY <2>2, NodeCacheAssumption DEF Static
    <3>3. d[ItemsFrom[n]] = c[ItemsFrom[n]]
      BY <3>1, <3>2 DEF Kept
    <3>4. Listing(d, n) = Listing(c, n)
      BY <3>3 DEF Listing
    <3> DEFINE L == Listing(c, n)
    <3>5. \A j \in DOMAIN L : <<n, L[j]>> \in DOMAIN more /\ more[<<n, L[j]>>] = owned[<<n, L[j]>>]
      BY <3>1 DEF Grown
    <3> HIDE DEF L
    <3>6. [j \in DOMAIN L |-> more[<<n, L[j]>>]] = [j \in DOMAIN L |-> owned[<<n, L[j]>>]]
      BY <3>5
    <3>7. e[n] = Aggregate([j \in DOMAIN L |-> owned[<<n, L[j]>>]])
      BY <2>2, <3>1 DEF Known, L
    <3>8. g[n] = Aggregate([j \in DOMAIN L |-> more[<<n, L[j]>>]])
      BY <2>2, <3>1, <3>3, <3>4, <3>5 DEF Known, L
    <3> QED BY <3>6, <3>7, <3>8
  <2> QED BY <2>1, <2>2
<1> HIDE DEF e, g
<1>3. Kept(e, g)
  BY <1>1, <1>2 DEF Kept
<1> QED BY <1>3 DEF e, g

\* The contents a run has only grow.
LEMMA ContentsGrow ==
  ASSUME NEW owned, NEW more, Grown(owned, more), NEW bound, NEW further, bound \subseteq further
  PROVE  Kept(ContentsOf(owned, bound), ContentsOf(more, further))
<1> DEFINE f == Filling(owned, bound)
           g == Filling(more, further)
           S == {k \in 0..Len(Order) : Kept(f[k], g[k])}
<1>0. /\ Len(Order) \in Nat /\ f[0] = Nothing /\ g[0] = Nothing
      /\ \A k \in 1..Len(Order) : /\ Order[k] \in Node
                                  /\ f[k] = Known(f[k-1], Order[k], owned, bound)
                                  /\ g[k] = Known(g[k-1], Order[k], more, further)
                                  /\ f[k-1][Order[k]] = None
      /\ \A k \in 0..Len(Order) : DOMAIN f[k] = Node /\ DOMAIN g[k] = Node
      /\ ContentsOf(owned, bound) = f[Len(Order)] /\ ContentsOf(more, further) = g[Len(Order)]
  BY ContentsFollow, FillingOne, FirstTime
<1> HIDE DEF f, g
<1>1. 0 \in S
  BY <1>0 DEF Kept
<1>2. ASSUME NEW k \in 1..Len(Order), k - 1 \in S PROVE k \in S
  <2>1. k - 1 \in 0..Len(Order)
    BY <1>0
  <2> QED BY <1>0, <1>2, <2>1, KnownKept
<1> HIDE DEF S
<1>3. \A k \in 0..Len(Order) : k \in S
  BY <1>0, <1>1, <1>2, UpTo
<1> QED BY <1>0, <1>3 DEF S

-----------------------------------------------------------------------------
(* The inductive invariant.                                                  *)

Checked(r) == DOMAIN state[r] \ unchecked[r]

\* the key of a target by the sources its process has loaded
OwnKey(r, n, i) ==
  [source |-> <<FnOf[n], loaded[r][FnOf[n]]>>, upstream |-> Seen(Contents(r), n),
   files |-> Captured(r, n, i), item |-> i,
   carry |-> IF i = None THEN None ELSE Carry(r, n, i)]

Approved(r, n) == IF n \in Gated THEN approval[r] ELSE None

\* what a function is given that has the key k
MadeOf(k, a) ==
  [code |-> k.source, upstream |-> k.upstream, files |-> k.files, item |-> k.item,
   carry |-> k.carry, approved |-> a]

Fitting(k, n) == k.source[1] = FnOf[n] /\ DOMAIN k.upstream = Inputs(n)

Shapes ==
  /\ DOMAIN phase = Run /\ DOMAIN loaded = Run /\ DOMAIN snap = Run /\ DOMAIN forced = Run
  /\ DOMAIN approval = Run /\ DOMAIN open = Run /\ DOMAIN state = Run /\ DOMAIN unchecked = Run
  /\ DOMAIN ledger = Run /\ \A r \in Run : DOMAIN ledger[r] = Dynamic

\* An artifact is of what its key says, in a run ...
Made(r, t) ==
  /\ t \in Targets
  /\ DOMAIN state[r][t] = {"stage", "key", "content", "from", "origin", "hit"}
  /\ Fitting(state[r][t].key, t[1])
  /\ state[r][t].stage # "running" =>
       /\ state[r][t].content \in Content
       /\ state[r][t].from = MadeOf(state[r][t].key, Approved(r, t[1]))

\* ... and in the cache, where nothing rests on an approval.
Entered(k) ==
  /\ cache[k].content \in Content /\ cache[k].from = MadeOf(k, None)
  /\ \E n \in Node \ Gated : Fitting(k, n)

\* how far a run is, and what it has by then
Phased(r) ==
  /\ phase[r] \in {"idle", "loaded"} => DOMAIN state[r] = {}
  /\ phase[r] = "stopped" => Checked(r) = {}
  /\ r \in Alive => loaded[r] = text

\* what a process has looked at still has what it needed to begin, and its key
Upheld(r) ==
  phase[r] \in {"running", "over"} =>
    \A t \in Checked(r) : /\ Standing(r, t[1], t[2])
                          /\ state[r][t].key = OwnKey(r, t[1], t[2])

IInv ==
  /\ Shapes
  /\ \A k \in DOMAIN cache : Entered(k)
  /\ \A r \in Run : /\ \A t \in DOMAIN state[r] : Made(r, t)
                    /\ Phased(r) /\ Upheld(r)

-----------------------------------------------------------------------------
LEMMA TargetIs ==
  ASSUME NEW t \in Targets
  PROVE  /\ t = <<t[1], t[2]>> /\ t[1] \in Node
         /\ \/ t[1] \in Static /\ t[2] = None
            \/ t[1] \in Dynamic /\ t[2] \in Item
  BY NodeCacheAssumption DEF Targets, Static

LEMMA TakenIs ==
  ASSUME NEW r
  PROVE  /\ DOMAIN Taken(r) \subseteq DOMAIN state[r]
         /\ \A t : t \in DOMAIN Taken(r) <=> Have(r, t)
         /\ \A t \in DOMAIN Taken(r) : Taken(r)[t] = Got(r, t)
  BY DEF Taken, Have

LEMMA TakenTyped == ASSUME IInv, NEW r \in Run PROVE Artifacts(Taken(r))
  BY DEF IInv, Made, Taken, Have, Got, Artifacts

\* the items of a node that has its list
LEMMA ItemsAre ==
  ASSUME IInv, NEW r \in Run, NEW n \in Dynamic, Contents(r)[ItemsFrom[n]] # None
  PROVE  /\ n \in Node /\ ItemsFrom[n] \in Deps[n]
         /\ ItemsOf(r, n) \in Seq(Item)
         /\ Len(ItemsOf(r, n)) \in Nat /\ DOMAIN ItemsOf(r, n) = 1..Len(ItemsOf(r, n))
<1>1. n \in Node /\ ItemsFrom[n] \in Deps[n] /\ ItemsFrom[n] \in Node
  BY NodeCacheAssumption
<1>2. Contents(r) \in [Node -> Content \cup {None}]
  BY TakenTyped, ContentsTyped DEF Contents
<1>3. Contents(r)[ItemsFrom[n]] \in Content
  BY <1>1, <1>2
<1>4. ItemsOf(r, n) = Entries[Contents(r)[ItemsFrom[n]]]
  BY DEF ItemsOf, Listing
<1>5. ItemsOf(r, n) \in Seq(Item)
  BY <1>3, <1>4, NodeCacheAssumption
<1> QED BY <1>1, <1>5, LenProperties

LEMMA GivenIs ==
  ASSUME NEW r, NEW n, NEW i
  PROVE  /\ Given(r, n, i) = MadeOf(OwnKey(r, n, i), Approved(r, n))
         /\ loaded[r] = text => KeyOf(r, n, i) = OwnKey(r, n, i)
         /\ Fitting(OwnKey(r, n, i), n)
<1>1. Given(r, n, i) = MadeOf(OwnKey(r, n, i), Approved(r, n))
  BY DEF Given, MadeOf, OwnKey, Approved, Seen
<1>2. loaded[r] = text => KeyOf(r, n, i) = OwnKey(r, n, i)
  BY DEF KeyOf, Key, OwnKey
<1>3. Fitting(OwnKey(r, n, i), n)
  BY DEF Fitting, OwnKey, Seen
<1> QED BY <1>1, <1>2, <1>3

\* What a run has looked at is not disturbed by what it gets besides.
LEMMA Undisturbed ==
  ASSUME IInv, NEW r \in Run, Grown(Taken(r), Taken(r)'), open[r] \subseteq open'[r],
         loaded'[r] = loaded[r], snap'[r] = snap[r],
         \A n \in open[r] : ledger'[r][n] = ledger[r][n],
         NEW t \in Targets, Standing(r, t[1], t[2])
  PROVE  Standing(r, t[1], t[2])' /\ OwnKey(r, t[1], t[2])' = OwnKey(r, t[1], t[2])
<1> DEFINE n == t[1]
           i == t[2]
           C == Contents(r)
           D == Contents(r)'
<1>t. n \in Node /\ ((n \in Static /\ i = None) \/ (n \in Dynamic /\ i \in Item))
  BY TargetIs
<1>1. Kept(C, D)
  BY ContentsGrow DEF Contents
<1>2. \A d \in Deps[n] : d \in Node /\ C[d] # None /\ D[d] = C[d]
  BY <1>t, <1>1, NodeCacheAssumption DEF Standing, Kept
<1>3. \A u : Have(r, u) => Have(r, u)' /\ Got(r, u)' = Got(r, u)
  <2> SUFFICES ASSUME NEW u, Have(r, u) PROVE Have(r, u)' /\ Got(r, u)' = Got(r, u)
    OBVIOUS
  <2>1. u \in DOMAIN Taken(r) /\ Taken(r)[u] = Got(r, u)
    BY TakenIs
  <2>2. u \in DOMAIN Taken(r)' /\ Taken(r)'[u] = Got(r, u)
    BY <2>1 DEF Grown
  <2>3. Have(r, u)' /\ Taken(r)'[u] = Got(r, u)'
    BY <2>2 DEF Taken, Have
  <2> QED BY <2>2, <2>3
<1>4. n \in Dynamic => /\ n \in open[r] /\ i \in ToSet(ItemsOf(r, n))
                       /\ C[ItemsFrom[n]] # None /\ ItemsOf(r, n)' = ItemsOf(r, n)
                       /\ Len(ItemsOf(r, n)) \in Nat
                       /\ DOMAIN ItemsOf(r, n) = 1..Len(ItemsOf(r, n))
  <2> SUFFICES ASSUME n \in Dynamic
               PROVE  /\ n \in open[r] /\ i \in ToSet(ItemsOf(r, n))
                      /\ C[ItemsFrom[n]] # None /\ ItemsOf(r, n)' = ItemsOf(r, n)
                      /\ Len(ItemsOf(r, n)) \in Nat
                      /\ DOMAIN ItemsOf(r, n) = 1..Len(ItemsOf(r, n))
    OBVIOUS
  <2>1. ItemsFrom[n] \in Deps[n]
    BY NodeCacheAssumption
  <2>2. C[ItemsFrom[n]] # None /\ D[ItemsFrom[n]] = C[ItemsFrom[n]]
    BY <1>2, <2>1
  <2>3. ItemsOf(r, n)' = ItemsOf(r, n)
    BY <2>2 DEF ItemsOf, Listing
  <2> QED BY <2>2, <2>3, ItemsAre DEF Standing
<1>5. ASSUME n \in Dynamic PROVE Before(r, n, i)' = Before(r, n, i)
  <2>1. ItemsOf(r, n)' = ItemsOf(r, n)
    BY <1>4, <1>5
  <2> QED BY <2>1 DEF Before
<1>6. Standing(r, n, i)'
  BY <1>2, <1>3, <1>4, <1>5 DEF Standing
<1>7. Seen(C, n)' = Seen(C, n)
  <2>1. \A d \in Inputs(n) : D[d] = C[d]
    BY <1>2 DEF Inputs
  <2> QED BY <2>1 DEF Seen
<1>8. Captured(r, n, i)' = Captured(r, n, i)
  <2>1. CASE n \in Static /\ i = None
    <3>1. FilesOf(n, i) \subseteq StaticFiles
      BY <1>t, <2>1 DEF FilesOf, StaticFiles
    <3> QED BY <3>1 DEF Captured
  <2>2. CASE n \in Dynamic
    BY <1>4, <2>2 DEF Captured
  <2> QED BY <1>t, <2>1, <2>2
<1>9. (IF i = None THEN None ELSE Carry(r, n, i))' = IF i = None THEN None ELSE Carry(r, n, i)
  <2> SUFFICES ASSUME n \in Dynamic, n \in Scan PROVE Carry(r, n, i)' = Carry(r, n, i)
    BY <1>t DEF Carry
  <2> DEFINE its == ItemsOf(r, n)
             k == CHOOSE j \in DOMAIN its : its[j] = i
  <2>1. k \in DOMAIN its
    BY <1>4 DEF ToSet
  <2>2. CASE k = 1
    BY <1>4, <2>2 DEF Carry
  <2>3. CASE k # 1
    <3>1. its[k-1] \in Before(r, n, i)
      <4>1. k - 1 \in 1..(k-1)
        BY <1>4, <2>1, <2>3
      <4> QED BY <4>1 DEF Before
    <3>2. PICK j : j = its[k-1]
      OBVIOUS
    <3>3. Have(r, <<n, j>>)
      BY <3>1, <3>2 DEF Standing
    <3>4. Got(r, <<n, j>>)' = Got(r, <<n, j>>)
      BY <1>3, <3>3
    <3>5. Carry(r, n, i) = CarryOf[Got(r, <<n, j>>)]
      BY <2>3, <3>2 DEF Carry
    <3>6. Carry(r, n, i)' = CarryOf[Got(r, <<n, j>>)']
      <4>1. ItemsOf(r, n)' = ItemsOf(r, n)
        BY <1>4
      <4>2. ~(n \notin Scan \/ k' = 1) /\ its'[k'-1] = j
        BY <2>3, <3>2, <4>1
      <4> QED BY <4>2 DEF Carry
    <3> QED BY <3>4, <3>5, <3>6
  <2> QED BY <2>2, <2>3
<1>10. OwnKey(r, n, i)' = OwnKey(r, n, i)
  BY <1>7, <1>8, <1>9 DEF OwnKey
<1> QED BY <1>6, <1>10

-----------------------------------------------------------------------------
(* What a step leaves, and what it adds.                                     *)

RunOk(r) == /\ \A t \in DOMAIN state[r] : Made(r, t)
            /\ Phased(r) /\ Upheld(r)

\* nothing happens to q
Untouched(q) ==
  /\ phase'[q] = phase[q] /\ loaded'[q] = loaded[q] /\ snap'[q] = snap[q]
  /\ approval'[q] = approval[q] /\ ledger'[q] = ledger[q] /\ open'[q] = open[q]
  /\ state'[q] = state[q] /\ unchecked'[q] = unchecked[q]

LEMMA TakenGrows ==
  ASSUME NEW r, \A t \in DOMAIN state[r] :
                  Have(r, t) => /\ t \in DOMAIN state'[r] /\ t \notin unchecked'[r]
                                /\ state'[r][t].stage = "completed"
                                /\ state'[r][t].content = state[r][t].content
  PROVE  Grown(Taken(r), Taken(r)')
<1>1. ASSUME NEW t \in DOMAIN Taken(r) PROVE Have(r, t)' /\ Got(r, t)' = Got(r, t)
  <2>1. t \in DOMAIN state[r] /\ Have(r, t)
    BY TakenIs DEF Have
  <2> QED BY <2>1 DEF Have, Got
<1>2. ASSUME NEW t \in DOMAIN Taken(r) PROVE t \in DOMAIN Taken(r)' /\ Taken(r)'[t] = Taken(r)[t]
  <2>1. t \in DOMAIN Taken(r)' /\ Taken(r)'[t] = Got(r, t)'
    BY <1>1 DEF Taken, Have
  <2> QED BY <1>1, <2>1, TakenIs
<1> QED BY <1>2 DEF Grown

LEMMA UpheldKept ==
  ASSUME IInv, NEW r \in Run, Grown(Taken(r), Taken(r)'), open[r] \subseteq open'[r],
         loaded'[r] = loaded[r], snap'[r] = snap[r],
         \A n \in open[r] : ledger'[r][n] = ledger[r][n],
         phase'[r] \in {"running", "over"} => phase[r] \in {"running", "over"},
         \A t \in Checked(r)' :
           \/ t \in Checked(r) /\ state'[r][t].key = state[r][t].key
           \/ t \in Targets /\ Standing(r, t[1], t[2]) /\ state'[r][t].key = OwnKey(r, t[1], t[2])
  PROVE  Upheld(r)'
<1>1. ASSUME NEW t \in Checked(r)', phase'[r] \in {"running", "over"}
      PROVE  Standing(r, t[1], t[2])' /\ state'[r][t].key = OwnKey(r, t[1], t[2])'
  <2>1. /\ t \in Targets /\ Standing(r, t[1], t[2])
        /\ state'[r][t].key = OwnKey(r, t[1], t[2])
    BY <1>1 DEF IInv, Upheld, Made, Checked
  <2> QED BY <2>1, Undisturbed
<1> QED BY <1>1 DEF Upheld

LEMMA Elsewhere ==
  ASSUME IInv, NEW q \in Run, Untouched(q), q \in Alive => text' = text
  PROVE  RunOk(q)'
<1>1. \A t \in DOMAIN state'[q] : Made(q, t)'
  BY DEF IInv, Made, Untouched, Approved
<1>2. Phased(q)'
  BY DEF IInv, Phased, Untouched, Checked, Alive
<1>3. Grown(Taken(q), Taken(q)')
  <2>1. Taken(q)' = Taken(q)
    BY DEF Untouched, Taken, Have, Got
  <2> QED BY <2>1 DEF Grown
<1>4. Upheld(q)'
  BY <1>3, UpheldKept DEF Untouched, Checked
<1> QED BY <1>1, <1>2, <1>4 DEF RunOk

LEMMA Together ==
  ASSUME IInv, Shapes', NEW r \in Run, RunOk(r)', \A q \in Run \ {r} : Untouched(q),
         text' = text, \A k \in DOMAIN cache' : Entered(k)'
  PROVE  IInv'
<1>1. \A q \in Run \ {r} : RunOk(q)'
  BY Elsewhere
<1>2. \A q \in Run : RunOk(q)'
  BY <1>1
<1> QED BY <1>2 DEF IInv, RunOk

LEMMA SameCache ==
  ASSUME IInv, cache' = cache
  PROVE  \A k \in DOMAIN cache' : Entered(k)'
  BY DEF IInv, Entered

\* nothing that has been begun changes
LEMMA SameMade ==
  ASSUME IInv, NEW r \in Run, state'[r] = state[r], approval'[r] = approval[r]
  PROVE  \A t \in DOMAIN state'[r] : Made(r, t)'
  BY DEF IInv, Made, Approved

-----------------------------------------------------------------------------
(* The steps.                                                                *)

LEMMA Loads == ASSUME IInv, NEW r \in Run, Load(r) \/ Begin(r) PROVE IInv'
<1>1. Shapes' /\ text' = text /\ \A q \in Run \ {r} : Untouched(q)
  BY DEF IInv, Shapes, Load, Begin, Goto, Untouched
<1>2. DOMAIN state'[r] = {} /\ phase'[r] \in {"loaded", "running"}
  BY DEF IInv, Shapes, Load, Begin, Goto, Phased
<1>3. loaded'[r] = text
  BY DEF IInv, Shapes, Load, Begin, Phased, Alive
<1>4. RunOk(r)'
  BY <1>1, <1>2, <1>3 DEF RunOk, Phased, Upheld, Checked
<1>5. cache' = cache
  BY DEF Load, Begin
<1> QED BY <1>1, <1>4, <1>5, SameCache, Together

LEMMA Binds == ASSUME IInv, NEW r \in Run, NEW n \in Dynamic, Bind(r, n) PROVE IInv'
<1>1. Shapes' /\ text' = text /\ \A q \in Run \ {r} : Untouched(q)
  BY DEF IInv, Shapes, Bind, Goto, Untouched
<1>2. /\ UNCHANGED <<cache, state, unchecked, loaded, snap, approval>>
      /\ phase[r] = "running" /\ phase'[r] \in {"running", "refused"}
      /\ open[r] \subseteq open'[r] /\ \A m \in open[r] : ledger'[r][m] = ledger[r][m]
  <2>1. DOMAIN phase = Run /\ DOMAIN open = Run /\ DOMAIN ledger = Run /\ n \notin open[r]
    BY DEF Bind, IInv, Shapes
  <2>2. UNCHANGED <<cache, state, unchecked, loaded, snap, approval>> /\ phase[r] = "running"
    BY DEF Bind
  <2>3. CASE UNCHANGED <<ledger, open>> /\ Goto(r, "refused")
    BY <2>1, <2>2, <2>3 DEF Goto
  <2>4. ASSUME NEW now, ledger' = [ledger EXCEPT ![r][n] = now],
               open' = [open EXCEPT ![r] = @ \cup {n}], UNCHANGED phase
        PROVE  /\ phase'[r] \in {"running", "refused"}
               /\ open[r] \subseteq open'[r] /\ \A m \in open[r] : ledger'[r][m] = ledger[r][m]
    <3>1. ledger'[r] = [ledger[r] EXCEPT ![n] = now]
      BY <2>1, <2>4
    <3>2. \A m \in open[r] : m # n
      BY <2>1
    <3> QED BY <2>1, <2>2, <2>4, <3>1, <3>2
  <2> QED BY <2>2, <2>3, <2>4 DEF Bind
<1>3. Grown(Taken(r), Taken(r)')
  BY <1>2, TakenGrows DEF Have
<1>4. Upheld(r)'
  BY <1>2, <1>3, UpheldKept DEF Checked
<1>5. Phased(r)'
  BY <1>1, <1>2 DEF IInv, Phased, Alive
<1> QED BY <1>1, <1>2, <1>4, <1>5, SameCache, SameMade, Together DEF RunOk

LEMMA FinishesOrCrashes == ASSUME IInv, NEW r \in Run, Finish(r) \/ Crash(r) PROVE IInv'
<1>1. Shapes' /\ text' = text /\ \A q \in Run \ {r} : Untouched(q)
  BY DEF IInv, Shapes, Finish, Crash, Goto, Untouched
<1>2. CASE Finish(r)
  <2>1. /\ UNCHANGED <<cache, state, unchecked, loaded, snap, approval, ledger, open>>
        /\ phase[r] = "running" /\ phase'[r] = "over"
    BY <1>2 DEF Finish, Goto, IInv, Shapes
  <2>2. Grown(Taken(r), Taken(r)')
    BY <2>1, TakenGrows DEF Have
  <2>3. Upheld(r)'
    BY <2>1, <2>2, UpheldKept DEF Checked
  <2>4. Phased(r)'
    BY <1>1, <2>1 DEF IInv, Phased, Alive
  <2> QED BY <1>1, <2>1, <2>3, <2>4, SameCache, SameMade, Together DEF RunOk
<1>3. CASE Crash(r)
  <2>1. /\ UNCHANGED <<cache, loaded, approval>> /\ phase'[r] = "stopped"
        /\ unchecked'[r] = DOMAIN state[r] /\ DOMAIN state'[r] = DOMAIN state[r]
        /\ \A t \in DOMAIN state[r] :
             state'[r][t] = IF state[r][t].stage = "candidate"
                            THEN [state[r][t] EXCEPT !.hit = FALSE] ELSE state[r][t]
    BY <1>3 DEF Crash, Goto, IInv, Shapes
  <2>2. ASSUME NEW t \in DOMAIN state[r] PROVE Made(r, t)'
    <3>1. Made(r, t)
      BY DEF IInv
    <3>2. /\ DOMAIN state'[r][t] = DOMAIN state[r][t]
          /\ state'[r][t].key = state[r][t].key /\ state'[r][t].stage = state[r][t].stage
          /\ state'[r][t].content = state[r][t].content
          /\ state'[r][t].from = state[r][t].from
      BY <2>1, <3>1 DEF Made
    <3> QED BY <2>1, <3>1, <3>2 DEF Made, Approved
  <2>3. Phased(r)' /\ Upheld(r)'
    BY <2>1 DEF Phased, Upheld, Checked, Alive
  <2> QED BY <1>1, <2>1, <2>2, <2>3, SameCache, Together DEF RunOk
<1> QED BY <1>2, <1>3

LEMMA Resumes == ASSUME IInv, NEW r \in Run, Resume(r) PROVE IInv'
<1>1. Shapes' /\ text' = text /\ \A q \in Run \ {r} : Untouched(q)
  BY DEF IInv, Shapes, Resume, Goto, Untouched
<1>2. /\ UNCHANGED <<cache, state, unchecked, approval>> /\ loaded'[r] = text
      /\ phase[r] = "stopped" /\ phase'[r] \in {"running", "refused"}
  BY DEF Resume, Goto, IInv, Shapes
<1>3. Phased(r)' /\ Upheld(r)'
  BY <1>1, <1>2 DEF IInv, Phased, Upheld, Checked, Alive
<1> QED BY <1>1, <1>2, <1>3, SameCache, SameMade, Together DEF RunOk

LEMMA Edits == ASSUME ~LiveEdits, IInv, Edit PROVE IInv'
<1>1. /\ Shapes' /\ \A q \in Run : Untouched(q)
      /\ cache' = cache /\ (text' = text \/ Alive = {})
  BY DEF IInv, Shapes, Edit, Untouched
<1>2. \A q \in Run : RunOk(q)'
  BY <1>1, Elsewhere
<1> QED BY <1>1, <1>2, SameCache DEF IInv, RunOk

\* one target of r is set to s
LEMMA SetOne ==
  ASSUME IInv, NEW r \in Run, NEW t, NEW s, Set(r, t, s)
  PROVE  /\ DOMAIN state' = Run
         /\ DOMAIN state'[r] = DOMAIN state[r] \cup {t} /\ state'[r][t] = s
         /\ \A u \in DOMAIN state[r] \ {t} : state'[r][u] = state[r][u]
         /\ \A q \in Run \ {r} : state'[q] = state[q]
<1>1. state' = [state EXCEPT ![r] = With(@, t, s)] /\ DOMAIN state = Run
  BY DEF Set, IInv, Shapes
<1>2. state'[r] = With(state[r], t, s)
  BY <1>1
<1>3. /\ DOMAIN state'[r] = DOMAIN state[r] \cup {t} /\ state'[r][t] = s
      /\ \A u \in DOMAIN state[r] \ {t} : state'[r][u] = state[r][u]
  BY <1>2 DEF With
<1> QED BY <1>1, <1>3

\* a step of one target, whose state becomes s
Sets(r, t, s) ==
  /\ Set(r, t, s) /\ t \in Targets
  /\ UNCHANGED <<text, phase, loaded, snap, forced, approval, ledger, open>>
  /\ DOMAIN unchecked' = Run /\ \A q \in Run \ {r} : unchecked'[q] = unchecked[q]
  /\ unchecked'[r] = unchecked[r] \ {t}
  /\ DOMAIN s = {"stage", "key", "content", "from", "origin", "hit"}
  /\ Standing(r, t[1], t[2]) /\ s.key = OwnKey(r, t[1], t[2])
  /\ s.stage # "running" => /\ s.content \in Content
                            /\ s.from = MadeOf(s.key, Approved(r, t[1]))
  /\ Have(r, t) => s.stage = "completed" /\ s.content = state[r][t].content

LEMMA SetKeeps ==
  ASSUME IInv, NEW r \in Run, NEW t, NEW s, Sets(r, t, s), phase[r] = "running"
  PROVE  /\ Shapes' /\ RunOk(r)' /\ \A q \in Run \ {r} : Untouched(q)
<1>1. /\ DOMAIN state' = Run
      /\ DOMAIN state'[r] = DOMAIN state[r] \cup {t} /\ state'[r][t] = s
      /\ \A u \in DOMAIN state[r] \ {t} : state'[r][u] = state[r][u]
      /\ \A q \in Run \ {r} : state'[q] = state[q]
  BY SetOne DEF Sets
<1>2. Shapes'
  BY <1>1 DEF Sets, IInv, Shapes
<1>3. \A q \in Run \ {r} : Untouched(q)
  BY <1>1 DEF Sets, Untouched
<1>4. ASSUME NEW u \in DOMAIN state'[r] PROVE Made(r, u)'
  <2>1. CASE u = t
    <3>1. Fitting(s.key, t[1])
      BY GivenIs DEF Sets
    <3> QED BY <1>1, <2>1, <3>1 DEF Sets, Made, Approved
  <2>2. CASE u # t
    <3>1. Made(r, u) /\ state'[r][u] = state[r][u]
      BY <1>1, <2>2 DEF IInv
    <3> QED BY <3>1 DEF Made, Sets, Approved
  <2> QED BY <2>1, <2>2
<1>5. Phased(r)'
  BY DEF Sets, IInv, Phased, Alive
<1>6. Grown(Taken(r), Taken(r)')
  <2>1. ASSUME NEW u \in DOMAIN state[r], Have(r, u)
        PROVE  /\ u \in DOMAIN state'[r] /\ u \notin unchecked'[r]
               /\ state'[r][u].stage = "completed" /\ state'[r][u].content = state[r][u].content
    <3>1. u \notin unchecked[r] /\ state[r][u].stage = "completed"
      BY <2>1 DEF Have
    <3>2. u \notin unchecked'[r] /\ u \in DOMAIN state'[r]
      BY <1>1, <3>1 DEF Sets
    <3>3. CASE u = t
      BY <1>1, <2>1, <3>2, <3>3 DEF Sets
    <3>4. CASE u # t
      BY <1>1, <3>1, <3>2, <3>4
    <3> QED BY <3>3, <3>4
  <2> QED BY <2>1, TakenGrows
<1>7. \A u \in Checked(r)' :
        \/ u \in Checked(r) /\ state'[r][u].key = state[r][u].key
        \/ u \in Targets /\ Standing(r, u[1], u[2]) /\ state'[r][u].key = OwnKey(r, u[1], u[2])
  BY <1>1 DEF Sets, Checked
<1>8. Upheld(r)'
  BY <1>6, <1>7, UpheldKept DEF Sets
<1> QED BY <1>2, <1>3, <1>4, <1>5, <1>8 DEF RunOk

\* An entry of the key of a target is of what the target is given: nodes that
\* have a key in common share their checkpoints, and an entry rests on none.
LEMMA HitIsGiven ==
  ASSUME IInv, NEW n \in Node, NEW k \in DOMAIN cache, Fitting(k, n), NEW r
  PROVE  cache[k].content \in Content /\ cache[k].from = MadeOf(k, Approved(r, n))
<1>1. Entered(k)
  BY DEF IInv
<1>2. PICK m \in Node \ Gated : Fitting(k, m)
  BY <1>1 DEF Entered
<1>3. n \notin Gated
  BY <1>2, NodeCacheAssumption DEF Fitting
<1> QED BY <1>1, <1>3 DEF Entered, Approved

LEMMA Starts ==
  ASSUME IInv, NEW r \in Run, NEW t \in Targets, Start(r, t[1], t[2])
  PROVE  IInv'
<1> DEFINE n == t[1]
           i == t[2]
           k == KeyOf(r, n, i)
           hit == t \notin DOMAIN state[r] /\ Lookup(k, n, t, forced[r]) # None
           s == IF hit
                THEN [stage |-> "candidate", key |-> k, content |-> cache[k].content,
                      from |-> cache[k].from, origin |-> "none", hit |-> TRUE]
                ELSE [stage |-> "running", key |-> k, content |-> None,
                      from |-> None, origin |-> "none", hit |-> FALSE]
<1>t. t = <<n, i>> /\ n \in Node
  BY TargetIs
<1>1. /\ phase[r] = "running" /\ Standing(r, n, i) /\ Set(r, t, s)
      /\ unchecked' = [unchecked EXCEPT ![r] = @ \ {t}]
      /\ UNCHANGED <<text, cache, phase, loaded, snap, forced, approval, ledger, open>>
      /\ ~Have(r, t)
  BY <1>t, Zenon DEF Start, Ready, Have
<1>2. k = OwnKey(r, n, i) /\ Fitting(k, n)
  <2>1. loaded[r] = text
    BY <1>1 DEF IInv, Phased, Alive
  <2> QED BY <2>1, GivenIs
<1> HIDE DEF k, n, i
<1>3. hit => cache[k].content \in Content /\ cache[k].from = MadeOf(k, Approved(r, n))
  <2>1. hit => k \in DOMAIN cache
    BY DEF Lookup
  <2> QED BY <1>t, <1>2, <2>1, HitIsGiven
<1>4. /\ DOMAIN s = {"stage", "key", "content", "from", "origin", "hit"} /\ s.key = k
      /\ s.stage # "running" => s.content \in Content /\ s.from = MadeOf(k, Approved(r, n))
  BY <1>3
<1> HIDE DEF s
<1>5. Sets(r, t, s)
  BY <1>1, <1>2, <1>4 DEF Sets, IInv, Shapes, n, i
<1> QED BY <1>1, <1>5, SetKeeps, SameCache, Together

LEMMA Returning ==
  ASSUME IInv, NEW r \in Run, NEW t \in Targets, Return(r, t[1], t[2])
  PROVE  IInv'
<1> DEFINE n == t[1]
           i == t[2]
<1>t. t = <<n, i>> /\ n \in Node
  BY TargetIs
<1>1. /\ phase[r] = "running" /\ t \in Checked(r) /\ state[r][t].stage = "running"
      /\ UNCHANGED <<text, cache, phase, loaded, snap, forced, approval, ledger, open, unchecked>>
  BY <1>t DEF Return, Checked
<1>2. PICK c \in Returns[n] :
        Set(r, t, [state[r][t] EXCEPT !.stage = "candidate", !.content = c,
                                      !.from = Given(r, n, i), !.origin = "calls"])
  BY <1>t DEF Return
<1> DEFINE s == [state[r][t] EXCEPT !.stage = "candidate", !.content = c,
                                    !.from = Given(r, n, i), !.origin = "calls"]
<1>3. Standing(r, n, i) /\ state[r][t].key = OwnKey(r, n, i) /\ Made(r, t)
  BY <1>1 DEF IInv, Upheld, Checked
<1>4. Given(r, n, i) = MadeOf(OwnKey(r, n, i), Approved(r, n))
  BY GivenIs
<1>5. c \in Content
  BY <1>t, <1>2, NodeCacheAssumption
<1>6. /\ DOMAIN s = {"stage", "key", "content", "from", "origin", "hit"}
      /\ s.stage = "candidate" /\ s.key = state[r][t].key /\ s.content = c
      /\ s.from = Given(r, n, i)
  BY <1>3 DEF Made
<1>7. Set(r, t, s)
  BY <1>2
<1> HIDE DEF s
<1>8. Sets(r, t, s)
  BY <1>1, <1>3, <1>4, <1>5, <1>6, <1>7 DEF Sets, IInv, Shapes, Have, Checked
<1> QED BY <1>1, <1>8, SetKeeps, SameCache, Together

LEMMA Completes ==
  ASSUME IInv, NEW r \in Run, NEW t \in Targets, Complete(r, t[1], t[2])
  PROVE  IInv'
<1> DEFINE n == t[1]
           i == t[2]
           s == [state[r][t] EXCEPT !.stage = "completed"]
<1>t. t = <<n, i>> /\ n \in Node
  BY TargetIs
<1>1. /\ phase[r] = "running" /\ t \in Checked(r) /\ state[r][t].stage = "candidate"
      /\ UNCHANGED <<text, phase, loaded, snap, forced, approval, ledger, open, unchecked>>
      /\ Set(r, t, s)
  BY <1>t DEF Complete, Checked
<1>2. Standing(r, n, i) /\ state[r][t].key = OwnKey(r, n, i) /\ Made(r, t)
  BY <1>1 DEF IInv, Upheld, Checked
<1>3. /\ DOMAIN s = {"stage", "key", "content", "from", "origin", "hit"}
      /\ s.stage = "completed" /\ s.key = state[r][t].key
      /\ s.content = state[r][t].content /\ s.from = state[r][t].from
  BY <1>2 DEF Made
<1> HIDE DEF s
<1>4. Sets(r, t, s)
  BY <1>1, <1>2, <1>3 DEF Sets, IInv, Shapes, Have, Checked, Made
<1>5. \A k \in DOMAIN cache' : Entered(k)'
  <2>1. CASE cache' = cache
    BY <2>1, SameCache
  <2>2. CASE Seals(r, n, t) /\ cache' = With(cache, state[r][t].key, Sealed(state[r][t]))
    <3> DEFINE key == state[r][t].key
    <3>1. /\ DOMAIN cache' = DOMAIN cache \cup {key} /\ cache'[key] = Sealed(state[r][t])
          /\ \A k \in DOMAIN cache \ {key} : cache'[k] = cache[k]
      BY <2>2 DEF With
    <3>2. ASSUME NEW k \in DOMAIN cache' PROVE Entered(k)'
      <4>1. CASE k = key
        <5>1. n \in Node \ Gated /\ Fitting(key, n)
          BY <1>t, <1>2, <2>2 DEF Seals, Made
        <5>2. cache'[key].content \in Content /\ cache'[key].from = MadeOf(key, None)
          BY <1>1, <1>2, <3>1, <5>1 DEF Made, Sealed, Approved
        <5> QED BY <4>1, <5>1, <5>2 DEF Entered
      <4>2. CASE k # key
        <5>1. Entered(k) /\ cache'[k] = cache[k]
          BY <3>1, <4>2 DEF IInv
        <5> QED BY <5>1 DEF Entered
      <4> QED BY <4>1, <4>2
    <3> QED BY <3>2
  <2> QED BY <1>t, <2>1, <2>2 DEF Complete
<1> QED BY <1>1, <1>4, <1>5, SetKeeps, Together

LEMMA Keeps ==
  ASSUME IInv, NEW r \in Run, NEW t \in Targets, Keep(r, t[1], t[2])
  PROVE  IInv'
<1> DEFINE n == t[1]
           i == t[2]
<1>t. t = <<n, i>> /\ n \in Node
  BY TargetIs
<1>1. /\ Shapes' /\ \A q \in Run \ {r} : Untouched(q)
      /\ UNCHANGED <<text, cache, loaded, snap, approval, ledger, open, state>>
      /\ phase[r] = "running" /\ phase'[r] \in {"running", "refused"} /\ Standing(r, n, i)
  BY DEF Keep, IInv, Shapes, Goto, Untouched, Ready
<1>2. \/ unchecked' = unchecked /\ phase'[r] = "refused"
      \/ unchecked'[r] = unchecked[r] \ {t} /\ Owns(r, n, i)
  BY <1>t DEF Keep, Goto, IInv, Shapes
<1>3. loaded[r] = text
  BY <1>1 DEF IInv, Phased, Alive
<1>4. Owns(r, n, i) => state[r][t].key = OwnKey(r, n, i)
  BY <1>t, <1>3, GivenIs DEF Owns
<1>5. Grown(Taken(r), Taken(r)')
  BY <1>1, <1>2, TakenGrows DEF Have
<1>6. Upheld(r)'
  <2>1. \A u \in Checked(r)' :
          \/ u \in Checked(r) /\ state'[r][u].key = state[r][u].key
          \/ u \in Targets /\ Standing(r, u[1], u[2]) /\ state'[r][u].key = OwnKey(r, u[1], u[2])
    BY <1>1, <1>2, <1>4 DEF Checked
  <2> QED BY <1>1, <1>5, <2>1, UpheldKept
<1>7. Phased(r)'
  BY <1>1 DEF IInv, Phased, Alive
<1> QED BY <1>1, <1>6, <1>7, SameCache, SameMade, Together DEF RunOk

-----------------------------------------------------------------------------
\* The keys, what is in the cache and what each run has agree, for any graph,
\* items, files, policies and checkpoints, and any number of runs, edits and
\* crashes, when no source is edited while a process has loaded it.
THEOREM KeysAreSound == ASSUME ~LiveEdits PROVE Spec => []IInv
<1>1. Init => IInv
  <2> SUFFICES ASSUME Init PROVE IInv
    OBVIOUS
  <2>1. Shapes /\ DOMAIN cache = {}
    BY DEF Init, Shapes
  <2>2. ASSUME NEW r \in Run PROVE DOMAIN state[r] = {} /\ phase[r] = "idle"
    BY DEF Init
  <2> QED BY <2>1, <2>2 DEF IInv, Phased, Upheld, Checked, Alive
<1>2. IInv /\ [Next]_vars => IInv'
  <2> SUFFICES ASSUME IInv, [Next]_vars PROVE IInv'
    OBVIOUS
  <2>1. CASE UNCHANGED vars
    <3>1. Shapes' /\ cache' = cache /\ text' = text /\ \A q \in Run : Untouched(q)
      BY <2>1 DEF vars, run, IInv, Shapes, Untouched
    <3>2. \A q \in Run : RunOk(q)'
      BY <3>1, Elsewhere
    <3> QED BY <3>1, <3>2, SameCache DEF IInv, RunOk
  <2>2. CASE Edit
    BY <2>2, Edits
  <2>3. ASSUME NEW r \in Run, Load(r) \/ Begin(r) \/ Finish(r) \/ Crash(r) \/ Resume(r) PROVE IInv'
    BY <2>3, Loads, FinishesOrCrashes, Resumes
  <2>4. ASSUME NEW r \in Run, NEW n \in Dynamic, Bind(r, n) PROVE IInv'
    BY <2>4, Binds
  <2>5. ASSUME NEW r \in Run, NEW t \in Targets,
               \/ Start(r, t[1], t[2]) \/ Return(r, t[1], t[2])
               \/ Complete(r, t[1], t[2]) \/ Keep(r, t[1], t[2])
        PROVE  IInv'
    BY <2>5, Starts, Returning, Completes, Keeps
  <2> QED BY <2>1, <2>2, <2>3, <2>4, <2>5 DEF Next
<1> QED BY <1>1, <1>2, PTL DEF Spec

\* No stale result is replayed (cache-key.md:15): what a run has completed or
\* owned over was made of exactly what its function would be given in this
\* run. That no source is edited while a process has loaded it is needed: the
\* process takes its code from memory and makes its keys from the files.
THEOREM NothingIsStale == ASSUME ~LiveEdits PROVE Spec => []NothingStale
<1>1. ASSUME IInv PROVE NothingStale
  <2> SUFFICES ASSUME NEW r \in Run, NEW t \in Targets, phase[r] \in {"running", "over"},
                      Have(r, t)
               PROVE  state[r][t].from = Given(r, t[1], t[2])
    BY DEF NothingStale
  <2>1. t \in Checked(r) /\ state[r][t].stage = "completed" /\ t \in DOMAIN state[r]
    BY DEF Have, Checked
  <2>2. Made(r, t) /\ state[r][t].key = OwnKey(r, t[1], t[2])
    BY <1>1, <2>1 DEF IInv, Upheld
  <2>3. state[r][t].from = MadeOf(state[r][t].key, Approved(r, t[1]))
    BY <2>1, <2>2 DEF Made
  <2> QED BY <2>2, <2>3, GivenIs
<1> QED BY <1>1, KeysAreSound, PTL

-----------------------------------------------------------------------------
(* Plan and explain. Both go along the order of the nodes, and along the     *)
(* items of each; each recursion is followed as ContentsOf is.               *)

ItemsIn(con, n) == Entries[con[ItemsFrom[n]]]

\* an item of a Chain, after the one before it
Link(prev, k, con, n, force) ==
  LET its == ItemsIn(con, n)
      past == prev.past /\ (n \in Scan /\ k > 1 => prev.got # None)
      carry == IF n \in Scan /\ k > 1 /\ past THEN CarryOf[prev.got] ELSE None
      key == Key(con, OnDisk(n, its[k]), n, its[k], carry)
  IN  [carry |-> carry, key |-> key, past |-> past,
       got |-> IF past THEN Lookup(key, n, <<n, its[k]>>, force) ELSE None]

NoLink == [carry |-> None, key |-> None, got |-> None, past |-> TRUE]

Links(f, m, con, d, force) ==
  f = [k \in 0..m |-> IF k = 0 THEN NoLink ELSE Link(f[k-1], k, con, d, force)]

LEMMA LinkOne ==
  ASSUME NEW con, NEW d, NEW force, NEW n \in Nat, NEW f, Links(f, n, con, d, force)
  PROVE  \E g : Links(g, n + 1, con, d, force)
<1> DEFINE g == [k \in 0..(n+1) |-> IF k = n + 1 THEN Link(f[n], n+1, con, d, force) ELSE f[k]]
           h == [k \in 0..(n+1) |-> IF k = 0 THEN NoLink ELSE Link(g[k-1], k, con, d, force)]
<1>1. ASSUME NEW k \in 0..(n+1) PROVE g[k] = h[k]
  <2>1. CASE k = 0
    <3>1. f[0] = NoLink
      BY DEF Links
    <3> QED BY <2>1, <3>1
  <2>2. CASE k = n + 1
    <3>1. g[k-1] = f[n] /\ k # 0
      BY <2>2
    <3> HIDE DEF NoLink
    <3> QED BY <2>2, <3>1
  <2>3. CASE k \in 1..n
    <3>1. f[k] = Link(f[k-1], k, con, d, force)
      BY <2>3 DEF Links
    <3>2. g[k] = f[k] /\ g[k-1] = f[k-1]
      BY <2>3
    <3> QED BY <2>3, <3>1, <3>2
  <2> QED BY <2>1, <2>2, <2>3
<1>2. g = h
  BY <1>1
<1> HIDE DEF g
<1> QED BY <1>2 DEF Links

LEMMA LinkAll ==
  ASSUME NEW con, NEW d, NEW force, NEW N \in Nat
  PROVE  \E f : Links(f, N, con, d, force)
<1> DEFINE S == {n \in Nat : \E f : Links(f, n, con, d, force)}
<1>1. 0 \in S
  <2>1. Links([k \in 0..0 |-> NoLink], 0, con, d, force)
    BY DEF Links
  <2> QED BY <2>1
<1>2. ASSUME NEW k \in 1..N, k - 1 \in S PROVE k \in S
  <2>1. k - 1 \in Nat /\ k = (k - 1) + 1 /\ k \in Nat
    OBVIOUS
  <2>2. \E f : Links(f, k - 1, con, d, force)
    BY <1>2
  <2>3. \E g : Links(g, (k - 1) + 1, con, d, force)
    BY <2>1, <2>2, LinkOne
  <2> QED BY <2>1, <2>3
<1> HIDE DEF S
<1>3. \A k \in 0..N : k \in S
  BY <1>1, <1>2, UpTo
<1> QED BY <1>3 DEF S

LEMMA ChainIs ==
  ASSUME NEW con, NEW n, NEW force, ItemsIn(con, n) \in Seq(Item)
  PROVE  /\ Len(ItemsIn(con, n)) \in Nat /\ DOMAIN ItemsIn(con, n) = 1..Len(ItemsIn(con, n))
         /\ \E f : /\ f[0] = NoLink
                   /\ \A k \in 1..Len(ItemsIn(con, n)) : f[k] = Link(f[k-1], k, con, n, force)
                   /\ Chain(con, n, force) = [k \in DOMAIN ItemsIn(con, n) |-> f[k]]
<1> DEFINE its == ItemsIn(con, n)
           f == CHOOSE f : Links(f, Len(its), con, n, force)
<1>1. Len(its) \in Nat /\ DOMAIN its = 1..Len(its)
  BY LenProperties
<1>2. Links(f, Len(its), con, n, force)
  BY <1>1, LinkAll
<1>3. Chain(con, n, force) = [k \in DOMAIN its |-> f[k]]
  BY DEF Chain, Links, Link, NoLink, ItemsIn
<1> HIDE DEF f, its
<1>4. f[0] = NoLink /\ \A k \in 1..Len(its) : f[k] = Link(f[k-1], k, con, n, force)
  BY <1>1, <1>2 DEF Links
<1> QED BY <1>1, <1>3, <1>4 DEF its

NoPlan == [hit |-> {}, miss |-> {}, unknown |-> {}, con |-> [n \in Node |-> None]]

Judges(f, m, force) ==
  f = [k \in 0..m |-> IF k = 0 THEN NoPlan ELSE Judged(f[k-1], Order[k], force)]

LEMMA JudgeOne ==
  ASSUME NEW force, NEW n \in Nat, NEW f, Judges(f, n, force)
  PROVE  \E g : Judges(g, n + 1, force)
<1> DEFINE g == [k \in 0..(n+1) |-> IF k = n + 1 THEN Judged(f[n], Order[n+1], force) ELSE f[k]]
           h == [k \in 0..(n+1) |-> IF k = 0 THEN NoPlan ELSE Judged(g[k-1], Order[k], force)]
<1>1. ASSUME NEW k \in 0..(n+1) PROVE g[k] = h[k]
  <2>1. CASE k = 0
    <3>1. f[0] = NoPlan
      BY DEF Judges
    <3> QED BY <2>1, <3>1
  <2>2. CASE k = n + 1
    <3>1. g[k-1] = f[n] /\ k # 0
      BY <2>2
    <3> HIDE DEF NoPlan
    <3> QED BY <2>2, <3>1
  <2>3. CASE k \in 1..n
    <3>1. f[k] = Judged(f[k-1], Order[k], force)
      BY <2>3 DEF Judges
    <3>2. g[k] = f[k] /\ g[k-1] = f[k-1]
      BY <2>3
    <3> QED BY <2>3, <3>1, <3>2
  <2> QED BY <2>1, <2>2, <2>3
<1>2. g = h
  BY <1>1
<1> HIDE DEF g
<1> QED BY <1>2 DEF Judges

LEMMA JudgeAll ==
  ASSUME NEW force, NEW N \in Nat
  PROVE  \E f : Judges(f, N, force)
<1> DEFINE S == {n \in Nat : \E f : Judges(f, n, force)}
<1>1. 0 \in S
  <2>1. Judges([k \in 0..0 |-> NoPlan], 0, force)
    BY DEF Judges
  <2> QED BY <2>1
<1>2. ASSUME NEW k \in 1..N, k - 1 \in S PROVE k \in S
  <2>1. k - 1 \in Nat /\ k = (k - 1) + 1 /\ k \in Nat
    OBVIOUS
  <2>2. \E f : Judges(f, k - 1, force)
    BY <1>2
  <2>3. \E g : Judges(g, (k - 1) + 1, force)
    BY <2>1, <2>2, JudgeOne
  <2> QED BY <2>1, <2>3
<1> HIDE DEF S
<1>3. \A k \in 0..N : k \in S
  BY <1>1, <1>2, UpTo
<1> QED BY <1>3 DEF S

Planned(force) == CHOOSE f : Judges(f, Len(Order), force)

LEMMA PlanIs ==
  ASSUME NEW force
  PROVE  /\ Len(Order) \in Nat /\ Plan(force) = Planned(force)[Len(Order)]
         /\ Planned(force)[0] = NoPlan
         /\ \A k \in 1..Len(Order) :
              Planned(force)[k] = Judged(Planned(force)[k-1], Order[k], force)
<1> DEFINE f == Planned(force)
<1>1. Len(Order) \in Nat
  BY NodeCacheAssumption, LenProperties
<1>2. Plan(force) = f[Len(Order)]
  BY DEF Plan, Planned, Judges, NoPlan
<1>3. Judges(f, Len(Order), force)
  BY <1>1, JudgeAll DEF Planned
<1> HIDE DEF f
<1>4. f[0] = NoPlan /\ \A k \in 1..Len(Order) : f[k] = Judged(f[k-1], Order[k], force)
  BY <1>1, <1>3 DEF Judges
<1> QED BY <1>1, <1>2, <1>4 DEF f

\* what explain has of a node, after the nodes before it
Shown(c, m) ==
  LET ch == Chain(c, m, {})
  IN  IF \E d \in Deps[m] : c[d] = None THEN c
      ELSE IF m \in Static
      THEN [c EXCEPT ![m] = Lookup(Key(c, OnDisk(m, None), m, None, None), m, <<m, None>>, {})]
      ELSE IF \E j \in DOMAIN ch : ch[j].got = None THEN c
      ELSE [c EXCEPT ![m] = Aggregate([j \in DOMAIN ch |-> ch[j].got])]

Shows(f, m) == f = [k \in 0..m |-> IF k = 0 THEN Nothing ELSE Shown(f[k-1], Order[k])]

LEMMA ShowOne ==
  ASSUME NEW n \in Nat, NEW f, Shows(f, n)
  PROVE  \E g : Shows(g, n + 1)
<1> DEFINE g == [k \in 0..(n+1) |-> IF k = n + 1 THEN Shown(f[n], Order[n+1]) ELSE f[k]]
           h == [k \in 0..(n+1) |-> IF k = 0 THEN Nothing ELSE Shown(g[k-1], Order[k])]
<1>1. ASSUME NEW k \in 0..(n+1) PROVE g[k] = h[k]
  <2>1. CASE k = 0
    <3>1. f[0] = Nothing
      BY DEF Shows
    <3> QED BY <2>1, <3>1
  <2>2. CASE k = n + 1
    <3>1. g[k-1] = f[n] /\ k # 0
      BY <2>2
    <3> HIDE DEF Nothing
    <3> QED BY <2>2, <3>1
  <2>3. CASE k \in 1..n
    <3>1. f[k] = Shown(f[k-1], Order[k])
      BY <2>3 DEF Shows
    <3>2. g[k] = f[k] /\ g[k-1] = f[k-1]
      BY <2>3
    <3> QED BY <2>3, <3>1, <3>2
  <2> QED BY <2>1, <2>2, <2>3
<1>2. g = h
  BY <1>1
<1> HIDE DEF g
<1> QED BY <1>2 DEF Shows

LEMMA ShowAll ==
  ASSUME NEW N \in Nat
  PROVE  \E f : Shows(f, N)
<1> DEFINE S == {n \in Nat : \E f : Shows(f, n)}
<1>1. 0 \in S
  <2>1. Shows([k \in 0..0 |-> Nothing], 0)
    BY DEF Shows
  <2> QED BY <2>1
<1>2. ASSUME NEW k \in 1..N, k - 1 \in S PROVE k \in S
  <2>1. k - 1 \in Nat /\ k = (k - 1) + 1 /\ k \in Nat
    OBVIOUS
  <2>2. \E f : Shows(f, k - 1)
    BY <1>2
  <2>3. \E g : Shows(g, (k - 1) + 1)
    BY <2>1, <2>2, ShowOne
  <2> QED BY <2>1, <2>3
<1> HIDE DEF S
<1>3. \A k \in 0..N : k \in S
  BY <1>1, <1>2, UpTo
<1> QED BY <1>3 DEF S

Viewed == CHOOSE f : Shows(f, Len(Order))

LEMMA CurrentIs ==
  /\ \A n : Current(n) = Viewed[Len(Order)]
  /\ Viewed[0] = Nothing
  /\ \A k \in 1..Len(Order) : Viewed[k] = Shown(Viewed[k-1], Order[k])
<1>1. Len(Order) \in Nat
  BY NodeCacheAssumption, LenProperties
<1>2. ASSUME NEW n PROVE Current(n) = Viewed[Len(Order)]
  BY DEF Current, Viewed, Shows, Shown, Nothing
<1>3. Shows(Viewed, Len(Order))
  BY <1>1, ShowAll DEF Viewed
<1> DEFINE f == Viewed
<1> HIDE DEF f
<1>4. f[0] = Nothing /\ \A k \in 1..Len(Order) : f[k] = Shown(f[k-1], Order[k])
  BY <1>1, <1>3 DEF Shows, f
<1> QED BY <1>2, <1>4 DEF f

-----------------------------------------------------------------------------

CacheTyped == \A k \in DOMAIN cache : cache[k].content \in Content

Typed(con) == con \in [Node -> Content \cup {None}]

LEMMA LookupTyped ==
  ASSUME CacheTyped, NEW k, NEW n, NEW t, NEW force
  PROVE  /\ Lookup(k, n, t, force) \in Content \cup {None}
         /\ Lookup(k, n, t, force) # None => k \in DOMAIN cache
         /\ Policy[n] = "auto" /\ k \in DOMAIN cache => Lookup(k, n, t, {}) # None
BY NodeCacheAssumption DEF CacheTyped, Lookup

LEMMA ItemsTyped ==
  ASSUME NEW con, Typed(con), NEW n \in Dynamic, con[ItemsFrom[n]] # None
  PROVE  /\ n \in Node /\ ItemsFrom[n] \in Deps[n] /\ ItemsFrom[n] \in Node
         /\ ItemsIn(con, n) \in Seq(Item) /\ IsInjective(ItemsIn(con, n))
         /\ con[ItemsFrom[n]] \in Content
         /\ Listing(con, n) = ItemsIn(con, n)
<1>1. n \in Node /\ ItemsFrom[n] \in Deps[n] /\ ItemsFrom[n] \in Node
  BY NodeCacheAssumption
<1>2. con[ItemsFrom[n]] \in Content
  BY <1>1 DEF Typed
<1>3. Entries[con[ItemsFrom[n]]] \in Seq(Item) /\ IsInjective(Entries[con[ItemsFrom[n]]])
  BY <1>2, NodeCacheAssumption
<1> QED BY <1>1, <1>2, <1>3 DEF ItemsIn, Listing

\* what is to be known of an item of a chain
LEMMA ChainItems ==
  ASSUME CacheTyped, NEW con, NEW n, NEW force, ItemsIn(con, n) \in Seq(Item),
         NEW ch, ch = Chain(con, n, force)
  PROVE  /\ DOMAIN ch = DOMAIN ItemsIn(con, n)
         /\ \A k \in DOMAIN ch :
              /\ ch[k].got \in Content \cup {None}
              /\ ch[k].got # None => ch[k].past
              /\ ch[k].past => ch[k].got = Lookup(ch[k].key, n, <<n, ItemsIn(con, n)[k]>>, force)
<1>1. PICK f : /\ \A k \in 1..Len(ItemsIn(con, n)) : f[k] = Link(f[k-1], k, con, n, force)
               /\ Chain(con, n, force) = [k \in DOMAIN ItemsIn(con, n) |-> f[k]]
  BY ChainIs
<1>2. DOMAIN ItemsIn(con, n) = 1..Len(ItemsIn(con, n)) /\ DOMAIN ch = DOMAIN ItemsIn(con, n)
  BY <1>1, ChainIs
<1>3. ASSUME NEW k \in DOMAIN ch
      PROVE  /\ ch[k].got \in Content \cup {None}
             /\ ch[k].got # None => ch[k].past
             /\ ch[k].past => ch[k].got = Lookup(ch[k].key, n, <<n, ItemsIn(con, n)[k]>>, force)
  <2>1. ch[k] = Link(f[k-1], k, con, n, force)
    BY <1>1, <1>2
  <2> DEFINE past == f[k-1].past /\ (n \in Scan /\ k > 1 => f[k-1].got # None)
             carry == IF n \in Scan /\ k > 1 /\ past THEN CarryOf[f[k-1].got] ELSE None
             key == Key(con, OnDisk(n, ItemsIn(con, n)[k]), n, ItemsIn(con, n)[k], carry)
  <2>2. Link(f[k-1], k, con, n, force) =
          [carry |-> carry, key |-> key, past |-> past,
           got |-> IF past THEN Lookup(key, n, <<n, ItemsIn(con, n)[k]>>, force) ELSE None]
    BY Zenon DEF Link
  <2> HIDE DEF past, carry, key
  <2>3. /\ ch[k].past = past /\ ch[k].key = key
        /\ ch[k].got = IF past THEN Lookup(key, n, <<n, ItemsIn(con, n)[k]>>, force) ELSE None
    BY <2>1, <2>2
  <2> QED BY <2>3, LookupTyped
<1> QED BY <1>2, <1>3

\* A chain depends on what its function sees.
LEMMA ChainAlike ==
  ASSUME NEW c, NEW d, NEW n, NEW force, ItemsIn(c, n) \in Seq(Item),
         ItemsIn(d, n) = ItemsIn(c, n), Seen(d, n) = Seen(c, n)
  PROVE  Chain(d, n, force) = Chain(c, n, force)
<1> DEFINE its == ItemsIn(c, n)
<1>1. PICK f : /\ f[0] = NoLink /\ \A k \in 1..Len(its) : f[k] = Link(f[k-1], k, c, n, force)
               /\ Chain(c, n, force) = [k \in DOMAIN its |-> f[k]]
  <2>1. ItemsIn(c, n) \in Seq(Item)
    OBVIOUS
  <2>2. \E f : /\ f[0] = NoLink
               /\ \A k \in 1..Len(ItemsIn(c, n)) : f[k] = Link(f[k-1], k, c, n, force)
               /\ Chain(c, n, force) = [k \in DOMAIN ItemsIn(c, n) |-> f[k]]
    BY <2>1, ChainIs, Zenon
  <2> QED BY <2>2
<1>2. PICK g : /\ g[0] = NoLink /\ \A k \in 1..Len(its) : g[k] = Link(g[k-1], k, d, n, force)
               /\ Chain(d, n, force) = [k \in DOMAIN its |-> g[k]]
  <2>1. ItemsIn(d, n) \in Seq(Item)
    OBVIOUS
  <2>2. \E g : /\ g[0] = NoLink
               /\ \A k \in 1..Len(ItemsIn(d, n)) : g[k] = Link(g[k-1], k, d, n, force)
               /\ Chain(d, n, force) = [k \in DOMAIN ItemsIn(d, n) |-> g[k]]
    BY <2>1, ChainIs, Zenon
  <2>3. ItemsIn(d, n) = its
    OBVIOUS
  <2> HIDE DEF its
  <2> QED BY <2>2, <2>3
<1>3. Len(its) \in Nat /\ DOMAIN its = 1..Len(its)
  BY ChainIs
<1>4. \A prev, k : Link(prev, k, c, n, force) = Link(prev, k, d, n, force)
  BY DEF Link, Key
<1> DEFINE S == {k \in 0..Len(its) : f[k] = g[k]}
<1> HIDE DEF its
<1>5. 0 \in S
  BY <1>1, <1>2, <1>3
<1>6. ASSUME NEW k \in 1..Len(its), k - 1 \in S PROVE k \in S
  BY <1>1, <1>2, <1>3, <1>4, <1>6
<1> HIDE DEF S
<1>7. \A k \in 0..Len(its) : k \in S
  BY <1>3, <1>5, <1>6, UpTo
<1>8. \A k \in 1..Len(its) : f[k] = g[k]
  BY <1>3, <1>7 DEF S
<1> QED BY <1>1, <1>2, <1>3, <1>8

-----------------------------------------------------------------------------

LEMMA ShownTyped ==
  ASSUME CacheTyped, NEW c, Typed(c), NEW n \in Node
  PROVE  Typed(Shown(c, n)) /\ \A m \in Node \ {n} : Shown(c, n)[m] = c[m]
<1> DEFINE ch == Chain(c, n, {})
<1>0. c \in [Node -> Content \cup {None}]
  BY DEF Typed
<1>1. CASE Shown(c, n) = c
  BY <1>1
<1>2. CASE n \in Static /\ \E k : Shown(c, n) = [c EXCEPT ![n] = Lookup(k, n, <<n, None>>, {})]
  <2>1. PICK x \in Content \cup {None} : Shown(c, n) = [c EXCEPT ![n] = x]
    BY <1>2, LookupTyped
  <2> QED BY <1>0, <2>1 DEF Typed
<1>3. CASE /\ n \in Dynamic /\ c[ItemsFrom[n]] # None
           /\ \A j \in DOMAIN ch : ch[j].got # None
           /\ Shown(c, n) = [c EXCEPT ![n] = Aggregate([j \in DOMAIN ch |-> ch[j].got])]
  <2>1. ItemsIn(c, n) \in Seq(Item) /\ c[ItemsFrom[n]] \in Content
    BY <1>3, ItemsTyped
  <2> DEFINE s == [j \in DOMAIN ch |-> ch[j].got]
  <2>2. s \in [DOMAIN Entries[c[ItemsFrom[n]]] -> Content]
    <3>1. DOMAIN ch = DOMAIN ItemsIn(c, n) /\ \A j \in DOMAIN ch : ch[j].got \in Content \cup {None}
      BY <2>1, ChainItems
    <3>2. ItemsIn(c, n) = Entries[c[ItemsFrom[n]]]
      BY DEF ItemsIn
    <3> HIDE DEF ch
    <3>3. \A j \in DOMAIN ch : ch[j].got \in Content
      BY <1>3, <3>1
    <3>4. s \in [DOMAIN ch -> Content]
      BY <3>3
    <3> QED BY <3>1, <3>2, <3>4
  <2>3. Aggregate(s) \in Content
    BY <2>1, <2>2, NodeCacheAssumption
  <2>4. Shown(c, n) = [c EXCEPT ![n] = Aggregate(s)]
    BY <1>3
  <2> HIDE DEF s
  <2>5. PICK x \in Content : Shown(c, n) = [c EXCEPT ![n] = x]
    BY <2>3, <2>4
  <2> QED BY <1>0, <2>5 DEF Typed
<1>4. CASE \E d \in Deps[n] : c[d] = None
  BY <1>1, <1>4 DEF Shown
<1>5. CASE ~\E d \in Deps[n] : c[d] = None
  <2>1. CASE n \in Static
    BY <1>2, <1>5, <2>1 DEF Shown
  <2>2. CASE n \in Dynamic
    <3>1. c[ItemsFrom[n]] # None
      BY <1>5, <2>2, NodeCacheAssumption
    <3>2. CASE \E j \in DOMAIN ch : ch[j].got = None
      BY <1>1, <1>5, <2>2, <3>2 DEF Shown, Static
    <3>3. CASE ~\E j \in DOMAIN ch : ch[j].got = None
      <4>1. Shown(c, n) = [c EXCEPT ![n] = Aggregate([j \in DOMAIN ch |-> ch[j].got])]
        BY <1>5, <2>2, <3>3 DEF Shown, Static
      <4> QED BY <1>3, <2>2, <3>1, <3>3, <4>1
    <3> QED BY <3>2, <3>3
  <2> QED BY <2>1, <2>2 DEF Static
<1> QED BY <1>4, <1>5

\* where plan has the dependencies, explain has the same
LEMMA SeenAlike ==
  ASSUME NEW c, NEW d, Kept(c, d), NEW n \in Node, \A m \in Deps[n] : c[m] # None
  PROVE  /\ \A m \in Deps[n] : d[m] = c[m] /\ d[m] # None
         /\ Seen(d, n) = Seen(c, n)
         /\ n \in Dynamic => ItemsIn(d, n) = ItemsIn(c, n)
<1>1. Deps[n] \subseteq Node /\ Inputs(n) \subseteq Deps[n]
  BY NodeCacheAssumption DEF Inputs
<1>2. \A m \in Deps[n] : d[m] = c[m] /\ d[m] # None
  BY <1>1 DEF Kept
<1>3. Seen(d, n) = Seen(c, n)
  BY <1>1, <1>2 DEF Seen
<1>4. n \in Dynamic => ItemsIn(d, n) = ItemsIn(c, n)
  BY <1>2, NodeCacheAssumption DEF ItemsIn
<1> QED BY <1>2, <1>3, <1>4

PlanShape(s) == s = [hit |-> s.hit, miss |-> s.miss, unknown |-> s.unknown, con |-> s.con]

\* Plan judges a node; what it has of it, if anything, explain has as well.
LEMMA JudgedAlike ==
  ASSUME CacheTyped, NEW s, PlanShape(s), Typed(s.con), NEW n \in Node, s.con[n] = None,
         NEW c, Typed(c), c[n] = None, Kept(s.con, c)
  PROVE  /\ PlanShape(Judged(s, n, {})) /\ Typed(Judged(s, n, {}).con)
         /\ \A m \in Node \ {n} : Judged(s, n, {}).con[m] = s.con[m]
         /\ Kept(Judged(s, n, {}).con, Shown(c, n))
<1> DEFINE z == Judged(s, n, {})
           ch == Chain(s.con, n, {})
<1>0. Typed(Shown(c, n)) /\ \A m \in Node \ {n} : Shown(c, n)[m] = c[m]
  BY ShownTyped
<1>1. CASE PlanShape(z) /\ z.con = s.con
  <2>1. Kept(z.con, Shown(c, n))
    BY <1>0, <1>1 DEF Kept
  <2> QED BY <1>1, <2>1
<1>2. ASSUME NEW x \in Content, PlanShape(z), z.con = [s.con EXCEPT ![n] = x],
             Shown(c, n)[n] = x
      PROVE  /\ PlanShape(z) /\ Typed(z.con)
             /\ \A m \in Node \ {n} : z.con[m] = s.con[m]
             /\ Kept(z.con, Shown(c, n))
  <2>1. s.con \in [Node -> Content \cup {None}]
    BY DEF Typed
  <2>2. z.con \in [Node -> Content \cup {None}] /\ z.con[n] = x
        /\ \A m \in Node \ {n} : z.con[m] = s.con[m]
    BY <1>2, <2>1
  <2>3. \A m \in Node \ {n} : z.con[m] # None => Shown(c, n)[m] = z.con[m]
    BY <1>0, <2>2 DEF Kept
  <2>4. Kept(z.con, Shown(c, n))
    BY <1>2, <2>2, <2>3 DEF Kept
  <2> QED BY <1>2, <2>2, <2>4 DEF Typed
<1>3. CASE Blocked(s, n)
  <2>1. z = [s EXCEPT !.unknown = z.unknown]
    BY <1>3 DEF Judged, PlanShape
  <2>2. PlanShape(z) /\ z.con = s.con
    BY <2>1 DEF PlanShape
  <2> QED BY <1>1, <2>2
<1>4. CASE ~Blocked(s, n)
  <2>1. \A m \in Deps[n] : s.con[m] # None
    BY <1>4 DEF Blocked
  <2>2. /\ \A m \in Deps[n] : c[m] = s.con[m] /\ c[m] # None
        /\ Seen(c, n) = Seen(s.con, n)
        /\ n \in Dynamic => ItemsIn(c, n) = ItemsIn(s.con, n)
    BY <2>1, SeenAlike
  <2>3. CASE n \in Static
    <3> DEFINE got == Lookup(Key(s.con, OnDisk(n, None), n, None, None), n, <<n, None>>, {})
    <3>1. got \in Content \cup {None}
      BY LookupTyped
    <3>2. Shown(c, n) = [c EXCEPT ![n] = got]
      BY <2>2, <2>3 DEF Shown, Key
    <3>3. z = IF got = None THEN [s EXCEPT !.miss = @ \cup {<<n, None>>}]
              ELSE [s EXCEPT !.hit = @ \cup {<<n, None>>}, !.con[n] = got]
      BY <1>4, <2>3, Zenon DEF Judged
    <3> HIDE DEF got, z
    <3>4. CASE got = None
      <4>1. PlanShape(z) /\ z.con = s.con
        BY <3>3, <3>4 DEF PlanShape
      <4> QED BY <1>1, <4>1
    <3>5. CASE got # None
      <4>1. PlanShape(z) /\ z.con = [s.con EXCEPT ![n] = got]
        BY <3>3, <3>5 DEF PlanShape
      <4>2. Shown(c, n)[n] = got /\ got \in Content
        BY <3>1, <3>2, <3>5 DEF Typed
      <4> QED BY <1>2, <4>1, <4>2 DEF z
    <3> QED BY <3>4, <3>5 DEF z
  <2>4. CASE n \in Dynamic
    <3> DEFINE its == ItemsIn(s.con, n)
               whole == its # <<>> /\ {k \in DOMAIN its : ch[k].got # None} = DOMAIN its
               agg == Aggregate([k \in DOMAIN its |-> ch[k].got])
    <3>1. /\ s.con[ItemsFrom[n]] # None /\ its \in Seq(Item) /\ s.con[ItemsFrom[n]] \in Content
          /\ Listing(s.con, n) = its
      BY <2>1, <2>4, NodeCacheAssumption, ItemsTyped
    <3>2. Chain(c, n, {}) = ch
      BY <2>2, <2>4, <3>1, ChainAlike
    <3>3. DOMAIN ch = DOMAIN its /\ \A j \in DOMAIN ch : ch[j].got \in Content \cup {None}
      <4>1. ItemsIn(s.con, n) \in Seq(Item) /\ ch = Chain(s.con, n, {})
        BY <3>1
      <4> HIDE DEF ch
      <4>2. DOMAIN ch = DOMAIN ItemsIn(s.con, n)
        BY <4>1, ChainItems
      <4>3. \A j \in DOMAIN ch : ch[j].got \in Content \cup {None}
        BY <4>1, ChainItems
      <4> QED BY <4>2, <4>3
    <3>4. PlanShape(z) /\ z.con = IF whole THEN [s.con EXCEPT ![n] = agg] ELSE s.con
      BY <1>4, <2>4, <3>1 DEF Judged, PlanShape, Static
    <3>5. CASE ~whole
      <4>1. z.con = s.con
        BY <3>4, <3>5
      <4> QED BY <1>1, <3>4, <4>1
    <3>6. CASE whole
      <4> HIDE DEF ch, its
      <4>1. \A j \in DOMAIN ch : ch[j].got \in Content /\ ch[j].got # None
        BY <3>3, <3>6, NodeCacheAssumption
      <4> DEFINE sq == [j \in DOMAIN its |-> ch[j].got]
      <4>2. sq \in [DOMAIN Entries[s.con[ItemsFrom[n]]] -> Content]
        BY <3>3, <4>1 DEF its, ItemsIn
      <4>3. Aggregate(sq) \in Content
        BY <3>1, <4>2, NodeCacheAssumption
      <4>4. Shown(c, n) = [c EXCEPT ![n] = Aggregate([j \in DOMAIN ch |-> ch[j].got])]
        BY <2>2, <2>4, <3>2, <4>1 DEF Shown, Static
      <4>5. [j \in DOMAIN ch |-> ch[j].got] = sq
        BY <3>3
      <4> HIDE DEF sq
      <4>6. Shown(c, n)[n] = Aggregate(sq)
        BY <4>4, <4>5 DEF Typed
      <4>7. z.con = [s.con EXCEPT ![n] = Aggregate(sq)]
        BY <3>4, <3>6 DEF sq
      <4> HIDE DEF z
      <4> QED BY <1>2, <3>4, <4>3, <4>6, <4>7 DEF z
    <3> QED BY <3>5, <3>6
  <2> QED BY <2>3, <2>4 DEF Static
<1> QED BY <1>3, <1>4

LEMMA OrderIs ==
  /\ Len(Order) \in Nat /\ DOMAIN Order = 1..Len(Order)
  /\ \A k \in 1..Len(Order) : Order[k] \in Node
  /\ \A j, k \in 1..Len(Order) : Order[j] = Order[k] => j = k
<1>1. Len(Order) \in Nat /\ DOMAIN Order = 1..Len(Order)
      /\ \A k \in 1..Len(Order) : Order[k] \in Node
  BY NodeCacheAssumption, LenProperties, ElementOfSeq
<1>2. \A j, k \in DOMAIN Order : Order[j] = Order[k] => j = k
  BY NodeCacheAssumption, Zenon DEF IsInjective
<1> QED BY <1>1, <1>2

\* what plan and explain have after k nodes
AgreeAt(k) ==
  /\ PlanShape(Planned({})[k]) /\ Typed(Planned({})[k].con) /\ Typed(Viewed[k])
  /\ Kept(Planned({})[k].con, Viewed[k])
  /\ \A m \in Node : Planned({})[k].con[m] # None \/ Viewed[k][m] # None
                       => \E j \in 1..k : Order[j] = m

LEMMA AgreeAll == ASSUME CacheTyped PROVE \A k \in 0..Len(Order) : AgreeAt(k)
<1> DEFINE S == {k \in 0..Len(Order) : AgreeAt(k)}
<1>1. 0 \in S
  <2>1. Planned({})[0] = NoPlan /\ Viewed[0] = Nothing
    BY PlanIs, CurrentIs
  <2>2. NoPlan.con = Nothing /\ PlanShape(NoPlan) /\ Typed(Nothing) /\ \A m \in Node : Nothing[m] = None
    BY DEF NoPlan, Nothing, PlanShape, Typed
  <2>3. Kept(Nothing, Nothing)
    BY DEF Kept
  <2>4. AgreeAt(0)
    BY <2>1, <2>2, <2>3 DEF AgreeAt
  <2> QED BY <2>4, OrderIs
<1>2. ASSUME NEW k \in 1..Len(Order), k - 1 \in S PROVE k \in S
  <2> DEFINE n == Order[k]
             s == Planned({})[k-1]
             c == Viewed[k-1]
  <2>1. n \in Node /\ Planned({})[k] = Judged(s, n, {}) /\ Viewed[k] = Shown(c, n)
    BY OrderIs, PlanIs, CurrentIs
  <2>2. /\ PlanShape(s) /\ Typed(s.con) /\ Typed(c) /\ Kept(s.con, c)
        /\ \A m \in Node : s.con[m] # None \/ c[m] # None => \E j \in 1..(k-1) : Order[j] = m
    BY <1>2 DEF AgreeAt
  <2>3. s.con[n] = None /\ c[n] = None
    <3>1. ASSUME NEW j \in 1..(k-1) PROVE Order[j] # n
      BY OrderIs
    <3> HIDE DEF n, s, c
    <3> QED BY <2>1, <2>2, <3>1
  <2> HIDE DEF n, s, c
  <2>4. /\ PlanShape(Judged(s, n, {})) /\ Typed(Judged(s, n, {}).con)
        /\ \A m \in Node \ {n} : Judged(s, n, {}).con[m] = s.con[m]
        /\ Kept(Judged(s, n, {}).con, Shown(c, n))
    BY <2>1, <2>2, <2>3, JudgedAlike
  <2>5. Typed(Shown(c, n)) /\ \A m \in Node \ {n} : Shown(c, n)[m] = c[m]
    BY <2>1, <2>2, ShownTyped
  <2>6. ASSUME NEW m \in Node, Judged(s, n, {}).con[m] # None \/ Shown(c, n)[m] # None
        PROVE  \E j \in 1..k : Order[j] = m
    <3>1. CASE m = n
      BY <3>1, OrderIs DEF n
    <3>2. CASE m # n
      <4>1. PICK j \in 1..(k-1) : Order[j] = m
        BY <2>2, <2>4, <2>5, <2>6, <3>2
      <4> QED BY <4>1, OrderIs
    <3> QED BY <3>1, <3>2
  <2>7. AgreeAt(k)
    BY <2>1, <2>4, <2>5, <2>6 DEF AgreeAt
  <2> QED BY <2>7, OrderIs
<1> HIDE DEF S
<1>3. \A k \in 0..Len(Order) : k \in S
  BY <1>1, <1>2, OrderIs, UpTo
<1> QED BY <1>3 DEF S

\* What explain has of a node it keeps.
LEMMA ViewStays ==
  ASSUME CacheTyped, NEW i \in 0..Len(Order)
  PROVE  Kept(Viewed[i], Viewed[Len(Order)])
<1> DEFINE S == {k \in 0..Len(Order) : i <= k => Kept(Viewed[i], Viewed[k])}
<1>0. Len(Order) \in Nat /\ \A k \in 0..Len(Order) : AgreeAt(k)
  BY OrderIs, AgreeAll
<1>1. 0 \in S
  BY <1>0 DEF Kept
<1>2. ASSUME NEW k \in 1..Len(Order), k - 1 \in S PROVE k \in S
  <2>1. CASE i = k
    BY <2>1, <1>0 DEF Kept
  <2>2. CASE i < k
    <3>1. Kept(Viewed[i], Viewed[k-1])
      BY <1>0, <1>2, <2>2
    <3>2. \A m \in Node \ {Order[k]} : Viewed[k][m] = Viewed[k-1][m]
      <4>1. AgreeAt(k-1) /\ Order[k] \in Node /\ Viewed[k] = Shown(Viewed[k-1], Order[k])
        BY <1>0, OrderIs, CurrentIs
      <4> QED BY <4>1, ShownTyped DEF AgreeAt
    <3>3. Viewed[i][Order[k]] = None
      <4>1. ASSUME NEW j \in 1..i PROVE Order[j] # Order[k]
        BY <1>0, <2>2, OrderIs
      <4> QED BY <1>0, <4>1, OrderIs DEF AgreeAt
    <3>4. Kept(Viewed[i], Viewed[k])
      BY <3>1, <3>2, <3>3 DEF Kept
    <3> QED BY <1>0, <3>4
  <2>3. CASE i > k
    BY <1>0, <2>3
  <2> QED BY <1>0, <2>1, <2>2, <2>3
<1> HIDE DEF S
<1>3. \A k \in 0..Len(Order) : k \in S
  BY <1>0, <1>1, <1>2, UpTo
<1> QED BY <1>0, <1>3 DEF S

\* What plan says of a target of a node, explain bears out.
LEMMA JudgedExplained ==
  ASSUME CacheTyped, NEW s, PlanShape(s), Typed(s.con), NEW n \in Node,
         NEW now, \A m : Current(m) = now, Kept(s.con, now), NEW t \in Targets
  PROVE  /\ t \in Judged(s, n, {}).hit => t \in s.hit \/ Explained(t[1], t[2]) \in DOMAIN cache
         /\ t \in Judged(s, n, {}).miss /\ Policy[t[1]] = "auto"
              => t \in s.miss \/ Explained(t[1], t[2]) \notin DOMAIN cache
<1> DEFINE z == Judged(s, n, {})
           ch == Chain(s.con, n, {})
           its == ItemsIn(s.con, n)
<1>1. CASE Blocked(s, n)
  <2>1. z = [s EXCEPT !.unknown = z.unknown]
    BY <1>1 DEF Judged, PlanShape
  <2>2. z.hit = s.hit /\ z.miss = s.miss
    BY <2>1 DEF PlanShape
  <2> QED BY <2>2
<1>2. CASE ~Blocked(s, n)
  <2>1. \A m \in Deps[n] : s.con[m] # None
    BY <1>2 DEF Blocked
  <2>2. Seen(now, n) = Seen(s.con, n) /\ (n \in Dynamic => ItemsIn(now, n) = its)
    BY <2>1, SeenAlike
  <2>3. \A files, i, carry : Key(now, files, n, i, carry) = Key(s.con, files, n, i, carry)
    BY <2>2 DEF Key
  <2>4. CASE n \in Static
    <3> DEFINE key == Key(s.con, OnDisk(n, None), n, None, None)
               got == Lookup(key, n, <<n, None>>, {})
    <3>1. Explained(n, None) = key
      BY <2>3 DEF Explained
    <3>2. z = IF got = None THEN [s EXCEPT !.miss = @ \cup {<<n, None>>}]
              ELSE [s EXCEPT !.hit = @ \cup {<<n, None>>}, !.con[n] = got]
      BY <1>2, <2>4, Zenon DEF Judged
    <3>3. (got # None => key \in DOMAIN cache)
          /\ (got = None /\ Policy[n] = "auto" => key \notin DOMAIN cache)
      BY LookupTyped
    <3> HIDE DEF key, got, z
    <3>4. /\ t \in z.hit => t \in s.hit \/ (t = <<n, None>> /\ got # None)
          /\ t \in z.miss => t \in s.miss \/ (t = <<n, None>> /\ got = None)
      BY <3>2 DEF PlanShape
    <3> QED BY <3>1, <3>3, <3>4 DEF z
  <2>5. CASE n \in Dynamic
    <3>1. /\ s.con[ItemsFrom[n]] # None /\ its \in Seq(Item) /\ IsInjective(its)
          /\ Listing(s.con, n) = its
      BY <2>1, <2>5, NodeCacheAssumption, ItemsTyped
    <3>2. Chain(now, n, {}) = ch
      BY <2>2, <2>5, <3>1, ChainAlike
    <3>3. DOMAIN its = 1..Len(its) /\ \A k \in DOMAIN its : its[k] \in Item /\ its[k] # None
      BY <3>1, LenProperties, ElementOfSeq, NodeCacheAssumption
    <3>4. ASSUME NEW k \in DOMAIN its PROVE Explained(n, its[k]) = ch[k].key
      <4>1. (CHOOSE j \in DOMAIN its : its[j] = its[k]) = k
        <5> HIDE DEF its
        <5> QED BY <3>1, Zenon DEF IsInjective
      <4>2. Explained(n, its[k]) =
              Chain(now, n, {})[CHOOSE j \in DOMAIN ItemsIn(now, n) : ItemsIn(now, n)[j] = its[k]].key
        <5>1. PICK i : i = its[k]
          OBVIOUS
        <5>2. i # None /\ Current(n) = now
          BY <3>3, <5>1
        <5>3. Explained(n, i) =
                Chain(now, n, {})[CHOOSE j \in DOMAIN ItemsIn(now, n) : ItemsIn(now, n)[j] = i].key
          BY <5>2, Zenon DEF Explained, ItemsIn
        <5> HIDE DEF its
        <5> QED BY <5>1, <5>3
      <4>3. ItemsIn(now, n) = its
        BY <2>2, <2>5
      <4> QED BY <3>2, <4>1, <4>2, <4>3
    <3>5. ASSUME NEW k \in DOMAIN its
          PROVE  /\ ch[k].got # None => ch[k].key \in DOMAIN cache
                 /\ ch[k].got = None /\ ch[k].past /\ Policy[n] = "auto" => ch[k].key \notin DOMAIN cache
      <4>1. ItemsIn(s.con, n) \in Seq(Item) /\ ch = Chain(s.con, n, {})
        BY <3>1
      <4>2. /\ ch[k].got # None => ch[k].past
            /\ ch[k].past => ch[k].got = Lookup(ch[k].key, n, <<n, its[k]>>, {})
        <5> HIDE DEF ch
        <5>1. DOMAIN ch = DOMAIN ItemsIn(s.con, n)
          BY <4>1, ChainItems
        <5>2. k \in DOMAIN ch
          BY <5>1
        <5> QED BY <4>1, <5>2, ChainItems
      <4> HIDE DEF ch, its
      <4> QED BY <4>2, LookupTyped
    <3>6. /\ t \in z.hit => t \in s.hit \/ t = <<n, None>>
                              \/ \E k \in DOMAIN its : t = <<n, its[k]>> /\ ch[k].got # None
          /\ t \in z.miss => t \in s.miss \/ t = <<n, None>>
                              \/ \E k \in DOMAIN its : t = <<n, its[k]>> /\ ch[k].got = None /\ ch[k].past
      <4> DEFINE hits == {k \in DOMAIN its : ch[k].got # None}
                 late == {k \in DOMAIN its : ~ch[k].past}
                 whole == its # <<>> /\ hits = DOMAIN its
      <4>1. /\ z.hit = s.hit \cup {<<n, its[k]>> : k \in hits} \cup (IF whole THEN {<<n, None>>} ELSE {})
            /\ z.miss = s.miss \cup {<<n, its[k]>> : k \in DOMAIN its \ (hits \cup late)}
                               \cup (IF whole THEN {} ELSE {<<n, None>>})
        BY <1>2, <2>5, <3>1 DEF Judged, Static
      <4> HIDE DEF z, ch, its, whole
      <4> QED BY <4>1
    <3>7. t # <<n, None>>
      BY <2>5, TargetIs, NodeCacheAssumption DEF Static
    <3> HIDE DEF z, ch, its
    <3> QED BY <3>4, <3>5, <3>6, <3>7 DEF z
  <2> QED BY <2>4, <2>5 DEF Static
<1> QED BY <1>1, <1>2

LEMMA AgreesWhenTyped == ASSUME CacheTyped PROVE ExplainAgrees
<1> DEFINE Said(k) ==
             \A t \in Targets :
               /\ t \in Planned({})[k].hit => Explained(t[1], t[2]) \in DOMAIN cache
               /\ t \in Planned({})[k].miss /\ Policy[t[1]] = "auto"
                    => Explained(t[1], t[2]) \notin DOMAIN cache
           S == {k \in 0..Len(Order) : Said(k)}
<1>0. Len(Order) \in Nat /\ \A k \in 0..Len(Order) : AgreeAt(k)
  BY OrderIs, AgreeAll
<1>1. 0 \in S
  BY <1>0, PlanIs DEF NoPlan
<1>2. ASSUME NEW k \in 1..Len(Order), k - 1 \in S PROVE k \in S
  <2> DEFINE s == Planned({})[k-1]
             now == Viewed[Len(Order)]
  <2>1. Order[k] \in Node /\ Planned({})[k] = Judged(s, Order[k], {}) /\ \A m : Current(m) = now
    BY OrderIs, PlanIs, CurrentIs
  <2>2. PlanShape(s) /\ Typed(s.con) /\ Kept(s.con, now)
    <3>1. AgreeAt(k-1) /\ Kept(Viewed[k-1], now)
      BY <1>0, ViewStays
    <3>2. Kept(s.con, Viewed[k-1]) /\ PlanShape(s) /\ Typed(s.con)
      BY <3>1 DEF AgreeAt
    <3> QED BY <3>1, <3>2 DEF Kept
  <2> HIDE DEF s, now
  <2>3. \A t \in Targets :
          /\ t \in Judged(s, Order[k], {}).hit => t \in s.hit \/ Explained(t[1], t[2]) \in DOMAIN cache
          /\ t \in Judged(s, Order[k], {}).miss /\ Policy[t[1]] = "auto"
               => t \in s.miss \/ Explained(t[1], t[2]) \notin DOMAIN cache
    BY <2>1, <2>2, JudgedExplained
  <2>4. Said(k-1)
    BY <1>2
  <2>5. Said(k)
    BY <2>1, <2>3, <2>4 DEF s
  <2> QED BY <1>0, <2>5
<1> HIDE DEF S
<1>3. \A k \in 0..Len(Order) : k \in S
  BY <1>0, <1>1, <1>2, UpTo
<1>4. Said(Len(Order))
  BY <1>0, <1>3 DEF S
<1> QED BY <1>4, PlanIs DEF ExplainAgrees

\* what a run has of a target is one of the contents
Fine(s) ==
  /\ DOMAIN s = {"stage", "key", "content", "from", "origin", "hit"}
  /\ s.stage # "running" => s.content \in Content

ContentInv ==
  /\ CacheTyped /\ DOMAIN state = Run
  /\ \A r \in Run : \A t \in DOMAIN state[r] : Fine(state[r][t])

LEMMA SetFine ==
  ASSUME ContentInv, NEW r \in Run, NEW t, NEW s, Fine(s), Set(r, t, s)
  PROVE  DOMAIN state' = Run /\ \A q \in Run : \A u \in DOMAIN state'[q] : Fine(state'[q][u])
<1>1. state' = [state EXCEPT ![r] = With(@, t, s)] /\ DOMAIN state = Run
  BY DEF Set, ContentInv
<1>2. \A u \in DOMAIN With(state[r], t, s) : Fine(With(state[r], t, s)[u])
  BY DEF With, ContentInv
<1> QED BY <1>1, <1>2 DEF ContentInv

LEMMA ContentKept == ASSUME ContentInv, [Next]_vars PROVE ContentInv'
<1>1. CASE UNCHANGED <<cache, state>>
  BY <1>1 DEF ContentInv, CacheTyped, Fine
<1>2. ASSUME NEW r \in Run, NEW t \in Targets, Start(r, t[1], t[2]) PROVE ContentInv'
  <2> DEFINE k == KeyOf(r, t[1], t[2])
             s == [stage |-> "candidate", key |-> k, content |-> cache[k].content,
                   from |-> cache[k].from, origin |-> "none", hit |-> TRUE]
             fresh == [stage |-> "running", key |-> k, content |-> None,
                       from |-> None, origin |-> "none", hit |-> FALSE]
  <2>1. UNCHANGED cache /\ \/ Lookup(k, t[1], <<t[1], t[2]>>, forced[r]) # None /\ Set(r, <<t[1], t[2]>>, s)
                           \/ Set(r, <<t[1], t[2]>>, fresh)
    BY <1>2 DEF Start
  <2>2. CacheTyped
    BY DEF ContentInv
  <2>3. Lookup(k, t[1], <<t[1], t[2]>>, forced[r]) # None => Fine(s)
    <3>1. Lookup(k, t[1], <<t[1], t[2]>>, forced[r]) # None => k \in DOMAIN cache
      BY <2>2, LookupTyped
    <3> HIDE DEF k
    <3> QED BY <2>2, <3>1 DEF Fine, CacheTyped
  <2>4. Fine(fresh)
    BY DEF Fine
  <2> HIDE DEF s, fresh, k
  <2>5. DOMAIN state' = Run /\ \A q \in Run : \A u \in DOMAIN state'[q] : Fine(state'[q][u])
    BY <2>1, <2>3, <2>4, SetFine
  <2> QED BY <2>1, <2>2, <2>5 DEF ContentInv, CacheTyped, Fine
<1>3. ASSUME NEW r \in Run, NEW t \in Targets, Return(r, t[1], t[2]) PROVE ContentInv'
  <2>1. PICK c \in Returns[t[1]] :
          Set(r, <<t[1], t[2]>>,
              [state[r][<<t[1], t[2]>>] EXCEPT !.stage = "candidate", !.content = c,
                                               !.from = Given(r, t[1], t[2]), !.origin = "calls"])
    BY <1>3 DEF Return
  <2>2. UNCHANGED cache /\ Fine(state[r][<<t[1], t[2]>>]) /\ c \in Content
    BY <1>3, TargetIs, NodeCacheAssumption DEF Return, ContentInv
  <2>3. Fine([state[r][<<t[1], t[2]>>] EXCEPT !.stage = "candidate", !.content = c,
                                              !.from = Given(r, t[1], t[2]), !.origin = "calls"])
    BY <2>2 DEF Fine
  <2>4. DOMAIN state' = Run /\ \A q \in Run : \A u \in DOMAIN state'[q] : Fine(state'[q][u])
    BY <2>1, <2>3, SetFine
  <2> QED BY <2>2, <2>4 DEF ContentInv, CacheTyped, Fine
<1>4. ASSUME NEW r \in Run, NEW t \in Targets, Complete(r, t[1], t[2]) PROVE ContentInv'
  <2> DEFINE s == state[r][<<t[1], t[2]>>]
  <2>1. /\ s.stage = "candidate" /\ Set(r, <<t[1], t[2]>>, [s EXCEPT !.stage = "completed"])
        /\ cache' = With(cache, s.key, Sealed(s)) \/ UNCHANGED cache
        /\ Fine(s)
    BY <1>4 DEF Complete, ContentInv
  <2> HIDE DEF s
  <2>2. Fine([s EXCEPT !.stage = "completed"]) /\ s.content \in Content
    BY <2>1 DEF Fine
  <2>3. DOMAIN state' = Run /\ \A q \in Run : \A u \in DOMAIN state'[q] : Fine(state'[q][u])
    BY <2>1, <2>2, SetFine
  <2>4. CacheTyped'
    <3>1. CacheTyped
      BY DEF ContentInv
    <3>2. CASE cache' = With(cache, s.key, Sealed(s))
      BY <2>2, <3>1, <3>2 DEF CacheTyped, With, Sealed
    <3> QED BY <2>1, <3>1, <3>2 DEF CacheTyped
  <2> QED BY <2>3, <2>4 DEF ContentInv, Fine
<1>5. ASSUME NEW r \in Run, Crash(r) PROVE ContentInv'
  <2>1. /\ state' = [state EXCEPT ![r] = [t \in DOMAIN @ |->
                       IF @[t].stage = "candidate" THEN [@[t] EXCEPT !.hit = FALSE] ELSE @[t]]]
        /\ UNCHANGED cache
    BY <1>5 DEF Crash
  <2>2. \A u \in DOMAIN state[r] : Fine(state[r][u]) /\ Fine([state[r][u] EXCEPT !.hit = FALSE])
    BY DEF ContentInv, Fine
  <2>3. DOMAIN state' = Run /\ \A q \in Run : \A u \in DOMAIN state'[q] : Fine(state'[q][u])
    BY <2>1, <2>2 DEF ContentInv
  <2> QED BY <2>1, <2>3 DEF ContentInv, CacheTyped, Fine
<1>6. ASSUME Next PROVE ContentInv'
  <2>1. CASE Edit
    BY <1>1, <2>1 DEF Edit
  <2>2. ASSUME NEW r \in Run, \/ Load(r) \/ Begin(r) \/ Finish(r) \/ Resume(r)
                              \/ \E n \in Dynamic : Bind(r, n)
                              \/ \E t \in Targets : Keep(r, t[1], t[2])
        PROVE  ContentInv'
    BY <1>1, <2>2 DEF Load, Begin, Finish, Resume, Bind, Keep
  <2> QED BY <1>2, <1>3, <1>4, <1>5, <1>6, <2>1, <2>2 DEF Next
<1> QED BY <1>1, <1>6 DEF vars, run

\* Explain and plan speak of one key (dag.py, Dag.plan and Dag.explain): whatever
\* the cache holds, and whoever edits what.
THEOREM PlansAreExplained == Spec => []ExplainAgrees
<1>1. Init => ContentInv
  BY DEF Init, ContentInv, CacheTyped
<1>2. ContentInv => ExplainAgrees
  BY AgreesWhenTyped DEF ContentInv
<1> QED BY <1>1, <1>2, ContentKept, PTL DEF Spec

-----------------------------------------------------------------------------
(* Registry: mounting and decorators that were taken before it.              *)

\* what marks a node that no namespace holds is not the name of one
RegHypotheses == NoName \notin Namespace

\* the nodes that have come by way of ns
MountedBy(ns) == {n \in DOMAIN nodes : nodes[n].via = ns}

AsTemplated(ns) ==
  IF ns \in DOMAIN mounted
  THEN /\ MountedBy(ns) = {ns} \X DOMAIN template
       /\ \A n \in MountedBy(ns) : nodes[n] = Placed(ns, mounted[ns], template[n[2]])
  ELSE MountedBy(ns) = {}

RegInv ==
  /\ DOMAIN mounted # {} => frozen
  /\ \A ns \in Namespace : AsTemplated(ns)

LEMMA AlikeIs == MountedAlike <=> \A ns \in Namespace : AsTemplated(ns)
  BY DEF MountedAlike, AsTemplated, MountedBy

\* What is registered outside the template comes by way of no namespace.
LEMMA RegisterKeeps ==
  ASSUME RegHypotheses, RegInv, NEW h, Register(h)
  PROVE  RegInv'
<1>1. /\ UNCHANGED <<mounted, template, frozen>>
      /\ DOMAIN nodes \subseteq DOMAIN nodes'
      /\ \A n \in DOMAIN nodes : nodes'[n] = nodes[n]
      /\ \A n \in DOMAIN nodes' \ DOMAIN nodes : nodes'[n].via = NoName
  <2> DEFINE fit == Admitted(h.decls)
             new == {h.decls[i].name : i \in fit}
             New(n) == CHOOSE i \in fit : h.decls[i].name = n
  <2>1. nodes' = [n \in DOMAIN nodes \cup new |->
                    IF n \in DOMAIN nodes THEN nodes[n] ELSE Registered(h.decls[New(n)])]
    BY DEF Register
  <2>2. UNCHANGED <<mounted, template, frozen>>
    BY DEF Register, Applied
  <2> HIDE DEF fit, new, New
  <2>3. \A d : Registered(d).via = NoName
    BY DEF Registered
  <2> QED BY <2>1, <2>2, <2>3
<1>2. ASSUME NEW ns \in Namespace PROVE AsTemplated(ns)'
  <2>1. AsTemplated(ns) /\ ns # NoName
    BY DEF RegInv, RegHypotheses
  <2>2. MountedBy(ns)' = MountedBy(ns)
    BY <1>1, <2>1 DEF MountedBy
  <2>3. \A n \in MountedBy(ns) : nodes'[n] = nodes[n]
    BY <1>1 DEF MountedBy
  <2> QED BY <1>1, <2>1, <2>2, <2>3 DEF AsTemplated
<1> QED BY <1>1, <1>2 DEF RegInv

\* The template changes only while no namespace has it.
LEMMA RegisterLocalKeeps ==
  ASSUME RegInv, NEW h, RegisterLocal(h)
  PROVE  RegInv'
<1>1. UNCHANGED <<nodes, mounted, frozen>> /\ (template' = template \/ ~frozen)
  BY DEF RegisterLocal, Applied, Unfrozen, Undeclared
<1>2. ASSUME NEW ns \in Namespace PROVE AsTemplated(ns)'
  <2>1. AsTemplated(ns) /\ MountedBy(ns)' = MountedBy(ns)
    BY <1>1 DEF RegInv, MountedBy
  <2>2. CASE template' = template
    BY <1>1, <2>1, <2>2 DEF AsTemplated
  <2>3. CASE ~frozen
    <3>1. ns \notin DOMAIN mounted
      BY <2>3 DEF RegInv
    <3> QED BY <1>1, <2>1, <3>1 DEF AsTemplated
  <2> QED BY <1>1, <2>2, <2>3
<1> QED BY <1>1, <1>2 DEF RegInv

\* A mount is whole: the places it fills were free, and are all it fills.
LEMMA MountKeeps ==
  ASSUME RegInv, NEW ns \in Namespace, NEW bind, Mount(ns, bind)
  PROVE  RegInv'
<1> DEFINE all == {ns} \X DOMAIN template
<1>1. /\ ns \notin DOMAIN mounted /\ frozen' /\ template' = template
      /\ mounted' = Adding(mounted, ns, bind)
      /\ nodes' = [n \in DOMAIN nodes \cup all |->
                     IF n \in DOMAIN nodes THEN nodes[n] ELSE Placed(ns, bind, template[n[2]])]
      /\ \A x \in DOMAIN template : <<ns, x>> \notin DOMAIN nodes
  BY DEF Mount
<1>2. \A n \in all : n \notin DOMAIN nodes
  BY <1>1
<1>3. \A b, t : Placed(ns, b, t).via = ns
  BY DEF Placed
<1>4. \A m \in DOMAIN mounted : m # ns /\ m \in DOMAIN mounted' /\ mounted'[m] = mounted[m]
  BY <1>1 DEF Adding
<1>5. DOMAIN mounted' = DOMAIN mounted \cup {ns} /\ mounted'[ns] = bind
  BY <1>1 DEF Adding
<1> HIDE DEF all
<1>6. /\ DOMAIN nodes' = DOMAIN nodes \cup all
      /\ \A n \in DOMAIN nodes : nodes'[n] = nodes[n]
      /\ \A n \in all : nodes'[n] = Placed(ns, bind, template[n[2]]) /\ nodes'[n].via = ns
  BY <1>1, <1>2, <1>3
<1>7. AsTemplated(ns)'
  <2>1. MountedBy(ns) = {}
    BY <1>1 DEF RegInv, AsTemplated
  <2>2. MountedBy(ns)' = all
    BY <1>6, <2>1 DEF MountedBy
  <2> QED BY <1>1, <1>5, <1>6, <2>2 DEF AsTemplated, all
<1>8. ASSUME NEW m \in Namespace, m # ns PROVE AsTemplated(m)'
  <2>1. AsTemplated(m)
    BY DEF RegInv
  <2>2. MountedBy(m)' = MountedBy(m) /\ \A n \in MountedBy(m) : nodes'[n] = nodes[n]
    BY <1>6, <1>8 DEF MountedBy
  <2> QED BY <1>1, <1>4, <1>5, <1>8, <2>1, <2>2 DEF AsTemplated
<1> QED BY <1>1, <1>7, <1>8 DEF RegInv

\* Every namespace holds the template as it is now, under the bindings recorded
\* for it, and nothing else (adoption.md:809): no mount is half done, and a
\* decorator taken before the first mount changes no template after it.
THEOREM MountsAreAlike == ASSUME RegHypotheses PROVE RegSpec => []MountedAlike
<1>1. RegInit => RegInv
  BY DEF RegInit, NoNodes, RegInv, AsTemplated, MountedBy
<1>2. RegInv /\ [RegNext]_regVars => RegInv'
  <2> SUFFICES ASSUME RegInv, [RegNext]_regVars PROVE RegInv'
    OBVIOUS
  <2>1. ASSUME UNCHANGED <<nodes, mounted, template, frozen>> PROVE RegInv'
    BY <2>1 DEF RegInv, AsTemplated, MountedBy
  <2>2. \A of, decls : Take(of, decls) => UNCHANGED <<nodes, mounted, template, frozen>>
    BY DEF Take
  <2>3. CASE \E h : Register(h) \/ RegisterLocal(h)
    BY <2>3, RegisterKeeps, RegisterLocalKeeps
  <2>4. CASE \E ns \in Namespace, bind \in [Port -> Name] : Mount(ns, bind)
    BY <2>4, MountKeeps
  <2>5. CASE UNCHANGED regVars
    BY <2>1, <2>5 DEF regVars
  <2>6. CASE \/ \E n \in Called :
                  \/ \E ds \in DepLists, cs \in Projected : DagNode(n, ds, cs) \/ DagAgent(n, ds, cs)
                  \/ \E s \in Sources : \/ DagMap(n, <<>>, s, {}) \/ DagScan(n, <<>>, s, s, {})
                                        \/ DagAgentScan(n, <<>>, s, s, {})
             \/ \E e \in Each : DagForeach(e[1], e[2], e[3])
             \/ \E x \in Local :
                  \/ \E ds \in LocalDeps : LocalNode(x, ds, {})
                  \/ \E s \in Port : LocalMap(x, <<>>, s, {}) \/ LocalScan(x, <<>>, s, s, {})
    <3>1. \E of, decls : Take(of, decls)
      BY <2>6, Zenon DEF DagNode, DagAgent, DagMap, DagScan, DagAgentScan, DagForeach, LocalNode,
                         LocalMap, LocalScan, Declare
    <3> QED BY <2>1, <2>2, <3>1
  <2> QED BY <2>3, <2>4, <2>5, <2>6 DEF RegNext
<1>3. RegInv => MountedAlike
  BY AlikeIs DEF RegInv
<1> QED BY <1>1, <1>2, <1>3, PTL DEF RegSpec
=============================================================================
