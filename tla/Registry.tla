------------------------------ MODULE Registry ------------------------------
(* What can be declared: nodes of a Dag (dag.py) and of a Subgraph           *)
(* (subgraph.py), a decorator first taken and later applied to a function,   *)
(* the mounting of the template under namespaces, and what a run reads off   *)
(* the registry: the order of the nodes and the downstream of one of them.   *)
EXTENDS Naturals, Sequences, SequencesExt, FiniteSets

CONSTANTS Outer,      \* names of ordinary nodes
          Namespace,
          Local,      \* names of nodes of the template
          Port,       \* the input ports of the template
          Target,     \* the local node its output port names
          Called,     \* the names that are declared
          DepLists,   \* what may be declared as deps of a node
          Each,       \* names, deps and consumes of a foreach
          LocalDeps,  \* and of a node of the template
          Sources,    \* what may be declared as items_from and carry_from
          Projected,  \* and as consumes
          NoName,
          MaxTaken    \* bound

VARIABLES nodes,      \* Dag._nodes: name -> node
          mounted,    \* Dag._subgraphs: namespace -> the bindings of the ports
          template,   \* Subgraph._nodes: local name -> node
          frozen,
          taken,      \* decorators that were made and not applied yet
          count

regVars == <<nodes, mounted, template, frozen, taken, count>>

\* A qualified name is `namespace.local`; an ordinary node may be named so too.
Name == {<<o>> : o \in Outer} \cup (Namespace \X Local)

NoNodes == [n \in {} |-> NoName]
Adding(f, n, v) == [m \in DOMAIN f \cup {n} |-> IF m = n THEN v ELSE f[m]]

-----------------------------------------------------------------------------
(* Decorators. What is declared is read at once, except by Dag.agent; what    *)
(* was read is not changed afterwards.                                       *)

Decl(name, deps, source, carry, consumes) ==
  [name |-> name, consumes |-> consumes, source |-> source, carry |-> carry,
   deps |-> LET roles == SelectSeq(<<source, carry>>, LAMBDA r : r # NoName)
            IN FoldLeft(LAMBDA ds, r : IF r \in ToSet(ds) THEN ds ELSE Append(ds, r), deps, roles)]

Take(of, decls) ==
  /\ count < MaxTaken /\ count' = count + 1
  /\ taken' = taken \cup {[of |-> of, decls |-> decls]}
  /\ UNCHANGED <<nodes, mounted, template, frozen>>

Free(n) == n \notin DOMAIN nodes

DagNode(n, ds, cs) == Free(n) /\ Take("dag", <<Decl(n, ds, NoName, NoName, cs)>>)
DagAgent(n, ds, cs) == Free(n) /\ Take("dag", <<Decl(n, ds, NoName, NoName, cs)>>)
DagAgentScan(n, ds, s, c, cs) == Free(n) /\ Take("dag", <<Decl(n, ds, s, c, cs)>>)

\* no look at the registry before the decorator is applied
DagMap(n, ds, s, cs) == Take("dag", <<Decl(n, ds, s, NoName, cs)>>)
DagScan(n, ds, s, c, cs) == Take("dag", <<Decl(n, ds, s, c, cs)>>)
DagForeach(ns, dss, cs) ==
  Take("dag", [i \in DOMAIN ns |-> Decl(ns[i], dss[i], NoName, NoName, cs)])

Undeclared(x) == ~frozen /\ x \notin DOMAIN template

Declare(d) == Undeclared(d.name) /\ Take("template", <<d>>)
LocalNode(x, ds, cs) == Declare(Decl(x, ds, NoName, NoName, cs))
LocalMap(x, ds, s, cs) == Declare(Decl(x, ds, s, NoName, cs))
LocalScan(x, ds, s, c, cs) == Declare(Decl(x, ds, s, c, cs))

-----------------------------------------------------------------------------
(* Their application to a function. One that is refused raises, and a        *)
(* decorator applied again is always refused, so each is applied once.       *)

\* validate_consumes
Projects(d) == d.consumes \subseteq ToSet(d.deps) \ {d.source, d.carry}

Fits(known, d) == d.name \notin known /\ Projects(d)

\* Dag._register_node
Registered(d) == [deps |-> d.deps, source |-> d.source, carry |-> d.carry, via |-> NoName]

Applied(h) == taken' = taken \ {h} /\ UNCHANGED <<mounted, count>>

\* those of the declarations that come before any that is refused
Admitted(decls) ==
  {i \in DOMAIN decls : \A j \in 1..i :
     Fits(DOMAIN nodes \cup {decls[k].name : k \in 1..(j-1)}, decls[j])}

\* The declarations of a foreach go in one by one, up to the first that is refused.
Register(h) ==
  /\ h \in taken /\ h.of = "dag"
  /\ LET fit == Admitted(h.decls)
         New(n) == CHOOSE i \in fit : h.decls[i].name = n
     IN nodes' = [n \in DOMAIN nodes \cup {h.decls[i].name : i \in fit} |->
                    IF n \in DOMAIN nodes THEN nodes[n] ELSE Registered(h.decls[New(n)])]
  /\ Applied(h) /\ UNCHANGED <<template, frozen>>

\* Mutant: the template is frozen for new decorators only.
UnfrozenToTaken(d) == d.name \notin DOMAIN template /\ Projects(d)

Unfrozen(d) == Undeclared(d.name) /\ Projects(d)

RegisterLocal(h) ==
  /\ h \in taken /\ h.of = "template"
  /\ LET d == h.decls[1]
     IN template' = IF Unfrozen(d)
                    THEN Adding(template, d.name,
                              [deps |-> d.deps, source |-> d.source, carry |-> d.carry])
                    ELSE template
  /\ Applied(h) /\ UNCHANGED <<nodes, frozen>>

-----------------------------------------------------------------------------
(* Dag._topological_order: depth first, each node after its dependencies.     *)
(* `walk` is the order so far, the names on the path and whether it failed.   *)

Unwalked == [order |-> <<>>, path |-> {}, failed |-> FALSE]

Ascend(walk, n) == [walk EXCEPT !.order = Append(@, n), !.path = @ \ {n}]

Descend(walk, n) == [walk EXCEPT !.path = @ \cup {n}]

Walk(reg, targets) ==
  LET names == ToSet(targets) \cup DOMAIN reg \cup UNION {ToSet(reg[n].deps) : n \in DOMAIN reg}
      walks == [order : Seq(names), path : SUBSET names, failed : BOOLEAN]
      visit[walk \in walks, n \in names] ==
        IF walk.failed \/ n \in ToSet(walk.order) THEN walk
        ELSE IF n \notin DOMAIN reg \/ n \in walk.path THEN [walk EXCEPT !.failed = TRUE]
        ELSE Ascend(FoldLeft(LAMBDA w, d : visit[w, d], Descend(walk, n), reg[n].deps), n)
  IN FoldLeft(LAMBDA w, n : visit[w, n], Unwalked, targets)

\* Mutant: the direct dependents only.
DownstreamNear(n) == {m \in DOMAIN nodes \ {n} : n \in ToSet(nodes[m].deps)}

\* _downstream_nodes
Downstream(n) ==
  LET names == DOMAIN nodes \cup {n}
      reached[skipped \in SUBSET names, frontier \in SUBSET names] ==
        LET next == {m \in DOMAIN nodes \ ({n} \cup skipped) :
                       ToSet(nodes[m].deps) \cap frontier # {}}
        IN IF next = {} THEN skipped ELSE reached[skipped \cup next, next]
  IN reached[{}, {n}]

\* Dag._recovery_inherited_nodes, as far as the graph decides it: what a
\* recovery of node n takes over as it is
Inherited(n, order) == ToSet(order) \ ({n} \cup Downstream(n))

-----------------------------------------------------------------------------
(* Dag.mount: everything is checked before anything is changed.              *)

Resolve(ns, bind, r) == IF r \in Port THEN bind[r] ELSE <<ns, r>>

Placed(ns, bind, node) ==
  LET role(r) == IF r = NoName THEN NoName ELSE Resolve(ns, bind, r)
      all == [i \in DOMAIN node.deps |-> Resolve(ns, bind, node.deps[i])]
  IN [source |-> role(node.source), carry |-> role(node.carry), via |-> ns,
      deps |-> FoldLeft(LAMBDA ds, r : IF r \in ToSet(ds) THEN ds ELSE Append(ds, r), <<>>, all)]

Sound ==
  LET inside == [x \in DOMAIN template |->
                   [deps |-> SelectSeq(template[x].deps, LAMBDA r : r \notin Port)]]
  IN /\ \A x \in DOMAIN template : ToSet(template[x].deps) \subseteq Port \cup DOMAIN template
     /\ Target \in DOMAIN template
     /\ ~Walk(inside, SetToSeq(DOMAIN template)).failed

Mount(ns, bind) ==
  /\ ns \notin DOMAIN mounted
  /\ \A p \in Port : bind[p] \in DOMAIN nodes
  /\ Sound
  /\ \A x \in DOMAIN template : <<ns, x>> \notin DOMAIN nodes
  /\ nodes' = [n \in DOMAIN nodes \cup ({ns} \X DOMAIN template) |->
                 IF n \in DOMAIN nodes THEN nodes[n] ELSE Placed(ns, bind, template[n[2]])]
  /\ mounted' = Adding(mounted, ns, bind)
  /\ frozen' = TRUE
  /\ UNCHANGED <<template, taken, count>>

-----------------------------------------------------------------------------

RegInit ==
  /\ nodes = NoNodes /\ mounted = NoNodes /\ template = NoNodes
  /\ frozen = FALSE /\ taken = {} /\ count = 0

RegNext ==
  \/ \E n \in Called :
       \/ \E ds \in DepLists, cs \in Projected : DagNode(n, ds, cs) \/ DagAgent(n, ds, cs)
       \/ \E s \in Sources : \/ DagMap(n, <<>>, s, {}) \/ DagScan(n, <<>>, s, s, {})
                             \/ DagAgentScan(n, <<>>, s, s, {})
  \/ \E e \in Each : DagForeach(e[1], e[2], e[3])
  \/ \E x \in Local :
       \/ \E ds \in LocalDeps : LocalNode(x, ds, {})
       \/ \E s \in Port : LocalMap(x, <<>>, s, {}) \/ LocalScan(x, <<>>, s, s, {})
  \/ \E h \in taken : Register(h) \/ RegisterLocal(h)
  \/ \E ns \in Namespace, bind \in [Port -> Name] : Mount(ns, bind)

RegSpec == RegInit /\ [][RegNext]_regVars

-----------------------------------------------------------------------------

\* Every namespace holds the template as it is now, under the bindings that
\* were recorded for it, and nothing else: no mount is half done, and no
\* decorator taken before the first mount changes a template afterwards
\* (adoption.md:809, "任何失败都不会留下半挂载节点。模板首次成功挂载后冻结").
MountedAlike ==
  \A ns \in Namespace :
    LET here == {n \in DOMAIN nodes : nodes[n].via = ns}
    IN IF ns \in DOMAIN mounted
       THEN /\ here = {ns} \X DOMAIN template
            /\ \A n \in here : nodes[n] = Placed(ns, mounted[ns], template[n[2]])
       ELSE here = {}

DependsOn(n) ==  \* reference: everything n depends on
  LET grown(S) == S \cup UNION {ToSet(nodes[m].deps) : m \in S \cap DOMAIN nodes}
      within[i \in 0..Cardinality(Name)] ==
        IF i = 0 THEN {n} ELSE grown(within[i - 1])
  IN within[Cardinality(Name)]

OnCycle(n) == n \in DOMAIN nodes /\ \E d \in ToSet(nodes[n].deps) : n \in DependsOn(d)

\* A run of the graph, mounted templates and cycles across them included, is
\* refused exactly when a node it needs is unknown or depends on itself; else
\* its order lists what it needs, once each and every dependency first.
OrderSound ==
  \A n \in DOMAIN nodes :
    LET walk == Walk(nodes, <<n>>)
        order == walk.order
    IN IF \E m \in DependsOn(n) : m \notin DOMAIN nodes \/ OnCycle(m) THEN walk.failed
       ELSE /\ ~walk.failed
            /\ ToSet(order) = DependsOn(n) /\ IsInjective(order)
            /\ \A i \in DOMAIN order :
                 ToSet(nodes[order[i]].deps) \subseteq ToSet(SubSeq(order, 1, i - 1))

\* What a recovery inherits is what does not depend on the recovered node.
InheritedUpstream ==
  \A n, t \in DOMAIN nodes :
    LET walk == Walk(nodes, <<t>>)
    IN ~walk.failed => Inherited(n, walk.order) = {m \in DependsOn(t) : n \notin DependsOn(m)}

\* A run's order has each dependency first, a cycle is refused, and a recovery
\* inherits what does not depend on the recovered node (dag.py,
\* _topological_order and _downstream_nodes).
DepsHeeded == OrderSound /\ InheritedUpstream

=============================================================================
