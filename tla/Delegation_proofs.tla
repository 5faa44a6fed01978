--------------------------- MODULE Delegation_proofs ---------------------------
(***************************************************************************)
(* What Delegation and DelegatedAuthority have in common is proved here    *)
(* for every graph: the types, that the work list gathers exactly what is  *)
(* reachable, and that delegated authority is therefore what was promised. *)
(***************************************************************************)
EXTENDS Delegation, TLAPS, FiniteSetTheorems, SequenceTheorems, WellFoundedInduction

-----------------------------------------------------------------------------
(* The agent an alias or a name stands for.                                *)

\* A set of naturals that is not empty has a least element.
LEMMA LeastExists ==
  ASSUME NEW S \in SUBSET Nat, S # {}
  PROVE  \E i \in S : \A j \in S : i <= j
<1> DEFINE R == {ss \in Nat \X Nat : ss[1] < ss[2]}
<1>1. IsWellFoundedOn(R, Nat)
  BY NatLessThanWellFounded, Zenon DEF OpToRel
<1>2. \A i, j \in Nat : <<j, i>> \notin R => i <= j
  OBVIOUS
<1>3. \E i \in S : \A j \in S : <<j, i>> \notin R
  <2> HIDE DEF R
  <2> QED BY <1>1, WFMin, Zenon
<1> HIDE DEF R
<1> QED BY <1>2, <1>3

\* Up to a bound, it has a greatest one.
LEMMA GreatestExists ==
  ASSUME NEW n \in Nat, NEW S \in SUBSET (1..n), S # {}
  PROVE  \E i \in S : \A j \in S : j <= i
<1> DEFINE T == {n - i : i \in S}
<1>1. T \in SUBSET Nat /\ T # {}
  <2>1. \A i \in S : n - i \in Nat
    OBVIOUS
  <2>2. PICK i \in S : TRUE
    OBVIOUS
  <2> QED BY <2>1, <2>2
<1>2. PICK k \in T : \A m \in T : k <= m
  <2> HIDE DEF T
  <2> QED BY <1>1, LeastExists
<1>3. PICK i \in S : k = n - i
  OBVIOUS
<1>4. \A j \in S : n - i <= n - j
  BY <1>2, <1>3
<1>5. \A j \in S : j <= i
  BY <1>4
<1> QED BY <1>5

\* The agent kept for a name has that name.
LEMMA LastNamedType ==
  ASSUME NEW g \in Graphs, NEW r, Named(g, r) # {}
  PROVE  /\ LastNamed(g, r) \in DOMAIN g
         /\ g[LastNamed(g, r)].name = r
         /\ \A j \in Named(g, r) : j <= LastNamed(g, r)
<1>1. g \in Seq(Agents)
  BY GraphsAssumption
<1>2. DOMAIN g = 1..Len(g) /\ Len(g) \in Nat
  BY <1>1
<1>3. Named(g, r) \in SUBSET (1..Len(g))
  BY <1>2 DEF Named
<1>4. \E i \in Named(g, r) : \A j \in Named(g, r) : j <= i
  BY <1>2, <1>3, GreatestExists
<1> QED BY <1>4 DEF LastNamed, Named

\* Every name is that of the agent kept for it.
LEMMA NameType ==
  ASSUME NEW g \in Graphs, NEW n \in Names(g)
  PROVE  LastNamed(g, n) \in DOMAIN g /\ g[LastNamed(g, n)].name = n
<1>1. Named(g, n) # {}
  BY DEF Names, Named
<1> QED BY <1>1, LastNamedType

-----------------------------------------------------------------------------
(* Types of the operators.                                                 *)

LEMMA AgentType ==
  ASSUME NEW g \in Graphs, NEW i \in DOMAIN g
  PROVE  g[i] \in Agents /\ g[i].name \in Names(g) /\ g[i].name \in Refs
<1>1. g[i] \in Agents
  BY GraphsAssumption
<1> QED BY <1>1 DEF Agents, Names

LEMMA NamesAreRefs == \A g \in Graphs : Names(g) \subseteq Refs
  BY AgentType DEF Names

LEMMA AuthorityType ==
  ASSUME NEW a \in Agents, NEW T \in SUBSET Tools
  PROVE  Authority(a, T) \in Accumulators
<1>1. a.own \subseteq Caps /\ a.scopes \subseteq Scopes
  BY DEF Agents
<1>2. UNION {t.caps : t \in T} \subseteq Caps
  BY DEF Tools
<1>3. UNION {t.scopes : t \in T} \subseteq Scopes
  BY DEF Tools
<1> QED BY <1>1, <1>2, <1>3 DEF Authority, Accumulators

LEMMA AuthorityOfType ==
  ASSUME NEW g \in Graphs
  PROVE  AuthorityOf(g) \in [Names(g) -> Accumulators]
<1>1. ASSUME NEW n \in Names(g)
      PROVE  Authority(g[LastNamed(g, n)], g[LastNamed(g, n)].tools) \in Accumulators
  <2>1. g[LastNamed(g, n)] \in Agents
    BY NameType, AgentType
  <2>2. g[LastNamed(g, n)].tools \in SUBSET Tools
    BY <2>1 DEF Agents
  <2> QED BY <2>1, <2>2, AuthorityType
<1> QED BY <1>1 DEF AuthorityOf

LEMMA ChildrenOfType ==
  ASSUME NEW g \in Graphs
  PROVE  ChildrenOf(g) \in [Names(g) -> SUBSET (DOMAIN g)]
  BY DEF ChildrenOf, Kids

LEMMA InheritedType ==
  ASSUME NEW S \in SUBSET Scopes, NEW n \in Refs
  PROVE  Inherited(S, n) \in SUBSET Scopes
  BY DEF Inherited, Scopes

LEMMA AbsorbType ==
  ASSUME NEW acc \in Accumulators, NEW a \in Accumulators, NEW n \in Refs
  PROVE  Absorb(acc, a, n) \in Accumulators
<1>1. Inherited(a.scopes, n) \in SUBSET Scopes
  BY InheritedType DEF Accumulators
<1> QED BY <1>1 DEF Absorb, Accumulators

LEMMA NothingGatheredType == NothingGathered \in Accumulators
  BY VocabularyAssumption DEF NothingGathered, Accumulators

LEMMA DelegateToolType ==
  ASSUME NEW child \in Agents, NEW acc \in Accumulators
  PROVE  DelegateTool(child, acc) \in Tools
<1>1. child.guarded \in BOOLEAN
  BY DEF Agents
<1>2. acc.caps \in SUBSET Caps /\ acc.scopes \in SUBSET Scopes
  BY DEF Accumulators
<1> DEFINE approval == IF /\ PrivilegedTools(acc.tools) # {}
                          /\ \A t \in PrivilegedTools(acc.tools) : t.approval = "yes"
                       THEN "yes" ELSE "unset"
           managed == /\ OutgoingTools(acc.tools) # {}
                      /\ \A t \in OutgoingTools(acc.tools) : t.managed
<1>3. approval \in Approvals
  BY DEF Approvals
<1>4. managed \in BOOLEAN
  BY DEF OutgoingTools
<1>5. DelegateTool(child, acc) =
        [caps |-> acc.caps, scopes |-> acc.scopes, approval |-> approval,
         managed |-> managed, guarded |-> child.guarded]
  BY DEF DelegateTool
<1> HIDE DEF approval, managed
<1> QED BY <1>1, <1>2, <1>3, <1>4, <1>5 DEF Tools

-----------------------------------------------------------------------------
(* Reachability and what is gathered along the way.                        *)

LEMMA KidNamesType ==
  ASSUME NEW g \in Graphs, NEW kids \in [Names(g) -> SUBSET (DOMAIN g)],
         NEW n \in Names(g)
  PROVE  KidNames(g, kids, n) \subseteq Names(g)
  BY DEF KidNames, Names

\* The reachable names are themselves closed under delegation.
LEMMA ReachClosed ==
  ASSUME NEW g \in Graphs, NEW kids \in [Names(g) -> SUBSET (DOMAIN g)],
         NEW parent, NEW child \in Names(g)
  PROVE  /\ Reach(g, kids, parent, child) \subseteq Names(g)
         /\ ClosedUnder(g, kids, parent, child, Reach(g, kids, parent, child))
<1> DEFINE R == Reach(g, kids, parent, child)
<1>1. R \subseteq Names(g)
  BY DEF Reach
<1>2. {child} \ {parent} \subseteq R
  BY DEF Reach, ClosedUnder
<1>3. ASSUME NEW n \in R, NEW m \in KidNames(g, kids, n) \ {parent}
      PROVE  m \in R
  <2>1. m \in Names(g)
    BY <1>1, KidNamesType
  <2>2. ASSUME NEW S \in SUBSET Names(g), ClosedUnder(g, kids, parent, child, S)
        PROVE  m \in S
    <3>1. n \in S
      BY <2>2 DEF Reach
    <3> QED BY <2>2, <3>1 DEF ClosedUnder
  <2> QED BY <2>1, <2>2 DEF Reach
<1> HIDE DEF R
<1>4. ClosedUnder(g, kids, parent, child, R)
  BY <1>2, <1>3 DEF ClosedUnder
<1> QED BY <1>1, <1>4 DEF R

\* And they are the least such set.
LEMMA ReachLeast ==
  ASSUME NEW g, NEW kids, NEW parent, NEW child, NEW S \in SUBSET Names(g),
         ClosedUnder(g, kids, parent, child, S)
  PROVE  Reach(g, kids, parent, child) \subseteq S
  BY DEF Reach

\* What has been gathered, element by element.
LEMMA GatheredElements ==
  ASSUME NEW auth, NEW ns
  PROVE  /\ \A x : x \in Gathered(auth, ns).caps <=>
                     x = Delegate \/ \E m \in ns : x \in auth[m].caps
         /\ \A x : x \in Gathered(auth, ns).scopes <=>
                     \E m \in ns : x \in Inherited(auth[m].scopes, m)
         /\ \A x : x \in Gathered(auth, ns).tools <=>
                     \E m \in ns : x \in auth[m].tools
<1>1. \A x : x \in UNION {auth[m].caps : m \in ns} <=>
             \E m \in ns : x \in auth[m].caps
  BY Zenon
<1>2. \A x : x \in UNION {Inherited(auth[m].scopes, m) : m \in ns} <=>
             \E m \in ns : x \in Inherited(auth[m].scopes, m)
  BY Zenon
<1>3. \A x : x \in UNION {auth[m].tools : m \in ns} <=>
             \E m \in ns : x \in auth[m].tools
  BY Zenon
<1>4. /\ Gathered(auth, ns).caps = {Delegate} \cup UNION {auth[m].caps : m \in ns}
      /\ Gathered(auth, ns).scopes =
           UNION {Inherited(auth[m].scopes, m) : m \in ns}
      /\ Gathered(auth, ns).tools = UNION {auth[m].tools : m \in ns}
  BY DEF Gathered
<1> QED BY <1>1, <1>2, <1>3, <1>4

\* Two accumulators with the same fields are the same.
LEMMA GatheredFields ==
  ASSUME NEW auth, NEW ns, NEW C, NEW S, NEW T,
         C = Gathered(auth, ns).caps, S = Gathered(auth, ns).scopes,
         T = Gathered(auth, ns).tools
  PROVE  [caps |-> C, scopes |-> S, tools |-> T] = Gathered(auth, ns)
  BY DEF Gathered

\* Absorbing one more agent gathers the authority of one more agent.
LEMMA GatheredAbsorbs ==
  ASSUME NEW auth, NEW ns, NEW n
  PROVE  Absorb(Gathered(auth, ns), auth[n], n) = Gathered(auth, ns \cup {n})
<1> DEFINE G == Gathered(auth, ns)
           H == Gathered(auth, ns \cup {n})
<1>1. G.caps \cup auth[n].caps = H.caps
  BY GatheredElements
<1>2. G.scopes \cup Inherited(auth[n].scopes, n) = H.scopes
  BY GatheredElements
<1>3. G.tools \cup auth[n].tools = H.tools
  BY GatheredElements
<1>4. [caps |-> H.caps, scopes |-> H.scopes, tools |-> H.tools] = H
  BY GatheredFields
<1>5. Absorb(G, auth[n], n) = [caps   |-> G.caps \cup auth[n].caps,
                               scopes |-> G.scopes \cup Inherited(auth[n].scopes, n),
                               tools  |-> G.tools \cup auth[n].tools]
  BY DEF Absorb
<1> HIDE DEF G, H
<1>6. Absorb(G, auth[n], n) = H
  BY <1>1, <1>2, <1>3, <1>4, <1>5, Zenon
<1> QED BY <1>6 DEF G, H

LEMMA GatheredNothing ==
  ASSUME NEW auth
  PROVE  Gathered(auth, {}) = NothingGathered
<1>1. /\ Gathered(auth, {}).caps = {Delegate}
      /\ Gathered(auth, {}).scopes = {}
      /\ Gathered(auth, {}).tools = {}
  BY GatheredElements
<1> QED BY <1>1, GatheredFields DEF NothingGathered

-----------------------------------------------------------------------------
(* Type correctness.                                                       *)

\* Tools appended to an agent are tools.
LEMMA LiveToolsType ==
  ASSUME TypeOK, NEW i \in DOMAIN graph
  PROVE  LiveTools(i) \in SUBSET Tools
<1>1. graph[i].tools \in SUBSET Tools
  BY AgentType DEF TypeOK, Agents
<1>2. \A d \in delegated : d.tool \in Tools
  BY DEF TypeOK
<1> QED BY <1>1, <1>2 DEF LiveTools

\* The resolution step keeps the types.
LEMMA ResolveType == TypeOK /\ ResolveReferences => TypeOK'
<1> SUFFICES ASSUME TypeOK, ResolveReferences
             PROVE  TypeOK'
  OBVIOUS
<1>1. graph \in Graphs /\ graph' = graph
  BY DEF TypeOK, ResolveReferences
<1>2. children' \in [Names(graph) -> SUBSET (DOMAIN graph)]
  BY <1>1, ChildrenOfType DEF ResolveReferences
<1>3. unresolved' \in SUBSET (DOMAIN graph)
  BY DEF ResolveReferences, UnresolvedIn
<1>4. authority' \in [Names(graph) -> Accumulators]
  <2>1. ASSUME NEW n \in Names(graph)
        PROVE  Authority(graph[LastNamed(graph, n)], LiveTools(LastNamed(graph, n)))
                 \in Accumulators
    <3>1. LastNamed(graph, n) \in DOMAIN graph
      BY <1>1, NameType
    <3>2. graph[LastNamed(graph, n)] \in Agents
      BY <1>1, <3>1, AgentType
    <3> QED BY <3>1, <3>2, LiveToolsType, AuthorityType
  <2> QED BY <2>1 DEF ResolveReferences
<1>5. todo' \in SUBSET ((DOMAIN graph) \X (DOMAIN graph))
  BY DEF ResolveReferences, EdgesOf
<1> QED
  BY <1>1, <1>2, <1>3, <1>4, <1>5 DEF TypeOK, ResolveReferences

LEMMA StartEdgeType ==
  ASSUME TypeOK, NEW i \in DOMAIN graph, NEW e \in DOMAIN graph, StartEdge(i, e)
  PROVE  TypeOK'
<1>1. graph[i].name \in Names(graph) /\ graph[e].name \in Names(graph)
  BY DEF Names
<1> QED BY <1>1, NothingGatheredType DEF TypeOK, StartEdge

LEMMA SkipVisitedType ==
  ASSUME TypeOK, NEW n \in pending, SkipVisited(n)
  PROVE  TypeOK'
  BY DEF TypeOK, SkipVisited

LEMMA VisitType ==
  ASSUME TypeOK, NEW n \in pending, Visit(n)
  PROVE  TypeOK'
<1>1. n \in Names(graph) /\ graph \in Graphs
  BY DEF TypeOK
<1>2. KidNames(graph, children, n) \subseteq Names(graph)
  BY <1>1, KidNamesType DEF TypeOK
<1>3. authority[n] \in Accumulators /\ n \in Refs
  BY <1>1, NamesAreRefs DEF TypeOK
<1>4. gathered' \in Accumulators
  BY <1>3, AbsorbType DEF TypeOK, Visit
<1> QED BY <1>1, <1>2, <1>4 DEF TypeOK, Visit

LEMMA FinishEdgeType ==
  ASSUME TypeOK, FinishEdge
  PROVE  TypeOK'
<1>1. edge \in (DOMAIN graph) \X (DOMAIN graph)
  BY DEF TypeOK, FinishEdge
<1>2. graph[edge[2]] \in Agents
  BY <1>1, AgentType DEF TypeOK
<1>3. DelegateTool(graph[edge[2]], gathered) \in Tools
  BY <1>2, DelegateToolType DEF TypeOK
<1>4. \A d \in delegated' : d \in [parent : DOMAIN graph, child : DOMAIN graph,
                                   tool : Tools]
  BY <1>1, <1>3 DEF TypeOK, FinishEdge
<1> QED BY <1>4 DEF TypeOK, FinishEdge

\* Type correctness: every variable keeps its type, for every agent list.
THEOREM TypeCorrect == SafetySpec => []TypeOK
<1>1. Init => TypeOK
  <2> SUFFICES ASSUME Init PROVE TypeOK
    OBVIOUS
  <2>1. graph \in Graphs
    BY DEF Init
  <2> QED BY <2>1, NothingGatheredType DEF Init, TypeOK
<1>2. TypeOK /\ [Next]_vars => TypeOK'
  <2> SUFFICES ASSUME TypeOK, [Next]_vars PROVE TypeOK'
    OBVIOUS
  <2>1. CASE ResolveReferences
    BY <2>1, ResolveType
  <2>2. ASSUME NEW i \in DOMAIN graph, NEW e \in DOMAIN graph, StartEdge(i, e)
        PROVE  TypeOK'
    BY <2>2, StartEdgeType
  <2>3. ASSUME NEW n \in pending, SkipVisited(n)
        PROVE  TypeOK'
    BY <2>3, SkipVisitedType
  <2>4. ASSUME NEW n \in pending, Visit(n)
        PROVE  TypeOK'
    BY <2>4, VisitType
  <2>5. CASE FinishEdge
    BY <2>5, FinishEdgeType
  <2>6. CASE Return
    BY <2>6 DEF Return, TypeOK
  <2>7. CASE UNCHANGED vars
    BY <2>7 DEF vars, TypeOK
  <2> QED BY <2>1, <2>2, <2>3, <2>4, <2>5, <2>6, <2>7 DEF Next, Returned
<1> QED BY <1>1, <1>2, PTL DEF SafetySpec

-----------------------------------------------------------------------------
(* The inductive invariant.                                                *)

\* Before anything is resolved nothing has been done.
NotStarted ==
  phase = "resolve" => delegated = {} /\ edge = NoEdge

\* What was recorded is what the agents had before propagation.
Recorded ==
  phase # "resolve" => /\ children = ChildrenOf(graph)
                       /\ authority = AuthorityOf(graph)
                       /\ unresolved = UnresolvedIn(graph)

\* The tools appended are those due, for edges no longer to be served.
Delivered ==
  /\ todo \subseteq EdgesOf(graph, children)
  /\ \A d \in delegated :
       /\ <<d.parent, d.child>> \in EdgesOf(graph, children)
       /\ <<d.parent, d.child>> \notin todo
       /\ d.tool = ReachableTool(graph, children, authority, d.parent, d.child)

\* Every edge is still to be served or has been.
NoEdgeDropped ==
  phase # "resolve" =>
    \A p \in EdgesOf(graph, children) :
      p \in todo \/ \E d \in delegated : d.parent = p[1] /\ d.child = p[2]

\* Only reachable names are visited or pending; those visited but the parent
\* have been absorbed, and their children are visited or pending.
Traversing ==
  edge # NoEdge =>
    LET parent == graph[edge[1]].name
        child  == graph[edge[2]].name
    IN  /\ phase = "traverse"
        /\ edge \in todo
        /\ parent \in visited
        /\ (visited \cup pending) \ {parent} \subseteq
             Reach(graph, children, parent, child)
        /\ child \in visited \cup pending
        /\ \A n \in visited \ {parent} :
             KidNames(graph, children, n) \subseteq visited \cup pending
        /\ gathered = Gathered(authority, visited \ {parent})

Finished == phase = "done" => todo = {}

IInv == /\ TypeOK
        /\ NotStarted
        /\ Recorded
        /\ Delivered
        /\ NoEdgeDropped
        /\ Traversing
        /\ Finished

LEMMA InitInv == Init => IInv
<1> SUFFICES ASSUME Init PROVE IInv
  OBVIOUS
<1>1. TypeOK
  <2>1. graph \in Graphs
    BY DEF Init
  <2> QED BY <2>1, NothingGatheredType DEF Init, TypeOK
<1> QED
  BY <1>1 DEF Init, IInv, NotStarted, Recorded, Delivered, NoEdgeDropped,
              Traversing, Finished

\* No tool has been added yet when the authority is recorded.
LEMMA ResolveInv ==
  ASSUME IInv, ResolveReferences
  PROVE  IInv'
<1>1. TypeOK' /\ graph' = graph /\ delegated' = {} /\ edge' = NoEdge
  BY ResolveType DEF IInv, NotStarted, ResolveReferences
<1>2. \A i \in DOMAIN graph : LiveTools(i) = graph[i].tools
  BY DEF IInv, NotStarted, ResolveReferences, LiveTools
<1>3. authority' = AuthorityOf(graph)
  <2>1. \A n \in Names(graph) : LastNamed(graph, n) \in DOMAIN graph
    BY NameType DEF IInv, TypeOK
  <2> QED BY <1>2, <2>1 DEF ResolveReferences, AuthorityOf
<1> QED
  BY <1>1, <1>3 DEF ResolveReferences, IInv, NotStarted, Recorded, Delivered,
                    NoEdgeDropped, Traversing, Finished

LEMMA StartEdgeInv ==
  ASSUME IInv, NEW i \in DOMAIN graph, NEW e \in DOMAIN graph, StartEdge(i, e)
  PROVE  IInv'
<1> DEFINE parent == graph[i].name
           child  == graph[e].name
           R      == Reach(graph, children, parent, child)
<1>1. TypeOK'
  BY StartEdgeType DEF IInv
<1>2. /\ edge' = <<i, e>> /\ edge' \in todo' /\ visited' = {parent}
      /\ pending' = {child} /\ phase' = "traverse"
      /\ UNCHANGED <<phase, graph, children, unresolved, authority, todo, delegated>>
  BY DEF StartEdge
<1>3. child \in Names(graph)
  BY DEF Names
<1>4. {child} \ {parent} \subseteq R
  BY <1>3, ReachClosed DEF IInv, TypeOK, ClosedUnder
<1>5. gathered' = Gathered(authority, {})
  BY GatheredNothing DEF StartEdge
<1>6. Traversing'
  <2>1. edge'[1] = i /\ edge'[2] = e
    BY <1>2
  <2>2. visited' \ {parent} = {}
    BY <1>2
  <2>3. (visited' \cup pending') \ {parent} \subseteq R
    BY <1>2, <1>4
  <2> HIDE DEF R
  <2> QED BY <1>2, <1>5, <2>1, <2>2, <2>3 DEF Traversing, R
<1>7. NotStarted' /\ Recorded' /\ Delivered' /\ NoEdgeDropped' /\ Finished'
  BY <1>2 DEF IInv, NotStarted, Recorded, Delivered, NoEdgeDropped, Finished
<1> QED BY <1>1, <1>6, <1>7 DEF IInv

LEMMA SkipVisitedInv ==
  ASSUME IInv, NEW n \in pending, SkipVisited(n)
  PROVE  IInv'
<1>1. TypeOK'
  BY SkipVisitedType DEF IInv
<1>2. visited' \cup pending' = visited \cup pending
  BY DEF SkipVisited
<1>3. UNCHANGED <<phase, graph, children, unresolved, authority, todo, edge, visited,
                  gathered, delegated>>
  BY DEF SkipVisited
<1>4. Traversing'
  BY <1>2, <1>3 DEF IInv, Traversing
<1>5. NotStarted' /\ Recorded' /\ Delivered' /\ NoEdgeDropped' /\ Finished'
  BY <1>3 DEF IInv, NotStarted, Recorded, Delivered, NoEdgeDropped, Finished
<1> QED BY <1>1, <1>4, <1>5 DEF IInv

LEMMA VisitInv ==
  ASSUME IInv, NEW n \in pending, Visit(n)
  PROVE  IInv'
<1> DEFINE parent == graph[edge[1]].name
           child  == graph[edge[2]].name
           R      == Reach(graph, children, parent, child)
<1>1. TypeOK'
  BY VisitType DEF IInv
<1>2. /\ edge # NoEdge /\ n \notin visited /\ n \in pending
      /\ visited' = visited \cup {n}
      /\ pending' = (pending \ {n}) \cup KidNames(graph, children, n)
      /\ gathered' = Absorb(gathered, authority[n], n)
      /\ UNCHANGED <<phase, graph, children, unresolved, authority, todo, edge, delegated>>
  BY DEF Visit
<1>3. /\ parent \in visited /\ child \in visited \cup pending
      /\ edge \in todo /\ phase = "traverse"
      /\ (visited \cup pending) \ {parent} \subseteq R
      /\ \A m \in visited \ {parent} :
           KidNames(graph, children, m) \subseteq visited \cup pending
      /\ gathered = Gathered(authority, visited \ {parent})
  BY <1>2 DEF IInv, Traversing
<1>4. n # parent /\ n \in R
  BY <1>2, <1>3
<1>5. KidNames(graph, children, n) \ {parent} \subseteq R
  <2>1. edge[2] \in DOMAIN graph
    BY <1>2 DEF IInv, TypeOK
  <2>2. child \in Names(graph)
    BY <2>1 DEF Names
  <2>3. ClosedUnder(graph, children, parent, child, R)
    BY <2>2, ReachClosed DEF IInv, TypeOK
  <2> HIDE DEF R, parent
  <2> QED BY <1>4, <2>3 DEF ClosedUnder
<1>6. visited' \ {parent} = (visited \ {parent}) \cup {n}
  BY <1>2, <1>4
<1>7. gathered' = Gathered(authority, visited' \ {parent})
  <2> HIDE DEF parent
  <2> QED BY <1>2, <1>3, <1>6, GatheredAbsorbs
<1>8. \A m \in visited' \ {parent} :
        KidNames(graph, children, m) \subseteq visited' \cup pending'
  <2> HIDE DEF parent
  <2> QED BY <1>2, <1>3, <1>6
<1>9. (visited' \cup pending') \ {parent} \subseteq R
  <2> HIDE DEF parent, R
  <2> QED BY <1>2, <1>3, <1>4, <1>5
<1>10. Traversing'
  <2>1. parent' = parent /\ child' = child
    BY <1>2
  <2>2. child \in visited' \cup pending'
    BY <1>2, <1>3
  <2> QED BY <1>2, <1>3, <1>7, <1>8, <1>9, <2>1, <2>2 DEF Traversing
<1>11. NotStarted' /\ Recorded' /\ Delivered' /\ NoEdgeDropped' /\ Finished'
  BY <1>2 DEF IInv, NotStarted, Recorded, Delivered, NoEdgeDropped, Finished
<1> QED BY <1>1, <1>10, <1>11 DEF IInv

\* When nothing is pending, what was visited is what can be reached.
LEMMA GatheredAll ==
  ASSUME IInv, FinishEdge
  PROVE  DelegateTool(graph[edge[2]], gathered) =
           ReachableTool(graph, children, authority, edge[1], edge[2])
<1> DEFINE parent == graph[edge[1]].name
           child  == graph[edge[2]].name
           V      == visited \ {parent}
           R      == Reach(graph, children, parent, child)
<1>1. edge # NoEdge /\ pending = {}
  BY DEF FinishEdge
<1>2. /\ V \subseteq R
      /\ child \in visited
      /\ \A n \in V : KidNames(graph, children, n) \subseteq visited
      /\ gathered = Gathered(authority, V)
  BY <1>1 DEF IInv, Traversing
<1>3. V \in SUBSET Names(graph)
  BY DEF IInv, TypeOK
<1>4. ClosedUnder(graph, children, parent, child, V)
  BY <1>2 DEF ClosedUnder
<1>5. R \subseteq V
  <2> HIDE DEF V, parent, child
  <2> QED BY <1>3, <1>4, ReachLeast DEF R
<1>6. V = R
  <2> HIDE DEF V, R
  <2> QED BY <1>2, <1>5
<1> QED BY <1>2, <1>6 DEF ReachableTool

LEMMA FinishEdgeInv ==
  ASSUME IInv, FinishEdge
  PROVE  IInv'
<1>1. TypeOK'
  BY FinishEdgeType DEF IInv
<1>2. PICK i, e \in DOMAIN graph : edge = <<i, e>>
  BY DEF IInv, TypeOK, FinishEdge
<1>3. /\ edge \in todo /\ edge[1] = i /\ edge[2] = e /\ edge' = NoEdge
      /\ phase = "traverse"
  BY <1>2 DEF IInv, Traversing, FinishEdge
<1> DEFINE d0 == [parent |-> i, child |-> e,
                  tool |-> ReachableTool(graph, children, authority, i, e)]
<1>4. delegated' = delegated \cup {d0} /\ todo' = todo \ {<<i, e>>}
  BY <1>2, <1>3, GatheredAll DEF FinishEdge
<1>5. UNCHANGED <<phase, graph, children, unresolved, authority>>
  BY DEF FinishEdge
<1>6. d0.parent = i /\ d0.child = e
      /\ d0.tool = ReachableTool(graph, children, authority, i, e)
  OBVIOUS
<1>7. <<i, e>> \in EdgesOf(graph, children)
  BY <1>2, <1>3 DEF IInv, Delivered
<1>8. Delivered'
  <2> HIDE DEF d0
  <2>1. todo' \subseteq EdgesOf(graph', children')
    BY <1>4, <1>5 DEF IInv, Delivered
  <2>2. ASSUME NEW d \in delegated'
        PROVE  /\ <<d.parent, d.child>> \in EdgesOf(graph, children)
               /\ <<d.parent, d.child>> \notin todo'
               /\ d.tool = ReachableTool(graph, children, authority, d.parent, d.child)
    <3>1. CASE d \in delegated
      BY <3>1, <1>4 DEF IInv, Delivered
    <3>2. CASE d = d0
      BY <3>2, <1>4, <1>6, <1>7
    <3> QED BY <1>4, <3>1, <3>2
  <2> QED BY <1>5, <2>1, <2>2 DEF Delivered
<1>9. NoEdgeDropped'
  <2> HIDE DEF d0
  <2>1. ASSUME NEW p \in EdgesOf(graph, children), p \notin todo'
        PROVE  \E d \in delegated' : d.parent = p[1] /\ d.child = p[2]
    <3>1. CASE p = <<i, e>>
      BY <3>1, <1>4, <1>6
    <3>2. CASE p \notin todo
      BY <3>2, <1>3, <1>4, <2>1 DEF IInv, NoEdgeDropped
    <3> QED BY <1>4, <2>1, <3>1, <3>2
  <2> QED BY <1>5, <2>1 DEF NoEdgeDropped
<1>10. NotStarted' /\ Recorded' /\ Finished' /\ Traversing'
  BY <1>3, <1>5 DEF IInv, NotStarted, Recorded, Finished, Traversing
<1> QED BY <1>1, <1>8, <1>9, <1>10 DEF IInv

LEMMA ReturnInv ==
  ASSUME IInv, Return
  PROVE  IInv'
<1>1. todo' = {} /\ edge' = NoEdge /\ phase' = "done" /\ phase = "traverse"
      /\ UNCHANGED <<graph, children, unresolved, authority, todo, edge, pending,
                     visited, gathered, delegated>>
  BY DEF Return
<1>2. TypeOK'
  BY <1>1 DEF IInv, TypeOK
<1> QED
  BY <1>1, <1>2 DEF IInv, NotStarted, Recorded, Delivered, NoEdgeDropped,
                    Traversing, Finished

\* Every step of the traversal keeps the invariant.
LEMMA StepInv == IInv /\ [Next]_vars => IInv'
<1> SUFFICES ASSUME IInv, [Next]_vars PROVE IInv'
  OBVIOUS
<1>1. CASE ResolveReferences
  BY <1>1, ResolveInv
<1>2. ASSUME NEW i \in DOMAIN graph, NEW e \in DOMAIN graph, StartEdge(i, e)
      PROVE  IInv'
  BY <1>2, StartEdgeInv
<1>3. ASSUME NEW n \in pending, SkipVisited(n)
      PROVE  IInv'
  BY <1>3, SkipVisitedInv
<1>4. ASSUME NEW n \in pending, Visit(n)
      PROVE  IInv'
  BY <1>4, VisitInv
<1>5. CASE FinishEdge
  BY <1>5, FinishEdgeInv
<1>6. CASE Return
  BY <1>6, ReturnInv
<1>7. CASE UNCHANGED vars
  <2>1. TypeOK'
    BY <1>7 DEF vars, IInv, TypeOK
  <2> QED
    BY <1>7, <2>1 DEF vars, IInv, NotStarted, Recorded, Delivered,
                      NoEdgeDropped, Traversing, Finished
<1> QED BY <1>1, <1>2, <1>3, <1>4, <1>5, <1>6, <1>7 DEF Next, Returned

\* The inductive invariant holds throughout, for every agent list.
THEOREM Invariant == SafetySpec => []IInv
  BY InitInv, StepInv, PTL DEF SafetySpec

-----------------------------------------------------------------------------
(* A delegated tool never counts as approved without cause.                *)

LEMMA ApprovedFollows == IInv => ApprovalNotOverstated
<1> SUFFICES ASSUME IInv,
                    NEW d \in delegated, d.tool.approval = "yes",
                    NEW n \in Reach(graph, children, graph[d.parent].name,
                                    graph[d.child].name),
                    NEW t \in PrivilegedTools(graph[LastNamed(graph, n)].tools)
             PROVE  t.approval = "yes"
  BY DEF ApprovalNotOverstated
<1> DEFINE R == Reach(graph, children, graph[d.parent].name, graph[d.child].name)
           G == Gathered(authority, R)
<1>1. phase # "resolve"
  BY DEF IInv, NotStarted
<1>2. d.tool = DelegateTool(graph[d.child], G)
  BY DEF IInv, Delivered, ReachableTool
<1>3. \A u \in PrivilegedTools(G.tools) : u.approval = "yes"
  <2> HIDE DEF G
  <2> QED BY <1>2 DEF DelegateTool
<1>4. n \in Names(graph)
  BY DEF Reach
<1>5. t \in authority[n].tools
  BY <1>1, <1>4 DEF IInv, Recorded, AuthorityOf, Authority, PrivilegedTools
<1>6. t \in G.tools
  BY <1>5, GatheredElements
<1>7. t \in PrivilegedTools(G.tools)
  <2> HIDE DEF G
  <2> QED BY <1>6 DEF PrivilegedTools
<1> QED BY <1>3, <1>7

(***************************************************************************)
(* For every agent list: a delegated tool counts as approved only if every *)
(* privileged tool reachable through the child requires approval           *)
(* (delegated_approval in _propagate_adk_delegation).                      *)
(***************************************************************************)
THEOREM ApprovalSound == SafetySpec => []ApprovalNotOverstated
  BY Invariant, ApprovedFollows, PTL

-----------------------------------------------------------------------------
(* No reference disappears.                                                *)

LEMMA ByAliasType ==
  ASSUME NEW g \in Graphs, NEW r
  PROVE  ByAlias(g, r) \in {NoAgent} \cup (DOMAIN g)
<1>1. CASE Named(g, r) # {}
  BY <1>1, LastNamedType DEF ByAlias
<1>2. CASE Named(g, r) = {} /\ Aliased(g, r) # {}
  <2>1. Aliased(g, r) \in SUBSET Nat
    BY GraphsAssumption DEF Aliased
  <2>2. \E i \in Aliased(g, r) : \A j \in Aliased(g, r) : i <= j
    BY <1>2, <2>1, LeastExists
  <2> QED BY <1>2, <2>2 DEF ByAlias, Aliased
<1>3. CASE Named(g, r) = {} /\ Aliased(g, r) = {}
  BY <1>3 DEF ByAlias
<1> QED BY <1>1, <1>2, <1>3

LEMMA ResolveRange ==
  ASSUME NEW g \in Graphs, NEW r
  PROVE  Resolve(g, r) \in {NoAgent} \cup (DOMAIN g)
  BY ByAliasType DEF Resolve

\* With unique names, an agent a reference resolves to is among the children.
LEMMA KidsComplete ==
  ASSUME NEW g \in Graphs, UniqueNames(g), NEW i \in DOMAIN g,
         NEW k \in DOMAIN g[i].delegates,
         Resolve(g, g[i].delegates[k]) \notin {NoAgent, i}
  PROVE  Resolve(g, g[i].delegates[k]) \in Kids(g, i)
<1> DEFINE e == Resolve(g, g[i].delegates[k])
           K == {m \in DOMAIN g[i].delegates : ChildAt(g, i, m) = e}
<1>1. e \in DOMAIN g
  BY ResolveRange
<1>2. g[i].delegates \in Seq(Refs)
  BY AgentType DEF Agents
<1>3. k \in K /\ K \in SUBSET Nat
  BY <1>2 DEF ChildAt
<1>4. PICK m \in K : \A j \in K : m <= j
  <2> HIDE DEF K
  <2> QED BY <1>3, LeastExists
<1>5. ASSUME NEW j \in 1..(m - 1), ChildAt(g, i, j) # NoAgent
      PROVE  g[ChildAt(g, i, j)].name # g[e].name
  <2>1. j \in DOMAIN g[i].delegates /\ j < m
    BY <1>2, <1>4
  <2>2. j \notin K
    <3>1. j \in Nat /\ m \in Nat /\ ~(m <= j)
      BY <1>2, <1>4
    <3> HIDE DEF K
    <3> QED BY <1>4, <3>1
  <2>3. ChildAt(g, i, j) \in DOMAIN g
    <3>1. Resolve(g, g[i].delegates[j]) \in {NoAgent} \cup (DOMAIN g)
      BY ResolveRange
    <3> HIDE DEF e, K
    <3> QED BY <1>5, <3>1 DEF ChildAt
  <2>4. ChildAt(g, i, j) # e
    BY <2>1, <2>2
  <2> HIDE DEF e, K
  <2> QED BY <1>1, <2>3, <2>4 DEF UniqueNames
<1>6. m \in DOMAIN g[i].delegates /\ ChildAt(g, i, m) = e
  BY <1>4
<1> HIDE DEF e, K
<1>7. e \in Kids(g, i)
  BY <1>1, <1>5, <1>6 DEF Kids
<1> QED BY <1>7 DEF e

LEMMA ReferencesKept == IInv => NoReferenceLost
<1> SUFFICES ASSUME IInv, phase = "done", UniqueNames(graph),
                    NEW i \in DOMAIN graph, NEW k \in DOMAIN graph[i].delegates,
                    Resolve(graph, graph[i].delegates[k]) # i
             PROVE  LET e == Resolve(graph, graph[i].delegates[k])
                    IN  \/ e = NoAgent /\ i \in unresolved
                        \/ \E d \in delegated : d.parent = i /\ d.child = e
  BY DEF NoReferenceLost
<1> DEFINE e == Resolve(graph, graph[i].delegates[k])
<1>1. graph \in Graphs /\ todo = {}
  BY DEF IInv, TypeOK, Finished
<1>2. CASE e = NoAgent
  <2>1. i \in UnresolvedIn(graph)
    BY <1>2 DEF UnresolvedIn
  <2> QED BY <1>2, <2>1 DEF IInv, Recorded
<1>3. CASE e # NoAgent
  <2>1. e \in Kids(graph, i) /\ e \in DOMAIN graph
    BY <1>1, <1>3, KidsComplete, ResolveRange
  <2>2. LastNamed(graph, graph[i].name) = i
    <3>1. graph[i].name \in Names(graph)
      BY DEF Names
    <3>2. LastNamed(graph, graph[i].name) \in DOMAIN graph
          /\ graph[LastNamed(graph, graph[i].name)].name = graph[i].name
      BY <1>1, <3>1, NameType
    <3> QED BY <3>2 DEF UniqueNames
  <2>3. children[graph[i].name] = Kids(graph, i)
    <3>1. children = [n \in Names(graph) |-> Kids(graph, LastNamed(graph, n))]
      BY DEF IInv, Recorded, ChildrenOf
    <3>2. graph[i].name \in Names(graph)
      BY DEF Names
    <3> QED BY <2>2, <3>1, <3>2
  <2>4. <<i, e>> \in EdgesOf(graph, children)
    BY <2>1, <2>3 DEF EdgesOf
  <2>5. \E d \in delegated : d.parent = i /\ d.child = e
    BY <1>1, <2>4 DEF IInv, NoEdgeDropped
  <2> QED BY <2>5
<1> QED BY <1>2, <1>3

(***************************************************************************)
(* For every agent list with unique names: each delegates_to reference is  *)
(* reported as unresolved, refers to the agent itself, or has a synthetic  *)
(* tool when _propagate_adk_delegation returns.                            *)
(***************************************************************************)
THEOREM ReferencesAccountedFor == SafetySpec => []NoReferenceLost
  BY Invariant, ReferencesKept, PTL

-----------------------------------------------------------------------------
(* The traversal implements DelegatedAuthority.  The operators of the      *)
(* instance are those of this module.                                      *)

LEMMA PromisedResolution ==
  \A g, ref : Promise!Resolve(g, ref) = Resolve(g, ref)
  BY DEF Promise!Resolve, Resolve, Promise!ByAlias, ByAlias, Promise!LastNamed, LastNamed,
         Promise!Named, Named, Promise!Aliased, Aliased, Promise!NoAgent, NoAgent,
         Promise!Names, Names

LEMMA PromisedChild ==
  \A g, i, k : Promise!ChildAt(g, i, k) = ChildAt(g, i, k)
  BY PromisedResolution DEF Promise!ChildAt, ChildAt, Promise!NoAgent, NoAgent

LEMMA PromisedKids ==
  \A g, i : Promise!Kids(g, i) = Kids(g, i)
  BY PromisedChild DEF Promise!Kids, Kids, Promise!NoAgent, NoAgent

LEMMA SameChildren == \A g : Promise!ChildrenOf(g) = ChildrenOf(g)
  BY PromisedKids DEF Promise!ChildrenOf, ChildrenOf, Promise!Names, Names,
         Promise!LastNamed, LastNamed, Promise!Named, Named

LEMMA SameAuthority == \A g : Promise!AuthorityOf(g) = AuthorityOf(g)
  BY DEF Promise!AuthorityOf, AuthorityOf, Promise!Names, Names,
         Promise!LastNamed, LastNamed, Promise!Named, Named, Promise!Authority,
         Authority

LEMMA SameEdges == \A g, kids : Promise!EdgesOf(g, kids) = EdgesOf(g, kids)
  BY DEF Promise!EdgesOf, EdgesOf

LEMMA SameReach ==
  \A g, kids, p, c : Promise!Reach(g, kids, p, c) = Reach(g, kids, p, c)
  BY DEF Promise!Reach, Reach, Promise!Names, Names, Promise!ClosedUnder,
         ClosedUnder, Promise!KidNames, KidNames

LEMMA SameGathered == \A auth, ns : Promise!Gathered(auth, ns) = Gathered(auth, ns)
  BY DEF Promise!Gathered, Gathered, Promise!Inherited, Inherited

LEMMA SameTool ==
  \A child, acc : Promise!DelegateTool(child, acc) = DelegateTool(child, acc)
  BY DEF Promise!DelegateTool, DelegateTool, Promise!PrivilegedTools,
         PrivilegedTools, Promise!OutgoingTools, OutgoingTools

LEMMA SameReachableTool ==
  \A g, kids, auth, i, e :
    Promise!ReachableTool(g, kids, auth, i, e) = ReachableTool(g, kids, auth, i, e)
  BY SameReach, SameGathered, SameTool DEF Promise!ReachableTool, ReachableTool

LEMMA RefinesInit == Init => Promise!Init
  BY SameChildren, SameAuthority DEF Init, Promise!Init

\* Serving an edge grants it; nothing else is seen by the abstract system.
LEMMA RefinesStep == IInv /\ [Next]_vars => [Promise!Next]_(Promise!vars)
<1> SUFFICES ASSUME IInv, [Next]_vars
             PROVE  Promise!Next \/ UNCHANGED Promise!vars
  OBVIOUS
<1>1. CASE ResolveReferences
  <2>1. /\ phase = "resolve" /\ phase' # "resolve"
        /\ graph' = graph /\ delegated' = delegated
    BY <1>1 DEF ResolveReferences
  <2>2. children' = ChildrenOf(graph') /\ authority' = AuthorityOf(graph')
    BY <1>1, <2>1, ResolveInv DEF IInv, Recorded
  <2> QED BY <2>1, <2>2, SameChildren, SameAuthority DEF Promise!vars
<1>2. CASE /\ UNCHANGED <<graph, children, authority, delegated>>
           /\ phase' = "resolve" <=> phase = "resolve"
  BY <1>2 DEF Promise!vars
<1>3. CASE FinishEdge
  <2>1. PICK i, e \in DOMAIN graph : edge = <<i, e>>
    BY <1>3 DEF IInv, TypeOK, FinishEdge
  <2>2. edge[1] = i /\ edge[2] = e
    BY <2>1
  <2>3. phase = "traverse" /\ edge \in todo
    BY <1>3 DEF IInv, Traversing, FinishEdge
  <2>4. <<i, e>> \in EdgesOf(graph, children)
    BY <2>1, <2>3 DEF IInv, Delivered
  <2>5. \A d \in delegated : <<d.parent, d.child>> # <<i, e>>
    BY <2>1, <2>3 DEF IInv, Delivered
  <2>6. delegated' = delegated \cup
          {[parent |-> i, child |-> e,
            tool |-> ReachableTool(graph, children, authority, i, e)]}
    BY <1>3, <2>2, GatheredAll DEF FinishEdge
  <2>7. UNCHANGED <<phase, graph, children, authority>>
    BY <1>3 DEF FinishEdge
  <2>8. Promise!Grant(i, e)
    BY <2>3, <2>4, <2>5, <2>6, <2>7, SameEdges, SameReachableTool DEF Promise!Grant
  <2> QED BY <2>8 DEF Promise!Next
<1>4. ASSUME NEW i \in DOMAIN graph, NEW e \in DOMAIN graph, StartEdge(i, e)
      PROVE  /\ UNCHANGED <<graph, children, authority, delegated>>
             /\ phase' = "resolve" <=> phase = "resolve"
  BY <1>4 DEF StartEdge
<1>5. ASSUME NEW n \in pending, SkipVisited(n) \/ Visit(n)
      PROVE  /\ UNCHANGED <<graph, children, authority, delegated>>
             /\ phase' = "resolve" <=> phase = "resolve"
  BY <1>5 DEF SkipVisited, Visit
<1>6. CASE Return
  BY <1>6, <1>2 DEF Return
<1>7. CASE UNCHANGED vars
  BY <1>7, <1>2 DEF vars
<1> QED BY <1>1, <1>2, <1>3, <1>4, <1>5, <1>6, <1>7 DEF Next, Returned

(***************************************************************************)
(* For every agent list: propagation gives each resolved edge exactly one  *)
(* tool, with exactly the authority of the agents reachable through the    *)
(* child, however the work list is served and whatever has been added to   *)
(* the agents' tools meanwhile (_propagate_adk_delegation).                *)
(***************************************************************************)
THEOREM Refinement == SafetySpec => ImplementsPromise
<1>1. Init => Promise!Init
  BY RefinesInit
<1>2. IInv /\ [Next]_vars => [Promise!Next]_(Promise!vars)
  BY RefinesStep
<1> QED
  BY <1>1, <1>2, Invariant, PTL DEF SafetySpec, ImplementsPromise, Promise!SafetySpec

-----------------------------------------------------------------------------
(***************************************************************************)
(* Scan order.  List h has the agents of list g in another order: at i, it *)
(* has the agent that g has at p[i].  No two agents share a name, and      *)
(* references are definite.                                                *)
(***************************************************************************)
HaveLists(g) == \A i \in DOMAIN g : \E n \in Nat : DOMAIN g[i].delegates = 1..n

Relisted(h, p, g) ==
  /\ p \in [DOMAIN g -> DOMAIN g]
  /\ \A i, j \in DOMAIN g : p[i] = p[j] => i = j
  /\ \A e \in DOMAIN g : \E i \in DOMAIN g : p[i] = e
  /\ DOMAIN g \subseteq Nat /\ NoAgent \notin DOMAIN g
  /\ h = [i \in DOMAIN g |-> g[p[i]]]
  /\ UniqueNames(g) /\ DefiniteReferences(g) /\ HaveLists(g)

\* Agent a of h, if it is one, is agent b of g.
Counterpart(p, g, a, b) == (a = NoAgent /\ b = NoAgent) \/ (a \in DOMAIN g /\ b = p[a])

\* An order leaves no position of a list out.
LEMMA OrdersOnto ==
  ASSUME NEW g \in Graphs, NEW p \in Orders(g), NEW e \in DOMAIN g
  PROVE  \E i \in DOMAIN g : p[i] = e
<1>1. PICK n \in Nat : DOMAIN g = 1..n
  BY GraphsAssumption
<1>2. PICK D : D = DOMAIN g
  OBVIOUS
<1>3. IsFiniteSet(D) /\ Cardinality(D) \in Nat
  BY <1>1, <1>2, FS_Interval, FS_CardinalityType
<1>4. IsFiniteSet(D \ {e}) /\ Cardinality(D \ {e}) < Cardinality(D)
  <2>1. e \in D
    BY <1>2
  <2>2. /\ IsFiniteSet(D \ {e})
        /\ Cardinality(D \ {e}) = IF e \in D THEN Cardinality(D) - 1 ELSE Cardinality(D)
    BY <1>3, FS_RemoveElement, Zenon
  <2> QED BY <1>3, <2>1, <2>2
<1>5. SUFFICES ASSUME \A i \in D : p[i] # e
               PROVE  FALSE
  BY <1>2
<1>6. p \in [D -> D \ {e}] /\ \A i, j \in D : p[i] = p[j] => i = j
  BY <1>2, <1>5 DEF Orders
<1>7. \E i, j \in D : i # j /\ p[i] = p[j]
  BY <1>3, <1>4, <1>6, FS_PigeonHole
<1> QED BY <1>6, <1>7

LEMMA AnyOrderRelists ==
  ASSUME NEW g \in Graphs, NEW p \in Orders(g), UniqueNames(g), DefiniteReferences(g)
  PROVE  Relisted([i \in DOMAIN g |-> g[p[i]]], p, g)
<1>1. DOMAIN g \subseteq Nat /\ NoAgent \notin DOMAIN g
  <2>1. PICK n \in Nat : DOMAIN g = 1..n
    BY GraphsAssumption
  <2> QED BY <2>1 DEF NoAgent
<1>2. p \in [DOMAIN g -> DOMAIN g] /\ \A i, j \in DOMAIN g : p[i] = p[j] => i = j
  BY DEF Orders
<1>3. \A e \in DOMAIN g : \E i \in DOMAIN g : p[i] = e
  BY OrdersOnto
<1>4. HaveLists(g)
  <2> SUFFICES ASSUME NEW i \in DOMAIN g
               PROVE  \E n \in Nat : DOMAIN g[i].delegates = 1..n
    BY DEF HaveLists
  <2>1. g \in Seq(Agents)
    BY GraphsAssumption
  <2>2. g[i] \in Agents
    BY <2>1
  <2>3. g[i].delegates \in Seq(Refs)
    BY <2>2 DEF Agents
  <2> QED BY <2>3
<1> QED BY <1>1, <1>2, <1>3, <1>4 DEF Relisted

LEMMA SameAgents ==
  ASSUME NEW h, NEW p, NEW g, Relisted(h, p, g)
  PROVE  /\ DOMAIN h = DOMAIN g
         /\ \A i \in DOMAIN g : p[i] \in DOMAIN g /\ h[i] = g[p[i]]
         /\ Names(h) = Names(g)
<1>1. DOMAIN h = DOMAIN g /\ \A i \in DOMAIN g : p[i] \in DOMAIN g /\ h[i] = g[p[i]]
  BY DEF Relisted
<1>2. \A e \in DOMAIN g : \E i \in DOMAIN g : p[i] = e
  BY DEF Relisted
<1>3. ASSUME NEW n
      PROVE  n \in Names(h) <=> n \in Names(g)
  <2>1. n \in Names(h) <=> \E i \in DOMAIN g : n = g[p[i]].name
    BY <1>1 DEF Names
  <2>2. n \in Names(g) <=> \E e \in DOMAIN g : n = g[e].name
    BY DEF Names
  <2> QED BY <1>1, <1>2, <2>1, <2>2
<1> QED BY <1>1, <1>3

\* The greatest and the least of one number is that number.
LEMMA OnlyOne ==
  ASSUME NEW S, NEW i \in Nat, S = {i}
  PROVE  /\ (CHOOSE k \in S : \A j \in S : j <= k) = i
         /\ (CHOOSE k \in S : \A j \in S : k <= j) = i
  OBVIOUS

\* Where the choice is among one agent at most, it does not depend on the order.
LEMMA SameNamed ==
  ASSUME NEW h, NEW p, NEW g, Relisted(h, p, g), NEW r
  PROVE  /\ Named(h, r) = {} <=> Named(g, r) = {}
         /\ Named(h, r) # {} => /\ LastNamed(h, r) \in DOMAIN g
                                /\ LastNamed(g, r) = p[LastNamed(h, r)]
                                /\ h[LastNamed(h, r)].name = r
<1>1. \A i \in DOMAIN g : i \in Named(h, r) <=> p[i] \in Named(g, r)
  BY SameAgents DEF Named
<1>2. \A e \in DOMAIN g : \E i \in DOMAIN g : p[i] = e
  BY DEF Relisted
<1>3. Named(h, r) \subseteq DOMAIN g /\ Named(g, r) \subseteq DOMAIN g
  BY SameAgents DEF Named
<1>4. Named(h, r) = {} <=> Named(g, r) = {}
  BY <1>1, <1>2, <1>3, SameAgents
<1>5. ASSUME Named(h, r) # {}
      PROVE  /\ LastNamed(h, r) \in DOMAIN g
             /\ LastNamed(g, r) = p[LastNamed(h, r)]
             /\ h[LastNamed(h, r)].name = r
  <2>1. PICK i \in Named(h, r) : TRUE
    BY <1>5
  <2>2. i \in DOMAIN g /\ p[i] \in Named(g, r) /\ h[i].name = r
    BY <1>1, <1>3, <2>1 DEF Named
  <2>3. Named(g, r) = {p[i]}
    BY <2>2 DEF Named, Relisted, UniqueNames
  <2>4. Named(h, r) = {i}
    BY <1>1, <1>3, <2>1, <2>2, <2>3 DEF Relisted
  <2>5. LastNamed(h, r) = i /\ LastNamed(g, r) = p[i]
    <3>1. i \in Nat /\ p[i] \in Nat
      BY <2>2, SameAgents DEF Relisted
    <3> QED BY <2>3, <2>4, <3>1, OnlyOne DEF LastNamed
  <2> QED BY <2>2, <2>5
<1> QED BY <1>4, <1>5

LEMMA SameByAlias ==
  ASSUME NEW h, NEW p, NEW g, Relisted(h, p, g), NEW r, Clear(g, r)
  PROVE  Counterpart(p, g, ByAlias(h, r), ByAlias(g, r))
<1>1. \A i \in DOMAIN g : i \in Aliased(h, r) <=> p[i] \in Aliased(g, r)
  BY SameAgents DEF Aliased
<1>2. \A e \in DOMAIN g : \E i \in DOMAIN g : p[i] = e
  BY DEF Relisted
<1>3. Aliased(h, r) \subseteq DOMAIN g /\ Aliased(g, r) \subseteq DOMAIN g
  BY SameAgents DEF Aliased
<1>4. Aliased(h, r) = {} <=> Aliased(g, r) = {}
  BY <1>1, <1>2, <1>3, SameAgents
<1>5. CASE Named(h, r) # {}
  BY <1>5, SameNamed DEF ByAlias, Counterpart
<1>6. CASE Named(h, r) = {} /\ Aliased(h, r) # {}
  <2>1. PICK i \in Aliased(h, r) : TRUE
    BY <1>6
  <2>2. i \in DOMAIN g /\ p[i] \in Aliased(g, r)
    BY <1>1, <1>3, <2>1
  <2>3. Aliased(g, r) = {p[i]}
    <3>1. Named(g, r) = {}
      BY <1>6, SameNamed
    <3> QED BY <2>2, <3>1 DEF Clear
  <2>4. Aliased(h, r) = {i}
    BY <1>1, <1>3, <2>1, <2>2, <2>3 DEF Relisted
  <2>5. i \in Nat /\ p[i] \in Nat
    BY <2>2, SameAgents DEF Relisted
  <2>6. Named(g, r) = {}
    BY <1>6, SameNamed
  <2>7. ByAlias(h, r) = i /\ ByAlias(g, r) = p[i]
    BY <1>6, <2>3, <2>4, <2>5, <2>6, OnlyOne DEF ByAlias
  <2> QED BY <2>2, <2>7 DEF Counterpart
<1>7. CASE Named(h, r) = {} /\ Aliased(h, r) = {}
  BY <1>4, <1>7, SameNamed DEF ByAlias, Counterpart
<1> QED BY <1>5, <1>6, <1>7

LEMMA SameResolved ==
  ASSUME NEW h, NEW p, NEW g, Relisted(h, p, g), NEW r, Definite(g, r)
  PROVE  Counterpart(p, g, Resolve(h, r), Resolve(g, r))
<1>1. \A s : Clear(g, s) => Counterpart(p, g, ByAlias(h, s), ByAlias(g, s))
  BY SameByAlias
<1>2. \A s : Clear(g, s) => (ByAlias(h, s) = NoAgent <=> ByAlias(g, s) = NoAgent)
  BY <1>1, SameAgents DEF Counterpart, Relisted
<1> QED BY <1>1, <1>2 DEF Resolve, Definite

LEMMA SameChildAt ==
  ASSUME NEW h, NEW p, NEW g, Relisted(h, p, g), NEW i \in DOMAIN g,
         NEW k \in DOMAIN h[i].delegates
  PROVE  Counterpart(p, g, ChildAt(h, i, k), ChildAt(g, p[i], k))
<1>1. h[i] = g[p[i]] /\ p[i] \in DOMAIN g
  BY SameAgents
<1>2. PICK a, b : a = Resolve(h, h[i].delegates[k]) /\ b = Resolve(g, g[p[i]].delegates[k])
  OBVIOUS
<1>3. Counterpart(p, g, a, b)
  <2>1. Definite(g, h[i].delegates[k])
    BY <1>1 DEF Relisted, DefiniteReferences
  <2> QED BY <1>1, <1>2, <2>1, SameResolved
<1>4. a = i <=> b = p[i]
  BY <1>1, <1>3 DEF Counterpart, Relisted
<1>5. /\ ChildAt(h, i, k) = IF a = i THEN NoAgent ELSE a
      /\ ChildAt(g, p[i], k) = IF b = p[i] THEN NoAgent ELSE b
  BY <1>2 DEF ChildAt
<1> QED BY <1>3, <1>4, <1>5 DEF Counterpart

LEMMA SameKids ==
  ASSUME NEW h, NEW p, NEW g, Relisted(h, p, g), NEW i \in DOMAIN g, NEW e \in DOMAIN g
  PROVE  e \in Kids(h, i) <=> p[e] \in Kids(g, p[i])
<1>1. /\ DOMAIN h = DOMAIN g /\ h[i] = g[p[i]]
      /\ \A a \in DOMAIN g : p[a] \in DOMAIN g /\ h[a] = g[p[a]]
  BY SameAgents
<1> DEFINE K == DOMAIN h[i].delegates
<1>9. \A k \in K : 1..(k - 1) \subseteq K
  <2>1. PICK n \in Nat : K = 1..n
    BY <1>1 DEF Relisted, HaveLists
  <2> QED BY <2>1
<1>2. \A k \in K : Counterpart(p, g, ChildAt(h, i, k), ChildAt(g, p[i], k))
  BY SameChildAt
<1>3. \A k \in K : ChildAt(h, i, k) = e <=> ChildAt(g, p[i], k) = p[e]
  BY <1>1, <1>2 DEF Counterpart, Relisted
<1>4. \A k \in K : ChildAt(h, i, k) = NoAgent <=> ChildAt(g, p[i], k) = NoAgent
  BY <1>1, <1>2 DEF Counterpart, Relisted
<1>5. \A k \in K : ChildAt(h, i, k) # NoAgent => h[ChildAt(h, i, k)] = g[ChildAt(g, p[i], k)]
  BY <1>1, <1>2 DEF Counterpart
<1>6. h[e].name = g[p[e]].name
  BY <1>1
<1>7. \A k \in K :
             (\A m \in 1..(k - 1) : ChildAt(h, i, m) # NoAgent =>
                                       h[ChildAt(h, i, m)].name # h[e].name)
               <=> (\A m \in 1..(k - 1) : ChildAt(g, p[i], m) # NoAgent =>
                                       g[ChildAt(g, p[i], m)].name # g[p[e]].name)
  <2> SUFFICES ASSUME NEW k \in K
               PROVE  \A m \in 1..(k - 1) :
                        (ChildAt(h, i, m) # NoAgent => h[ChildAt(h, i, m)].name # h[e].name)
                        <=> (ChildAt(g, p[i], m) # NoAgent =>
                               g[ChildAt(g, p[i], m)].name # g[p[e]].name)
    OBVIOUS
  <2> QED BY <1>4, <1>5, <1>6, <1>9
<1>8. DOMAIN h[i].delegates = DOMAIN g[p[i]].delegates
  BY <1>1
<1> QED BY <1>1, <1>3, <1>7, <1>8, Zenon DEF Kids

\* Children, by name, are the same agents.
LEMMA SameChildrenAt ==
  ASSUME NEW h, NEW p, NEW g, Relisted(h, p, g), NEW n \in Names(g)
  PROVE  /\ \A e \in DOMAIN g : e \in ChildrenOf(h)[n] <=> p[e] \in ChildrenOf(g)[n]
         /\ ChildrenOf(h)[n] \subseteq DOMAIN g /\ ChildrenOf(g)[n] \subseteq DOMAIN g
<1>1. Named(h, n) # {}
  <2>1. n \in Names(h)
    BY SameAgents
  <2> QED BY <2>1 DEF Names, Named
<1>2. LastNamed(h, n) \in DOMAIN g /\ LastNamed(g, n) = p[LastNamed(h, n)]
  BY <1>1, SameNamed
<1>3. PICK i \in DOMAIN g : i = LastNamed(h, n)
  BY <1>2
<1>4. ChildrenOf(h)[n] = Kids(h, i) /\ ChildrenOf(g)[n] = Kids(g, p[i])
  BY <1>2, <1>3, SameAgents DEF ChildrenOf
<1>5. \A e \in DOMAIN g : e \in Kids(h, i) <=> p[e] \in Kids(g, p[i])
  BY SameKids
<1>6. Kids(h, i) \subseteq DOMAIN g /\ Kids(g, p[i]) \subseteq DOMAIN g
  BY SameAgents DEF Kids
<1> QED BY <1>4, <1>5, <1>6

LEMMA SameKidNames ==
  ASSUME NEW h, NEW p, NEW g, Relisted(h, p, g), NEW n \in Names(g)
  PROVE  KidNames(h, ChildrenOf(h), n) = KidNames(g, ChildrenOf(g), n)
<1>1. PICK K, L : K = ChildrenOf(h)[n] /\ L = ChildrenOf(g)[n]
  OBVIOUS
<1>2. /\ \A e \in DOMAIN g : e \in K <=> p[e] \in L
      /\ K \subseteq DOMAIN g /\ L \subseteq DOMAIN g
  BY <1>1, SameChildrenAt
<1>3. \A e \in DOMAIN g : h[e].name = g[p[e]].name /\ \E i \in DOMAIN g : p[i] = e
  BY SameAgents DEF Relisted
<1>4. \A i \in DOMAIN g : p[i] \in DOMAIN g
  BY SameAgents
<1>5. {h[e].name : e \in K} \subseteq {g[e].name : e \in L}
  BY <1>2, <1>3
<1>6. {g[e].name : e \in L} \subseteq {h[e].name : e \in K}
  BY <1>2, <1>3
<1> QED BY <1>1, <1>5, <1>6 DEF KidNames

LEMMA SameReachable ==
  ASSUME NEW h, NEW p, NEW g, Relisted(h, p, g), NEW parent, NEW child
  PROVE  Reach(h, ChildrenOf(h), parent, child) = Reach(g, ChildrenOf(g), parent, child)
<1>1. Names(h) = Names(g)
  BY SameAgents
<1>2. ASSUME NEW S \in SUBSET Names(g)
      PROVE  ClosedUnder(h, ChildrenOf(h), parent, child, S)
               <=> ClosedUnder(g, ChildrenOf(g), parent, child, S)
  <2>1. \A n \in S : KidNames(h, ChildrenOf(h), n) = KidNames(g, ChildrenOf(g), n)
    BY SameKidNames
  <2> QED BY <2>1 DEF ClosedUnder
<1> QED BY <1>1, <1>2, Zenon DEF Reach

LEMMA SameAuthorityOf ==
  ASSUME NEW h, NEW p, NEW g, Relisted(h, p, g)
  PROVE  AuthorityOf(h) = AuthorityOf(g)
<1>1. Names(h) = Names(g)
  BY SameAgents
<1>2. ASSUME NEW n \in Names(g)
      PROVE  h[LastNamed(h, n)] = g[LastNamed(g, n)]
  <2>1. Named(h, n) # {}
    <3>1. n \in Names(h)
      BY SameAgents
    <3> QED BY <3>1 DEF Names, Named
  <2> QED BY <2>1, SameNamed, SameAgents
<1> QED BY <1>1, <1>2 DEF AuthorityOf

LEMMA SameEdge ==
  ASSUME NEW h, NEW p, NEW g, Relisted(h, p, g), NEW i \in DOMAIN g, NEW e \in DOMAIN g
  PROVE  <<i, e>> \in EdgesOf(h, ChildrenOf(h)) <=> <<p[i], p[e]>> \in EdgesOf(g, ChildrenOf(g))
<1>1. /\ DOMAIN h = DOMAIN g /\ h[i] = g[p[i]] /\ h[e] = g[p[e]]
      /\ p[i] \in DOMAIN g /\ p[e] \in DOMAIN g
  BY SameAgents
<1>2. e \in ChildrenOf(h)[h[i].name] <=> p[e] \in ChildrenOf(g)[g[p[i]].name]
  <2>1. g[p[i]].name \in Names(g)
    BY <1>1 DEF Names
  <2> QED BY <1>1, <2>1, SameChildrenAt
<1> QED BY <1>1, <1>2 DEF EdgesOf

\* What the reachable authority of a list's edges comes to.
Due(g) == {[parent |-> q[1], child |-> q[2],
            tool |-> ReachableTool(g, ChildrenOf(g), AuthorityOf(g), q[1], q[2])] :
             q \in EdgesOf(g, ChildrenOf(g))}

\* One of its rows: which agent of list l delegates to which, and the tool.
Row(l, i, e) == [parent |-> l[i], child |-> l[e],
                 tool |-> ReachableTool(l, ChildrenOf(l), AuthorityOf(l), i, e)]

LEMMA OutcomeRows ==
  ASSUME NEW l
  PROVE  Outcome(l, Due(l)) = {Row(l, q[1], q[2]) : q \in EdgesOf(l, ChildrenOf(l))}
<1> DEFINE Line(d) == [parent |-> l[d.parent], child |-> l[d.child], tool |-> d.tool]
           Tool(q) == ReachableTool(l, ChildrenOf(l), AuthorityOf(l), q[1], q[2])
           Entry(q) == [parent |-> q[1], child |-> q[2], tool |-> Tool(q)]
<1>1. Outcome(l, Due(l)) = {Line(d) : d \in Due(l)}
  BY DEF Outcome
<1>2. Due(l) = {Entry(q) : q \in EdgesOf(l, ChildrenOf(l))}
  BY DEF Due
<1>3. ASSUME NEW q
      PROVE  Line(Entry(q)) = Row(l, q[1], q[2])
  <2>1. Row(l, q[1], q[2]) = [parent |-> l[q[1]], child |-> l[q[2]], tool |-> Tool(q)]
    BY DEF Row
  <2> HIDE DEF Tool
  <2> QED BY <2>1
<1> HIDE DEF Line, Entry
<1> QED BY <1>1, <1>2, <1>3

LEMMA SameRow ==
  ASSUME NEW h, NEW p, NEW g, Relisted(h, p, g), NEW i \in DOMAIN g, NEW e \in DOMAIN g
  PROVE  Row(h, i, e) = Row(g, p[i], p[e])
<1>1. h[i] = g[p[i]] /\ h[e] = g[p[e]]
  BY SameAgents
<1>2. Reach(h, ChildrenOf(h), h[i].name, h[e].name)
        = Reach(g, ChildrenOf(g), g[p[i]].name, g[p[e]].name)
  BY <1>1, SameReachable
<1>3. AuthorityOf(h) = AuthorityOf(g)
  BY SameAuthorityOf
<1>4. ReachableTool(h, ChildrenOf(h), AuthorityOf(h), i, e)
        = ReachableTool(g, ChildrenOf(g), AuthorityOf(g), p[i], p[e])
  BY <1>1, <1>2, <1>3, Zenon DEF ReachableTool
<1> QED BY <1>1, <1>4, Zenon DEF Row

LEMMA SameOutcome ==
  ASSUME NEW h, NEW p, NEW g, Relisted(h, p, g)
  PROVE  Outcome(h, Due(h)) = Outcome(g, Due(g))
<1>1. PICK E, F : E = EdgesOf(h, ChildrenOf(h)) /\ F = EdgesOf(g, ChildrenOf(g))
  OBVIOUS
<1>2. /\ Outcome(h, Due(h)) = {Row(h, q[1], q[2]) : q \in E}
      /\ Outcome(g, Due(g)) = {Row(g, q[1], q[2]) : q \in F}
  BY <1>1, OutcomeRows
<1>3. /\ \A i \in DOMAIN g : p[i] \in DOMAIN g
      /\ \A e \in DOMAIN g : \E i \in DOMAIN g : p[i] = e
  BY SameAgents DEF Relisted
<1>4. E \subseteq (DOMAIN g) \X (DOMAIN g) /\ F \subseteq (DOMAIN g) \X (DOMAIN g)
  BY <1>1, SameAgents DEF EdgesOf
<1>5. \A i, e \in DOMAIN g : <<i, e>> \in E <=> <<p[i], p[e]>> \in F
  BY <1>1, SameEdge
<1>6. \A i, e \in DOMAIN g : Row(h, i, e) = Row(g, p[i], p[e])
  BY SameRow
<1>7. ASSUME NEW q \in E
      PROVE  Row(h, q[1], q[2]) \in {Row(g, s[1], s[2]) : s \in F}
  <2>1. PICK i, e \in DOMAIN g : q = <<i, e>>
    BY <1>4
  <2>2. <<p[i], p[e]>> \in F /\ Row(h, q[1], q[2]) = Row(g, p[i], p[e])
    BY <1>5, <1>6, <2>1
  <2> QED BY <2>2
<1>8. ASSUME NEW s \in F
      PROVE  Row(g, s[1], s[2]) \in {Row(h, q[1], q[2]) : q \in E}
  <2>1. PICK a, b \in DOMAIN g : s = <<a, b>>
    BY <1>4
  <2>2. PICK i, e \in DOMAIN g : p[i] = a /\ p[e] = b
    BY <1>3
  <2>3. <<i, e>> \in E /\ Row(g, s[1], s[2]) = Row(h, i, e)
    BY <1>5, <1>6, <2>1, <2>2
  <2> QED BY <2>3
<1> QED BY <1>2, <1>7, <1>8

\* When it returns, the traversal has delivered what is due.
LEMMA AllDelivered ==
  ASSUME IInv, phase = "done"
  PROVE  delegated = Due(graph)
<1>1. /\ children = ChildrenOf(graph) /\ authority = AuthorityOf(graph) /\ todo = {}
  BY DEF IInv, Recorded, Finished
<1>2. PICK E : E = EdgesOf(graph, children)
  OBVIOUS
<1>3. E \subseteq (DOMAIN graph) \X (DOMAIN graph)
  BY <1>2 DEF EdgesOf
<1> DEFINE T(i, e) == ReachableTool(graph, children, authority, i, e)
<1>4. /\ \A d \in delegated : /\ d = [parent |-> d.parent, child |-> d.child, tool |-> d.tool]
                              /\ <<d.parent, d.child>> \in E /\ d.tool = T(d.parent, d.child)
      /\ \A q \in E : \E d \in delegated : d.parent = q[1] /\ d.child = q[2]
  <2>1. \A d \in delegated : d = [parent |-> d.parent, child |-> d.child, tool |-> d.tool]
    BY DEF IInv, TypeOK
  <2> QED BY <1>1, <1>2, <2>1 DEF IInv, Delivered, NoEdgeDropped
<1>5. Due(graph) = {[parent |-> q[1], child |-> q[2], tool |-> T(q[1], q[2])] : q \in E}
  BY <1>1, <1>2 DEF Due
<1> HIDE DEF T
<1>6. \A d \in delegated : d = [parent |-> d.parent, child |-> d.child,
                                tool |-> T(d.parent, d.child)]
  BY <1>4
<1>7. ASSUME NEW d \in delegated
      PROVE  d \in Due(graph)
  <2>1. PICK q \in E : q = <<d.parent, d.child>>
    BY <1>4
  <2>2. d = [parent |-> q[1], child |-> q[2], tool |-> T(q[1], q[2])]
    BY <1>6, <2>1
  <2> QED BY <1>5, <2>2
<1>8. ASSUME NEW x \in Due(graph)
      PROVE  x \in delegated
  <2>1. PICK q \in E : x = [parent |-> q[1], child |-> q[2], tool |-> T(q[1], q[2])]
    BY <1>5
  <2>2. PICK d \in delegated : d.parent = q[1] /\ d.child = q[2]
    BY <1>4
  <2>3. d = x
    BY <1>6, <2>1, <2>2
  <2> QED BY <2>3
<1> QED BY <1>7, <1>8

(***************************************************************************)
(* "Results are independent of scan order" (scanner.py), for every list of *)
(* agents that share no name and whose references are definite, however    *)
(* many agents a file has: any other order of the agents leads to the same *)
(* delegated tools.                                                        *)
(***************************************************************************)
THEOREM OrderDoesNotMatter == SafetySpec => []UniqueSameInAnyOrder
<1>1. ASSUME IInv
      PROVE  UniqueSameInAnyOrder
  <2> SUFFICES ASSUME UniqueNames(graph), DefiniteReferences(graph), phase = "done",
                      NEW p \in Orders(graph),
                      NEW g, g = [i \in DOMAIN graph |-> graph[p[i]]]
               PROVE  Outcome(graph, delegated) = Outcome(g, Due(g))
    BY DEF UniqueSameInAnyOrder, SameInAnyOrder, Due
  <2>1. Relisted(g, p, graph)
    BY <1>1, AnyOrderRelists DEF IInv, TypeOK
  <2>2. delegated = Due(graph)
    BY <1>1, AllDelivered
  <2> QED BY <2>1, <2>2, SameOutcome
<1> QED BY <1>1, Invariant, PTL
=============================================================================
