------------------------------ MODULE Delegation ------------------------------
(***************************************************************************)
(* _propagate_adk_delegation (scanner.py), step by step: references are    *)
(* resolved to children, the authority every agent has is recorded, and    *)
(* then each edge is traversed with a work list and the parent gets a      *)
(* synthetic tool.  The parents' tools grow while other edges are still to *)
(* be traversed, and delegation may be cyclic.                             *)
(*                                                                         *)
(* The work list is a set: the order in which the code's stack gives names *)
(* back, and the duplicates it may hold, are left open, as is the order in *)
(* which edges are served.                                                 *)
(***************************************************************************)
EXTENDS DelegationGraph

VARIABLES
  phase,       \* "resolve", "traverse" or "done"
  graph,       \* the agents, with the tools they had before propagation
  children,    \* by name, the agents delegated to
  unresolved,  \* agents with an unresolved_delegation diagnostic
  authority,   \* by name, the authority recorded before any tool is added
  todo,        \* edges <<parent, child>> still to be served
  edge,        \* the edge being traversed, or NoEdge
  pending,     \* names to visit
  visited,     \* names visited
  gathered,    \* accumulated caps, scopes and tools
  delegated    \* synthetic tools appended so far: [parent, child, tool]

vars == <<phase, graph, children, unresolved, authority, todo, edge, pending,
          visited, gathered, delegated>>

NoEdge == <<>>

\* The abstract specification: it knows children and authority from the start.
Promise == INSTANCE DelegatedAuthority WITH
  children  <- IF phase = "resolve" THEN ChildrenOf(graph) ELSE children,
  authority <- IF phase = "resolve" THEN AuthorityOf(graph) ELSE authority

\* parent.tools as it is now: the original tools and those appended so far.
LiveTools(i) ==
  graph[i].tools \cup {d.tool : d \in {x \in delegated : x.parent = i}}

TypeOK ==
  /\ phase \in {"resolve", "traverse", "done"}
  /\ graph \in Graphs
  /\ children \in [Names(graph) -> SUBSET (DOMAIN graph)]
  /\ unresolved \in SUBSET (DOMAIN graph)
  /\ authority \in [Names(graph) -> Accumulators]
  /\ todo \in SUBSET ((DOMAIN graph) \X (DOMAIN graph))
  /\ edge \in {NoEdge} \cup ((DOMAIN graph) \X (DOMAIN graph))
  /\ pending \in SUBSET Names(graph)
  /\ visited \in SUBSET Names(graph)
  /\ gathered \in Accumulators
  /\ \A d \in delegated : d \in [parent : DOMAIN graph, child : DOMAIN graph,
                                 tool : Tools]

Init ==
  /\ phase = "resolve"
  /\ graph \in Graphs
  /\ children = [n \in Names(graph) |-> {}]
  /\ unresolved = {}
  /\ authority = [n \in Names(graph) |-> NothingGathered]
  /\ todo = {}
  /\ edge = NoEdge
  /\ pending = {}
  /\ visited = {}
  /\ gathered = NothingGathered
  /\ delegated = {}

-----------------------------------------------------------------------------
(* One action per part of the function.                                    *)

\* Edges are resolved and the authority recorded before any tool is added.
ResolveReferences ==
  /\ phase = "resolve"
  /\ children' = ChildrenOf(graph)
  /\ unresolved' = UnresolvedIn(graph)
  /\ authority' = [n \in Names(graph) |->
                     Authority(graph[LastNamed(graph, n)],
                               LiveTools(LastNamed(graph, n)))]
  /\ todo' = EdgesOf(graph, children')
  /\ phase' = "traverse"
  /\ UNCHANGED <<graph, edge, pending, visited, gathered, delegated>>

\* Wrong: the parent is not marked as visited.
StartEdgeParentUnmarked(i, e) ==
  /\ phase = "traverse"
  /\ edge = NoEdge
  /\ <<i, e>> \in todo
  /\ edge' = <<i, e>>
  /\ pending' = {graph[e].name}
  /\ visited' = {}
  /\ gathered' = NothingGathered
  /\ UNCHANGED <<phase, graph, children, unresolved, authority, todo, delegated>>

StartEdge(i, e) ==
  /\ phase = "traverse"
  /\ edge = NoEdge
  /\ <<i, e>> \in todo
  /\ edge' = <<i, e>>
  /\ pending' = {graph[e].name}
  /\ visited' = {graph[i].name}
  /\ gathered' = NothingGathered
  /\ UNCHANGED <<phase, graph, children, unresolved, authority, todo, delegated>>

\* A name popped a second time: continue.
SkipVisited(n) ==
  /\ edge # NoEdge
  /\ n \in pending \cap visited
  /\ pending' = pending \ {n}
  /\ UNCHANGED <<phase, graph, children, unresolved, authority, todo, edge,
                 visited, gathered, delegated>>

\* Wrong: the name is not recorded as visited.
VisitUnmarked(n) ==
  /\ edge # NoEdge
  /\ n \in pending \ visited
  /\ gathered' = Absorb(gathered, authority[n], n)
  /\ pending' = (pending \ {n}) \cup KidNames(graph, children, n)
  /\ UNCHANGED <<phase, graph, children, unresolved, authority, todo, edge,
                 visited, delegated>>

\* Wrong: reads the tools the agent has by now, not those recorded.
VisitLive(n) ==
  /\ edge # NoEdge
  /\ n \in pending \ visited
  /\ visited' = visited \cup {n}
  /\ gathered' = LET i == LastNamed(graph, n)
                 IN  Absorb(gathered, Authority(graph[i], LiveTools(i)), n)
  /\ pending' = (pending \ {n}) \cup KidNames(graph, children, n)
  /\ UNCHANGED <<phase, graph, children, unresolved, authority, todo, edge,
                 delegated>>

Visit(n) ==
  /\ edge # NoEdge
  /\ n \in pending \ visited
  /\ visited' = visited \cup {n}
  /\ gathered' = Absorb(gathered, authority[n], n)
  /\ pending' = (pending \ {n}) \cup KidNames(graph, children, n)
  /\ UNCHANGED <<phase, graph, children, unresolved, authority, todo, edge,
                 delegated>>

\* Nothing is pending: the synthetic tool is appended to the parent's tools.
FinishEdge ==
  /\ edge # NoEdge
  /\ pending = {}
  /\ delegated' = delegated \cup
       {[parent |-> edge[1], child |-> edge[2],
         tool |-> DelegateTool(graph[edge[2]], gathered)]}
  /\ todo' = todo \ {edge}
  /\ edge' = NoEdge
  /\ UNCHANGED <<phase, graph, children, unresolved, authority, pending, visited,
                 gathered>>

Return ==
  /\ phase = "traverse"
  /\ edge = NoEdge
  /\ todo = {}
  /\ phase' = "done"
  /\ UNCHANGED <<graph, children, unresolved, authority, todo, edge, pending,
                 visited, gathered, delegated>>

\* The function has returned; the state stays as it is.
Returned == phase = "done" /\ UNCHANGED vars

Next ==
  \/ ResolveReferences
  \/ \E i, e \in DOMAIN graph : StartEdge(i, e)
  \/ \E n \in pending : SkipVisited(n) \/ Visit(n)
  \/ FinishEdge
  \/ Return
  \/ Returned

SafetySpec == Init /\ [][Next]_vars

\* The function runs to its end: it waits for nothing.
Spec == SafetySpec /\ WF_vars(Next)

-----------------------------------------------------------------------------
(* Properties.                                                             *)

UniqueNames(g) == \A i, j \in DOMAIN g : g[i].name = g[j].name => i = j

\* Agents of one file share its aliases; a reference that some agent makes is definite if,
\* in the form in which it is found, it is a name or the alias of one agent alone.
Clear(g, r) == Named(g, r) # {} \/ \A i, j \in Aliased(g, r) : i = j

Definite(g, r) ==
  /\ Clear(g, r)
  /\ ByAlias(g, r) = NoAgent => Clear(g, Base[r])
  /\ ByAlias(g, r) = NoAgent /\ ByAlias(g, Base[r]) = NoAgent => Clear(g, Suffixed[Base[r]])

DefiniteReferences(g) ==
  \A i \in DOMAIN g : \A k \in DOMAIN g[i].delegates : Definite(g, g[i].delegates[k])

(***************************************************************************)
(* A delegates_to reference never disappears: when the function returns,   *)
(* the reference is reported as unresolved, or it is the agent itself, or  *)
(* the agent has a synthetic tool for the agent it names.                  *)
(***************************************************************************)
NoReferenceLost ==
  phase = "done" /\ UniqueNames(graph) =>
    \A i \in DOMAIN graph : \A k \in DOMAIN graph[i].delegates :
      LET e == Resolve(graph, graph[i].delegates[k]) IN
        \/ e = NoAgent /\ i \in unresolved
        \/ e = i
        \/ \E d \in delegated : d.parent = i /\ d.child = e

(***************************************************************************)
(* A delegated tool counts as approved only if every privileged tool of    *)
(* every agent reachable through the child requires approval, however long *)
(* the chain and whatever cycles it goes through.                          *)
(***************************************************************************)
ApprovalNotOverstated ==
  \A d \in delegated : d.tool.approval = "yes" =>
    \A n \in Reach(graph, children, graph[d.parent].name, graph[d.child].name) :
      \A t \in PrivilegedTools(graph[LastNamed(graph, n)].tools) : t.approval = "yes"

\* Who delegates what to whom, without positions in the agent list.
Outcome(g, tools) ==
  {[parent |-> g[d.parent], child |-> g[d.child], tool |-> d.tool] : d \in tools}

Orders(g) ==
  {p \in [DOMAIN g -> DOMAIN g] : \A i, j \in DOMAIN g : p[i] = p[j] => i = j}

(***************************************************************************)
(* "Traverse original authority for each edge so results are independent   *)
(* of scan order" (scanner.py): any other order of the same agents leads   *)
(* to the same delegated tools.                                            *)
(***************************************************************************)
SameInAnyOrder ==
  phase = "done" =>
    \A p \in Orders(graph) :
      \E g \in {[i \in DOMAIN graph |-> graph[p[i]]]} :
      \E kids \in {ChildrenOf(g)} : \E auth \in {AuthorityOf(g)} :
        Outcome(graph, delegated) =
        Outcome(g, {[parent |-> q[1], child |-> q[2],
                     tool |-> ReachableTool(g, kids, auth, q[1], q[2])] :
                    q \in EdgesOf(g, kids)})

(***************************************************************************)
(* SameInAnyOrder where no two agents share a name and no reference is to  *)
(* an alias that two agents share.                                         *)
(***************************************************************************)
UniqueSameInAnyOrder ==
  UniqueNames(graph) /\ DefiniteReferences(graph) => SameInAnyOrder

(***************************************************************************)
(* No edge is served twice, and each with exactly the authority that can   *)
(* be reached through it: the traversal implements DelegatedAuthority.     *)
(***************************************************************************)
ImplementsPromise == Promise!SafetySpec

(***************************************************************************)
(* The traversal ends, whatever cycles delegation has.                     *)
(***************************************************************************)
Terminates == <>(phase = "done")
=============================================================================
