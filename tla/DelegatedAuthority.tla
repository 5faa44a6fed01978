-------------------------- MODULE DelegatedAuthority --------------------------
(***************************************************************************)
(* What delegation propagation promises, with no traversal in it: for      *)
(* every resolved delegation edge the parent gets one synthetic tool, and  *)
(* that tool carries exactly the authority of the agents reachable through *)
(* the child.  Edges are served in any order.                              *)
(***************************************************************************)
EXTENDS DelegationGraph

VARIABLES
  graph,      \* the agents, as they were before propagation
  children,   \* whom they delegate to, as their references say
  authority,  \* what they can do, as they were before propagation
  delegated   \* the synthetic tools: [parent, child, tool]

vars == <<graph, children, authority, delegated>>

Init ==
  /\ graph \in Graphs
  /\ children = ChildrenOf(graph)
  /\ authority = AuthorityOf(graph)
  /\ delegated = {}

Grant(i, e) ==
  /\ <<i, e>> \in EdgesOf(graph, children)
  /\ \A d \in delegated : <<d.parent, d.child>> # <<i, e>>
  /\ delegated' = delegated \cup
       {[parent |-> i, child |-> e,
         tool |-> ReachableTool(graph, children, authority, i, e)]}
  /\ UNCHANGED <<graph, children, authority>>

Next == \E i, e \in DOMAIN graph : Grant(i, e)

SafetySpec == Init /\ [][Next]_vars
=============================================================================
