--------------------------- MODULE DelegationGraph ---------------------------
(***************************************************************************)
(* The agents of one scan as _propagate_adk_delegation (scanner.py) sees   *)
(* them, how a delegates_to reference resolves to an agent, and the        *)
(* authority an agent reaches by delegating.                               *)
(*                                                                         *)
(* An agent list is a sequence in scan order.  Agents are the elements of  *)
(* its domain: two agents may have the same name (_consolidate_agents      *)
(* keeps agents with different instance keys apart).                       *)
(***************************************************************************)
EXTENDS Integers, Sequences, FiniteSets

CONSTANTS
  Refs,        \* strings that name an agent or refer to one
  Base,        \* Base[r]     = r.removesuffix("_agent")
  Suffixed,    \* Suffixed[r] = r + "_agent"
  Caps,        \* capabilities
  Delegate,    \* the capability "agent.delegate"
  Privileged,  \* PRIVILEGED_CAPABILITIES
  Outgoing,    \* {"network.external", "external.write"}
  Selectors,   \* resource selectors and destination targets
  Direct,      \* the via_agent of a scope that is not inherited
  Graphs       \* the agent lists a scan may produce

Approvals == {"yes", "no", "unset"}

(***************************************************************************)
(* A resource scope or a network destination, with the agent it was        *)
(* inherited through ("via_agent").                                        *)
(***************************************************************************)
Scopes == [selector : Selectors, via : Refs \cup {Direct}]

Tools == [caps : SUBSET Caps, scopes : SUBSET Scopes, approval : Approvals,
          managed : BOOLEAN, guarded : BOOLEAN]

(***************************************************************************)
(* own and scopes are what the agent has besides its tools: data sources,  *)
(* MCP servers and network destinations.  guarded: the agent declares a    *)
(* safety plugin or a before_tool_callback.                                *)
(***************************************************************************)
Agents == [name : Refs, aliases : SUBSET Refs, delegates : Seq(Refs),
           own : SUBSET Caps, scopes : SUBSET Scopes, tools : SUBSET Tools,
           guarded : BOOLEAN]

\* What an agent can do, and what a traversal has gathered so far.
Accumulators == [caps : SUBSET Caps, scopes : SUBSET Scopes, tools : SUBSET Tools]

ASSUME VocabularyAssumption ==
  /\ Base \in [Refs -> Refs]
  /\ Suffixed \in [Refs -> Refs]
  /\ Delegate \in Caps
  /\ Privileged \subseteq Caps
  /\ Outgoing \subseteq Caps
  /\ Direct \notin Refs

ASSUME GraphsAssumption == Graphs \subseteq Seq(Agents)

-----------------------------------------------------------------------------
(* Resolution of a reference.                                              *)

NoAgent == 0

Names(g) == {g[i].name : i \in DOMAIN g}

Named(g, r) == {i \in DOMAIN g : g[i].name = r}

Aliased(g, r) == {i \in DOMAIN g : r \in g[i].aliases}

\* by_name is a dict comprehension: of several agents of a name the last is kept.
LastNamed(g, r) == CHOOSE i \in Named(g, r) : \A j \in Named(g, r) : j <= i

\* by_alias starts as a copy of by_name, and an alias already taken is not moved.
ByAlias(g, r) ==
  IF Named(g, r) # {} THEN LastNamed(g, r)
  ELSE IF Aliased(g, r) # {}
       THEN CHOOSE i \in Aliased(g, r) : \A j \in Aliased(g, r) : i <= j
       ELSE NoAgent

\* The reference itself, then without "_agent", then with it.
Resolve(g, r) ==
  IF ByAlias(g, r) # NoAgent THEN ByAlias(g, r)
  ELSE IF ByAlias(g, Base[r]) # NoAgent THEN ByAlias(g, Base[r])
  ELSE ByAlias(g, Suffixed[Base[r]])

(***************************************************************************)
(* The children of agent i: what its references resolve to, without the    *)
(* unresolved ones and itself, and one agent per name (the first).         *)
(***************************************************************************)
ChildAt(g, i, k) ==
  LET e == Resolve(g, g[i].delegates[k]) IN IF e = i THEN NoAgent ELSE e

\* Wrong: an unresolved reference is kept.
KidsUnresolvedKept(g, i) ==
  {ChildAt(g, i, k) : k \in DOMAIN g[i].delegates}

Kids(g, i) ==
  {e \in DOMAIN g :
     \E k \in DOMAIN g[i].delegates :
       /\ ChildAt(g, i, k) = e
       /\ \A m \in 1..(k - 1) :
            ChildAt(g, i, m) # NoAgent => g[ChildAt(g, i, m)].name # g[e].name}

\* Keyed by name: an agent of a name already seen resets the entry.
ChildrenOf(g) == [n \in Names(g) |-> Kids(g, LastNamed(g, n))]

\* Wrong: reported only when the agent has no child at all.
UnresolvedWithoutKids(g) ==
  {i \in DOMAIN g : Kids(g, i) = {} /\ \E k \in DOMAIN g[i].delegates :
                       Resolve(g, g[i].delegates[k]) = NoAgent}

\* The agents with a reference that resolves to nothing: one diagnostic each.
UnresolvedIn(g) ==
  {i \in DOMAIN g : \E k \in DOMAIN g[i].delegates :
                       Resolve(g, g[i].delegates[k]) = NoAgent}

-----------------------------------------------------------------------------
(* Authority and its propagation.                                          *)

Authority(agent, tools) ==
  [caps   |-> agent.own \cup UNION {t.caps : t \in tools},
   scopes |-> agent.scopes \cup UNION {t.scopes : t \in tools},
   tools  |-> tools]

Inherited(scopes, n) == {[selector |-> s.selector, via |-> n] : s \in scopes}

NothingGathered == [caps |-> {Delegate}, scopes |-> {}, tools |-> {}]

\* What the traversal adds to its accumulators when it reaches agent n.
Absorb(acc, a, n) ==
  [caps   |-> acc.caps \cup a.caps,
   scopes |-> acc.scopes \cup Inherited(a.scopes, n),
   tools  |-> acc.tools \cup a.tools]

\* The accumulators once exactly the agents of ns have been absorbed.
Gathered(auth, ns) ==
  [caps   |-> {Delegate} \cup UNION {auth[n].caps : n \in ns},
   scopes |-> UNION {Inherited(auth[n].scopes, n) : n \in ns},
   tools  |-> UNION {auth[n].tools : n \in ns}]

PrivilegedTools(tools) == {t \in tools : t.caps \cap Privileged # {}}

OutgoingTools(tools) == {t \in tools : t.caps \cap Outgoing # {}}

\* Wrong: one approved tool is enough.
DelegateToolAnyApproved(child, acc) ==
  [caps     |-> acc.caps,
   scopes   |-> acc.scopes,
   approval |-> IF \E t \in PrivilegedTools(acc.tools) : t.approval = "yes"
                THEN "yes" ELSE "unset",
   managed  |-> /\ OutgoingTools(acc.tools) # {}
                /\ \A t \in OutgoingTools(acc.tools) : t.managed,
   guarded  |-> child.guarded]

\* The synthetic tool delegate:<child> built from the accumulators.
DelegateTool(child, acc) ==
  LET privileged == PrivilegedTools(acc.tools)
      outgoing   == OutgoingTools(acc.tools)
  IN  [caps     |-> acc.caps,
       scopes   |-> acc.scopes,
       approval |-> IF /\ privileged # {}
                       /\ \A t \in privileged : t.approval = "yes"
                    THEN "yes" ELSE "unset",
       managed  |-> outgoing # {} /\ \A t \in outgoing : t.managed,
       guarded  |-> child.guarded]

-----------------------------------------------------------------------------
(* Reachability, without an algorithm: the least set of names that has the *)
(* child and, with a name, the names of its children; the delegating       *)
(* parent itself is never passed through.                                  *)

KidNames(g, kids, n) == {g[e].name : e \in kids[n]}

ClosedUnder(g, kids, parent, child, S) ==
  /\ {child} \ {parent} \subseteq S
  /\ \A n \in S : KidNames(g, kids, n) \ {parent} \subseteq S

Reach(g, kids, parent, child) ==
  {n \in Names(g) : \A S \in SUBSET Names(g) :
                      ClosedUnder(g, kids, parent, child, S) => n \in S}

\* The edges <<i, e>>: agent i delegates to agent e.
EdgesOf(g, kids) ==
  {p \in (DOMAIN g) \X (DOMAIN g) : p[2] \in kids[g[p[1]].name]}

\* The authority of a name is that of the last agent of the name.
AuthorityOf(g) ==
  [n \in Names(g) |-> Authority(g[LastNamed(g, n)], g[LastNamed(g, n)].tools)]

\* The tool agent i is due for its edge to agent e.
ReachableTool(g, kids, auth, i, e) ==
  DelegateTool(g[e], Gathered(auth, Reach(g, kids, g[i].name, g[e].name)))
=============================================================================
