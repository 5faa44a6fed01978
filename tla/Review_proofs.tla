----------------------------- MODULE Review_proofs -----------------------------
(***************************************************************************)
(* The review of a pull request, from the event to the exit status, and    *)
(* what becomes of it on the target branch: for every event, every local   *)
(* repository, any number of commits and tags, any pushes, and whatever    *)
(* trees the adapters may find in the commits (IsTree).  First what the    *)
(* passes of a scan and the comparison of two scans come to, for every     *)
(* tree; then the steps of the review.                                     *)
(***************************************************************************)
EXTENDS MainBranch, FiniteSetTheorems, TLAPS

-----------------------------------------------------------------------------
(* The passes of McpBinding, one after the other.                          *)

Imported(r)   == ResolveImported(r, Unbound(r))
Referenced(r) == ResolveFastAgent(r, Imported(r))
Authorized(r) == ReconstructAuthority(r, Referenced(r))
Bindings(r)   == ReconstructContext(r, Authorized(r))

\* A server of a graph is what its declaration says, but for what the passes may set.
Serves(decl, x, server) ==
  /\ DOMAIN server = ServerFields
  /\ server.url = decl.url /\ server.authenticated = decl.authenticated
  /\ server.denied = decl.denied
  /\ x[2] = 0 => server.allowed = decl.allowed
  /\ server.allowed = {} \/ Callable(server, ToolNames) \subseteq Callable(decl, ToolNames)

\* What every pass keeps.
GraphOf(r, g) ==
  /\ DOMAIN g = {"unbound", "bound", "server", "identities", "unresolved"}
  /\ DOMAIN g.bound = DOMAIN r.agents /\ DOMAIN g.identities = DOMAIN r.agents
  /\ g.unbound \subseteq DOMAIN r.decls
  /\ (DOMAIN r.decls) \X {0} \subseteq DOMAIN g.server
  /\ DOMAIN g.server \subseteq (DOMAIN r.decls) \X (DOMAIN r.agents \cup {0})
  /\ \A a \in DOMAIN r.agents : g.bound[a] \subseteq DOMAIN g.server
  /\ BoundOrUnbound(r, g)
  /\ \A x \in DOMAIN g.server : Serves(r.decls[x[1]], x, g.server[x])
  /\ \A a \in DOMAIN r.agents : IsFiniteSet(g.identities[a])

\* Until clients are looked at, an agent has copies of its own and what adapters gave it.
OwnCopies(r, g) ==
  /\ \A a \in DOMAIN r.agents : \A x \in g.bound[a] : x[2] = a \/ x[1] \in Attached(r)
  /\ g.unbound \cap Attached(r) = {}

LEMMA TreeShape ==
  ASSUME NEW r, IsTree(r)
  PROVE  /\ Len(r.agents) \in Nat /\ DOMAIN r.agents = 1..Len(r.agents)
         /\ Len(r.decls) \in Nat /\ DOMAIN r.decls = 1..Len(r.decls)
         /\ Len(r.relations) \in Nat /\ DOMAIN r.relations = 1..Len(r.relations)
         /\ IsFiniteSet(DOMAIN r.agents) /\ IsFiniteSet(DOMAIN r.decls)
         /\ 0 \notin DOMAIN r.agents
  <1>2. /\ Len(r.agents) \in Nat /\ DOMAIN r.agents = 1..Len(r.agents)
        /\ Len(r.decls) \in Nat /\ DOMAIN r.decls = 1..Len(r.decls)
        /\ Len(r.relations) \in Nat /\ DOMAIN r.relations = 1..Len(r.relations)
    BY DEF IsTree, IsList
  <1>3. IsFiniteSet(1..Len(r.agents)) /\ IsFiniteSet(1..Len(r.decls))
    <2>1. \A n \in Nat : IsFiniteSet(1..n)
      BY FS_Interval
    <2> QED BY <1>2, <2>1
  <1> QED BY <1>2, <1>3

\* A set of finitely many has the one element that was chosen of it.
LEMMA TheOnlyOne ==
  ASSUME NEW S, IsFiniteSet(S), Cardinality(S) = 1
  PROVE  S = {CHOOSE x \in S : TRUE}
  <1>1. PICK x : S = {x}
    BY FS_Singleton
  <1> QED BY <1>1

LEMMA UnboundGraph ==
  ASSUME NEW r, IsTree(r)
  PROVE  GraphOf(r, Unbound(r)) /\ OwnCopies(r, Unbound(r))
  <1> DEFINE g == Unbound(r)
  <1>1. /\ DOMAIN g = {"unbound", "bound", "server", "identities", "unresolved"}
        /\ g.unbound = (DOMAIN r.decls) \ Attached(r)
        /\ g.bound = [a \in DOMAIN r.agents |-> r.agents[a].servers \X {0}]
        /\ g.identities = [a \in DOMAIN r.agents |-> {}]
        /\ g.server = [s \in (DOMAIN r.decls) \X {0} |-> r.decls[s[1]]]
    BY DEF Unbound
  <1>2. \A x \in DOMAIN g.server : Serves(r.decls[x[1]], x, g.server[x])
    BY <1>1 DEF Serves, IsTree
  <1>3. /\ DOMAIN g.bound = DOMAIN r.agents /\ DOMAIN g.identities = DOMAIN r.agents
        /\ \A a \in DOMAIN r.agents : /\ g.bound[a] = r.agents[a].servers \X {0}
                                        /\ r.agents[a].servers \subseteq DOMAIN r.decls
                                        /\ g.identities[a] = {}
    BY <1>1 DEF IsTree
  <1>4. DOMAIN g.server = (DOMAIN r.decls) \X {0}
    BY <1>1
  <1> HIDE DEF g
  <1>5. BoundOrUnbound(r, g)
    <2> SUFFICES ASSUME NEW d \in DOMAIN r.decls
                 PROVE  (d \in g.unbound)
                          <=> (\A a \in DOMAIN r.agents : \A x \in g.bound[a] : x[1] # d)
      BY DEF BoundOrUnbound
    <2>1. d \in g.unbound <=> \A a \in DOMAIN r.agents : d \notin r.agents[a].servers
      BY <1>1 DEF Attached
    <2>2. \A a \in DOMAIN r.agents :
            d \in r.agents[a].servers <=> \E x \in g.bound[a] : x[1] = d
      <3> SUFFICES ASSUME NEW a \in DOMAIN r.agents
                   PROVE  d \in r.agents[a].servers <=> \E x \in g.bound[a] : x[1] = d
        OBVIOUS
      <3>1. g.bound[a] = r.agents[a].servers \X {0}
        BY <1>3
      <3>2. d \in r.agents[a].servers => <<d, 0>> \in g.bound[a]
        BY <3>1
      <3> QED BY <3>1, <3>2
    <2> QED BY <2>1, <2>2
  <1>6. \A a \in DOMAIN r.agents : g.bound[a] \subseteq DOMAIN g.server
    BY <1>3, <1>4
  <1>7. GraphOf(r, g)
    BY <1>1, <1>2, <1>3, <1>4, <1>5, <1>6, FS_EmptySet DEF GraphOf
  <1>8. OwnCopies(r, g)
    BY <1>1, <1>3 DEF OwnCopies, Attached
  <1> QED BY <1>7, <1>8 DEF g

\* Copies that may be made for agents, of servers nobody has.
CopiesFor(r, g, copies, settings) ==
  /\ copies \subseteq g.unbound \X DOMAIN r.agents
  /\ DOMAIN settings = copies
  /\ \A c \in copies : Serves(r.decls[c[1]], c, settings[c])

LEMMA CopiesAdded ==
  ASSUME NEW r, NEW g, GraphOf(r, g), OwnCopies(r, g),
         NEW copies, NEW settings, CopiesFor(r, g, copies, settings),
         NEW h, h = AddCopies(g, copies, settings)
  PROVE  /\ GraphOf(r, h) /\ OwnCopies(r, h) /\ h.unresolved = g.unresolved
         /\ \A a \in DOMAIN r.agents : g.bound[a] \subseteq h.bound[a]
         /\ \A c \in copies : c \in h.bound[c[2]]
  <1>0. /\ copies \subseteq g.unbound \X DOMAIN r.agents
        /\ DOMAIN settings = copies
        /\ \A c \in copies : Serves(r.decls[c[1]], c, settings[c])
    BY DEF CopiesFor
  <1> DEFINE A == DOMAIN r.agents
  <1>1. /\ DOMAIN h = DOMAIN g
        /\ h.bound = [a \in A |-> g.bound[a] \cup {c \in copies : c[2] = a}]
        /\ h.unbound = g.unbound \ {c[1] : c \in copies}
        /\ h.server = WithCopies(g.server, settings)
        /\ h.identities = g.identities /\ h.unresolved = g.unresolved
    BY DEF AddCopies, GraphOf
  <1>2. /\ DOMAIN h.server = copies \cup DOMAIN g.server
        /\ \A x \in copies : h.server[x] = settings[x]
        /\ \A x \in DOMAIN g.server \ copies : h.server[x] = g.server[x]
    BY <1>0, <1>1 DEF WithCopies
  <1>3. \A x \in DOMAIN h.server : Serves(r.decls[x[1]], x, h.server[x])
    BY <1>0, <1>2 DEF GraphOf
  <1>4. \A a \in A : h.bound[a] \subseteq DOMAIN h.server
    BY <1>1, <1>2 DEF GraphOf
  <1>5. BoundOrUnbound(r, h)
    <2> SUFFICES ASSUME NEW d \in DOMAIN r.decls
                 PROVE  (d \in h.unbound) <=> (\A a \in A : \A x \in h.bound[a] : x[1] # d)
      BY DEF BoundOrUnbound
    <2>1. (d \in g.unbound) <=> (\A a \in A : \A x \in g.bound[a] : x[1] # d)
      BY DEF GraphOf, BoundOrUnbound
    <2>2. \A c \in copies : c[2] \in A /\ c \in h.bound[c[2]]
      BY <1>0, <1>1
    <2>3. \A a \in A : \A x \in h.bound[a] : x \in g.bound[a] \/ x \in copies
      BY <1>1
    <2>4. \A a \in A : g.bound[a] \subseteq h.bound[a]
      BY <1>1
    <2>5. (d \in h.unbound) <=> (d \in g.unbound /\ \A c \in copies : c[1] # d)
      BY <1>1
    <2> QED BY <2>1, <2>2, <2>3, <2>4, <2>5
  <1>6. GraphOf(r, h)
    <2>1. copies \subseteq (DOMAIN r.decls) \X A
      BY <1>0 DEF GraphOf
    <2>2. /\ (DOMAIN r.decls) \X {0} \subseteq DOMAIN h.server
          /\ DOMAIN h.server \subseteq (DOMAIN r.decls) \X (A \cup {0})
      BY <1>2, <2>1 DEF GraphOf
    <2>3. DOMAIN h.bound = A /\ h.unbound \subseteq DOMAIN r.decls
      BY <1>1 DEF GraphOf
    <2>4. DOMAIN h.identities = A /\ \A a \in A : IsFiniteSet(h.identities[a])
      BY <1>1 DEF GraphOf
    <2> QED BY <1>1, <1>3, <1>4, <1>5, <2>2, <2>3, <2>4 DEF GraphOf
  <1>7. OwnCopies(r, h)
    BY <1>1 DEF OwnCopies
  <1>8. \A c \in copies : c \in h.bound[c[2]]
    BY <1>0, <1>1
  <1> QED BY <1>1, <1>6, <1>7, <1>8

\* What is reported as unresolved has no part in the rest of the graph.
LEMMA ReportedOnly ==
  ASSUME NEW r, NEW h, GraphOf(r, h), NEW new
  PROVE  LET g == [h EXCEPT !.unresolved = new] IN
         /\ GraphOf(r, g) /\ (OwnCopies(r, h) => OwnCopies(r, g))
         /\ g.bound = h.bound /\ g.unbound = h.unbound /\ g.unresolved = new
  <1> DEFINE g == [h EXCEPT !.unresolved = new]
  <1>1. /\ DOMAIN g = DOMAIN h /\ g.bound = h.bound /\ g.unbound = h.unbound
        /\ g.server = h.server /\ g.identities = h.identities /\ g.unresolved = new
    BY DEF GraphOf
  <1> HIDE DEF g
  <1>2. GraphOf(r, g)
    BY <1>1 DEF GraphOf, BoundOrUnbound
  <1>3. OwnCopies(r, h) => OwnCopies(r, g)
    BY <1>1 DEF OwnCopies
  <1> QED BY <1>1, <1>2, <1>3 DEF g

\* An agent's copy of a server serves it as the declaration says.
LEMMA CopyServes ==
  ASSUME NEW decl, NEW d, NEW a, a # 0, NEW server, Serves(decl, <<d, 0>>, server), NEW origin
  PROVE  Serves(decl, <<d, a>>, [server EXCEPT !.origin = origin])
  <1> DEFINE copy == [server EXCEPT !.origin = origin]
  <1>1. /\ DOMAIN copy = ServerFields /\ copy.url = server.url
        /\ copy.authenticated = server.authenticated /\ copy.denied = server.denied
        /\ copy.allowed = server.allowed
    BY DEF Serves, ServerFields
  <1> HIDE DEF copy
  <1>2. Serves(decl, <<d, a>>, copy)
    BY <1>1 DEF Serves, Callable
  <1> QED BY <1>2 DEF copy

\* The same copy with the agent's filter applied: it allows no more.
LEMMA FilteredCopyServes ==
  ASSUME NEW decl, NEW d, NEW a, a # 0, NEW server, Serves(decl, <<d, 0>>, server), NEW origin,
         NEW filter, \A f \in filter : f \subseteq ToolNames,
         NEW copy, copy = [server EXCEPT !.origin = origin,
                                         !.allowed = Filtered(server.allowed, filter)]
  PROVE  Serves(decl, <<d, a>>, copy)
  <1>1. /\ DOMAIN copy = ServerFields /\ copy.url = server.url
        /\ copy.authenticated = server.authenticated /\ copy.denied = server.denied
        /\ copy.allowed = Filtered(server.allowed, filter)
    BY DEF Serves, ServerFields
  <1>2. server.allowed = decl.allowed /\ server.denied = decl.denied
    BY DEF Serves
  <1>3. copy.allowed = {} \/ Callable(copy, ToolNames) \subseteq Callable(decl, ToolNames)
    <2>1. CASE filter = {}
      BY <1>1, <1>2, <2>1 DEF Filtered, Callable
    <2>2. CASE filter # {}
      <3>1. PICK f \in filter : f = CHOOSE x \in filter : TRUE
        BY <2>2
      <3>2. copy.allowed = IF decl.allowed # {} THEN decl.allowed \cap f ELSE f
        BY <1>1, <1>2, <2>2, <3>1 DEF Filtered
      <3>3. f \subseteq ToolNames
        OBVIOUS
      <3> QED BY <1>1, <1>2, <3>2, <3>3 DEF Callable
    <2> QED BY <2>1, <2>2
  <1>4. Serves(decl, <<d, a>>, copy)
    BY <1>1, <1>3 DEF Serves
  <1> QED BY <1>4

(***************************************************************************)
(* Placeholders for imported servers: each is resolved to the only server  *)
(* it can mean, or reported (resolve_imported_mcp_placeholders).           *)
(***************************************************************************)
LEMMA ImportedGraph ==
  ASSUME NEW r, IsTree(r)
  PROVE  /\ GraphOf(r, Imported(r)) /\ OwnCopies(r, Imported(r))
         /\ ImportsResolved(r, Imported(r))
  <1> DEFINE g == Unbound(r)
             A == DOMAIN r.agents
             wanted == UNION {r.agents[a].imports \X {a} : a \in A}
             unique == {w \in wanted : Cardinality(ImportMatches(r, g, w[1])) = 1}
             chosen(w) == CHOOSE d \in ImportMatches(r, g, w[1]) : TRUE
             copies == {<<chosen(w), w[2]>> : w \in unique}
             settings == [c \in copies |-> [g.server[<<c[1], 0>>] EXCEPT
                                              !.origin = "repository_import_reference"]]
             hint(p) == IF p.module = <<>> THEN "unsupported_import_reference"
                        ELSE IF ImportMatches(r, g, p) # {} THEN "ambiguous_imported_reference"
                        ELSE "unresolved_imported_reference"
             h == AddCopies(g, copies, settings)
             new == h.unresolved \cup {Reference(r, w[2], w[1].name, hint(w[1])) :
                                         w \in wanted \ unique}
             i == [h EXCEPT !.unresolved = new]
  <1>1. Imported(r) = i
    BY DEF Imported, ResolveImported
  <1>2. GraphOf(r, g) /\ OwnCopies(r, g) /\ g.unbound = (DOMAIN r.decls) \ Attached(r)
    BY UnboundGraph DEF Unbound
  <1> HIDE DEF g
  <1>3. \A w \in wanted : \E a \in A : w[2] = a /\ w[1] \in r.agents[a].imports
    OBVIOUS
  <1>4. \A w \in unique : ImportMatches(r, g, w[1]) = {chosen(w)} /\ chosen(w) \in g.unbound
    <2> SUFFICES ASSUME NEW w \in unique
                 PROVE  ImportMatches(r, g, w[1]) = {chosen(w)} /\ chosen(w) \in g.unbound
      OBVIOUS
    <2>1. /\ ImportMatches(r, g, w[1]) \subseteq g.unbound
          /\ g.unbound \subseteq DOMAIN r.decls
      BY <1>2 DEF ImportMatches
    <2>2. IsFiniteSet(ImportMatches(r, g, w[1]))
      BY <2>1, TreeShape, FS_Subset
    <2>3. ImportMatches(r, g, w[1]) = {chosen(w)}
      BY <2>2, TheOnlyOne
    <2> QED BY <2>1, <2>3
  <1>5. copies \in SUBSET (g.unbound \X A) /\ 0 \notin A
    <2>1. ASSUME NEW c \in copies
          PROVE  c \in g.unbound \X A
      <3>1. PICK w \in unique : c = <<chosen(w), w[2]>>
        OBVIOUS
      <3>2. w[2] \in A
        BY <1>3
      <3> HIDE DEF unique, copies
      <3>3. chosen(w) \in g.unbound
        BY <1>4
      <3> HIDE DEF chosen
      <3> QED BY <3>1, <3>2, <3>3
    <2> QED BY <2>1, TreeShape
  <1>6. \A c \in copies : Serves(r.decls[c[1]], c, settings[c])
    <2> SUFFICES ASSUME NEW c \in copies
                 PROVE  Serves(r.decls[c[1]], c, settings[c])
      OBVIOUS
    <2>1. c = <<c[1], c[2]>> /\ c[1] \in g.unbound /\ c[2] \in A
      BY <1>5
    <2>2. <<c[1], 0>> \in DOMAIN g.server
      BY <1>2, <2>1 DEF GraphOf
    <2>3. Serves(r.decls[c[1]], <<c[1], 0>>, g.server[<<c[1], 0>>])
      BY <1>2, <2>2 DEF GraphOf
    <2>4. settings[c] = [g.server[<<c[1], 0>>] EXCEPT !.origin = "repository_import_reference"]
      OBVIOUS
    <2>5. c[2] # 0
      BY <1>5, <2>1
    <2> HIDE DEF settings
    <2>6. Serves(r.decls[c[1]], <<c[1], c[2]>>, settings[c])
      BY <2>3, <2>4, <2>5, CopyServes
    <2> QED BY <2>1, <2>6
  <1> HIDE DEF copies, settings
  <1>7. /\ GraphOf(r, h) /\ OwnCopies(r, h)
        /\ \A c \in copies : c \in h.bound[c[2]]
    <2>1. CopiesFor(r, g, copies, settings)
      BY <1>5, <1>6 DEF settings, CopiesFor
    <2> QED BY <1>2, <2>1, CopiesAdded
  <1> HIDE DEF h
  <1>8. /\ GraphOf(r, i) /\ OwnCopies(r, i) /\ i.bound = h.bound /\ i.unresolved = new
    BY <1>7, ReportedOnly
  <1> HIDE DEF i
  <1>9. ImportsResolved(r, i)
    <2> SUFFICES ASSUME NEW a \in A, NEW p \in r.agents[a].imports
                 PROVE  \/ UnresolvedFor(r, i, a, p.name)
                        \/ \E d \in DOMAIN r.decls :
                             /\ <<d, a>> \in i.bound[a]
                             /\ {d} = {e \in (DOMAIN r.decls) \ Attached(r) :
                                         /\ r.decls[e].name = p.name
                                         /\ ModuleMatches(r.decls[e].path, p.module)}
      BY DEF ImportsResolved
    <2> DEFINE w == <<p, a>>
    <2>1. w \in wanted
      OBVIOUS
    <2>2. CASE w \in unique
      <3>1. <<chosen(w), a>> \in i.bound[a]
        BY <1>7, <1>8, <2>2 DEF copies
      <3>2. ImportMatches(r, g, p) = {chosen(w)} /\ chosen(w) \in DOMAIN r.decls
        BY <1>2, <1>4, <2>2
      <3>3. {chosen(w)} = {e \in (DOMAIN r.decls) \ Attached(r) :
                             /\ r.decls[e].name = p.name
                             /\ ModuleMatches(r.decls[e].path, p.module)}
        BY <1>2, <3>2 DEF ImportMatches
      <3> QED BY <3>1, <3>2, <3>3
    <2>3. CASE w \notin unique
      <3>1. Reference(r, a, p.name, hint(p)) \in i.unresolved
        BY <1>8, <2>1, <2>3
      <3> QED BY <3>1 DEF UnresolvedFor, Reference
    <2> QED BY <2>2, <2>3
  <1> QED BY <1>1, <1>8, <1>9

\* A declaration that no agent has a copy of is still unbound.
LEMMA UncopiedUnbound ==
  ASSUME NEW r, NEW g, GraphOf(r, g), OwnCopies(r, g), NEW d \in Uncopied(r, g)
  PROVE  d \in g.unbound
  <1>1. /\ d \in DOMAIN r.decls /\ d \notin Attached(r)
        /\ \A a \in DOMAIN r.agents : <<d, a>> \notin g.bound[a]
    BY DEF Uncopied
  <1>2. ASSUME NEW a \in DOMAIN r.agents, NEW x \in g.bound[a]
        PROVE  x[1] # d
    <2>1. /\ x \in (DOMAIN r.decls) \X (DOMAIN r.agents \cup {0})
          /\ x[2] = a \/ x[1] \in Attached(r)
      BY DEF GraphOf, OwnCopies
    <2>2. x[2] = a => x = <<x[1], a>>
      BY <2>1
    <2> QED BY <1>1, <2>1, <2>2
  <1> QED BY <1>1, <1>2 DEF GraphOf, BoundOrUnbound

\* What a FastAgent reference selects, if it is one declaration, is nearer than any other
\* declaration of the name above the agent.
LEMMA NearestIsSelected ==
  ASSUME NEW r, IsTree(r), NEW g, g.unbound \subseteq DOMAIN r.decls, NEW a, NEW ref,
         NEW d, Selected(r, g, a, ref) = {d},
         NEW e \in g.unbound, e # d, r.decls[e].name = ref.name,
         NEW s \in r.decls[e].scope, IsPrefix(s, r.agents[a].path),
         NEW t \in r.decls[d].scope
  PROVE  Len(s) < Len(t)
  <1> DEFINE matches == {x \in g.unbound : r.decls[x].name = ref.name}
             scoped == {x \in matches : \E u \in r.decls[x].scope :
                                          IsPrefix(u, r.agents[a].path)}
             depth(x) == Len(CHOOSE u \in r.decls[x].scope : TRUE)
             nearest == {x \in scoped : \A y \in scoped : depth(y) <= depth(x)}
  <1>1. ScopedMatches(r, a, matches) = nearest
    BY DEF ScopedMatches
  <1>2. {d} = IF nearest # {} THEN nearest ELSE matches
    BY <1>1 DEF Selected
  <1>3. e \in scoped /\ e \notin nearest
    <2>1. e \in matches
      OBVIOUS
    <2>2. e \in scoped
      BY <2>1
    <2>3. nearest \subseteq {d}
      BY <1>2
    <2> QED BY <2>2, <2>3
  <1>4. d \in matches
    BY <1>2
  <1>5. nearest = {d}
    <2>1. CASE nearest # {}
      BY <1>2, <2>1
    <2>2. CASE nearest = {}
      <3>1. matches = {d}
        BY <1>2, <2>2
      <3> QED BY <3>1, <1>3
    <2> QED BY <2>1, <2>2
  <1>6. PICK y \in scoped : ~(depth(y) <= depth(e))
    BY <1>3
  <1>7. d \in scoped /\ depth(y) <= depth(d)
    BY <1>5
  <1>8. /\ depth(e) = Len(s) /\ depth(d) = Len(t)
        /\ Len(s) \in Nat /\ Len(t) \in Nat
    BY <1>4 DEF IsTree
  <1>9. depth(y) \in Nat
    <2>1. y \in DOMAIN r.decls /\ r.decls[y].scope # {}
      BY <1>6
    <2> QED BY <2>1 DEF IsTree
  <1> QED BY <1>6, <1>7, <1>8, <1>9

(***************************************************************************)
(* References of FastAgent: each gets the only server it can mean, and no  *)
(* server that is left to others is nearer (_fast_agent_scoped_matches);   *)
(* a filter takes away and never adds.                                     *)
(***************************************************************************)
LEMMA ReferencedGraph ==
  ASSUME NEW r, IsTree(r)
  PROVE  /\ GraphOf(r, Referenced(r)) /\ OwnCopies(r, Referenced(r))
         /\ \A a \in DOMAIN r.agents : Imported(r).bound[a] \subseteq Referenced(r).bound[a]
         /\ Imported(r).unresolved \subseteq Referenced(r).unresolved
         /\ ReferencesResolved(r, Referenced(r))
  <1> DEFINE g == Imported(r)
             A == DOMAIN r.agents
             fast == {a \in A : r.agents[a].fast}
             wanted == UNION {r.agents[a].refs \X {a} : a \in fast}
             selected(w) == Selected(r, g, w[2], w[1])
             chosen(w) == CHOOSE d \in selected(w) : TRUE
             unique == {w \in wanted : Cardinality(selected(w)) = 1}
             copy(w) == <<chosen(w), w[2]>>
             copies == {copy(w) : w \in unique}
             of(c) == CHOOSE u \in unique : copy(u) = c
             settings == [c \in copies |->
                            [g.server[<<c[1], 0>>] EXCEPT
                               !.origin = "fast_agent_servers_reference",
                               !.allowed = Filtered(@, of(c)[1].filter)]]
             hint(w) == IF selected(w) # {} THEN "ambiguous_fast_agent_reference"
                        ELSE "missing_fast_agent_declaration"
             h == AddCopies(g, copies, settings)
             new == h.unresolved \cup
                      {Reference(r, w[2], w[1].name, hint(w)) : w \in wanted \ unique}
                      \cup {Reference(r, a, "<dynamic>", "dynamic_server_selection") :
                              a \in {x \in fast : r.agents[x].dynamic}}
             i == [h EXCEPT !.unresolved = new]
  <1>1. Referenced(r) = i
    BY DEF Referenced, ResolveFastAgent
  <1>2. GraphOf(r, g) /\ OwnCopies(r, g) /\ g.unbound \subseteq DOMAIN r.decls
    BY ImportedGraph DEF GraphOf
  <1> HIDE DEF g
  <1>3. \A w \in wanted : \E a \in fast : w[2] = a /\ w[1] \in r.agents[a].refs
    OBVIOUS
  <1>4. \A w \in unique : /\ selected(w) = {chosen(w)} /\ chosen(w) \in g.unbound
                          /\ r.decls[chosen(w)].name = w[1].name
    <2> SUFFICES ASSUME NEW w \in unique
                 PROVE  /\ selected(w) = {chosen(w)} /\ chosen(w) \in g.unbound
                        /\ r.decls[chosen(w)].name = w[1].name
      OBVIOUS
    <2>1. selected(w) \subseteq {d \in g.unbound : r.decls[d].name = w[1].name}
      BY DEF Selected, ScopedMatches
    <2>2. IsFiniteSet(g.unbound)
      BY <1>2, TreeShape, FS_Subset
    <2> HIDE DEF selected
    <2>3. IsFiniteSet(selected(w))
      BY <2>1, <2>2, FS_Subset
    <2>4. selected(w) = {chosen(w)}
      BY <2>3, TheOnlyOne
    <2> QED BY <2>1, <2>4
  <1> HIDE DEF selected, chosen
  <1>5. copies \in SUBSET (g.unbound \X A) /\ 0 \notin A
    <2>1. ASSUME NEW c \in copies
          PROVE  c \in g.unbound \X A
      <3>1. PICK w \in unique : c = <<chosen(w), w[2]>>
        OBVIOUS
      <3>2. w[2] \in A
        BY <1>3
      <3>3. chosen(w) \in g.unbound
        BY <1>4
      <3> QED BY <3>1, <3>2, <3>3
    <2> QED BY <2>1, TreeShape
  <1>6. \A c \in copies : Serves(r.decls[c[1]], c, settings[c])
    <2> SUFFICES ASSUME NEW c \in copies
                 PROVE  Serves(r.decls[c[1]], c, settings[c])
      OBVIOUS
    <2>1. c = <<c[1], c[2]>> /\ c[1] \in g.unbound /\ c[2] \in A
      BY <1>5
    <2>2. <<c[1], 0>> \in DOMAIN g.server
      BY <1>2, <2>1 DEF GraphOf
    <2>3. Serves(r.decls[c[1]], <<c[1], 0>>, g.server[<<c[1], 0>>])
      BY <1>2, <2>2 DEF GraphOf
    <2>4. of(c) \in unique
      OBVIOUS
    <2>5. \A f \in of(c)[1].filter : f \subseteq ToolNames
      BY <1>3, <2>4 DEF IsTree
    <2>6. settings[c] = [g.server[<<c[1], 0>>] EXCEPT
                           !.origin = "fast_agent_servers_reference",
                           !.allowed = Filtered(@, of(c)[1].filter)]
      OBVIOUS
    <2>7. c[2] # 0
      BY <1>5, <2>1
    <2> DEFINE server == g.server[<<c[1], 0>>]
               filter == of(c)[1].filter
               decl == r.decls[c[1]]
    <2>8. /\ Serves(decl, <<c[1], 0>>, server) /\ \A f \in filter : f \subseteq ToolNames
          /\ settings[c] = [server EXCEPT !.origin = "fast_agent_servers_reference",
                                          !.allowed = Filtered(server.allowed, filter)]
      BY <2>3, <2>5, <2>6
    <2> HIDE DEF settings, server, filter, decl
    <2>9. ASSUME NEW k, k = settings[c], NEW d, d = c[1], NEW b, b = c[2]
          PROVE  Serves(decl, <<d, b>>, k)
      <3>1. /\ Serves(decl, <<d, 0>>, server) /\ b # 0 /\ \A f \in filter : f \subseteq ToolNames
            /\ k = [server EXCEPT !.origin = "fast_agent_servers_reference",
                                  !.allowed = Filtered(server.allowed, filter)]
        BY <2>7, <2>8, <2>9
      <3> QED BY <3>1, FilteredCopyServes
    <2> QED BY <2>1, <2>9 DEF decl
  <1> HIDE DEF copies, settings
  <1>7. /\ GraphOf(r, h) /\ OwnCopies(r, h) /\ h.unresolved = g.unresolved
        /\ \A a \in A : g.bound[a] \subseteq h.bound[a]
        /\ \A c \in copies : c \in h.bound[c[2]]
    <2>1. CopiesFor(r, g, copies, settings)
      BY <1>5, <1>6 DEF settings, CopiesFor
    <2> HIDE DEF fast, wanted, unique, copy, of, hint, new, i
    <2> QED BY <1>2, <2>1, CopiesAdded
  <1> HIDE DEF h
  <1>8. /\ GraphOf(r, i) /\ OwnCopies(r, i) /\ i.bound = h.bound /\ i.unresolved = new
    BY <1>7, ReportedOnly
  <1> HIDE DEF i
  <1>9. Uncopied(r, i) \subseteq g.unbound
    <2>1. Uncopied(r, i) \subseteq Uncopied(r, g)
      BY <1>7, <1>8 DEF Uncopied
    <2> QED BY <1>2, <2>1, UncopiedUnbound
  <1>10. ReferencesResolved(r, i)
    <2> SUFFICES ASSUME NEW a \in fast, NEW ref \in r.agents[a].refs
                 PROVE  \/ UnresolvedFor(r, i, a, ref.name)
                        \/ \E d \in DOMAIN r.decls :
                             /\ <<d, a>> \in i.bound[a] /\ r.decls[d].name = ref.name
                             /\ \A e \in Uncopied(r, i) :
                                  \A s \in r.decls[e].scope : \A t \in r.decls[d].scope :
                                    r.decls[e].name = ref.name /\ IsPrefix(s, r.agents[a].path)
                                      => Len(s) < Len(t)
      BY DEF ReferencesResolved
    <2> DEFINE w == <<ref, a>>
    <2>1. w \in wanted
      OBVIOUS
    <2>2. CASE w \in unique
      <3> DEFINE d == chosen(w)
      <3>1. /\ <<d, a>> \in i.bound[a] /\ r.decls[d].name = ref.name /\ d \in DOMAIN r.decls
            /\ d \in g.unbound
        BY <1>2, <1>4, <1>7, <1>8, <2>2 DEF copies
      <3>2. Selected(r, g, a, ref) = {d}
        BY <1>4, <2>2 DEF selected
      <3>3. <<d, a>> \notin {<<e, a>> : e \in Uncopied(r, i)}
        BY <3>1 DEF Uncopied
      <3> HIDE DEF d
      <3>4. ASSUME NEW e \in Uncopied(r, i), NEW s \in r.decls[e].scope,
                   NEW t \in r.decls[d].scope,
                   r.decls[e].name = ref.name, IsPrefix(s, r.agents[a].path)
            PROVE  Len(s) < Len(t)
        BY <1>2, <1>9, <3>1, <3>2, <3>3, <3>4, NearestIsSelected DEF Uncopied
      <3> QED BY <3>1, <3>4
    <2>3. CASE w \notin unique
      <3>1. Reference(r, a, ref.name, hint(w)) \in i.unresolved
        BY <1>8, <2>1, <2>3
      <3> QED BY <3>1 DEF UnresolvedFor, Reference
    <2> QED BY <2>2, <2>3
  <1>11. g.unresolved \subseteq i.unresolved
    BY <1>7, <1>8
  <1> QED BY <1>1, <1>7, <1>8, <1>10, <1>11 DEF g

\* The values of a function on a finite set.
LEMMA FiniteRange ==
  ASSUME NEW f, IsFiniteSet(DOMAIN f)
  PROVE  IsFiniteSet({f[x] : x \in DOMAIN f})
  <1> DEFINE S == DOMAIN f  T == {f[x] : x \in S}
             g == [x \in S |-> f[x]]
  <1>1. g \in Surjection(S, T)
    BY DEF Surjection
  <1> QED BY <1>1, FS_Surjection

\* An identity or a resource that is added leaves a server what it was for its agents.
LEMMA OtherwiseServes ==
  ASSUME NEW decl, NEW x, NEW server, Serves(decl, x, server),
         NEW other, DOMAIN other = DOMAIN server,
         \A k \in ServerFields \ {"origin", "identity", "resources"} : other[k] = server[k]
  PROVE  Serves(decl, x, other)
  <1>1. /\ other.url = server.url /\ other.authenticated = server.authenticated
        /\ other.denied = server.denied /\ other.allowed = server.allowed
    BY DEF ServerFields
  <1> QED BY <1>1 DEF Serves, Callable

(***************************************************************************)
(* Clients whose tools several agents are given: the agents share the      *)
(* servers (reconstruct_mcp_authority).                                    *)
(***************************************************************************)
LEMMA AuthorizedGraph ==
  ASSUME NEW r, IsTree(r)
  PROVE  /\ GraphOf(r, Authorized(r)) /\ ClientsShared(r, Authorized(r))
         /\ \A a \in DOMAIN r.agents : Referenced(r).bound[a] \subseteq Authorized(r).bound[a]
         /\ Authorized(r).unresolved = Referenced(r).unresolved
  <1> DEFINE g == Referenced(r)
             A == DOMAIN r.agents
             h == Authorized(r)
  <1>1. GraphOf(r, g) /\ OwnCopies(r, g)
    BY ReferencedGraph
  <1>2. /\ DOMAIN h = DOMAIN g /\ h.unresolved = g.unresolved
        /\ h.unbound = g.unbound \ Taken(r, g)
        /\ h.bound = [a \in A |-> g.bound[a] \cup (GivenTo(r, g, a) \X {0})]
        /\ h.server = [s \in DOMAIN g.server |-> GivenServer(r, g, s)]
        /\ h.identities = [a \in A |-> g.identities[a] \cup
                             {ConfiguredIdentity(r, a, d) :
                                d \in {n \in Unidentified(r, g) : FirstAgent(r, g, n) = a}}]
    BY <1>1 DEF Authorized, ReconstructAuthority, GraphOf
  <1> HIDE DEF g, h
  <1>3. \A k \in Binding(r) : AgentOf(r, k) \in A
    <2> SUFFICES ASSUME NEW k \in Binding(r) PROVE AgentOf(r, k) \in A
      OBVIOUS
    <2> DEFINE named == AgentsNamed(r, r.relations[k].path, r.relations[k].agent)
    <2>1. named \subseteq A /\ Cardinality(named) = 1 /\ IsFiniteSet(A)
      BY TreeShape DEF AgentsNamed, Binds, Binding
    <2>2. IsFiniteSet(named)
      BY <2>1, FS_Subset
    <2> HIDE DEF named
    <2>3. named = {CHOOSE a \in named : TRUE}
      BY <2>1, <2>2, TheOnlyOne
    <2> QED BY <2>1, <2>3 DEF AgentOf, named
  <1>4. \A k : Offered(r, g, k) \subseteq g.unbound
    BY DEF Offered
  <1>5. /\ \A a \in A : GivenTo(r, g, a) \subseteq Taken(r, g)
        /\ \A d \in Taken(r, g) : \E a \in A : d \in GivenTo(r, g, a)
        /\ Taken(r, g) \subseteq g.unbound
    BY <1>3, <1>4 DEF GivenTo, Taken
  <1>6. GraphOf(r, h)
    <2>1. DOMAIN h = {"unbound", "bound", "server", "identities", "unresolved"}
      BY <1>1, <1>2 DEF GraphOf
    <2>2. DOMAIN h.bound = A /\ DOMAIN h.identities = A /\ DOMAIN h.server = DOMAIN g.server
      BY <1>2
    <2>3. \A a \in A : h.bound[a] = g.bound[a] \cup (GivenTo(r, g, a) \X {0})
      BY <1>2
    <2>4. \A a \in A : h.bound[a] \subseteq DOMAIN h.server
      BY <1>1, <1>5, <2>2, <2>3 DEF GraphOf
    <2>5. BoundOrUnbound(r, h)
      <3> SUFFICES ASSUME NEW d \in DOMAIN r.decls
                   PROVE  (d \in h.unbound) <=> (\A a \in A : \A x \in h.bound[a] : x[1] # d)
        BY DEF BoundOrUnbound
      <3>1. (d \in g.unbound) <=> (\A a \in A : \A x \in g.bound[a] : x[1] # d)
        BY <1>1 DEF GraphOf, BoundOrUnbound
      <3>2. (d \in h.unbound) <=> (d \in g.unbound /\ \A a \in A : d \notin GivenTo(r, g, a))
        BY <1>2, <1>5
      <3>3. \A a \in A : (\A x \in h.bound[a] : x[1] # d)
                           <=> (\A x \in g.bound[a] : x[1] # d) /\ d \notin GivenTo(r, g, a)
        <4> SUFFICES ASSUME NEW a \in A
                     PROVE  (\A x \in h.bound[a] : x[1] # d)
                              <=> (\A x \in g.bound[a] : x[1] # d) /\ d \notin GivenTo(r, g, a)
          OBVIOUS
        <4>1. h.bound[a] = g.bound[a] \cup (GivenTo(r, g, a) \X {0})
          BY <2>3
        <4>2. d \in GivenTo(r, g, a) => <<d, 0>> \in GivenTo(r, g, a) \X {0}
          OBVIOUS
        <4>3. \A x \in GivenTo(r, g, a) \X {0} : x[1] \in GivenTo(r, g, a)
          OBVIOUS
        <4> QED BY <4>1, <4>2, <4>3
      <3> QED BY <3>1, <3>2, <3>3
    <2>6. \A x \in DOMAIN h.server : Serves(r.decls[x[1]], x, h.server[x])
      <3> SUFFICES ASSUME NEW x \in DOMAIN g.server
                   PROVE  Serves(r.decls[x[1]], x, h.server[x])
        BY <2>2
      <3>1. Serves(r.decls[x[1]], x, g.server[x])
        BY <1>1 DEF GraphOf
      <3>2. DOMAIN g.server[x] = ServerFields
        BY <3>1 DEF Serves
      <3>3. h.server[x] = GivenServer(r, g, x)
        BY <1>2
      <3>4. /\ DOMAIN h.server[x] = DOMAIN g.server[x]
            /\ \A k \in ServerFields \ {"origin", "identity", "resources"} :
                 h.server[x][k] = g.server[x][k]
        BY <3>2, <3>3 DEF GivenServer
      <3> QED BY <3>1, <3>4, OtherwiseServes
    <2>7. \A a \in A : IsFiniteSet(h.identities[a])
      <3> SUFFICES ASSUME NEW a \in A PROVE IsFiniteSet(h.identities[a])
        OBVIOUS
      <3> DEFINE mine == {n \in Unidentified(r, g) : FirstAgent(r, g, n) = a}
                 new == [d \in mine |-> ConfiguredIdentity(r, a, d)]
      <3>1. IsFiniteSet(g.unbound)
        BY <1>1, TreeShape, FS_Subset DEF GraphOf
      <3>2. mine \subseteq g.unbound
        BY <1>5 DEF Unidentified
      <3>3. IsFiniteSet(DOMAIN new)
        BY <3>1, <3>2, FS_Subset
      <3>4. IsFiniteSet({new[d] : d \in DOMAIN new})
        BY <3>3, FiniteRange
      <3> DEFINE added == {ConfiguredIdentity(r, a, d) : d \in mine}
      <3>5. IsFiniteSet(added)
        <4>1. {new[d] : d \in DOMAIN new} = added
          OBVIOUS
        <4> QED BY <3>4, <4>1
      <3>6. h.identities[a] = g.identities[a] \cup added
        BY <1>2
      <3>7. IsFiniteSet(g.identities[a])
        BY <1>1 DEF GraphOf
      <3> HIDE DEF added
      <3> QED BY <3>5, <3>6, <3>7, FS_Union
    <2>8. /\ h.unbound \subseteq DOMAIN r.decls
          /\ (DOMAIN r.decls) \X {0} \subseteq DOMAIN h.server
          /\ DOMAIN h.server \subseteq (DOMAIN r.decls) \X (DOMAIN r.agents \cup {0})
      BY <1>1, <1>2, <2>2 DEF GraphOf
    <2> QED BY <2>1, <2>2, <2>4, <2>5, <2>6, <2>7, <2>8 DEF GraphOf
  <1>7. \A a \in A : g.bound[a] \subseteq h.bound[a]
    <2>1. \A a \in A : h.bound[a] = g.bound[a] \cup (GivenTo(r, g, a) \X {0})
      BY <1>2
    <2> QED BY <2>1
  <1>8. ClientsShared(r, h)
    <2> SUFFICES ASSUME NEW k \in Binding(r), NEW d \in Uncopied(r, h),
                        r.decls[d].path = r.relations[k].path,
                        \A c \in r.clients : c.names = {} \/ r.decls[d].name \in c.names
                 PROVE  <<d, 0>> \in h.bound[AgentOf(r, k)]
      BY DEF ClientsShared, Binding
    <2>1. d \in Uncopied(r, g)
      BY <1>7 DEF Uncopied
    <2>2. d \in g.unbound
      BY <1>1, <2>1, UncopiedUnbound
    <2>3. d \in Offered(r, g, k)
      BY <2>2 DEF Offered, Binds, Binding
    <2>4. d \in GivenTo(r, g, AgentOf(r, k))
      BY <2>3 DEF GivenTo
    <2> QED BY <1>2, <1>3, <2>4
  <1> QED BY <1>2, <1>6, <1>7, <1>8 DEF g, h

(***************************************************************************)
(* What is added last, identities, changes nothing of the bindings         *)
(* (reconstruct_mcp_context).                                              *)
(***************************************************************************)
LEMMA BindingsGraph ==
  ASSUME NEW r, IsTree(r)
  PROVE  /\ GraphOf(r, Bindings(r))
         /\ Bindings(r).bound = Authorized(r).bound
         /\ Bindings(r).unresolved = Authorized(r).unresolved
  <1> DEFINE g == Authorized(r)
             A == DOMAIN r.agents
             holders(s) == {a \in DOMAIN g.bound : s \in g.bound[a]}
             needs == {s \in DOMAIN g.server : /\ holders(s) # {} /\ g.server[s].credential
                                               /\ g.server[s].identity = {}}
             first(s) == CHOOSE a \in holders(s) : \A b \in holders(s) : a <= b
             name(s) == <<r.agents[first(s)].name, g.server[s].name, "mcp-auth">>
             h == Bindings(r)
  <1>1. GraphOf(r, g)
    BY AuthorizedGraph
  <1>2. /\ DOMAIN h = DOMAIN g /\ h.unresolved = g.unresolved
        /\ h.unbound = g.unbound /\ h.bound = g.bound
        /\ h.server = [s \in DOMAIN g.server |->
                         IF s \in needs THEN [g.server[s] EXCEPT !.identity = {name(s)}]
                         ELSE g.server[s]]
        /\ h.identities = [a \in A |-> g.identities[a] \cup
                             {[name |-> name(s), credential |-> TRUE] :
                                s \in {n \in needs : first(n) = a}}]
    BY <1>1 DEF Bindings, ReconstructContext, GraphOf
  <1>3. needs \subseteq DOMAIN g.server
    OBVIOUS
  <1> HIDE DEF g, h, needs, first, name
  <1>4. \A x \in DOMAIN h.server : Serves(r.decls[x[1]], x, h.server[x])
    <2> SUFFICES ASSUME NEW x \in DOMAIN g.server
                 PROVE  Serves(r.decls[x[1]], x, h.server[x])
      BY <1>2
    <2>1. Serves(r.decls[x[1]], x, g.server[x])
      BY <1>1 DEF GraphOf
    <2>2. DOMAIN g.server[x] = ServerFields
      BY <2>1 DEF Serves
    <2>3. h.server[x] = IF x \in needs THEN [g.server[x] EXCEPT !.identity = {name(x)}]
                        ELSE g.server[x]
      BY <1>2
    <2>4. /\ DOMAIN h.server[x] = DOMAIN g.server[x]
          /\ \A k \in ServerFields \ {"origin", "identity", "resources"} :
               h.server[x][k] = g.server[x][k]
      BY <2>2, <2>3
    <2> QED BY <2>1, <2>4, OtherwiseServes
  <1>5. \A a \in A : IsFiniteSet(h.identities[a])
    <2> SUFFICES ASSUME NEW a \in A PROVE IsFiniteSet(h.identities[a])
      OBVIOUS
    <2> DEFINE mine == {n \in needs : first(n) = a}
               new == [s \in mine |-> [name |-> name(s), credential |-> TRUE]]
               all == (DOMAIN r.decls) \X (A \cup {0})
    <2>1. IsFiniteSet(all)
      BY TreeShape, FS_Product, FS_AddElement
    <2>2. mine \subseteq all
      BY <1>1, <1>3 DEF GraphOf
    <2>3. IsFiniteSet(DOMAIN new)
      BY <2>1, <2>2, FS_Subset
    <2>4. IsFiniteSet({new[s] : s \in DOMAIN new})
      BY <2>3, FiniteRange
    <2> DEFINE added == {[name |-> name(s), credential |-> TRUE] : s \in mine}
    <2>5. IsFiniteSet(added)
      <3>1. {new[s] : s \in DOMAIN new} = added
        OBVIOUS
      <3> QED BY <2>4, <3>1
    <2>6. h.identities[a] = g.identities[a] \cup added
      BY <1>2
    <2>7. IsFiniteSet(g.identities[a])
      BY <1>1 DEF GraphOf
    <2> HIDE DEF added
    <2> QED BY <2>5, <2>6, <2>7, FS_Union
  <1>6. GraphOf(r, h)
    <2>1. DOMAIN h.server = DOMAIN g.server /\ DOMAIN h.identities = A
      BY <1>2
    <2>2. BoundOrUnbound(r, h)
      BY <1>1, <1>2 DEF GraphOf, BoundOrUnbound
    <2>3. DOMAIN h = DOMAIN g /\ h.unbound = g.unbound /\ h.bound = g.bound
      BY <1>2
    <2> QED BY <1>1, <1>4, <1>5, <2>1, <2>2, <2>3 DEF GraphOf
  <1> QED BY <1>2, <1>6 DEF g, h

(***************************************************************************)
(* Nothing that the repository says of MCP servers is lost or doubled on   *)
(* the way to the agents: the parts of McpAccountedFor, after all passes.  *)
(***************************************************************************)
LEMMA BindingsAccountForAll ==
  ASSUME NEW r, IsTree(r)
  PROVE  /\ BoundOrUnbound(r, Bindings(r))
         /\ ImportsResolved(r, Bindings(r)) /\ ReferencesResolved(r, Bindings(r))
         /\ ClientsShared(r, Bindings(r)) /\ NoneWidened(r, Bindings(r))
  <1> DEFINE g == Bindings(r)
             A == DOMAIN r.agents
  <1>1. /\ \A a \in A : Imported(r).bound[a] \subseteq Referenced(r).bound[a]
        /\ \A a \in A : Referenced(r).bound[a] \subseteq g.bound[a]
        /\ \A a \in A : Authorized(r).bound[a] = g.bound[a]
    BY ReferencedGraph, AuthorizedGraph, BindingsGraph
  <1>2. /\ Imported(r).unresolved \subseteq g.unresolved
        /\ Referenced(r).unresolved = g.unresolved
    BY ReferencedGraph, AuthorizedGraph, BindingsGraph
  <1>3. GraphOf(r, g)
    BY BindingsGraph
  <1> HIDE DEF g
  <1>4. BoundOrUnbound(r, g)
    BY <1>3 DEF GraphOf
  <1>5. ImportsResolved(r, g)
    <2>1. ImportsResolved(r, Imported(r))
      BY ImportedGraph
    <2>2. ASSUME NEW a \in A, NEW p \in r.agents[a].imports,
                 UnresolvedFor(r, Imported(r), a, p.name)
          PROVE  UnresolvedFor(r, g, a, p.name)
      BY <1>2, <2>2 DEF UnresolvedFor
    <2> QED BY <1>1, <2>1, <2>2 DEF ImportsResolved
  <1>6. ReferencesResolved(r, g)
    <2>1. ReferencesResolved(r, Referenced(r))
      BY ReferencedGraph
    <2>2. ASSUME NEW a \in A, NEW ref \in r.agents[a].refs,
                 UnresolvedFor(r, Referenced(r), a, ref.name)
          PROVE  UnresolvedFor(r, g, a, ref.name)
      BY <1>2, <2>2 DEF UnresolvedFor
    <2>3. Uncopied(r, g) \subseteq Uncopied(r, Referenced(r))
      BY <1>1 DEF Uncopied
    <2> QED BY <1>1, <2>1, <2>2, <2>3 DEF ReferencesResolved
  <1>7. ClientsShared(r, g)
    <2>1. ClientsShared(r, Authorized(r)) /\ Authorized(r).bound = g.bound
      BY AuthorizedGraph, BindingsGraph DEF g
    <2> QED BY <2>1 DEF ClientsShared, Uncopied
  <1>8. NoneWidened(r, g)
    BY <1>3 DEF GraphOf, NoneWidened, Serves
  <1> QED BY <1>4, <1>5, <1>6, <1>7, <1>8 DEF g

-----------------------------------------------------------------------------
(* What the comparison shows of what agents gain.                          *)

\* A relationship of which nothing expanded, or an expansion of its target.
LEMMA ExpandedOrNot ==
  ASSUME NEW base, NEW head, NEW h \in head
  PROVE  \/ \E e \in Expansions(base, head) : e.target = h.target
         \/ \E b \in base : b.target = h.target /\ ExpansionReasons(b, h) = {}
  <1>1. CASE \A b \in base : b.target # h.target
    <2> DEFINE e == [target |-> h.target, reasons |-> {"new_relationship"}, crossings |-> {}]
    <2>1. e \in Expansions(base, head)
      BY <1>1 DEF Expansions
    <2> QED BY <2>1
  <1>2. ASSUME NEW b \in base, b.target = h.target, ExpansionReasons(b, h) # {}
        PROVE  \E e \in Expansions(base, head) : e.target = h.target
    <2> DEFINE q == <<b, h>>
               e == [target |-> h.target, reasons |-> ExpansionReasons(b, h),
                     crossings |-> Crossings(b, h)]
    <2>1. e \in Expansions(base, head)
      <3>1. q \in {p \in base \X head : /\ p[1].target = p[2].target
                                        /\ ExpansionReasons(p[1], p[2]) # {}}
        BY <1>2
      <3>2. e = [target |-> q[2].target, reasons |-> ExpansionReasons(q[1], q[2]),
                 crossings |-> Crossings(q[1], q[2])]
        OBVIOUS
      <3> HIDE DEF q, e
      <3> QED BY <3>1, <3>2 DEF Expansions
    <2> QED BY <2>1
  <1> QED BY <1>1, <1>2

LEMMA NothingExpanded ==
  ASSUME NEW b, NEW h, ExpansionReasons(b, h) = {}
  PROVE  /\ h.capabilities \subseteq b.capabilities /\ h.resources \subseteq b.resources
         /\ h.destinations \subseteq b.destinations
         /\ ~IdentityExpanded(b, h) /\ ~ApprovalWeakened(b, h)
         /\ ~(h.server /\ ScopeExpanded(b, h))
  <1>1. /\ "capabilities_added" \notin ExpansionReasons(b, h)
        /\ "identity" \notin ExpansionReasons(b, h)
        /\ "approval_weakened" \notin ExpansionReasons(b, h)
        /\ "tool_scope_expanded" \notin ExpansionReasons(b, h)
        /\ "resources_added" \notin ExpansionReasons(b, h)
        /\ "destinations_added" \notin ExpansionReasons(b, h)
    OBVIOUS
  <1> QED BY <1>1 DEF ExpansionReasons

\* Who has a relationship with a target of that kind.
LEMMA RelationshipOf ==
  ASSUME NEW agents, NEW r \in Relationships(agents)
  PROVE  \E a \in agents : \/ \E t \in a.tools : r = ToolAuthority(a, t)
                           \/ \E s \in a.servers : r = ServerAuthority(a, s)
  <1>1. PICK a \in agents : r \in {ToolAuthority(a, t) : t \in a.tools}
                                    \cup {ServerAuthority(a, s) : s \in a.servers}
    BY DEF Relationships
  <1> QED BY <1>1

\* An agent of that name could do as much with a tool, or a server, of that name.
HadTool(base, agent, t) ==
  \E b \in base : b.name = agent /\ \E u \in b.tools : u.name = t.name /\ NoMoreThan(t, u)

HadServer(base, agent, s) ==
  \E b \in base : /\ b.name = agent
                  /\ \E u \in b.servers :
                       /\ u.name = s.name
                       /\ Callable(s, ToolNames) \subseteq Callable(u, ToolNames)
                       /\ s.url \in {u.url, "none"} /\ s.resources \subseteq u.resources

\* An index has relationships of the list only, and one of each id.
LEMMA Indexed ==
  ASSUME NEW rels, NEW index \in Indexes(rels)
  PROVE  /\ index \subseteq rels
         /\ \A r \in rels : \E k \in index : k.target = r.target
  <1>1. index \subseteq rels
    BY DEF Indexes
  <1>2. ASSUME NEW r \in rels
        PROVE  \E k \in index : k.target = r.target
    <2> DEFINE same == {k \in index : k.target = r.target}
    <2>1. Cardinality(same) = 1
      BY DEF Indexes
    <2>2. same # {}
      BY <2>1, FS_EmptySet
    <2> QED BY <2>2
  <1> QED BY <1>1, <1>2

(***************************************************************************)
(* Whatever an agent can do at head with a tool and could not do at base   *)
(* is among the expansions of that tool, if the head's index has the tool. *)
(***************************************************************************)
LEMMA ToolGainsShown ==
  ASSUME NEW base, NEW a, NEW t,
         NEW earlier, earlier \subseteq Relationships(base),
         NEW later, ToolAuthority(a, t) \in later,
         \A e \in Expansions(earlier, later) : e.target # <<a.name, "tool", t.name>>
  PROVE  HadTool(base, a.name, t)
  <1> DEFINE h == ToolAuthority(a, t)
  <1>1. h \in later
    OBVIOUS
  <1>2. /\ h.target = <<a.name, "tool", t.name>> /\ h.capabilities = t.capabilities
        /\ h.identity = t.identity /\ h.resources = t.resources
        /\ h.destinations = t.destinations
    BY DEF ToolAuthority
  <1> HIDE DEF h
  <1>3. \/ \E e \in Expansions(earlier, later) : e.target = h.target
        \/ \E r \in earlier : r.target = h.target /\ ExpansionReasons(r, h) = {}
    BY <1>1, ExpandedOrNot
  <1>4. PICK r \in Relationships(base) : r.target = h.target /\ ExpansionReasons(r, h) = {}
    BY <1>2, <1>3
  <1>5. PICK b \in base : \/ \E u \in b.tools : r = ToolAuthority(b, u)
                          \/ \E x \in b.servers : r = ServerAuthority(b, x)
    BY RelationshipOf
  <1>6. \A s : ServerAuthority(b, s).target # h.target
    BY <1>2 DEF ServerAuthority
  <1>7. PICK u \in b.tools : r = ToolAuthority(b, u)
    BY <1>4, <1>5, <1>6
  <1>8. /\ r.target = <<b.name, "tool", u.name>> /\ r.capabilities = u.capabilities
        /\ r.identity = u.identity /\ r.resources = u.resources
        /\ r.destinations = u.destinations
    BY <1>7 DEF ToolAuthority
  <1>9. b.name = a.name /\ u.name = t.name
    BY <1>2, <1>4, <1>8
  <1>10. NoMoreThan(t, u)
    <2>1. /\ t.capabilities \subseteq u.capabilities /\ t.resources \subseteq u.resources
          /\ t.destinations \subseteq u.destinations
      BY <1>2, <1>4, <1>8, NothingExpanded
    <2>2. ASSUME NEW i \in t.identity
          PROVE  \E j \in u.identity : /\ i.name = j.name /\ i.roles \subseteq j.roles
                                       /\ i.oauth_scopes \subseteq j.oauth_scopes
      BY <1>2, <1>4, <1>8, NothingExpanded DEF IdentityExpanded
    <2> QED BY <2>1, <2>2 DEF NoMoreThan
  <1> QED BY <1>9, <1>10 DEF HadTool

\* The same with a server.
LEMMA ServerGainsShown ==
  ASSUME NEW base, NEW a, NEW s,
         NEW earlier, earlier \subseteq Relationships(base),
         NEW later, ServerAuthority(a, s) \in later,
         \A e \in Expansions(earlier, later) : e.target # <<a.name, "mcp_server", s.name>>
  PROVE  HadServer(base, a.name, s)
  <1> DEFINE h == ServerAuthority(a, s)
  <1>1. h \in later
    OBVIOUS
  <1>2. /\ h.target = <<a.name, "mcp_server", s.name>> /\ h.server /\ h.dynamic = s.dynamic
        /\ h.allowed = s.allowed /\ h.denied = s.denied /\ h.resources = s.resources
        /\ h.destinations = {u \in {s.url} : u # "none"}
    BY DEF ServerAuthority
  <1> HIDE DEF h
  <1>3. \/ \E e \in Expansions(earlier, later) : e.target = h.target
        \/ \E r \in earlier : r.target = h.target /\ ExpansionReasons(r, h) = {}
    BY <1>1, ExpandedOrNot
  <1>4. PICK r \in Relationships(base) : r.target = h.target /\ ExpansionReasons(r, h) = {}
    BY <1>2, <1>3
  <1>5. PICK b \in base : \/ \E t \in b.tools : r = ToolAuthority(b, t)
                          \/ \E u \in b.servers : r = ServerAuthority(b, u)
    BY RelationshipOf
  <1>6. \A t : ToolAuthority(b, t).target # h.target
    BY <1>2 DEF ToolAuthority
  <1>7. PICK u \in b.servers : r = ServerAuthority(b, u)
    BY <1>4, <1>5, <1>6
  <1>8. /\ r.target = <<b.name, "mcp_server", u.name>> /\ r.dynamic = u.dynamic
        /\ r.allowed = u.allowed /\ r.denied = u.denied /\ r.resources = u.resources
        /\ r.destinations = {x \in {u.url} : x # "none"}
    BY <1>7 DEF ServerAuthority
  <1>9. b.name = a.name /\ u.name = s.name
    BY <1>2, <1>4, <1>8
  <1>10. /\ ~ScopeExpanded(r, h) /\ h.destinations \subseteq r.destinations
         /\ h.resources \subseteq r.resources
    BY <1>2, <1>4, NothingExpanded
  <1>11. s.url \in {u.url, "none"} /\ s.resources \subseteq u.resources
    BY <1>2, <1>8, <1>10
  <1>12. Callable(s, ToolNames) \subseteq Callable(u, ToolNames)
    <2>1. /\ s.allowed \subseteq u.allowed /\ u.denied \subseteq s.denied
          /\ Scope(r) = "explicit_allowlist" => Scope(h) = "explicit_allowlist"
      BY <1>2, <1>8, <1>10 DEF ScopeExpanded
    <2>2. u.allowed # {} => s.allowed # {}
      BY <1>2, <1>8, <2>1 DEF Scope
    <2> QED BY <2>1, <2>2 DEF Callable
  <1> QED BY <1>9, <1>11, <1>12 DEF HadServer

-----------------------------------------------------------------------------
(* What the comparison shows of where agents cross boundaries.             *)

LEMMA ControlWeakened ==
  ASSUME NEW b, NEW h, "control" \in Crossings(b, h)
  PROVE  ApprovalWeakened(b, h)
  <1>1. Rises(ControlClass(b), ControlClass(h), ControlOrder)
    BY DEF Crossings
  <1>2. \/ ControlClass(b) = "mandatory_approval" /\ ControlClass(h) # "mandatory_approval"
        \/ /\ ControlClass(b) = "guardrail_control"
           /\ ControlClass(h) = "explicitly_no_approval"
    BY <1>1 DEF Rises, ControlOrder
  <1> QED BY <1>2 DEF ControlClass, ApprovalWeakened

LEMMA IdentityBroadened ==
  ASSUME NEW b, NEW h, "identity" \in Crossings(b, h)
  PROVE  IdentityExpanded(b, h)
  <1>1. Rises(IdentityClass(b), IdentityClass(h), IdentityOrder)
    BY DEF Crossings
  <1>2. /\ {IdentityClass(b), IdentityClass(h)} \subseteq
              {"workload_service_identity", "oauth_delegated_authority", "iam_authority",
               "broad_privileged_authority"}
        /\ IdentityClass(b) # IdentityClass(h)
        /\ IdentityClass(b) = "broad_privileged_authority" => FALSE
        /\ IdentityClass(b) = "iam_authority" => IdentityClass(h) = "broad_privileged_authority"
        /\ IdentityClass(b) = "oauth_delegated_authority" =>
              IdentityClass(h) \in {"iam_authority", "broad_privileged_authority"}
    BY <1>1 DEF Rises, IdentityOrder, Range
  <1>3. b.identity # {} /\ h.identity # {}
    BY <1>2 DEF IdentityClass
  <1> DEFINE i == CHOOSE x \in h.identity : TRUE
             j == CHOOSE x \in b.identity : TRUE
  <1>4. i \in h.identity /\ j \in b.identity
    BY <1>3
  <1>5. /\ IdentityClass(h) =
             (IF (i.roles \cup i.oauth_scopes) \cap Broad # {} THEN "broad_privileged_authority"
              ELSE IF i.roles # {} THEN "iam_authority"
              ELSE IF i.oauth_scopes # {} THEN "oauth_delegated_authority"
              ELSE "workload_service_identity")
        /\ IdentityClass(b) =
             (IF (j.roles \cup j.oauth_scopes) \cap Broad # {} THEN "broad_privileged_authority"
              ELSE IF j.roles # {} THEN "iam_authority"
              ELSE IF j.oauth_scopes # {} THEN "oauth_delegated_authority"
              ELSE "workload_service_identity")
    BY <1>3 DEF IdentityClass
  <1> HIDE DEF i, j
  <1> SUFFICES ASSUME i.roles \subseteq j.roles, i.oauth_scopes \subseteq j.oauth_scopes
               PROVE  FALSE
    BY <1>4 DEF IdentityExpanded
  <1>6. (i.roles \cup i.oauth_scopes) \cap Broad # {} => (j.roles \cup j.oauth_scopes) \cap Broad # {}
    OBVIOUS
  <1>7. /\ i.roles # {} => j.roles # {}
        /\ i.oauth_scopes # {} => j.oauth_scopes # {}
    OBVIOUS
  <1> QED BY <1>2, <1>5, <1>6, <1>7

LEMMA ScopeWidened ==
  ASSUME NEW b, NEW h, "mcp_scope" \in Crossings(b, h)
  PROVE  h.server /\ ScopeExpanded(b, h)
  <1>1. Rises(ScopeClass(b), ScopeClass(h), ScopeOrder)
    BY DEF Crossings
  <1>2. ScopeClass(b) = "explicit_allowlist" /\ ScopeClass(h) = "denylist_only"
    BY <1>1 DEF Rises, ScopeOrder
  <1>3. h.server /\ Scope(b) = "explicit_allowlist" /\ Scope(h) = "denylist_only"
    BY <1>2 DEF ScopeClass
  <1> QED BY <1>3 DEF ScopeExpanded

(***************************************************************************)
(* Every relationship that crosses into weaker control, a broader identity *)
(* or a wider server scope is among the expansions, with that crossing.    *)
(***************************************************************************)
LEMMA CrossingsShown ==
  ASSUME NEW base, NEW head, NEW b \in base, NEW h \in head, b.target = h.target,
         NEW family \in Crossings(b, h), family \in {"control", "identity", "mcp_scope"}
  PROVE  \E e \in Expansions(base, head) : e.target = h.target /\ family \in e.crossings
  <1> DEFINE p == <<b, h>>
  <1>1. p \in base \X head /\ p[1] = b /\ p[2] = h
    OBVIOUS
  <1>2. ExpansionReasons(b, h) # {}
    BY NothingExpanded, ControlWeakened, IdentityBroadened, ScopeWidened
  <1> HIDE DEF p
  <1> DEFINE e == [target |-> p[2].target, reasons |-> ExpansionReasons(p[1], p[2]),
                   crossings |-> Crossings(p[1], p[2])]
  <1>3. e \in Expansions(base, head)
    BY <1>1, <1>2 DEF Expansions
  <1> QED BY <1>1, <1>3

-----------------------------------------------------------------------------
(* Findings, by the rules that they are of.                                *)

IsFinding(f) == /\ f = Finding(f.rule, f.severity, f.agent, f.path, f.evidence)
                /\ f.severity \in Nat

FlowPathRules == {"PATH001", "PATH003", "PATH007"}
CooccurrenceRules == {"PATH001", "PATH002", "PATH003", "PATH004", "PATH005", "PATH006"}
ToolRules == {"AGT020", "AGT021", "AGT022", "AGT040"}
ServerRules == {"AGT030", "AGT031", "AGT032"}
AgentRules == {"CAP001", "CAP002", "CAP003", "CAP004", "CAP005", "IDN001", "NET001", "NET002",
               "AGT010", "DATA003"}

LEMMA FindingIsFinding ==
  ASSUME NEW rule, NEW severity \in Nat, NEW agent, NEW path, NEW evidence,
         NEW f, f = Finding(rule, severity, agent, path, evidence)
  PROVE  /\ IsFinding(f) /\ f.rule = rule /\ f.severity = severity /\ f.agent = agent
         /\ f.path = path /\ f.evidence = evidence
  BY DEF Finding, IsFinding

\* Facts differ if their keys or their values do.
LEMMA FactsDiffer ==
  ASSUME NEW key, NEW values, NEW otherKey, NEW otherValues,
         Fact(key, values) = Fact(otherKey, otherValues)
  PROVE  key = otherKey /\ values = otherValues
  <1> DEFINE x == [key |-> key, values |-> values]
             y == [key |-> otherKey, values |-> otherValues]
  <1>1. {x} = {y}
    BY DEF Fact
  <1>2. x = y
    BY <1>1
  <1>3. x.key = y.key /\ x.values = y.values
    BY <1>2
  <1> QED BY <1>3

LEMMA FlowFinding ==
  ASSUME NEW traced, NEW f \in FlowBackedPaths(traced)
  PROVE  /\ IsFinding(f) /\ f.rule \in FlowPathRules
         /\ \E x \in traced : \E a \in x.agents :
              f.agent = a /\ f.evidence = Fact("flow_id", Names({FlowId(x, a)}))
  <1>1. PICK x \in traced : \E r \in FlowRules(x), a \in x.agents :
          f = Finding(r.rule, r.severity, a, Front(x.site), Fact("flow_id", Names({FlowId(x, a)})))
    BY DEF FlowBackedPaths, FlowFindings
  <1>2. PICK r \in FlowRules(x), a \in x.agents :
          f = Finding(r.rule, r.severity, a, Front(x.site), Fact("flow_id", Names({FlowId(x, a)})))
    BY <1>1
  <1>3. r.rule \in FlowPathRules /\ r.severity \in Nat
    BY DEF FlowRules, FlowPathRules, CRITICAL, HIGH
  <1> DEFINE evidence == Fact("flow_id", Names({FlowId(x, a)}))
  <1>4. f = Finding(r.rule, r.severity, a, Front(x.site), evidence)
    BY <1>2
  <1> HIDE DEF evidence
  <1>5. IsFinding(f) /\ f.rule \in FlowPathRules /\ f.agent = a /\ f.evidence = evidence
    BY <1>3, <1>4, FindingIsFinding
  <1> QED BY <1>5 DEF evidence

LEMMA CooccurrenceFinding ==
  ASSUME NEW agent, NEW flowBacked, NEW f \in CooccurrencePaths(agent, flowBacked)
  PROVE  /\ IsFinding(f) /\ f.rule \in CooccurrenceRules
         /\ \E nodes : f.evidence = Fact("nodes", nodes)
  <1>1. \E rule \in CooccurrenceRules, severity \in {HIGH, CRITICAL} : \E path, nodes :
          f = PathFinding(rule, severity, agent, path, nodes)
    BY DEF CooccurrencePaths, When, CooccurrenceRules
  <1>2. PICK rule \in CooccurrenceRules, severity \in {HIGH, CRITICAL} : \E path, nodes :
          f = PathFinding(rule, severity, agent, path, nodes)
    BY <1>1
  <1>3. severity \in Nat
    BY DEF HIGH, CRITICAL
  <1> QED BY <1>2, <1>3, FindingIsFinding DEF PathFinding

LEMMA ToolFinding ==
  ASSUME NEW agent, NEW t, NEW f \in ToolFindings(agent, t)
  PROVE  /\ IsFinding(f) /\ f.rule \in ToolRules
         /\ f.rule = "AGT020" => /\ UnapprovedShell(t) /\ f.agent = agent.name /\ f.path = t.path
                                 /\ f.evidence = ToolEvidence("process.execute", t)
  <1>1. \/ /\ UnapprovedShell(t)
           /\ f = Finding("AGT020", HIGH, agent.name, t.path, ToolEvidence("process.execute", t))
        \/ \E rule \in ToolRules \ {"AGT020"}, severity \in {MEDIUM, HIGH} : \E evidence :
             f = Finding(rule, severity, agent.name, t.path, evidence)
    BY DEF ToolFindings, When, ToolRules, UnapprovedShell
  <1>2. MEDIUM \in Nat /\ HIGH \in Nat
    BY DEF MEDIUM, HIGH
  <1> QED BY <1>1, <1>2, FindingIsFinding DEF ToolRules

LEMMA ServerFinding ==
  ASSUME NEW server, NEW f \in ServerFindings(server)
  PROVE  IsFinding(f) /\ f.rule \in ServerRules
  <1>1. \E rule \in ServerRules, severity \in {MEDIUM, HIGH} : \E evidence :
          f = Finding(rule, severity, "none", server.path, evidence)
    BY DEF ServerFindings, When, ServerRules
  <1>2. MEDIUM \in Nat /\ HIGH \in Nat
    BY DEF MEDIUM, HIGH
  <1> QED BY <1>1, <1>2, FindingIsFinding

\* What an agent's policy denies and the agent can do.
Denied(agent) == CapabilitiesOf(agent) \cap agent.denied

LEMMA AgentFinding ==
  ASSUME NEW agent, NEW broad,
         NEW f \in CapabilityFindings(agent) \cup IdentityFindings(agent, broad)
                     \cup ReachFindings(agent)
  PROVE  /\ IsFinding(f) /\ f.rule \in AgentRules
         /\ f.rule = "CAP002" => /\ f.agent = agent.name
                                 /\ f.evidence = Fact("denied", Names(Denied(agent)))
  <1>1. MEDIUM \in Nat /\ HIGH \in Nat /\ CRITICAL \in Nat
    BY DEF MEDIUM, HIGH, CRITICAL
  <1>2. CASE f \in CapabilityFindings(agent)
    <2>1. \/ f = Finding("CAP002", CRITICAL, agent.name, agent.path,
                         Fact("denied", Names(Denied(agent))))
          \/ \E rule \in AgentRules \ {"CAP002"}, severity \in {MEDIUM, HIGH} : \E evidence :
               f = Finding(rule, severity, agent.name, agent.path, evidence)
      BY <1>2 DEF CapabilityFindings, When, AgentRules, Denied
    <2> QED BY <1>1, <2>1, FindingIsFinding DEF AgentRules
  <1>3. CASE f \in IdentityFindings(agent, broad)
    <2>1. \E evidence : f = Finding("IDN001", HIGH, agent.name, agent.path, evidence)
      BY <1>3 DEF IdentityFindings, When
    <2> QED BY <1>1, <2>1, FindingIsFinding DEF AgentRules
  <1>4. CASE f \in ReachFindings(agent)
    <2>1. \E rule \in AgentRules \ {"CAP002"}, severity \in {MEDIUM, HIGH, CRITICAL} :
            \E evidence : f = Finding(rule, severity, agent.name, agent.path, evidence)
      BY <1>4 DEF ReachFindings, When, AgentRules
    <2> QED BY <1>1, <2>1, FindingIsFinding
  <1> QED BY <1>2, <1>3, <1>4

\* Every finding of a scan is of one of the five kinds.
LEMMA KindsOfFinding ==
  ASSUME NEW agents, NEW unbound, NEW traced, NEW broad,
         NEW f \in Evaluate(agents, unbound, AttackPaths(agents, traced), broad)
  PROVE  \/ f \in FlowBackedPaths(traced)
         \/ \E a \in agents : f \in CooccurrencePaths(a, FlowBackedPaths(traced))
         \/ \E a \in agents : \E t \in a.tools : f \in ToolFindings(a, t)
         \/ \E s \in unbound \cup UNION {a.servers : a \in agents} : f \in ServerFindings(s)
         \/ \E a \in agents : f \in CapabilityFindings(a) \cup IdentityFindings(a, broad)
                                      \cup ReachFindings(a)
  <1> DEFINE paths == AttackPaths(agents, traced)
  <1>1. f \in paths => \/ f \in FlowBackedPaths(traced)
                       \/ \E a \in agents : f \in CooccurrencePaths(a, FlowBackedPaths(traced))
    BY DEF AttackPaths
  <1> DEFINE ofTools == UNION {UNION {ToolFindings(a, t) : t \in a.tools} : a \in agents}
             ofServers == UNION {ServerFindings(s) :
                                   s \in unbound \cup UNION {a.servers : a \in agents}}
             ofAgents == UNION {CapabilityFindings(a) \cup IdentityFindings(a, broad)
                                  \cup ReachFindings(a) : a \in agents}
  <1>2. f \in paths \cup ofTools \cup ofServers \cup ofAgents
    <2> HIDE DEF paths
    <2> QED BY DEF Evaluate, paths
  <1>3. f \in ofTools => \E a \in agents : \E t \in a.tools : f \in ToolFindings(a, t)
    OBVIOUS
  <1>4. f \in ofServers => \E s \in unbound \cup UNION {a.servers : a \in agents} :
                            f \in ServerFindings(s)
    OBVIOUS
  <1>5. f \in ofAgents => \E a \in agents : f \in CapabilityFindings(a)
                                                   \cup IdentityFindings(a, broad)
                                                   \cup ReachFindings(a)
    OBVIOUS
  <1> HIDE DEF paths, ofTools, ofServers, ofAgents
  <1> QED BY <1>1, <1>2, <1>3, <1>4, <1>5

\* A finding that names a flow was made of one of these.
NamesItsFlow(f, traced) ==
  \A values : f.rule \in FlowPathRules /\ f.evidence = Fact("flow_id", values) =>
    \E x \in traced : \E a \in x.agents : f.agent = a /\ values = Names({FlowId(x, a)})

(***************************************************************************)
(* By its rule and its evidence a finding tells what it was found of: an   *)
(* unapproved process tool, a denied capability, a flow.                   *)
(***************************************************************************)
LEMMA WhatWasFound ==
  ASSUME NEW agents, NEW unbound, NEW traced, NEW broad,
         NEW f \in Evaluate(agents, unbound, AttackPaths(agents, traced), broad)
  PROVE  /\ IsFinding(f)
         /\ f.rule = "AGT020" =>
              \E a \in agents : \E t \in a.tools :
                /\ UnapprovedShell(t) /\ f.agent = a.name /\ f.path = t.path
                /\ f.evidence = ToolEvidence("process.execute", t)
         /\ f.rule = "CAP002" =>
              \E a \in agents : f.agent = a.name /\ f.evidence = Fact("denied", Names(Denied(a)))
         /\ NamesItsFlow(f, traced)
  <1>0. /\ FlowPathRules \cap {"AGT020", "CAP002"} = {}
        /\ CooccurrenceRules \cap {"AGT020", "CAP002"} = {}
        /\ ToolRules \cap (FlowPathRules \cup {"CAP002"}) = {}
        /\ ServerRules \cap (FlowPathRules \cup {"CAP002", "AGT020"}) = {}
        /\ AgentRules \cap (FlowPathRules \cup {"AGT020"}) = {}
    BY DEF FlowPathRules, CooccurrenceRules, ToolRules, ServerRules, AgentRules
  <1>1. CASE f \in FlowBackedPaths(traced)
    <2>1. PICK x \in traced : \E a \in x.agents :
            f.agent = a /\ f.evidence = Fact("flow_id", Names({FlowId(x, a)}))
      BY <1>1, FlowFinding
    <2>2. PICK a \in x.agents :
            f.agent = a /\ f.evidence = Fact("flow_id", Names({FlowId(x, a)}))
      BY <2>1
    <2>3. IsFinding(f) /\ f.rule \in FlowPathRules
      BY <1>1, FlowFinding
    <2>4. \A values : f.evidence = Fact("flow_id", values) => values = Names({FlowId(x, a)})
      BY <2>2, FactsDiffer
    <2> QED BY <1>0, <2>2, <2>3, <2>4 DEF NamesItsFlow
  <1>2. CASE \E a \in agents : f \in CooccurrencePaths(a, FlowBackedPaths(traced))
    <2>1. /\ IsFinding(f) /\ f.rule \in CooccurrenceRules
          /\ \E nodes : f.evidence = Fact("nodes", nodes)
      BY <1>2, CooccurrenceFinding
    <2>2. \A values : f.evidence # Fact("flow_id", values)
      <3>1. "flow_id" # "nodes"
        OBVIOUS
      <3> QED BY <2>1, <3>1, FactsDiffer
    <2> QED BY <1>0, <2>1, <2>2 DEF NamesItsFlow
  <1>3. CASE \E a \in agents : \E t \in a.tools : f \in ToolFindings(a, t)
    BY <1>0, <1>3, ToolFinding DEF NamesItsFlow
  <1>4. CASE \E s : f \in ServerFindings(s)
    BY <1>0, <1>4, ServerFinding DEF NamesItsFlow
  <1>5. CASE \E a \in agents : f \in CapabilityFindings(a) \cup IdentityFindings(a, broad)
                                       \cup ReachFindings(a)
    BY <1>0, <1>5, AgentFinding DEF NamesItsFlow
  <1> QED BY <1>1, <1>2, <1>3, <1>4, <1>5, KindsOfFinding

-----------------------------------------------------------------------------
(* What a gate that finds nothing new lets pass.                           *)

\* Configuration changes no fingerprint.
LEMMA ConfiguredFinding ==
  ASSUME NEW found, NEW config, NEW f \in ApplyConfig(config, found),
         \A x \in found : IsFinding(x)
  PROVE  /\ \E x \in found : Fingerprint(x) = Fingerprint(f) /\ x.rule = f.rule
         /\ (\A rule \in DOMAIN config : config[rule].severity \in Nat) => IsFinding(f)
  <1>1. PICK x \in found :
          f = IF x.rule \in DOMAIN config /\ config[x.rule].severity # 0
              THEN [x EXCEPT !.severity = config[x.rule].severity] ELSE x
    BY DEF ApplyConfig
  <1>2. x = Finding(x.rule, x.severity, x.agent, x.path, x.evidence) /\ x.severity \in Nat
    BY DEF IsFinding
  <1> DEFINE severity == IF x.rule \in DOMAIN config /\ config[x.rule].severity # 0
                         THEN config[x.rule].severity ELSE x.severity
  <1>3. f = Finding(x.rule, severity, x.agent, x.path, x.evidence)
    BY <1>1, <1>2 DEF Finding
  <1>4. (\A rule \in DOMAIN config : config[rule].severity \in Nat) => severity \in Nat
    BY <1>2
  <1> HIDE DEF severity
  <1>5. /\ f.rule = x.rule /\ f.agent = x.agent /\ f.path = x.path /\ f.evidence = x.evidence
        /\ f.severity = severity
    BY <1>3 DEF Finding
  <1>6. Fingerprint(x) = Fingerprint(f)
    BY <1>5 DEF Fingerprint
  <1> QED BY <1>3, <1>4, <1>5, <1>6 DEF IsFinding

LEMMA UnconfiguredFindings ==
  ASSUME NEW config, DOMAIN config = {}, NEW found
  PROVE  ApplyConfig(config, found) = found
  BY DEF ApplyConfig

\* What nobody introduced was found at base.
LEMMA FoundBefore ==
  ASSUME NEW config, NEW found, \A x \in found : IsFinding(x),
         NEW head, NEW f \in head, f \notin Introduced(ApplyConfig(config, found), head)
  PROVE  \E x \in found : /\ x.rule = f.rule /\ x.agent = f.agent /\ x.path = f.path
                          /\ x.evidence = f.evidence
  <1>1. PICK b \in ApplyConfig(config, found) : Fingerprint(b) = Fingerprint(f)
    BY DEF Introduced
  <1>2. PICK x \in found : Fingerprint(x) = Fingerprint(b)
    BY ConfiguredFinding
  <1> QED BY <1>1, <1>2 DEF Fingerprint

LEMMA NamesApart ==
  ASSUME NEW S, NEW T, Names(S) = Names(T)
  PROVE  S = T
  <1>1. ASSUME NEW x, <<x>> \in Names(S) PROVE x \in S
    BY <1>1 DEF Names
  <1>2. ASSUME NEW x, <<x>> \in Names(T) PROVE x \in T
    BY <1>2 DEF Names
  <1>3. \A x \in S : <<x>> \in Names(S)
    BY DEF Names
  <1>4. \A x \in T : <<x>> \in Names(T)
    BY DEF Names
  <1> QED BY <1>1, <1>2, <1>3, <1>4

\* The evidence of a tool's finding tells its approval.
LEMMA EvidenceOfApproval ==
  ASSUME NEW t, NEW u, ToolEvidence("process.execute", t) = ToolEvidence("process.execute", u)
  PROVE  t.approval = u.approval
  <1> DEFINE x == [key |-> "approval", values |-> {<<t.approval>>}]
             y == [key |-> "approval", values |-> {<<u.approval>>}]
             c == [key |-> "capability", values |-> {<<"process.execute">>}]
  <1>1. {c} \cup {x} = {c} \cup {y}
    BY DEF ToolEvidence, Fact
  <1>2. x.key # c.key
    OBVIOUS
  <1>3. x = y
    BY <1>1, <1>2
  <1>4. x.values = y.values
    BY <1>3
  <1>5. <<t.approval>> = <<u.approval>>
    BY <1>4
  <1>6. <<t.approval>>[1] = <<u.approval>>[1]
    BY <1>5
  <1> QED BY <1>6

LEMMA FlowFound ==
  ASSUME NEW f, NEW r \in FlowRules(f), NEW a \in f.agents
  PROVE  Finding(r.rule, r.severity, a, Front(f.site), Fact("flow_id", Names({FlowId(f, a)})))
           \in FlowFindings(f)
  BY DEF FlowFindings

(***************************************************************************)
(* With --fail-on high and the rules of head as they are, what a review    *)
(* introduces nothing of was there: unapproved process tools of an agent   *)
(* in a file, the denied capabilities of an agent, flows of an agent.      *)
(***************************************************************************)
LEMMA NothingIntroduced ==
  ASSUME NEW base, NEW baseUnbound, NEW baseFlows, NEW config,
         NEW head, NEW headUnbound, NEW headFlows,
         \A x \in headFlows : x.agents # {} => x.reachability = "proven_agent_reachable",
         NEW found, found = Evaluate(base, baseUnbound, AttackPaths(base, baseFlows), Broad),
         NEW after, after = Evaluate(head, headUnbound, AttackPaths(head, headFlows), Broad),
         NEW failOn \in 1..HIGH,
         \A f \in Introduced(ApplyConfig(config, found), after) : ~(f.severity >= failOn),
         NEW a \in head
  PROVE  /\ \A t \in {x \in a.tools : UnapprovedShell(x)} :
              \E b \in base : /\ b.name = a.name
                              /\ \E u \in b.tools : /\ UnapprovedShell(u)
                                                    /\ u.path = t.path /\ u.approval = t.approval
         /\ Denied(a) # {} => \E b \in base : b.name = a.name /\ Denied(b) = Denied(a)
         /\ \A f \in {x \in headFlows : /\ a.name \in x.agents
                                        /\ x.basis = "static_dataflow"
                                        /\ FlowRules(x) # {}} :
              \E e \in baseFlows : /\ a.name \in e.agents
                                   /\ e.source = f.source /\ e.site = f.site
  <1>1. \A x \in found : IsFinding(x)
    BY WhatWasFound
  <1>2. ASSUME NEW f \in after, f.severity \in {HIGH, CRITICAL}
        PROVE  \E x \in found : /\ x.rule = f.rule /\ x.agent = f.agent /\ x.path = f.path
                                /\ x.evidence = f.evidence
    <2>1. f.severity >= failOn
      BY <1>2 DEF HIGH, CRITICAL
    <2>2. f \notin Introduced(ApplyConfig(config, found), after)
      BY <2>1
    <2> HIDE DEF Introduced
    <2> QED BY <1>1, <2>2, FoundBefore
  <1>3. ASSUME NEW t \in a.tools, UnapprovedShell(t)
        PROVE  \E b \in base : /\ b.name = a.name
                               /\ \E u \in b.tools : /\ UnapprovedShell(u)
                                                     /\ u.path = t.path /\ u.approval = t.approval
    <2> DEFINE f == Finding("AGT020", HIGH, a.name, t.path, ToolEvidence("process.execute", t))
    <2>1. f \in ToolFindings(a, t)
      BY <1>3 DEF ToolFindings, When, UnapprovedShell
    <2>2. f \in after
      BY <2>1 DEF Evaluate
    <2>3. /\ f.rule = "AGT020" /\ f.agent = a.name /\ f.path = t.path /\ f.severity = HIGH
          /\ f.evidence = ToolEvidence("process.execute", t)
      BY DEF Finding
    <2> HIDE DEF f
    <2>4. PICK x \in found : /\ x.rule = "AGT020" /\ x.agent = a.name /\ x.path = t.path
                             /\ x.evidence = ToolEvidence("process.execute", t)
      BY <1>2, <2>2, <2>3
    <2>5. PICK b \in base : \E u \in b.tools :
             /\ UnapprovedShell(u) /\ x.agent = b.name /\ x.path = u.path
             /\ x.evidence = ToolEvidence("process.execute", u)
      BY <2>4, WhatWasFound
    <2>6. PICK u \in b.tools :
             /\ UnapprovedShell(u) /\ x.agent = b.name /\ x.path = u.path
             /\ x.evidence = ToolEvidence("process.execute", u)
      BY <2>5
    <2>7. u.approval = t.approval
      BY <2>4, <2>6, EvidenceOfApproval
    <2> QED BY <2>4, <2>6, <2>7
  <1>4. ASSUME Denied(a) # {}
        PROVE  \E b \in base : b.name = a.name /\ Denied(b) = Denied(a)
    <2> DEFINE f == Finding("CAP002", CRITICAL, a.name, a.path, Fact("denied", Names(Denied(a))))
    <2>1. f \in CapabilityFindings(a)
      BY <1>4 DEF CapabilityFindings, When, Denied
    <2>2. f \in after
      BY <2>1 DEF Evaluate
    <2>3. /\ f.rule = "CAP002" /\ f.agent = a.name /\ f.severity = CRITICAL
          /\ f.evidence = Fact("denied", Names(Denied(a)))
      BY DEF Finding
    <2> HIDE DEF f
    <2>4. PICK x \in found : /\ x.rule = "CAP002" /\ x.agent = a.name
                             /\ x.evidence = Fact("denied", Names(Denied(a)))
      BY <1>2, <2>2, <2>3
    <2>5. PICK b \in base : x.agent = b.name /\ x.evidence = Fact("denied", Names(Denied(b)))
      BY <2>4, WhatWasFound
    <2>6. Names(Denied(a)) = Names(Denied(b))
      BY <2>4, <2>5, FactsDiffer
    <2> QED BY <2>4, <2>5, <2>6, NamesApart
  <1>5. ASSUME NEW f \in headFlows, a.name \in f.agents, f.basis = "static_dataflow",
               FlowRules(f) # {}
        PROVE  \E e \in baseFlows : /\ a.name \in e.agents
                                    /\ e.source = f.source /\ e.site = f.site
    <2>1. PICK r \in FlowRules(f) : TRUE
      BY <1>5
    <2>2. r.rule \in FlowPathRules /\ r.severity \in {HIGH, CRITICAL}
      BY DEF FlowRules, FlowPathRules
    <2> DEFINE id == Names({FlowId(f, a.name)})
               evidence == Fact("flow_id", id)
               g == Finding(r.rule, r.severity, a.name, Front(f.site), evidence)
    <2>3. g \in FlowBackedPaths(headFlows)
      <3>1. f \in {x \in headFlows : /\ x.basis = "static_dataflow"
                                     /\ x.reachability = "proven_agent_reachable"}
        BY <1>5
      <3>2. g \in FlowFindings(f)
        BY <1>5, FlowFound
      <3> HIDE DEF g
      <3> QED BY <3>1, <3>2 DEF FlowBackedPaths
    <2>4. g \in after
      BY <2>3 DEF Evaluate, AttackPaths
    <2>5. /\ g.rule = r.rule /\ g.agent = a.name /\ g.severity = r.severity
          /\ g.evidence = evidence
      BY DEF Finding
    <2> HIDE DEF g
    <2>6. PICK x \in found : /\ x.rule = r.rule /\ x.agent = a.name /\ x.evidence = evidence
      BY <1>2, <2>2, <2>4, <2>5
    <2>7. PICK e \in baseFlows : \E b \in e.agents :
            x.agent = b /\ id = Names({FlowId(e, b)})
      <3> HIDE DEF id
      <3>1. x.rule \in FlowPathRules /\ x.evidence = Fact("flow_id", id)
        BY <2>2, <2>6
      <3>2. NamesItsFlow(x, baseFlows)
        BY WhatWasFound
      <3> QED BY <3>1, <3>2 DEF NamesItsFlow
    <2>8. {FlowId(f, a.name)} = {FlowId(e, a.name)} /\ a.name \in e.agents
      BY <2>6, <2>7, NamesApart
    <2>9. FlowId(f, a.name) = FlowId(e, a.name)
      BY <2>8
    <2> QED BY <2>8, <2>9 DEF FlowId
  <1> QED BY <1>3, <1>4, <1>5

-----------------------------------------------------------------------------
(* A scan finds finitely much, and no server escapes its coverage.         *)

LEMMA FiniteUnionOf ==
  ASSUME NEW f, IsFiniteSet(DOMAIN f), \A x \in DOMAIN f : IsFiniteSet(f[x])
  PROVE  IsFiniteSet(UNION {f[x] : x \in DOMAIN f})
  <1>1. IsFiniteSet({f[x] : x \in DOMAIN f})
    BY FiniteRange
  <1> QED BY <1>1, FS_UNION

LEMMA AtMostOne ==
  ASSUME NEW condition, NEW finding
  PROVE  IsFiniteSet(When(condition, finding))
  <1>1. IsFiniteSet({finding})
    BY FS_Singleton
  <1> QED BY <1>1, FS_Subset DEF When

\* The tools of all agents are finitely many, and so are those who have one of them.
LEMMA ToolsFinite ==
  ASSUME NEW tree, IsTree(tree)
  PROVE  IsFiniteSet(ToolsOf(tree))
  <1> DEFINE tool(a, t) == [agent |-> a.name, name |-> t.name, path |-> t.path, import |-> t.import]
             of == [i \in DOMAIN tree.agents |->
                      {tool(tree.agents[i], t) : t \in tree.agents[i].tools}]
  <1>1. ASSUME NEW i \in DOMAIN of
        PROVE  IsFiniteSet(of[i])
    <2> DEFINE a == tree.agents[i]
               made == [t \in a.tools |-> tool(a, t)]
    <2>1. IsFiniteSet(DOMAIN made)
      BY DEF IsTree
    <2>2. IsFiniteSet({made[t] : t \in DOMAIN made})
      BY <2>1, FiniteRange
    <2>3. of[i] = {made[t] : t \in DOMAIN made}
      OBVIOUS
    <2> QED BY <2>2, <2>3
  <1>2. IsFiniteSet(DOMAIN of)
    BY TreeShape
  <1> HIDE DEF of
  <1>3. IsFiniteSet(UNION {of[i] : i \in DOMAIN of})
    BY <1>1, <1>2, FiniteUnionOf
  <1>4. ToolsOf(tree) \subseteq UNION {of[i] : i \in DOMAIN of}
    <2> SUFFICES ASSUME NEW x \in ToolsOf(tree)
                 PROVE  \E i \in DOMAIN of : x \in of[i]
      OBVIOUS
    <2>1. PICK a \in Range(tree.agents) : x \in {tool(a, t) : t \in a.tools}
      BY DEF ToolsOf
    <2>2. PICK i \in DOMAIN tree.agents : a = tree.agents[i]
      BY DEF Range
    <2> QED BY <2>1, <2>2 DEF of
  <1> QED BY <1>3, <1>4, FS_Subset

LEMMA ToolAgentsFinite ==
  ASSUME NEW program, NEW tools, IsFiniteSet(tools), NEW key
  PROVE  IsFiniteSet(ToolAgents(program, tools, key))
  <1> DEFINE having == {u \in tools : key \in ToolRef(program, u)}
             who == [t \in having |-> t.agent]
  <1>1. IsFiniteSet(DOMAIN who)
    BY FS_Subset
  <1>2. IsFiniteSet({who[t] : t \in DOMAIN who})
    BY <1>1, FiniteRange
  <1>3. ToolAgents(program, tools, key) = {who[t] : t \in DOMAIN who}
    BY DEF ToolAgents
  <1> QED BY <1>2, <1>3

\* A flow is partial or not, and an agent that it is bound to reaches it.
LEMMA FlowShape ==
  ASSUME NEW tree, IsTree(tree), NEW summary, NEW f \in FlowsOf(tree, summary)
  PROVE  /\ f.basis \in {"static_dataflow", "static_dataflow_partial"}
         /\ f.agents # {} => f.reachability = "proven_agent_reachable"
         /\ IsFiniteSet(f.agents)
  <1> DEFINE program == tree.program
             tools == ToolsOf(tree)
  <1>1. PICK g \in RepositoryFlows(program, tools, summary) :
          f = [g EXCEPT !.reachability = Reachability(g, tree.aside)]
    BY DEF FlowsOf
  <1>2. PICK k \in DOMAIN program : \E s \in Range(summary[k].sinks) :
          g \in FlowsOfSink(program, tools, k, s)
    BY DEF RepositoryFlows
  <1>3. PICK s \in Range(summary[k].sinks) : g \in FlowsOfSink(program, tools, k, s)
    BY <1>2
  <1> DEFINE binding == AgentForChain(program, tools, s.chain)
  <1>4. PICK src : g =
          [source |-> src, sink |-> s.kind, site |-> s.site, chain |-> s.chain,
           agents |-> binding.agents, binding |-> binding.basis, reachability |-> "unknown",
           basis |-> IF s.value.unresolved THEN "static_dataflow_partial" ELSE "static_dataflow"]
    BY <1>3 DEF FlowsOfSink
  <1> HIDE DEF program, tools, binding
  <1>5. /\ f.basis = g.basis /\ f.agents = g.agents
        /\ f.reachability = Reachability(g, tree.aside)
        /\ g.basis \in {"static_dataflow", "static_dataflow_partial"}
        /\ g.agents = binding.agents
    BY <1>1, <1>4
  <1>6. IsFiniteSet(binding.agents)
    <2>1. \A key : IsFiniteSet(ToolAgents(program, tools, key))
      BY ToolsFinite, ToolAgentsFinite DEF tools
    <2>2. binding.agents = {} \/ \E key : binding.agents = ToolAgents(program, tools, key)
      BY DEF binding, AgentForChain
    <2> QED BY <2>1, <2>2, FS_EmptySet
  <1> QED BY <1>5, <1>6 DEF Reachability

(***************************************************************************)
(* The agents of a graph are finitely many, with finitely many tools,      *)
(* servers and identities each.                                            *)
(***************************************************************************)
LEMMA AgentsFinite ==
  ASSUME NEW tree, IsTree(tree), NEW g, GraphOf(tree, g)
  PROVE  /\ IsFiniteSet(AgentsOf(tree, g))
         /\ \A a \in AgentsOf(tree, g) : /\ IsFiniteSet(a.tools) /\ IsFiniteSet(a.servers)
                                         /\ IsFiniteSet(a.identities)
         /\ IsFiniteSet({g.server[d] : d \in g.unbound \X {0}})
  <1> DEFINE A == DOMAIN tree.agents
             servers(S) == {g.server[x] : x \in S}
             agent(a) == [at |-> a, name |-> tree.agents[a].name, path |-> tree.agents[a].path,
                          untrusted |-> tree.agents[a].untrusted, data |-> tree.agents[a].data,
                          control |-> tree.agents[a].control,
                          required |-> tree.agents[a].required,
                          denied |-> tree.agents[a].denied, tools |-> tree.agents[a].tools,
                          servers |-> servers(g.bound[a]),
                          identities |-> IdentitiesOf(tree, g, a)]
             made == [a \in A |-> agent(a)]
  <1>1. IsFiniteSet(DOMAIN g.server)
    <2>1. IsFiniteSet((DOMAIN tree.decls) \X (A \cup {0}))
      BY TreeShape, FS_Product, FS_AddElement
    <2> QED BY <2>1, FS_Subset DEF GraphOf
  <1>2. ASSUME NEW S, S \subseteq DOMAIN g.server
        PROVE  IsFiniteSet(servers(S))
    <2> DEFINE of == [x \in S |-> g.server[x]]
    <2>1. IsFiniteSet(DOMAIN of)
      BY <1>1, <1>2, FS_Subset
    <2>2. IsFiniteSet({of[x] : x \in DOMAIN of})
      BY <2>1, FiniteRange
    <2>3. servers(S) = {of[x] : x \in DOMAIN of}
      OBVIOUS
    <2> QED BY <2>2, <2>3
  <1>3. ASSUME NEW a \in A
        PROVE  IsFiniteSet(IdentitiesOf(tree, g, a))
    <2> DEFINE tools == tree.agents[a].tools
               ofTool == [t \in tools |-> t.identity]
               brought == [i \in g.identities[a] |->
                             [name |-> i.name, roles |-> {}, oauth_scopes |-> {},
                              credential |-> i.credential]]
    <2>1. IsFiniteSet(tools) /\ \A t \in tools : IsFiniteSet(t.identity)
      BY DEF IsTree
    <2>2. IsFiniteSet(UNION {ofTool[t] : t \in DOMAIN ofTool})
      <3>1. IsFiniteSet(DOMAIN ofTool) /\ \A t \in DOMAIN ofTool : IsFiniteSet(ofTool[t])
        BY <2>1
      <3> HIDE DEF ofTool
      <3> QED BY <3>1, FiniteUnionOf
    <2>3. IsFiniteSet({brought[i] : i \in DOMAIN brought})
      <3>1. IsFiniteSet(DOMAIN brought)
        BY DEF GraphOf
      <3> HIDE DEF brought
      <3> QED BY <3>1, FiniteRange
    <2>4. IdentitiesOf(tree, g, a) = (UNION {ofTool[t] : t \in DOMAIN ofTool})
                                       \cup {brought[i] : i \in DOMAIN brought}
      BY DEF IdentitiesOf
    <2> DEFINE own == UNION {ofTool[t] : t \in DOMAIN ofTool}
               ofServers == {brought[i] : i \in DOMAIN brought}
    <2>5. /\ IdentitiesOf(tree, g, a) = own \cup ofServers
          /\ IsFiniteSet(own) /\ IsFiniteSet(ofServers)
      BY <2>2, <2>3, <2>4
    <2> HIDE DEF own, ofServers
    <2> QED BY <2>5, FS_Union
  <1>4. IsFiniteSet(AgentsOf(tree, g))
    <2>1. IsFiniteSet(DOMAIN made)
      BY TreeShape
    <2>2. IsFiniteSet({made[a] : a \in DOMAIN made})
      BY <2>1, FiniteRange
    <2>3. AgentsOf(tree, g) = {made[a] : a \in DOMAIN made}
      BY DEF AgentsOf
    <2> QED BY <2>2, <2>3
  <1>5. ASSUME NEW x \in AgentsOf(tree, g)
        PROVE  IsFiniteSet(x.tools) /\ IsFiniteSet(x.servers) /\ IsFiniteSet(x.identities)
    <2>1. PICK a \in A : /\ x.tools = tree.agents[a].tools /\ x.servers = servers(g.bound[a])
                         /\ x.identities = IdentitiesOf(tree, g, a)
      BY DEF AgentsOf
    <2>2. IsFiniteSet(x.tools)
      BY <2>1 DEF IsTree
    <2>3. g.bound[a] \subseteq DOMAIN g.server
      BY DEF GraphOf
    <2> HIDE DEF servers
    <2> QED BY <1>2, <1>3, <2>1, <2>2, <2>3
  <1>6. g.unbound \X {0} \subseteq DOMAIN g.server
    BY DEF GraphOf
  <1>7. IsFiniteSet(servers(g.unbound \X {0}))
    <2> HIDE DEF servers
    <2> QED BY <1>2, <1>6
  <1> QED BY <1>4, <1>5, <1>7

\* Every declaration has a server of its address and authentication in the graph.
LEMMA DeclarationServed ==
  ASSUME NEW tree, IsTree(tree), NEW g, GraphOf(tree, g), NEW d \in DOMAIN tree.decls
  PROVE  \E x \in {g.server[c] : c \in g.unbound \X {0}}
                    \cup UNION {{g.server[y] : y \in g.bound[a]} : a \in DOMAIN g.bound} :
           x.url = tree.decls[d].url /\ x.authenticated = tree.decls[d].authenticated
  <1>1. CASE d \in g.unbound
    <2>1. <<d, 0>> \in g.unbound \X {0} /\ <<d, 0>> \in DOMAIN g.server
      BY <1>1 DEF GraphOf
    <2>2. Serves(tree.decls[d], <<d, 0>>, g.server[<<d, 0>>])
      BY <2>1 DEF GraphOf
    <2> QED BY <2>1, <2>2 DEF Serves
  <1>2. CASE d \notin g.unbound
    <2>1. PICK a \in DOMAIN tree.agents : \E y \in g.bound[a] : y[1] = d
      BY <1>2 DEF GraphOf, BoundOrUnbound
    <2>2. PICK y \in g.bound[a] : y[1] = d
      BY <2>1
    <2>3. y \in DOMAIN g.server /\ a \in DOMAIN g.bound
      BY <2>2 DEF GraphOf
    <2>4. Serves(tree.decls[d], y, g.server[y])
      BY <2>2, <2>3 DEF GraphOf
    <2> QED BY <2>2, <2>3, <2>4 DEF Serves
  <1> QED BY <1>1, <1>2

(***************************************************************************)
(* A scan of finitely many flows finds finitely much.                      *)
(***************************************************************************)
LEMMA FlowFindingsFinite ==
  ASSUME NEW traced, IsFiniteSet(traced), \A f \in traced : IsFiniteSet(f.agents)
  PROVE  IsFiniteSet(FlowBackedPaths(traced))
  <1> DEFINE backed == {x \in traced : /\ x.basis = "static_dataflow"
                                      /\ x.reachability = "proven_agent_reachable"}
             of == [f \in backed |-> FlowFindings(f)]
  <1>1. ASSUME NEW f \in backed
        PROVE  IsFiniteSet(FlowFindings(f))
    <2> DEFINE rules == {[rule |-> "PATH001", severity |-> CRITICAL]}
                          \cup {[rule |-> "PATH007", severity |-> HIGH]}
                          \cup {[rule |-> "PATH003", severity |-> CRITICAL]}
               pairs == FlowRules(f) \X f.agents
               made == [p \in pairs |->
                          Finding(p[1].rule, p[1].severity, p[2], Front(f.site),
                                  Fact("flow_id", Names({FlowId(f, p[2])})))]
    <2>1. IsFiniteSet(rules)
      BY FS_Singleton, FS_Union
    <2>2. FlowRules(f) \subseteq rules
      BY DEF FlowRules
    <2>3. IsFiniteSet(FlowRules(f))
      BY <2>1, <2>2, FS_Subset
    <2>4. IsFiniteSet(pairs)
      BY <2>3, FS_Product
    <2>5. IsFiniteSet({made[p] : p \in DOMAIN made})
      <3>1. IsFiniteSet(DOMAIN made)
        BY <2>4
      <3> HIDE DEF made
      <3> QED BY <3>1, FiniteRange
    <2>6. FlowFindings(f) \subseteq {made[p] : p \in DOMAIN made}
      <3> SUFFICES ASSUME NEW x \in FlowFindings(f)
                   PROVE  \E p \in DOMAIN made : x = made[p]
        OBVIOUS
      <3>1. PICK r \in FlowRules(f), a \in f.agents :
              x = Finding(r.rule, r.severity, a, Front(f.site), Fact("flow_id", Names({FlowId(f, a)})))
        BY DEF FlowFindings
      <3>2. <<r, a>> \in DOMAIN made /\ x = made[<<r, a>>]
        BY <3>1
      <3> QED BY <3>2
    <2> QED BY <2>5, <2>6, FS_Subset
  <1>2. IsFiniteSet(DOMAIN of) /\ \A f \in DOMAIN of : IsFiniteSet(of[f])
    BY <1>1, FS_Subset
  <1>3. FlowBackedPaths(traced) = UNION {of[f] : f \in DOMAIN of}
    BY DEF FlowBackedPaths
  <1> HIDE DEF of
  <1>4. IsFiniteSet(UNION {of[f] : f \in DOMAIN of})
    BY <1>2, FiniteUnionOf
  <1> QED BY <1>3, <1>4

\* The findings of a kind that each tool of a finite set has one of at most.
LEMMA OneForEach ==
  ASSUME NEW S, IsFiniteSet(S), NEW f, DOMAIN f = S
  PROVE  IsFiniteSet({f[x] : x \in S})
  BY FiniteRange

LEMMA CooccurrenceFinite ==
  ASSUME NEW agent, IsFiniteSet(agent.tools), NEW flowBacked
  PROVE  IsFiniteSet(CooccurrencePaths(agent, flowBacked))
  <1> DEFINE tools == agent.tools
             shell == [t \in tools |-> PathFinding("PATH001", CRITICAL, agent, t.path,
                                                   {t.name, "process.execute"})]
             destroy == [t \in tools |-> PathFinding("PATH002", HIGH, agent, t.path,
                                                     {t.name, "destructive.write"})]
             send == [t \in tools |-> PathFinding("PATH003", CRITICAL, agent, t.path,
                                                  {t.name, "external destination"})]
             privileged == CapabilitiesOf(agent) \cap HIGH_RISK_CAPABILITIES
             combined == {PathFinding("PATH004", CRITICAL, agent, agent.path, {agent.name})}
                           \cup {PathFinding("PATH005", HIGH, agent, agent.path, {agent.name})}
                           \cup {PathFinding("PATH006", HIGH, agent, agent.path, privileged)}
             all == {shell[t] : t \in tools} \cup {destroy[t] : t \in tools}
                      \cup {send[t] : t \in tools} \cup combined
  <1>1. CooccurrencePaths(agent, flowBacked) \subseteq all
    <2> SUFFICES ASSUME NEW f \in CooccurrencePaths(agent, flowBacked) PROVE f \in all
      OBVIOUS
    <2>1. \/ \E t \in tools : f = PathFinding("PATH001", CRITICAL, agent, t.path,
                                              {t.name, "process.execute"})
          \/ \E t \in tools : f = PathFinding("PATH002", HIGH, agent, t.path,
                                              {t.name, "destructive.write"})
          \/ \E t \in tools : f = PathFinding("PATH003", CRITICAL, agent, t.path,
                                              {t.name, "external destination"})
          \/ f = PathFinding("PATH004", CRITICAL, agent, agent.path, {agent.name})
          \/ f = PathFinding("PATH005", HIGH, agent, agent.path, {agent.name})
          \/ f = PathFinding("PATH006", HIGH, agent, agent.path, privileged)
      BY DEF CooccurrencePaths, When
    <2> QED BY <2>1
  <1>2. IsFiniteSet({shell[t] : t \in tools})
    <2>1. DOMAIN shell = tools
      OBVIOUS
    <2> HIDE DEF shell
    <2> QED BY <2>1, OneForEach
  <1>3. IsFiniteSet({destroy[t] : t \in tools})
    <2>1. DOMAIN destroy = tools
      OBVIOUS
    <2> HIDE DEF destroy
    <2> QED BY <2>1, OneForEach
  <1>4. IsFiniteSet({send[t] : t \in tools})
    <2>1. DOMAIN send = tools
      OBVIOUS
    <2> HIDE DEF send
    <2> QED BY <2>1, OneForEach
  <1>5. IsFiniteSet(combined)
    BY FS_Singleton, FS_Union
  <1> DEFINE shells == {shell[t] : t \in tools}
             destroys == {destroy[t] : t \in tools}
             sends == {send[t] : t \in tools}
  <1>6. all = ((shells \cup destroys) \cup sends) \cup combined
    OBVIOUS
  <1>7. IsFiniteSet(shells) /\ IsFiniteSet(destroys) /\ IsFiniteSet(sends)
    BY <1>2, <1>3, <1>4
  <1> HIDE DEF shells, destroys, sends, combined, all
  <1>8. IsFiniteSet(all)
    BY <1>5, <1>6, <1>7, FS_Union
  <1> QED BY <1>1, <1>8, FS_Subset

\* Of a tool and of a server there are three or four findings.
LEMMA ToolFindingsFinite ==
  ASSUME NEW agent, NEW t
  PROVE  IsFiniteSet(ToolFindings(agent, t))
  BY AtMostOne, FS_Union DEF ToolFindings

LEMMA ServerFindingsFinite ==
  ASSUME NEW server
  PROVE  IsFiniteSet(ServerFindings(server))
  BY AtMostOne, FS_Union DEF ServerFindings

LEMMA AgentFindingsFinite ==
  ASSUME NEW agent, IsFiniteSet(agent.identities), NEW broad
  PROVE  IsFiniteSet(CapabilityFindings(agent) \cup IdentityFindings(agent, broad)
                       \cup ReachFindings(agent))
  <1>1. IsFiniteSet(CapabilityFindings(agent))
    BY AtMostOne, FS_Union, ZenonT(40) DEF CapabilityFindings
  <1>2. IsFiniteSet(ReachFindings(agent))
    BY AtMostOne, FS_Union, ZenonT(40) DEF ReachFindings
  <1>3. IsFiniteSet(IdentityFindings(agent, broad))
    <2> DEFINE of == [i \in agent.identities |->
                        When((i.roles \cup i.oauth_scopes) \cap broad # {},
                             Finding("IDN001", HIGH, agent.name, agent.path,
                                     Fact("roles", Names((i.roles \cup i.oauth_scopes) \cap broad))))]
    <2>1. IsFiniteSet(DOMAIN of) /\ \A i \in DOMAIN of : IsFiniteSet(of[i])
      BY AtMostOne
    <2>2. IdentityFindings(agent, broad) = UNION {of[i] : i \in DOMAIN of}
      BY DEF IdentityFindings
    <2> HIDE DEF of
    <2>3. IsFiniteSet(UNION {of[i] : i \in DOMAIN of})
      BY <2>1, FiniteUnionOf
    <2> QED BY <2>2, <2>3
  <1> QED BY <1>1, <1>2, <1>3, FS_Union

LEMMA FindingsFinite ==
  ASSUME NEW agents, IsFiniteSet(agents),
         \A a \in agents : /\ IsFiniteSet(a.tools) /\ IsFiniteSet(a.servers)
                           /\ IsFiniteSet(a.identities),
         NEW unbound, IsFiniteSet(unbound),
         NEW traced, IsFiniteSet(traced), \A f \in traced : IsFiniteSet(f.agents),
         NEW broad
  PROVE  IsFiniteSet(Evaluate(agents, unbound, AttackPaths(agents, traced), broad))
  <1> DEFINE ofPaths == [a \in agents |-> CooccurrencePaths(a, FlowBackedPaths(traced))]
             ofTools == [a \in agents |-> UNION {ToolFindings(a, t) : t \in a.tools}]
             ofAgents == [a \in agents |-> CapabilityFindings(a) \cup IdentityFindings(a, broad)
                                             \cup ReachFindings(a)]
             has == [a \in agents |-> a.servers]
             servers == unbound \cup UNION {has[a] : a \in DOMAIN has}
             ofServers == [s \in servers |-> ServerFindings(s)]
             one == FlowBackedPaths(traced)
             two == UNION {ofPaths[a] : a \in DOMAIN ofPaths}
             three == UNION {ofTools[a] : a \in DOMAIN ofTools}
             four == UNION {ofServers[s] : s \in DOMAIN ofServers}
             five == UNION {ofAgents[a] : a \in DOMAIN ofAgents}
  <1>1. IsFiniteSet(one)
    BY FlowFindingsFinite
  <1>2. IsFiniteSet(two)
    <2>1. IsFiniteSet(DOMAIN ofPaths) /\ \A a \in DOMAIN ofPaths : IsFiniteSet(ofPaths[a])
      BY CooccurrenceFinite
    <2> HIDE DEF ofPaths
    <2> QED BY <2>1, FiniteUnionOf
  <1>3. IsFiniteSet(three)
    <2>1. ASSUME NEW a \in agents PROVE IsFiniteSet(ofTools[a])
      <3> DEFINE of == [t \in a.tools |-> ToolFindings(a, t)]
      <3>1. IsFiniteSet(DOMAIN of) /\ \A t \in DOMAIN of : IsFiniteSet(of[t])
        BY ToolFindingsFinite
      <3>2. ofTools[a] = UNION {of[t] : t \in DOMAIN of}
        OBVIOUS
      <3> HIDE DEF of, ofTools
      <3>3. IsFiniteSet(UNION {of[t] : t \in DOMAIN of})
        BY <3>1, FiniteUnionOf
      <3> QED BY <3>2, <3>3
    <2>2. IsFiniteSet(DOMAIN ofTools) /\ \A a \in DOMAIN ofTools : IsFiniteSet(ofTools[a])
      BY <2>1
    <2> HIDE DEF ofTools
    <2> QED BY <2>2, FiniteUnionOf
  <1>4. IsFiniteSet(four)
    <2> DEFINE bound == UNION {has[a] : a \in DOMAIN has}
    <2>1. IsFiniteSet(DOMAIN has) /\ \A a \in DOMAIN has : IsFiniteSet(has[a])
      OBVIOUS
    <2>2. IsFiniteSet(bound)
      <3> HIDE DEF has
      <3> QED BY <2>1, FiniteUnionOf
    <2>3. servers = unbound \cup bound
      OBVIOUS
    <2>4. IsFiniteSet(servers)
      <3> HIDE DEF servers, bound
      <3> QED BY <2>2, <2>3, FS_Union
    <2>5. IsFiniteSet(DOMAIN ofServers) /\ \A s \in DOMAIN ofServers : IsFiniteSet(ofServers[s])
      <3> HIDE DEF servers
      <3> QED BY <2>4, ServerFindingsFinite
    <2> HIDE DEF ofServers
    <2> QED BY <2>5, FiniteUnionOf
  <1>5. IsFiniteSet(five)
    <2>1. IsFiniteSet(DOMAIN ofAgents) /\ \A a \in DOMAIN ofAgents : IsFiniteSet(ofAgents[a])
      BY AgentFindingsFinite
    <2> HIDE DEF ofAgents
    <2> QED BY <2>1, FiniteUnionOf
  <1>6. Evaluate(agents, unbound, AttackPaths(agents, traced), broad)
          \subseteq (((one \cup two) \cup three) \cup four) \cup five
    <2> SUFFICES ASSUME NEW f \in Evaluate(agents, unbound, AttackPaths(agents, traced), broad)
                 PROVE  f \in one \/ f \in two \/ f \in three \/ f \in four \/ f \in five
      OBVIOUS
    <2> QED BY KindsOfFinding
  <1> HIDE DEF one, two, three, four, five
  <1>7. IsFiniteSet((((one \cup two) \cup three) \cup four) \cup five)
    BY <1>1, <1>2, <1>3, <1>4, <1>5, FS_Union
  <1> QED BY <1>6, <1>7, FS_Subset

-----------------------------------------------------------------------------
(* What exceptions may hide, whatever the findings and the files.          *)

\* A finding with the fingerprint of another is hidden by the same exceptions.
LEMMA MatchesByFingerprint ==
  ASSUME NEW s, NEW f, NEW g, Fingerprint(f) = Fingerprint(g)
  PROVE  Matches(s, f) <=> Matches(s, g)
  <1>1. f.rule = g.rule /\ f.agent = g.agent /\ f.path = g.path
    BY DEF Fingerprint
  <1> QED BY <1>1 DEF Matches

\* The exceptions of a file that is read are valid.
LEMMA ReadIsValid ==
  ASSUME NEW kept, NEW asked, ~Refused(kept, asked), NEW s \in Range(Exceptions(kept, asked))
  PROVE  Narrow(s)
  <1>1. Applicable(kept, asked) # {}
    BY DEF Exceptions, Range
  <1> DEFINE n == CHOOSE x \in Applicable(kept, asked) : TRUE
  <1>2. n \in Applicable(kept, asked)
    BY <1>1
  <1>3. Exceptions(kept, asked) = kept[n] /\ Valid(kept[n])
    BY <1>1, <1>2 DEF Exceptions, Refused
  <1>4. PICK i \in DOMAIN kept[n] : kept[n][i] = s
    BY <1>3 DEF Range
  <1> QED BY <1>3, <1>4 DEF Valid

\* When a scan passes, it kept nothing that is as grave as it asks for.
LEMMA PassKeepsNothing ==
  ASSUME NEW found, NEW incomplete, NEW kept, NEW today, NEW opts,
         ScanStatus(found, incomplete, kept, today, opts) = 0
  PROVE  /\ ~Refused(kept, opts.asked)
         /\ opts.strict =>
              ~incomplete /\ \A s \in Range(Exceptions(kept, opts.asked)) : ~Expired(s, today)
         /\ opts.failOn # 0 =>
              \A f \in Remaining(found, Exceptions(kept, opts.asked), today) :
                ~(f.severity >= opts.failOn)
  BY DEF ScanStatus

(***************************************************************************)
(* "Expired entries never hide findings": whatever a passing scan hides is *)
(* named by an exception that still holds, by its fingerprint or else by   *)
(* its rule and its agent or path.                                         *)
(***************************************************************************)
THEOREM OnlyAcceptedIsHidden ==
  ASSUME NEW found, NEW incomplete, NEW kept, NEW today, NEW opts,
         ScanStatus(found, incomplete, kept, today, opts) = 0, opts.failOn # 0,
         NEW f \in found, f.severity >= opts.failOn
  PROVE  \E e \in Range(Exceptions(kept, opts.asked)) :
           /\ ~Expired(e, today)
           /\ \/ e.fingerprint = {Fingerprint(f)}
              \/ /\ e.rule = {f.rule}
                 /\ e.agent = {f.agent} \/ \E matched \in e.path : f.path \in matched
  <1> DEFINE file == Exceptions(kept, opts.asked)
  <1>1. f \notin Remaining(found, file, today)
    BY PassKeepsNothing
  <1>2. PICK e \in Active(file, today) : Matches(e, f)
    BY <1>1 DEF Remaining
  <1>3. e \in Range(file) /\ ~Expired(e, today)
    BY <1>2 DEF Active
  <1>4. ~Refused(kept, opts.asked)
    BY PassKeepsNothing
  <1>5. Narrow(e)
    BY <1>3, <1>4, ReadIsValid
  <1>6. CASE e.fingerprint # {}
    <2>1. e.fingerprint = {Fingerprint(f)}
      BY <1>2, <1>6 DEF Matches
    <2> QED BY <1>3, <2>1
  <1>7. CASE e.fingerprint = {}
    <2>1. e.rule = {f.rule}
      BY <1>2, <1>5, <1>7 DEF Matches, Narrow
    <2>2. e.agent = {f.agent} \/ \E matched \in e.path : f.path \in matched
      BY <1>2, <1>5, <1>7 DEF Matches, Narrow
    <2> QED BY <1>3, <2>1, <2>2
  <1> QED BY <1>6, <1>7

(***************************************************************************)
(* "Existing risk acceptances cannot conceal a newly introduced security   *)
(* delta", nor does the scan after a merge find what the review did not:   *)
(* it passes if the scan before did, the review found nothing introduced   *)
(* or worsened, and no exception has expired meanwhile.                    *)
(***************************************************************************)
THEOREM ReviewedStaysClean ==
  ASSUME NEW base, NEW head, NEW baseIncomplete, NEW headIncomplete, NEW kept,
         NEW before, NEW after, NEW opts,
         opts.failOn \in Nat, \A f \in base \cup head : f.severity \in Nat,
         ScanStatus(base, baseIncomplete, kept, before, opts) = 0,
         opts.strict => ~headIncomplete,
         opts.failOn # 0 => \A f \in Introduced(base, head) \cup Worsened(base, head) :
                                 ~(f.severity >= opts.failOn),
         \A s \in Active(Exceptions(kept, opts.asked), before) : ~Expired(s, after)
  PROVE  ScanStatus(head, headIncomplete, kept, after, opts) = 0
  <1> DEFINE file == Exceptions(kept, opts.asked)
  <1>1. ~Refused(kept, opts.asked)
    BY PassKeepsNothing
  <1>2. opts.strict => ~headIncomplete /\ \A s \in Range(file) : ~Expired(s, after)
    BY PassKeepsNothing DEF Active
  <1>3. ASSUME opts.failOn # 0, NEW f \in Remaining(head, file, after),
               f.severity >= opts.failOn
        PROVE  FALSE
    <2>1. f \in head
      BY <1>3 DEF Remaining
    <2>2. PICK b \in base : Fingerprint(b) = Fingerprint(f)
      BY <1>3, <2>1 DEF Introduced
    <2>3. CASE b \in Remaining(base, file, before)
      <3>1. ~(b.severity >= opts.failOn)
        BY <1>3, <2>3, PassKeepsNothing
      <3>2. f.severity > b.severity
        BY <1>3, <2>1, <2>2, <3>1
      <3>3. f \in Worsened(base, head)
        BY <2>1, <2>2, <3>2 DEF Worsened
      <3> QED BY <1>3, <3>3
    <2>4. CASE b \notin Remaining(base, file, before)
      <3>1. PICK s \in Active(file, before) : Matches(s, b)
        BY <2>2, <2>4 DEF Remaining
      <3>2. s \in Active(file, after)
        BY <3>1 DEF Active
      <3>3. Matches(s, f)
        BY <2>2, <3>1, MatchesByFingerprint
      <3> QED BY <1>3, <3>2, <3>3 DEF Remaining
    <2> QED BY <2>3, <2>4
  <1> QED BY <1>1, <1>2, <1>3 DEF ScanStatus

\* Every element of a finite set is in the sequence made of it.
LEMMA SequenceOfSet ==
  ASSUME NEW S, IsFiniteSet(S)
  PROVE  /\ DOMAIN SetToSeq(S) = 1..Cardinality(S)
         /\ \A x \in S : \E i \in 1..Cardinality(S) : SetToSeq(S)[i] = x
  <1> DEFINE D == 1..Cardinality(S)
             Chosen(f) == f \in [D -> S] /\ IsInjective(f)
  <1>1. Cardinality(S) \in Nat /\ ExistsBijection(D, S)
    BY FS_CardinalityType
  <1>2. PICK g : g \in Bijection(D, S)
    BY <1>1 DEF ExistsBijection
  <1>3. Chosen(g)
    BY <1>2 DEF Bijection, Injection, IsInjective
  <1>4. SetToSeq(S) \in [D -> S] /\ IsInjective(SetToSeq(S))
    BY <1>3 DEF SetToSeq
  <1>5. SetToSeq(S) \in Injection(D, S)
    BY <1>4 DEF Injection, IsInjective
  <1>6. Cardinality(D) = Cardinality(S)
    BY <1>1, FS_Interval
  <1>7. SetToSeq(S) \in Surjection(D, S)
    BY <1>5, <1>6, FS_Injection
  <1> QED BY <1>4, <1>7 DEF Surjection

(***************************************************************************)
(* What a baseline was written of does not fail a scan until it expires,   *)
(* whatever else the file says, however the rules are configured           *)
(* (ApplyConfig changes severities and takes findings away).               *)
(***************************************************************************)
THEOREM BaselineHides ==
  ASSUME NEW found, IsFiniteSet(found),
         \A x \in found : x = Finding(x.rule, x.severity, x.agent, x.path, x.evidence),
         NEW expires \in Nat, NEW today \in Nat,
         today <= expires, NEW config, NEW file,
         Range(Baseline(found, expires)) \subseteq Range(file)
  PROVE  Remaining(ApplyConfig(config, found), file, today) = {}
  <1> DEFINE order == SetToSeq(found)
             entry(i) == [id |-> <<"baseline", i>>, expires |-> expires,
                          fingerprint |-> {Fingerprint(order[i])}, rule |-> {order[i].rule},
                          agent |-> {}, path |-> {}]
  <1> SUFFICES ASSUME NEW f \in ApplyConfig(config, found)
               PROVE  \E s \in Active(file, today) : Matches(s, f)
    BY DEF Remaining
  <1>1. PICK x \in found : Fingerprint(x) = Fingerprint(f) /\ x.rule = f.rule
    <2>1. PICK x \in found :
             f = IF x.rule \in DOMAIN config /\ config[x.rule].severity # 0
                 THEN [x EXCEPT !.severity = config[x.rule].severity] ELSE x
      BY DEF ApplyConfig
    <2>2. x = Finding(x.rule, x.severity, x.agent, x.path, x.evidence)
      OBVIOUS
    <2>3. x.rule = f.rule /\ x.agent = f.agent /\ x.path = f.path /\ x.evidence = f.evidence
      BY <2>1, <2>2 DEF Finding
    <2> QED BY <2>3 DEF Fingerprint
  <1>2. PICK i \in 1..Cardinality(found) : order[i] = x
    BY <1>1, SequenceOfSet
  <1>3. entry(i) \in Range(Baseline(found, expires))
    BY <1>2, SequenceOfSet DEF Baseline, Range
  <1>4. entry(i) \in Active(file, today)
    BY <1>3 DEF Active, Expired
  <1>5. Matches(entry(i), f)
    BY <1>1, <1>2 DEF Matches
  <1> QED BY <1>4, <1>5

-----------------------------------------------------------------------------
(* The preparation: from the event to the files of its two commits.        *)

(***************************************************************************)
(* Both revisions were validated before anything was asked of git; when an *)
(* archive is unpacked or was, it is the revision's own commit's.          *)
(***************************************************************************)
GitInv ==
  /\ PullRequestTypeOK
  /\ stage \in Stages
  /\ stage # "event" => event.base \in Objects /\ event.head \in Objects
  /\ stage = "archive" /\ side = "head" => snapshot["base"] = Peel(event.base)
  /\ stage \notin GitStages => \A s \in Sides : snapshot[s] = Peel(event[s])

LEMMA PeelType == \A o \in Objects : Peel(o) \in Commits /\ o # BRANCH
  BY PeelAssumption DEF Objects

\* A revision that was validated resolves to the commit it peels to and to no other.
LEMMA ResolvedIsPeeled ==
  ASSUME GitInv, stage # "event", NEW c \in ResolveCommit(Revision)
  PROVE  c = Peel(Revision) /\ c \in Commits
  <1>1. Revision \in Objects
    BY DEF GitInv, PullRequestTypeOK, Sides, Revision
  <1> QED BY <1>1, PeelType DEF ResolveCommit

LEMMA InitHolds == PullRequestInit /\ PullRequestTypeOK => GitInv
  BY DEF PullRequestInit, GitInv, GitStages, Stages

LEMMA FailKeeps == ASSUME GitInv, Fail PROVE GitInv'
  BY DEF GitInv, Fail, PullRequestTypeOK

LEMMA AvailableKeeps ==
  ASSUME GitInv, stage \in {"lookup", "verify"}, Available
  PROVE  GitInv'
  BY DEF GitInv, Available, PullRequestTypeOK, Sides, GitStages, Stages

LEMMA LookupKeeps == ASSUME GitInv, Lookup PROVE GitInv'
  <1>1. CASE Available
    BY <1>1, AvailableKeeps DEF Lookup, Running
  <1>2. CASE ~Available
    BY <1>2 DEF GitInv, Lookup, Running, PullRequestTypeOK, GitStages, Stages
  <1> QED BY <1>1, <1>2

LEMMA FetchKeeps == ASSUME GitInv, Fetch \/ FetchPullRef PROVE GitInv'
  <1>1. CASE Fail
    BY <1>1, FailKeeps
  <1>2. CASE ~Fail
    <2>1. /\ stage \in {"fetch", "fallback"} /\ stage' \in {"verify", "fallback"}
          /\ local' \in {local, local \cup {Revision, Peel(Revision)}, local \cup {pullRef}}
          /\ UNCHANGED <<event, pullRef, branch, side, snapshot, exit>>
      BY <1>2 DEF Fetch, FetchPullRef, Running
    <2>2. Revision \in Objects
      BY <2>1 DEF GitInv, PullRequestTypeOK, Sides, Revision
    <2>3. local' \subseteq Objects
      BY <2>1, <2>2, PeelType DEF GitInv, PullRequestTypeOK, Objects
    <2> QED BY <2>1, <2>3 DEF GitInv, PullRequestTypeOK, GitStages, Stages
  <1> QED BY <1>1, <1>2

LEMMA VerifyKeeps == ASSUME GitInv, Verify PROVE GitInv'
  BY AvailableKeeps, FailKeeps DEF Verify, Running

LEMMA MaterializeKeeps == ASSUME GitInv, Materialize PROVE GitInv'
  <1>1. CASE Fail
    BY <1>1, FailKeeps
  <1>2. CASE ~Fail
    <2>1. PICK c \in ResolveCommit(Revision) :
            /\ snapshot' = [snapshot EXCEPT ![side] = c]
            /\ side' = IF side = "base" THEN "head" ELSE "base"
            /\ stage' = IF side = "base" THEN "archive" ELSE "scan"
            /\ UNCHANGED <<event, pullRef, local, branch, exit>>
      BY <1>2 DEF Materialize
    <2>2. stage = "archive"
      BY DEF Materialize, Running
    <2>3. c = Peel(event[side]) /\ c \in Commits
      BY <2>2, ResolvedIsPeeled DEF Revision
    <2>4. PullRequestTypeOK'
      BY <2>1, <2>3 DEF GitInv, PullRequestTypeOK, Sides
    <2>5. CASE side = "base"
      BY <2>1, <2>2, <2>3, <2>4, <2>5 DEF GitInv, PullRequestTypeOK, GitStages, Stages, Sides
    <2>6. CASE side = "head"
      BY <2>1, <2>2, <2>3, <2>4, <2>6 DEF GitInv, PullRequestTypeOK, GitStages, Stages, Sides
    <2> QED BY <2>5, <2>6 DEF GitInv, PullRequestTypeOK, Sides
  <1> QED BY <1>1, <1>2

LEMMA InvariantKept == GitInv /\ [Prepare \/ Push]_gitVars => GitInv'
  <1> SUFFICES ASSUME GitInv, [Prepare \/ Push]_gitVars
               PROVE  GitInv'
    OBVIOUS
  <1>1. CASE ResolveRevisions
    <2>1. CASE Fail
      BY <2>1, FailKeeps
    <2>2. CASE ~Fail
      BY <1>1, <2>2 DEF GitInv, ResolveRevisions, Running, ValidateSha, PullRequestTypeOK, GitStages, Stages
    <2> QED BY <2>1, <2>2
  <1>2. CASE Push
    BY <1>2 DEF GitInv, Push, PullRequestTypeOK
  <1>3. CASE UNCHANGED gitVars
    BY <1>3 DEF GitInv, gitVars, PullRequestTypeOK
  <1> QED BY <1>1, <1>2, <1>3, LookupKeeps, FetchKeeps, VerifyKeeps, FailKeeps, MaterializeKeeps
          DEF Prepare, GitFails

(***************************************************************************)
(* Whatever git answers, whatever the branch of the pull request and the   *)
(* local branches mean by now, what is scanned is the event's two commits. *)
(***************************************************************************)
THEOREM EventIsScanned == PreparationSpec => []ScansTheEvent
  <1>1. ASSUME GitInv
        PROVE  ScansTheEvent
    BY <1>1 DEF GitInv, ScansTheEvent, Sides, GitStages, Stages
  <1> QED BY <1>1, InitHolds, InvariantKept, PTL DEF PreparationSpec

-----------------------------------------------------------------------------
(* The two scans.                                                          *)

ScanStages == {"scan", "fast-agent", "authority", "context", "rounds", "flows", "findings"}

\* Where the scan of revision s stands: that of the head waits for the base's.
Phase(s) ==
  IF stage \in GitStages \/ (stage \in ScanStages /\ s = "head" /\ side = "base") THEN "scan"
  ELSE IF stage \in ScanStages /\ s = side THEN stage
  ELSE "compare"

(***************************************************************************)
(* What a revision's scan has come to at each of its stages, as functions  *)
(* of the tree: the passes are applied in this order and to nothing else.  *)
(***************************************************************************)
Progress(at, s) ==
  /\ at \in {"scan", "fast-agent", "authority", "context"} => rounds[s] = 0
  /\ at = "fast-agent" => mcp[s] = Imported(Tree(s))
  /\ at = "authority" => mcp[s] = Referenced(Tree(s))
  /\ at = "context" => mcp[s] = Authorized(Tree(s))
  /\ at \in {"rounds", "flows", "findings", "compare"} => mcp[s] = Bindings(Tree(s))
  /\ at = "rounds" => rounds[s] < MAX_FLOW_SUMMARY_ITERATIONS
  /\ at \in {"findings", "compare"} => flows[s] \subseteq FlowsOf(Tree(s), summaries[s])
  /\ at = "compare" => findings[s] = ApplyConfig(Tree(s).config, RawFindings(s))

\* The limits that the scans keep.
ScanTypes ==
  /\ DOMAIN mcp = Sides /\ DOMAIN summaries = Sides
  /\ DOMAIN flows = Sides /\ DOMAIN findings = Sides
  /\ rounds \in [Sides -> 0..MAX_FLOW_SUMMARY_ITERATIONS]
  /\ \A s \in Sides : IsFiniteSet(flows[s]) /\ Cardinality(flows[s]) <= MAX_FLOW_PATHS

\* What the job was given.
GivenTypes ==
  /\ DOMAIN trees = Commits /\ \A c \in Commits : IsTree(trees[c])
  /\ {options.strict, options.regression, options.policy} \subseteq BOOLEAN
  /\ options.failOn \in Nat

\* The report and the exit status come last, and of the two scans as they are by then.
Outcome ==
  /\ stage # "gates" => report = NoReport /\ exit \in {1, 3}
  /\ stage = "gates" => report \in Comparisons
  /\ stage = "gates" /\ exit # 3 => \E violated \in BOOLEAN : exit = ExitStatus(violated)

ReviewInv ==
  /\ GitInv
  /\ GivenTypes
  /\ ScanTypes
  /\ \A s \in Sides : Progress(Phase(s), s)
  /\ Outcome

LEMMA InitReviewed == Init => ReviewInv
  <1> SUFFICES ASSUME Init PROVE ReviewInv
    OBVIOUS
  <1>1. PICK job \in Jobs :
          /\ event = job.event /\ pullRef = job.pull /\ local = job.local /\ branch = job.branch
          /\ \E b \in job.base, h \in job.head :
               trees = [c \in Commits |-> IF c \in Merged THEN b ELSE h]
          /\ options \in job.options
    BY DEF Init
  <1>2. /\ stage = "event" /\ side = "base" /\ exit = 3
        /\ snapshot = [s \in Sides |-> NONE]
    BY DEF Init, PullRequestInit
  <1>3. GitInv
    BY <1>1, <1>2, JobsAssumption, InitHolds DEF Init, PullRequestInit, PullRequestTypeOK, Sides
  <1>4. GivenTypes
    BY <1>1, JobsAssumption DEF GivenTypes
  <1>5. ScanTypes
    <2>1. IsFiniteSet({}) /\ Cardinality({}) = 0
      BY FS_EmptySet
    <2> QED BY <2>1, FlowAssumption DEF Init, ScanTypes
  <1>6. \A s \in Sides : Progress(Phase(s), s)
    <2>1. \A s \in Sides : Phase(s) = "scan"
      BY <1>2 DEF Phase, GitStages
    <2> QED BY <2>1 DEF Progress, Init
  <1>7. Outcome
    BY <1>2 DEF Init, Outcome
  <1> QED BY <1>3, <1>4, <1>5, <1>6, <1>7 DEF ReviewInv

\* The preparation ends before the scan begins, and gives up in its own stages only.
LEMMA Preparing ==
  ASSUME GitInv, Prepare \/ Push
  PROVE  /\ exit = 3 /\ exit' \in {1, 3} /\ stage \in GitStages
         /\ stage' \in GitStages \/ (stage' = "scan" /\ side' = "base")
  <1>1. side \in Sides
    BY DEF GitInv, PullRequestTypeOK
  <1>2. exit = 3 /\ stage \in GitStages
    BY DEF Prepare, Push, ResolveRevisions, Lookup, Fetch, FetchPullRef, Verify, GitFails,
           Materialize, Running, GitStages
  <1>3. CASE Fail
    BY <1>2, <1>3 DEF Fail
  <1>4. CASE ~Fail /\ Available
    BY <1>2, <1>4 DEF Available, GitStages
  <1>5. CASE ~Fail /\ ~Available
    BY <1>1, <1>2, <1>5
       DEF Prepare, Push, ResolveRevisions, Lookup, Fetch, FetchPullRef, Verify, GitFails,
           Materialize, Running, GitStages, Sides
  <1> QED BY <1>3, <1>4, <1>5

\* A scan that is not at hand stays where it is.
LEMMA ProgressKept ==
  ASSUME NEW at, NEW s, Progress(at, s), Tree(s)' = Tree(s), mcp'[s] = mcp[s],
         summaries'[s] = summaries[s], rounds'[s] = rounds[s], flows'[s] = flows[s],
         findings'[s] = findings[s]
  PROVE  Progress(at, s)'
  BY DEF Progress, Tree, RawFindings

LEMMA ComparisonKept ==
  ASSUME UNCHANGED <<snapshot, trees, options, scanVars, report>>
  PROVE  /\ Comparisons' = Comparisons
         /\ \A violated \in BOOLEAN : ExitStatus(violated)' = ExitStatus(violated)
         /\ \A s \in Sides : CoverageIncomplete(s)' = CoverageIncomplete(s)
         /\ \A s \in Sides : RawFindings(s)' = RawFindings(s)
  BY DEF Comparisons, AnalysisIncomplete, CoverageIncomplete, AllServers, AuthorityOf, Tree,
         ExitStatus, RawFindings, scanVars

LEMMA PreparationKeeps ==
  ASSUME ReviewInv, Prepare \/ Push, UNCHANGED Rest
  PROVE  ReviewInv'
  <1>1. GitInv'
    BY InvariantKept DEF ReviewInv
  <1>2. GivenTypes' /\ ScanTypes'
    BY DEF ReviewInv, Rest, scanVars, GivenTypes, ScanTypes
  <1>3. /\ exit' \in {1, 3} /\ stage \in GitStages
        /\ stage' \in GitStages \/ (stage' = "scan" /\ side' = "base")
    BY Preparing DEF ReviewInv
  <1>4. ASSUME NEW s \in Sides
        PROVE  Progress(Phase(s), s)'
    <2>1. Phase(s) = "scan" /\ Phase(s)' = "scan"
      BY <1>3 DEF Phase, GitStages, ScanStages, Sides
    <2>2. Progress("scan", s)'
      BY <2>1 DEF ReviewInv, Progress, Rest, scanVars
    <2> QED BY <2>1, <2>2 DEF Progress
  <1>5. Outcome'
    BY <1>3 DEF ReviewInv, Outcome, Rest, GitStages
  <1> QED BY <1>1, <1>2, <1>4, <1>5 DEF ReviewInv

LEMMA StutteringKeeps == ASSUME ReviewInv, UNCHANGED vars PROVE ReviewInv'
  <1>1. GitInv'
    BY DEF ReviewInv, vars, gitVars, GitInv, PullRequestTypeOK
  <1>2. GivenTypes' /\ ScanTypes'
    BY DEF ReviewInv, vars, scanVars, GivenTypes, ScanTypes
  <1>3. ASSUME NEW s \in Sides
        PROVE  Progress(Phase(s), s)'
    <2>1. Phase(s)' = Phase(s)
      BY DEF Phase, vars, gitVars
    <2>2. Progress(Phase(s), s)
      BY DEF ReviewInv
    <2>3. Tree(s)' = Tree(s)
      BY DEF Tree, vars, gitVars
    <2>4. Progress(Phase(s), s)' <=> Progress(Phase(s), s)
      BY <2>1 DEF Progress, Tree, RawFindings, vars, gitVars, scanVars
    <2> QED BY <2>2, <2>4
  <1>4. Outcome'
    BY ComparisonKept DEF ReviewInv, Outcome, vars, gitVars, scanVars
  <1> QED BY <1>1, <1>2, <1>3, <1>4 DEF ReviewInv

\* What the six passes have in common: only the side at hand gets anywhere.
LEMMA PassKeeps ==
  ASSUME ReviewInv, NEW from \in ScanStages, NEW next \in ScanStages,
         Scanning(from), Then(next), ScanTypes',
         \A s \in Sides \ {side} :
           /\ mcp'[s] = mcp[s] /\ summaries'[s] = summaries[s] /\ rounds'[s] = rounds[s]
           /\ flows'[s] = flows[s] /\ findings'[s] = findings[s],
         Progress(next, side)'
  PROVE  ReviewInv'
  <1>1. /\ stage = from /\ exit = 3 /\ stage' = next
        /\ UNCHANGED <<event, pullRef, local, branch, side, snapshot, exit, trees, options, report>>
    BY DEF Scanning, Then
  <1>2. GitInv'
    BY <1>1 DEF ReviewInv, GitInv, PullRequestTypeOK, ScanStages, GitStages, Stages
  <1>3. GivenTypes'
    BY <1>1 DEF ReviewInv, GivenTypes
  <1>4. ASSUME NEW s \in Sides
        PROVE  Progress(Phase(s), s)'
    <2>1. CASE s = side
      <3>1. Phase(s)' = next
        BY <1>1, <2>1 DEF Phase, ScanStages, GitStages, Sides
      <3>2. Progress(next, s)'
        BY <1>1, <2>1 DEF Progress, Tree, RawFindings
      <3> QED BY <3>1, <3>2 DEF Progress
    <2>2. CASE s # side
      <3>1. Phase(s)' = Phase(s)
        BY <1>1, <2>2 DEF Phase, ScanStages, GitStages, Sides
      <3>2. Progress(Phase(s), s) /\ Tree(s)' = Tree(s)
        BY <1>1 DEF ReviewInv, Tree
      <3>3. PICK at : at = Phase(s)
        OBVIOUS
      <3>4. Progress(at, s)'
        BY <2>2, <3>2, <3>3, ProgressKept
      <3> QED BY <3>1, <3>3, <3>4 DEF Progress
    <2> QED BY <2>1, <2>2
  <1>5. Outcome'
    BY <1>1 DEF ReviewInv, Outcome, ScanStages
  <1> QED BY <1>2, <1>3, <1>4, <1>5 DEF ReviewInv

\* A scan's pass finds what the passes before it left.
LEMMA AtHand ==
  ASSUME ReviewInv, NEW at \in ScanStages, Scanning(at)
  PROVE  /\ side \in Sides /\ Progress(at, side)
         /\ Tree(side) \in {trees[c] : c \in Commits} /\ IsTree(Tree(side))
  <1>1. side \in Sides /\ Phase(side) = at
    BY DEF ReviewInv, GitInv, PullRequestTypeOK, Phase, Scanning, ScanStages, GitStages, Sides
  <1>2. snapshot[side] = Peel(event[side]) /\ event[side] \in Objects
    BY <1>1 DEF ReviewInv, GitInv, Scanning, ScanStages, GitStages, Sides
  <1>3. snapshot[side] \in Commits
    BY <1>2, PeelType
  <1> QED BY <1>1, <1>3 DEF ReviewInv, Tree, GivenTypes

LEMMA BindingKeeps ==
  ASSUME ReviewInv, BindImported \/ BindFastAgent \/ BindClients \/ AttachContext
  PROVE  ReviewInv'
  <1>0. /\ Tree(side)' = Tree(side)
        /\ UNCHANGED <<side, rounds, flows, findings>>
    BY DEF BindImported, BindFastAgent, BindClients, AttachContext, Then, Tree
  <1>1. DOMAIN mcp = Sides /\ DOMAIN summaries = Sides /\ ScanTypes
    BY DEF ReviewInv, ScanTypes
  <1>2. ScanTypes'
    BY <1>0, <1>1
       DEF BindImported, BindFastAgent, BindClients, AttachContext, ScanTypes
  <1>3. CASE BindImported
    <2>1. Scanning("scan") /\ Then("fast-agent")
      BY <1>3 DEF BindImported
    <2>2. side \in Sides /\ Progress("scan", side)
      BY <2>1, AtHand DEF ScanStages
    <2>3. mcp'[side] = Imported(Tree(side))
      BY <1>1, <1>3, <2>2 DEF BindImported, Imported
    <2>4. Progress("fast-agent", side)'
      BY <1>0, <2>2, <2>3 DEF Progress
    <2> QED BY <1>0, <1>1, <1>2, <1>3, <2>1, <2>4, PassKeeps DEF ScanStages, BindImported
  <1>4. CASE BindFastAgent
    <2>1. Scanning("fast-agent") /\ Then("authority")
      BY <1>4 DEF BindFastAgent
    <2>2. side \in Sides /\ Progress("fast-agent", side)
      BY <2>1, AtHand DEF ScanStages
    <2>3. mcp'[side] = Referenced(Tree(side))
      BY <1>1, <1>4, <2>2 DEF BindFastAgent, Referenced, Progress
    <2>4. Progress("authority", side)'
      BY <1>0, <2>2, <2>3 DEF Progress
    <2> QED BY <1>0, <1>1, <1>2, <1>4, <2>1, <2>4, PassKeeps DEF ScanStages, BindFastAgent
  <1>5. CASE BindClients
    <2>1. Scanning("authority") /\ Then("context")
      BY <1>5 DEF BindClients
    <2>2. side \in Sides /\ Progress("authority", side)
      BY <2>1, AtHand DEF ScanStages
    <2>3. mcp'[side] = Authorized(Tree(side))
      BY <1>1, <1>5, <2>2 DEF BindClients, Authorized, Progress
    <2>4. Progress("context", side)'
      BY <1>0, <2>2, <2>3 DEF Progress
    <2> QED BY <1>0, <1>1, <1>2, <1>5, <2>1, <2>4, PassKeeps DEF ScanStages, BindClients
  <1>6. CASE AttachContext
    <2>1. Scanning("context") /\ Then("rounds")
      BY <1>6 DEF AttachContext
    <2>2. side \in Sides /\ Progress("context", side)
      BY <2>1, AtHand DEF ScanStages
    <2>3. mcp'[side] = Bindings(Tree(side))
      BY <1>1, <1>6, <2>2 DEF AttachContext, Bindings, Progress
    <2>4. Progress("rounds", side)'
      BY <1>0, <2>2, <2>3, FlowAssumption DEF Progress
    <2> QED BY <1>0, <1>1, <1>2, <1>6, <2>1, <2>4, PassKeeps DEF ScanStages, AttachContext
  <1> QED BY <1>3, <1>4, <1>5, <1>6

LEMMA SummariesKeeps == ASSUME ReviewInv, Summaries PROVE ReviewInv'
  <1>1. PICK next \in {"flows", "rounds"} :
          /\ Scanning("rounds") /\ Then(next)
          /\ rounds' = [rounds EXCEPT ![side] = @ + 1]
          /\ next = "rounds" => rounds[side] + 1 # MAX_FLOW_SUMMARY_ITERATIONS
          /\ UNCHANGED <<mcp, flows, findings>>
    BY DEF Summaries
  <1>2. side \in Sides /\ Progress("rounds", side)
    BY <1>1, AtHand DEF ScanStages
  <1>3. ScanTypes /\ DOMAIN summaries' = DOMAIN summaries
        /\ \A s \in Sides \ {side} : summaries'[s] = summaries[s]
    BY DEF ReviewInv, Summaries, ScanTypes
  <1>4. /\ rounds[side] \in Nat /\ rounds[side] < MAX_FLOW_SUMMARY_ITERATIONS
        /\ rounds'[side] = rounds[side] + 1
    BY <1>1, <1>2, <1>3, FlowAssumption DEF ScanTypes, Progress
  <1>5. ScanTypes'
    BY <1>1, <1>2, <1>3, <1>4, FlowAssumption DEF ScanTypes
  <1>6. Tree(side)' = Tree(side)
    BY <1>1 DEF Then, Tree
  <1>7. Progress(next, side)'
    BY <1>1, <1>2, <1>4, <1>6, FlowAssumption DEF Progress, Then
  <1>8. \A s \in Sides \ {side} : rounds'[s] = rounds[s]
    BY <1>1, <1>3 DEF ScanTypes
  <1> QED BY <1>1, <1>3, <1>5, <1>7, <1>8, PassKeeps DEF ScanStages

LEMMA AttributeKeeps == ASSUME ReviewInv, Attribute PROVE ReviewInv'
  <1>1. PICK kept \in SUBSET FlowsOf(Tree(side), summaries[side]) :
          /\ IsFiniteSet(kept) /\ Cardinality(kept) <= MAX_FLOW_PATHS
          /\ flows' = [flows EXCEPT ![side] = kept]
    BY DEF Attribute
  <1>2. /\ Scanning("flows") /\ Then("findings")
        /\ UNCHANGED <<mcp, summaries, rounds, findings>>
    BY DEF Attribute
  <1>3. side \in Sides /\ Progress("flows", side)
    BY <1>2, AtHand DEF ScanStages
  <1>4. ScanTypes
    BY DEF ReviewInv
  <1>5. ScanTypes' /\ flows'[side] = kept /\ \A s \in Sides \ {side} : flows'[s] = flows[s]
    BY <1>1, <1>2, <1>3, <1>4 DEF ScanTypes
  <1>6. Tree(side)' = Tree(side)
    BY <1>2 DEF Then, Tree
  <1>7. Progress("findings", side)'
    BY <1>1, <1>2, <1>3, <1>5, <1>6 DEF Progress, Then
  <1> QED BY <1>2, <1>5, <1>7, PassKeeps DEF ScanStages

LEMMA EvaluateKeeps == ASSUME ReviewInv, EvaluateRules PROVE ReviewInv'
  <1>1. /\ stage = "findings" /\ exit = 3
        /\ findings' = [findings EXCEPT ![side] =
                          ApplyConfig(Tree(side).config, RawFindings(side))]
        /\ side' = IF side = "base" THEN "head" ELSE "base"
        /\ stage' = IF side = "base" THEN "scan" ELSE "compare"
        /\ UNCHANGED <<event, pullRef, local, branch, snapshot, exit, trees, options, report,
                       mcp, summaries, rounds, flows>>
    BY DEF EvaluateRules, Scanning
  <1>2. side \in Sides /\ Progress("findings", side)
    BY <1>1, AtHand DEF Scanning, ScanStages
  <1>3. stage' \in {"scan", "compare"} /\ side' \in Sides
    BY <1>1 DEF Sides
  <1>4. GitInv'
    BY <1>1, <1>3 DEF ReviewInv, GitInv, PullRequestTypeOK, GitStages, Stages
  <1>5. GivenTypes' /\ ScanTypes'
    BY <1>1 DEF ReviewInv, GivenTypes, ScanTypes
  <1>6. /\ \A s \in Sides : Tree(s)' = Tree(s) /\ RawFindings(s)' = RawFindings(s)
        /\ \A s \in Sides \ {side} : findings'[s] = findings[s]
        /\ findings'[side] = ApplyConfig(Tree(side).config, RawFindings(side))
    BY <1>1, <1>2 DEF Tree, RawFindings, ReviewInv, ScanTypes
  <1>7. ASSUME NEW s \in Sides
        PROVE  Progress(Phase(s), s)'
    <2>1. CASE s = side
      <3>1. Phase(s)' = "compare"
        BY <1>1, <1>2, <2>1 DEF Phase, ScanStages, GitStages, Sides
      <3>2. findings'[s] = ApplyConfig(Tree(s)'.config, RawFindings(s)')
        BY <1>2, <1>6, <2>1
      <3>3. /\ mcp'[s] = Bindings(Tree(s)')
            /\ flows'[s] \subseteq FlowsOf(Tree(s)', summaries'[s])
        BY <1>1, <1>2, <1>6, <2>1 DEF Progress
      <3>4. Progress("compare", s)'
        BY <3>2, <3>3 DEF Progress
      <3> QED BY <3>1, <3>4 DEF Progress
    <2>2. CASE s # side
      <3>1. Phase(s)' = Phase(s)
        BY <1>1, <1>2, <2>2 DEF Phase, ScanStages, GitStages, Sides
      <3>2. Progress(Phase(s), s)
        BY DEF ReviewInv
      <3>3. PICK at : at = Phase(s)
        OBVIOUS
      <3>4. Progress(at, s)'
        BY <1>1, <1>6, <2>2, <3>2, <3>3, ProgressKept
      <3> QED BY <3>1, <3>3, <3>4 DEF Progress
    <2> QED BY <2>1, <2>2
  <1>8. Outcome'
    BY <1>1, <1>3 DEF ReviewInv, Outcome
  <1> QED BY <1>4, <1>5, <1>7, <1>8 DEF ReviewInv

LEMMA DecisionKeeps == ASSUME ReviewInv, Compare \/ Gates PROVE ReviewInv'
  <1>1. /\ stage \in {"compare", "gates"} /\ exit = 3 /\ stage' = "gates"
        /\ UNCHANGED <<event, pullRef, local, branch, side, snapshot, trees, options, scanVars>>
        /\ exit' \in {0, 1, 2, 3}
    BY DEF Compare, Gates, Scanning, ExitStatus
  <1>2. GitInv'
    BY <1>1 DEF ReviewInv, GitInv, PullRequestTypeOK, GitStages, Stages
  <1>3. GivenTypes' /\ ScanTypes'
    BY <1>1 DEF ReviewInv, GivenTypes, ScanTypes, scanVars
  <1>4. ASSUME NEW s \in Sides
        PROVE  Progress(Phase(s), s)'
    <2>1. Phase(s) = "compare" /\ Phase(s)' = "compare"
      BY <1>1 DEF Phase, ScanStages, GitStages
    <2>2. Progress("compare", s) /\ Tree(s)' = Tree(s)
      BY <1>1, <2>1 DEF ReviewInv, Tree
    <2>3. Progress("compare", s)'
      BY <1>1, <2>2, ProgressKept DEF scanVars
    <2> QED BY <2>1, <2>3 DEF Progress
  <1>5. Comparisons' = Comparisons
    BY <1>1 DEF Comparisons, AnalysisIncomplete, CoverageIncomplete, AllServers, AuthorityOf,
                Tree, scanVars
  <1>6. CASE Compare
    <2>1. report' \in Comparisons' /\ exit' = 3
      BY <1>1, <1>5, <1>6 DEF Compare
    <2> QED BY <1>1, <1>2, <1>3, <1>4, <2>1 DEF ReviewInv, Outcome
  <1>7. CASE Gates
    <2>1. stage = "gates" /\ UNCHANGED report /\ \E violated \in BOOLEAN : exit' = ExitStatus(violated)
      BY <1>7 DEF Gates, Scanning
    <2>2. report' \in Comparisons'
      BY <1>5, <2>1 DEF ReviewInv, Outcome
    <2>3. \A violated \in BOOLEAN : ExitStatus(violated)' = ExitStatus(violated)
      BY <1>1, <2>1 DEF ExitStatus
    <2> QED BY <1>1, <1>2, <1>3, <1>4, <2>1, <2>2, <2>3 DEF ReviewInv, Outcome
  <1> QED BY <1>6, <1>7

LEMMA ReviewKept == ASSUME ReviewInv, Next \/ UNCHANGED vars PROVE ReviewInv'
  BY PreparationKeeps, StutteringKeeps, BindingKeeps, SummariesKeeps, AttributeKeeps,
     EvaluateKeeps, DecisionKeeps
     DEF Next, PrepareFiles

\* Once there is a verdict nothing of the review changes any more.
LEMMA VerdictIsFinal == ASSUME ReviewInv, Next PROVE exit = 3
  BY Preparing
     DEF ReviewInv, Next, PrepareFiles, BindImported, BindFastAgent, BindClients, AttachContext,
         Summaries, Attribute, EvaluateRules, Compare, Gates, Scanning

-----------------------------------------------------------------------------
(* What follows from it, of a scan that is over and of the verdict.        *)

LEMMA ScanIsOver ==
  ASSUME ReviewInv, NEW s \in Sides, stage \in {"compare", "gates"}
  PROVE  /\ IsTree(Tree(s))
         /\ mcp[s] = Bindings(Tree(s)) /\ GraphOf(Tree(s), mcp[s])
         /\ flows[s] \subseteq FlowsOf(Tree(s), summaries[s]) /\ IsFiniteSet(flows[s])
         /\ findings[s] = ApplyConfig(Tree(s).config, RawFindings(s))
         /\ IsFiniteSet(RawFindings(s)) /\ \A f \in RawFindings(s) : IsFinding(f)
  <1>1. Phase(s) = "compare"
    BY DEF Phase, GitStages, ScanStages
  <1>2. Progress("compare", s)
    BY <1>1 DEF ReviewInv
  <1>3. snapshot[s] = Peel(event[s]) /\ event[s] \in Objects
    BY DEF ReviewInv, GitInv, GitStages, Sides
  <1>4. snapshot[s] \in Commits
    BY <1>3, PeelType
  <1>5. IsTree(Tree(s))
    BY <1>4 DEF ReviewInv, GivenTypes, Tree
  <1>6. mcp[s] = Bindings(Tree(s)) /\ flows[s] \subseteq FlowsOf(Tree(s), summaries[s])
    BY <1>2 DEF Progress
  <1>7. GraphOf(Tree(s), mcp[s])
    BY <1>5, <1>6, BindingsGraph
  <1>8. IsFiniteSet(flows[s]) /\ \A f \in flows[s] : IsFiniteSet(f.agents)
    <2>1. IsFiniteSet(flows[s])
      BY DEF ReviewInv, ScanTypes
    <2> QED BY <1>5, <1>6, <2>1, FlowShape
  <1>9. PICK tree, g : tree = Tree(s) /\ g = mcp[s]
    OBVIOUS
  <1>10. PICK agents, unbound : /\ agents = AgentsOf(tree, g)
                                /\ unbound = {g.server[d] : d \in g.unbound \X {0}}
    OBVIOUS
  <1>11. /\ RawFindings(s) = Evaluate(agents, unbound, AttackPaths(agents, flows[s]), Broad)
         /\ IsFiniteSet(agents) /\ IsFiniteSet(unbound)
         /\ \A a \in agents : /\ IsFiniteSet(a.tools) /\ IsFiniteSet(a.servers)
                              /\ IsFiniteSet(a.identities)
    <2>1. RawFindings(s) = Evaluate(agents, unbound, AttackPaths(agents, flows[s]), Broad)
      BY <1>9, <1>10 DEF RawFindings
    <2>2. IsTree(tree) /\ GraphOf(tree, g)
      BY <1>5, <1>7, <1>9
    <2> QED BY <1>10, <2>1, <2>2, AgentsFinite
  <1>12. IsFiniteSet(RawFindings(s))
    BY <1>8, <1>11, FindingsFinite
  <1>13. \A f \in RawFindings(s) : IsFinding(f)
    BY <1>11, WhatWasFound
  <1>14. findings[s] = ApplyConfig(Tree(s).config, RawFindings(s))
    BY <1>2 DEF Progress
  <1> QED BY <1>5, <1>6, <1>7, <1>8, <1>12, <1>13, <1>14

\* A revision of which the report has nothing to say was seen in full.
LEMMA SeenInFull ==
  ASSUME ReviewInv, NEW s \in Sides, stage \in {"compare", "gates"}, ~AnalysisIncomplete(s)
  PROVE  /\ Tree(s).skipped = 0 /\ ~Tree(s).partial
         /\ \A f \in flows[s] : f.basis = "static_dataflow"
         /\ \A d \in DOMAIN Tree(s).decls :
              Remote(Tree(s).decls[d]) => Tree(s).decls[d].authenticated # "unknown"
  <1>1. IsTree(Tree(s)) /\ GraphOf(Tree(s), mcp[s])
        /\ flows[s] \subseteq FlowsOf(Tree(s), summaries[s])
    BY ScanIsOver
  <1>2. ~CoverageIncomplete(s) /\ ~(Tree(s).skipped > 0)
    BY DEF AnalysisIncomplete
  <1>3. Tree(s).skipped = 0
    BY <1>1, <1>2 DEF IsTree
  <1>4. \A f \in flows[s] : f.basis = "static_dataflow"
    BY <1>1, <1>2, FlowShape DEF CoverageIncomplete
  <1>5. ASSUME NEW d \in DOMAIN Tree(s).decls, Remote(Tree(s).decls[d])
        PROVE  Tree(s).decls[d].authenticated # "unknown"
    <2>1. PICK x \in AllServers(s) : /\ x.url = Tree(s).decls[d].url
                                     /\ x.authenticated = Tree(s).decls[d].authenticated
      BY <1>1, DeclarationServed DEF AllServers
    <2>2. Remote(x)
      BY <1>5, <2>1 DEF Remote
    <2> QED BY <1>2, <2>1, <2>2 DEF CoverageIncomplete
  <1> QED BY <1>2, <1>3, <1>4, <1>5 DEF CoverageIncomplete

\* A verdict but a refusal is the gates', and with --strict of two revisions seen in full.
LEMMA VerdictOfGates ==
  ASSUME ReviewInv, exit \in {0, 2}
  PROVE  /\ stage = "gates" /\ report \in Comparisons
         /\ \E violated \in BOOLEAN : exit = ExitStatus(violated)
         /\ options.strict => \A s \in Sides : ~AnalysisIncomplete(s)
  <1>1. stage = "gates" /\ report \in Comparisons
        /\ \E violated \in BOOLEAN : exit = ExitStatus(violated)
    BY DEF ReviewInv, Outcome
  <1>2. options.strict => report.incomplete = {}
    BY <1>1 DEF ExitStatus
  <1>3. report.incomplete = {s \in Sides : AnalysisIncomplete(s)}
    BY <1>1 DEF Comparisons
  <1> QED BY <1>1, <1>2, <1>3

\* What passes with --fail-on neither introduces nor worsens a finding as severe.
LEMMA PassIntroducesNothing ==
  ASSUME ReviewInv, exit = 0, options.failOn # 0
  PROVE  \A f \in Introduced(findings["base"], findings["head"])
                    \cup Worsened(findings["base"], findings["head"]) :
           ~(f.severity >= options.failOn)
  <1>1. report \in Comparisons /\ \E violated \in BOOLEAN : exit = ExitStatus(violated)
    BY VerdictOfGates
  <1>2. \A f \in report.introduced \cup report.worsened : ~(f.severity >= options.failOn)
    BY <1>1 DEF ExitStatus
  <1> QED BY <1>1, <1>2 DEF Comparisons

LEMMA StrictIsKept == ReviewInv => StrictMeansComplete
  <1> SUFFICES ASSUME ReviewInv, options.strict, exit \in {0, 2}, NEW s \in Sides
               PROVE  /\ Tree(s).skipped = 0 /\ ~Tree(s).partial
                      /\ \A f \in flows[s] : f.basis = "static_dataflow"
                      /\ \A d \in DOMAIN Tree(s).decls :
                           Remote(Tree(s).decls[d]) => Tree(s).decls[d].authenticated # "unknown"
    BY DEF StrictMeansComplete
  <1> QED BY VerdictOfGates, SeenInFull

LEMMA TypesAreKept == ReviewInv => TypeOK
  <1> SUFFICES ASSUME ReviewInv PROVE TypeOK
    OBVIOUS
  <1>1. /\ report.incomplete \subseteq Sides /\ report.introduced \subseteq findings["head"]
        /\ report.worsened \subseteq findings["head"]
    BY DEF ReviewInv, Outcome, NoReport, Comparisons, Introduced, Worsened
  <1> QED BY <1>1 DEF ReviewInv, GitInv, GivenTypes, ScanTypes, TypeOK

LEMMA GainsAreShown == ASSUME ReviewInv, stage = "gates" PROVE GainsReported /\ CrossingsReported
  <1>1. PICK base, head : base = AgentsAt("base") /\ head = AgentsAt("head")
    OBVIOUS
  <1>2. PICK earlier \in Indexes(AuthorityOf("base")), later \in Indexes(AuthorityOf("head")) :
          report.expansions = Expansions(earlier, later)
    BY DEF ReviewInv, Outcome, Comparisons
  <1>3. AuthorityOf("base") = Relationships(base) /\ AuthorityOf("head") = Relationships(head)
    BY <1>1 DEF AuthorityOf, AgentsAt
  <1>4. /\ earlier \subseteq Relationships(base) /\ later \subseteq Relationships(head)
        /\ \A r \in Relationships(base) : \E k \in earlier : k.target = r.target
        /\ \A r \in Relationships(head) : \E k \in later : k.target = r.target
    BY <1>2, <1>3, Indexed
  <1>5. ASSUME NEW a \in head, NEW t \in a.tools, ~Reported(a, "tool", t.name)
        PROVE  \E x \in ToolsNamed("head", a.name, t.name), u \in ToolsNamed("base", a.name, t.name) :
                 NoMoreThan(x, u)
    <2>1. ToolAuthority(a, t) \in Relationships(head)
      BY DEF Relationships
    <2>a. ToolAuthority(a, t).target = <<a.name, "tool", t.name>>
      BY DEF ToolAuthority
    <2>2. PICK k \in later : k.target = <<a.name, "tool", t.name>>
      BY <1>4, <2>1, <2>a
    <2>3. PICK c \in head : \/ \E x \in c.tools : k = ToolAuthority(c, x)
                            \/ \E s \in c.servers : k = ServerAuthority(c, s)
      BY <1>4, RelationshipOf
    <2>4. PICK x \in c.tools : k = ToolAuthority(c, x)
      BY <2>2, <2>3 DEF ServerAuthority
    <2>5. c.name = a.name /\ x.name = t.name
      BY <2>2, <2>4 DEF ToolAuthority
    <2>6. \A e \in Expansions(earlier, later) : e.target # <<c.name, "tool", x.name>>
      BY <1>2, <1>5, <2>5 DEF Reported
    <2>7. HadTool(base, c.name, x)
      BY <1>4, <2>4, <2>6, ToolGainsShown
    <2>8. PICK b \in base : b.name = a.name /\ \E u \in b.tools : u.name = t.name /\ NoMoreThan(x, u)
      BY <2>5, <2>7 DEF HadTool
    <2>9. x \in ToolsNamed("head", a.name, t.name)
      BY <1>1, <2>5 DEF ToolsNamed
    <2> QED BY <1>1, <2>8, <2>9 DEF ToolsNamed
  <1>6. ASSUME NEW a \in head, NEW s \in a.servers, ~Reported(a, "mcp_server", s.name)
        PROVE  \E x \in ServersNamed("head", a.name, s.name),
                  u \in ServersNamed("base", a.name, s.name) :
                 /\ Callable(x, ToolNames) \subseteq Callable(u, ToolNames)
                 /\ x.url \in {u.url, "none"} /\ x.resources \subseteq u.resources
    <2>1. ServerAuthority(a, s) \in Relationships(head)
      BY DEF Relationships
    <2>a. ServerAuthority(a, s).target = <<a.name, "mcp_server", s.name>>
      BY DEF ServerAuthority
    <2>2. PICK k \in later : k.target = <<a.name, "mcp_server", s.name>>
      BY <1>4, <2>1, <2>a
    <2>3. PICK c \in head : \/ \E t \in c.tools : k = ToolAuthority(c, t)
                            \/ \E x \in c.servers : k = ServerAuthority(c, x)
      BY <1>4, RelationshipOf
    <2>4. PICK x \in c.servers : k = ServerAuthority(c, x)
      BY <2>2, <2>3 DEF ToolAuthority
    <2>5. c.name = a.name /\ x.name = s.name
      BY <2>2, <2>4 DEF ServerAuthority
    <2>6. \A e \in Expansions(earlier, later) : e.target # <<c.name, "mcp_server", x.name>>
      BY <1>2, <1>6, <2>5 DEF Reported
    <2>7. HadServer(base, c.name, x)
      BY <1>4, <2>4, <2>6, ServerGainsShown
    <2>8. PICK b \in base : /\ b.name = a.name
                            /\ \E u \in b.servers :
                                 /\ u.name = s.name
                                 /\ Callable(x, ToolNames) \subseteq Callable(u, ToolNames)
                                 /\ x.url \in {u.url, "none"} /\ x.resources \subseteq u.resources
      BY <2>5, <2>7 DEF HadServer
    <2>9. x \in ServersNamed("head", a.name, s.name)
      BY <1>1, <2>5 DEF ServersNamed
    <2> QED BY <1>1, <2>8, <2>9 DEF ServersNamed
  <1>7. GainsReported
    BY <1>1, <1>5, <1>6 DEF GainsReported
  <1>8. CrossingsReported
    <2> SUFFICES ASSUME NEW b \in Relationships(base), NEW h \in Relationships(head),
                        b.target = h.target,
                        NEW family \in {"control", "identity", "mcp_scope"},
                        \A x \in Relationships(base), y \in Relationships(head) :
                          x.target = h.target /\ y.target = h.target => family \in Crossings(x, y)
                 PROVE  \E e \in report.expansions : e.target = h.target /\ family \in e.crossings
      BY <1>3 DEF CrossingsReported
    <2>1. PICK x \in earlier : x.target = h.target
      BY <1>4
    <2>2. PICK y \in later : y.target = h.target
      BY <1>4
    <2>3. family \in Crossings(x, y)
      BY <1>4, <2>1, <2>2
    <2> QED BY <1>2, <2>1, <2>2, <2>3, CrossingsShown
  <1> QED BY <1>7, <1>8

LEMMA BindingsAreKept == ReviewInv => McpAccountedFor
  <1> SUFFICES ASSUME ReviewInv, Decided PROVE McpAccountedFor
    BY DEF McpAccountedFor
  <1>1. IsTree(Tree("head")) /\ mcp["head"] = Bindings(Tree("head"))
    BY ScanIsOver DEF Decided, Sides
  <1>2. PICK r : r = Tree("head")
    OBVIOUS
  <1>3. /\ BoundOrUnbound(r, Bindings(r))
        /\ ImportsResolved(r, Bindings(r)) /\ ReferencesResolved(r, Bindings(r))
        /\ ClientsShared(r, Bindings(r)) /\ NoneWidened(r, Bindings(r))
    BY <1>1, <1>2, BindingsAccountForAll
  <1> QED BY <1>1, <1>2, <1>3 DEF McpAccountedFor

LEMMA GateHolds == ReviewInv => GateCatches
  <1> SUFFICES ASSUME ReviewInv, exit = 0, options.failOn \in 1..HIGH,
                      DOMAIN Tree("head").config = {}, NEW a \in AgentsAt("head")
               PROVE
      LET before == {b \in AgentsAt("base") : b.name = a.name} IN
      /\ \A t \in {x \in a.tools : UnapprovedShell(x)} :
           \E b \in before : \E u \in b.tools :
             UnapprovedShell(u) /\ u.path = t.path /\ u.approval = t.approval
      /\ CapabilitiesOf(a) \cap a.denied # {} =>
           \E b \in before :
             CapabilitiesOf(b) \cap b.denied = CapabilitiesOf(a) \cap a.denied
      /\ \A f \in {x \in flows["head"] : /\ a.name \in x.agents
                                         /\ x.basis = "static_dataflow"
                                         /\ FlowRules(x) # {}} :
           \E e \in flows["base"] : /\ a.name \in e.agents
                                    /\ e.source = f.source /\ e.site = f.site
    BY DEF GateCatches
  <1>1. stage = "gates"
    BY VerdictOfGates
  <1>2. /\ findings["base"] = ApplyConfig(Tree("base").config, RawFindings("base"))
        /\ findings["head"] = ApplyConfig(Tree("head").config, RawFindings("head"))
        /\ IsTree(Tree("head")) /\ flows["head"] \subseteq FlowsOf(Tree("head"), summaries["head"])
    BY <1>1, ScanIsOver DEF Sides
  <1>3. findings["head"] = RawFindings("head")
    BY <1>2, UnconfiguredFindings
  <1>4. PICK base, baseUnbound, found, config, head, headUnbound, after :
          /\ base = AgentsAt("base") /\ head = AgentsAt("head")
          /\ baseUnbound = {mcp["base"].server[d] : d \in mcp["base"].unbound \X {0}}
          /\ headUnbound = {mcp["head"].server[d] : d \in mcp["head"].unbound \X {0}}
          /\ found = RawFindings("base") /\ after = RawFindings("head")
          /\ config = Tree("base").config
    OBVIOUS
  <1>5. found = Evaluate(base, baseUnbound, AttackPaths(base, flows["base"]), Broad)
    BY <1>4 DEF RawFindings, AgentsAt
  <1>6. after = Evaluate(head, headUnbound, AttackPaths(head, flows["head"]), Broad)
    BY <1>4 DEF RawFindings, AgentsAt
  <1>7. \A x \in flows["head"] : x.agents # {} => x.reachability = "proven_agent_reachable"
    BY <1>2, FlowShape
  <1>8. \A f \in Introduced(ApplyConfig(config, found), after) : ~(f.severity >= options.failOn)
    BY <1>2, <1>3, <1>4, PassIntroducesNothing
  <1>9. PICK failOn, baseFlows, headFlows :
          /\ failOn \in 1..HIGH /\ failOn = options.failOn
          /\ baseFlows = flows["base"] /\ headFlows = flows["head"]
    OBVIOUS
  <1>10. /\ \A t \in {x \in a.tools : UnapprovedShell(x)} :
              \E b \in base : /\ b.name = a.name
                              /\ \E u \in b.tools : /\ UnapprovedShell(u)
                                                    /\ u.path = t.path /\ u.approval = t.approval
         /\ Denied(a) # {} => \E b \in base : b.name = a.name /\ Denied(b) = Denied(a)
         /\ \A f \in {x \in headFlows : /\ a.name \in x.agents
                                        /\ x.basis = "static_dataflow"
                                        /\ FlowRules(x) # {}} :
              \E e \in baseFlows : /\ a.name \in e.agents
                                   /\ e.source = f.source /\ e.site = f.site
    BY <1>4, <1>5, <1>6, <1>7, <1>8, <1>9, NothingIntroduced
  <1> QED BY <1>4, <1>9, <1>10 DEF Denied

-----------------------------------------------------------------------------
(* The target branch.                                                      *)

\* A file of exceptions, whoever wrote it.
IsFile(file) == file \in Seq(Range(file)) /\ \A e \in Range(file) : e.expires \in Nat

AreFiles(some) ==
  /\ DOMAIN some \subseteq SUPPRESSION_FILENAMES
  /\ \A n \in DOMAIN some : IsFile(some[n])

\* What is recorded of a scan of revision s is what it came to, of a review that passed.
Recorded(s) ==
  /\ scans[s].status \in 0..3 /\ scans[s].day \in Nat /\ scans[s].day <= day
  /\ AreFiles(scans[s].files)
  /\ scans[s].status = 3 => scans[s] = NotYet
  /\ scans[s].status # 3 =>
       /\ exit = 0
       /\ scans[s].status = ScanStatus(findings[s], CoverageIncomplete(s), scans[s].files,
                                       scans[s].day, options)

MainInv ==
  /\ ReviewInv
  /\ day \in 1..LastDay
  /\ AreFiles(files)
  /\ DOMAIN scans = Sides /\ \A s \in Sides : Recorded(s)
  /\ scans["base"].status = 3 => scans["head"].status = 3

LEMMA SequenceInRange ==
  ASSUME NEW S, NEW file \in Seq(S)
  PROVE  file \in Seq(Range(file))
  <1>1. /\ Len(file) \in Nat /\ DOMAIN file = 1..Len(file)
        /\ file = [i \in 1..Len(file) |-> file[i]]
    OBVIOUS
  <1>2. \A i \in 1..Len(file) : file[i] \in Range(file)
    BY <1>1 DEF Range
  <1> QED BY <1>1, <1>2

LEMMA AppendIsFile ==
  ASSUME NEW file, IsFile(file), NEW e, e.expires \in Nat
  PROVE  IsFile(Append(file, e))
  <1> DEFINE S == Range(file) \cup {e}
             longer == Append(file, e)
  <1>1. file \in Seq(Range(file)) /\ file \in Seq(S) /\ e \in S
    BY DEF IsFile
  <1>2. longer \in Seq(S) /\ \A i \in DOMAIN longer : longer[i] \in S
    BY <1>1
  <1>3. Range(longer) \subseteq S
    BY <1>2 DEF Range
  <1> QED BY <1>2, <1>3, SequenceInRange DEF IsFile

LEMMA NoFileYet == IsFile(<<>>) /\ AreFiles(<<>>)
  BY DEF IsFile, AreFiles, Range

LEMMA BaselineIsFile ==
  ASSUME NEW found, IsFiniteSet(found), NEW expires \in Nat
  PROVE  /\ IsFile(Baseline(found, expires)) /\ Valid(Baseline(found, expires))
         /\ \A e \in Range(Baseline(found, expires)) : e.expires = expires
  <1> DEFINE n == Cardinality(found)
             file == Baseline(found, expires)
  <1>1. n \in Nat /\ DOMAIN SetToSeq(found) = 1..n
    BY SequenceOfSet, FS_CardinalityType
  <1>2. /\ file = [i \in 1..n |-> file[i]]
        /\ \A i \in 1..n : /\ file[i].expires = expires /\ file[i].id = <<"baseline", i>>
                           /\ file[i].fingerprint # {}
    BY <1>1 DEF Baseline
  <1> HIDE DEF file, n
  <1>3. \A i \in 1..n : file[i] \in Range(file)
    BY <1>2 DEF Range
  <1>4. file \in Seq(Range(file))
    BY <1>1, <1>2, <1>3
  <1>5. \A e \in Range(file) : e.expires = expires
    BY <1>2 DEF Range
  <1>6. Valid(file)
    BY <1>2 DEF Valid, Narrow
  <1>7. IsFile(file)
    BY <1>4, <1>5 DEF IsFile
  <1> QED BY <1>5, <1>6, <1>7 DEF file

\* What a scan that was not refused has read are exceptions with a date.
LEMMA Dated ==
  ASSUME NEW some, AreFiles(some), NEW asked, ~Refused(some, asked),
         NEW e \in Range(Exceptions(some, asked))
  PROVE  e.expires \in Nat
  <1>1. CASE Applicable(some, asked) = {}
    BY <1>1 DEF Exceptions, Range
  <1>2. CASE Applicable(some, asked) # {}
    <2>1. PICK n \in Applicable(some, asked) : Exceptions(some, asked) = some[n]
      BY <1>2 DEF Exceptions
    <2>2. n \in DOMAIN some
      BY DEF Refused
    <2> QED BY <2>1, <2>2 DEF AreFiles, IsFile
  <1> QED BY <1>1, <1>2

LEMMA StatusIsCode ==
  ASSUME NEW found, NEW incomplete, NEW some, NEW today
  PROVE  ScanStatus(found, incomplete, some, today, options) \in 0..2
  BY DEF ScanStatus

LEMMA InitMain == MainInit => MainInv
  <1> SUFFICES ASSUME MainInit PROVE MainInv
    OBVIOUS
  <1>1. ReviewInv
    BY InitReviewed DEF MainInit
  <1>2. \A s \in Sides : Recorded(s)
    BY MainAssumption, NoFileYet DEF MainInit, Recorded, NotYet
  <1> QED BY <1>1, <1>2, MainAssumption, NoFileYet DEF MainInit, MainInv, NotYet, Sides

\* Nothing but time passes and files change, of a review that is decided.
LEMMA OtherwiseRecorded ==
  ASSUME MainInv, UNCHANGED <<vars, scans>>, day' \in 1..LastDay, day <= day', AreFiles(files)'
  PROVE  MainInv'
  <1>1. ReviewInv'
    BY StutteringKeeps DEF MainInv
  <1>2. ASSUME NEW s \in Sides
        PROVE  Recorded(s)'
    <2>1. CoverageIncomplete(s)' = CoverageIncomplete(s)
      BY DEF CoverageIncomplete, AllServers, Tree, vars, gitVars, scanVars
    <2>2. Recorded(s) /\ UNCHANGED <<exit, findings, options, scans>>
      BY DEF MainInv, vars, gitVars, scanVars
    <2>3. scans[s].day <= day'
      BY <2>2, MainAssumption DEF Recorded, MainInv
    <2> QED BY <2>1, <2>2, <2>3 DEF Recorded
  <1> QED BY <1>1, <1>2 DEF MainInv

LEMMA BaselineKeeps == ASSUME MainInv, RunBaseline PROVE MainInv'
  <1>1. PICK expires \in day..LastDay : Write("yaml", Baseline(RawFindings(At), expires))
    BY DEF RunBaseline
  <1>2. exit = 0 /\ At \in Sides /\ ReviewInv
    BY DEF RunBaseline, OnMain, At, Sides, MainInv
  <1>3. IsFiniteSet(RawFindings(At))
    BY <1>2, ScanIsOver, VerdictOfGates
  <1>4. expires \in Nat
    BY MainAssumption DEF MainInv
  <1>5. PICK file : file = Baseline(RawFindings(At), expires)
    OBVIOUS
  <1>6. IsFile(file)
    BY <1>3, <1>4, <1>5, BaselineIsFile
  <1>7. AreFiles(files)'
    BY <1>1, <1>5, <1>6 DEF Write, AreFiles, MainInv, SUPPRESSION_FILENAMES
  <1> QED BY <1>1, <1>7, OtherwiseRecorded, MainAssumption DEF Write, MainInv

LEMMA ExceptionKeeps == ASSUME MainInv, AddException PROVE MainInv'
  <1>1. PICK n \in SUPPRESSION_FILENAMES, e \in Handwritten :
          Write(n, Append(IF n \in DOMAIN files THEN files[n] ELSE <<>>, e))
    BY DEF AddException
  <1>2. PICK old : old = IF n \in DOMAIN files THEN files[n] ELSE <<>>
    OBVIOUS
  <1>3. IsFile(old)
    BY <1>2, NoFileYet DEF MainInv, AreFiles
  <1>4. IsFile(Append(old, e))
    BY <1>3, AppendIsFile, MainAssumption
  <1>5. AreFiles(files)'
    BY <1>1, <1>2, <1>4 DEF Write, AreFiles, MainInv
  <1> QED BY <1>1, <1>5, OtherwiseRecorded, MainAssumption DEF Write, MainInv

LEMMA ScanKeeps == ASSUME MainInv, ScanMain PROVE MainInv'
  <1>1. exit = 0 /\ At \in Sides /\ UNCHANGED <<vars, day, files>>
    BY DEF ScanMain, OnMain, At, Sides
  <1>2. PICK status \in 0..2 :
          /\ status = ScanStatus(findings[At], CoverageIncomplete(At), files, day, options)
          /\ scans' = [scans EXCEPT ![At] = [status |-> status, day |-> day, files |-> files]]
    BY StatusIsCode DEF ScanMain
  <1>3. ReviewInv'
    BY <1>1, StutteringKeeps DEF MainInv
  <1>4. /\ scans'[At] = [status |-> status, day |-> day, files |-> files]
        /\ \A s \in Sides \ {At} : scans'[s] = scans[s]
        /\ DOMAIN scans' = Sides
    BY <1>1, <1>2 DEF MainInv
  <1>5. UNCHANGED <<exit, findings, options>>
        /\ \A s \in Sides : CoverageIncomplete(s)' = CoverageIncomplete(s)
    BY <1>1 DEF CoverageIncomplete, AllServers, Tree, vars, gitVars, scanVars
  <1>6. day \in Nat /\ AreFiles(files)
    BY MainAssumption DEF MainInv
  <1>7. ASSUME NEW s \in Sides
        PROVE  Recorded(s)'
    <2>1. CASE s = At
      BY <1>1, <1>2, <1>4, <1>5, <1>6, <2>1 DEF Recorded, AreFiles
    <2>2. CASE s # At
      <3>1. Recorded(s)
        BY DEF MainInv
      <3> QED BY <1>1, <1>4, <1>5, <2>2, <3>1 DEF Recorded
    <2> QED BY <2>1, <2>2
  <1>8. scans'["base"].status # 3
    BY <1>4 DEF At, Sides
  <1> QED BY <1>1, <1>3, <1>4, <1>7, <1>8 DEF MainInv, AreFiles

LEMMA MainKept == MainInv /\ [MainNext]_allVars => MainInv'
  <1> SUFFICES ASSUME MainInv, [MainNext]_allVars PROVE MainInv'
    OBVIOUS
  <1>1. CASE Next /\ UNCHANGED mainVars
    <2>1. ReviewInv' /\ exit = 3
      BY <1>1, ReviewKept, VerdictIsFinal DEF MainInv
    <2>2. \A s \in Sides : scans[s] = NotYet /\ Recorded(s)
      BY <2>1 DEF MainInv, Recorded
    <2>3. \A s \in Sides : Recorded(s)'
      BY <1>1, <2>2 DEF Recorded, mainVars, NotYet
    <2> QED BY <1>1, <2>1, <2>3 DEF MainInv, mainVars, AreFiles
  <1>2. CASE DayPasses
    BY <1>2, OtherwiseRecorded, MainAssumption DEF DayPasses, MainInv, AreFiles
  <1>3. CASE UNCHANGED allVars
    BY <1>3, OtherwiseRecorded, MainAssumption DEF allVars, mainVars, MainInv, AreFiles
  <1> QED BY <1>1, <1>2, <1>3, BaselineKeeps, ExceptionKeeps, ScanKeeps DEF MainNext

-----------------------------------------------------------------------------
(* The properties, of an invariant state.                                  *)

LEMMA StrictOnMainHolds == MainInv => StrictOnMain
  <1> SUFFICES ASSUME MainInv, NEW s \in Sides, options.strict, scans[s].status \in {0, 2}
               PROVE  /\ ~CoverageIncomplete(s)
                      /\ \A e \in Had(scans[s]) : e.expires >= scans[s].day
    BY DEF StrictOnMain
  <1>1. /\ scans[s].status = ScanStatus(findings[s], CoverageIncomplete(s), scans[s].files,
                                        scans[s].day, options)
        /\ AreFiles(scans[s].files) /\ scans[s].day \in Nat
    BY DEF MainInv, Recorded
  <1>2. /\ ~Refused(scans[s].files, options.asked)
        /\ ~CoverageIncomplete(s)
        /\ \A e \in Range(Exceptions(scans[s].files, options.asked)) : ~Expired(e, scans[s].day)
    BY <1>1 DEF ScanStatus
  <1>3. \A e \in Had(scans[s]) : e.expires \in Nat
    BY <1>1, <1>2, Dated DEF Had
  <1> QED BY <1>1, <1>2, <1>3 DEF Had, Expired

LEMMA OnlyAcceptedHolds == MainInv => OnlyAcceptedPasses
  <1> SUFFICES ASSUME MainInv, NEW s \in Sides, scans[s].status = 0, options.failOn # 0,
                      NEW f \in findings[s], f.severity >= options.failOn
               PROVE  \E e \in Had(scans[s]) :
                        /\ e.expires >= scans[s].day
                        /\ \/ e.fingerprint = {Fingerprint(f)}
                           \/ /\ e.rule = {f.rule}
                              /\ e.agent = {f.agent} \/ \E matched \in e.path : f.path \in matched
    BY DEF OnlyAcceptedPasses
  <1>1. PICK found, incomplete, some, today, how :
          /\ found = findings[s] /\ incomplete = CoverageIncomplete(s)
          /\ some = scans[s].files /\ today = scans[s].day /\ how = options
    OBVIOUS
  <1>2. /\ ScanStatus(found, incomplete, some, today, how) = 0
        /\ AreFiles(some) /\ today \in Nat
    BY <1>1 DEF MainInv, Recorded
  <1>3. PICK e \in Range(Exceptions(some, how.asked)) :
          /\ ~Expired(e, today)
          /\ \/ e.fingerprint = {Fingerprint(f)}
             \/ /\ e.rule = {f.rule}
                /\ e.agent = {f.agent} \/ \E matched \in e.path : f.path \in matched
    <2>1. how.failOn # 0 /\ f \in found /\ f.severity >= how.failOn
      BY <1>1
    <2> QED BY <1>2, <2>1, OnlyAcceptedIsHidden
  <1>4. e.expires \in Nat
    BY <1>2, PassKeepsNothing, Dated
  <1>5. e.expires >= scans[s].day
    BY <1>1, <1>2, <1>3, <1>4 DEF Expired
  <1> QED BY <1>1, <1>3, <1>5 DEF Had

LEMMA SeveritiesAreNumbers ==
  ASSUME ReviewInv, NEW s \in Sides, stage = "gates", NEW f \in findings[s]
  PROVE  f.severity \in Nat
  <1>1. PICK found, config : found = RawFindings(s) /\ config = Tree(s).config
    OBVIOUS
  <1>2. \A x \in found : IsFinding(x)
    BY <1>1, ScanIsOver
  <1>3. f \in ApplyConfig(config, found)
    BY <1>1, ScanIsOver
  <1>4. \A rule \in DOMAIN config : config[rule].severity \in Nat
    BY <1>1, ScanIsOver DEF IsTree
  <1>5. IsFinding(f)
    BY <1>2, <1>3, <1>4, ConfiguredFinding
  <1> QED BY <1>5 DEF IsFinding

LEMMA StaysCleanHolds == MainInv => StaysClean
  <1> SUFFICES ASSUME MainInv, scans["base"].status = 0, scans["head"].status # 3,
                      scans["head"].files = scans["base"].files,
                      \A e \in Had(scans["base"]) :
                        e.expires >= scans["base"].day => e.expires >= scans["head"].day
               PROVE  scans["head"].status = 0
    BY DEF StaysClean
  <1>1. PICK some, before, after :
          some = scans["base"].files /\ before = scans["base"].day /\ after = scans["head"].day
    OBVIOUS
  <1>2. ReviewInv /\ exit = 0 /\ stage = "gates" /\ options.failOn \in Nat
    BY VerdictOfGates DEF MainInv, Recorded, Sides, ReviewInv, GivenTypes
  <1>3. PICK base, head, baseIncomplete, headIncomplete :
          /\ base = findings["base"] /\ baseIncomplete = CoverageIncomplete("base")
          /\ head = findings["head"] /\ headIncomplete = CoverageIncomplete("head")
    OBVIOUS
  <1>4. /\ ScanStatus(base, baseIncomplete, some, before, options) = 0
        /\ scans["head"].status = ScanStatus(head, headIncomplete, some, after, options)
        /\ AreFiles(some) /\ before \in Nat /\ after \in Nat
    BY <1>1, <1>3 DEF MainInv, Recorded, Sides
  <1>5. options.strict => ~headIncomplete
    BY <1>2, <1>3, VerdictOfGates DEF AnalysisIncomplete, Sides
  <1>6. options.failOn # 0 => \A f \in Introduced(base, head) \cup Worsened(base, head) :
                                 ~(f.severity >= options.failOn)
    BY <1>2, <1>3, PassIntroducesNothing
  <1>7. \A f \in base \cup head : f.severity \in Nat
    BY <1>2, <1>3, SeveritiesAreNumbers DEF Sides
  <1>8. \A e \in Range(Exceptions(some, options.asked)) : e.expires \in Nat
    BY <1>4, PassKeepsNothing, Dated
  <1>9. \A e \in Active(Exceptions(some, options.asked), before) : ~Expired(e, after)
    BY <1>1, <1>4, <1>8 DEF Active, Expired, Had
  <1> QED BY <1>2, <1>4, <1>5, <1>6, <1>7, <1>9, ReviewedStaysClean

LEMMA BaselineCoversHolds == MainInv => BaselineCovers
  <1> SUFFICES ASSUME MainInv, NEW s \in Sides, options.asked = "default",
                      DOMAIN scans[s].files = {"yaml"},
                      NEW expires \in scans[s].day..LastDay,
                      scans[s].files["yaml"] = Baseline(RawFindings(s), expires)
               PROVE  scans[s].status = 0
    BY DEF BaselineCovers
  <1>1. PICK file, some, today, found, config :
          /\ file = Baseline(found, expires) /\ found = RawFindings(s)
          /\ some = scans[s].files /\ today = scans[s].day /\ config = Tree(s).config
    OBVIOUS
  <1>2. /\ exit = 0 /\ today \in Nat /\ AreFiles(some)
        /\ scans[s].status = ScanStatus(findings[s], CoverageIncomplete(s), some, today, options)
    BY <1>1 DEF MainInv, Recorded, NotYet
  <1>3. ReviewInv /\ stage = "gates" /\ (options.strict => ~CoverageIncomplete(s))
    BY <1>2, VerdictOfGates DEF MainInv, AnalysisIncomplete
  <1>4. /\ IsFiniteSet(found) /\ \A x \in found : IsFinding(x)
        /\ findings[s] = ApplyConfig(config, found)
    BY <1>1, <1>3, ScanIsOver
  <1>5. expires \in Nat /\ today <= expires
    BY <1>1, <1>2, MainAssumption
  <1>6. Valid(file) /\ \A e \in Range(file) : ~Expired(e, today)
    BY <1>1, <1>2, <1>4, <1>5, BaselineIsFile DEF Expired
  <1>7. /\ Applicable(some, options.asked) = {"yaml"} /\ some["yaml"] = file
        /\ Cardinality({"yaml"}) = 1 /\ DOMAIN some = {"yaml"}
    BY <1>1, FS_Singleton DEF Applicable
  <1>8. ~Refused(some, options.asked) /\ Exceptions(some, options.asked) = file
    <2>1. ~Refused(some, options.asked)
      BY <1>6, <1>7 DEF Refused
    <2>2. (CHOOSE n \in {"yaml"} : TRUE) = "yaml"
      OBVIOUS
    <2> QED BY <1>7, <2>1, <2>2 DEF Exceptions
  <1>9. Remaining(ApplyConfig(config, found), file, today) = {}
    BY <1>1, <1>2, <1>4, <1>5, BaselineHides DEF IsFinding
  <1> QED BY <1>2, <1>3, <1>4, <1>6, <1>8, <1>9 DEF ScanStatus

LEMMA PassesHold == MainInv => PassesAreEarned
  BY StrictIsKept, StrictOnMainHolds, OnlyAcceptedHolds, StaysCleanHolds, BaselineCoversHolds
     DEF PassesAreEarned, MainInv

LEMMA MainTypes == MainInv => MainTypeOK
  BY TypesAreKept DEF MainInv, MainTypeOK, Recorded, AreFiles

LEMMA Inductive == MainSpec => []MainInv
  BY InitMain, MainKept, PTL DEF MainSpec

(***************************************************************************)
(* The theorems: of every tree that the adapters may find in any commit,   *)
(* every set of options and every sequence of steps, whoever interferes.   *)
(***************************************************************************)

\* Types; a tree is unpacked from a commit, the rounds and the flows stay below their
\* limits, and what a scan recorded is a status of a day gone by.
THEOREM TypesHold == MainSpec => []MainTypeOK
  BY Inductive, MainTypes, PTL

\* What the review scans, and hence what it says, is about the two commits of the event
\* (_validate_sha, ensure_commit_available), however the repository changes meanwhile.
THEOREM ReviewIsOfTheEvent == MainSpec => []ScansTheEvent
  <1>1. MainInv => ScansTheEvent
    BY DEF MainInv, ReviewInv, GitInv, ScansTheEvent, GitStages, Sides
  <1> QED BY <1>1, Inductive, PTL

\* Whatever an agent gains between the two commits, with a tool or a server, and every
\* control that it weakens, is among the expansions (compare_effective_authority,
\* classify_boundary_crossings), as far as names tell its tools and servers apart: whichever
\* of several relationships with one id the index keeps, what all of them gain is there.
THEOREM GainsAreReported == MainSpec => []NoSilentGain
  <1>1. MainInv => NoSilentGain
    BY GainsAreShown DEF MainInv, NoSilentGain, Decided
  <1> QED BY <1>1, Inductive, PTL

\* No server, import or reference is lost on the way through the four passes that bind
\* servers to agents, and no binding lets an agent call what the declaration does not
\* (mcp_context.py, mcp_authority.py).
THEOREM ServersAreAccountedFor == MainSpec => []McpAccountedFor
  <1>1. MainInv => McpAccountedFor
    BY BindingsAreKept DEF MainInv
  <1> QED BY <1>1, Inductive, PTL

\* With --fail-on high a pull request that passes gives no agent an unapproved process
\* tool, a denied capability or a flow to a process that it had not (evaluate,
\* compare_scans, main).
THEOREM GateIsSound == MainSpec => []GateCatches
  <1>1. MainInv => GateCatches
    BY GateHolds DEF MainInv
  <1> QED BY <1>1, Inductive, PTL

\* --strict passes no skipped entry, no kept flow through an unknown call and no remote server
\* of unknown authentication; a finding passes on the target branch only by an exception that
\* is for it and still holds, and a branch that was clean stays so after a review that passed
\* (cli.py, suppressions.py).
THEOREM PassesAreHonest == MainSpec => []PassesAreEarned
  BY Inductive, PassesHold, PTL
================================================================================
