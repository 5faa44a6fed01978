------------------------------ MODULE McpBinding ------------------------------
(***************************************************************************)
(* The passes that bind the MCP servers a repository declares to its       *)
(* agents: imported server objects and FastAgent references                *)
(* (mcp_context.py), clients whose get_tools() an agent is given           *)
(* (mcp_authority.py), what is left unresolved (mcp_resolution.py) and     *)
(* what a binding lets its agent do (mcp_effective.py).                    *)
(*                                                                         *)
(* A repository r has                                                      *)
(*   agents    : sequence of [name, path, fast, servers, imports, refs,    *)
(*               dynamic]; servers are declarations that an adapter gave   *)
(*               the agent, a manifest's or a constructor's                *)
(*   decls     : sequence of the servers that adapters found               *)
(*   clients   : set of [path, alias, names], one for each path and alias  *)
(*   relations : sequence of [path, agent, alias]: the agent of that name  *)
(*               is given the tools of the client                          *)
(* Paths are sequences of directories and a module's name.  A server of a  *)
(* graph is <<d, a>>: declaration d itself (a = 0), which all its agents   *)
(* share, or the copy of it that was made for agent a; one that an agent   *)
(* binds twice in one way is one server here.                              *)
(***************************************************************************)
EXTENDS Integers, Sequences, FiniteSets, SequencesExt

ServerFields == {"name", "path", "scope", "allowed", "denied", "dynamic", "authenticated",
                 "credential", "keys", "identity", "approval", "guardrails", "resources",
                 "filesystem", "origin", "url", "at"}

\* The servers that adapters gave to agents.
Attached(r) == UNION {r.agents[a].servers : a \in DOMAIN r.agents}

\* A graph as adapters leave it: placeholders are in imports.
Unbound(r) ==
  [unbound    |-> (DOMAIN r.decls) \ Attached(r),
   bound      |-> [a \in DOMAIN r.agents |-> r.agents[a].servers \X {0}],
   server     |-> [s \in (DOMAIN r.decls) \X {0} |-> r.decls[s[1]]],
   identities |-> [a \in DOMAIN r.agents |-> {}],
   unresolved |-> {}]

\* _unresolved_reference
Reference(r, a, name, hint) == [agent |-> r.agents[a].name, server |-> name, hint |-> hint]

\* The servers of a graph and the copies that are made of them.
WithCopies(server, settings) ==
  [s \in DOMAIN settings \cup DOMAIN server |->
     IF s \in DOMAIN settings THEN settings[s] ELSE server[s]]

\* Wrong: what is used up is found by its name.
AddCopiesByName(g, copies, settings) ==
  [g EXCEPT !.bound  = [a \in DOMAIN @ |-> @[a] \cup {c \in copies : c[2] = a}],
            !.server = WithCopies(@, settings),
            !.unbound = {d \in @ : \A c \in copies :
                                      g.server[<<c[1], 0>>].name # g.server[<<d, 0>>].name}]

\* Copies are made of declarations for agents: pairs <<d, a>>, each with its settings.
AddCopies(g, copies, settings) ==
  [g EXCEPT !.bound  = [a \in DOMAIN @ |-> @[a] \cup {c \in copies : c[2] = a}],
            !.server = WithCopies(@, settings),
            !.unbound = @ \ {c[1] : c \in copies}]

-----------------------------------------------------------------------------
(* Imported server objects.                                                *)

\* _module_name
ModuleName(path) == IF path # <<>> /\ Last(path) = "__init__" THEN Front(path) ELSE path

\* _module_matches
ModuleMatches(path, module) == IsSuffix(module, ModuleName(path))

\* The declarations that a placeholder may stand for.
ImportMatches(r, g, p) ==
  {d \in g.unbound : /\ p.module # <<>>
                     /\ r.decls[d].name = p.name
                     /\ ModuleMatches(r.decls[d].path, p.module)}

\* resolve_imported_mcp_placeholders: all agents choose from what was unbound before.
ResolveImported(r, g) ==
  LET wanted == UNION {r.agents[a].imports \X {a} : a \in DOMAIN r.agents}
      unique == {w \in wanted : Cardinality(ImportMatches(r, g, w[1])) = 1}
      copies == {<<CHOOSE d \in ImportMatches(r, g, w[1]) : TRUE, w[2]>> : w \in unique}
      hint(p) == IF p.module = <<>> THEN "unsupported_import_reference"
                 ELSE IF ImportMatches(r, g, p) # {} THEN "ambiguous_imported_reference"
                 ELSE "unresolved_imported_reference"
      bound == AddCopies(g, copies, [c \in copies |-> [g.server[<<c[1], 0>>] EXCEPT
                                        !.origin = "repository_import_reference"]])
  IN [bound EXCEPT !.unresolved = @ \cup
        {Reference(r, w[2], w[1].name, hint(w[1])) : w \in wanted \ unique}]

-----------------------------------------------------------------------------
(* FastAgent references.                                                   *)

\* _fast_agent_scoped_matches: the nearest configuration above the agent.
ScopedMatches(r, a, matches) ==
  LET scoped == {d \in matches : \E s \in r.decls[d].scope : IsPrefix(s, r.agents[a].path)}
      depth(d) == Len(CHOOSE s \in r.decls[d].scope : TRUE)
  IN {d \in scoped : \A e \in scoped : depth(e) <= depth(d)}

\* The declarations that a FastAgent reference selects.
Selected(r, g, a, ref) ==
  LET matches == {d \in g.unbound : r.decls[d].name = ref.name}
      scoped  == ScopedMatches(r, a, matches)
  IN IF scoped # {} THEN scoped ELSE matches

\* Wrong: the agent's filter takes the place of the declaration's allowlist.
FilterReplaces(allowed, filter) == IF filter = {} THEN allowed ELSE CHOOSE f \in filter : TRUE

\* The allowlist once the agent's filter, if there is one, is applied.
Filtered(allowed, filter) ==
  IF filter = {} THEN allowed
  ELSE LET f == CHOOSE x \in filter : TRUE IN IF allowed # {} THEN allowed \cap f ELSE f

\* resolve_fast_agent_mcp_references
ResolveFastAgent(r, g) ==
  LET fast   == {a \in DOMAIN r.agents : r.agents[a].fast}
      wanted == UNION {r.agents[a].refs \X {a} : a \in fast}
      chosen(w) == Selected(r, g, w[2], w[1])
      unique == {w \in wanted : Cardinality(chosen(w)) = 1}
      copy(w) == <<CHOOSE d \in chosen(w) : TRUE, w[2]>>
      copies == {copy(w) : w \in unique}
      bound == AddCopies(g, copies, [c \in copies |->
                 LET w == CHOOSE u \in unique : copy(u) = c IN
                 [g.server[<<c[1], 0>>] EXCEPT !.origin = "fast_agent_servers_reference",
                                               !.allowed = Filtered(@, w[1].filter)]])
  IN [bound EXCEPT !.unresolved = @ \cup
        {Reference(r, w[2], w[1].name, IF chosen(w) # {} THEN "ambiguous_fast_agent_reference"
                                       ELSE "missing_fast_agent_declaration") :
           w \in wanted \ unique}
          \cup {Reference(r, a, "<dynamic>", "dynamic_server_selection") :
                  a \in {x \in fast : r.agents[x].dynamic}}]

-----------------------------------------------------------------------------
(* Clients and get_tools().                                                *)

\* The agents of that name in that file.
AgentsNamed(r, path, name) ==
  {a \in DOMAIN r.agents : r.agents[a].path = path /\ r.agents[a].name = name}

\* Relation k binds: its client is known in the file and one agent has the name.
Binds(r, k) ==
  /\ \E c \in r.clients : c.path = r.relations[k].path /\ c.alias = r.relations[k].alias
  /\ Cardinality(AgentsNamed(r, r.relations[k].path, r.relations[k].agent)) = 1

AgentOf(r, k) == CHOOSE a \in AgentsNamed(r, r.relations[k].path, r.relations[k].agent) : TRUE

\* Wrong: a server that another agent was given is no longer on offer.
OfferedOnce(r, g, k) ==
  {d \in g.unbound :
     /\ r.decls[d].path = r.relations[k].path
     /\ \E c \in r.clients : /\ c.path = r.relations[k].path /\ c.alias = r.relations[k].alias
                             /\ c.names = {} \/ r.decls[d].name \in c.names
     /\ \A j \in 1..k-1 : r.relations[j].path # r.relations[k].path}

\* The servers that relation k selects: those of its file that were unbound when the
\* file was begun; all of them for a client that names none.
Offered(r, g, k) ==
  {d \in g.unbound :
     /\ r.decls[d].path = r.relations[k].path
     /\ \E c \in r.clients : /\ c.path = r.relations[k].path /\ c.alias = r.relations[k].alias
                             /\ c.names = {} \/ r.decls[d].name \in c.names}

\* _ensure_configured_identity, of the first agent that a server is bound to: the name
\* stays with the server, the identity with that agent.
ConfiguredIdentity(r, a, d) ==
  [name |-> <<r.agents[a].name, r.decls[d].name, "mcp-config-auth">>, credential |-> FALSE]

Binding(r) == {k \in DOMAIN r.relations : Binds(r, k)}

\* The servers that agent a is given, and those that some agent is.
GivenTo(r, g, a) == UNION {Offered(r, g, k) : k \in {j \in Binding(r) : AgentOf(r, j) = a}}

Taken(r, g) == UNION {Offered(r, g, k) : k \in Binding(r)}

FirstAgent(r, g, d) ==
  LET ks == {k \in Binding(r) : d \in Offered(r, g, k)}
  IN AgentOf(r, CHOOSE k \in ks : \A j \in ks : k <= j)

\* Servers that authenticate, with nothing known of how.
Unidentified(r, g) ==
  {d \in Taken(r, g) : LET server == g.server[<<d, 0>>] IN
     server.authenticated = "yes" /\ ~server.credential /\ server.identity = {}}

\* A server of the graph once clients have been looked at; one that an agent has is given
\* the directories that its arguments name: _attach_filesystem_resources.
GivenServer(r, g, s) ==
  LET given == s[2] = 0 /\ s[1] \in Taken(r, g)
      held  == given \/ \E a \in DOMAIN r.agents : s \in g.bound[a]
  IN [g.server[s] EXCEPT
        !.origin = IF given THEN "mcp_client_get_tools" ELSE @,
        !.identity = IF given /\ s[1] \in Unidentified(r, g)
                     THEN {ConfiguredIdentity(r, FirstAgent(r, g, s[1]), s[1]).name} ELSE @,
        !.resources = IF held THEN @ \cup g.server[s].filesystem ELSE @]

\* reconstruct_mcp_authority
ReconstructAuthority(r, g) ==
  [g EXCEPT
     !.unbound = @ \ Taken(r, g),
     !.bound = [a \in DOMAIN @ |-> @[a] \cup (GivenTo(r, g, a) \X {0})],
     !.server = [s \in DOMAIN @ |-> GivenServer(r, g, s)],
     !.identities = [a \in DOMAIN @ |-> @[a] \cup
                       {ConfiguredIdentity(r, a, d) :
                          d \in {n \in Unidentified(r, g) : FirstAgent(r, g, n) = a}}]]

-----------------------------------------------------------------------------
(* Context, unresolved bindings, authority.                                *)

\* reconstruct_mcp_context: a server with a credential source and without an identity
\* gets one of the first agent that has it.
ReconstructContext(r, g) ==
  LET holders(s) == {a \in DOMAIN g.bound : s \in g.bound[a]}
      needs == {s \in DOMAIN g.server : /\ holders(s) # {} /\ g.server[s].credential
                                        /\ g.server[s].identity = {}}
      first(s) == CHOOSE a \in holders(s) : \A b \in holders(s) : a <= b
      name(s) == <<r.agents[first(s)].name, g.server[s].name, "mcp-auth">>
  IN [g EXCEPT
        !.server = [s \in DOMAIN @ |-> IF s \in needs THEN [@[s] EXCEPT !.identity = {name(s)}]
                                       ELSE @[s]],
        !.identities = [a \in DOMAIN @ |-> @[a] \cup
                          {[name |-> name(s), credential |-> TRUE] :
                             s \in {n \in needs : first(n) = a}}]]

\* unresolved_mcp_references: why, for the references and the declarations left over.
ReasonForReference(r, g, u) ==
  LET same == {d \in g.unbound : r.decls[d].name = u.server} IN
  CASE u.hint = "dynamic_server_selection" -> "dynamic_server_selection"
    [] u.hint \in {"ambiguous_fast_agent_reference", "ambiguous_imported_reference"} ->
         "ambiguous_multiple_candidates"
    [] u.hint = "missing_fast_agent_declaration" -> "server_not_declared"
    [] u.hint = "unsupported_import_reference" -> "unsupported_reference_shape"
    [] u.hint = "unresolved_imported_reference" ->
         IF Cardinality(same) > 1 THEN "ambiguous_multiple_candidates"
         ELSE IF same # {} THEN "cross_file_reference_unlinked" ELSE "server_not_declared"

UnresolvedMcp(r, g) ==
  {[kind |-> "agent_reference", agent |-> u.agent, server |-> u.server,
    reason |-> ReasonForReference(r, g, u)] : u \in g.unresolved}
    \cup
  {[kind |-> "server_declaration", agent |-> "none", server |-> r.decls[d].name,
    reason |-> "declaration_not_agent_bound"] : d \in g.unbound}

\* _identity of mcp_effective.py: an identity of the agent with the server's name for it.
IdentityOf(g, a, s) == {i \in g.identities[a] : i.name \in g.server[s].identity}

\* effective_mcp_authorities: what is not known of a binding.
UnresolvedOfBinding(g, a, s) ==
  LET server == g.server[s] IN
  {x \in {"tool_catalogue"} : server.allowed = {}}
    \cup {x \in {"tool_filter"} : server.allowed = {} /\ server.denied = {}
                                   /\ server.dynamic}
    \cup {x \in {"authentication_state"} : server.authenticated = "unknown"}
    \cup {x \in {"authentication_mechanism"} : server.authenticated = "yes" /\ ~server.keys}
    \cup {x \in {"identity"} : server.authenticated = "yes" /\ IdentityOf(g, a, s) = {}}
    \cup {x \in {"credential_source"} : /\ server.authenticated = "yes"
                                         /\ \E i \in IdentityOf(g, a, s) : ~i.credential}
    \cup {x \in {"destination"} : server.url = "none"}

-----------------------------------------------------------------------------
(* What a server lets its agent call, as far as its declaration tells.     *)
Callable(server, all) == (IF server.allowed # {} THEN server.allowed ELSE all) \ server.denied
=============================================================================
