----------------------------- MODULE Consolidation -----------------------------
(***************************************************************************)
(* How the declarations of one agent that a scan finds in several files    *)
(* become one agent (scanner.py): each file is merged into the graph,      *)
(* declarations are consolidated, the repository-wide analysis enriches    *)
(* them (repository_adk.py), they are consolidated once more, and get what *)
(* is known of their identities (delegation and MCP resolution, which come *)
(* in between, are modules of their own).                                  *)
(*                                                                         *)
(* Tools and identities are mutable objects that agents refer to: heap and *)
(* vault map an address to what the object holds.  The n-th tool of a      *)
(* file's tools is at <<file, agent, n>> in the copy that one of its       *)
(* agents gets, an identity of a file at <<file, 0, n>>, and what the      *)
(* repository-wide analysis makes for its r-th agent at <<0, r, n>>.  An   *)
(* agent is consolidated in place, one incoming declaration at a time.     *)
(***************************************************************************)
EXTENDS Integers, Sequences, FiniteSets, SequencesExt

CONSTANTS
  Names,         \* names of agents
  ToolNames,     \* names of tools
  Capabilities,
  Policies,      \* values of the policy's limits and of its contract
  ServerNames,   \* names of MCP servers
  IdentityNames,
  Roles,         \* what an identity may be known to have: roles, permissions, scopes
  InputNames,
  Nothing,       \* no instance key, no limits, no contract, no identity
  Repositories   \* what a scan may find: its files in scan order, and what the
                 \* repository-wide analysis resolves

VARIABLES
  repo,     \* what this scan finds
  phase,    \* what scan() is doing
  files,    \* files still to be merged
  resolved, \* resolved agents still to be merged
  todo,     \* agents a consolidation has still to look at
  agents,   \* the agents of the graph, during a consolidation those of by_key
  heap,     \* the tool objects, by address
  vault,    \* the identity objects, by address
  globals   \* the identities of the graph itself: addresses in the vault

vars == <<repo, phase, files, resolved, todo, agents, heap, vault, globals>>

Tool == [name : ToolNames, kind : {"generic", "placeholder", "resolved"},
         caps : SUBSET Capabilities, approval : {"yes", "no", "unset"},
         guarded : BOOLEAN, identity : IdentityNames \cup {Nothing}]

\* terms: whether it needs approval, its filters, how it is reached.
Server == [name : ServerNames, terms : Policies, identity : IdentityNames \cup {Nothing}]

Identity == [name : IdentityNames, provider : {"generic", "gcp", "aws"}, roles : SUBSET Roles]

Input == [name : InputNames, trusted : BOOLEAN]

Policy == [limits : Policies \cup {Nothing}, contract : Policies \cup {Nothing}]

\* The adapter of a file makes tool and identity objects, and agents that refer to them;
\* data sources and network destinations are merged like inputs.
Declaration == [name : Names, instance : Names \cup {Nothing},
                uses : Seq(Nat \ {0}), runsAs : Seq(Nat \ {0}),
                servers : Seq(Server), inputs : SUBSET Input,
                delegates : SUBSET Names, policy : Policy]

File == [manifest : BOOLEAN, tools : Seq(Tool), agents : Seq(Declaration),
         identities : Seq(Identity), global : Nat]

Resolution == [name : Names, tools : Seq(Tool), servers : Seq(Server), inputs : SUBSET Input,
               delegates : SUBSET Names, identities : Seq(Identity)]

ASSUME RepositoriesAssumption ==
  \A r \in Repositories :
    /\ r.files \in Seq(File) /\ r.resolved \in Seq(Resolution)
    /\ \A i \in DOMAIN r.files : LET f == r.files[i] IN
         /\ f.global <= Len(f.identities)
         /\ \A j \in DOMAIN f.agents : LET d == f.agents[j] IN
              /\ Range(d.uses) \subseteq DOMAIN f.tools
              /\ Range(d.runsAs) \subseteq DOMAIN f.identities
              \* Only the identities of the file itself are shared by its agents.
              /\ \A k \in DOMAIN f.agents \ {j} :
                   Range(d.runsAs) \cap Range(f.agents[k].runsAs) \subseteq 1..f.global

Address == Nat \X Nat \X Nat

Agent == [name : Names, instance : Names \cup {Nothing}, tools : Seq(Address),
          ids : Seq(Address), servers : Seq(Server), inputs : SUBSET Input,
          delegates : SUBSET Names, policy : Policy, manifest : BOOLEAN, file : Nat]

TypeOK ==
  /\ repo \in Repositories
  /\ phase \in {"merge", "identities", "consolidate", "enrich", "again", "link", "done"}
  /\ DOMAIN heap \subseteq Address /\ Range(heap) \subseteq Tool
  /\ DOMAIN vault \subseteq Address /\ Range(vault) \subseteq Identity
  /\ agents \in Seq(Agent) /\ todo \in Seq(Agent)
  /\ \A a \in Range(agents) \cup Range(todo) :
       Range(a.tools) \subseteq DOMAIN heap /\ Range(a.ids) \subseteq DOMAIN vault
  /\ Range(globals) \subseteq DOMAIN vault

-----------------------------------------------------------------------------
\* A loop over a list.
Folded(Take(_, _), start, list) ==
  LET upto[n \in 0..Len(list)] == IF n = 0 THEN start ELSE Take(upto[n - 1], list[n])
  IN upto[Len(list)]

\* The objects of two sets of addresses.
Both(f, g) == [x \in DOMAIN f \cup DOMAIN g |-> IF x \in DOMAIN f THEN f[x] ELSE g[x]]

-----------------------------------------------------------------------------
(* Merging a file.                                                         *)

\* The file whose turn it is, counted from the first.
FileNo == Len(repo.files) - Len(files) + 1

\* The agents of f; the j-th uses the copy[j]-th copy of its tools.
Added(f, copy) ==
  [j \in DOMAIN f.agents |->
     LET d == f.agents[j] IN
     [name |-> d.name, instance |-> d.instance,
      tools |-> [k \in DOMAIN d.uses |-> <<FileNo, copy[j], d.uses[k]>>],
      ids |-> [k \in DOMAIN d.runsAs |-> <<FileNo, 0, d.runsAs[k]>>],
      servers |-> d.servers, inputs |-> d.inputs, delegates |-> d.delegates,
      policy |-> d.policy, manifest |-> f.manifest, file |-> FileNo]]

Copies(f, which) == [t \in {FileNo} \X which \X DOMAIN f.tools |-> f.tools[t[3]]]

\* Wrong: the tools of a file are shared by its agents.
MergedShared(f) ==
  [heap |-> Both(heap, Copies(f, {1})),
   agents |-> agents \o Added(f, [j \in DOMAIN f.agents |-> 1])]

\* Wrong: one copy is made for a file, but each agent refers to one of its own.
MergedOnce(f) ==
  [heap |-> Both(heap, Copies(f, {1})),
   agents |-> agents \o Added(f, [j \in DOMAIN f.agents |-> j])]

\* deepcopy: every agent of the file gets tool objects of its own.
Merged(f) ==
  [heap |-> Both(heap, Copies(f, DOMAIN f.agents)),
   agents |-> agents \o Added(f, [j \in DOMAIN f.agents |-> j])]

\* _merge: identities are not copied.
MergeFile ==
  /\ phase = "merge" /\ files # <<>>
  /\ LET f == Head(files) IN
     /\ heap' = Merged(f).heap
     /\ agents' = Merged(f).agents
     /\ vault' = Both(vault, [i \in {FileNo} \X {0} \X DOMAIN f.identities |-> f.identities[i[3]]])
     /\ globals' = globals \o [k \in 1..f.global |-> <<FileNo, 0, k>>]
  /\ files' = Tail(files)
  /\ UNCHANGED <<repo, phase, resolved, todo>>

\* _merge_identity
MergeIdentity(old, new) == [old EXCEPT !.roles = @ \cup new.roles]

\* Where in a list of addresses the objects called n are.
Indices(list, objects, n) == {i \in DOMAIN list : objects[list[i]].name = n}

\* The identities of the graph have one object for a name and provider: acc.list, to
\* which the identity at address i comes.
SameIdentity(list, v, i) ==
  {k \in Indices(list, v, v[i].name) : v[list[k]].provider = v[i].provider}
TakeGlobal(acc, i) ==
  LET same == SameIdentity(acc.list, acc.vault, i) IN
  IF same = {} THEN [vault |-> acc.vault, list |-> Append(acc.list, i)]
  ELSE LET old == acc.list[CHOOSE k \in same : TRUE] IN
       [vault |-> [acc.vault EXCEPT ![old] = MergeIdentity(acc.vault[old], acc.vault[i])],
        list |-> acc.list]

\* _consolidate_global_identities
ConsolidateIdentities ==
  /\ phase = "merge" /\ files = <<>>
  /\ phase' = "identities"
  /\ LET acc == Folded(TakeGlobal, [vault |-> vault, list |-> <<>>], globals) IN
     vault' = acc.vault /\ globals' = acc.list
  /\ UNCHANGED <<repo, files, resolved, todo, agents, heap>>

\* Consolidation goes through the agents found, in the order they were found.
StartConsolidation ==
  /\ \/ phase = "identities" /\ phase' = "consolidate"
     \/ phase = "enrich" /\ resolved = <<>> /\ phase' = "again"
  /\ todo' = agents
  /\ agents' = <<>>
  /\ UNCHANGED <<repo, files, resolved, heap, vault, globals>>

-----------------------------------------------------------------------------
(* Consolidating one declaration.                                          *)

\* Wrong: the last word on approval counts.
MergeToolLastApproval(old, new) ==
  [old EXCEPT !.caps = @ \cup new.caps,
              !.approval = IF new.approval = "unset" THEN @ ELSE new.approval,
              !.guarded = @ \/ new.guarded,
              !.identity = IF new.identity = Nothing THEN @ ELSE new.identity,
              !.kind = IF @ = "generic" THEN new.kind ELSE @]

\* _merge_tool: a declared lack of approval is never overridden.
MergeTool(old, new) ==
  [old EXCEPT !.caps = @ \cup new.caps,
              !.approval = IF @ = "no" \/ new.approval = "unset" THEN @ ELSE new.approval,
              !.guarded = @ \/ new.guarded,
              !.identity = IF new.identity = Nothing THEN @ ELSE new.identity,
              !.kind = IF @ = "generic" THEN new.kind ELSE @]

\* Where in a list a dict by name finds one: the last of that name.
LastOf(S) == CHOOSE i \in S : \A j \in S : j <= i

\* acc.tools is the list of the agent that stays, t an address of the incoming one.
TakeTool(acc, t) ==
  LET hits == Indices(acc.tools, acc.heap, acc.heap[t].name) IN
  IF hits = {} THEN [heap |-> acc.heap, tools |-> Append(acc.tools, t)]
  ELSE LET old == acc.tools[LastOf(hits)] IN
       [heap |-> [acc.heap EXCEPT ![old] = MergeTool(acc.heap[old], acc.heap[t])],
        tools |-> acc.tools]

\* Identities are merged like tools: by name, whatever the provider.
TakeIdentity(acc, i) ==
  LET hits == Indices(acc.ids, acc.vault, acc.vault[i].name) IN
  IF hits = {} THEN [vault |-> acc.vault, ids |-> Append(acc.ids, i)]
  ELSE LET old == acc.ids[LastOf(hits)] IN
       [vault |-> [acc.vault EXCEPT ![old] = MergeIdentity(acc.vault[old], acc.vault[i])],
        ids |-> acc.ids]

\* Of MCP servers with one name the one found first stays as it is.
TakeServer(servers, s) ==
  IF \E k \in DOMAIN servers : servers[k].name = s.name THEN servers
  ELSE Append(servers, s)

SameKey(a, b) == a.name = b.name /\ a.instance = b.instance

\* "A manifest policy is authoritative when it declares any constraints."
PolicyOf(old, new) == IF new.limits # Nothing THEN new ELSE old

\* A source file is a better location than a manifest.
Relocated(old, new) == old.manifest /\ ~new.manifest

\* Of the metadata the last counts, the whole list of delegates included.
Consolidated(old, new, tools, ids) ==
  LET there == IF Relocated(old, new) THEN new ELSE old IN
  [name |-> old.name, instance |-> old.instance, tools |-> tools, ids |-> ids,
   servers |-> Folded(TakeServer, old.servers, new.servers),
   inputs |-> old.inputs \cup new.inputs,
   delegates |-> IF new.delegates = {} THEN old.delegates ELSE new.delegates,
   policy |-> PolicyOf(old.policy, new.policy),
   manifest |-> there.manifest, file |-> there.file]

\* The body of _consolidate_agents' loop.
Consolidate ==
  /\ phase \in {"consolidate", "again"} /\ todo # <<>>
  /\ LET new == Head(todo)
         same == {i \in DOMAIN agents : SameKey(agents[i], new)} IN
     \/ /\ same = {}
        /\ agents' = Append(agents, new)
        /\ UNCHANGED <<heap, vault>>
     \/ \E i \in same :
          LET acc == Folded(TakeTool, [heap |-> heap, tools |-> agents[i].tools],
                              new.tools)
              idacc == Folded(TakeIdentity, [vault |-> vault, ids |-> agents[i].ids],
                                new.ids) IN
          /\ heap' = acc.heap
          /\ vault' = idacc.vault
          /\ agents' = [agents EXCEPT ![i] = Consolidated(@, new, acc.tools, idacc.ids)]
  /\ todo' = Tail(todo)
  /\ UNCHANGED <<repo, phase, files, resolved, globals>>

EndConsolidation ==
  /\ todo = <<>>
  /\ \/ /\ phase = "consolidate" /\ phase' = "enrich"
        /\ UNCHANGED <<agents, todo>>
     \/ /\ phase = "again" /\ phase' = "link"
        /\ agents' = <<>> /\ todo' = agents
  /\ UNCHANGED <<repo, files, resolved, heap, vault, globals>>

-----------------------------------------------------------------------------
(* Enrichment.                                                             *)

\* _merge_agent: a placeholder is replaced by what it was resolved to; of a
\* tool that is known already only what it needs is noted (not modelled).
TakeResolved(acc, t) ==
  LET hits == Indices(acc.tools, acc.heap, acc.heap[t].name) IN
  [heap |-> acc.heap,
   tools |-> IF hits = {} THEN Append(acc.tools, t)
             ELSE IF acc.heap[acc.tools[LastOf(hits)]].kind = "placeholder"
                  THEN [acc.tools EXCEPT ![LastOf(hits)] = t]
             ELSE acc.tools]

ResolvedAgent(r, addresses) ==
  [name |-> r.name, instance |-> Nothing, tools |-> addresses,
   ids |-> <<>>, servers |-> r.servers, inputs |-> r.inputs,
   delegates |-> r.delegates, policy |-> [limits |-> Nothing, contract |-> Nothing],
   manifest |-> FALSE, file |-> 0]

\* Wrong: a resolved agent is always another agent.
KnownNever(r) == {}

\* existing: agents by name, of several with one name the last.
Known(r) == {i \in DOMAIN agents : agents[i].name = r.name}

\* Of an input only the name counts here, not whether it is trusted.
NewInputs(old, new) == {x \in new : \A y \in old : y.name # x.name}

Enriched(a, r, tools) ==
  [a EXCEPT !.tools = tools,
            !.servers = Folded(TakeServer, @, r.servers),
            !.inputs = @ \cup NewInputs(@, r.inputs),
            !.delegates = @ \cup r.delegates]

\* The agent whose turn it is, counted from the first.
ResolvedNo == Len(repo.resolved) - Len(resolved) + 1

\* The addresses of the objects made for it, one of a list each, and the objects.
Places(list) == [k \in DOMAIN list |-> <<0, ResolvedNo, k>>]
Made(list) == [x \in {0} \X {ResolvedNo} \X DOMAIN list |-> list[x[3]]]

\* enrich_repository_graph, for one agent constructor of the repository.
Enrich ==
  /\ phase = "enrich" /\ resolved # <<>>
  /\ LET r == Head(resolved)
         fresh == Both(heap, Made(r.tools))
         addresses == Places(r.tools)
         known == Folded(TakeGlobal, [vault |-> Both(vault, Made(r.identities)), list |-> globals],
                         Places(r.identities)) IN
     /\ heap' = fresh
     /\ vault' = known.vault /\ globals' = known.list
     /\ \/ /\ Known(r) = {}
           /\ agents' = Append(agents, ResolvedAgent(r, addresses))
        \/ /\ Known(r) # {}
           /\ LET i == LastOf(Known(r))
                  acc == Folded(TakeResolved,
                                  [heap |-> fresh, tools |-> agents[i].tools],
                                  addresses) IN
              agents' = [agents EXCEPT ![i] = Enriched(@, r, acc.tools)]
  /\ resolved' = Tail(resolved)
  /\ UNCHANGED <<repo, phase, files, todo>>

-----------------------------------------------------------------------------
(* Identities.                                                             *)

\* The addresses of the graph's identities by name, of several the last.
GlobalOf(n) ==
  LET named == Indices(globals, vault, n) IN
  IF named = {} THEN {} ELSE {globals[LastOf(named)]}

\* What the graph knows of an identity comes to the agent's, unless they are of different
\* providers.
LinkIdentity(v, i) ==
  IF \E g \in GlobalOf(v[i].name) : v[g].provider \in {v[i].provider, "generic"}
                                    \/ v[i].provider = "generic"
  THEN LET g == CHOOSE x \in GlobalOf(v[i].name) : TRUE IN
       [v EXCEPT ![i].roles = @ \cup v[g].roles,
                 ![i].provider = IF @ = "generic" THEN v[g].provider ELSE @]
  ELSE v

Referenced(a) == {heap[t].identity : t \in Range(a.tools)} \cup
                 {s.identity : s \in Range(a.servers)}

\* _link_global_identities, for one agent; it also gets the identities its tools and servers
\* name, which it shares with others.
Link ==
  /\ phase = "link" /\ todo # <<>>
  /\ LET a == Head(todo)
         held == {vault[i].name : i \in Range(a.ids)}
         missing == UNION {GlobalOf(n) : n \in Referenced(a) \ (held \cup {Nothing})} IN
     /\ vault' = Folded(LinkIdentity, vault, a.ids)
     /\ \E order \in {o \in [1..Cardinality(missing) -> missing] : Range(o) = missing} :
          agents' = Append(agents, [a EXCEPT !.ids = @ \o order])
  /\ todo' = Tail(todo)
  /\ UNCHANGED <<repo, phase, files, resolved, heap, globals>>

EndLink ==
  /\ phase = "link" /\ todo = <<>>
  /\ phase' = "done"
  /\ UNCHANGED <<repo, files, resolved, todo, agents, heap, vault, globals>>

Init ==
  /\ repo \in Repositories
  /\ phase = "merge"
  /\ files = repo.files
  /\ resolved = repo.resolved
  /\ todo = <<>> /\ agents = <<>> /\ heap = <<>>
  /\ vault = <<>> /\ globals = <<>>

Next ==
  \/ MergeFile \/ ConsolidateIdentities
  \/ StartConsolidation \/ Consolidate \/ EndConsolidation
  \/ Enrich \/ Link \/ EndLink

SafetySpec == Init /\ [][Next]_vars

-----------------------------------------------------------------------------
(* Properties, stated about the files of the scan.                         *)

\* The declarations of an agent, with the tools each refers to.
DeclarationsOf(a) ==
  UNION {{[file |-> i, manifest |-> repo.files[i].manifest, policy |-> d.policy,
           tools |-> {repo.files[i].tools[n] : n \in Range(d.uses)},
           identities |-> {repo.files[i].identities[n] : n \in Range(d.runsAs)},
           servers |-> Range(d.servers), inputs |-> d.inputs, delegates |-> d.delegates] :
            d \in {x \in Range(repo.files[i].agents) : SameKey(x, a)}} :
         i \in DOMAIN repo.files}

DeclaredTools(a, n) ==
  {t \in UNION {d.tools : d \in DeclarationsOf(a)} : t.name = n}

ResolutionsOf(a) == {x \in Range(repo.resolved) : x.name = a.name}

ResolvedTools(a, n) ==
  {t \in UNION {Range(r.tools) : r \in ResolutionsOf(a)} : t.name = n}

\* What is declared of the identities called n: for the graph, and anywhere.
GloballyKnown(n) ==
  {x \in (UNION {{f.identities[k] : k \in 1..f.global} : f \in Range(repo.files)})
         \cup UNION {Range(r.identities) : r \in Range(repo.resolved)} : x.name = n}
EverKnown(n) ==
  GloballyKnown(n) \cup {x \in UNION {Range(f.identities) : f \in Range(repo.files)} : x.name = n}

\* The tools of an agent, as objects.
ToolsOf(a) == {heap[t] : t \in Range(a.tools)}

Keeps(tool, declared) ==
  /\ declared.caps \subseteq tool.caps
  /\ declared.approval = "no" => tool.approval = "no"
  /\ declared.guarded => tool.guarded

\* What any file says of a tool that was not a placeholder is true of the consolidated tool,
\* above all a declared lack of approval (_merge_tool).
ToolFactsKept(a) ==
  \A n \in ToolNames :
    (\A t \in DeclaredTools(a, n) : t.kind # "placeholder") =>
      \A d \in DeclaredTools(a, n) :
        \E tool \in ToolsOf(a) : tool.name = n /\ Keeps(tool, d)

\* "Keep a framework source location when policy was discovered first; delegation aliases
\* depend on the actual module/config filename."
LocatedInSource(a) ==
  LET sources == {d.file : d \in {x \in DeclarationsOf(a) : ~x.manifest}} IN
  sources # {} => a.file \in sources /\ \A i \in sources : a.file <= i

\* The limits a declaration sets outlast every declaration that sets none.
LimitsKept(a) ==
  (\E d \in DeclarationsOf(a) : d.policy.limits # Nothing) =>
    \E d \in DeclarationsOf(a) : d.policy.limits # Nothing /\ a.policy = d.policy

\* The first file with a server of a name decides about it, and the resolution of the
\* repository only about servers that no file has.
ServersKept(a) ==
  /\ \A d \in DeclarationsOf(a) : \A s \in d.servers :
       \E t \in Range(a.servers) : t.name = s.name
  /\ \A t \in Range(a.servers) :
       LET declaring == {d \in DeclarationsOf(a) : \E s \in d.servers : s.name = t.name} IN
       IF declaring = {} THEN \E r \in ResolutionsOf(a) : t \in Range(r.servers)
       ELSE \E d \in declaring : t \in d.servers /\ \A e \in declaring : d.file <= e.file

\* The graph has identities of one provider under this name, and nobody names another.
OneProvider(n) ==
  \E p \in {x.provider : x \in GloballyKnown(n)} :
    /\ \A x \in GloballyKnown(n) : x.provider = p
    /\ \A x \in EverKnown(n) : x.provider \in {p, "generic"}

\* An agent's identity has all that was declared of it for this agent and, if there is one
\* provider of that name, all the graph knows of it; and the agent has those its tools name.
\* Of two providers, "generic" among them, the one found last hides the other.
IdentitiesKept(a) ==
  LET Held(n) == {vault[i] : i \in {j \in Range(a.ids) : vault[j].name = n}} IN
  /\ \A d \in DeclarationsOf(a) : \A x \in d.identities :
       \E i \in Held(x.name) : x.roles \subseteq i.roles
  /\ \A n \in Referenced(a) : n # Nothing /\ GloballyKnown(n) # {} => Held(n) # {}
  /\ \A n \in IdentityNames :
       OneProvider(n) =>
         \A i \in Held(n) : \A x \in GloballyKnown(n) : x.roles \subseteq i.roles

\* Whom an agent delegates to, as the last file says that says it, and the repository-wide
\* analysis in addition.
DelegatesKept(a) ==
  LET saying == {d \in DeclarationsOf(a) : d.delegates # {}}
      resolving == ResolutionsOf(a) IN
  /\ \A d \in saying : (\A e \in saying \ {d} : e.file < d.file) => d.delegates \subseteq a.delegates
  /\ \A r \in resolving : \E b \in Range(agents) : b.name = a.name /\ r.delegates \subseteq b.delegates
  /\ a.delegates \subseteq UNION {d.delegates : d \in saying \cup resolving}

InputsKept(a) == \A d \in DeclarationsOf(a) : d.inputs \subseteq a.inputs

(***************************************************************************)
(* In whatever order the files are found, nothing that was declared of an  *)
(* agent is lost: the facts of its tools and identities, its inputs,       *)
(* servers and delegates, the source file it is in, and the limits of its  *)
(* policy; and where one declaration hides another it is known which.      *)
(***************************************************************************)
FactsKept ==
  phase = "done" =>
    \A a \in Range(agents) :
      /\ ToolFactsKept(a) /\ IdentitiesKept(a) /\ ServersKept(a) /\ InputsKept(a)
      /\ DelegatesKept(a)
      /\ LocatedInSource(a) /\ LimitsKept(a)

\* "Manifest overlays must not alter another agent sharing the same source tool" (scanner.py):
\* whatever is true of an agent's tool was declared of this agent, and approval only if no
\* declaration of it says otherwise.
NothingBorrowed(a) ==
  \A tool \in ToolsOf(a) :
    LET sources == DeclaredTools(a, tool.name) \cup ResolvedTools(a, tool.name) IN
    /\ tool.caps \subseteq UNION {t.caps : t \in sources}
    /\ tool.guarded => \E t \in sources : t.guarded
    /\ tool.approval # "unset" => \E t \in sources : t.approval = tool.approval
    /\ tool.identity # Nothing => \E t \in sources : t.identity = tool.identity

\* An identity that no file declares for the graph has the roles declared of it for this
\* agent only; one that the graph knows has those declared anywhere under its name.
NoRoleBorrowed(a) ==
  \A i \in Range(a.ids) :
    LET n == vault[i].name
        own == {x \in UNION {d.identities : d \in DeclarationsOf(a)} : x.name = n} IN
    vault[i].roles \subseteq
      UNION {x.roles : x \in IF GloballyKnown(n) = {} THEN own ELSE EverKnown(n)}

\* In the end there is one agent for every declared name and instance, and further ones only
\* for resolved names nobody declared.
OneAgentPerKey ==
  LET declared == {[name |-> d.name, instance |-> d.instance] :
                     d \in UNION {Range(f.agents) : f \in Range(repo.files)}}
      found == {[name |-> a.name, instance |-> a.instance] : a \in Range(agents)} IN
  /\ Cardinality(found) = Len(agents)
  /\ declared \subseteq found
  /\ {k.name : k \in found} =
       {k.name : k \in declared} \cup {r.name : r \in Range(repo.resolved)}
  /\ \A k \in found \ declared : k.name \notin {d.name : d \in declared}

(***************************************************************************)
(* "Merge duplicate declarations without conflating source-scoped graph    *)
(* instances": agents are neither mixed up nor do they share what one of   *)
(* them alone was given.                                                   *)
(***************************************************************************)
NotConflated ==
  phase = "done" =>
    OneAgentPerKey /\ \A a \in Range(agents) : NothingBorrowed(a) /\ NoRoleBorrowed(a)

\* The second consolidation finds nothing to do: enrichment makes no duplicates.
SecondPassIdle ==
  [][phase = "again" /\ todo # <<>> =>
       heap' = heap /\ vault' = vault /\ agents' \o todo' = agents \o todo]_vars

(***************************************************************************)
(* "A manifest policy is authoritative when it declares any constraints":  *)
(* where one manifest alone declares a policy of an agent, that is the     *)
(* policy of the agent, its Authority Contract included.                   *)
(***************************************************************************)
ContractKept ==
  phase = "done" => \A a \in Range(agents) : \A d \in DeclarationsOf(a) :
    (\A e \in DeclarationsOf(a) \ {d} :
       e.policy.limits = Nothing /\ e.policy.contract = Nothing) =>
      a.policy.contract = d.policy.contract
=============================================================================
