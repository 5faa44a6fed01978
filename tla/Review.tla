-------------------------------- MODULE Review --------------------------------
(***************************************************************************)
(* The review of a pull request, from the event to the exit status: the    *)
(* commits are made available and unpacked (PullRequest), each is scanned  *)
(* by the passes of scanner.py in their order, the two scans are compared  *)
(* (change_analysis.py) and the command line's gates decide (cli.py).      *)
(*                                                                         *)
(* What the adapters find in a commit is given, as a tree                  *)
(*   [skipped, partial, config, agents, decls, clients, relations,         *)
(*    program, aside]:                                                     *)
(* the entries that are not regular files, whether something could not be  *)
(* resolved, the configuration, and the parts that McpBinding,             *)
(* FlowAttribution and Findings speak of.                                  *)
(***************************************************************************)
EXTENDS PullRequest, McpBinding, FlowAttribution, Findings, AuthorityDelta

CONSTANTS
  Merged,  \* the commits that have the files of the target branch
  Jobs     \* [event, pull, local, branch, base, head, options]: sets of trees that those
           \* and the other commits may have, a set of options

IsList(list) == Len(list) \in Nat /\ DOMAIN list = 1..Len(list)

\* What the adapters may find in a commit: lists of agents, servers and relations, finite
\* sets; a tool or a server has a place of its own in its list; an agent's filter names
\* tools, and a server's configuration lies in one directory.
IsTree(tree) ==
  /\ tree.skipped \in Nat /\ tree.partial \in BOOLEAN
  /\ \A rule \in DOMAIN tree.config : tree.config[rule].severity \in Nat
  /\ IsList(tree.agents) /\ IsList(tree.decls) /\ IsList(tree.relations)
  /\ \A a \in DOMAIN tree.agents :
       /\ IsFiniteSet(tree.agents[a].tools)
       /\ \A t \in tree.agents[a].tools : IsFiniteSet(t.identity)
       /\ \A t, u \in tree.agents[a].tools : t.at = u.at => t = u
       /\ tree.agents[a].servers \subseteq DOMAIN tree.decls
       /\ \A ref \in tree.agents[a].refs : \A f \in ref.filter : f \subseteq ToolNames
  /\ \A d \in DOMAIN tree.decls :
       /\ DOMAIN tree.decls[d] = ServerFields /\ tree.decls[d].at = d
       /\ \A s, t \in tree.decls[d].scope : s = t /\ Len(s) \in Nat

ASSUME JobsAssumption ==
  /\ Merged \subseteq Commits
  /\ \A job \in Jobs :
       /\ job.event \in Events /\ job.pull \in Commits
       /\ job.local \subseteq Objects /\ job.branch \in Commits
       /\ \A tree \in job.base \cup job.head : IsTree(tree)
       /\ \A o \in job.options : {o.strict, o.regression, o.policy} \subseteq BOOLEAN
                                 /\ o.failOn \in Nat

VARIABLES
  trees,      \* what the adapters find in each commit
  options,    \* [strict, regression, policy, failOn, asked] of the command line
  mcp,        \* per revision, the graph's servers so far
  summaries,  \* per revision, the summaries of its functions so far
  rounds,     \* per revision, the rounds that computed them
  flows,      \* per revision, its flows
  findings,   \* per revision, its findings
  report      \* what the comparison says

scanVars == <<mcp, summaries, rounds, flows, findings>>
vars == <<gitVars, trees, options, scanVars, report>>

Stages == GitStages \cup {"scan", "fast-agent", "authority", "context", "rounds",
                          "flows",
                          "findings", "compare", "gates"}

NoReport == [incomplete |-> {}, introduced |-> {}, worsened |-> {}, expansions |-> {},
             regressed |-> FALSE]

Init ==
  /\ PullRequestInit
  /\ \E job \in Jobs :
       /\ event = job.event /\ pullRef = job.pull /\ local = job.local /\ branch = job.branch
       /\ \E b \in job.base, h \in job.head :
            trees = [c \in Commits |-> IF c \in Merged THEN b ELSE h]
       /\ options \in job.options
  /\ mcp = [s \in Sides |-> <<>>]
  /\ summaries = [s \in Sides |-> <<>>]
  /\ rounds = [s \in Sides |-> 0]
  /\ flows = [s \in Sides |-> {}]
  /\ findings = [s \in Sides |-> {}]
  /\ report = NoReport

-----------------------------------------------------------------------------
(* A graph as the rules and the comparison see it.                         *)

Tree(s) == trees[snapshot[s]]

ToolsOf(tree) == UNION {{[agent |-> a.name, name |-> t.name, path |-> t.path,
                          import |-> t.import] : t \in a.tools} : a \in Range(tree.agents)}

\* The identities of agent a: those of its tools and those its servers brought.
IdentitiesOf(tree, g, a) ==
  (UNION {t.identity : t \in tree.agents[a].tools})
    \cup {[name |-> i.name, roles |-> {}, oauth_scopes |-> {}, credential |-> i.credential] :
            i \in g.identities[a]}

\* The agents of a graph.
AgentsOf(tree, g) ==
  {[at |-> a, name |-> tree.agents[a].name, path |-> tree.agents[a].path,
    untrusted |-> tree.agents[a].untrusted, data |-> tree.agents[a].data,
    control |-> tree.agents[a].control, required |-> tree.agents[a].required,
    denied |-> tree.agents[a].denied, tools |-> tree.agents[a].tools,
    servers |-> {g.server[s] : s \in g.bound[a]},
    identities |-> IdentitiesOf(tree, g, a)] : a \in DOMAIN tree.agents}

\* _tool_relationship
ToolAuthority(agent, t) ==
  [target |-> <<agent.name, "tool", t.name>>, entry |-> <<agent.at, t.at>>, server |-> FALSE,
   capabilities |-> t.capabilities, identity |-> t.identity, required |-> t.approval,
   guardrails |-> t.guardrails, inherited |-> agent.control, allowed |-> {}, denied |-> {},
   dynamic |-> FALSE, resources |-> t.resources, destinations |-> t.destinations,
   restricted |-> t.restricted, mutation |-> t.mutation, network |-> t.network]

\* _mcp_relationship
ServerAuthority(agent, s) ==
  [target |-> <<agent.name, "mcp_server", s.name>>, entry |-> <<agent.at, s.at>>,
   server |-> TRUE,
   capabilities |-> IF Remote(s) THEN {"mcp.remote", "network.external"} ELSE {"mcp.local"},
   identity |-> {i \in agent.identities : i.name \in s.identity},
   required |-> s.approval, guardrails |-> s.guardrails, inherited |-> FALSE,
   allowed |-> s.allowed, denied |-> s.denied, dynamic |-> s.dynamic,
   resources |-> s.resources, destinations |-> {u \in {s.url} : u # "none"}, restricted |-> TRUE,
   mutation |-> "none", network |-> "none"]

\* effective_authority_relationships: one for each entry of a list of tools or servers.
Relationships(agents) ==
  UNION {{ToolAuthority(a, t) : t \in a.tools} \cup {ServerAuthority(a, s) : s \in a.servers} :
           a \in agents}

AuthorityOf(s) == Relationships(AgentsOf(Tree(s), mcp[s]))

AllServers(s) == {mcp[s].server[d] : d \in mcp[s].unbound \X {0}}
                   \cup UNION {{mcp[s].server[x] : x \in mcp[s].bound[a]} :
                                 a \in DOMAIN mcp[s].bound}

\* A value crosses a call of unknown semantics, or a remote server's authentication is
\* not known: diagnose_dynamic_constructs, analyze_repository_flows
CoverageIncomplete(s) ==
  \/ Tree(s).partial
  \/ \E f \in flows[s] : f.basis = "static_dataflow_partial"
  \/ \E x \in AllServers(s) : Remote(x) /\ x.authenticated = "unknown"

-----------------------------------------------------------------------------
(* scan.                                                                   *)

Scanning(at) == stage = at /\ exit = 3

Then(next) ==
  /\ stage' = next
  /\ UNCHANGED <<event, pullRef, local, branch, side, snapshot, exit, trees, options, report>>

\* The passes of mcp_context.py and mcp_authority.py, one after the other.
BindImported ==
  /\ Scanning("scan")
  /\ mcp' = [mcp EXCEPT ![side] = ResolveImported(Tree(side), Unbound(Tree(side)))]
  /\ Then("fast-agent") /\ UNCHANGED <<summaries, rounds, flows, findings>>

BindFastAgent ==
  /\ Scanning("fast-agent")
  /\ mcp' = [mcp EXCEPT ![side] = ResolveFastAgent(Tree(side), @)]
  /\ Then("authority") /\ UNCHANGED <<summaries, rounds, flows, findings>>

BindClients ==
  /\ Scanning("authority")
  /\ mcp' = [mcp EXCEPT ![side] = ReconstructAuthority(Tree(side), @)]
  /\ Then("context") /\ UNCHANGED <<summaries, rounds, flows, findings>>

AttachContext ==
  /\ Scanning("context")
  /\ mcp' = [mcp EXCEPT ![side] = ReconstructContext(Tree(side), @)]
  /\ summaries' = [summaries EXCEPT ![side] = [k \in DOMAIN Tree(side).program |-> NoSummary]]
  /\ Then("rounds") /\ UNCHANGED <<rounds, flows, findings>>

\* _build_summaries: rounds, until one changes nothing or there were enough.
Summaries ==
  /\ Scanning("rounds")
  /\ LET next == SummaryRound(Tree(side).program, summaries[side])
         done == next = summaries[side] \/ rounds[side] + 1 = MAX_FLOW_SUMMARY_ITERATIONS
     IN /\ summaries' = [summaries EXCEPT ![side] = next]
        /\ rounds' = [rounds EXCEPT ![side] = @ + 1]
        /\ Then(IF done THEN "flows" ELSE "rounds")
  /\ UNCHANGED <<mcp, flows, findings>>

\* analyze_repository_flows and _annotate_flow_semantics, before MAX_FLOW_PATHS.
FlowsOf(tree, summary) ==
  {[f EXCEPT !.reachability = Reachability(f, tree.aside)] :
     f \in RepositoryFlows(tree.program, ToolsOf(tree), summary)}

\* As many of them as the limit allows: the others are dropped.
Attribute ==
  /\ Scanning("flows")
  /\ LET all == FlowsOf(Tree(side), summaries[side])
     IN \E kept \in {set \in SUBSET all : /\ IsFiniteSet(set) /\ Cardinality(set) <= MAX_FLOW_PATHS
                                          /\ set = all \/ Cardinality(set) = MAX_FLOW_PATHS} :
          flows' = [flows EXCEPT ![side] = kept]
  /\ Then("findings") /\ UNCHANGED <<mcp, summaries, rounds, findings>>

\* build_attack_paths and evaluate
RawFindings(s) ==
  LET agents  == AgentsOf(Tree(s), mcp[s])
      unbound == {mcp[s].server[d] : d \in mcp[s].unbound \X {0}}
  IN Evaluate(agents, unbound, AttackPaths(agents, flows[s]), Broad)

\* Rules, then apply_config; then the other revision is scanned.
EvaluateRules ==
  /\ Scanning("findings")
  /\ findings' = [findings EXCEPT ![side] = ApplyConfig(Tree(side).config, RawFindings(side))]
  /\ side' = IF side = "base" THEN "head" ELSE "base"
  /\ stage' = IF side = "base" THEN "scan" ELSE "compare"
  /\ UNCHANGED <<event, pullRef, local, branch, snapshot, exit, trees, options, report,
                 mcp, summaries, rounds, flows>>

-----------------------------------------------------------------------------
(* Comparison and gates.                                                   *)

\* compare_scans: "analysis_incomplete"
AnalysisIncomplete(s) == CoverageIncomplete(s) \/ Tree(s).skipped > 0

\* compare_scans: what it may report.
Comparisons ==
  {[incomplete |-> {s \in Sides : AnalysisIncomplete(s)},
    introduced |-> Introduced(findings["base"], findings["head"]),
    worsened   |-> Worsened(findings["base"], findings["head"]),
    expansions |-> Expansions(base, head),
    regressed  |-> ResolutionRegressed(AuthorityOf("base"), AuthorityOf("head"))] :
     base \in Indexes(AuthorityOf("base")), head \in Indexes(AuthorityOf("head"))}

Compare ==
  /\ Scanning("compare")
  /\ report' \in Comparisons
  /\ stage' = "gates"
  /\ UNCHANGED <<event, pullRef, local, branch, side, snapshot, exit, trees, options,
                 scanVars>>

\* main of cli.py, for diff.  violated: what PolicyGate is about.
ExitStatus(violated) ==
  IF options.strict /\ report.incomplete # {} THEN 1
  ELSE IF options.regression /\ report.regressed THEN 1
  ELSE IF options.policy /\ violated THEN 2
  ELSE IF options.failOn # 0 /\ \E f \in report.introduced \cup report.worsened :
                                    f.severity >= options.failOn THEN 2
  ELSE 0

Gates ==
  /\ Scanning("gates")
  /\ \E violated \in BOOLEAN : exit' = ExitStatus(violated)
  /\ UNCHANGED <<event, pullRef, local, branch, side, stage, snapshot, trees, options,
                 scanVars, report>>

Rest == <<trees, options, scanVars, report>>

PrepareFiles == Prepare /\ UNCHANGED Rest

Next ==
  \/ PrepareFiles \/ (Push /\ UNCHANGED Rest)
  \/ BindImported \/ BindFastAgent \/ BindClients \/ AttachContext
  \/ Summaries \/ Attribute \/ EvaluateRules
  \/ Compare \/ Gates

\* Fairness of the preparation alone: all git commands have a timeout.
Spec == Init /\ [][Next]_vars /\ WF_vars(PrepareFiles)

-----------------------------------------------------------------------------
(* Properties.                                                             *)

\* Types; a tree is unpacked from a commit, and the limits of the flow analysis hold.
TypeOK ==
  /\ PullRequestTypeOK
  /\ stage \in Stages
  /\ DOMAIN trees = Commits
  /\ rounds \in [Sides -> 0..MAX_FLOW_SUMMARY_ITERATIONS]
  /\ \A s \in Sides : Cardinality(flows[s]) <= MAX_FLOW_PATHS
  /\ DOMAIN mcp = Sides /\ DOMAIN summaries = Sides /\ DOMAIN findings = Sides
  /\ report.incomplete \subseteq Sides /\ report.introduced \subseteq findings["head"]
  /\ report.worsened \subseteq findings["head"]

Decided == stage = "gates" /\ exit = 3

\* --strict lets pass only what these parts of the scan saw in full, at base as at head: no
\* entry was left out of a snapshot, no call of unknown semantics was crossed by a flow that
\* is kept, and of no remote server is it unknown whether it authenticates
\* ("analysis_incomplete").  Flows beyond MAX_FLOW_PATHS, and summaries that the cap stopped,
\* pass unseen: neither sets analysis_incomplete.
StrictMeansComplete ==
  options.strict /\ exit \in {0, 2} =>
    \A s \in Sides :
      /\ Tree(s).skipped = 0 /\ ~Tree(s).partial
      /\ \A f \in flows[s] : f.basis = "static_dataflow"
      /\ \A d \in DOMAIN Tree(s).decls :
           Remote(Tree(s).decls[d]) => Tree(s).decls[d].authenticated # "unknown"

\* What the agents may do at base and at head.
AgentsAt(s) == AgentsOf(Tree(s), mcp[s])

Reported(agent, kind, name) == \E e \in report.expansions : e.target = <<agent.name, kind, name>>

\* Tool t can do no more than tool u.
NoMoreThan(t, u) ==
  /\ t.capabilities \subseteq u.capabilities /\ t.resources \subseteq u.resources
  /\ t.destinations \subseteq u.destinations
  /\ \A i \in t.identity : \E j \in u.identity : /\ i.name = j.name
                                                /\ i.roles \subseteq j.roles
                                                /\ i.oauth_scopes \subseteq j.oauth_scopes

\* What agents of a name have at a side by the name n.
ToolsNamed(rev, agent, n) ==
  UNION {{t \in b.tools : t.name = n} : b \in {c \in AgentsAt(rev) : c.name = agent}}
ServersNamed(rev, agent, n) ==
  UNION {{s \in b.servers : s.name = n} : b \in {c \in AgentsAt(rev) : c.name = agent}}

\* Whatever an agent can do at head and could not do at base is among the expansions: with a
\* tool, or with a server however it came to be bound (compare_effective_authority).  Of
\* several that it has by one name the comparison sees one: that one gains if they all do,
\* and otherwise what the others gain may be lost.
GainsReported ==
  \A a \in AgentsAt("head") :
    /\ \A n \in {t.name : t \in a.tools} :
         \/ Reported(a, "tool", n)
         \/ \E t \in ToolsNamed("head", a.name, n), u \in ToolsNamed("base", a.name, n) :
              NoMoreThan(t, u)
    /\ \A n \in {s.name : s \in a.servers} :
         \/ Reported(a, "mcp_server", n)
         \/ \E s \in ServersNamed("head", a.name, n), u \in ServersNamed("base", a.name, n) :
              /\ Callable(s, ToolNames) \subseteq Callable(u, ToolNames)
              /\ s.url \in {u.url, "none"} /\ s.resources \subseteq u.resources

\* So is every relationship that crosses into weaker control, a broader identity or a wider
\* server scope (classify_boundary_crossings), although expansions are found without looking
\* at classes (_changed_relationship): whichever of one name are compared.
CrossingsReported ==
  LET base == AuthorityOf("base")  head == AuthorityOf("head") IN
  \A b \in base, h \in head : b.target = h.target =>
    \A family \in {"control", "identity", "mcp_scope"} :
      \/ \E e \in report.expansions : e.target = h.target /\ family \in e.crossings
      \/ \E x \in base, y \in head :
           x.target = h.target /\ y.target = h.target /\ family \notin Crossings(x, y)

\* The reviewer of a pull request is shown whatever an agent gains by it, and every control
\* that it weakens, as far as names tell its tools and servers apart.
NoSilentGain == Decided => GainsReported /\ CrossingsReported

\* The declarations of repository r that no adapter gave to an agent and no earlier pass
\* made copies of.
Uncopied(r, g) ==
  {d \in (DOMAIN r.decls) \ Attached(r) : \A a \in DOMAIN r.agents : <<d, a>> \notin g.bound[a]}

UnresolvedFor(r, g, a, name) ==
  \E u \in g.unresolved : u.agent = r.agents[a].name /\ u.server = name

\* Every declared server is bound or listed as unbound, never both.
BoundOrUnbound(r, g) ==
  \A d \in DOMAIN r.decls :
    (d \in g.unbound) <=> (\A a \in DOMAIN r.agents : \A x \in g.bound[a] : x[1] # d)

\* Every import got the one server it can mean, or is reported.
ImportsResolved(r, g) ==
  \A a \in DOMAIN r.agents : \A p \in r.agents[a].imports :
    \/ UnresolvedFor(r, g, a, p.name)
    \/ \E d \in DOMAIN r.decls :
         /\ <<d, a>> \in g.bound[a]
         /\ {d} = {e \in (DOMAIN r.decls) \ Attached(r) :
                     r.decls[e].name = p.name /\ ModuleMatches(r.decls[e].path, p.module)}

\* Every reference got a server of that name, none of which is nearer, or is reported.
ReferencesResolved(r, g) ==
  \A a \in {x \in DOMAIN r.agents : r.agents[x].fast} : \A ref \in r.agents[a].refs :
    \/ UnresolvedFor(r, g, a, ref.name)
    \/ \E d \in DOMAIN r.decls :
         /\ <<d, a>> \in g.bound[a] /\ r.decls[d].name = ref.name
         /\ \A e \in Uncopied(r, g) :
              \A s \in r.decls[e].scope : \A t \in r.decls[d].scope :
                r.decls[e].name = ref.name /\ IsPrefix(s, r.agents[a].path) => Len(s) < Len(t)

\* All agents that are given a client's tools share its servers.
ClientsShared(r, g) ==
  \A k \in {j \in DOMAIN r.relations : Binds(r, j)} : \A d \in Uncopied(r, g) :
    /\ r.decls[d].path = r.relations[k].path
    /\ \A c \in r.clients : c.names = {} \/ r.decls[d].name \in c.names
    => <<d, 0>> \in g.bound[AgentOf(r, k)]

\* No binding lets an agent call what the declaration does not, unless a filter leaves nothing.
NoneWidened(r, g) ==
  \A a \in DOMAIN r.agents : \A x \in g.bound[a] :
    \/ Callable(g.server[x], ToolNames) \subseteq Callable(r.decls[x[1]], ToolNames)
    \/ g.server[x].allowed = {}

\* Nothing that the repository says of MCP servers is lost or doubled on the way to the
\* agents (mcp_context.py, mcp_authority.py, mcp_resolution.py).
McpAccountedFor ==
  Decided => LET r == Tree("head")  g == mcp["head"] IN
    /\ BoundOrUnbound(r, g)
    /\ ImportsResolved(r, g) /\ ReferencesResolved(r, g) /\ ClientsShared(r, g)
    /\ NoneWidened(r, g)

\* A process tool of agent a that nobody approves.
UnapprovedShell(t) ==
  "process.execute" \in t.capabilities /\ t.approval # "yes" /\ t.kind # "delegated_agent"

\* With --fail-on high and the rules as they are, a pull request that passes gives no
\* agent a process tool without approval in a file where it had none like it, no further
\* capability that its policy denies, and no new flow from untrusted data to a process.
GateCatches ==
  exit = 0 /\ options.failOn \in 1..HIGH /\ DOMAIN Tree("head").config = {} =>
    \A a \in AgentsAt("head") :
      LET before == {b \in AgentsAt("base") : b.name = a.name} IN
      /\ \A t \in {x \in a.tools : UnapprovedShell(x)} :
           \E b \in before : \E u \in b.tools :
             UnapprovedShell(u) /\ u.path = t.path /\ u.approval = t.approval
      /\ CapabilitiesOf(a) \cap a.denied # {} =>
           \E b \in before :
             CapabilitiesOf(b) \cap b.denied = CapabilitiesOf(a) \cap a.denied
      /\ \A f \in {x \in flows["head"] : /\ a.name \in x.agents
                                         /\ x.basis = "static_dataflow"
                                         /\ FlowRules(x) # {}} :
           \E e \in flows["base"] : /\ a.name \in e.agents
                                    /\ e.source = f.source /\ e.site = f.site

\* A job gets its files or gives up, whatever git and the server answer and however often
\* somebody pushes meanwhile; from there on it runs by itself, in as many rounds as
\* TypeOK allows.
PreparationEnds == <>(exit # 3 \/ stage = "scan")
=============================================================================
