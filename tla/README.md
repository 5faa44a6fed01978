# A formal model of HorusTrace

HorusTrace (`src/`) is a static scanner for the authority of AI agents. It reads a
repository, builds a graph of agents, tools, identities, MCP servers and data flows, and
judges that graph: by rules, by the Authority Contract each agent declares, by comparison
with another commit, and by comparison with deployment evidence. This directory models in
TLA+ the parts of it that keep state across steps or whose answers other people act on;
TLC checks the models on small instances, and TLAPS proves what is said below to be proved
for every value of the constants.

The reference is always the source. Every definition that models code is listed in
`PROJECT.json` under `map` with the lines it stands for.

## 1. Inventory

HorusTrace has no threads of its own. What is hard about it is order (files are scanned in
name order and *merged in place*), aliasing (agents that refer to one Python object),
sharing of names (dictionaries by name in which the last, or the first, wins), bounds
(every loop over untrusted input has a limit and what happens at the limit matters), and
time (the verdict of the diff gate is used after the branch has moved; a deployment changes
between two runs of `reconcile`; a pull request is pushed to while its check fetches it). The
study's workflows are concurrent: a pool of workers inside, maintainers who push outside.

| Component | State it keeps | Operations | Interacts with | What makes it correct |
|---|---|---|---|---|
| Repository walk and intake (`scanner.py: _repository_candidates, scan`; `coverage.py`, `limits.py`, `path_safety.py`) | candidates, entry count, seen real paths, coverage counters, diagnostics | walk, check containment, skip templates, size limits, parse, report | gives each adapter one file; every later stage reads its coverage | every candidate is analysed or accounted for; a limit or an unreadable file makes the scan incomplete; a manifest that cannot be read fails the scan |
| Framework adapters (`adapters/*.py`) | none | `detect`, `parse` | produce graph fragments | patterns over syntax trees |
| Manifest adapter (`adapters/manifest.py`, `manifest_schema.py`) | none | validate, build agents, identities, policies | produces graph fragments whose agents share identity objects | fails closed on unknown fields |
| Graph consolidation (`scanner.py: _merge, _consolidate_agents, _merge_tool, _link_global_identities`; `repository_adk.py: enrich_repository_graph, _merge_agent`) | the graph; tools and identities as mutable objects | copy and append a file's agents, merge declarations of one agent, enrich, consolidate again, link identities | around delegation | every fact is kept, none is borrowed, one agent per key |
| Delegation propagation (`scanner.py: _propagate_adk_delegation`) | children, recorded authority, work list, visited names | resolve references, record, traverse each edge, append a synthetic tool | reads and writes the agents; what it adds feeds rules and contracts | one tool per edge with exactly the reachable authority; terminates; independent of scan order |
| Authority Contract evaluation (`authority_contract.py`, `effective_authority.py`) | none | violations and unresolved clauses of a relationship | read by `scan`, `diff`, `review` | what was not observed is unresolved, never compliant |
| Contract delta and policy gate (`authority_policy_delta.py`, `cli.py`, `change_analysis.py`) | none; its verdict is kept by GitHub | compare two commits, exit code | run for each pull request, concurrently | no merge loosens a contract or brings in a violation |
| Authority delta, trust boundaries (`authority_delta.py`, `trust_boundaries.py`, `authority_resolution.py`, `security_review.py`) | none | compare relationships of two commits, classify, order by impact | the regression verdict of `diff`, `review` | every gained authority and every weakened boundary is reported |
| Deployment evidence and reconciliation (`deployed_*.py`, `deployment_*.py`, `authority_reconciliation.py`, `authority_completeness.py`) | a kept snapshot of the deployment | accept evidence, match agents to workloads, compare required and deployed authority, policy, drift | `reconcile` and its exit codes; reads the graph of a scan | never "aligned" or "compliant" on incomplete evidence; drift is judged against the snapshot |
| Terraform authority source (`authority_source.py`) | none | read accounts, roles and services | what the agents require of a deployment | limits and unsafe constructs stop it |
| Flow analysis (`flow.py`, `source_provenance.py`) | function summaries, a round counter | rounds of summaries, flows, reachability, limits | attack paths | monotone summaries; nothing that can run is missed within the bounds |
| Attack paths and rules (`analysis.py`, `rules/`, `security_graph.py`, `adg.py`) | findings | find, regrade, disable | suppressions | one finding per cause |
| MCP resolution (`mcp_*.py`) | bound and unbound servers | resolve imported servers, references and clients, intersect filters | effective authority | a server is bound or reported, a filter never widens |
| Suppressions and baseline (`suppressions.py`) | a file of exceptions in the repository | write a baseline, match, expire | the exit status of `scan`; `diff` does not read it | only listed findings disappear, and only for their time |
| Git snapshots, GitHub Action (`git_snapshot.py`, `github_action.py`) | temporary directories, fetched objects | validate, fetch with a retry, resolve, unpack | `diff` | the two commits of the event are compared |
| Real-world study (`scripts/real_world_agent_security_*.py` and their workflows) | protocol, candidate ledger, cohort, truth, baseline: files of a branch that workflows push to | validate, generate truth, scan, score, compare | runs released and candidate scanners over pinned repositories | the reports say what the registered protocol promises of them |
| Other corpus scripts (`scripts/`) | none | sequential measurements | | |
| Reports (`reporters/`, `aibom.py`, `owasp.py`, ...) | none | formatting | | |

`scan()` runs them in this order: walk, one adapter pass per file in name order with
`_merge` after each, consolidation, repository-wide enrichment, consolidation once more,
delegation, MCP resolution, identities, flows, attack paths, rules, suppressions. `diff`
scans two commits and compares; the gate's exit code decides whether GitHub lets a pull
request be merged. `reconcile` scans one tree and compares it with a deployment.

The hazards, each with its line and the properties that would catch it going wrong, are
listed in `PROJECT.json`.

## 2. Modules

    DelegationGraph  <-- DelegatedAuthority (abstract)      AuthorityContract
          ^                     ^                                 ^
          |                     | implements                 PolicyDelta
          +---------------- Delegation                            ^
                           MCDelegation, Delegation_proofs   PolicyGate
    Consolidation          Intake                            MCPolicyGate, PolicyGate_proofs
    MCConsolidation,       MCIntake, Intake_proofs
    Consolidation_proofs

    DeploymentEvidence <- DeploymentRequirements <- AuthorityReconciliation <- Reconcile
                                                                MCReconcile, Reconcile_proofs
    PullRequest  McpBinding  FlowAttribution  Findings  AuthorityDelta     Findings
         ^           ^              ^             ^            ^               ^
         +-----------+-----------+--+-------------+------------+          Suppressions
                              Review                                           ^
                                 ^-------------------- MainBranch -------------+
                                                       ^        ^
    FlowAttribution <- FlowAnalysis <- FlowExecution   |        +-- Review_proofs
                                        ^-------- FlowReview
                                                  MCReview

    StudyProtocol <- StudyTruth <- StudyScoring <- Study                  MCStudy
                                                     ^- StudyScores_proofs <- Study_proofs

### Delegation

`DelegationGraph` is the data: an agent list in scan order, how a `delegates_to` reference
is resolved (by name, where the last agent of a name wins; by file-name alias, where the
first wins; the `_agent` suffix with and without), what an agent can do, what the tool of
a delegation edge is. References are values of `Refs` with two functions on them for the
suffix (`Base`, `Suffixed`); a scope is a selector and the chain it came by. `Reach` says
which names an edge reaches, as the least set closed under children, without any traversal.

`DelegatedAuthority` is the promise: for each edge, in any order, one tool that carries
exactly the authority reachable through the child.

`Delegation` is `_propagate_adk_delegation` statement by statement: `ResolveReferences`
(lines 644-688: children, diagnostics and the recorded authority, *before* any tool is
added), `StartEdge`, `SkipVisited` and `Visit` (the `while pending` loop), `FinishEdge` (the
synthetic tool is appended to the parent), `Return`. The code pops the pending stack from
its end and serves edges in list order; the model lets any pending name and any edge be
next, so that what is shown does not rest on the order. The pending stack is a set of
names: a name pushed twice is popped a second time only to `continue`, and Visit does not
depend on the agent object pushed but on its name, which is what the code looks up.

### Authority Contract, delta and gate

`AuthorityContract` is `evaluate_relationship`: which clause of a contract a relationship
violates or leaves unresolved, per dimension, for approval and for the tools of MCP
servers. Patterns and values are members of one set `Strings`, and `Lang` says which
strings a pattern matches, `fnmatch` as a relation. Results are identified as
`_stable_result_id` does, without the values.

`PolicyDelta` is `compare_contract_constraints`: each kind of weakening with its condition,
and strengthenings as its mirror image.

`PolicyGate` composes them: a repository with a main branch, up to `MaxOpen` open pull
requests, checks whose verdict stays valid after main has moved, three-way merges, and
scans that may have missed agents. `Check` is `horustrace diff` on the two commits of the
event (`ExitCode` translates the order of the gates in `cli.py`); `Branch`, `Merge` and
`Close` are Git and GitHub, external to the code and modelled from what `github_action.py`
and README.md:651 rely on.

### Consolidation

`Consolidation` models how the declarations of one agent in several files become one
agent. Tools and identities are addresses (into `heap` and `vault`), because the point of
`deepcopy` in `_merge`, which copies tools and not identities, and of the in-place
`_merge_tool` and `_merge_identity` is which agents share an object. An address says where the
object came from: `<<file, agent, n>>` is the n-th tool of a file in the copy of one of its
agents, `<<file, 0, n>>` an identity of a file, `<<0, r, n>>` what the repository-wide analysis
made for its r-th agent; no action reads anything out of an address. `Folded` is a Python
`for` over a list. Its actions are
`MergeFile`, `ConsolidateIdentities` (the identities the graph itself has, `globals`),
`StartConsolidation`, `Consolidate` (the loop body of `_consolidate_agents`), `Enrich` (one
agent constructor of `enrich_repository_graph`), `EndConsolidation`, and `Link` (the loop body
of `_link_global_identities`); the phases run in the order of `scan()` lines 963-1152.
Delegation and MCP resolution come between the second consolidation and `Link`; they read the
agents and have modules of their own. Data sources and network destinations are merged as
inputs are, and are left out.

### Intake

`Intake` models which files a scan analyses. `ListDirectory`, `TooManyEntries` and the
`LookAt...` actions are `_repository_candidates`, one entry at a time; `Take` and the actions
built on it are the loop of `scan()`: `CannotResolve`, `LeftRoot`, `Skip` (another name of a
real path, or pyproject.toml), `NoModule` (templates and fragments), `Refuse` (malformed
security configuration), `Fail` and `Analyse`. `Finish` stands for the diagnostics about
frameworks without agents and about no targets. A repository is a function from numbered
paths, in the order of their names, to entries; a file's content is one of a few kinds, what
distinguishes the branches of the loop. A link has the set of what it may lead to, and
`Redirect` lets somebody change it while the walk is under way, which is what the loop's
second containment check and second resolution are for. Between the resolution of a
candidate and the reading of it nothing changes in the model; the code resolves once and
opens the path again, so a link redirected in between is a hazard no property covers.
The manifest's own errors are raised by its adapter, after the file was counted as scanned:
`Refuse` does both. What else the adapters and later stages report is left out.

### Deployment reconciliation

`DeploymentEvidence` says what an evidence file is, when it is accepted, which workloads an
agent is bound to and what their bindings grant. A principal is a form of writing and an
account, since much of the code is about two texts that name one account. What the evidence
leaves open (does a condition hold, what does a role grant that was not expanded) is a set of
`Worlds`; that is the reference for the properties, not a piece of the code.
`DeploymentRequirements` is what source and Terraform show to be required or unused;
`AuthorityReconciliation` the verdicts about one agent, the policy and the drift.

`Reconcile` is the command, run again and again while the deployment changes: `Start` (the
world exports anything), `Scan`, `Load`, `Enrich`, `Report`, `Finish`; each error path ends with
status 1. The directory walks visit any set of files up to the limit, because they follow the
file system's order. The snapshot of the last run that succeeded becomes the baseline, which is
the use docs/ describe for the drift gate; `KeepFirst` is how a baseline comes into being.
No adapter of the repository sets deployment hints, or marks required roles as complete with
their permissions; library users and tests do, and the scenarios contain such graphs. A service
runs as an email or as an account referred to by its Terraform name. A pattern of a deployment
contract stands for the set of what `fnmatch` lets it match. The resource scope of a binding is
reported and decides nothing: it is left out.

### Pull request review

`PullRequest` is how the two commits of an event get to disk: validation, lookup, fetch, fetch of
`refs/pull/N/head`, verification, unpacking. A git command may fail at any step (`GitFails`),
and the branch may be pushed to before any step (`Push`).
`McpBinding` is the four passes that bind servers. `FlowAttribution` says of which agents and
tools a flow is, given what `Summarize` finds in a function; `FlowAnalysis` is that walk over an
abstract syntax of functions, `FlowExecution` the same programs executed, as a reference, and
`FlowReview` puts them into the review. The walk is recursive over statements; only these last
three modules, which no proof uses, declare recursive operators.
`AuthorityDelta` the comparison of effective authority and its classes; `Findings` the attack
paths, the rules that a pull request is decided on, configuration and fingerprints.

`FlowExecution` takes branches either way, enters a loop at most once, lets a `try` body raise
before its first statement or not at all, and runs a final branch after body or handler. It does
not follow what an interrupted or repeated body leaves in variables: into a final branch, or
into the next turn of a loop (`Unfollowed`). There the code does lose flows, since `flow.py:419-422`
starts the final branch from the environment *before* the body: of

    y = "const"
    try: y = x
    finally: sink(y)

no flow from `x` to the sink is found. `FlowsFound` says nothing of such flows; it does say that
what a final branch passes on without them, and what it assigns itself, is found.

The comparison indexes relationships by an id, a hash of agent, kind and name of the target, so
that the last of an id is compared and the others are not (`authority_delta.py:55-70`); `Indexes`
is every way of keeping one per id, as the order of files and declarations decides which it is.
Servers that adapters give to agents at once, those of a manifest among them, are bound from the
start (`Attached`), with the approval, guardrails and resources they declare. The trees carry
fields that only classes and reasons of the delta depend on: resources of tools and classes of
mutation and of network.

`Review` composes them: an action for each pass of `scan()` (`BindImported`,
`BindFastAgent`, `BindClients`, `AttachContext`, one `Summaries` step per round, `Attribute`,
`EvaluateRules`) for the base and then the head, `Compare`, `Gates`. What the adapters find in a
commit is an input, a tree. Which flows remain when there are more than the limit is any
choice of that many: the code cuts off a list whose order nothing depends on. Whether a
contract is violated (`PolicyGate`'s subject) is any Boolean.

`Suppressions` says which files of exceptions are valid, what they hide and until when, what a
baseline contains, and how `horustrace scan` ends. `MainBranch` goes on after a review that let
a pull request pass: the target branch is scanned before and after the merge (`ScanMain`) while
days pass (`DayPasses`), baselines are written (`RunBaseline`) and exceptions added by hand
(`AddException`). `--max-unresolved-authority` and `--exclude-source-context` are left out, as
are the statuses of exceptions in reports.

### The study

`StudyProtocol` is `validate_state`: the documents that are accepted together. `StudyTruth`
derives the reference of a case from its source: which declarations each of the script's
patterns recognises, the diagnostics, and which dimensions are complete. `StudyScoring` matches
a scanner's output with the reference, aggregates, and compares two reports.

`Study` is the process around them: maintainers commit documents at any time; the three
workflows check out the head, let a pool of workers take the cases in order (`Take`, `Hang`,
`WriteTruth`, `FetchToScan`, `ScanCase`), finish when all have returned, and push what they
wrote unless the branch has moved. One workflow runs at a time, and the study's branches are
one. A sparse checkout that fails and is repeated in full leaves no trace; a text contains a
name when it is in its set of mentions; ratios are in ten-thousandths, rounded half to even as
Python does. A file is a Python one, a notebook or another: the syntax tree is read of the first two,
decorated tools are searched in the text of the first alone, and the two searches recognise different
classes of MCP servers (`TreeServerKinds`, `TextServerKinds`: the one of the text needs something
before `MCP`). Tier C has identities and the roles declared with them, told apart by value and place.
The identities found in deployment files are given, and their own limit is left out. A
`git` command of a worker that exceeds its time is caught nowhere and makes the run fail after
its other cases; docs/research/real-world-agent-security-2026-methodology.md:452 promises that
timeouts are recorded separately, which holds for the scanner's own.

## 3. What is checked

| Run | Shows |
|---|---|
| `delegation` | for every delegation shape of three agents with every kind of reference: no reference is lost, approval of a delegated tool is not overstated at the end of a chain, results do not depend on scan order where names are unique and no agent refers to an alias that several agents share, the traversal implements `DelegatedAuthority` and ends |
| `delegation_order` (violation) | "results are independent of scan order" (comment at scanner.py:658-659) fails where two agents share a name |
| `gate` | with two open pull requests and stale checks: an agent that stays can never do what its first contract forbade without the present one forbidding it (`ContractRatchet`), up-to-date merges bring in no violation, and a new violation of unchanged authority is explained by a reported strengthening |
| `gate_glob` (violation) | with patterns `w?` and `w*` the ratchet fails: coverage of a pattern is decided on its text |
| `gate_evidence` (violation) | a contract on IAM roles is satisfied by an identity of which no role was seen, against docs/authority-contract.md:79 |
| `consolidation` | in every order of up to three files about two agents, files with several tools of one name among them: facts are kept, in particular a declared lack of approval, roles of identities, the source location and declared limits, and where one declaration hides another it is known which (`FactsKept`); instances are not conflated and no capability, approval or role is borrowed from another agent (`NotConflated`); the second pass is idle |
| `consolidation_contract` (violation) | a manifest policy that is only an Authority Contract is dropped if the source is found first, against the comment at scanner.py:621 |
| `intake` | over 10,554 initial repositories: a scan accepted as complete has analysed every supported file as what its name says, malformed configuration stops a scan unless a link gives it another type, no file is analysed twice, nothing else but a limit stops a scan, and the counters add up (`OutcomesExplained`) |
| `intake_alias` (violation) | README.md:339 fails for `agents.yaml -> horustrace.manifest.yaml`: the link sorts first and takes the manifest's real path, so the manifest is skipped (scanner.py:984) |
| `reconcile` | aligned, excessive, compliant and in violation are said only if they hold in every world the evidence allows; of an agent nothing but its own workloads and their bindings matters; claims made from the source are grounded in it; a verdict needs accepted evidence; and with the drift gate, over any number of runs, no role accumulates that is not required |
| `review` | over some ten thousand pull requests: the verdict is about the event's commits although the branch moves; `--strict` passes no skipped entry, no kept flow through an unknown call and no remote server of unknown authentication (`StrictMeansComplete`, a part of `PassesAreEarned`); gains in authority and weakened boundaries are reported as far as names tell tools and servers apart (`NoSilentGain`); every MCP server is bound or reported and no binding widens it; flows of executions are found with the exceptions below (`FlowsFound`); no new unapproved process tool, denied capability or flow to a process passes `--fail-on high`; a passing scan of the target branch hides nothing but what is accepted and still in time, and stays passing after the merge (`PassesAreEarned`); preparation ends |
| `study` | a report is about a cohort that the registered protocol allows, each case once and in order; a scanner is not charged for what the source does declare, where the truth is of the case's repository; a candidate that finds less shows it, and unscanned cases keep the release gates shut; no push takes back a commit; every workflow ends |

Every property has a mutant in `PROJECT.json`: a plausible bug in the modelled code
(definitions marked "Wrong:") under which TLC finds the property violated.

Properties have exceptions where the code has limits; each is written into the property.
`FactsKept` leaves out tools that are an unresolved placeholder in some file: enrichment drops
what a manifest declared of those (`repository_adk.py:1303`). It says of MCP servers of one name
that the one found first stays as it is, of delegates that the last file's list replaces the
earlier ones (enrichment only adds to it), and of what the graph knows about an identity that it
reaches the agent if one provider has that name; of two, a manifest's `generic` among them, the
one found last hides the other (`scanner.py:925`). `NotConflated` lets agents share only what
some file declares for the graph. `McpAccountedFor` excepts a filter
that leaves nothing, which reads as no filter afterwards. `UniqueSameInAnyOrder` supposes unique names and `DefiniteReferences`: each reference
is to a name, or to an alias of one agent alone. Aliases themselves need not be unique: all agents of
a file have its stem and its directory as aliases, and may, as long as nobody refers to them by it.
`NoReferenceLost` does not ask for a diagnostic about a reference to the agent itself or a second
one to the same agent; there is none.

`NoSilentGain` speaks of names. Where an agent has several tools or servers of one name, one of
them is compared at base and one at head; what all of them gain is reported, whichever they are. What
only another one gains is lost, and `diff` does not show it (hazard `authority_delta.py:57`).
`FlowsFound` is about executions that nest no more calls than there are rounds, about scans whose
list of flows was not cut off at `MAX_FLOW_PATHS`, and not about what passes through variables
that a `try` body leaves for its final branch or a loop's turn for the next. Neither flows dropped
at that limit (`flow.py:808`) nor summaries stopped at their cap make an analysis incomplete, so
`--strict` passes them unseen. `GateCatches` compares by what fingerprints tell apart: a second
tool of the same kind in the same file passes; nor does it see flows that were cut off.
`NoViolationSlips` holds of merges whose check was of the present base; that a stale check lets a
violation in is possible, and only `ContractRatchet` holds of any merge.

`ScoresAreFair` supposes that the truth under a case's identifier is of the case's repository. The
scripts compare identifiers alone (`real_world_agent_security_study.py:392`), and a cohort that is
committed later may give one to another repository: the documents of the run contain such a
cohort (`Exchanged` in `MCStudy`), and without the supposition TLC finds a scanner charged for
what its source declares. It supposes further that all files could be read and, for agents,
servers and edges, whose completeness does not ask, that none was cut off by a limit.
`LossVisible` is about a candidate that is worse in some case and better in none, where both
reports list the same cases with references of one size.

**Bounds.** Delegation: three agents give cycles of length one to three, diamonds and
chains; a fourth adds no kind of edge. Gate: one agent and two pull requests, since a
merge race needs two; contracts and authorities are chosen so that each kind of clause can
be weakened (`MCContracts`), and the number of merges is unbounded. Consolidation: three
files of seven (two source files, four manifests, one deployment file), because merging is pairwise and order matters from two files on; the third
lets a merged agent be merged again. Intake: six paths (a link, a directory with a file and a
link to a directory, two more files), so that a link sorts before or after what it leads to;
five entries, three candidates and two diagnostics are few enough that every limit is
exceeded by some repository. Reconcile: two agents, two accounts in four ways of writing,
three roles of which one includes another, two bindings at a time, a walk limit of two files;
the number of runs is unbounded. Review: three commits and a tag for the ways to come by
files; small repositories that exercise one part of a scan each (`MCReview` lists them), two
agents, three summary rounds for functions that call each other, four flows so that the limit
is exceeded; on the target branch two days, baselines of either commit and one exception written by
hand, which may be valid, too wide or have an id that is taken. Study: three cases of three
frameworks, four candidates, two workers, two scanners; the applications differ from one another in one way the reference may be incomplete,
and faults are one kind at a time. The proofs below have no bounds.

**Fairness.** `Delegation` is a function that waits for nothing, so it takes steps until it
returns: `WF_vars(Next)`, with the state after the return stuttering. `Review` assumes weak
fairness of the preparation of files alone: every git command has a timeout, so each step
returns; pushes are not fair, and the scan needs none for its safety. `Study` assumes weak
fairness of a workflow's steps: each command of a worker has a time limit and the runner
executes step after step; `Fairness` there is that condition with what enables a step written
out. Nobody is obliged to open, check or merge a pull request, to start `reconcile` or to commit
to the study. `Consolidation`, `Intake` and `MainBranch` end, hence `CHECK_DEADLOCK FALSE` there.

## 4. What is proved

The constants are unbounded: any agent list, any contract, any set of pull requests, any
deployment.

`Delegation_proofs`:
- `TypeCorrect`: Spec => []TypeOK.
- `ApprovalSound` and `ReferencesAccountedFor`: two safety invariants, by way of the
  inductive invariant `IInv`. Neither is inductive by itself: what a delegated tool says
  about the names reachable from the child needs that `gathered` is what was absorbed from
  `visited`, that `visited` and `pending` together are closed under children and inside
  `Reach`, that the recorded authority is that of the original tools, and that every edge
  is in `todo`, under way, or served.
- `Refinement`: `Delegation` implements `DelegatedAuthority`. When `pending` is empty the
  visited names, less the parent's, are closed under children, hence all of `Reach`;
  `FinishEdge` is then `Grant`, every other step stutters.
- `OrderDoesNotMatter` (`UniqueSameInAnyOrder`). Of one run: at the return every edge is
  served, and a served edge has the tool of the reachable authority, so what is delivered is a
  function of the agent list (`Due`, `AllDelivered`). Of two lists: an order is a permutation
  `p`, onto because the agents are finitely many (`OrdersOnto`, by pigeonhole), and `Relisted`
  lists agree on every lookup that has one candidate at most, which is what `DefiniteReferences`
  gives for the references that are made. Names, aliases, children, the
  least closed set of reachable names, recorded authority and tools follow one after the other
  (`SameNamed` to `SameEdge`), each row of one list being a row of the other (`SameOutcome`).

`PolicyGate_proofs`:
- `ViolationsKept`: a contract change without a reported weakening keeps every violation,
  under `CoverageSound` (a pattern that matches the text of another matches whatever the
  other matches) and `UniqueServers` (one MCP entry per server). Both are needed: run
  `gate_glob` shows what happens without the first; evaluation takes the first entry of a
  server and the delta the last.
- `GateTypeCorrect`.
- `NoSlip`: with `--strict`, up-to-date merges bring in no violation; no assumption on
  patterns. The inductive invariant says what a passed check is worth: `base` and `head` of
  every passed pull request have no introduced violation.
- `RatchetHolds`: with `--strict` and the two assumptions, `ContractRatchet`. The invariant
  relates the *checked* base to main for agents that stayed: the contract in a merge is
  either main's, or the head's, and in the second case main's is still the fork's.
- `NewBlame`: `NewBlameExplained` under the same two assumptions.

`Consolidation_proofs`, for every set of scans, any number of files, agents, tools and identities,
under `RepositoriesAssumption` (the agents of a file refer to tools and identities of it, and
share only identities that the file gives the graph; tools of one file may have one name, as
those of a manifest's agents do):
- `FactsHold` (`FactsKept`) and `NotConflatedHolds` (`NotConflated`), by `Inv`. The properties
  speak of the end and of the files; in between, agents are taken from one list, merged in place
  into those of another, enriched and linked. `Facts` says what is true of an agent that stands
  for a set `P` of declarations and a set `Q` of resolved agents, one conjunct for each kind of fact,
  from both sides: all they say is kept, and nothing else is there. `PhaseInv` says which sets these are:
  an agent that waits is as its adapter made it and stands for one declaration, at `pos`;
  a consolidated one stands for all declarations of its key that were taken so far (`Mine`) and, from
  the enrichment on, for all resolved agents of its name.
- Objects change under agents that refer to them, which is why `Facts` of one agent need an
  argument when another is merged (`FactsElsewhere`). A tool's address shows the declaration it
  was copied for (`ToolsAre`), so no other agent has it; this is where `deepcopy` in
  `_merge` counts. Identities are shared: `Grown` says that one is never renamed or loses
  roles, and gains none unless the graph knows its name.
- `TypeHolds` (`TypeOK`), and `SecondPassHolds` (`SecondPassIdle`), an action property: after
  the first consolidation keys differ, and enrichment adds a name only where no agent has it.
- Each loop (`TakeTool`, `TakeIdentity`, `TakeGlobal`, `TakeServer`, `TakeResolved`,
  `LinkIdentity`) is reasoned about by a function from the number of elements seen to what it has
  come to (`ToolSteps` and its like); what holds of 0 and is kept by each step holds at the end
  (`Steps0`, by well-foundedness of the naturals).
`ContractKept` is false, as run `consolidation_contract` shows; `LimitsAre` in `Facts` is what is true.

`Intake_proofs`, for every set of repositories and all limits:
- `ScanTypeCorrect`, in particular that no path outside the root is ever listed or analysed.
- `CompleteScanDropsNothing` (`NothingSilent`) and `ConfigurationFailsClosed`
  (`AgreedMalformedStops`), by the invariant `IInv`: of every directory listed, what is no
  longer in `entries` is in the stack, listed, a candidate or rightly left out (`Walked`);
  when the stack is empty the listed directories are closed under visible subdirectories
  (`AllVisibleListed`), so all supported files are candidates (`Collected`); a candidate out
  of `todo` is in `seen` (`Taken`); and what is in `seen` was analysed, excused or reported
  and was no malformed configuration (`Judged`). The last needs `AliasesAgree`: run
  `intake_alias` shows what happens without it.
- `AnalysedOnce` (`OncePerFile`), from `analysed` being inside `seen`.
- `EndsAreExplained` (`OutcomesExplained`). `OutcomeInv` relates the counters to sets of paths.
  What the walk has looked at is what lies in listed directories and is no longer in `entries`
  (`Looked`); a directory is listed once, as it is an entry of one directory (`Order`);
  directories that were looked at are remembered and every candidate was looked at (`Gathered`);
  and the counters are cardinalities of such sets, that of all files considered where there are
  no links or unlistable directories (`Tallied`). A step looks at one path (`LookLooksAtOne`) or
  none (`ListLooksAtNothing`); at the end all files were met (`AllMet`).

`Reconcile_proofs`, for every set of sources (whose agents are agents and whose deployments are
what an evidence file can say: `ScenariosAssumption`), all walk limits and any number of runs.
The first half is about operators: a principal holds in every world what is reported without
a condition, and exactly what is reported where nothing is unresolved (`HeldInWorld`,
`AgentInWorld`), so the verdict about one agent (`VerdictSound`), about one workload
(`PolicySound`) and about two snapshots (`NotRegressed`) is right whatever led to it. The
second is the invariant `IInv`, needed because the properties are about a report and the report
was built some steps earlier from an agent list that two steps changed: the report is the one
of the agents, the evidence and the baseline of this run (`Reported`); the gates a run has
passed are true of what it has read (`Passed`); a role that only the deployment shows has the
file, the service, the account and the workload that show it (`Grounded`).
- `ReconcileTypeCorrect`, `VerdictRestsOnEvidence` (`VerdictNeedsEvidence`).
- `VerdictIsTrue` (`VerdictTrueInEveryWorld`) and `PolicyIsTrue` (`PolicyTrueInEveryWorld`).
- `SourceClaimsAreGrounded` (`SourceClaimsGrounded`).
- `DriftDoesNotAccumulate` (`NoDriftAccumulates`), an action property.
- `OnlyOwnEvidenceCounts` (`NothingElseMatters`). What is reconciled of an agent is found by
  filtering the agent list, the workloads and the bindings by names and accounts; the proof is
  that each such filter passes the same things when all others are taken away beforehand
  (`OwnRelationships`, `OwnAuthority`, `OwnReconciliation`). The property takes other agents
  away by giving them a name that no agent has (`Nobody`), which leaves positions as they are;
  that agents are listed at positions `1..m` is a part of `IInv` for its sake.

`Review_proofs`, for every event, local repository, number of commits and sequence of pushes,
for whatever trees the adapters find, and whatever `Summarize` computes:
- `EventIsScanned` (`ScansTheEvent` of the preparation alone). By `GitInv`, both revisions are
  full object names from the first step on, and such a name resolves to one commit
  (`ResolvedIsPeeled`). `ReviewIsOfTheEvent` says the same of the whole specification.
- `TypesHold` (`MainTypeOK`), `GainsAreReported` (`NoSilentGain`, for every choice that the
  index makes among relationships of one id), `ServersAreAccountedFor`
  (`McpAccountedFor`) and `GateIsSound` (`GateCatches`), by `ReviewInv`. The properties are about
  the report, which is written long after the passes that it rests on, and the scans
  of the two revisions follow one another: so `Phase` says where each revision's scan stands, and
  `Progress` what it has come to there, as a function of that revision's tree. When the report
  is written all of it is given by the two trees, and the rest is about operators:
  the lemmas before show that the classes of authority and of boundaries leave no gain out, that
  each of the four binding passes keeps every declaration bound or unresolved and narrows
  filters, and that a finding that is new by fingerprint and severity is introduced or worsened.
- `PassesAreHonest` (`PassesAreEarned`), by `MainInv`: what is recorded of a scan of the target
  branch is the status that its findings and the files of that day come to, of a review that
  passed, and a file holds exceptions with a date. The three parts about hidden findings
  come down to the operators of `Suppressions`.

The first part of the module holds those lemmas, for all trees and all files of exceptions, and three results of
its own: `OnlyAcceptedIsHidden`, `ReviewedStaysClean` (with `Introduced` and `Worsened`, the
review's comparison: two findings of one fingerprint are hidden by the same exceptions,
`MatchesByFingerprint`) and `BaselineHides`, however rules are regraded after it was written.

`Study_proofs`, for any documents that maintainers commit, any applications and scans, any number
of cases, workers and faults:
- `PushesTakeNothingBack` (`NoCommitOverwritten`). `IInv` follows what a workflow has written
  since its checkout (`Working`): truths or nothing while cases are under way, its `OwnPart` of
  the checkout at the push, when no worker can write any more and the directory validates; the
  baseline's workflow validates before it works, and `BaselineNotValidated` carries that over.
- `StudyTypeHolds` (`TypeOK`), `ProtocolIsFollowed` (`ReportsFollowProtocol`), `ScoringIsFair`
  (`ScoresAreFair`) and `LossesShow` (`NoLossHidden`), by `StudyInv`. They are about a report, and
  a report is computed from results that came in over many steps, in any order, against a
  directory that was checked out before them. So `StudyInv` says that a run that scans has a
  locked base that validates, and that its results are one of each case that is done and of no
  other, each the score of that case (`Pool`); when all are done there is one per case
  (`PoolComplete`), and sorting them gives the cohort's order (`InOrderIs`). It also says of
  every truth that it was written for a case of a cohort without duplicates (`BuiltTruths`):
  commits of maintainers may change the cohort between the truth and the scan, and a score is
  fair only against the source of the case that is scanned, hence the precondition of `ScoresAreFair`.

`StudyScores_proofs` holds the lemmas about operators, for every list, application and scan: sums
(`SumMonotone`, `SumAdds`); ratios of four digits, rounded to the nearest, of two the even one (`RatioIsNear`, `RatioFalls`,
`RatioReaches`); the order that
an irreflexive total order gives a finite set (`OrderedIsAll`); that a pass of the matching, the
second one after the first included, gives a prediction to one fact and no fact two (`PassAnswers`,
`MatchingIs`), so that no count is negative; which facts a reference has (`TogetherIs`,
`ReferenceIs`) and that a complete one has every declaration (`GroupsAreOfTrees`, `AllIsRead`).
Two results of it carry `LossesShow`: a candidate that finds less in some dimension of some
case, and more in none, has a lower recall there, or failed in a case that had not (`LossShows`);
and the gates, which are about the whole of a framework, rest on all of its cases (`GatesAreOfAll`).

What is assumed of the constants is in `Study`. `SourcesAssumption`: declarations have names, tools
no variable. `NumbersAssumption` and `LimitsAssumption`: limits are numbers. `WorldsAssumption`: the
directory a study starts from holds what its workflows write. Two conditions more are part of the properties and not assumptions:
`LossVisible` is about references of 10000 facts of a dimension at most, as one of more is below
the fourth digit, and the recall behind the gates is reached after rounding.

Two things about the tools matter to who extends this. tlapm reads `UNION A \cup B` as
`UNION (A \cup B)`, TLC as `(UNION A) \cup B`: the modules write the parentheses wherever
`UNION` is not the last operand. And tlapm knows nothing about `SelectSeq`, which is recursive:
the modules that are proved about filter by positions.

Only model-checked: liveness (`Terminates`, `PreparationEnds`, `RunsEnd`), which is out of the
prover's reach; `FlowsFound`, which is about what recursive operators compute; and the violation
runs. Every other invariant and action property of the passing runs is a theorem.

## 5. What is not modelled, and the plan

Left out for good: adapters and flow patterns (pattern matching over syntax trees; what they
find is an input of the models), parsing, formatting, report documents, the sequential corpus
scripts. Partly left out: of the rules those that a pull request is not decided on, of Terraform every resource but members, accounts and
Cloud Run services, of `Intake` the diagnostics of later stages, of deployment evidence the
scope of a binding, which decides nothing. `PROJECT.json` says for each component what is
modelled, and for each hazard without a property why there is none.

Next, in this order:
1. `Intake` extended by the diagnostics of later stages.
2. In `Consolidation`: metadata of tools (required roles), unbound tools and workflow nodes.
