--------------------------------- MODULE Study --------------------------------
(***************************************************************************)
(* The study from its directory in the repository to the comparison of two *)
(* scanners: maintainers commit documents, and the three workflows of      *)
(* .github/workflows/real-world-agent-security-*.yml each check out a      *)
(* commit, run the scripts on it with a pool of workers, and (truth and    *)
(* baseline) push what they wrote if nobody pushed in the meantime.        *)
(*                                                                         *)
(* Every case is worked on by one worker: it fetches the pinned source     *)
(* with git and then reads it (truth) or runs the scanner twice over it.   *)
(* A git command that exceeds its time raises in the worker; a scanner     *)
(* that does becomes a result.  A worker that raised makes the run fail    *)
(* once the others are done.                                               *)
(*                                                                         *)
(* Simplifications: one workflow runs at a time; the work of one command   *)
(* is one step; the branches of the study (one for the truth, one for the  *)
(* baseline, then the main branch) are one; commits are never merged; a    *)
(* sparse checkout that fails is given up for a full one and leaves no     *)
(* trace.                                                                  *)
(***************************************************************************)
EXTENDS StudyScoring

CONSTANTS
  Worlds,    \* [tree, docs, kinds, apps, scans, faults]: a study directory, which documents
             \* maintainers may still commit (a field of Documents), which workflows they
             \* dispatch, the application of each repository (a key of Apps), what each scanner
             \* reports of it (a key of Scans), and what may go wrong: an error of git,
             \* "git hangs", "scan fails", "scan hangs"
  Documents, \* per kind of world, [protocol, candidates, cohort] of sets
  Apps,      \* the applications
  Scans,     \* what a scanner may report
  Frozen,    \* SCANNER_SHA of the baseline's workflow
  Scanners,  \* the scanners that may be measured
  Workers    \* workers of a pool

TreeFields == {"protocol", "candidates", "cohort", "truth", "baseline"}
CohortFields == {"header", "scanner", "influence", "frozen", "locked", "cases", "tierB", "tierC",
                 "exceptions", "shortfall"}

(***************************************************************************)
(* What is supposed of the constants.                                      *)
(***************************************************************************)
IsName(name) == name \in Nat \X Nat

\* A declaration has a name; a tool is not bound to a variable, and a node of a graph has none
\* but its name.
IsDeclaration(d) ==
  /\ IsName(d.name) /\ Norm(d.name) # Norm(NoName) /\ IsName(d.var) /\ IsName(d.owner)
  /\ d.line \in Nat
  /\ d.kind = "tool" => d.var = NoName
  /\ d.kind = "node" => d.var \in {NoName, d.name}
  /\ IsList(d.tools) /\ \A t \in ToSet(d.tools) : IsName(t) /\ Norm(t) # Norm(NoName)
  /\ IsList(d.subs)

IsFile(f) ==
  /\ f.size \in Nat
  /\ IsList(f.decls) /\ \A d \in ToSet(f.decls) : IsDeclaration(d)
  /\ IsList(f.ghosts) /\ \A g \in ToSet(f.ghosts) : IsName(g.name) /\ g.line \in Nat

IsApp(app) == IsList(app.files) /\ \A f \in ToSet(app.files) : IsFile(f)

IsScan(scan) == IsList(scan.nodes) /\ IsList(scan.edges) /\ IsList(scan.relations)

ASSUME SourcesAssumption ==
  /\ \A a \in DOMAIN Apps : IsApp(Apps[a])
  /\ \A s \in DOMAIN Scans : IsScan(Scans[s])

ASSUME NumbersAssumption == Workers \in Nat /\ Registered.target \in Nat /\ None \notin Nat

\* The cohorts that a world may have, and the cases of them.
CohortsOf(w) == {w.tree.cohort} \cup Documents[w.docs].cohort
CaseLists(w) == {c.cases : c \in CohortsOf(w)}

\* No case is there twice, as a cohort has to be.
OneEach(cases) == DistinctBy(cases, "id") /\ DistinctBy(cases, "repo")

IsCase(w, case) ==
  /\ case.truth \in DOMAIN w.tree.truth
  /\ case.repo \in DOMAIN w.apps /\ w.apps[case.repo] \in DOMAIN Apps
  /\ \A s \in Scanners \cup {Frozen} : w.scans[s][case.repo] \in DOMAIN Scans

SourceOf(w, case) == Apps[w.apps[case.repo]]

Errors == {"none", "application_path_missing", "fetch_failed", "checkout_failed",
           "frozen_sha_mismatch"}

\* What the workflow of the truth writes of one of the cases.
BuiltOf(w, cases, t) ==
  \E case \in ToSet(cases), error \in Errors, inB, inC \in BOOLEAN :
    t = BuildTruth(case, SourceOf(w, case), error, inB, inC)

IsCounts(n) ==
  /\ {n.truth, n.tp, n.fn, n.fp, n.precisionTp, n.unadjudicated} \subseteq Nat
  /\ n.truth = n.tp + n.fn

IsResult(c) == c.status = "success" => \A d \in DOMAIN c.comparisons : IsCounts(c.comparisons[d])

\* What the workflow of the baseline writes.
IsBaseline(r) ==
  /\ r = Aggregate(r.cases, Frozen, "baseline")
  /\ IsList(r.cases) /\ Len(r.cases) = Registered.target /\ DistinctBy(r.cases, "id")
  /\ \A c \in ToSet(r.cases) : IsResult(c)

\* A study directory holds what its workflows wrote.
ASSUME WorldsAssumption ==
  \A w \in Worlds :
    /\ DOMAIN w.tree = TreeFields
    /\ \A c \in CohortsOf(w) : DOMAIN c = CohortFields
    /\ \A cases \in CaseLists(w) : IsList(cases) /\ \A case \in ToSet(cases) : IsCase(w, case)
    /\ \A f \in DOMAIN w.tree.truth : w.tree.truth[f] # None =>
         \E cases \in CaseLists(w) : OneEach(cases) /\ BuiltOf(w, cases, w.tree.truth[f])
    /\ w.tree.baseline # None => IsBaseline(w.tree.baseline)

VARIABLES
  world,
  tree,        \* [protocol, candidates, cohort, truth, baseline]: the branch's head
  run,         \* the workflow that is under way
  comparison   \* the one that the last workflow made, if it made one

vars == <<world, tree, run, comparison>>

\* The states of a case in a pool.
CaseStates == {"queued", "fetching", "scanning", "raised", "done"}

Idle == [kind |-> None]

Kinds == {"truth", "baseline", "postfix"}
Steps == {"check", "work", "push"}

Init ==
  /\ world \in Worlds
  /\ tree = world.tree
  /\ run = Idle
  /\ comparison = None

-----------------------------------------------------------------------------
(* Maintainers *)

CommitProtocol ==
  /\ \E p \in Documents[world.docs].protocol : tree' = [tree EXCEPT !.protocol = p]
  /\ UNCHANGED <<world, run, comparison>>

CommitCandidates ==
  /\ \E c \in Documents[world.docs].candidates : tree' = [tree EXCEPT !.candidates = c]
  /\ UNCHANGED <<world, run, comparison>>

CommitCohort ==
  /\ \E c \in Documents[world.docs].cohort : tree' = [tree EXCEPT !.cohort = c]
  /\ UNCHANGED <<world, run, comparison>>

-----------------------------------------------------------------------------
(* Workflows *)

\* The workflow checks out the head; files written by its steps are its own until pushed.
Start(kind, scanner) ==
  /\ run = Idle /\ kind \in world.kinds
  /\ run' = [kind |-> kind, step |-> "check", scanner |-> scanner, base |-> tree, work |-> tree,
             cases |-> <<>>, results |-> <<>>]
  /\ comparison' = None
  /\ UNCHANGED <<world, tree>>

StartTruth == Start("truth", None)
StartBaseline == Start("baseline", Frozen)
StartPostfix == \E s \in Scanners : Start("postfix", s)

Fail == run' = Idle

\* A push of another commit cancels a workflow, and so does its time limit.
Cancel ==
  /\ run # Idle
  /\ Fail
  /\ UNCHANGED <<world, tree, comparison>>

\* Wrong: only the flags of the cohort are looked at.
LockedStateByFlags(kind, t, scanner) ==
  /\ t.cohort.frozen /\ t.cohort.locked
  /\ kind = "baseline" => t.cohort.scanner = scanner

\* What the step "Validate locked study state" asserts.
LockedState(kind, t, scanner) ==
  /\ ValidState(t)
  /\ t.cohort.frozen /\ t.cohort.locked
  /\ kind = "baseline" => t.cohort.scanner = scanner
  /\ kind = "postfix" => Len(t.cohort.cases) = Registered.target

\* main of the execute script asks the same again, and that each truth was reviewed
\* before the scanner's output was seen.
Executable(kind, t, scanner) ==
  /\ t.cohort.frozen /\ t.cohort.locked
  /\ kind = "baseline" => t.cohort.scanner = scanner
  /\ \A case \in ToSet(t.cohort.cases) :
       /\ t.truth[case.truth] # None
       /\ t.truth[case.truth].reviewed /\ ~t.truth[case.truth].outputSeen

\* The workflow of the truth validates after it has written, the two others before.
Begin ==
  /\ run # Idle /\ run.step = "check"
  /\ IF run.kind = "truth" \/ (LockedState(run.kind, run.base, run.scanner)
                               /\ Executable(run.kind, run.base, run.scanner))
     THEN run' = [run EXCEPT !.step = "work",
                             !.cases = [i \in DOMAIN run.base.cohort.cases |-> "queued"]]
     ELSE Fail
  /\ UNCHANGED <<world, tree, comparison>>

Busy == {i \in DOMAIN run.cases : run.cases[i] \in {"fetching", "scanning"}}
Case(i) == run.base.cohort.cases[i]
App(i) == Apps[world.apps[Case(i).repo]]

\* A free worker takes the next case.
Take(i) ==
  /\ run # Idle /\ run.step = "work" /\ i \in DOMAIN run.cases
  /\ run.cases[i] = "queued" /\ \A j \in 1..(i - 1) : run.cases[j] # "queued"
  /\ Cardinality(Busy) < Workers
  /\ run' = [run EXCEPT !.cases[i] = "fetching"]
  /\ UNCHANGED <<world, tree, comparison>>

\* fetch_case: a sparse checkout that fails is given up for a full one; every other git
\* command that fails ends the fetch with an error.
FetchErrors(i) ==
       {IF App(i).found THEN "none" ELSE "application_path_missing"}
  \cup (world.faults \cap {"fetch_failed", "checkout_failed", "frozen_sha_mismatch"})

\* A git command exceeds its time: TimeoutExpired is caught nowhere.
Hang(i) ==
  /\ run # Idle /\ i \in DOMAIN run.cases /\ run.cases[i] = "fetching"
  /\ "git hangs" \in world.faults
  /\ run' = [run EXCEPT !.cases[i] = "raised"]
  /\ UNCHANGED <<world, tree, comparison>>

Included(t) == {c \in ToSet(t.candidates.entries) : c.decision = "include"}

\* one(case) of generate: the truth is written under the case's name, whatever there was.
WriteTruth(i) ==
  /\ run # Idle /\ run.kind = "truth" /\ i \in DOMAIN run.cases /\ run.cases[i] = "fetching"
  /\ \E error \in FetchErrors(i) :
       IF Case(i).repo \in {c.repo : c \in Included(run.base)}
       THEN run' = [run EXCEPT
                      !.cases[i] = "done",
                      !.work.truth[Case(i).id] =
                         BuildTruth(Case(i), App(i), error,
                                    Case(i).id \in ToSet(run.base.cohort.tierB),
                                    Case(i).id \in ToSet(run.base.cohort.tierC))]
       ELSE run' = [run EXCEPT !.cases[i] = "raised"]
  /\ UNCHANGED <<world, tree, comparison>>

Answer(i, result) == [run EXCEPT !.cases[i] = "done", !.results = Append(@, result)]

\* scan_one up to the scanner
FetchToScan(i) ==
  /\ run # Idle /\ run.kind # "truth" /\ i \in DOMAIN run.cases /\ run.cases[i] = "fetching"
  /\ \E error \in FetchErrors(i) :
       run' = IF error = "none" THEN [run EXCEPT !.cases[i] = "scanning"]
              ELSE Answer(i, Failed(Case(i), "fetch_error"))
  /\ UNCHANGED <<world, tree, comparison>>

\* The scan and the security graph, each of which may hang or give no document.
ScanCase(i) ==
  /\ run # Idle /\ i \in DOMAIN run.cases /\ run.cases[i] = "scanning"
  /\ \/ run' = Answer(i, Scored(Case(i), run.base.truth[Case(i).truth],
                                Scans[world.scans[run.scanner][Case(i).repo]]))
     \/ "scan hangs" \in world.faults /\ run' = Answer(i, Failed(Case(i), "timeout"))
     \/ "scan fails" \in world.faults /\ run' = Answer(i, Failed(Case(i), "scanner_error"))
  /\ UNCHANGED <<world, tree, comparison>>

\* Wrong: a worker that raised is waited for.
AllDone == \A i \in DOMAIN run.cases : run.cases[i] = "done"

AllReturned == \A i \in DOMAIN run.cases : run.cases[i] \in {"done", "raised"}
Raised == \E i \in DOMAIN run.cases : run.cases[i] = "raised"

\* The results in the order of the cohort, whatever order they came in.
InOrder(results, cases) ==
  LET At(k) == Max({i \in DOMAIN cases : cases[i].id = results[k].id})
      sooner == {p \in (DOMAIN results) \X (DOMAIN results) :
                   At(p[1]) < At(p[2]) \/ (At(p[1]) = At(p[2]) /\ p[1] < p[2])}
      order == Ordered(DOMAIN results, sooner)
  IN [n \in DOMAIN results |-> results[order[n]]]

Report == Aggregate(InOrder(run.results, run.base.cohort.cases), run.scanner, run.kind)

\* generate locks the cohort when every truth is written; the commit is made if the
\* directory validates.
FinishTruth ==
  /\ run # Idle /\ run.kind = "truth" /\ run.step = "work" /\ AllReturned
  /\ LET work == [run.work EXCEPT !.cohort.locked = TRUE] IN
     IF ~Raised /\ ValidState(work)
     THEN run' = [run EXCEPT !.step = "push", !.work = work]
     ELSE Fail
  /\ UNCHANGED <<world, tree, comparison>>

FinishBaseline ==
  /\ run # Idle /\ run.kind = "baseline" /\ run.step = "work" /\ AllReturned
  /\ IF Raised THEN Fail
     ELSE run' = [run EXCEPT !.step = "push", !.work.baseline = Report]
  /\ UNCHANGED <<world, tree, comparison>>

\* The candidate's report is compared with the baseline of the same commit and not
\* committed.
FinishPostfix ==
  /\ run # Idle /\ run.kind = "postfix" /\ run.step = "work" /\ AllReturned
  /\ Fail
  /\ IF Raised \/ run.base.baseline = None THEN UNCHANGED comparison
     ELSE IF ~Comparable(run.base.baseline, Report) THEN UNCHANGED comparison
     ELSE comparison' = [base |-> run.base, candidate |-> Report,
                         result |-> Compare(run.base.baseline, Report)]
  /\ UNCHANGED <<world, tree>>

\* Wrong: git push --force.
PushForced ==
  /\ run # Idle /\ run.step = "push"
  /\ tree' = run.work
  /\ Fail
  /\ UNCHANGED <<world, comparison>>

\* git push is rejected when the branch has moved.
Push ==
  /\ run # Idle /\ run.step = "push"
  /\ IF tree = run.base THEN tree' = run.work ELSE UNCHANGED tree
  /\ Fail
  /\ UNCHANGED <<world, comparison>>

Worker ==
  /\ run # Idle
  /\ \E i \in DOMAIN run.cases :
       Take(i) \/ Hang(i) \/ WriteTruth(i) \/ FetchToScan(i) \/ ScanCase(i)

Workflow == Begin \/ Worker \/ FinishTruth \/ FinishBaseline \/ FinishPostfix \/ Push

Next ==
  \/ CommitProtocol \/ CommitCandidates \/ CommitCohort
  \/ StartTruth \/ StartBaseline \/ StartPostfix
  \/ Cancel
  \/ Workflow

\* When a workflow can take a step.
Ready ==
  run # Idle /\ \/ run.step \in {"check", "push"}
                \/ AllReturned
                \/ \E i \in DOMAIN run.cases : run.cases[i] \in {"fetching", "scanning"}
                \/ (\E i \in DOMAIN run.cases : run.cases[i] = "queued") /\ Cardinality(Busy) < Workers

\* Every command of a worker has a time limit and the runner executes the steps of a
\* workflow one after the other: this is WF_vars(Workflow).  What enables a step is written
\* out, and any change of run counts: besides Workflow's steps that is Cancel and the starts,
\* after or before which run = Idle and nothing is ready.  TLC evaluates this form much faster.
Fairness == []<>~Ready \/ []<><<run' # run>>_vars

Spec == Init /\ [][Next]_vars /\ Fairness

-----------------------------------------------------------------------------
(* Properties *)

Reports == {r \in {tree.baseline} : r # None}
           \cup {c.candidate : c \in {c \in {comparison} : c # None}}

\* The types, and that no count of a report is negative: a prediction answers one fact only.
TypeOK ==
  /\ \A t \in {tree} \cup (IF run = Idle THEN {} ELSE {run.base, run.work}) :
       DOMAIN t = TreeFields
  /\ run # Idle =>
       /\ run.kind \in Kinds /\ run.step \in Steps /\ run.scanner \in Scanners \cup {Frozen, None}
       /\ Range(run.cases) \subseteq CaseStates
       /\ Cardinality(Busy) <= Workers
       /\ Len(run.results) <= Len(run.cases)
  /\ \A r \in Reports, d \in AllDims :
       /\ r.metrics[d].fn >= 0 /\ r.metrics[d].fp >= 0 /\ r.metrics[d].unadjudicated >= 0
       /\ r.metrics[d].truth = r.metrics[d].tp + r.metrics[d].fn

\* Whatever maintainers commit while workflows run, a report is about a cohort that the
\* protocol allows: the registered number of different cases, each once and in the cohort's
\* order although the pool finishes them in any order, no framework above its maximum, and
\* every case of tier B with its scored authority.  The baseline is of the frozen scanner.
ReportsFollowProtocol ==
  /\ \A r \in Reports :
       /\ r.cohortCases = Registered.target
       /\ DistinctBy(r.cases, "id")
       /\ r.successful + Cardinality(r.failures) = r.cohortCases
  /\ tree.baseline # None => tree.baseline.scanner = Frozen
  /\ comparison # None =>
       LET cohort == comparison.base.cohort IN
       /\ [i \in DOMAIN cohort.cases |-> cohort.cases[i].id]
            = [i \in DOMAIN cohort.cases |-> comparison.candidate.cases[i].id]
       /\ \A s \in ToSet(comparison.base.protocol.strata) : InStratum(cohort.cases, s.id) <= s.max
       /\ \A c \in ToSet(comparison.candidate.cases) :
            c.status = "success" /\ c.id \in ToSet(cohort.tierB)
              => "effective_authority" \in DOMAIN c.comparisons

\* What the source of an application declares, read or not: the letters of each
\* declaration's names.
DeclaredIn(app, dim) ==
  LET files == app.files
      All(kinds) == UNION {{files[i].decls[k] : k \in Of(files[i], kinds)} : i \in DOMAIN files}
      Letters(d) == {Norm(d.name), Norm(d.var)} \ {Norm(NoName)}
  IN CASE dim = "agent_entities" -> {Letters(d) : d \in All(AgentKinds \cup {"node"})}
       [] dim = "tools" -> {Letters(d) : d \in All({"tool"})}
                           \cup {{Norm(t)} : t \in UNION {ToSet(d.tools) : d \in All({"agent"})}}
       [] OTHER -> {Letters(d) : d \in All(TreeServerKinds)}

Distinguishable(groups) == \A a, b \in groups : a = b \/ a \cap b = {}

Named(groups, scan, dim) ==
  {g \in groups : \E k \in PredictedOf(scan, dim) : Norm(scan.nodes[k].name) \in g}

\* No scanner is charged with a false positive for something the source declares: what it
\* reports beyond the reference counts as wrong only where the reference had the whole
\* source to read.  And what it reports under its name is found.  This supposes that no name
\* is an alias of something else, for other dimensions than tools that the source was within
\* the limits and could be read, as complete_agents does not ask for that, and that the truth
\* under the case's identifier is of the case's repository: a cohort that is committed later
\* may give the identifier to another one, and neither validation nor scoring compares the
\* source_reference of a truth with the case.
ScoresAreFair ==
  comparison # None =>
    \A i \in DOMAIN comparison.candidate.cases :
      LET result == comparison.candidate.cases[i]
          case == comparison.base.cohort.cases[i]
          app == Apps[world.apps[case.repo]]
          scan == Scans[world.scans[comparison.candidate.scanner][case.repo]]
          truth == comparison.base.truth[case.truth]
      IN result.status = "success" /\ truth.repo = case.repo =>
           \A d \in {"agent_entities", "tools", "mcp_servers"} :
             LET groups == DeclaredIn(app, d)
                 counts == result.comparisons[d]
                 cut == ScopeDiagnostics(app.files)
                          \cap (IF d = "tools" THEN {"read_failed"}
                                ELSE {"read_failed", "file_limit", "byte_limit"})
             IN Distinguishable(groups) /\ cut = {} =>
                  counts.fp <= counts.predicted - Cardinality(Named(groups, scan, d))

\* The reports can be compared case by case.
SameYardstick(a, b) ==
  \A i \in DOMAIN a.cases :
    /\ a.cases[i].id = b.cases[i].id /\ a.cases[i].stratum = b.cases[i].stratum
    /\ a.cases[i].status = "success" /\ b.cases[i].status = "success" =>
         \A d \in AllDims :
           (d \in DOMAIN a.cases[i].comparisons) = (d \in DOMAIN b.cases[i].comparisons)
           /\ (d \in DOMAIN a.cases[i].comparisons =>
                 a.cases[i].comparisons[d].truth = b.cases[i].comparisons[d].truth)

\* What a report found of a case: nothing when it failed.
FoundOf(c, d) ==
  IF c.status = "success" /\ d \in DOMAIN c.comparisons THEN c.comparisons[d].tp ELSE 0

\* A candidate that finds less in some case and more in none: either a measure fell or a
\* case is listed as newly failing.  (A gain in one case may hide a loss in another of the
\* same framework, and four digits hide one of more than 10000 entries.)
LossVisible ==
  LET before == comparison.base.baseline
      after == comparison.candidate
      Found(c, d) == FoundOf(c, d)
  IN SameYardstick(before, after)
     /\ (\A d \in AllDims : before.metrics[d].truth <= 10000)
     /\ (\A i \in DOMAIN after.cases, d \in AllDims :
           Found(after.cases[i], d) <= Found(before.cases[i], d))
     /\ (\E i \in DOMAIN after.cases, d \in AllDims :
           Found(after.cases[i], d) < Found(before.cases[i], d))
     => comparison.result.regressions # {} \/ comparison.result.newFailures # {}

OfStratum(cases, s) == {i \in DOMAIN cases : cases[i].stratum = s}

\* How many facts the references of a framework's cases have, how many of them are found, and
\* that this is a share of them.
FactsIn(base, cases, s, d) ==
  Sum([i \in DOMAIN cases |->
         IF i \in OfStratum(cases, s)
         THEN Len(FactsOf(base.truth[base.cohort.cases[i].truth].reference, d)) ELSE 0])
FoundIn(cases, s, d) ==
  Sum([i \in DOMAIN cases |-> IF i \in OfStratum(cases, s) THEN FoundOf(cases[i], d) ELSE 0])

Reaches(base, cases, s, d, share) ==
  20000 * FoundIn(cases, s, d) + FactsIn(base, cases, s, d) >= 2 * share * FactsIn(base, cases, s, d)

\* The release gates: every case of the cohort was scanned, so that no case the candidate
\* could not handle is left out of the recall it is released on, which is of four digits.
GatesCoverCohort ==
  comparison.result.gatesMet =>
    LET cases == comparison.candidate.cases
        base == comparison.base
    IN /\ \A c \in ToSet(cases) : c.status = "success"
       /\ Reaches(base, cases, "langgraph", "agent_entities", 8000)
       /\ Reaches(base, cases, "langgraph", "tools", 7000)
       /\ Reaches(base, cases, "mcp-custom", "agent_entities", 6000)
       /\ Reaches(base, cases, "mcp-custom", "tools", 6000)

\* A candidate that does worse does not compare well: what it no longer finds lowers a measure
\* or is a failure, and what it could not scan keeps the gates shut.
NoLossHidden == comparison # None => LossVisible /\ GatesCoverCohort

\* A workflow that ends takes back no commit: what changes on the branch is the truth and
\* its lock, or the baseline, and it is what was computed from the head it replaces.
NoCommitOverwritten ==
  [][run # Idle /\ run' = Idle /\ tree' # tree =>
       /\ tree'.protocol = tree.protocol /\ tree'.candidates = tree.candidates
       /\ [tree'.cohort EXCEPT !.locked = TRUE] = [tree.cohort EXCEPT !.locked = TRUE]
       /\ tree'.truth = tree.truth \/ tree'.baseline = tree.baseline
       /\ ValidState(tree')]_vars

\* A workflow that was started ends, whatever hangs or fails.
RunsEnd == run # Idle ~> run = Idle
===============================================================================
