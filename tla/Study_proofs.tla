----------------------------- MODULE Study_proofs -----------------------------
(***************************************************************************)
(* What the study's workflows push and report, for every study directory,  *)
(* whatever maintainers commit, with any number of cases, workers and      *)
(* faults.                                                                 *)
(***************************************************************************)
EXTENDS StudyScores_proofs

RunFields == {"kind", "step", "scanner", "base", "work", "cases", "results"}

\* What a workflow may write is its own part of the head that it checked out.
OwnPart(base, work) ==
  /\ work.protocol = base.protocol /\ work.candidates = base.candidates
  /\ [work.cohort EXCEPT !.locked = TRUE] = [base.cohort EXCEPT !.locked = TRUE]
  /\ work.truth = base.truth \/ work.baseline = base.baseline

(***************************************************************************)
(* While its cases are under way a workflow has written truths or nothing; *)
(* it gets to its push with all cases returned and a directory that        *)
(* validates.                                                              *)
(***************************************************************************)
Working(r) ==
  /\ DOMAIN r = RunFields
  /\ DOMAIN r.base = TreeFields /\ DOMAIN r.work = TreeFields
  /\ r.step \in {"check", "work"} =>
       /\ r.work.protocol = r.base.protocol /\ r.work.candidates = r.base.candidates
       /\ r.work.cohort = r.base.cohort /\ r.work.baseline = r.base.baseline
       /\ r.kind # "truth" => r.work.truth = r.base.truth
  /\ r.step = "work" /\ r.kind # "truth" => ValidState(r.base)
  /\ r.step = "push" => /\ \A i \in DOMAIN r.cases : r.cases[i] \in {"done", "raised"}
                        /\ OwnPart(r.base, r.work) /\ ValidState(r.work)
  /\ r.step \in Steps

IInv == /\ DOMAIN tree = TreeFields
        /\ run # Idle => Working(run)

\* validate_state does not look at the baseline.
LEMMA BaselineNotValidated ==
  ASSUME NEW s, NEW t, s.protocol = t.protocol, s.candidates = t.candidates,
         s.cohort = t.cohort, s.truth = t.truth
  PROVE  ValidState(s) <=> ValidState(t)
  BY DEF ValidState

LEMMA CommitKeeps ==
  ASSUME IInv, CommitProtocol \/ CommitCandidates \/ CommitCohort
  PROVE  IInv' /\ run' = run
  BY DEF IInv, CommitProtocol, CommitCandidates, CommitCohort

LEMMA StartKeeps ==
  ASSUME IInv, NEW kind, NEW scanner, Start(kind, scanner)
  PROVE  IInv'
  <1>1. /\ run' = [kind |-> kind, step |-> "check", scanner |-> scanner, base |-> tree,
                   work |-> tree, cases |-> <<>>, results |-> <<>>]
        /\ tree' = tree
    BY DEF Start
  <1>2. Working(run')
    BY <1>1 DEF IInv, Working, RunFields, Steps
  <1> QED BY <1>1, <1>2 DEF IInv

LEMMA EndKeeps == ASSUME IInv, Fail, tree' = tree PROVE IInv'
  BY DEF IInv, Fail

LEMMA BeginKeeps == ASSUME IInv, Begin PROVE IInv'
  <1>1. tree' = tree /\ run # Idle /\ run.step = "check" /\ Working(run)
    BY DEF IInv, Begin
  <1>2. CASE Fail
    BY <1>1, <1>2, EndKeeps
  <1>3. CASE ~Fail
    <2>1. PICK cases : run' = [run EXCEPT !.step = "work", !.cases = cases]
      BY <1>3 DEF Begin
    <2>2. run.kind # "truth" => ValidState(run.base)
      BY <1>3 DEF Begin, LockedState
    <2>3. /\ DOMAIN run' = RunFields /\ run'.step = "work" /\ run'.kind = run.kind
          /\ run'.base = run.base /\ run'.work = run.work
      BY <1>1, <2>1 DEF Working, RunFields
    <2>4. Working(run')
      BY <1>1, <2>2, <2>3 DEF Working, Steps
    <2> QED BY <1>1, <2>4 DEF IInv
  <1> QED BY <1>2, <1>3

\* A worker's step that leaves the files alone.
LEMMA CaseKeeps ==
  ASSUME IInv, run # Idle, NEW i \in DOMAIN run.cases,
         run.cases[i] \in {"queued", "fetching", "scanning"},
         NEW cases, NEW results,
         run' = [run EXCEPT !.cases = cases, !.results = results], tree' = tree
  PROVE  IInv'
  <1>1. Working(run)
    BY DEF IInv
  <1>2. run.step \in {"check", "work"}
    BY <1>1 DEF Working, Steps
  <1>3. /\ DOMAIN run' = RunFields /\ run'.step = run.step /\ run'.kind = run.kind
        /\ run'.base = run.base /\ run'.work = run.work
    BY <1>1 DEF Working, RunFields
  <1>4. Working(run')
    BY <1>1, <1>2, <1>3 DEF Working
  <1> QED BY <1>4 DEF IInv

LEMMA WorkerKeeps == ASSUME IInv, Worker PROVE IInv'
  <1>1. PICK i \in DOMAIN run.cases :
          Take(i) \/ Hang(i) \/ WriteTruth(i) \/ FetchToScan(i) \/ ScanCase(i)
    BY DEF Worker
  <1>2. run # Idle /\ tree' = tree /\ Working(run)
    BY <1>1 DEF IInv, Worker, Take, Hang, WriteTruth, FetchToScan, ScanCase
  <1>3. ASSUME NEW value, run' = [run EXCEPT !.cases[i] = value],
               run.cases[i] \in {"queued", "fetching", "scanning"}
        PROVE  IInv'
    <2>1. run' = [run EXCEPT !.cases = [run.cases EXCEPT ![i] = value], !.results = run.results]
      BY <1>2, <1>3 DEF Working, RunFields
    <2> QED BY <1>2, <1>3, <2>1, CaseKeeps
  <1>4. ASSUME NEW result, run' = Answer(i, result),
               run.cases[i] \in {"fetching", "scanning"}
        PROVE  IInv'
    <2>1. run' = [run EXCEPT !.cases = [run.cases EXCEPT ![i] = "done"],
                             !.results = Append(run.results, result)]
      BY <1>2, <1>4 DEF Answer, Working, RunFields
    <2> QED BY <1>2, <1>4, <2>1, CaseKeeps
  <1>5. CASE Take(i)
    BY <1>3, <1>5 DEF Take
  <1>6. CASE Hang(i)
    BY <1>3, <1>6 DEF Hang
  <1>7. CASE WriteTruth(i)
    <2>1. CASE run' = [run EXCEPT !.cases[i] = "raised"]
      BY <1>3, <1>7, <2>1 DEF WriteTruth
    <2>2. CASE ~(run' = [run EXCEPT !.cases[i] = "raised"])
      <3>1. PICK case, truth : run' = [run EXCEPT !.cases[i] = "done", !.work.truth[case] = truth]
        BY <1>7, <2>2 DEF WriteTruth
      <3>2. run.kind = "truth" /\ run.step \in {"check", "work"}
        BY <1>2, <1>7 DEF WriteTruth, Working, Steps
      <3>3. /\ DOMAIN run' = RunFields /\ run'.step = run.step /\ run'.kind = run.kind
            /\ run'.base = run.base
            /\ run'.work = [run.work EXCEPT !.truth = [run.work.truth EXCEPT ![case] = truth]]
        BY <1>2, <3>1 DEF Working, RunFields
      <3>4. /\ DOMAIN run'.work = TreeFields /\ run'.work.protocol = run.work.protocol
            /\ run'.work.candidates = run.work.candidates
            /\ run'.work.cohort = run.work.cohort /\ run'.work.baseline = run.work.baseline
        BY <1>2, <3>3 DEF Working, TreeFields
      <3>5. Working(run')
        BY <1>2, <3>2, <3>3, <3>4 DEF Working
      <3> QED BY <1>2, <3>5 DEF IInv
    <2> QED BY <2>1, <2>2
  <1>8. CASE FetchToScan(i)
    BY <1>3, <1>4, <1>8 DEF FetchToScan
  <1>9. CASE ScanCase(i)
    BY <1>4, <1>9 DEF ScanCase
  <1> QED BY <1>1, <1>5, <1>6, <1>7, <1>8, <1>9

LEMMA FinishTruthKeeps == ASSUME IInv, FinishTruth PROVE IInv'
  <1> DEFINE work == [run.work EXCEPT !.cohort.locked = TRUE]
  <1>1. /\ run # Idle /\ run.kind = "truth" /\ run.step = "work" /\ AllReturned
        /\ tree' = tree /\ Working(run)
    BY DEF IInv, FinishTruth
  <1>2. CASE Fail
    BY <1>1, <1>2, EndKeeps
  <1>3. CASE ~Fail
    <2>1. run' = [run EXCEPT !.step = "push", !.work = work] /\ ValidState(work)
      BY <1>3 DEF FinishTruth
    <2>2. /\ DOMAIN run' = RunFields /\ run'.step = "push" /\ run'.cases = run.cases
          /\ run'.base = run.base /\ run'.work = work
      BY <1>1, <2>1 DEF Working, RunFields
    <2>3. /\ DOMAIN work = TreeFields /\ work.protocol = run.base.protocol
          /\ work.candidates = run.base.candidates /\ work.baseline = run.base.baseline
          /\ work.cohort = [run.base.cohort EXCEPT !.locked = TRUE]
      BY <1>1 DEF Working, TreeFields
    <2>4. \A c : [[c EXCEPT !.locked = TRUE] EXCEPT !.locked = TRUE] = [c EXCEPT !.locked = TRUE]
      OBVIOUS
    <2> HIDE DEF work
    <2>5. OwnPart(run.base, work)
      BY <2>3, <2>4 DEF OwnPart
    <2>6. Working(run')
      BY <1>1, <2>1, <2>2, <2>3, <2>5 DEF Working, AllReturned, Steps
    <2> QED BY <1>1, <2>6 DEF IInv
  <1> QED BY <1>2, <1>3

LEMMA FinishBaselineKeeps == ASSUME IInv, FinishBaseline PROVE IInv'
  <1>1. /\ run # Idle /\ run.kind = "baseline" /\ run.step = "work" /\ AllReturned
        /\ tree' = tree /\ Working(run)
    BY DEF IInv, FinishBaseline
  <1>2. CASE Fail
    BY <1>1, <1>2, EndKeeps
  <1>3. CASE ~Fail
    <2>1. run' = [run EXCEPT !.step = "push", !.work.baseline = Report]
      BY <1>3 DEF FinishBaseline
    <2>2. /\ DOMAIN run' = RunFields /\ run'.step = "push" /\ run'.cases = run.cases
          /\ run'.base = run.base /\ run'.work = [run.work EXCEPT !.baseline = Report]
      BY <1>1, <2>1 DEF Working, RunFields
    <2>3. /\ DOMAIN run'.work = TreeFields /\ run'.work.protocol = run.base.protocol
          /\ run'.work.candidates = run.base.candidates /\ run'.work.cohort = run.base.cohort
          /\ run'.work.truth = run.base.truth
      BY <1>1, <2>2 DEF Working, TreeFields
    <2>4. ValidState(run'.work)
      BY <1>1, <2>3, BaselineNotValidated DEF Working
    <2>5. OwnPart(run'.base, run'.work)
      BY <2>2, <2>3 DEF OwnPart
    <2>6. Working(run')
      BY <1>1, <2>2, <2>3, <2>4, <2>5 DEF Working, AllReturned, Steps
    <2> QED BY <1>1, <2>6 DEF IInv
  <1> QED BY <1>2, <1>3

LEMMA PushKeeps == ASSUME IInv, Push PROVE IInv'
  <1>1. run # Idle /\ run' = Idle /\ tree' \in {tree, run.work}
    BY DEF Push, Fail
  <1> QED BY <1>1 DEF IInv, Working

LEMMA InvariantKept == IInv /\ [Next]_vars => IInv'
  <1> SUFFICES ASSUME IInv, [Next]_vars
               PROVE  IInv'
    OBVIOUS
  <1>1. CASE UNCHANGED vars
    BY <1>1 DEF vars, IInv
  <1>2. CASE Workflow
    BY <1>2, BeginKeeps, WorkerKeeps, FinishTruthKeeps, FinishBaselineKeeps, PushKeeps, EndKeeps
       DEF Workflow, FinishPostfix
  <1>3. CASE StartTruth \/ StartBaseline \/ StartPostfix
    BY <1>3, StartKeeps DEF StartTruth, StartBaseline, StartPostfix
  <1>4. CASE Cancel
    BY <1>4, EndKeeps DEF Cancel
  <1> QED BY <1>1, <1>2, <1>3, <1>4, CommitKeeps DEF Next

(***************************************************************************)
(* git push is rejected when the branch has moved: what a workflow changes *)
(* on the branch is its own part of the head it was computed from, and the *)
(* directory that it leaves validates.                                     *)
(***************************************************************************)
THEOREM PushesTakeNothingBack == Spec => NoCommitOverwritten
  <1>1. Init => IInv
    BY WorldsAssumption DEF Init, IInv
  <1>2. ASSUME IInv, [Next]_vars, run # Idle, run' = Idle, tree' # tree
        PROVE  /\ tree'.protocol = tree.protocol /\ tree'.candidates = tree.candidates
               /\ [tree'.cohort EXCEPT !.locked = TRUE] = [tree.cohort EXCEPT !.locked = TRUE]
               /\ tree'.truth = tree.truth \/ tree'.baseline = tree.baseline
               /\ ValidState(tree')
    <2>1. ~(CommitProtocol \/ CommitCandidates \/ CommitCohort)
      BY <1>2, CommitKeeps
    <2>2. Push
      BY <1>2, <2>1 DEF Next, StartTruth, StartBaseline, StartPostfix, Start, Cancel, Workflow,
         Begin, Worker, Take, Hang, WriteTruth, FetchToScan, ScanCase, FinishTruth,
         FinishBaseline, FinishPostfix, vars
    <2>3. run.step = "push" /\ tree = run.base /\ tree' = run.work
      BY <1>2, <2>2 DEF Push
    <2> QED BY <1>2, <2>3 DEF IInv, Working, OwnPart
  <1> QED BY <1>1, <1>2, InvariantKept, PTL DEF Spec, NoCommitOverwritten

(***************************************************************************)
(* The other properties rest on what StudyInv says of the directory, of a  *)
(* run and of a comparison, next to IInv:                                  *)
(*                                                                         *)
(*  - whatever maintainers commit, the cohort's cases are of a list of the *)
(*    world, every truth was written for a case of such a list that has no *)
(*    case twice, and the baseline is the aggregate of as many results as  *)
(*    are registered;                                                      *)
(*  - a run that scans has a locked base that validates; its results are   *)
(*    one of each case that is done and of no other, each the score of its *)
(*    case against the base's truth or a failure; what it is about to push *)
(*    is such a directory again;                                           *)
(*  - a comparison is of the base's baseline and of the scores of all of   *)
(*    its cases.                                                           *)
(***************************************************************************)

\* Every truth of a directory was written for a case of a cohort that has no case twice.
BuiltTruths(w, truth) ==
  /\ DOMAIN truth = DOMAIN w.tree.truth
  /\ \A f \in DOMAIN truth : truth[f] # None =>
       \E cases \in CaseLists(w) : OneEach(cases) /\ BuiltOf(w, cases, truth[f])

\* A directory that the workflows of a world may find.
IsTree(w, t) ==
  /\ DOMAIN t = TreeFields /\ DOMAIN t.cohort = CohortFields
  /\ t.cohort.cases \in CaseLists(w)
  /\ BuiltTruths(w, t.truth)
  /\ t.baseline # None => IsBaseline(t.baseline)

\* A directory that the workflows of the baseline and of the comparison accept.
Locked(t) == ValidState(t) /\ t.cohort.frozen /\ t.cohort.locked

\* What a scanner reports of each repository.
ScansOf(w, scanner) == [repo \in DOMAIN w.apps |-> Scans[w.scans[scanner][repo]]]

\* A result of the i-th case of a run.
IsAnswer(w, r, c, i) ==
  LET case == r.base.cohort.cases[i] IN
  c.id = case.id /\ IsScoreOf(c, case, r.base.truth, ScansOf(w, r.scanner))

\* The results of a pool: one of each case that is done, and no other.
Pool(w, r) ==
  /\ IsList(r.results)
  /\ \A k \in DOMAIN r.results :
       \E i \in DOMAIN r.cases : r.cases[i] = "done" /\ IsAnswer(w, r, r.results[k], i)
  /\ \A k, l \in DOMAIN r.results : r.results[k].id = r.results[l].id => k = l
  /\ \A i \in DOMAIN r.cases : r.cases[i] = "done" =>
       \E k \in DOMAIN r.results : r.results[k].id = r.base.cohort.cases[i].id

\* The cases that a worker has.
BusyIn(cases) == {i \in DOMAIN cases : cases[i] \in {"fetching", "scanning"}}

\* A workflow that is under way.
IsRun(w, r) ==
  /\ r.kind \in Kinds /\ r.step \in Steps
  /\ r.kind = "truth" => r.scanner = None
  /\ r.kind = "baseline" => r.scanner = Frozen
  /\ r.kind = "postfix" => r.scanner \in Scanners
  /\ IsTree(w, r.base)
  /\ r.step = "check" => r.cases = <<>> /\ r.results = <<>>
  /\ r.step # "check" => /\ r.cases \in [1..Len(r.base.cohort.cases) -> CaseStates]
                         /\ r.kind # "truth" => Locked(r.base)
  /\ r.kind = "truth" => r.results = <<>> /\ \A i \in DOMAIN r.cases : r.cases[i] # "scanning"
  /\ r.kind # "truth" => Pool(w, r)
  /\ Cardinality(BusyIn(r.cases)) <= Workers
  /\ r.step # "push" =>
       /\ DOMAIN r.work.truth = DOMAIN w.tree.truth
       /\ \A f \in DOMAIN r.work.truth : r.work.truth[f] # None =>
            \/ \E cases \in CaseLists(w) : OneEach(cases) /\ BuiltOf(w, cases, r.work.truth[f])
            \/ BuiltOf(w, r.base.cohort.cases, r.work.truth[f])
  /\ r.step = "push" => IsTree(w, r.work)

\* What the last workflow compared.
IsComparison(w, c) ==
  LET cases == c.candidate.cases IN
  /\ IsTree(w, c.base) /\ Locked(c.base) /\ c.base.baseline # None
  /\ c.candidate = Aggregate(cases, c.candidate.scanner, "postfix") /\ c.candidate.scanner \in Scanners
  /\ IsScores(cases, c.base, ScansOf(w, c.candidate.scanner))
  /\ Len(cases) = Len(c.base.cohort.cases)
  /\ \A i \in DOMAIN cases : cases[i].id = c.base.cohort.cases[i].id
  /\ c.result = Compare(c.base.baseline, c.candidate)

\* The invariant.
StudyInv ==
  /\ world \in Worlds
  /\ IsTree(world, tree)
  /\ run # Idle => IsRun(world, run)
  /\ comparison # None => IsComparison(world, comparison)

\* A case of a cohort can be fetched and scanned.
LEMMA CasesAre ==
  ASSUME NEW w \in Worlds, NEW cases \in CaseLists(w)
  PROVE  /\ IsList(cases)
         /\ \A i \in DOMAIN cases : /\ cases[i] \in ToSet(cases) /\ IsCase(w, cases[i])
                                    /\ IsApp(SourceOf(w, cases[i]))
                                    /\ \A s \in Scanners \cup {Frozen} : IsScan(ScansOf(w, s)[cases[i].repo])
  <1>1. IsList(cases) /\ \A case \in ToSet(cases) : IsCase(w, case)
    BY WorldsAssumption
  <1>2. ASSUME NEW i \in DOMAIN cases
        PROVE  /\ cases[i] \in ToSet(cases) /\ IsCase(w, cases[i]) /\ IsApp(SourceOf(w, cases[i]))
               /\ \A s \in Scanners \cup {Frozen} : IsScan(ScansOf(w, s)[cases[i].repo])
    <2>1. cases[i] \in ToSet(cases)
      BY DEF ToSet
    <2>2. IsCase(w, cases[i])
      BY <1>1, <2>1
    <2>3. IsApp(SourceOf(w, cases[i]))
      BY <2>2, SourcesAssumption DEF IsCase, SourceOf
    <2>4. ASSUME NEW s \in Scanners \cup {Frozen}
          PROVE  IsScan(ScansOf(w, s)[cases[i].repo])
      <3>1. ScansOf(w, s)[cases[i].repo] = Scans[w.scans[s][cases[i].repo]]
        BY <2>2 DEF IsCase, ScansOf
      <3> QED BY <2>2, <3>1, SourcesAssumption DEF IsCase
    <2> QED BY <2>1, <2>2, <2>3, <2>4
  <1> QED BY <1>1, <1>2

\* What the workflow of the truth wrote can be scored against.
LEMMA TruthsAre ==
  ASSUME NEW w \in Worlds, NEW truth, BuiltTruths(w, truth), NEW f \in DOMAIN truth, truth[f] # None
  PROVE  IsTruth(truth[f])
  <1>1. PICK cases \in CaseLists(w) : BuiltOf(w, cases, truth[f])
    BY DEF BuiltTruths
  <1>2. PICK case \in ToSet(cases), error \in Errors, inB \in BOOLEAN, inC \in BOOLEAN :
          truth[f] = BuildTruth(case, SourceOf(w, case), error, inB, inC)
    BY <1>1 DEF BuiltOf
  <1>3. IsApp(SourceOf(w, case))
    <2>1. PICK i \in DOMAIN cases : case = cases[i]
      BY DEF ToSet
    <2> QED BY <2>1, CasesAre
  <1> QED BY <1>2, <1>3, BuiltIsTruth

\* A locked directory that validates has the registered number of different cases, each with
\* its reviewed truth.
LEMMA LockedIs ==
  ASSUME NEW t, Locked(t)
  PROVE  /\ Len(t.cohort.cases) = Registered.target
         /\ OneEach(t.cohort.cases)
         /\ \A case \in ToSet(t.cohort.cases) :
              /\ t.truth[case.truth] # None
              /\ ValidTruth(t.truth[case.truth], case.id, InTierB(t.cohort, case.id), InTierC(t.cohort, case.id))
         /\ \A s \in ToSet(t.protocol.strata) : InStratum(t.cohort.cases, s.id) <= s.max
  <1>1. ValidProtocol(t.protocol) /\ ValidCohort(t.cohort, t.protocol, t.truth)
        /\ t.cohort.frozen /\ t.cohort.locked
    BY DEF Locked, ValidState
  <1>2. t.protocol.target = Registered.target
    BY <1>1 DEF ValidProtocol
  <1> QED BY <1>1, <1>2 DEF ValidCohort, ValidCounts, OneEach

\* A locked directory's truths can be scored against.
LEMMA LockedTruths ==
  ASSUME NEW w \in Worlds, NEW t, IsTree(w, t), Locked(t), NEW i \in DOMAIN t.cohort.cases
  PROVE  IsTruth(t.truth[t.cohort.cases[i].truth])
  <1> DEFINE case == t.cohort.cases[i]
  <1>1. t.cohort.cases \in CaseLists(w) /\ BuiltTruths(w, t.truth)
    BY DEF IsTree
  <1>2. case \in ToSet(t.cohort.cases) /\ IsCase(w, case)
    BY <1>1, CasesAre
  <1> HIDE DEF case
  <1>3. t.truth[case.truth] # None /\ case.truth \in DOMAIN t.truth
    BY <1>1, <1>2, LockedIs DEF IsCase, BuiltTruths
  <1>4. IsTruth(t.truth[case.truth])
    BY <1>1, <1>3, TruthsAre
  <1> QED BY <1>4 DEF case

-----------------------------------------------------------------------------
(* The pool                                                                *)

LEMMA BusyFinite ==
  ASSUME NEW n \in Nat, NEW cases \in [1..n -> CaseStates]
  PROVE  IsFiniteSet(BusyIn(cases)) /\ Cardinality(BusyIn(cases)) \in Nat
  <1>1. BusyIn(cases) \in SUBSET (1..n)
    BY DEF BusyIn
  <1>2. IsFiniteSet(1..n)
    BY FS_Interval
  <1> QED BY <1>1, <1>2, FS_Subset, FS_CardinalityType

LEMMA BusyMoves ==
  ASSUME NEW n \in Nat, NEW cases \in [1..n -> CaseStates], NEW i \in 1..n, NEW value
  PROVE  LET moved == [cases EXCEPT ![i] = value] IN
         /\ value \notin {"fetching", "scanning"} \/ cases[i] \in {"fetching", "scanning"} =>
              Cardinality(BusyIn(moved)) <= Cardinality(BusyIn(cases))
         /\ Cardinality(BusyIn(moved)) <= Cardinality(BusyIn(cases)) + 1
  <1> DEFINE moved == [cases EXCEPT ![i] = value]
             B == BusyIn(cases)
  <1>1. IsFiniteSet(B) /\ Cardinality(B) \in Nat
    BY BusyFinite
  <1>2. BusyIn(moved) \subseteq B \cup {i}
    BY DEF BusyIn
  <1>3. value \notin {"fetching", "scanning"} \/ cases[i] \in {"fetching", "scanning"} =>
          BusyIn(moved) \subseteq B
    BY DEF BusyIn
  <1>4. IsFiniteSet(B \cup {i}) /\ Cardinality(B \cup {i}) <= Cardinality(B) + 1
        /\ Cardinality(B \cup {i}) \in Nat
    <2> HIDE DEF B
    <2>1. /\ IsFiniteSet(B \cup {i})
          /\ Cardinality(B \cup {i}) = IF i \in B THEN Cardinality(B) ELSE Cardinality(B) + 1
      BY <1>1, FS_AddElement
    <2> QED BY <1>1, <2>1
  <1> HIDE DEF B, moved
  <1>5. Cardinality(BusyIn(moved)) <= Cardinality(B \cup {i}) /\ Cardinality(BusyIn(moved)) \in Nat
    BY <1>2, <1>4, FS_Subset, FS_CardinalityType
  <1>6. value \notin {"fetching", "scanning"} \/ cases[i] \in {"fetching", "scanning"} =>
          Cardinality(BusyIn(moved)) <= Cardinality(B)
    BY <1>1, <1>3, FS_Subset
  <1> QED BY <1>1, <1>4, <1>5, <1>6 DEF B, moved

\* A case of which nothing is known yet goes on.
LEMMA PoolKept ==
  ASSUME NEW w, NEW r, Pool(w, r), NEW s, s.base = r.base, s.scanner = r.scanner,
         s.results = r.results, NEW i \in DOMAIN r.cases, NEW value,
         s.cases = [r.cases EXCEPT ![i] = value], r.cases[i] # "done", value # "done"
  PROVE  Pool(w, s)
  <1>1. DOMAIN s.cases = DOMAIN r.cases
        /\ \A j \in DOMAIN r.cases : s.cases[j] = "done" <=> r.cases[j] = "done"
    OBVIOUS
  <1>2. \A c, j : IsAnswer(w, s, c, j) <=> IsAnswer(w, r, c, j)
    BY DEF IsAnswer
  <1> QED BY <1>1, <1>2 DEF Pool

LEMMA AppendIs ==
  ASSUME NEW list, IsList(list), NEW c
  PROVE  /\ IsList(Append(list, c)) /\ DOMAIN Append(list, c) = 1..(Len(list) + 1)
         /\ Append(list, c)[Len(list) + 1] = c
         /\ \A k \in 1..Len(list) : Append(list, c)[k] = list[k]
  <1>1. Len(list) \in Nat /\ DOMAIN list = 1..Len(list)
    BY DEF IsList
  <1>2. Len(Append(list, c)) = Len(list) + 1
    BY <1>1
  <1>3. DOMAIN Append(list, c) = 1..(Len(list) + 1)
    BY <1>1
  <1>4. Append(list, c)[Len(list) + 1] = c
    BY <1>1
  <1>5. ASSUME NEW k \in 1..Len(list) PROVE Append(list, c)[k] = list[k]
    BY <1>1
  <1> QED BY <1>1, <1>2, <1>3, <1>4, <1>5 DEF IsList

\* A case is done and its result is added.
LEMMA PoolGains ==
  ASSUME NEW w, NEW r, Pool(w, r), NEW s, s.base = r.base, s.scanner = r.scanner,
         NEW c, s.results = Append(r.results, c), NEW i \in DOMAIN r.cases,
         s.cases = [r.cases EXCEPT ![i] = "done"], r.cases[i] # "done", IsAnswer(w, r, c, i),
         IsList(r.base.cohort.cases), OneEach(r.base.cohort.cases),
         DOMAIN r.cases = DOMAIN r.base.cohort.cases
  PROVE  Pool(w, s)
  <1> DEFINE n == Len(r.results)
             Id(j) == r.base.cohort.cases[j].id
  <1>1. IsList(r.results) /\ n \in Nat /\ DOMAIN r.results = 1..n
    BY DEF Pool, IsList
  <1>2. /\ IsList(s.results) /\ DOMAIN s.results = 1..(n + 1)
        /\ s.results[n + 1] = c /\ \A k \in 1..n : s.results[k] = r.results[k]
    BY <1>1, AppendIs
  <1>3. /\ DOMAIN s.cases = DOMAIN r.cases /\ s.cases[i] = "done"
        /\ \A j \in DOMAIN r.cases : j # i => s.cases[j] = r.cases[j]
    OBVIOUS
  <1>4. \A x, j : IsAnswer(w, s, x, j) <=> IsAnswer(w, r, x, j)
    BY DEF IsAnswer
  <1>5. \A j, k \in DOMAIN r.cases : Id(j) = Id(k) => j = k
    <2>1. \A j, k \in DOMAIN r.base.cohort.cases :
            r.base.cohort.cases[j]["id"] = r.base.cohort.cases[k]["id"] => j = k
      BY DistinctMeans DEF OneEach
    <2> QED BY <2>1
  <1>6. c.id = Id(i)
    BY DEF IsAnswer
  <1>7. ASSUME NEW k \in 1..n
        PROVE  \E j \in DOMAIN r.cases : /\ r.cases[j] = "done" /\ j # i /\ s.cases[j] = "done"
                                         /\ IsAnswer(w, s, s.results[k], j)
                                         /\ s.results[k].id = Id(j)
    <2>1. PICK j \in DOMAIN r.cases : r.cases[j] = "done" /\ IsAnswer(w, r, r.results[k], j)
      BY <1>1 DEF Pool
    <2>2. r.results[k].id = Id(j)
      BY <2>1 DEF IsAnswer
    <2> QED BY <1>2, <1>3, <1>4, <2>1, <2>2
  <1>8. \A k \in 1..n : s.results[k].id # c.id
    BY <1>5, <1>6, <1>7
  <1>9. \A k, l \in 1..n : s.results[k].id = s.results[l].id => k = l
    BY <1>1, <1>2 DEF Pool
  <1>10. \A k, l \in DOMAIN s.results : s.results[k].id = s.results[l].id => k = l
    <2>1. \A k \in DOMAIN s.results : k \in 1..n \/ k = n + 1
      BY <1>1, <1>2
    <2> QED BY <1>2, <1>8, <1>9, <2>1
  <1>11. \A k \in DOMAIN s.results :
           \E j \in DOMAIN s.cases : s.cases[j] = "done" /\ IsAnswer(w, s, s.results[k], j)
    <2>1. \A k \in DOMAIN s.results : k \in 1..n \/ k = n + 1
      BY <1>1, <1>2
    <2>2. s.cases[i] = "done" /\ IsAnswer(w, s, s.results[n + 1], i)
      BY <1>2, <1>3, <1>4
    <2> QED BY <1>3, <1>7, <2>1, <2>2
  <1>12. \A j \in DOMAIN s.cases : s.cases[j] = "done" =>
           \E k \in DOMAIN s.results : s.results[k].id = s.base.cohort.cases[j].id
    <2> SUFFICES ASSUME NEW j \in DOMAIN s.cases, s.cases[j] = "done"
                 PROVE  \E k \in DOMAIN s.results : s.results[k].id = Id(j)
      OBVIOUS
    <2>1. CASE j = i
      <3>1. n + 1 \in DOMAIN s.results
        BY <1>1, <1>2
      <3> QED BY <1>2, <1>6, <2>1, <3>1
    <2>2. CASE j # i
      <3>1. PICK k \in DOMAIN r.results : r.results[k].id = Id(j)
        BY <1>3, <2>2 DEF Pool
      <3>2. k \in DOMAIN s.results /\ s.results[k] = r.results[k]
        BY <1>1, <1>2
      <3> QED BY <3>1, <3>2
    <2> QED BY <2>1, <2>2
  <1> QED BY <1>2, <1>10, <1>11, <1>12 DEF Pool

\* The results of a pool that is done, in the order of the cohort.
LEMMA PoolComplete ==
  ASSUME NEW w, NEW r, Pool(w, r), IsList(r.base.cohort.cases), OneEach(r.base.cohort.cases),
         DOMAIN r.cases = DOMAIN r.base.cohort.cases, \A i \in DOMAIN r.cases : r.cases[i] = "done",
         NEW list, list = InOrder(r.results, r.base.cohort.cases)
  PROVE  /\ IsScores(list, r.base, ScansOf(w, r.scanner))
         /\ Len(list) = Len(r.base.cohort.cases) /\ DOMAIN list = DOMAIN r.base.cohort.cases
         /\ \A i \in DOMAIN list : list[i].id = r.base.cohort.cases[i].id
         /\ DistinctBy(list, "id")
  <1> DEFINE cases == r.base.cohort.cases
             D == DOMAIN r.results
             at == [k \in D |-> CHOOSE i \in DOMAIN r.cases : r.cases[i] = "done" /\ IsAnswer(w, r, r.results[k], i)]
  <1>1. \A k \in D : at[k] \in DOMAIN cases /\ IsAnswer(w, r, r.results[k], at[k])
    BY DEF Pool
  <1>2. at \in [D -> DOMAIN cases]
    <2>1. \A k \in D : at[k] \in DOMAIN cases
      BY <1>1
    <2> QED BY <2>1
  <1>3. \A i, j \in DOMAIN cases : cases[i].id = cases[j].id => i = j
    <2>1. \A i, j \in DOMAIN cases : cases[i]["id"] = cases[j]["id"] => i = j
      BY DistinctMeans DEF OneEach
    <2> QED BY <2>1
  <1> HIDE DEF at
  <1>4. \A k \in D : r.results[k].id = cases[at[k]].id /\ at[k] \in DOMAIN cases
    BY <1>1 DEF IsAnswer
  <1>5. \A k \in D, i \in DOMAIN cases : cases[i].id = r.results[k].id <=> i = at[k]
    BY <1>3, <1>4
  <1>6. \A k, l \in D : at[k] = at[l] => k = l
    <2>1. \A k, l \in D : r.results[k].id = r.results[l].id => k = l
      BY DEF Pool
    <2> HIDE DEF D
    <2> QED BY <1>4, <2>1
  <1>7. \A i \in DOMAIN cases : \E k \in D : at[k] = i
    <2>1. \A i \in DOMAIN cases : \E k \in D : r.results[k].id = cases[i].id
      BY DEF Pool
    <2> QED BY <1>5, <2>1
  <1>8. /\ IsList(list) /\ Len(list) = Len(cases)
        /\ \A i \in DOMAIN cases : \E k \in D : at[k] = i /\ list[i] = r.results[k]
    <2> DEFINE results == r.results
    <2>1. IsList(results) /\ D = DOMAIN results /\ list = InOrder(results, cases) /\ IsList(cases)
      BY DEF Pool
    <2>2. \A k \in D, i \in DOMAIN cases : cases[i].id = results[k].id <=> i = at[k]
      BY <1>5
    <2> HIDE DEF cases, D, results
    <2>3. /\ IsList(list) /\ Len(list) = Len(cases)
          /\ \A i \in DOMAIN cases : \E k \in DOMAIN results : at[k] = i /\ list[i] = results[k]
      <3>1. at \in [DOMAIN results -> DOMAIN cases]
        BY <1>2, <2>1
      <3>2. \A k, l \in DOMAIN results : at[k] = at[l] => k = l
        BY <1>6, <2>1
      <3>3. \A i \in DOMAIN cases : \E k \in DOMAIN results : at[k] = i
        BY <1>7, <2>1
      <3>4. \A k \in DOMAIN results, i \in DOMAIN cases : cases[i].id = results[k].id <=> i = at[k]
        BY <2>1, <2>2
      <3> QED BY ONLY <2>1, <3>1, <3>2, <3>3, <3>4, InOrderIs
    <2> QED BY <2>1, <2>3 DEF results
  <1>9. DOMAIN list = DOMAIN cases
    BY <1>8 DEF IsList
  <1>10. ASSUME NEW i \in DOMAIN cases
         PROVE  /\ list[i].id = cases[i].id
                /\ IsScoreOf(list[i], cases[i], r.base.truth, ScansOf(w, r.scanner))
    <2>1. PICK k \in D : at[k] = i /\ list[i] = r.results[k]
      BY <1>8
    <2>2. IsAnswer(w, r, list[i], i)
      BY <1>1, <2>1
    <2> QED BY <2>2 DEF IsAnswer
  <1>11. IsScores(list, r.base, ScansOf(w, r.scanner))
    BY <1>8, <1>9, <1>10 DEF IsScores
  <1>12. DistinctBy(list, "id")
    <2>1. \A i, j \in DOMAIN list : list[i]["id"] = list[j]["id"] => i = j
      BY <1>3, <1>9, <1>10
    <2> QED BY <1>8, <2>1, MeansDistinct
  <1> QED BY <1>8, <1>9, <1>10, <1>11, <1>12

-----------------------------------------------------------------------------
(* Steps of a run                                                          *)

\* What is known of a run of which a case is under way.
LEMMA RunAtWork ==
  ASSUME NEW w \in Worlds, NEW r, IsRun(w, r), Working(r), NEW i \in DOMAIN r.cases,
         r.cases[i] \in {"queued", "fetching", "scanning"}
  PROVE  /\ r.step = "work" /\ Len(r.base.cohort.cases) \in Nat
         /\ i \in 1..Len(r.base.cohort.cases)
         /\ DOMAIN r.base.cohort.cases = 1..Len(r.base.cohort.cases)
         /\ r.base.cohort.cases \in CaseLists(w)
         /\ r.cases \in [1..Len(r.base.cohort.cases) -> CaseStates]
         /\ IsTree(w, r.base)
         /\ r.kind # "truth" => Locked(r.base)
  <1>1. r.step # "check"
    BY DEF IsRun
  <1>2. r.step = "work"
    BY <1>1 DEF Working, Steps
  <1>3. IsTree(w, r.base) /\ r.base.cohort.cases \in CaseLists(w)
    BY DEF IsRun, IsTree
  <1>4. IsList(r.base.cohort.cases)
    BY <1>3, CasesAre
  <1>5. r.cases \in [1..Len(r.base.cohort.cases) -> CaseStates] /\ (r.kind # "truth" => Locked(r.base))
    BY <1>1 DEF IsRun
  <1> QED BY <1>2, <1>3, <1>4, <1>5 DEF IsList

\* A case that is under way goes on, or raises.
LEMMA CaseMoves ==
  ASSUME NEW w \in Worlds, NEW r, IsRun(w, r), Working(r), NEW i \in DOMAIN r.cases,
         r.cases[i] \in {"queued", "fetching", "scanning"},
         NEW value \in {"fetching", "scanning", "raised"},
         r.kind = "truth" => value # "scanning",
         r.cases[i] = "queued" => Cardinality(BusyIn(r.cases)) < Workers,
         NEW s, s = [r EXCEPT !.cases[i] = value]
  PROVE  IsRun(w, s)
  <1> DEFINE n == Len(r.base.cohort.cases)
  <1>1. /\ r.step = "work" /\ n \in Nat /\ i \in 1..n /\ r.cases \in [1..n -> CaseStates]
        /\ r.kind # "truth" => Locked(r.base)
    BY RunAtWork
  <1>2. /\ s.kind = r.kind /\ s.step = "work" /\ s.scanner = r.scanner /\ s.base = r.base
        /\ s.work = r.work /\ s.results = r.results /\ s.cases = [r.cases EXCEPT ![i] = value]
    BY <1>1 DEF Working, RunFields
  <1>3. s.cases \in [1..n -> CaseStates]
    BY <1>1, <1>2 DEF CaseStates
  <1>4. Cardinality(BusyIn(s.cases)) <= Workers
    <2> HIDE DEF n
    <2>1. /\ Cardinality(BusyIn(r.cases)) \in Nat /\ Cardinality(BusyIn(s.cases)) \in Nat
          /\ Workers \in Nat
      BY <1>1, <1>3, BusyFinite, NumbersAssumption
    <2>2. Cardinality(BusyIn(r.cases)) <= Workers
      BY DEF IsRun
    <2>3. /\ value \notin {"fetching", "scanning"} \/ r.cases[i] \in {"fetching", "scanning"} =>
               Cardinality(BusyIn(s.cases)) <= Cardinality(BusyIn(r.cases))
          /\ Cardinality(BusyIn(s.cases)) <= Cardinality(BusyIn(r.cases)) + 1
      BY <1>1, <1>2, BusyMoves
    <2> QED BY <2>1, <2>2, <2>3
  <1>5. r.kind # "truth" => Pool(w, s)
    <2> SUFFICES ASSUME r.kind # "truth"
                 PROVE  Pool(w, s)
      OBVIOUS
    <2>1. Pool(w, r) /\ r.cases[i] # "done" /\ value # "done"
      BY DEF IsRun
    <2> QED BY ONLY <1>2, <2>1, i \in DOMAIN r.cases, PoolKept
  <1>6. r.kind = "truth" => r.results = <<>> /\ \A j \in DOMAIN s.cases : s.cases[j] # "scanning"
    BY <1>1, <1>2 DEF IsRun
  <1> HIDE DEF n
  <1> QED BY <1>1, <1>2, <1>3, <1>4, <1>5, <1>6 DEF IsRun, n

\* A case is done.
LEMMA CaseEnds ==
  ASSUME NEW w \in Worlds, NEW r, IsRun(w, r), Working(r), NEW i \in DOMAIN r.cases,
         r.cases[i] \in {"fetching", "scanning"}
  PROVE  LET cases == [r.cases EXCEPT ![i] = "done"] IN
         /\ cases \in [1..Len(r.base.cohort.cases) -> CaseStates]
         /\ Cardinality(BusyIn(cases)) <= Workers
  <1> DEFINE n == Len(r.base.cohort.cases)
             cases == [r.cases EXCEPT ![i] = "done"]
  <1>1. n \in Nat /\ i \in 1..n /\ r.cases \in [1..n -> CaseStates]
    BY RunAtWork
  <1>2. cases \in [1..n -> CaseStates]
    BY <1>1 DEF CaseStates
  <1> HIDE DEF n
  <1>3. Cardinality(BusyIn(cases)) <= Cardinality(BusyIn(r.cases))
    BY <1>1, BusyMoves
  <1>4. Cardinality(BusyIn(r.cases)) <= Workers
    BY DEF IsRun
  <1>5. Cardinality(BusyIn(r.cases)) \in Nat /\ Cardinality(BusyIn(cases)) \in Nat /\ Workers \in Nat
    BY <1>1, <1>2, BusyFinite, NumbersAssumption
  <1> HIDE DEF cases
  <1> QED BY <1>2, <1>3, <1>4, <1>5 DEF cases, n

\* A case is done and its result is added to the run's.
LEMMA CaseAnswers ==
  ASSUME NEW w \in Worlds, NEW r, IsRun(w, r), Working(r), r.kind # "truth",
         NEW i \in DOMAIN r.cases, r.cases[i] \in {"fetching", "scanning"},
         NEW c, IsAnswer(w, r, c, i),
         NEW s, s = [r EXCEPT !.cases[i] = "done", !.results = Append(@, c)]
  PROVE  IsRun(w, s)
  <1>1. /\ r.step = "work" /\ Locked(r.base) /\ r.base.cohort.cases \in CaseLists(w)
        /\ DOMAIN r.base.cohort.cases = 1..Len(r.base.cohort.cases)
        /\ r.cases \in [1..Len(r.base.cohort.cases) -> CaseStates]
    BY RunAtWork
  <1>2. /\ s.kind = r.kind /\ s.step = "work" /\ s.scanner = r.scanner /\ s.base = r.base
        /\ s.work = r.work /\ s.results = Append(r.results, c)
        /\ s.cases = [r.cases EXCEPT ![i] = "done"]
    BY <1>1 DEF Working, RunFields
  <1>3. /\ s.cases \in [1..Len(r.base.cohort.cases) -> CaseStates]
        /\ Cardinality(BusyIn(s.cases)) <= Workers
    BY <1>2, CaseEnds
  <1>4. Pool(w, s)
    <2>1. IsList(r.base.cohort.cases) /\ OneEach(r.base.cohort.cases)
      BY <1>1, CasesAre, LockedIs
    <2>2. Pool(w, r) /\ r.cases[i] # "done" /\ DOMAIN r.cases = DOMAIN r.base.cohort.cases
      BY <1>1 DEF IsRun
    <2> QED BY ONLY <1>2, <2>1, <2>2, i \in DOMAIN r.cases, IsAnswer(w, r, c, i), PoolGains
  <1> QED BY <1>1, <1>2, <1>3, <1>4 DEF IsRun

\* A case is done and its truth is written.
LEMMA CaseWritten ==
  ASSUME NEW w \in Worlds, NEW r, IsRun(w, r), Working(r), r.kind = "truth",
         NEW i \in DOMAIN r.cases, r.cases[i] = "fetching",
         NEW t, BuiltOf(w, r.base.cohort.cases, t), NEW f,
         NEW s, s = [r EXCEPT !.cases[i] = "done", !.work.truth[f] = t]
  PROVE  IsRun(w, s)
  <1>1. /\ r.step = "work" /\ r.cases \in [1..Len(r.base.cohort.cases) -> CaseStates]
    BY RunAtWork
  <1>2. /\ s.kind = r.kind /\ s.step = "work" /\ s.scanner = r.scanner /\ s.base = r.base
        /\ s.work = [r.work EXCEPT !.truth[f] = t] /\ s.results = r.results
        /\ s.cases = [r.cases EXCEPT ![i] = "done"]
    BY <1>1 DEF Working, RunFields
  <1>3. /\ s.cases \in [1..Len(r.base.cohort.cases) -> CaseStates]
        /\ Cardinality(BusyIn(s.cases)) <= Workers
    BY <1>2, CaseEnds
  <1>4. s.work.truth = [r.work.truth EXCEPT ![f] = t]
    BY <1>2 DEF Working, TreeFields
  <1>5. /\ DOMAIN s.work.truth = DOMAIN w.tree.truth
        /\ \A g \in DOMAIN s.work.truth : s.work.truth[g] # None =>
             \/ \E cases \in CaseLists(w) : OneEach(cases) /\ BuiltOf(w, cases, s.work.truth[g])
             \/ BuiltOf(w, s.base.cohort.cases, s.work.truth[g])
    <2>1. /\ DOMAIN r.work.truth = DOMAIN w.tree.truth
          /\ \A g \in DOMAIN r.work.truth : r.work.truth[g] # None =>
               \/ \E cases \in CaseLists(w) : OneEach(cases) /\ BuiltOf(w, cases, r.work.truth[g])
               \/ BuiltOf(w, r.base.cohort.cases, r.work.truth[g])
      BY <1>1 DEF IsRun
    <2>2. \A g \in DOMAIN r.work.truth : s.work.truth[g] \in {t, r.work.truth[g]}
      BY <1>4
    <2> QED BY <1>2, <1>4, <2>1, <2>2
  <1>6. s.results = <<>> /\ \A j \in DOMAIN s.cases : s.cases[j] # "scanning"
    BY <1>1, <1>2 DEF IsRun
  <1> QED BY <1>1, <1>2, <1>3, <1>5, <1>6 DEF IsRun

-----------------------------------------------------------------------------
(* Actions                                                                 *)

LEMMA InitGood == ASSUME Init PROVE StudyInv
  <1>1. world \in Worlds /\ tree = world.tree /\ run = Idle /\ comparison = None
    BY DEF Init
  <1>2. world.tree.cohort \in CohortsOf(world) /\ world.tree.cohort.cases \in CaseLists(world)
    BY DEF CohortsOf, CaseLists
  <1>3. IsTree(world, tree)
    BY <1>1, <1>2, WorldsAssumption DEF IsTree, BuiltTruths
  <1> QED BY <1>1, <1>3 DEF StudyInv

LEMMA CommitGood ==
  ASSUME StudyInv, CommitProtocol \/ CommitCandidates \/ CommitCohort
  PROVE  StudyInv'
  <1>1. world' = world /\ run' = run /\ comparison' = comparison
        /\ world \in Worlds /\ IsTree(world, tree)
    BY DEF CommitProtocol, CommitCandidates, CommitCohort, StudyInv
  <1>2. CASE CommitProtocol \/ CommitCandidates
    <2>1. /\ DOMAIN tree' = TreeFields /\ tree'.cohort = tree.cohort /\ tree'.truth = tree.truth
          /\ tree'.baseline = tree.baseline
      BY <1>1, <1>2 DEF CommitProtocol, CommitCandidates, IsTree, TreeFields
    <2>2. IsTree(world, tree')
      BY <1>1, <2>1 DEF IsTree
    <2> QED BY <1>1, <2>2 DEF StudyInv
  <1>3. CASE CommitCohort
    <2>1. PICK c \in Documents[world.docs].cohort : tree' = [tree EXCEPT !.cohort = c]
      BY <1>3 DEF CommitCohort
    <2>2. c \in CohortsOf(world) /\ c.cases \in CaseLists(world)
      BY DEF CohortsOf, CaseLists
    <2>3. DOMAIN c = CohortFields
      BY <1>1, <2>2, WorldsAssumption
    <2>4. /\ DOMAIN tree' = TreeFields /\ tree'.cohort = c /\ tree'.truth = tree.truth
          /\ tree'.baseline = tree.baseline
      BY <1>1, <2>1 DEF IsTree, TreeFields
    <2>5. IsTree(world, tree')
      BY <1>1, <2>2, <2>3, <2>4 DEF IsTree
    <2> QED BY <1>1, <2>5 DEF StudyInv
  <1> QED BY <1>2, <1>3

LEMMA NoneBusy ==
  ASSUME NEW cases, \A i \in DOMAIN cases : cases[i] = "queued"
  PROVE  Cardinality(BusyIn(cases)) <= Workers
  <1>1. BusyIn(cases) = {}
    BY DEF BusyIn
  <1> QED BY <1>1, FS_EmptySet, NumbersAssumption

LEMMA EmptyPool ==
  ASSUME NEW w, NEW r, r.results = <<>>, \A i \in DOMAIN r.cases : r.cases[i] = "queued"
  PROVE  Pool(w, r)
  <1>1. IsList(r.results) /\ DOMAIN r.results = {}
    BY DEF IsList
  <1> QED BY <1>1 DEF Pool

LEMMA StartGood ==
  ASSUME StudyInv, NEW kind, NEW scanner, Start(kind, scanner),
         \/ kind = "truth" /\ scanner = None
         \/ kind = "baseline" /\ scanner = Frozen
         \/ kind = "postfix" /\ scanner \in Scanners
  PROVE  StudyInv'
  <1>1. /\ run' = [kind |-> kind, step |-> "check", scanner |-> scanner, base |-> tree,
                   work |-> tree, cases |-> <<>>, results |-> <<>>]
        /\ world' = world /\ tree' = tree /\ comparison' = None
        /\ world \in Worlds /\ IsTree(world, tree)
    BY DEF Start, StudyInv
  <1>2. DOMAIN run'.cases = {} /\ \A i \in DOMAIN run'.cases : run'.cases[i] = "queued"
    BY <1>1
  <1>3. Cardinality(BusyIn(run'.cases)) <= Workers /\ Pool(world, run')
    BY <1>1, <1>2, NoneBusy, EmptyPool
  <1>4. BuiltTruths(world, tree.truth)
    BY <1>1 DEF IsTree
  <1>5. IsRun(world, run')
    BY <1>1, <1>2, <1>3, <1>4 DEF IsRun, Kinds, Steps, BuiltTruths
  <1> QED BY <1>1, <1>5 DEF StudyInv

LEMMA EndGood ==
  ASSUME StudyInv, Fail, world' = world, tree' = tree, comparison' = comparison
  PROVE  StudyInv'
  BY DEF StudyInv, Fail

LEMMA BeginGood == ASSUME StudyInv, IInv, Begin PROVE StudyInv'
  <1>1. /\ world' = world /\ tree' = tree /\ comparison' = comparison
        /\ run # Idle /\ run.step = "check" /\ Working(run)
        /\ world \in Worlds /\ IsRun(world, run)
    BY DEF IInv, StudyInv, Begin
  <1>2. CASE Fail
    BY <1>1, <1>2, EndGood
  <1>3. CASE ~Fail
    <2> DEFINE cases == [i \in DOMAIN run.base.cohort.cases |-> "queued"]
    <2>1. run' = [run EXCEPT !.step = "work", !.cases = cases]
      BY <1>3 DEF Begin
    <2>2. run.kind # "truth" => Locked(run.base)
      BY <1>3 DEF Begin, LockedState, Locked
    <2>3. /\ run'.step = "work" /\ run'.kind = run.kind /\ run'.scanner = run.scanner
          /\ run'.base = run.base /\ run'.work = run.work /\ run'.cases = cases
          /\ run'.results = run.results
      BY <1>1, <2>1 DEF Working, RunFields
    <2>4. IsList(run.base.cohort.cases)
      BY <1>1, CasesAre DEF IsRun, IsTree
    <2>5. cases \in [1..Len(run.base.cohort.cases) -> CaseStates]
      BY <2>4 DEF IsList, CaseStates
    <2>6. \A i \in DOMAIN cases : cases[i] = "queued"
      OBVIOUS
    <2>7. run.results = <<>>
      BY <1>1 DEF IsRun
    <2> HIDE DEF cases
    <2>8. Cardinality(BusyIn(run'.cases)) <= Workers /\ Pool(world, run')
      BY <2>3, <2>6, <2>7, NoneBusy, EmptyPool
    <2>9. IsRun(world, run')
      BY <1>1, <2>2, <2>3, <2>5, <2>6, <2>7, <2>8 DEF IsRun, Steps
    <2> QED BY <1>1, <2>9 DEF StudyInv
  <1> QED BY <1>2, <1>3

LEMMA WorkerGood == ASSUME StudyInv, IInv, Worker PROVE StudyInv'
  <1>1. PICK i \in DOMAIN run.cases :
          Take(i) \/ Hang(i) \/ WriteTruth(i) \/ FetchToScan(i) \/ ScanCase(i)
    BY DEF Worker
  <1>2. /\ run # Idle /\ world' = world /\ tree' = tree /\ comparison' = comparison
        /\ Working(run) /\ world \in Worlds /\ IsRun(world, run)
    BY <1>1 DEF IInv, StudyInv, Worker, Take, Hang, WriteTruth, FetchToScan, ScanCase
  <1>3. ASSUME IsRun(world, run')
        PROVE  StudyInv'
    BY <1>2, <1>3 DEF StudyInv
  <1>4. ASSUME run.cases[i] \in {"queued", "fetching", "scanning"}
        PROVE  /\ Case(i) = run.base.cohort.cases[i]
               /\ i \in DOMAIN run.base.cohort.cases
               /\ Case(i) \in ToSet(run.base.cohort.cases) /\ IsCase(world, Case(i))
               /\ App(i) = SourceOf(world, Case(i))
               /\ \A s \in Scanners \cup {Frozen} :
                    /\ IsScan(ScansOf(world, s)[Case(i).repo])
                    /\ ScansOf(world, s)[Case(i).repo] = Scans[world.scans[s][Case(i).repo]]
               /\ run.kind # "truth" => IsTruth(run.base.truth[Case(i).truth])
    <2>1. /\ i \in DOMAIN run.base.cohort.cases /\ run.base.cohort.cases \in CaseLists(world)
          /\ IsTree(world, run.base)
          /\ run.kind # "truth" => Locked(run.base)
      BY <1>2, <1>4, RunAtWork
    <2>2. Case(i) = run.base.cohort.cases[i] /\ App(i) = SourceOf(world, Case(i))
      BY DEF Case, App, SourceOf
    <2>3. /\ Case(i) \in ToSet(run.base.cohort.cases) /\ IsCase(world, Case(i))
          /\ \A s \in Scanners \cup {Frozen} : IsScan(ScansOf(world, s)[Case(i).repo])
      BY <1>2, <2>1, <2>2, CasesAre
    <2>4. \A s \in Scanners \cup {Frozen} :
            ScansOf(world, s)[Case(i).repo] = Scans[world.scans[s][Case(i).repo]]
      BY <2>3 DEF ScansOf, IsCase
    <2>5. run.kind # "truth" => IsTruth(run.base.truth[Case(i).truth])
      BY <1>2, <2>1, <2>2, LockedTruths
    <2> QED BY <2>1, <2>2, <2>3, <2>4, <2>5
  <1>5. CASE Take(i)
    <2>1. /\ run.cases[i] = "queued" /\ Cardinality(BusyIn(run.cases)) < Workers
          /\ run' = [run EXCEPT !.cases[i] = "fetching"]
      BY <1>5 DEF Take, Busy, BusyIn
    <2>2. IsRun(world, run')
      BY <1>2, <2>1, CaseMoves
    <2> QED BY <1>3, <2>2
  <1>6. CASE Hang(i)
    <2>1. run.cases[i] = "fetching" /\ run' = [run EXCEPT !.cases[i] = "raised"]
      BY <1>6 DEF Hang
    <2>2. IsRun(world, run')
      BY <1>2, <2>1, CaseMoves
    <2> QED BY <1>3, <2>2
  <1>7. CASE WriteTruth(i)
    <2>1. run.kind = "truth" /\ run.cases[i] = "fetching"
      BY <1>7 DEF WriteTruth
    <2>2. CASE run' = [run EXCEPT !.cases[i] = "raised"]
      <3>1. IsRun(world, run')
        BY <1>2, <2>1, <2>2, CaseMoves
      <3> QED BY <1>3, <3>1
    <2>3. CASE ~(run' = [run EXCEPT !.cases[i] = "raised"])
      <3>1. PICK error \in FetchErrors(i) :
              run' = [run EXCEPT
                       !.cases[i] = "done",
                       !.work.truth[Case(i).id] =
                          BuildTruth(Case(i), App(i), error,
                                     Case(i).id \in ToSet(run.base.cohort.tierB),
                                     Case(i).id \in ToSet(run.base.cohort.tierC))]
        BY <1>7, <2>3 DEF WriteTruth
      <3>2. error \in Errors
        BY <3>1 DEF FetchErrors, Errors
      <3> DEFINE t == BuildTruth(Case(i), App(i), error,
                                 Case(i).id \in ToSet(run.base.cohort.tierB),
                                 Case(i).id \in ToSet(run.base.cohort.tierC))
      <3>3. BuiltOf(world, run.base.cohort.cases, t)
        <4>1. /\ Case(i) \in ToSet(run.base.cohort.cases) /\ App(i) = SourceOf(world, Case(i))
          BY <1>4, <2>1
        <4>2. /\ (Case(i).id \in ToSet(run.base.cohort.tierB)) \in BOOLEAN
              /\ (Case(i).id \in ToSet(run.base.cohort.tierC)) \in BOOLEAN
          OBVIOUS
        <4> QED BY <3>2, <4>1, <4>2 DEF BuiltOf
      <3> DEFINE f == Case(i).id
      <3>4. run' = [run EXCEPT !.cases[i] = "done", !.work.truth[f] = t]
        BY <3>1
      <3> HIDE DEF t, f
      <3>5. IsRun(world, run')
        BY <1>2, <2>1, <3>3, <3>4, CaseWritten
      <3> QED BY <1>3, <3>5
    <2> QED BY <2>2, <2>3
  <1>8. CASE FetchToScan(i)
    <2>1. run.kind # "truth" /\ run.cases[i] = "fetching"
      BY <1>8 DEF FetchToScan
    <2>2. CASE run' = [run EXCEPT !.cases[i] = "scanning"]
      <3>1. IsRun(world, run')
        BY <1>2, <2>1, <2>2, CaseMoves
      <3> QED BY <1>3, <3>1
    <2>3. CASE run' = Answer(i, Failed(Case(i), "fetch_error"))
      <3>1. IsAnswer(world, run, Failed(Case(i), "fetch_error"), i)
        BY DEF IsAnswer, IsScoreOf, Failed, Case
      <3>2. IsRun(world, run')
        BY <1>2, <2>1, <2>3, <3>1, CaseAnswers DEF Answer
      <3> QED BY <1>3, <3>2
    <2> QED BY <1>8, <2>2, <2>3 DEF FetchToScan
  <1>9. CASE ScanCase(i)
    <2> DEFINE truth == run.base.truth[Case(i).truth]
               scan == Scans[world.scans[run.scanner][Case(i).repo]]
    <2>1. run.cases[i] = "scanning" /\ run.kind # "truth"
      BY <1>2, <1>9 DEF ScanCase, IsRun
    <2>2. PICK c \in {Scored(Case(i), truth, scan), Failed(Case(i), "timeout"),
                      Failed(Case(i), "scanner_error")} :
            run' = Answer(i, c)
      BY <1>9 DEF ScanCase
    <2>3. IsAnswer(world, run, c, i)
      <3>1. CASE c = Failed(Case(i), "timeout") \/ c = Failed(Case(i), "scanner_error")
        <4>1. c.id = Case(i).id /\ c.status # "success"
          BY <3>1 DEF Failed
        <4> QED BY <4>1 DEF IsAnswer, IsScoreOf, Case
      <3>2. CASE c = Scored(Case(i), truth, scan)
        <4>1. run.scanner \in Scanners \cup {Frozen}
          BY <1>2, <2>1 DEF IsRun, Kinds
        <4>2. /\ IsTruth(truth) /\ IsScan(scan) /\ scan = ScansOf(world, run.scanner)[Case(i).repo]
              /\ Case(i) = run.base.cohort.cases[i]
          BY <1>4, <2>1, <4>1
        <4>3. c.id = Case(i).id
          BY <3>2 DEF Scored
        <4> QED BY <3>2, <4>2, <4>3 DEF IsAnswer, IsScoreOf
      <3> QED BY <3>1, <3>2
    <2>4. IsRun(world, run')
      BY <1>2, <2>1, <2>2, <2>3, CaseAnswers DEF Answer
    <2> QED BY <1>3, <2>4
  <1> QED BY <1>1, <1>5, <1>6, <1>7, <1>8, <1>9

\* A directory that validates and whose cohort is locked has no case twice.
LEMMA LockedOnce ==
  ASSUME NEW t, ValidState(t), t.cohort.locked
  PROVE  OneEach(t.cohort.cases)
  BY DEF ValidState, ValidCohort, UnfrozenCohort, OneEach

LEMMA FinishTruthGood == ASSUME StudyInv, IInv, FinishTruth PROVE StudyInv'
  <1> DEFINE work == [run.work EXCEPT !.cohort.locked = TRUE]
  <1>1. /\ run # Idle /\ run.kind = "truth" /\ run.step = "work"
        /\ world' = world /\ tree' = tree /\ comparison' = comparison
        /\ Working(run) /\ world \in Worlds /\ IsRun(world, run)
    BY DEF IInv, StudyInv, FinishTruth
  <1>2. CASE Fail
    BY <1>1, <1>2, EndGood
  <1>3. CASE ~Fail
    <2>1. run' = [run EXCEPT !.step = "push", !.work = work] /\ ValidState(work)
      BY <1>3 DEF FinishTruth
    <2>2. /\ run'.step = "push" /\ run'.kind = run.kind /\ run'.scanner = run.scanner
          /\ run'.base = run.base /\ run'.work = work /\ run'.cases = run.cases
          /\ run'.results = run.results
      BY <1>1, <2>1 DEF Working, RunFields
    <2>3. /\ IsTree(world, run.base) /\ run.work.cohort = run.base.cohort
          /\ run.work.baseline = run.base.baseline /\ DOMAIN run.work = TreeFields
      BY <1>1 DEF IsRun, Working
    <2>4. /\ DOMAIN work = TreeFields /\ DOMAIN work.cohort = CohortFields
          /\ work.cohort.cases = run.base.cohort.cases /\ work.cohort.locked = TRUE
          /\ work.truth = run.work.truth /\ work.baseline = run.base.baseline
      BY <2>3 DEF IsTree, TreeFields, CohortFields
    <2> HIDE DEF work
    <2>5. OneEach(run.base.cohort.cases) /\ run.base.cohort.cases \in CaseLists(world)
      BY <2>1, <2>3, <2>4, LockedOnce DEF IsTree
    <2>6. BuiltTruths(world, work.truth)
      BY <1>1, <2>4, <2>5 DEF IsRun, BuiltTruths
    <2>7. IsTree(world, work)
      BY <2>3, <2>4, <2>5, <2>6 DEF IsTree
    <2>8. IsRun(world, run')
      BY <1>1, <2>2, <2>7 DEF IsRun, Steps
    <2> QED BY <1>1, <2>8 DEF StudyInv
  <1> QED BY <1>2, <1>3

\* The results that a run has when all of its cases are done.
LEMMA ReportIs ==
  ASSUME NEW w \in Worlds, NEW r, IsRun(w, r), r.kind # "truth", r.step = "work",
         \A i \in DOMAIN r.cases : r.cases[i] = "done",
         NEW list, list = InOrder(r.results, r.base.cohort.cases)
  PROVE  /\ IsTree(w, r.base) /\ Locked(r.base)
         /\ IsScores(list, r.base, ScansOf(w, r.scanner))
         /\ Len(list) = Len(r.base.cohort.cases) /\ DOMAIN list = DOMAIN r.base.cohort.cases
         /\ \A i \in DOMAIN list : list[i].id = r.base.cohort.cases[i].id
         /\ DistinctBy(list, "id")
         /\ Len(list) = Registered.target
  <1>1. /\ IsTree(w, r.base) /\ Locked(r.base) /\ Pool(w, r) /\ r.base.cohort.cases \in CaseLists(w)
        /\ r.cases \in [1..Len(r.base.cohort.cases) -> CaseStates]
    BY DEF IsRun, IsTree
  <1>2. IsList(r.base.cohort.cases) /\ OneEach(r.base.cohort.cases)
        /\ Len(r.base.cohort.cases) = Registered.target
    BY <1>1, CasesAre, LockedIs
  <1>3. DOMAIN r.cases = DOMAIN r.base.cohort.cases
    BY <1>1, <1>2 DEF IsList
  <1>4. /\ IsScores(list, r.base, ScansOf(w, r.scanner))
        /\ Len(list) = Len(r.base.cohort.cases) /\ DOMAIN list = DOMAIN r.base.cohort.cases
        /\ \A i \in DOMAIN list : list[i].id = r.base.cohort.cases[i].id
        /\ DistinctBy(list, "id")
    BY <1>1, <1>2, <1>3, PoolComplete
  <1> QED BY <1>1, <1>2, <1>4

LEMMA FinishBaselineGood == ASSUME StudyInv, IInv, FinishBaseline PROVE StudyInv'
  <1>1. /\ run # Idle /\ run.kind = "baseline" /\ run.step = "work" /\ AllReturned
        /\ world' = world /\ tree' = tree /\ comparison' = comparison
        /\ Working(run) /\ world \in Worlds /\ IsRun(world, run)
    BY DEF IInv, StudyInv, FinishBaseline
  <1>2. CASE Fail
    BY <1>1, <1>2, EndGood
  <1>3. CASE ~Fail
    <2> DEFINE list == InOrder(run.results, run.base.cohort.cases)
    <2>1. run' = [run EXCEPT !.step = "push", !.work.baseline = Report] /\ ~Raised
      BY <1>3 DEF FinishBaseline
    <2>2. /\ run'.step = "push" /\ run'.kind = run.kind /\ run'.scanner = run.scanner
          /\ run'.base = run.base /\ run'.work = [run.work EXCEPT !.baseline = Report]
          /\ run'.cases = run.cases /\ run'.results = run.results
      BY <1>1, <2>1 DEF Working, RunFields
    <2>3. /\ DOMAIN run'.work = TreeFields /\ run'.work.cohort = run.base.cohort
          /\ run'.work.truth = run.base.truth /\ run'.work.baseline = Report
      BY <1>1, <2>2 DEF Working, TreeFields
    <2>4. \A i \in DOMAIN run.cases : run.cases[i] = "done"
      BY <1>1, <2>1 DEF AllReturned, Raised
    <2>5. run.scanner = Frozen /\ Report = Aggregate(list, Frozen, "baseline")
      BY <1>1 DEF IsRun, Report
    <2>6. /\ IsTree(world, run.base) /\ Locked(run.base)
          /\ IsScores(list, run.base, ScansOf(world, run.scanner))
          /\ DistinctBy(list, "id") /\ Len(list) = Registered.target
      BY <1>1, <2>4, ReportIs
    <2> HIDE DEF list
    <2>7. Results(list)
      BY <2>6, ScoresAreResults
    <2>8. IsBaseline(Report)
      <3>1. Report.cases = list
        BY <2>5, AggregateIs
      <3>2. \A c \in ToSet(list) : IsResult(c)
        BY <2>7 DEF Results, ToSet
      <3> QED BY <2>5, <2>6, <2>7, <3>1, <3>2 DEF IsBaseline, Results
    <2>9. IsTree(world, run'.work)
      BY <2>3, <2>6, <2>8 DEF IsTree
    <2>10. Pool(world, run')
      <3>1. Pool(world, run)
        BY <1>1 DEF IsRun
      <3>2. \A c, i : IsAnswer(world, run', c, i) <=> IsAnswer(world, run, c, i)
        BY <2>2 DEF IsAnswer
      <3> QED BY <2>2, <3>1, <3>2 DEF Pool
    <2>11. IsRun(world, run')
      BY <1>1, <2>2, <2>9, <2>10 DEF IsRun, Steps
    <2> QED BY <1>1, <2>11 DEF StudyInv
  <1> QED BY <1>2, <1>3

LEMMA FinishPostfixGood == ASSUME StudyInv, IInv, FinishPostfix PROVE StudyInv'
  <1>1. /\ run # Idle /\ run.kind = "postfix" /\ run.step = "work" /\ AllReturned
        /\ world' = world /\ tree' = tree /\ Fail
        /\ Working(run) /\ world \in Worlds /\ IsRun(world, run)
    BY DEF IInv, StudyInv, FinishPostfix
  <1>2. CASE comparison' = comparison
    BY <1>1, <1>2, EndGood
  <1>3. CASE comparison' # comparison
    <2> DEFINE list == InOrder(run.results, run.base.cohort.cases)
    <2>1. /\ ~Raised /\ run.base.baseline # None
          /\ comparison' = [base |-> run.base, candidate |-> Report,
                            result |-> Compare(run.base.baseline, Report)]
      BY <1>3 DEF FinishPostfix
    <2>2. \A i \in DOMAIN run.cases : run.cases[i] = "done"
      BY <1>1, <2>1 DEF AllReturned, Raised
    <2>3. run.scanner \in Scanners /\ Report = Aggregate(list, run.scanner, "postfix")
      BY <1>1 DEF IsRun, Report
    <2>4. /\ IsTree(world, run.base) /\ Locked(run.base)
          /\ IsScores(list, run.base, ScansOf(world, run.scanner))
          /\ Len(list) = Len(run.base.cohort.cases) /\ DOMAIN list = DOMAIN run.base.cohort.cases
          /\ \A i \in DOMAIN list : list[i].id = run.base.cohort.cases[i].id
      BY <1>1, <2>2, ReportIs
    <2> HIDE DEF list
    <2>5. Report.cases = list /\ Report.scanner = run.scanner
      BY <2>3, AggregateIs
    <2>6. /\ comparison'.base = run.base /\ comparison'.candidate = Report
          /\ comparison'.result = Compare(run.base.baseline, Report)
      BY <2>1
    <2>7. IsComparison(world, comparison')
      BY <2>1, <2>3, <2>4, <2>5, <2>6 DEF IsComparison
    <2> QED BY <1>1, <2>7 DEF StudyInv, Fail
  <1> QED BY <1>2, <1>3

LEMMA PushGood == ASSUME StudyInv, Push PROVE StudyInv'
  <1>1. /\ run # Idle /\ run.step = "push" /\ run' = Idle /\ tree' \in {tree, run.work}
        /\ world' = world /\ comparison' = comparison
    BY DEF Push, Fail
  <1>2. IsTree(world, run.work)
    BY <1>1 DEF StudyInv, IsRun
  <1> QED BY <1>1, <1>2 DEF StudyInv

LEMMA StudyInvKept == StudyInv /\ IInv /\ [Next]_vars => StudyInv'
  <1> SUFFICES ASSUME StudyInv, IInv, [Next]_vars
               PROVE  StudyInv'
    OBVIOUS
  <1>1. CASE UNCHANGED vars
    BY <1>1 DEF vars, StudyInv
  <1>2. CASE Workflow
    BY <1>2, BeginGood, WorkerGood, FinishTruthGood, FinishBaselineGood, FinishPostfixGood, PushGood
       DEF Workflow
  <1>3. CASE StartTruth \/ StartBaseline \/ StartPostfix
    BY <1>3, StartGood DEF StartTruth, StartBaseline, StartPostfix
  <1>4. CASE Cancel
    BY <1>4, EndGood DEF Cancel
  <1> QED BY <1>1, <1>2, <1>3, <1>4, CommitGood DEF Next

LEMMA StudyInvHolds == Spec => []StudyInv
  <1>1. Init => IInv
    BY WorldsAssumption DEF Init, IInv
  <1>2. Init => StudyInv
    BY InitGood
  <1> QED BY <1>1, <1>2, InvariantKept, StudyInvKept, PTL DEF Spec

-----------------------------------------------------------------------------
(* What follows                                                            *)

\* The metrics of a report of scored cases.
LEMMA MetricsAre ==
  ASSUME NEW cases, Results(cases), NEW scanner, NEW mode, NEW d \in AllDims
  PROVE  LET m == Aggregate(cases, scanner, mode).metrics[d] IN
         /\ m.fn >= 0 /\ m.fp >= 0 /\ m.unadjudicated >= 0
         /\ m.truth = m.tp + m.fn
  <1> DEFINE m == Metric(cases, Successes(cases), d)
  <1>1. Aggregate(cases, scanner, mode).metrics[d] = m
    BY AggregateIs
  <1>2. /\ m.fn \in Nat /\ m.fp \in Nat /\ m.unadjudicated \in Nat
        /\ m.truth = m.tp + m.fn
    BY MetricIs
  <1> HIDE DEF m
  <1>3. m.fn >= 0 /\ m.fp >= 0 /\ m.unadjudicated >= 0 /\ m.truth = m.tp + m.fn
    BY <1>2
  <1> QED BY <1>1, <1>3

\* A comparison's candidate has the results of the locked cases.
LEMMA CandidateIs ==
  ASSUME NEW w \in Worlds, NEW c, IsComparison(w, c)
  PROVE  /\ c.base.cohort.cases \in CaseLists(w) /\ IsList(c.base.cohort.cases)
         /\ OneEach(c.base.cohort.cases) /\ Len(c.base.cohort.cases) = Registered.target
         /\ DOMAIN c.candidate.cases = DOMAIN c.base.cohort.cases
         /\ Results(c.candidate.cases) /\ DistinctBy(c.candidate.cases, "id")
  <1> DEFINE list == c.candidate.cases
             cases == c.base.cohort.cases
  <1>1. /\ IsTree(w, c.base) /\ Locked(c.base)
        /\ IsScores(list, c.base, ScansOf(w, c.candidate.scanner))
        /\ Len(list) = Len(cases) /\ \A i \in DOMAIN list : list[i].id = cases[i].id
    BY DEF IsComparison
  <1>2. cases \in CaseLists(w) /\ IsList(cases) /\ OneEach(cases) /\ Len(cases) = Registered.target
    BY <1>1, CasesAre, LockedIs DEF IsTree
  <1> HIDE DEF list, cases
  <1>3. Results(list) /\ IsList(list)
    BY <1>1, ScoresAreResults DEF IsScores
  <1>4. DOMAIN list = DOMAIN cases
    BY <1>1, <1>2, <1>3 DEF IsList
  <1>5. DistinctBy(list, "id")
    <2>1. \A i, j \in DOMAIN cases : cases[i]["id"] = cases[j]["id"] => i = j
      BY <1>2, DistinctMeans DEF OneEach
    <2>2. \A i, j \in DOMAIN list : list[i]["id"] = list[j]["id"] => i = j
      BY <1>1, <1>4, <2>1
    <2> QED BY <1>3, <2>2, MeansDistinct
  <1> QED BY <1>2, <1>3, <1>4, <1>5 DEF list, cases

\* A report that somebody can see is the aggregate of results that can be scored.
LEMMA ReportsAre ==
  ASSUME StudyInv, NEW r \in Reports
  PROVE  /\ \E scanner, mode : r = Aggregate(r.cases, scanner, mode)
         /\ Results(r.cases) /\ DistinctBy(r.cases, "id") /\ Len(r.cases) = Registered.target
  <1>1. CASE r = tree.baseline /\ tree.baseline # None
    <2>1. IsBaseline(r)
      BY <1>1 DEF StudyInv, IsTree
    <2>2. r = Aggregate(r.cases, Frozen, "baseline")
      BY <2>1 DEF IsBaseline
    <2>3. IsList(r.cases) /\ \A i \in DOMAIN r.cases : r.cases[i] \in ToSet(r.cases)
      BY <2>1 DEF IsBaseline, ToSet
    <2>4. Results(r.cases)
      BY <2>1, <2>3 DEF IsBaseline, Results
    <2>5. DistinctBy(r.cases, "id") /\ Len(r.cases) = Registered.target
      BY <2>1 DEF IsBaseline
    <2> QED BY <2>2, <2>4, <2>5
  <1>2. CASE comparison # None /\ r = comparison.candidate
    <2>1. IsComparison(world, comparison) /\ world \in Worlds
      BY <1>2 DEF StudyInv
    <2>2. /\ r = Aggregate(r.cases, r.scanner, "postfix")
          /\ Len(r.cases) = Len(comparison.base.cohort.cases)
      BY <1>2, <2>1 DEF IsComparison
    <2>3. /\ Results(r.cases) /\ DistinctBy(r.cases, "id")
          /\ Len(comparison.base.cohort.cases) = Registered.target
      BY <1>2, <2>1, CandidateIs
    <2> QED BY <2>2, <2>3
  <1> QED BY <1>1, <1>2 DEF Reports

LEMMA TypeHolds == ASSUME StudyInv, IInv PROVE TypeOK
  <1>1. \A t \in {tree} \cup (IF run = Idle THEN {} ELSE {run.base, run.work}) : DOMAIN t = TreeFields
    BY DEF IInv, Working
  <1>2. ASSUME run # Idle
        PROVE  /\ run.kind \in Kinds /\ run.step \in Steps /\ run.scanner \in Scanners \cup {Frozen, None}
               /\ Range(run.cases) \subseteq CaseStates
               /\ Cardinality(Busy) <= Workers
               /\ Len(run.results) <= Len(run.cases)
    <2>1. IsRun(world, run) /\ world \in Worlds
      BY <1>2 DEF StudyInv
    <2>2. run.kind \in Kinds /\ run.step \in Steps /\ run.scanner \in Scanners \cup {Frozen, None}
      BY <2>1 DEF IsRun, Kinds
    <2>3. Cardinality(Busy) <= Workers
      BY <2>1 DEF IsRun, Busy, BusyIn
    <2>4. \/ run.cases = <<>>
          \/ run.step # "check" /\ run.cases \in [1..Len(run.base.cohort.cases) -> CaseStates]
      BY <2>1 DEF IsRun
    <2>5. Range(run.cases) \subseteq CaseStates
      BY <2>4 DEF Range
    <2>6. IsList(run.cases)
      <3>1. run.base.cohort.cases \in CaseLists(world)
        BY <2>1 DEF IsRun, IsTree
      <3>2. Len(run.base.cohort.cases) \in Nat
        BY <2>1, <3>1, CasesAre DEF IsList
      <3> QED BY <2>4, <3>2 DEF IsList
    <2>7. Len(run.results) <= Len(run.cases)
      <3>1. CASE run.results = <<>>
        BY <2>6, <3>1 DEF IsList
      <3>2. CASE run.results # <<>>
        <4>1. Pool(world, run)
          BY <2>1, <3>2 DEF IsRun
        <4> DEFINE D == DOMAIN run.results
                   C == DOMAIN run.cases
                   at == [k \in D |-> CHOOSE i \in C : run.results[k].id = run.base.cohort.cases[i].id]
        <4>2. \A k \in D : at[k] \in C /\ run.results[k].id = run.base.cohort.cases[at[k]].id
          <5>1. \A k \in D : \E i \in C : run.results[k].id = run.base.cohort.cases[i].id
            BY <4>1 DEF Pool, IsAnswer
          <5> QED BY <5>1
        <4>3. \A k, l \in D : at[k] = at[l] => k = l
          <5>1. \A k, l \in D : run.results[k].id = run.results[l].id => k = l
            BY <4>1 DEF Pool
          <5> HIDE DEF at, D
          <5> QED BY <4>2, <5>1
        <4>4. at \in Injection(D, C)
          <5>1. at \in [D -> C]
            <6>1. \A k \in D : at[k] \in C
              BY <4>2
            <6> QED BY <6>1
          <5> HIDE DEF at, D, C
          <5> QED BY <4>3, <5>1 DEF Injection, IsInjective
        <4>5. /\ IsFiniteSet(D) /\ Cardinality(D) = Len(run.results)
              /\ IsFiniteSet(C) /\ Cardinality(C) = Len(run.cases)
          BY <2>6, <4>1, ListFinite DEF Pool
        <4> HIDE DEF D, C, at
        <4>6. Cardinality(D) <= Cardinality(C)
          BY <4>4, <4>5, FS_Injection
        <4> QED BY <4>5, <4>6
      <3> QED BY <3>1, <3>2
    <2> QED BY <2>2, <2>3, <2>5, <2>7
  <1>3. ASSUME NEW r \in Reports, NEW d \in AllDims
        PROVE  /\ r.metrics[d].fn >= 0 /\ r.metrics[d].fp >= 0 /\ r.metrics[d].unadjudicated >= 0
               /\ r.metrics[d].truth = r.metrics[d].tp + r.metrics[d].fn
    <2>1. PICK scanner, mode : r = Aggregate(r.cases, scanner, mode)
      BY <1>3, ReportsAre
    <2>2. Results(r.cases)
      BY <1>3, ReportsAre
    <2> DEFINE list == r.cases
    <2>3. r = Aggregate(list, scanner, mode) /\ Results(list)
      BY <2>1, <2>2
    <2> HIDE DEF list
    <2> QED BY <2>3, MetricsAre
  <1> QED BY <1>1, <1>2, <1>3 DEF TypeOK

LEMMA ProtocolFollowed == ASSUME StudyInv PROVE ReportsFollowProtocol
  <1>1. ASSUME NEW r \in Reports
        PROVE  /\ r.cohortCases = Registered.target
               /\ DistinctBy(r.cases, "id")
               /\ r.successful + Cardinality(r.failures) = r.cohortCases
    <2>1. PICK scanner, mode : r = Aggregate(r.cases, scanner, mode)
      BY <1>1, ReportsAre
    <2> DEFINE list == r.cases
    <2>2. /\ r = Aggregate(list, scanner, mode)
          /\ Results(list) /\ DistinctBy(list, "id") /\ Len(list) = Registered.target
      BY <1>1, <2>1, ReportsAre
    <2> HIDE DEF list
    <2>3. r.cohortCases = Len(list)
      BY <2>2, AggregateIs
    <2>4. r.successful + Cardinality(r.failures) = r.cohortCases
      BY <2>2, CasesAddUp DEF Results
    <2> QED BY <2>2, <2>3, <2>4 DEF list
  <1>2. ASSUME tree.baseline # None
        PROVE  tree.baseline.scanner = Frozen
    <2> DEFINE b == tree.baseline
               list == b.cases
    <2>1. b = Aggregate(list, Frozen, "baseline")
      BY <1>2 DEF StudyInv, IsTree, IsBaseline
    <2> HIDE DEF b, list
    <2>2. b.scanner = Frozen
      BY <2>1, AggregateIs
    <2> QED BY <2>2 DEF b
  <1>3. ASSUME comparison # None
        PROVE  LET cohort == comparison.base.cohort IN
               /\ [i \in DOMAIN cohort.cases |-> cohort.cases[i].id]
                    = [i \in DOMAIN cohort.cases |-> comparison.candidate.cases[i].id]
               /\ \A s \in ToSet(comparison.base.protocol.strata) : InStratum(cohort.cases, s.id) <= s.max
               /\ \A c \in ToSet(comparison.candidate.cases) :
                    c.status = "success" /\ c.id \in ToSet(cohort.tierB)
                      => "effective_authority" \in DOMAIN c.comparisons
    <2> DEFINE base == comparison.base
               cases == base.cohort.cases
               list == comparison.candidate.cases
               scans == ScansOf(world, comparison.candidate.scanner)
    <2>1. IsComparison(world, comparison) /\ world \in Worlds
      BY <1>3 DEF StudyInv
    <2>2. DOMAIN list = DOMAIN cases /\ IsList(cases)
      BY <2>1, CandidateIs
    <2>3. /\ \A i \in DOMAIN list : list[i].id = cases[i].id
          /\ Locked(base) /\ IsTree(world, base)
          /\ \A i \in DOMAIN list : IsScoreOf(list[i], cases[i], base.truth, scans)
      BY <2>1 DEF IsComparison, IsScores
    <2>4. \A s \in ToSet(base.protocol.strata) : InStratum(cases, s.id) <= s.max
      BY <2>3, LockedIs
    <2>5. ASSUME NEW i \in DOMAIN list, list[i].status = "success", list[i].id \in ToSet(base.cohort.tierB)
          PROVE  "effective_authority" \in DOMAIN list[i].comparisons
      <3> DEFINE case == cases[i]
                 truth == base.truth[case.truth]
                 scan == scans[case.repo]
      <3>1. IsTruth(truth) /\ IsScan(scan) /\ list[i] = Scored(case, truth, scan)
        BY <2>3, <2>5 DEF IsScoreOf
      <3>2. case \in ToSet(cases)
        BY <2>2 DEF ToSet
      <3>3. truth.tierB # None
        <4>1. InTierB(base.cohort, case.id)
          BY <2>3, <2>5 DEF InTierB
        <4>2. ValidTruth(truth, case.id, InTierB(base.cohort, case.id), InTierC(base.cohort, case.id))
          BY <2>3, <3>2, LockedIs
        <4> QED BY <4>1, <4>2 DEF ValidTruth
      <3> HIDE DEF case, truth, scan
      <3>4. DOMAIN list[i].comparisons = ComparedWith(truth)
        <4> DEFINE c == Scored(case, truth, scan)
        <4>1. DOMAIN c.comparisons = ComparedWith(truth)
          BY <3>1, ScoredIs
        <4> HIDE DEF c
        <4>2. list[i] = c
          BY <3>1 DEF c
        <4> QED BY <4>1, <4>2
      <3> QED BY <3>3, <3>4 DEF ComparedWith
    <2>6. \A c \in ToSet(list) : \E i \in DOMAIN list : c = list[i]
      BY DEF ToSet
    <2> QED BY <2>2, <2>3, <2>4, <2>5, <2>6
  <1> QED BY <1>1, <1>2, <1>3 DEF ReportsFollowProtocol

LEMMA LossIsVisible == ASSUME StudyInv, comparison # None PROVE LossVisible
  <1> DEFINE b == comparison.base.baseline.cases
             a == comparison.candidate.cases
             scanner == comparison.candidate.scanner
             before == Aggregate(b, Frozen, "baseline")
             after == Aggregate(a, scanner, "postfix")
  <1>1. IsComparison(world, comparison) /\ world \in Worlds
    BY DEF StudyInv
  <1>2. IsBaseline(comparison.base.baseline)
    BY <1>1 DEF IsComparison, IsTree
  <1>3. /\ comparison.base.baseline = before /\ comparison.candidate = after
        /\ comparison.result = Compare(comparison.base.baseline, comparison.candidate)
    BY <1>1, <1>2 DEF IsComparison, IsBaseline
  <1>4. /\ Results(a) /\ Len(a) = Registered.target
    BY <1>1, CandidateIs DEF IsComparison
  <1>5. Results(b) /\ Len(b) = Registered.target /\ DistinctBy(b, "id")
    BY <1>2 DEF IsBaseline, Results, ToSet
  <1> SUFFICES ASSUME SameYardstick(comparison.base.baseline, comparison.candidate),
                      \A d \in AllDims : comparison.base.baseline.metrics[d].truth <= 10000,
                      \A i \in DOMAIN a, d \in AllDims : FoundOf(a[i], d) <= FoundOf(b[i], d),
                      \E i \in DOMAIN a, d \in AllDims : FoundOf(a[i], d) < FoundOf(b[i], d)
               PROVE  comparison.result.regressions # {} \/ comparison.result.newFailures # {}
    BY DEF LossVisible
  <1> HIDE DEF a, b, scanner
  <1>6. SameYardstick(before, after) /\ \A d \in AllDims : before.metrics[d].truth <= 10000
    BY <1>3
  <1>7. Compare(before, after).regressions # {} \/ Compare(before, after).newFailures # {}
    <2>1. Len(a) = Len(b)
      BY <1>4, <1>5
    <2>2. \A i \in DOMAIN a, d \in AllDims : FoundOf(a[i], d) <= FoundOf(b[i], d)
      OBVIOUS
    <2>3. \E i \in DOMAIN a, d \in AllDims : FoundOf(a[i], d) < FoundOf(b[i], d)
      OBVIOUS
    <2> QED BY ONLY <1>4, <1>5, <1>6, <2>1, <2>2, <2>3, LossShows
  <1> HIDE DEF before, after
  <1> QED BY <1>3, <1>7

LEMMA GatesCover == ASSUME StudyInv, comparison # None PROVE GatesCoverCohort
  <1> DEFINE cases == comparison.candidate.cases
             base == comparison.base
             scanner == comparison.candidate.scanner
             scans == ScansOf(world, scanner)
  <1>1. IsComparison(world, comparison) /\ world \in Worlds
    BY DEF StudyInv
  <1>2. /\ IsScores(cases, base, scans) /\ comparison.candidate = Aggregate(cases, scanner, "postfix")
        /\ comparison.result = Compare(base.baseline, comparison.candidate)
    BY <1>1 DEF IsComparison
  <1>3. ASSUME comparison.result.gatesMet
        PROVE  /\ \A i \in DOMAIN cases : cases[i].status = "success"
               /\ Reaches(base, cases, "langgraph", "agent_entities", 8000)
               /\ Reaches(base, cases, "langgraph", "tools", 7000)
               /\ Reaches(base, cases, "mcp-custom", "agent_entities", 6000)
               /\ Reaches(base, cases, "mcp-custom", "tools", 6000)
    <2> HIDE DEF cases, base, scanner, scans
    <2>1. GatesMet(comparison.candidate)
      BY <1>2, <1>3 DEF Compare
    <2>2. GatesMet(Aggregate(cases, scanner, "postfix"))
      BY <1>2, <2>1
    <2> QED BY ONLY <1>2, <2>2, GatesAreOfAll
  <1>4. ASSUME comparison.result.gatesMet
        PROVE  \A c \in ToSet(cases) : c.status = "success"
    BY <1>3, <1>4 DEF ToSet
  <1> QED BY <1>3, <1>4 DEF GatesCoverCohort

LEMMA ScoresFair == ASSUME StudyInv PROVE ScoresAreFair
  <1> SUFFICES
        ASSUME comparison # None,
               NEW i \in DOMAIN comparison.candidate.cases,
               comparison.candidate.cases[i].status = "success",
               comparison.base.truth[comparison.base.cohort.cases[i].truth].repo
                 = comparison.base.cohort.cases[i].repo,
               NEW d \in EntityDims,
               Distinguishable(DeclaredIn(Apps[world.apps[comparison.base.cohort.cases[i].repo]], d)),
               CutOff(Apps[world.apps[comparison.base.cohort.cases[i].repo]], d) = {}
        PROVE  comparison.candidate.cases[i].comparisons[d].fp
                 <= comparison.candidate.cases[i].comparisons[d].predicted
                    - Cardinality(Named(DeclaredIn(Apps[world.apps[comparison.base.cohort.cases[i].repo]], d),
                        Scans[world.scans[comparison.candidate.scanner][comparison.base.cohort.cases[i].repo]], d))
    BY DEF ScoresAreFair, EntityDims, CutOff
  <1> DEFINE base == comparison.base
             cases == base.cohort.cases
             case == cases[i]
             scanner == comparison.candidate.scanner
             result == comparison.candidate.cases[i]
             app == Apps[world.apps[case.repo]]
             scan == Scans[world.scans[scanner][case.repo]]
             truth == base.truth[case.truth]
  <1>1. IsComparison(world, comparison) /\ world \in Worlds
    BY DEF StudyInv
  <1>2. cases \in CaseLists(world) /\ IsList(cases) /\ OneEach(cases) /\ i \in DOMAIN cases
    BY <1>1, CandidateIs
  <1>3. /\ IsTree(world, base) /\ Locked(base) /\ scanner \in Scanners
        /\ IsScoreOf(result, case, base.truth, ScansOf(world, scanner))
    BY <1>1 DEF IsComparison, IsScores
  <1>4. case \in ToSet(cases) /\ IsCase(world, case)
    BY <1>1, <1>2, CasesAre
  <1>5. scan = ScansOf(world, scanner)[case.repo] /\ app = SourceOf(world, case)
    BY <1>4 DEF ScansOf, IsCase, SourceOf
  <1>6. IsTruth(truth) /\ IsScan(scan) /\ result = Scored(case, truth, scan)
    BY <1>3, <1>5 DEF IsScoreOf
  <1>7. IsApp(app)
    BY <1>1, <1>2, <1>5, CasesAre
  <1>8. \E of, error, inB, inC : truth = BuildTruth(of, app, error, inB, inC)
    <2>0. truth.repo = case.repo
      OBVIOUS
    <2> HIDE DEF case, cases, truth, base, app
    <2>1. truth # None /\ case.truth \in DOMAIN base.truth /\ BuiltTruths(world, base.truth)
      <3>1. BuiltTruths(world, base.truth) /\ case.truth \in DOMAIN base.truth
        BY <1>3, <1>4 DEF IsTree, BuiltTruths, IsCase
      <3>2. truth # None
            /\ ValidTruth(truth, case.id, InTierB(base.cohort, case.id), InTierC(base.cohort, case.id))
        BY <1>3, <1>4, LockedIs DEF truth, cases
      <3> QED BY <3>1, <3>2 DEF ValidTruth
    <2>2. PICK others \in CaseLists(world) : OneEach(others) /\ BuiltOf(world, others, truth)
      BY <2>1 DEF BuiltTruths, truth
    <2>3. PICK of \in ToSet(others), error \in Errors, inB \in BOOLEAN, inC \in BOOLEAN :
            truth = BuildTruth(of, SourceOf(world, of), error, inB, inC)
      BY <2>2 DEF BuiltOf
    <2>4. truth.repo = of.repo
      BY <2>3 DEF BuildTruth, WithTiers
    <2>5. SourceOf(world, of) = app
      BY <1>5, <2>0, <2>4 DEF SourceOf
    <2> QED BY <2>3, <2>5
  <1>9. PICK of, error, inB, inC : truth = BuildTruth(of, app, error, inB, inC)
    BY <1>8
  <1> DEFINE n == EntityCounts(truth.reference, scan, d)
  <1>10. result.comparisons[d] = n
    <2> HIDE DEF case, truth, scan, result, n
    <2>1. d \in {"agent_entities", "tools", "mcp_servers"}
      BY DEF EntityDims
    <2>2. Scored(case, truth, scan).comparisons[d] = n
      <3>1. Scored(case, truth, scan).comparisons[d] = EntityCounts(truth.reference, scan, d)
        BY ONLY <1>6, <2>1, EntityScoreIs
      <3> QED BY <3>1 DEF n
    <2> QED BY <1>6, <2>2
  <1>11. n.fp <= n.predicted - Cardinality(Named(DeclaredIn(app, d), scan, d))
    <2>1. Distinguishable(DeclaredIn(app, d)) /\ CutOff(app, d) = {}
      OBVIOUS
    <2> HIDE DEF case, truth, scan, result, app
    <2>2. LET m == EntityCounts(BuildTruth(of, app, error, inB, inC).reference, scan, d) IN
          m.fp <= m.predicted - Cardinality(Named(DeclaredIn(app, d), scan, d))
      BY <1>6, <1>7, <2>1, ScoreIsFair
    <2> QED BY <1>9, <2>2
  <1> QED BY <1>10, <1>11

-----------------------------------------------------------------------------
(* Theorems *)

(***************************************************************************)
(* The documents of a directory and of a checked out commit keep their     *)
(* fields, a pool has no more workers busy than it has and no more results *)
(* than cases, and no count of a report is negative, as no prediction is   *)
(* counted for two facts.                                                  *)
(***************************************************************************)
THEOREM StudyTypeHolds == Spec => []TypeOK
  <1>1. Init => IInv
    BY WorldsAssumption DEF Init, IInv
  <1> QED BY <1>1, InvariantKept, StudyInvHolds, TypeHolds, PTL DEF Spec

(***************************************************************************)
(* What a workflow validated is what it reports on, whatever is committed  *)
(* meanwhile: the registered number of cases, each of them once and in the *)
(* cohort's order although the workers finish in any order, no framework   *)
(* above its maximum, authority scored where tier B asks for it, and the   *)
(* baseline of the frozen scanner.                                         *)
(***************************************************************************)
THEOREM ProtocolIsFollowed == Spec => []ReportsFollowProtocol
  BY StudyInvHolds, ProtocolFollowed, PTL

(***************************************************************************)
(* When the truth that a case is scored against is of the case's           *)
(* repository, then where it calls a dimension complete it had all of the  *)
(* source, so that whatever a scanner reports under a name that the source *)
(* declares is matched and no false positive, for any application, any     *)
(* scan and any cohorts, those included that give the identifier of a case *)
(* to another repository.                                                  *)
(***************************************************************************)
THEOREM ScoringIsFair == Spec => []ScoresAreFair
  BY StudyInvHolds, ScoresFair, PTL

(***************************************************************************)
(* A candidate that finds less than the baseline in some case and more in  *)
(* none shows it, in a measure that fell or a failure that is new; and one *)
(* that passes the release gates has scanned every case and found its      *)
(* share of the facts of each framework's references.                      *)
(***************************************************************************)
THEOREM LossesShow == Spec => []NoLossHidden
  <1>1. StudyInv => NoLossHidden
    BY LossIsVisible, GatesCover DEF NoLossHidden
  <1> QED BY <1>1, StudyInvHolds, PTL
===============================================================================
