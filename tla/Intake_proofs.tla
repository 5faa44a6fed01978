---------------------------- MODULE Intake_proofs ----------------------------
(***************************************************************************)
(* Theorems about Intake, for every set of repositories and all limits.    *)
(***************************************************************************)
EXTENDS Intake, FiniteSetTheorems, TLAPS

ReportedD(D, next) ==
  phase' \in {"stopped", next} /\ \E F \in SUBSET D : diagnostics' = diagnostics \cup F

(***************************************************************************)
(* Whatever add_diagnostic does, it adds some of what it is given.         *)
(***************************************************************************)
LEMMA ReportAdds ==
  ASSUME NEW D, NEW next, Report(D, next)
  PROVE  ReportedD(D, next)
  <1>1. D \in SUBSET D
    OBVIOUS
  <1> QED BY <1>1 DEF Report, ReportedD

(***************************************************************************)
(* Diagnostics and coverage counters are of their types.                   *)
(***************************************************************************)
LEMMA ReportTyped ==
  ASSUME TypeOK, NEW D \in SUBSET Diagnostic, NEW next, Report(D, next)
  PROVE  diagnostics' \subseteq Diagnostic /\ phase' \in {"stopped", next}
  BY ReportAdds DEF ReportedD, TypeOK

LEMMA CountedTyped ==
  ASSUME TypeOK, NEW a \in Nat, NEW b \in Nat, NEW c \in Nat, NEW d \in Nat,
         Counted(a, b, c, d)
  PROVE  counts' \in [considered : Nat, scanned : Nat, skipped : Nat, failed : Nat]
  BY DEF Counted, TypeOK

(***************************************************************************)
(* A scan keeps its types: no path from outside the root gets into what it *)
(* lists, collects or analyses.                                            *)
(***************************************************************************)
LEMMA TypeInit == Init => TypeOK
  BY RepositoriesAssumption DEF Init, TypeOK

LEMMA RealTyped ==
  ASSUME TypeOK, NEW p \in Paths
  PROVE  Real(p) \in Paths \cup {Outside, Nowhere}
  BY DEF Real, TypeOK, Links

LEMMA WalkTyped ==
  ASSUME TypeOK, Walk
  PROVE  TypeOK'
  <1> USE DEF walking, reading
  <1>1. ASSUME NEW d \in stack, ListDirectory(d)
        PROVE  TypeOK'
    <2>1. {Told("unreadable_path", d, TRUE)} \subseteq Diagnostic
      BY <1>1 DEF Told, Diagnostic, TypeOK
    <2>2. phase' \in {"walk", "stopped"} /\ diagnostics' \subseteq Diagnostic
      BY <1>1, <2>1, ReportTyped DEF ListDirectory, TypeOK
    <2>3. counts' \in [considered : Nat, scanned : Nat, skipped : Nat, failed : Nat]
      BY <1>1, CountedTyped DEF ListDirectory, TypeOK
    <2>4. /\ stack' \subseteq Paths \cup {Root} /\ listed' \subseteq Paths \cup {Root}
          /\ entries' \subseteq Paths
      BY <1>1 DEF ListDirectory, TypeOK
    <2> QED BY <1>1, <2>2, <2>3, <2>4 DEF ListDirectory, TypeOK, Links
  <1>2. ASSUME NEW p \in entries,
               Look(p),
               phase' \in {"walk", "stopped"}, diagnostics' \subseteq Diagnostic,
               counts' \in [considered : Nat, scanned : Nat, skipped : Nat, failed : Nat],
               stack' \subseteq Paths \cup {Root}, candidates' \subseteq Paths
        PROVE  TypeOK'
    BY <1>2 DEF Look, TypeOK, Links
  <1>3. ASSUME NEW p \in entries, TooManyEntries(p)
        PROVE  TypeOK'
    BY <1>2, <1>3 DEF TooManyEntries, Stop, TypeOK
  <1>4. ASSUME NEW p \in entries, LookAtBrokenLink(p)
        PROVE  TypeOK'
    <2>1. {Told("unreadable_path", p, TRUE)} \subseteq Diagnostic
      BY <1>4 DEF Told, Diagnostic, TypeOK
    <2>2. phase' \in {"walk", "stopped"} /\ diagnostics' \subseteq Diagnostic
      BY <1>4, <2>1, ReportTyped DEF LookAtBrokenLink, Look
    <2> QED BY <1>2, <1>4, <2>2, CountedTyped DEF LookAtBrokenLink, TypeOK
  <1>5. ASSUME NEW p \in entries, LookOutside(p)
        PROVE  TypeOK'
    <2>1. {Told("outside", p, FALSE)} \subseteq Diagnostic
      BY <1>5 DEF Told, Diagnostic, TypeOK
    <2>2. phase' \in {"walk", "stopped"} /\ diagnostics' \subseteq Diagnostic
      BY <1>5, <2>1, ReportTyped DEF LookOutside, Look
    <2> QED BY <1>2, <1>5, <2>2, CountedTyped DEF LookOutside, TypeOK
  <1>6. ASSUME NEW p \in entries, LookAtDirectory(p)
        PROVE  TypeOK'
    <2>1. counts' \in [considered : Nat, scanned : Nat, skipped : Nat, failed : Nat]
      BY <1>6, CountedTyped DEF LookAtDirectory, TypeOK
    <2>2. stack' \subseteq Paths \cup {Root}
      BY <1>6 DEF LookAtDirectory, TypeOK
    <2> QED BY <1>2, <1>6, <2>1, <2>2 DEF LookAtDirectory, Look, TypeOK
  <1>7. ASSUME NEW p \in entries, LookAtFile(p)
        PROVE  TypeOK'
    <2>1. counts' \in [considered : Nat, scanned : Nat, skipped : Nat, failed : Nat]
      BY <1>7, CountedTyped DEF LookAtFile, AddCandidate, TypeOK
    <2>2. candidates' \subseteq Paths /\ stack' = stack
      BY <1>7 DEF LookAtFile, AddCandidate, TypeOK
    <2>3. phase' \in {"walk", "stopped"} /\ diagnostics' \subseteq Diagnostic
      BY <1>7 DEF LookAtFile, AddCandidate, Stop, Look, TypeOK
    <2> QED BY <1>2, <1>7, <2>1, <2>2, <2>3 DEF LookAtFile, TypeOK
  <1>8. ASSUME EndWalk
        PROVE  TypeOK'
    BY <1>8 DEF EndWalk, TypeOK, Links
  <1> QED BY <1>1, <1>3, <1>4, <1>5, <1>6, <1>7, <1>8 DEF Walk

LEMMA IntakeTyped ==
  ASSUME TypeOK, NEW p \in todo, Take(p),
         phase' \in {"intake", "done", "stopped"}, diagnostics' \subseteq Diagnostic,
         counts' \in [considered : Nat, scanned : Nat, skipped : Nat, failed : Nat],
         seen' \subseteq Paths, analysed' \subseteq [path : Paths, file : Paths]
  PROVE  TypeOK'
  BY DEF Take, TypeOK, Links, walking

LEMMA TakeInTyped ==
  ASSUME TypeOK, NEW p \in todo, \/ CannotResolve(p) \/ LeftRoot(p) \/ Skip(p)
                                 \/ NoModule(p) \/ Refuse(p) \/ Fail(p) \/ Analyse(p)
  PROVE  TypeOK'
  <1>1. Take(p) /\ phase = "intake" /\ p \in Paths
    BY DEF CannotResolve, LeftRoot, Skip, NoModule, Refuse, Fail, Analyse, Read, Take, TypeOK
  <1>2. counts' \in [considered : Nat, scanned : Nat, skipped : Nat, failed : Nat]
    BY CountedTyped DEF CannotResolve, LeftRoot, Skip, NoModule, Refuse, Fail, Analyse
  <1>3. seen' \subseteq Paths
    BY DEF CannotResolve, LeftRoot, Skip, NoModule, Refuse, Fail, Analyse, Read, TypeOK
  <1>4. analysed' \subseteq [path : Paths, file : Paths]
    BY <1>1 DEF CannotResolve, LeftRoot, Skip, NoModule, Refuse, Fail, Analyse, Read, TypeOK
  <1>5. \A kind \in {"unreadable_path", "outside", "templated_source", "source_fragment",
                     "limit", "parse_error"}, incomplete \in BOOLEAN :
          {Told(kind, p, incomplete)} \in SUBSET Diagnostic
    BY <1>1 DEF Told, Diagnostic
  <1>6. \/ Stop
        \/ UNCHANGED <<diagnostics, phase>>
        \/ \E D \in SUBSET Diagnostic : Report(D, phase)
    BY <1>5 DEF CannotResolve, LeftRoot, Skip, NoModule, Refuse, Fail, Analyse
  <1>7. phase' \in {"intake", "stopped"} /\ diagnostics' \subseteq Diagnostic
    BY <1>1, <1>6, ReportTyped DEF Stop, TypeOK
  <1> QED BY <1>1, <1>2, <1>3, <1>4, <1>7, IntakeTyped

LEMMA FinishTyped ==
  ASSUME TypeOK, Finish
  PROVE  TypeOK'
  <1> DEFINE D == {Told("framework_not_normalized", p, TRUE) : p \in Unnormalized}
                    \cup {d \in {Told("no_targets", Root, TRUE)} : NoTargets}
  <1>1. Unnormalized \subseteq Paths
    BY DEF Unnormalized, Found, TypeOK
  <1>2. D \in SUBSET Diagnostic
    <2>1. \A p \in Unnormalized : Told("framework_not_normalized", p, TRUE) \in Diagnostic
      BY <1>1 DEF Told, Diagnostic
    <2>2. Told("no_targets", Root, TRUE) \in Diagnostic
      BY DEF Told, Diagnostic
    <2> QED BY <2>1, <2>2
  <1>3. Report(D, "done")
    BY DEF Finish
  <1>4. diagnostics' \subseteq Diagnostic /\ phase' \in {"stopped", "done"}
    BY <1>2, <1>3, ReportTyped
  <1> QED BY <1>4 DEF Finish, TypeOK, Links, walking, reading

LEMMA TypeStep ==
  ASSUME TypeOK, [Next]_vars
  PROVE  TypeOK'
  <1>1. CASE Walk
    BY <1>1, WalkTyped
  <1>2. CASE TakeIn
    BY <1>2, TakeInTyped DEF TakeIn
  <1>3. CASE Finish
    BY <1>3, FinishTyped
  <1>4. ASSUME NEW l \in Links(repo), NEW t \in repo[l].targets, Redirect(l, t)
        PROVE  TypeOK'
    <2>1. t \in Paths \cup {Outside, Nowhere}
      BY DEF TypeOK, Entry, Links
    <2> QED BY <1>4, <2>1 DEF Redirect, TypeOK, Links, walking, reading
  <1>5. CASE UNCHANGED vars
    BY <1>5 DEF vars, walking, reading, TypeOK, Links
  <1> QED BY <1>1, <1>2, <1>3, <1>4, <1>5 DEF Next

(***************************************************************************)
(* The scan keeps its types: no path that is not below the root gets into  *)
(* what it lists, collects or analyses, wherever links lead.               *)
(***************************************************************************)
THEOREM ScanTypeCorrect == SafetySpec => []TypeOK
  <1>1. Init => TypeOK
    BY TypeInit
  <1>2. TypeOK /\ [Next]_vars => TypeOK'
    BY TypeStep
  <1> QED BY <1>1, <1>2, PTL DEF SafetySpec

-----------------------------------------------------------------------------
(* Nothing is dropped in silence.                                          *)

\* What the walk owes of the directories it has listed.
Walked ==
  phase = "walk" =>
    /\ Root \in stack \cup listed
    /\ \/ Incomplete
       \/ \A p \in Paths \ entries :
            repo[p].parent \in listed /\ ~repo[p].ignored =>
              /\ repo[p].kind = "directory" => p \in stack \cup listed
              /\ repo[p].kind = "file" /\ Supported(p) => p \in candidates

\* What it has brought home.
Collected ==
  /\ \A p \in candidates \ Links(repo) : repo[p].kind = "file"
  /\ phase \in {"intake", "done"} =>
       Incomplete \/ \A f \in Files(repo) : Supported(f) => f \in candidates

\* Every candidate that is out of todo was taken care of.
Taken ==
  /\ phase = "walk" => seen = {}
  /\ phase = "done" => todo = {}
  /\ phase \in {"intake", "done"} =>
       \A p \in candidates \ (todo \cup Links(repo)) : Supported(p) => p \in seen

Accounted(q) == \/ Incomplete
              \/ Excused(repo, q)
              \/ \E a \in analysed : a.file = q /\ repo[a.path].name = repo[q].name

\* What was taken care of was not dropped, and was no malformed configuration.
Judged ==
  phase # "stopped" /\ AliasesAgree(repo) =>
    \A q \in seen : repo[q].kind = "file" =>
      ~Malformed(repo[q].name, repo[q].content) /\ Accounted(q)

LinksKept ==
  /\ repo \in Repositories
  /\ \A l \in Links(repo) : target[l] \in repo[l].targets

IInv == TypeOK /\ LinksKept /\ Walked /\ Collected /\ Taken /\ Judged

LEMMA ReportAll ==
  ASSUME NEW D, NEW next, Report(D, next), phase' # "stopped"
  PROVE  diagnostics' = diagnostics \cup D /\ phase' = next
  BY DEF Report

LEMMA ToldIncomplete ==
  ASSUME NEW kind, NEW p, Told(kind, p, TRUE) \in diagnostics'
  PROVE  Incomplete'
  <1>1. Told(kind, p, TRUE).incomplete
    BY DEF Told
  <1> QED BY <1>1, Zenon DEF Incomplete

LEMMA IncompleteStays ==
  ASSUME Incomplete, diagnostics \subseteq diagnostics'
  PROVE  Incomplete'
  BY DEF Incomplete

(***************************************************************************)
(* If the directories above it were listed, so is every visible one, once  *)
(* nothing is left to be listed.                                           *)
(***************************************************************************)
LEMMA AllVisibleListed ==
  ASSUME TypeOK, Walked, phase = "walk", stack = {}, entries = {}, ~Incomplete
  PROVE  \A f \in Files(repo) : Supported(f) => f \in candidates
  <1>1. listed \in SUBSET (Paths \cup {Root}) /\ Closed(repo, listed)
    BY DEF TypeOK, Walked, Closed
  <1>2. Visible(repo) \subseteq listed
    BY <1>1 DEF Visible
  <1> QED BY <1>2 DEF Files, Walked

(***************************************************************************)
(* The walk.                                                               *)
(***************************************************************************)
LEMMA ListKeeps ==
  ASSUME IInv, NEW d \in stack, ListDirectory(d)
  PROVE  Walked'
  <1> SUFFICES ASSUME phase' = "walk"
               PROVE  Walked'
    BY DEF Walked
  <1>1. /\ phase = "walk" /\ entries = {} /\ repo' = repo /\ candidates' = candidates
        /\ stack' = stack \ {d} /\ listed' = listed \cup {d}
    BY DEF ListDirectory, walking
  <1>2. stack' \cup listed' = stack \cup listed
    BY <1>1
  <1>3. Root \in stack' \cup listed'
    BY <1>1, <1>2 DEF IInv, Walked
  <1>4. CASE Unlistable(d)
    <2>1. diagnostics' = diagnostics \cup {Told("unreadable_path", d, TRUE)}
      BY <1>4, ReportAll DEF ListDirectory
    <2>2. Incomplete'
      BY <2>1, ToldIncomplete
    <2> QED BY <1>3, <2>2 DEF Walked
  <1>5. CASE ~Unlistable(d)
    <2>1. /\ entries' = {p \in Paths : repo[p].parent = d /\ repo[p].kind # "none"}
          /\ diagnostics' = diagnostics
      BY <1>5 DEF ListDirectory
    <2>2. Incomplete' <=> Incomplete
      BY <2>1 DEF Incomplete
    <2>3. ASSUME ~Incomplete, NEW p \in Paths \ entries', repo[p].parent \in listed', ~repo[p].ignored
          PROVE  /\ repo[p].kind = "directory" => p \in stack' \cup listed'
                 /\ repo[p].kind = "file" /\ Supported(p) => p \in candidates'
      <3>1. CASE repo[p].parent = d
        BY <2>1, <2>3, <3>1
      <3>2. CASE repo[p].parent \in listed
        BY <1>1, <1>2, <2>3, <3>2 DEF IInv, Walked
      <3> QED BY <1>1, <2>3, <3>1, <3>2
    <2> QED BY <1>1, <1>3, <2>2, <2>3 DEF Walked, Supported
  <1> QED BY <1>4, <1>5

\* Looking at an entry keeps Walked if it does what is owed of the entry.
LEMMA LookKeeps ==
  ASSUME IInv, NEW p \in entries, Look(p),
         stack \subseteq stack', candidates \subseteq candidates',
         diagnostics \subseteq diagnostics',
         phase' = "walk" /\ ~Incomplete' /\ ~repo[p].ignored =>
           /\ repo[p].kind = "directory" => p \in stack'
           /\ repo[p].kind = "file" /\ Supported(p) => p \in candidates'
  PROVE  Walked'
  <1> SUFFICES ASSUME phase' = "walk"
               PROVE  Walked'
    BY DEF Walked
  <1>1. /\ phase = "walk" /\ repo' = repo /\ listed' = listed /\ entries' = entries \ {p}
    BY DEF Look
  <1>2. Root \in stack' \cup listed'
    BY <1>1 DEF IInv, Walked
  <1>3. CASE Incomplete'
    BY <1>2, <1>3 DEF Walked
  <1>4. CASE ~Incomplete'
    <2>1. ~Incomplete
      BY <1>4, IncompleteStays
    <2>2. ASSUME NEW q \in Paths \ entries', repo[q].parent \in listed, ~repo[q].ignored
          PROVE  /\ repo[q].kind = "directory" => q \in stack' \cup listed
                 /\ repo[q].kind = "file" /\ Supported(q) => q \in candidates'
      <3>1. CASE q = p
        BY <1>4, <2>2, <3>1
      <3>2. CASE q \in Paths \ entries
        BY <1>1, <2>1, <2>2, <3>2 DEF IInv, Walked
      <3> QED BY <1>1, <2>2, <3>1, <3>2
    <2> QED BY <1>1, <1>2, <2>2 DEF Walked, Supported
  <1> QED BY <1>3, <1>4

\* An entry that is no link is what it is.
LEMMA RealOfEntry ==
  ASSUME TypeOK, NEW p \in Paths, repo[p].kind \in {"file", "directory"}
  PROVE  /\ p \notin Links(repo) /\ Real(p) = p
         /\ p # Nowhere /\ p # Outside
         /\ IsFile(p) <=> repo[p].kind = "file"
         /\ IsDirectory(p) <=> repo[p].kind = "directory"
  <1>1. p \notin Links(repo)
    BY DEF Links
  <1>2. p # Nowhere /\ p # Outside
    BY RepositoriesAssumption DEF Nowhere, Outside
  <1> QED BY <1>1, <1>2 DEF Real, IsFile, IsDirectory

LEMMA LooksKeep ==
  ASSUME IInv, NEW p \in entries, \/ TooManyEntries(p) \/ LookAtBrokenLink(p) \/ LookOutside(p)
                                    \/ LookAtDirectory(p) \/ LookAtFile(p)
  PROVE  Walked' /\ \A q \in candidates' \ Links(repo)' : repo'[q].kind = "file"
  <1>1. Look(p) /\ repo' = repo /\ p \in Paths
    BY DEF TooManyEntries, LookAtBrokenLink, LookOutside, LookAtDirectory, LookAtFile, Look,
           IInv, TypeOK
  <1>2. candidates' \subseteq candidates \cup {p}
    BY DEF TooManyEntries, LookAtBrokenLink, LookOutside, LookAtDirectory, LookAtFile, AddCandidate
  <1>3. p \in candidates' => p \in candidates \/ IsFile(p)
    BY DEF TooManyEntries, LookAtBrokenLink, LookOutside, LookAtDirectory, LookAtFile, AddCandidate
  <1>4. IsFile(p) /\ p \notin Links(repo) => repo[p].kind = "file"
    BY DEF IsFile, Real
  <1>5. \A q \in candidates' \ Links(repo)' : repo'[q].kind = "file"
    BY <1>1, <1>2, <1>3, <1>4 DEF IInv, Collected
  <1>6. stack \subseteq stack' /\ candidates \subseteq candidates'
    BY DEF TooManyEntries, LookAtBrokenLink, LookOutside, LookAtDirectory, LookAtFile, AddCandidate
  <1>7. diagnostics \subseteq diagnostics'
    BY ReportAdds DEF TooManyEntries, LookAtBrokenLink, LookOutside, LookAtDirectory, LookAtFile,
                      AddCandidate, Stop, ReportedD
  <1>8. ASSUME phase' = "walk", ~Incomplete', ~repo[p].ignored
        PROVE  /\ repo[p].kind = "directory" => p \in stack'
               /\ repo[p].kind = "file" /\ Supported(p) => p \in candidates'
    <2>1. CASE repo[p].kind = "directory"
      <3>1. LookAtDirectory(p) /\ p \notin Links(repo)
        BY <1>1, <1>8, <2>1, RealOfEntry
           DEF TooManyEntries, Stop, LookAtBrokenLink, LookOutside, LookAtFile, IInv
      <3> QED BY <1>8, <2>1, <3>1 DEF LookAtDirectory
    <2>2. CASE repo[p].kind = "file" /\ Supported(p)
      <3>1. LookAtFile(p)
        BY <1>1, <1>8, <2>2, RealOfEntry
           DEF TooManyEntries, Stop, LookAtBrokenLink, LookOutside, LookAtDirectory, IInv
      <3> QED BY <1>8, <2>2, <3>1 DEF LookAtFile, AddCandidate, Stop
    <2> QED BY <2>1, <2>2
  <1> QED BY <1>1, <1>5, <1>6, <1>7, <1>8, LookKeeps

LEMMA WalkKeeps ==
  ASSUME IInv, Walk
  PROVE  LinksKept' /\ Walked' /\ Collected' /\ Taken' /\ Judged'
  <1>1. phase = "walk" /\ repo' = repo /\ target' = target /\ seen' = {} /\ seen = {}
    BY DEF Walk, ListDirectory, TooManyEntries, LookAtBrokenLink, LookOutside, LookAtDirectory,
           LookAtFile, Look, EndWalk, reading, walking, IInv, Taken
  <1>2. LinksKept'
    BY <1>1 DEF IInv, LinksKept
  <1>3. Judged'
    BY <1>1 DEF Judged
  <1>4. CASE EndWalk
    <2>1. /\ phase' = "intake" /\ todo' = candidates /\ candidates' = candidates
          /\ stack = {} /\ entries = {} /\ diagnostics' = diagnostics
      BY <1>4 DEF EndWalk, walking
    <2>2. Incomplete' \/ \A f \in Files(repo) : Supported(f) => f \in candidates
      BY <1>1, <2>1, AllVisibleListed DEF IInv, Incomplete
    <2>3. Collected'
      BY <1>1, <2>1, <2>2 DEF IInv, Collected, Supported
    <2> QED BY <1>1, <1>2, <1>3, <2>1, <2>3 DEF Walked, Taken
  <1>5. CASE \E d \in stack : ListDirectory(d)
    <2>1. Walked'
      BY <1>5, ListKeeps
    <2>2. phase' \in {"walk", "stopped"} /\ candidates' = candidates
      BY <1>1, <1>5, ReportAdds DEF ListDirectory, ReportedD, walking
    <2> QED BY <1>1, <1>2, <1>3, <2>1, <2>2 DEF IInv, Collected, Taken
  <1>6. CASE \E p \in entries : \/ TooManyEntries(p) \/ LookAtBrokenLink(p) \/ LookOutside(p)
                                \/ LookAtDirectory(p) \/ LookAtFile(p)
    <2>1. Walked' /\ \A q \in candidates' \ Links(repo)' : repo'[q].kind = "file"
      BY <1>6, LooksKeep
    <2>2. phase' \in {"walk", "stopped"}
      BY <1>1, <1>6, ReportAdds
         DEF TooManyEntries, LookAtBrokenLink, LookOutside, LookAtDirectory, LookAtFile,
             AddCandidate, Stop, ReportedD
    <2> QED BY <1>1, <1>2, <1>3, <2>1, <2>2 DEF Collected, Taken
  <1> QED BY <1>4, <1>5, <1>6 DEF Walk

(***************************************************************************)
(* The intake.                                                             *)
(***************************************************************************)

\* A file is read as what its own name says it is.
LEMMA ReadAsItself ==
  ASSUME IInv, AliasesAgree(repo), NEW p \in Paths, NEW q \in Paths,
         Supported(p), Real(p) = q, repo[q].kind = "file"
  PROVE  /\ repo[p].name = repo[q].name /\ repo[p].fragment = repo[q].fragment
         /\ Content(p) = repo[q].content
  <1>1. IsFile(p) /\ Content(p) = repo[q].content
    BY DEF IsFile, Content
  <1>2. CASE p \in Links(repo)
    <2>1. q \in repo[p].targets \cap Paths
      BY <1>2 DEF IInv, LinksKept, Real
    <2>2. repo[p].name = repo[q].name /\ repo[p].fragment = repo[q].fragment
      BY <1>2, <2>1 DEF AliasesAgree, Supported
    <2> QED BY <1>1, <2>2
  <1>3. CASE p \notin Links(repo)
    <2>1. p = q
      BY <1>3 DEF Real
    <2> QED BY <1>1, <2>1
  <1> QED BY <1>2, <1>3

\* What is read is analysed, excused, reported or refused.
LEMMA ReadJudged ==
  ASSUME IInv, AliasesAgree(repo), NEW p \in todo,
         NEW q \in Paths, q = Real(p), repo[q].kind = "file",
         phase' # "stopped",
         \/ NoModule(p) \/ Refuse(p) \/ Fail(p) \/ Analyse(p)
  PROVE  ~Malformed(repo[q].name, repo[q].content) /\ Accounted(q)'
  <1>1. /\ p \in Paths /\ Supported(p) /\ repo' = repo
    BY DEF NoModule, Refuse, Fail, Analyse, Read, Take, IInv, TypeOK
  <1>2. /\ repo[p].name = repo[q].name /\ repo[p].fragment = repo[q].fragment
        /\ Content(p) = repo[q].content
    BY <1>1, ReadAsItself
  <1>3. CASE NoModule(p)
    <2>1. Excused(repo, q) /\ repo[q].name = "python"
      BY <1>2, <1>3 DEF NoModule, Excused, Templated, Unparsable
    <2>2. ~Malformed(repo[q].name, repo[q].content)
      BY <2>1 DEF Malformed, SecurityConfig
    <2> QED BY <1>1, <2>1, <2>2 DEF Accounted
  <1>4. CASE Refuse(p)
    BY <1>4 DEF Refuse, Stop
  <1>5. CASE Fail(p)
    <2>1. ~Malformed(repo[q].name, repo[q].content)
      BY <1>2, <1>5 DEF Fail, Malformed, SecurityConfig
    <2>2. \E kind \in {"limit", "parse_error"} : Told(kind, p, TRUE) \in diagnostics'
      BY <1>5, ReportAll DEF Fail
    <2>3. Incomplete'
      BY <2>2, ToldIncomplete
    <2> QED BY <2>1, <2>3 DEF Accounted
  <1>6. CASE Analyse(p)
    <2>1. ~Malformed(repo[q].name, repo[q].content)
      BY <1>2, <1>6 DEF Analyse, Loads, Unparsable, Malformed, SecurityConfig, Parsed, Candidates
    <2>2. [path |-> p, file |-> q] \in analysed'
      BY <1>6 DEF Analyse
    <2>3. \E a \in analysed' : a.file = q /\ repo[a.path].name = repo[q].name
      BY <1>2, <2>2
    <2> QED BY <1>1, <2>1, <2>3 DEF Accounted
  <1> QED BY <1>3, <1>4, <1>5, <1>6

\* What is accounted for stays so.
LEMMA AccountedStays ==
  ASSUME NEW q, Accounted(q), repo' = repo,
         diagnostics \subseteq diagnostics', analysed \subseteq analysed'
  PROVE  Accounted(q)'
  BY IncompleteStays DEF Accounted

LEMMA TakeInKeeps ==
  ASSUME IInv, TakeIn
  PROVE  LinksKept' /\ Walked' /\ Collected' /\ Taken' /\ Judged'
  <1> PICK p \in todo : \/ CannotResolve(p) \/ LeftRoot(p) \/ Skip(p) \/ NoModule(p)
                       \/ Refuse(p) \/ Fail(p) \/ Analyse(p)
    BY DEF TakeIn
  <1>1. /\ phase = "intake" /\ repo' = repo /\ target' = target /\ candidates' = candidates
        /\ todo' = todo \ {p} /\ p \in Paths
    BY DEF CannotResolve, LeftRoot, Skip, NoModule, Refuse, Fail, Analyse, Read, Take, walking,
           IInv, TypeOK
  <1>2. diagnostics \subseteq diagnostics' /\ phase' \in {"intake", "stopped"}
    BY <1>1, ReportAdds
       DEF CannotResolve, LeftRoot, Skip, NoModule, Refuse, Fail, Analyse, Stop, ReportedD
  <1>3. analysed \subseteq analysed' /\ seen \subseteq seen'
    BY DEF CannotResolve, LeftRoot, Skip, NoModule, Refuse, Fail, Analyse, Read
  <1>4. LinksKept'
    BY <1>1 DEF IInv, LinksKept
  <1>5. Walked'
    BY <1>2 DEF Walked
  <1>6. Collected'
    <2>1. Incomplete => Incomplete'
      BY <1>2, IncompleteStays
    <2>2. Incomplete' \/ \A f \in Files(repo) : Supported(f) => f \in candidates
      BY <1>1, <2>1 DEF IInv, Collected
    <2> QED BY <1>1, <2>2 DEF IInv, Collected, Supported
  <1>7. Taken'
    <2> SUFFICES ASSUME phase' = "intake",
                        NEW q \in candidates \ (todo' \cup Links(repo)), Supported(q)
                 PROVE  q \in seen'
      BY <1>1, <1>2 DEF Taken, Supported
    <2>1. CASE q # p
      BY <1>1, <1>3, <2>1 DEF IInv, Taken
    <2>2. CASE q = p
      <3>1. repo[p].kind = "file"
        BY <1>1, <2>2 DEF IInv, Collected
      <3>2. Real(p) = p /\ p # Nowhere /\ p # Outside
        BY <1>1, <3>1, RealOfEntry DEF IInv
      <3> QED BY <2>2, <3>2
              DEF CannotResolve, LeftRoot, Skip, NoModule, Refuse, Fail, Analyse, Read
    <2> QED BY <2>1, <2>2
  <1>8. Judged'
    <2> SUFFICES ASSUME phase' # "stopped", AliasesAgree(repo),
                        NEW q \in seen', repo[q].kind = "file"
                 PROVE  ~Malformed(repo[q].name, repo[q].content) /\ Accounted(q)'
      BY <1>1 DEF Judged
    <2>1. CASE q \in seen
      <3>1. ~Malformed(repo[q].name, repo[q].content) /\ Accounted(q)
        BY <1>1, <2>1 DEF IInv, Judged
      <3> QED BY <1>1, <1>2, <1>3, <3>1, AccountedStays
    <2>2. CASE q \notin seen
      <3>1. q \in Paths /\ q = Real(p) /\ (NoModule(p) \/ Refuse(p) \/ Fail(p) \/ Analyse(p))
        BY <2>2 DEF CannotResolve, LeftRoot, Skip, NoModule, Refuse, Fail, Analyse, Read
      <3> QED BY <3>1, ReadJudged
    <2> QED BY <2>1, <2>2
  <1> QED BY <1>4, <1>5, <1>6, <1>7, <1>8

LEMMA FinishKeeps ==
  ASSUME IInv, Finish
  PROVE  LinksKept' /\ Walked' /\ Collected' /\ Taken' /\ Judged'
  <1>1. /\ phase = "intake" /\ todo = {} /\ todo' = todo /\ repo' = repo /\ target' = target
        /\ candidates' = candidates /\ seen' = seen /\ analysed' = analysed
    BY DEF Finish, walking, reading
  <1>2. diagnostics \subseteq diagnostics' /\ phase' \in {"done", "stopped"}
    BY ReportAdds DEF Finish, ReportedD
  <1>3. Incomplete => Incomplete'
    BY <1>2, IncompleteStays
  <1>4. LinksKept' /\ Walked' /\ Taken'
    BY <1>1, <1>2 DEF IInv, LinksKept, Walked, Taken, Supported
  <1>5. Collected'
    BY <1>1, <1>2, <1>3 DEF IInv, Collected, Supported
  <1>6. Judged'
    BY <1>1, <1>2, AccountedStays DEF IInv, Judged
  <1> QED BY <1>4, <1>5, <1>6

LEMMA RedirectKeeps ==
  ASSUME IInv, NEW l \in Links(repo), NEW t \in repo[l].targets, Redirect(l, t)
  PROVE  LinksKept' /\ Walked' /\ Collected' /\ Taken' /\ Judged'
  <1>1. /\ phase = "walk" /\ UNCHANGED <<repo, phase, walking, reading, diagnostics>>
        /\ target' = [target EXCEPT ![l] = t]
    BY DEF Redirect
  <1>2. LinksKept'
    BY <1>1 DEF IInv, LinksKept, TypeOK
  <1>3. Walked' /\ Collected' /\ Taken' /\ Judged'
    BY <1>1 DEF walking, reading, IInv, Walked, Collected, Taken, Judged, Supported, Incomplete
  <1> QED BY <1>2, <1>3

LEMMA InvariantHolds == SafetySpec => []IInv
  <1>1. Init => IInv
    <2>1. ASSUME Init
          PROVE  LinksKept /\ Walked /\ Collected /\ Taken /\ Judged
      BY <2>1 DEF Init, LinksKept, Walked, Collected, Taken, Judged
    <2> QED BY <2>1, TypeInit DEF IInv
  <1>2. IInv /\ [Next]_vars => IInv'
    <2> SUFFICES ASSUME IInv, [Next]_vars
                 PROVE  IInv'
      OBVIOUS
    <2>1. TypeOK'
      BY TypeStep DEF IInv
    <2>2. CASE Walk
      BY <2>1, <2>2, WalkKeeps DEF IInv
    <2>3. CASE TakeIn
      BY <2>1, <2>3, TakeInKeeps DEF IInv
    <2>4. CASE Finish
      BY <2>1, <2>4, FinishKeeps DEF IInv
    <2>5. CASE \E l \in Links(repo) : \E t \in repo[l].targets : Redirect(l, t)
      BY <2>1, <2>5, RedirectKeeps DEF IInv
    <2>6. CASE UNCHANGED vars
      BY <2>1, <2>6
         DEF vars, walking, reading, IInv, LinksKept, Walked, Collected, Taken, Judged,
             Accounted, Supported, Incomplete
    <2> QED BY <2>2, <2>3, <2>4, <2>5, <2>6 DEF Next
  <1> QED BY <1>1, <1>2, PTL DEF SafetySpec

(***************************************************************************)
(* A scan accepted as complete has analysed every supported file, whatever *)
(* the repository and the limits.                                          *)
(***************************************************************************)
THEOREM CompleteScanDropsNothing == SafetySpec => []NothingSilent
  <1>1. ASSUME IInv
        PROVE  NothingSilent
    <2> SUFFICES ASSUME phase = "done", ~Incomplete, AliasesAgree(repo),
                        NEW f \in Files(repo), repo[f].name \in Candidates
                 PROVE  \/ Excused(repo, f)
                        \/ \E a \in analysed : a.file = f /\ repo[a.path].name = repo[f].name
      BY DEF NothingSilent
    <2>1. f \in Paths /\ repo[f].kind = "file" /\ f \notin Links(repo)
      BY DEF Files, Links
    <2>2. f \in candidates
      BY <1>1 DEF IInv, Collected, Supported
    <2>3. f \in seen
      BY <1>1, <2>1, <2>2 DEF IInv, Taken, Supported
    <2> QED BY <1>1, <2>1, <2>3 DEF IInv, Judged, Accounted
  <1> QED BY <1>1, InvariantHolds, PTL

(***************************************************************************)
(* Where no link makes a file look like another type, malformed security   *)
(* configuration stops the scan.                                           *)
(***************************************************************************)
THEOREM ConfigurationFailsClosed == SafetySpec => []AgreedMalformedStops
  <1>1. ASSUME IInv
        PROVE  AgreedMalformedStops
    <2> SUFFICES ASSUME AliasesAgree(repo), phase = "done",
                        NEW f \in candidates \ Links(repo),
                        Malformed(repo[f].name, repo[f].content)
                 PROVE  FALSE
      BY DEF AgreedMalformedStops, MalformedStops
    <2>1. Supported(f)
      BY DEF Malformed, Supported, SecurityConfig, Candidates
    <2>2. f \in seen /\ repo[f].kind = "file"
      BY <1>1, <2>1 DEF IInv, Taken, Collected
    <2> QED BY <1>1, <2>2 DEF IInv, Judged
  <1> QED BY <1>1, InvariantHolds, PTL

-----------------------------------------------------------------------------
(* No file is analysed twice.                                              *)

OInv == OncePerFile /\ \A a \in analysed : a.file \in seen

LEMMA SeenHolds == SafetySpec => []OInv
  <1>1. Init => OInv
    BY DEF Init, OInv, OncePerFile
  <1>2. OInv /\ [Next]_vars => OInv'
    <2> SUFFICES ASSUME OInv, [Next]_vars
                 PROVE  OInv'
      OBVIOUS
    <2>1. \/ analysed' = analysed /\ seen \subseteq seen'
          \/ \E p \in todo : Analyse(p)
      BY DEF Next, Walk, TakeIn, ListDirectory, TooManyEntries, LookAtBrokenLink, LookOutside,
             LookAtDirectory, LookAtFile, Look, EndWalk, CannotResolve, LeftRoot, Skip, NoModule,
             Refuse, Fail, Read, Finish, Redirect, reading, vars
    <2>2. CASE analysed' = analysed /\ seen \subseteq seen'
      BY <2>2 DEF OInv, OncePerFile
    <2>3. CASE \E p \in todo : Analyse(p)
      <3>1. PICK p \in todo : Analyse(p)
        BY <2>3
      <3>2. /\ Real(p) \notin seen /\ seen' = seen \cup {Real(p)}
            /\ analysed' = analysed \cup {[path |-> p, file |-> Real(p)]}
        BY <3>1 DEF Analyse, Read
      <3> QED BY <3>2 DEF OInv, OncePerFile
    <2> QED BY <2>1, <2>2, <2>3
  <1> QED BY <1>1, <1>2, PTL DEF SafetySpec

(***************************************************************************)
(* Whatever its names and wherever links led during the walk, a file is    *)
(* analysed once: seen_real_paths has the real path of all that was.       *)
(***************************************************************************)
THEOREM AnalysedOnce == SafetySpec => []OncePerFile
  <1>1. OInv => OncePerFile
    BY DEF OInv
  <1> QED BY <1>1, SeenHolds, PTL

-----------------------------------------------------------------------------
(* Why the ends of a scan are explained: counters are compared with sets   *)
(* of paths, which needs the paths the walk has looked at.                 *)

Present == {p \in Paths : repo[p].kind # "none"}

\* Entries of the directories that could be listed, but those still to be looked at.
Offered == {p \in Present : repo[p].parent \in listed /\ ~Unlistable(repo[p].parent)}
Looked == Offered \ entries

IsCandidate(p) == Supported(p) \/ repo[p].name = "pyproject"

\* Every entry is looked at once: a directory is listed once, as it is one directory's entry.
Order ==
  /\ stack \cap listed = {}
  /\ \A d \in (stack \cup listed) \ {Root} : d \in Looked /\ repo[d].kind = "directory"
  /\ Root \in stack \cup listed
  /\ entries \subseteq Offered
  /\ stack \cup listed \subseteq Visible(repo)
  /\ visited = Cardinality(Looked)

\* Directories are remembered, candidates are of the right kind and were looked at.
Gathered ==
  /\ phase # "stopped" => \A d \in Looked : repo[d].kind = "directory" /\ ~repo[d].ignored =>
                             d \in stack \cup listed
  /\ phase \in {"intake", "done"} => stack = {} /\ entries = {}
  /\ \A p \in candidates : p \in Looked /\ ~repo[p].ignored /\ IsCandidate(p)
  /\ todo \subseteq candidates

\* The regular files the walk came across, and those that were counted.
Met == {f \in Looked : repo[f].kind = "file" /\ ~repo[f].ignored}
Pending == IF phase = "walk" THEN candidates ELSE todo

Plain == Links(repo) = {} /\ \A d \in listed \ {Root} : repo[d].content # "unreadable"

Tallied ==
  phase # "stopped" =>
    /\ counts.scanned = Cardinality(analysed)
    /\ Plain => /\ counts.considered = Cardinality(Met \ Pending)
                /\ counts.considered = counts.scanned + counts.skipped + counts.failed

OutcomeInv == IInv /\ OInv /\ Order /\ Gathered /\ Tallied /\ OnlyForCause
-----------------------------------------------------------------------------
(* Counting paths.                                                         *)

LEMMA PathsFinite ==
  ASSUME NEW S \in SUBSET Paths
  PROVE  IsFiniteSet(S) /\ Cardinality(S) \in Nat
  <1>1. IsFiniteSet(Paths)
    BY RepositoriesAssumption
  <1>2. IsFiniteSet(S)
    BY <1>1, FS_Subset
  <1> QED BY <1>2, FS_CardinalityType

LEMMA OneMore ==
  ASSUME NEW S \in SUBSET Paths, NEW p, p \notin S
  PROVE  Cardinality(S \cup {p}) = Cardinality(S) + 1
  BY PathsFinite, FS_AddElement

LEMMA NoMoreThan ==
  ASSUME NEW T \in SUBSET Paths, NEW S \in SUBSET T
  PROVE  Cardinality(S) <= Cardinality(T) /\ Cardinality(S) \in Nat
  BY PathsFinite, FS_Subset

\* No path is the root, the outside or nowhere.
LEMMA PathIsNoPlace == \A p \in Paths : p # Root /\ p # Outside /\ p # Nowhere
  BY RepositoriesAssumption DEF Root, Outside, Nowhere

LEMMA RootVisible == Root \in Visible(repo)
  BY DEF Visible, Closed

LEMMA VisibleBelow ==
  ASSUME NEW p \in Paths, repo[p].kind = "directory", ~repo[p].ignored,
         repo[p].parent \in Visible(repo)
  PROVE  p \in Visible(repo)
  BY DEF Visible, Closed

\* Without links every path is itself.
LEMMA RealIfPlain ==
  ASSUME Plain, NEW p \in Paths
  PROVE  Real(p) = p /\ Real(p) # Nowhere /\ Real(p) # Outside
  BY PathIsNoPlace DEF Plain, Real

-----------------------------------------------------------------------------
(* A directory is listed.                                                  *)

LEMMA ListLooksAtNothing ==
  ASSUME TypeOK, Order, NEW d \in stack, ListDirectory(d)
  PROVE  /\ Looked' = Looked /\ Met' = Met /\ entries' \subseteq Offered'
         /\ repo' = repo /\ Present' = Present
  <1>1. /\ entries = {} /\ repo' = repo /\ listed' = listed \cup {d} /\ d \notin listed
        /\ Present' = Present
    BY DEF ListDirectory, Order, Present
  <1>2. \A x : Unlistable(x)' <=> Unlistable(x)
    BY <1>1 DEF Unlistable
  <1>3. CASE Unlistable(d)
    <2>1. entries' = {}
      BY <1>3 DEF ListDirectory
    <2>2. Offered' = Offered
      BY <1>1, <1>2, <1>3 DEF Offered
    <2> QED BY <1>1, <2>1, <2>2 DEF Looked, Met
  <1>4. CASE ~Unlistable(d)
    <2>1. entries' = {p \in Present : repo[p].parent = d}
      BY <1>4 DEF ListDirectory, Present
    <2>2. Offered' = Offered \cup entries' /\ Offered \cap entries' = {}
      BY <1>1, <1>2, <1>4, <2>1 DEF Offered
    <2>3. Looked' = Looked
      BY <1>1, <2>2 DEF Looked
    <2> QED BY <1>1, <2>2, <2>3 DEF Met
  <1> QED BY <1>3, <1>4

LEMMA ListExplained ==
  ASSUME OutcomeInv, NEW d \in stack, ListDirectory(d)
  PROVE  Order' /\ Gathered' /\ Tallied' /\ OnlyForCause'
  <1>1. /\ phase = "walk" /\ repo' = repo /\ stack' = stack \ {d} /\ listed' = listed \cup {d}
        /\ visited' = visited /\ candidates' = candidates /\ todo' = todo
        /\ analysed' = analysed
    BY DEF ListDirectory, reading
  <1>2. Looked' = Looked /\ Met' = Met /\ entries' \subseteq Offered'
    BY ListLooksAtNothing DEF OutcomeInv, IInv
  <1>3. stack' \cup listed' = stack \cup listed /\ stack' \cap listed' = {}
    BY <1>1 DEF OutcomeInv, Order
  <1>4. Order'
    BY <1>1, <1>2, <1>3 DEF OutcomeInv, Order
  <1>5. phase' \in {"walk", "stopped"}
    BY <1>1, ReportAdds DEF ListDirectory, ReportedD
  <1>6. Gathered'
    BY <1>1, <1>2, <1>3, <1>5 DEF OutcomeInv, Gathered, IsCandidate, Supported
  <1>7. Tallied'
    <2> SUFFICES ASSUME phase' = "walk"
                 PROVE  Tallied'
      BY <1>5 DEF Tallied
    <2>1. Pending' = Pending
      BY <1>1 DEF Pending
    <2>2. CASE UNCHANGED counts
      BY <1>1, <1>2, <2>1, <2>2 DEF OutcomeInv, Tallied, Plain, Links
    <2>3. CASE Unlistable(d) /\ Counted(0, 0, 0, 1)
      <3>1. ~Plain'
        BY <1>1, <2>3 DEF Plain, Unlistable
      <3>2. counts'.scanned = counts.scanned
        BY <2>3 DEF Counted, OutcomeInv, IInv, TypeOK
      <3> QED BY <1>1, <3>1, <3>2 DEF OutcomeInv, Tallied
    <2> QED BY <2>2, <2>3 DEF ListDirectory
  <1>8. OnlyForCause'
    <2>1. CASE UNCHANGED <<diagnostics, phase>>
      BY <1>1, <2>1 DEF OnlyForCause
    <2>2. CASE Report({Told("unreadable_path", d, TRUE)}, phase)
      <3>1. phase' = "stopped" => Cardinality(diagnostics') = MaxDiagnostics
        BY <1>1, <2>2 DEF Report
      <3> QED BY <3>1, LimitsAssumption DEF OnlyForCause
    <2> QED BY <2>1, <2>2 DEF ListDirectory
  <1> QED BY <1>4, <1>6, <1>7, <1>8
-----------------------------------------------------------------------------
(* An entry is looked at.                                                  *)

LEMMA LookLooksAtOne ==
  ASSUME TypeOK, Order, NEW p \in entries, Look(p)
  PROVE  /\ p \in Present /\ p \notin Looked /\ Looked' = Looked \cup {p}
         /\ repo[p].parent \in listed
         /\ Offered' = Offered /\ entries' \subseteq Offered'
         /\ Met' = IF repo[p].kind = "file" /\ ~repo[p].ignored THEN Met \cup {p} ELSE Met
         /\ visited' = Cardinality(Looked') /\ visited' = visited + 1
  <1>1. /\ repo' = repo /\ listed' = listed /\ entries' = entries \ {p} /\ visited' = visited + 1
        /\ p \in Offered
    BY DEF Look, Order
  <1>2. Offered' = Offered
    BY <1>1 DEF Offered, Present, Unlistable
  <1>3. p \notin Looked /\ Looked' = Looked \cup {p}
    BY <1>1, <1>2 DEF Looked
  <1>4. Cardinality(Looked') = Cardinality(Looked) + 1
    BY <1>3, OneMore DEF Looked, Offered, Present
  <1> QED BY <1>1, <1>2, <1>3, <1>4 DEF Order, Offered, Met

\* What an entry does to the walk, and to the counters if there are no links.
LEMMA LookCases ==
  ASSUME TypeOK, Order, NEW p \in entries,
         \/ TooManyEntries(p) \/ LookAtBrokenLink(p) \/ LookOutside(p)
         \/ LookAtDirectory(p) \/ LookAtFile(p)
  PROVE  /\ Look(p) /\ p \in Paths
         /\ stack' \subseteq stack \cup {p} /\ stack \subseteq stack'
         /\ p \in stack' => p \in stack \/ (repo[p].kind = "directory" /\ ~repo[p].ignored)
         /\ phase' # "stopped" /\ repo[p].kind = "directory" /\ ~repo[p].ignored => p \in stack'
         /\ candidates \subseteq candidates' /\ candidates' \subseteq candidates \cup {p}
         /\ p \in candidates' => p \in candidates \/ (~repo[p].ignored /\ IsCandidate(p))
         /\ phase' \in {"walk", "stopped"}
  <1>1. Look(p) /\ p \in Paths /\ phase = "walk" /\ repo' = repo
    BY DEF TooManyEntries, LookAtBrokenLink, LookOutside, LookAtDirectory, LookAtFile, Look, TypeOK
  <1>2. /\ candidates \subseteq candidates' /\ candidates' \subseteq candidates \cup {p}
        /\ p \in candidates' => p \in candidates \/ (~repo[p].ignored /\ IsCandidate(p))
    BY DEF TooManyEntries, LookAtBrokenLink, LookOutside, LookAtDirectory, LookAtFile,
           AddCandidate, IsCandidate
  <1>3. phase' \in {"walk", "stopped"}
    BY <1>1, ReportAdds
       DEF TooManyEntries, LookAtBrokenLink, LookOutside, LookAtDirectory, LookAtFile,
           AddCandidate, Stop, ReportedD
  <1>4. CASE LookAtDirectory(p)
    <2>1. p \notin Links(repo) => repo[p].kind = "directory"
      BY <1>4 DEF LookAtDirectory, IsDirectory, Real
    <2>2. repo[p].kind = "directory" => p \notin Links(repo)
      BY DEF Links
    <2> QED BY <1>1, <1>2, <1>3, <1>4, <2>1, <2>2 DEF LookAtDirectory
  <1>5. CASE ~LookAtDirectory(p)
    <2>1. stack' = stack
      BY <1>5 DEF TooManyEntries, LookAtBrokenLink, LookOutside, LookAtFile
    <2>2. phase' = "stopped" \/ repo[p].kind # "directory"
      BY <1>1, <1>5, RealOfEntry
         DEF TooManyEntries, Stop, LookAtBrokenLink, LookOutside, LookAtFile
    <2> QED BY <1>1, <1>2, <1>3, <2>1, <2>2
  <1> QED BY <1>4, <1>5

LEMMA LookTallied ==
  ASSUME OutcomeInv, NEW p \in entries,
         \/ TooManyEntries(p) \/ LookAtBrokenLink(p) \/ LookOutside(p)
         \/ LookAtDirectory(p) \/ LookAtFile(p)
  PROVE  Tallied'
  <1> SUFFICES ASSUME phase' = "walk"
               PROVE  Tallied'
    BY LookCases DEF OutcomeInv, IInv, Tallied
  <1>1. /\ Look(p) /\ p \in Paths /\ phase = "walk" /\ repo' = repo /\ listed' = listed
        /\ analysed' = analysed
    BY LookCases DEF OutcomeInv, IInv, Look, reading
  <1>2. counts'.scanned = counts.scanned
    BY DEF TooManyEntries, LookAtBrokenLink, LookOutside, LookAtDirectory, LookAtFile,
           AddCandidate, Counted, OutcomeInv, IInv, TypeOK
  <1>3. ASSUME Plain
        PROVE  /\ counts'.considered = Cardinality(Met' \ candidates')
               /\ counts'.considered = counts'.scanned + counts'.skipped + counts'.failed
    <2>1. Real(p) = p /\ p \notin Links(repo) /\ p # Nowhere /\ p # Outside
      BY <1>1, <1>3, RealIfPlain DEF Plain
    <2>2. /\ counts.considered = Cardinality(Met \ candidates)
          /\ counts.considered = counts.scanned + counts.skipped + counts.failed
      BY <1>1, <1>3 DEF OutcomeInv, Tallied, Pending
    <2>3. /\ p \notin Looked /\ p \notin Met /\ p \notin candidates
          /\ Met' = IF repo[p].kind = "file" /\ ~repo[p].ignored THEN Met \cup {p} ELSE Met
      BY <1>1, LookLooksAtOne DEF OutcomeInv, IInv, Gathered, Met
    <2>4. CASE LookAtDirectory(p)
      <3>1. Met' = Met /\ candidates' = candidates /\ counts' = counts
        BY <2>1, <2>3, <2>4 DEF LookAtDirectory, IsDirectory
      <3> QED BY <2>2, <3>1
    <2>5. CASE LookAtFile(p) /\ (repo[p].ignored \/ AddCandidate(p))
      <3>1. Met' \ candidates' = Met \ candidates /\ counts' = counts
        BY <2>1, <2>3, <2>5 DEF LookAtFile, AddCandidate, Stop, IsFile
      <3> QED BY <2>2, <3>1
    <2>6. CASE /\ LookAtFile(p) /\ ~repo[p].ignored
               /\ Counted(1, 0, 1, 0) /\ candidates' = candidates
      <3>1. Met' \ candidates' = (Met \ candidates) \cup {p}
        BY <2>1, <2>3, <2>6 DEF LookAtFile, IsFile
      <3>2. Cardinality(Met' \ candidates') = Cardinality(Met \ candidates) + 1
        BY <2>3, <3>1, OneMore DEF Met, Looked, Offered, Present
      <3> QED BY <2>2, <2>6, <3>2 DEF Counted, OutcomeInv, IInv, TypeOK
    <2> QED BY <2>1, <2>4, <2>5, <2>6
            DEF TooManyEntries, Stop, LookAtBrokenLink, LookOutside, LookAtFile
  <1>4. Plain' <=> Plain
    BY <1>1 DEF Plain, Links
  <1> QED BY <1>1, <1>2, <1>3, <1>4 DEF Tallied, Pending, OutcomeInv

LEMMA LookForCause ==
  ASSUME OutcomeInv, NEW p \in entries,
         \/ TooManyEntries(p) \/ LookAtBrokenLink(p) \/ LookOutside(p)
         \/ LookAtDirectory(p) \/ LookAtFile(p)
  PROVE  OnlyForCause'
  <1>1. Look(p) /\ p \in Paths /\ phase = "walk" /\ repo' = repo
    BY LookCases DEF OutcomeInv, IInv, Look
  <1>2. /\ p \notin Looked /\ Looked \cup {p} \in SUBSET Present /\ visited = Cardinality(Looked)
        /\ visited \in Nat
    BY <1>1, LookLooksAtOne DEF OutcomeInv, IInv, Order, TypeOK, Looked, Offered
  <1>3. CASE TooManyEntries(p)
    <2>1. Cardinality(Looked \cup {p}) = visited + 1
      BY <1>2, OneMore DEF Present
    <2>2. Cardinality(Looked \cup {p}) <= Cardinality(Present) /\ Cardinality(Present) \in Nat
      BY <1>2, NoMoreThan DEF Present
    <2>3. Cardinality(Present) > MaxEntries
      BY <1>2, <1>3, <2>1, <2>2, LimitsAssumption DEF TooManyEntries
    <2> QED BY <1>1, <2>3 DEF OnlyForCause, Present
  <1>4. CASE LookAtFile(p) /\ AddCandidate(p)
    <2>1. CASE Cardinality(candidates) >= MaxCandidates
      <3> DEFINE All == {q \in Paths : Supported(q) \/ repo[q].name = "pyproject"}
      <3>1. /\ candidates \in SUBSET Paths /\ candidates \cup {p} \in SUBSET All
            /\ p \notin candidates
        BY <1>1, <1>2, <1>4 DEF OutcomeInv, IInv, TypeOK, Gathered, IsCandidate, AddCandidate
      <3>2. Cardinality(candidates \cup {p}) = Cardinality(candidates) + 1
        BY <3>1, OneMore
      <3>3. Cardinality(candidates \cup {p}) <= Cardinality(All)
        BY <3>1, NoMoreThan
      <3>4. Cardinality(candidates) \in Nat /\ Cardinality(All) \in Nat
        BY <3>1, PathsFinite
      <3>5. Cardinality(All) > MaxCandidates
        BY <2>1, <3>2, <3>3, <3>4, LimitsAssumption
      <3> QED BY <1>1, <3>5 DEF OnlyForCause, Supported
    <2>2. CASE ~(Cardinality(candidates) >= MaxCandidates)
      BY <1>1, <1>4, <2>2 DEF AddCandidate, OnlyForCause
    <2> QED BY <2>1, <2>2
  <1>5. CASE UNCHANGED phase
    BY <1>1, <1>5 DEF OnlyForCause
  <1>6. CASE \E D : Report(D, phase)
    <2>1. phase' = "stopped" => Cardinality(diagnostics') = MaxDiagnostics
      BY <1>1, <1>6 DEF Report
    <2> QED BY <2>1, LimitsAssumption DEF OnlyForCause
  <1> QED BY <1>3, <1>4, <1>5, <1>6
          DEF TooManyEntries, LookAtBrokenLink, LookOutside, LookAtDirectory, LookAtFile

LEMMA LookExplained ==
  ASSUME OutcomeInv, NEW p \in entries,
         \/ TooManyEntries(p) \/ LookAtBrokenLink(p) \/ LookOutside(p)
         \/ LookAtDirectory(p) \/ LookAtFile(p)
  PROVE  Order' /\ Gathered' /\ Tallied' /\ OnlyForCause'
  <1>1. /\ Look(p) /\ p \in Paths /\ phase = "walk" /\ repo' = repo /\ listed' = listed
        /\ todo' = todo
    BY LookCases DEF OutcomeInv, IInv, Look, reading
  <1>2. /\ p \in Present /\ p \notin Looked /\ Looked' = Looked \cup {p}
        /\ repo[p].parent \in listed
        /\ entries' \subseteq Offered' /\ visited' = Cardinality(Looked')
    BY <1>1, LookLooksAtOne DEF OutcomeInv, IInv
  <1>3. /\ stack' \subseteq stack \cup {p} /\ stack \subseteq stack'
        /\ p \in stack' => p \in stack \/ (repo[p].kind = "directory" /\ ~repo[p].ignored)
        /\ phase' # "stopped" /\ repo[p].kind = "directory" /\ ~repo[p].ignored => p \in stack'
        /\ candidates \subseteq candidates' /\ candidates' \subseteq candidates \cup {p}
        /\ p \in candidates' => p \in candidates \/ (~repo[p].ignored /\ IsCandidate(p))
        /\ phase' \in {"walk", "stopped"}
    BY LookCases DEF OutcomeInv, IInv
  <1>4. Order'
    <2>1. p \notin listed /\ p # Root
      BY <1>1, <1>2, PathIsNoPlace DEF OutcomeInv, Order
    <2>2. stack' \cap listed' = {} /\ Root \in stack' \cup listed'
      BY <1>1, <1>3, <2>1 DEF OutcomeInv, Order
    <2>3. \A d \in (stack' \cup listed') \ {Root} : d \in Looked' /\ repo[d].kind = "directory"
      BY <1>1, <1>2, <1>3 DEF OutcomeInv, Order
    <2>4. stack' \cup listed' \subseteq Visible(repo)
      BY <1>1, <1>2, <1>3, VisibleBelow DEF OutcomeInv, Order
    <2> QED BY <1>1, <1>2, <2>2, <2>3, <2>4 DEF Order
  <1>5. Gathered'
    BY <1>1, <1>2, <1>3 DEF OutcomeInv, Gathered, IsCandidate, Supported
  <1> QED BY <1>4, <1>5, LookTallied, LookForCause
-----------------------------------------------------------------------------
(* The end of the walk, the intake, and the end of the scan.               *)

LEMMA EndWalkExplained ==
  ASSUME OutcomeInv, EndWalk
  PROVE  Order' /\ Gathered' /\ Tallied' /\ OnlyForCause'
  <1>1. /\ phase = "walk" /\ phase' = "intake" /\ stack = {} /\ entries = {}
        /\ todo' = candidates /\ candidates' = candidates
        /\ UNCHANGED <<repo, stack, entries, visited, listed, analysed, counts>>
    BY DEF EndWalk, walking
  <1>2. /\ Looked' = Looked /\ Offered' = Offered /\ Met' = Met /\ Visible(repo)' = Visible(repo)
        /\ Pending' = Pending /\ (Plain' <=> Plain)
    BY <1>1 DEF Looked, Offered, Present, Unlistable, Met, Pending, Plain, Links
  <1>3. Order'
    BY <1>1, <1>2 DEF OutcomeInv, Order
  <1>4. Gathered'
    BY <1>1, <1>2 DEF OutcomeInv, Gathered, IsCandidate, Supported
  <1>5. Tallied'
    BY <1>1, <1>2 DEF OutcomeInv, Tallied
  <1>6. OnlyForCause'
    BY <1>1 DEF OnlyForCause
  <1> QED BY <1>3, <1>4, <1>5, <1>6

LEMMA TakeInTallied ==
  ASSUME OutcomeInv, NEW p \in todo, \/ CannotResolve(p) \/ LeftRoot(p) \/ Skip(p)
                                     \/ NoModule(p) \/ Refuse(p) \/ Fail(p) \/ Analyse(p)
  PROVE  Tallied'
  <1> SUFFICES ASSUME phase' # "stopped"
               PROVE  Tallied'
    BY DEF Tallied
  <1>1. /\ phase = "intake" /\ phase' = "intake" /\ todo' = todo \ {p}
        /\ UNCHANGED <<repo, stack, entries, visited, listed, candidates>>
    BY ReportAll DEF CannotResolve, LeftRoot, Skip, NoModule, Refuse, Fail, Analyse, Read, Take,
           Stop, walking
  <1>2. /\ p \in candidates /\ p \in Looked /\ p \in Paths /\ ~repo[p].ignored
        /\ p \notin Links(repo) => repo[p].kind = "file"
    BY DEF OutcomeInv, IInv, TypeOK, Gathered, Collected
  <1>3. Met' = Met /\ (Plain' <=> Plain)
    BY <1>1 DEF Met, Looked, Offered, Present, Unlistable, Plain, Links
  <1>4. counts'.scanned = Cardinality(analysed')
    <2>1. counts.scanned = Cardinality(analysed) /\ counts.scanned \in Nat
      BY <1>1 DEF OutcomeInv, Tallied, IInv, TypeOK
    <2>2. CASE Analyse(p)
      <3>1. /\ analysed' = analysed \cup {[path |-> p, file |-> Real(p)]}
            /\ [path |-> p, file |-> Real(p)] \notin analysed
        BY <2>2 DEF Analyse, Read, OutcomeInv, OInv
      <3>2. IsFiniteSet(analysed)
        <4>1. IsFiniteSet(Paths)
          BY RepositoriesAssumption
        <4>2. \A a \in analysed : a.path \in Paths /\ a.file \in Paths /\ a = [path |-> a.path, file |-> a.file]
          BY DEF OutcomeInv, IInv, TypeOK
        <4>3. IsFiniteSet(Paths \X Paths)
          BY <4>1, FS_Product
        <4> DEFINE pair == [a \in analysed |-> <<a.path, a.file>>]
        <4>4. pair \in Injection(analysed, Paths \X Paths)
          BY <4>2 DEF Injection, IsInjective
        <4> QED BY <4>3, <4>4, FS_Injection
      <3>3. Cardinality(analysed') = Cardinality(analysed) + 1
        BY <3>1, <3>2, FS_AddElement
      <3> QED BY <2>1, <2>2, <3>3 DEF Analyse, Counted, OutcomeInv, IInv, TypeOK
    <2>3. CASE ~Analyse(p)
      <3>1. analysed' = analysed /\ counts'.scanned = counts.scanned
        BY <2>3 DEF CannotResolve, LeftRoot, Skip, NoModule, Refuse, Stop, Fail, Counted, OutcomeInv, IInv, TypeOK
      <3> QED BY <2>1, <3>1
    <2> QED BY <2>2, <2>3
  <1>5. ASSUME Plain
        PROVE  /\ counts'.considered = Cardinality(Met \ todo')
               /\ counts'.considered = counts'.scanned + counts'.skipped + counts'.failed
    <2>1. Real(p) = p /\ p \notin Links(repo) /\ p # Nowhere /\ p # Outside
      BY <1>2, <1>5, RealIfPlain DEF Plain
    <2>2. /\ counts.considered = Cardinality(Met \ todo)
          /\ counts.considered = counts.scanned + counts.skipped + counts.failed
      BY <1>1, <1>5 DEF OutcomeInv, Tallied, Pending
    <2>3. Met \ todo' = (Met \ todo) \cup {p} /\ p \notin Met \ todo
      BY <1>1, <1>2, <2>1 DEF Met
    <2>4. Cardinality(Met \ todo') = Cardinality(Met \ todo) + 1
      BY <2>3, OneMore DEF Met, Looked, Offered, Present
    <2>5. Counted(1, 0, 1, 0) \/ Counted(1, 0, 0, 1) \/ Counted(1, 1, 0, 0)
      BY <2>1 DEF CannotResolve, LeftRoot, Skip, NoModule, Refuse, Stop, Fail, Analyse
    <2> QED BY <2>2, <2>4, <2>5 DEF Counted, OutcomeInv, IInv, TypeOK
  <1> QED BY <1>1, <1>3, <1>4, <1>5 DEF Tallied, Pending

LEMMA RefusedForCause ==
  ASSUME NEW p, Refuse(p)
  PROVE  Malformed(repo[p].name, Content(p))
  <1>1. repo[p].name \in SecurityConfig /\ repo[p].name # "python"
    BY DEF Refuse, SecurityConfig
  <1> QED BY <1>1 DEF Refuse, Loads, Templated, Unparsable, Malformed

LEMMA TakeInExplained ==
  ASSUME OutcomeInv, NEW p \in todo, \/ CannotResolve(p) \/ LeftRoot(p) \/ Skip(p)
                                     \/ NoModule(p) \/ Refuse(p) \/ Fail(p) \/ Analyse(p)
  PROVE  Order' /\ Gathered' /\ Tallied' /\ OnlyForCause'
  <1>1. /\ phase = "intake" /\ todo' = todo \ {p}
        /\ UNCHANGED <<repo, target, stack, entries, visited, listed, candidates>>
    BY DEF CannotResolve, LeftRoot, Skip, NoModule, Refuse, Fail, Analyse, Read, Take, walking
  <1>2. phase' \in {"intake", "stopped"}
    BY <1>1, ReportAdds
       DEF CannotResolve, LeftRoot, Skip, NoModule, Refuse, Fail, Analyse, Stop, ReportedD
  <1>3. Looked' = Looked /\ Offered' = Offered /\ Visible(repo)' = Visible(repo)
    BY <1>1 DEF Looked, Offered, Present, Unlistable
  <1>4. Order'
    BY <1>1, <1>3 DEF OutcomeInv, Order
  <1>5. Gathered'
    BY <1>1, <1>2, <1>3 DEF OutcomeInv, Gathered, IsCandidate, Supported
  <1>6. OnlyForCause'
    <2>1. CASE Refuse(p)
      <3>1. Malformed(repo[p].name, Content(p)) /\ p \in candidates
        BY <2>1, RefusedForCause DEF OutcomeInv, Gathered
      <3>2. Content(p)' = Content(p)
        BY <1>1 DEF Content, IsFile, Real, Links
      <3> QED BY <1>1, <3>1, <3>2 DEF OnlyForCause
    <2>2. CASE UNCHANGED phase
      BY <1>1, <2>2 DEF OnlyForCause
    <2>3. CASE \E D : Report(D, phase)
      <3>1. phase' = "stopped" => Cardinality(diagnostics') = MaxDiagnostics
        BY <1>1, <2>3 DEF Report
      <3> QED BY <3>1, LimitsAssumption DEF OnlyForCause
    <2> QED BY <2>1, <2>2, <2>3 DEF CannotResolve, LeftRoot, Skip, NoModule, Fail, Analyse
  <1> QED BY <1>4, <1>5, <1>6, TakeInTallied

LEMMA FinishExplained ==
  ASSUME OutcomeInv, Finish
  PROVE  Order' /\ Gathered' /\ Tallied' /\ OnlyForCause'
  <1>1. /\ phase = "intake"
        /\ UNCHANGED <<repo, todo, stack, entries, visited, listed, candidates, analysed, counts>>
    BY DEF Finish, walking, reading
  <1>2. phase' \in {"done", "stopped"}
    BY ReportAdds DEF Finish, ReportedD
  <1>3. /\ Looked' = Looked /\ Offered' = Offered /\ Met' = Met /\ Visible(repo)' = Visible(repo)
        /\ (Plain' <=> Plain)
    BY <1>1 DEF Looked, Offered, Present, Unlistable, Met, Plain, Links
  <1>4. Order'
    BY <1>1, <1>3 DEF OutcomeInv, Order
  <1>5. Gathered'
    BY <1>1, <1>2, <1>3 DEF OutcomeInv, Gathered, IsCandidate, Supported
  <1>6. Tallied'
    BY <1>1, <1>2, <1>3 DEF OutcomeInv, Tallied, Pending
  <1>7. OnlyForCause'
    <2>1. phase' = "stopped" => Cardinality(diagnostics') = MaxDiagnostics
      BY DEF Finish, Report
    <2> QED BY <2>1, LimitsAssumption DEF OnlyForCause
  <1> QED BY <1>4, <1>5, <1>6, <1>7

\* Links do not matter to what has been counted.
LEMMA RedirectExplained ==
  ASSUME OutcomeInv, \/ UNCHANGED vars
                     \/ \E l \in Links(repo) : \E t \in repo[l].targets : Redirect(l, t)
  PROVE  Order' /\ Gathered' /\ Tallied' /\ OnlyForCause'
  <1>1. /\ UNCHANGED <<repo, phase, todo, stack, entries, visited, listed, candidates, analysed,
                       counts, diagnostics>>
        /\ phase = "stopped" => target' = target
    BY DEF Redirect, walking, reading, vars
  <1>2. /\ Looked' = Looked /\ Offered' = Offered /\ Met' = Met /\ Visible(repo)' = Visible(repo)
        /\ (Plain' <=> Plain) /\ Pending' = Pending
    BY <1>1 DEF Looked, Offered, Present, Unlistable, Met, Plain, Links, Pending
  <1>3. Order' /\ Gathered' /\ Tallied'
    BY <1>1, <1>2 DEF OutcomeInv, Order, Gathered, Tallied, IsCandidate, Supported
  <1>4. OnlyForCause'
    <2> SUFFICES ASSUME phase = "stopped"
                 PROVE  OnlyForCause'
      BY <1>1 DEF OnlyForCause
    <2>1. \A q : Content(q)' = Content(q)
      BY <1>1 DEF Content, IsFile, Real, Links
    <2> QED BY <1>1, <2>1 DEF OutcomeInv, OnlyForCause, Supported
  <1> QED BY <1>3, <1>4

-----------------------------------------------------------------------------

LEMMA OutcomeInit == Init => Order /\ Gathered /\ Tallied /\ OnlyForCause
  <1> SUFFICES ASSUME Init
               PROVE  Order /\ Gathered /\ Tallied /\ OnlyForCause
    OBVIOUS
  <1>1. /\ Looked = {} /\ Offered = {} /\ Met = {} /\ Cardinality({}) = 0
        /\ stack = {Root} /\ listed = {} /\ entries = {} /\ candidates = {} /\ todo = {}
        /\ analysed = {} /\ visited = 0 /\ phase = "walk"
    BY FS_EmptySet DEF Init, Looked, Offered, Met
  <1>2. Order
    BY <1>1, RootVisible DEF Order
  <1>3. Gathered
    BY <1>1 DEF Gathered
  <1>4. Tallied
    <2>1. Met \ Pending = {}
      BY <1>1
    <2> QED BY <1>1, <2>1 DEF Tallied, Init
  <1>5. OnlyForCause
    BY <1>1 DEF OnlyForCause
  <1> QED BY <1>2, <1>3, <1>4, <1>5

LEMMA OutcomeStep ==
  ASSUME OutcomeInv, [Next]_vars
  PROVE  Order' /\ Gathered' /\ Tallied' /\ OnlyForCause'
  <1>1. CASE Walk
    BY <1>1, ListExplained, LookExplained, EndWalkExplained DEF Walk
  <1>2. CASE TakeIn
    BY <1>2, TakeInExplained DEF TakeIn
  <1>3. CASE Finish
    BY <1>3, FinishExplained
  <1>4. CASE \/ UNCHANGED vars
             \/ \E l \in Links(repo) : \E t \in repo[l].targets : Redirect(l, t)
    BY <1>4, RedirectExplained
  <1> QED BY <1>1, <1>2, <1>3, <1>4 DEF Next

LEMMA OutcomesHold == SafetySpec => [](Order /\ Gathered /\ Tallied /\ OnlyForCause /\ IInv)
  <1>1. Init => Order /\ Gathered /\ Tallied /\ OnlyForCause
    BY OutcomeInit
  <1>2. /\ IInv /\ OInv /\ [Next]_vars
        /\ Order /\ Gathered /\ Tallied /\ OnlyForCause
        => (Order /\ Gathered /\ Tallied /\ OnlyForCause)'
    BY OutcomeStep DEF OutcomeInv
  <1> QED BY <1>1, <1>2, InvariantHolds, SeenHolds, PTL DEF SafetySpec

\* When the walk is over, what it met are the files a scan is about.
LEMMA AllMet ==
  ASSUME IInv, Order, Gathered, Plain, phase = "done"
  PROVE  Met = Files(repo)
  <1>1. stack = {} /\ entries = {} /\ Looked = Offered
    BY DEF Gathered, Looked
  <1>2. \A d \in listed : ~Unlistable(d)
    BY DEF Plain, Unlistable
  <1>3. listed \in SUBSET (Paths \cup {Root}) /\ Closed(repo, listed)
    <2>1. Root \in listed
      BY <1>1 DEF Order
    <2>2. ASSUME NEW d \in Paths, repo[d].kind = "directory", ~repo[d].ignored,
                 repo[d].parent \in listed
          PROVE  d \in listed
      BY <1>1, <1>2, <2>2 DEF Offered, Present, Gathered
    <2> QED BY <2>1, <2>2 DEF Closed, IInv, TypeOK
  <1>4. Visible(repo) = listed
    BY <1>1, <1>3 DEF Visible, Order
  <1> QED BY <1>1, <1>2, <1>4 DEF Met, Offered, Present, Files

(***************************************************************************)
(* A scan ends without a report for malformed security configuration or a  *)
(* limit only, whatever the repository; and the counters of a report add   *)
(* up: what was scanned was analysed, and without links or unreadable      *)
(* directories every file that is not ignored has one outcome.             *)
(***************************************************************************)
THEOREM EndsAreExplained == SafetySpec => []OutcomesExplained
  <1>1. ASSUME IInv, Order, Gathered, Tallied, OnlyForCause
        PROVE  OutcomesExplained
    <2> SUFFICES ASSUME phase = "done"
                 PROVE  CountsAddUp
      BY <1>1 DEF OutcomesExplained, CountsAddUp
    <2>1. counts.scanned = Cardinality(analysed)
      BY <1>1 DEF Tallied
    <2>2. ASSUME Links(repo) = {}, \A d \in listed \ {Root} : repo[d].content # "unreadable"
          PROVE  /\ counts.considered = Cardinality(Files(repo))
                 /\ counts.considered = counts.scanned + counts.skipped + counts.failed
      <3>1. Plain
        BY <2>2 DEF Plain
      <3>2. Met \ Pending = Files(repo)
        BY <1>1, <3>1, AllMet DEF Pending, IInv, Taken
      <3> QED BY <1>1, <3>1, <3>2 DEF Tallied
    <2> QED BY <2>1, <2>2 DEF CountsAddUp
  <1> QED BY <1>1, OutcomesHold, PTL
=============================================================================
