------------------------------- MODULE MainBranch -------------------------------
(***************************************************************************)
(* What becomes of a pull request that passed its review: it is merged,    *)
(* and the target branch is scanned before and after it (cli.py, scan),    *)
(* with the exceptions that are kept in the repository (suppressions.py).  *)
(* Those are written by `horustrace baseline` or by hand, at any time, and *)
(* they expire.  The review itself does not read them (change_analysis.py: *)
(* use_default_suppressions=False), so nothing is lost by letting them be  *)
(* written after it.                                                       *)
(***************************************************************************)
EXTENDS Review, Suppressions

CONSTANTS
  Handwritten,  \* exceptions that somebody may add to a file
  MaxEdits,     \* as many of them at a time
  LastDay       \* the time that is looked at

ASSUME MainAssumption == /\ \A e \in Handwritten : e.expires \in Nat
                         /\ MaxEdits \in Nat /\ LastDay \in Nat \ {0}

VARIABLES
  day,
  files,  \* the files of exceptions, by their names
  scans   \* of the branch before and after the merge: [status, day, files]

mainVars == <<day, files, scans>>
allVars == <<vars, mainVars>>

NotYet == [status |-> 3, day |-> 0, files |-> <<>>]

MainInit ==
  /\ Init
  /\ day = 1 /\ files = <<>>
  /\ scans = [s \in Sides |-> NotYet]

\* The branch that is looked after: options.asked is the file its scans are told to read.
OnMain == exit = 0 /\ options.asked # "none" /\ scans["head"].status = 3

\* It has the pull request's files once it has been scanned without them.
At == IF scans["base"].status = 3 THEN "base" ELSE "head"

Write(n, file) ==
  /\ files' = [m \in DOMAIN files \cup {n} |-> IF m = n THEN file ELSE files[m]]
  /\ UNCHANGED <<vars, day, scans>>

\* main, for baseline: without configuration or exceptions, and only of a complete analysis.
\* It writes the first of the names, and with --force replaces what was there.
RunBaseline ==
  /\ OnMain /\ ~CoverageIncomplete(At)
  /\ \E expires \in day..LastDay : Write("yaml", Baseline(RawFindings(At), expires))

Edits == UNION {Range(files[n]) \cap Handwritten : n \in DOMAIN files}

AddException ==
  /\ OnMain /\ Cardinality(Edits) < MaxEdits
  /\ \E n \in SUPPRESSION_FILENAMES, s \in Handwritten \ Edits :
       Write(n, Append(IF n \in DOMAIN files THEN files[n] ELSE <<>>, s))

DayPasses ==
  /\ OnMain /\ day < LastDay
  /\ day' = day + 1
  /\ UNCHANGED <<vars, files, scans>>

\* main, for scan.
ScanMain ==
  /\ OnMain
  /\ scans' = [scans EXCEPT ![At] =
       [status |-> ScanStatus(findings[At], CoverageIncomplete(At), files, day, options),
        day |-> day, files |-> files]]
  /\ UNCHANGED <<vars, day, files>>

MainNext ==
  \/ Next /\ UNCHANGED mainVars
  \/ RunBaseline \/ AddException \/ DayPasses \/ ScanMain

MainSpec == MainInit /\ [][MainNext]_allVars /\ WF_allVars(PrepareFiles /\ UNCHANGED mainVars)

-----------------------------------------------------------------------------
(* Properties.                                                             *)

\* Types, those of Review included.
MainTypeOK ==
  /\ TypeOK
  /\ day \in 1..LastDay
  /\ DOMAIN files \subseteq SUPPRESSION_FILENAMES
  /\ \A s \in Sides : scans[s].status \in 0..3 /\ scans[s].day <= day
  /\ scans["base"].status = 3 => scans["head"].status = 3

\* The exceptions a scan read, if it came to that.
Had(scan) == Range(Exceptions(scan.files, options.asked))

\* With --strict no scan passes by what it has not seen, or by an exception of the past.
StrictOnMain ==
  \A s \in Sides :
    options.strict /\ scans[s].status \in {0, 2} =>
      /\ ~CoverageIncomplete(s)
      /\ \A e \in Had(scans[s]) : e.expires >= scans[s].day

\* "Expired entries never hide findings", and none that still holds hides more than one
\* finding, or one rule's of an agent or of some paths.
OnlyAcceptedPasses ==
  \A s \in Sides :
    scans[s].status = 0 /\ options.failOn # 0 =>
      \A f \in {x \in findings[s] : x.severity >= options.failOn} :
        \E e \in Had(scans[s]) :
          /\ e.expires >= scans[s].day
          /\ \/ e.fingerprint = {Fingerprint(f)}
             \/ /\ e.rule = {f.rule}
                /\ e.agent = {f.agent} \/ \E matched \in e.path : f.path \in matched

\* Review and scan agree: if the branch was clean and the pull request passed with the same
\* options, the branch stays clean, unless an exception expires or the files are changed
\* ("existing risk acceptances cannot conceal a newly introduced security delta").
StaysClean ==
  LET before == scans["base"]  after == scans["head"] IN
  /\ before.status = 0 /\ after.status # 3 /\ after.files = before.files
  /\ \A e \in Had(before) : e.expires >= before.day => e.expires >= after.day
  => after.status = 0

\* What a baseline was written of passes until it expires, however the rules are configured.
BaselineCovers ==
  \A s \in Sides : options.asked = "default" /\ DOMAIN scans[s].files = {"yaml"} =>
    \A expires \in scans[s].day..LastDay :
      scans[s].files["yaml"] = Baseline(RawFindings(s), expires) => scans[s].status = 0

\* A pass is earned, of a review or of a scan of the target branch: by having seen what
\* --strict asks for, where it is given, and by findings that were there before or are
\* accepted still.
PassesAreEarned ==
  /\ StrictMeansComplete /\ StrictOnMain
  /\ OnlyAcceptedPasses /\ StaysClean /\ BaselineCovers
=============================================================================
