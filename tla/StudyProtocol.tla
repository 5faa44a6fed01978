---------------------------- MODULE StudyProtocol -----------------------------
(***************************************************************************)
(* The preregistered study of scripts/real_world_agent_security_study.py:  *)
(* which documents of the study directory are accepted together.           *)
(*                                                                         *)
(*   protocol    what was registered before any repository was looked at   *)
(*   candidates  the ledger of repositories, screened from source only     *)
(*   cohort      the cases drawn from it, the two tiers among them, and    *)
(*               whether cases and reference truth are final               *)
(*   truth       per file, the reference a case is scored against          *)
(*                                                                         *)
(* A document is a record.  That a text is not empty is a Boolean or left  *)
(* out where the scripts always write one; "header" stands for the schema  *)
(* version and the name of the study.                                      *)
(***************************************************************************)
EXTENDS Integers, Sequences, FiniteSets, SequencesExt, FiniteSetsExt

CONSTANTS
  Registered,   \* the numbers the validator has of its own: [target, pool, tierB, tierC,
                \* tierBStrata]; 180, 300, 60, 25 and 4 in the code
  None          \* no file, no document, no value

IsList(list) == Len(list) \in Nat /\ DOMAIN list = 1..Len(list)

\* The sum of a list of numbers.
Sum(list) ==
  LET upto[k \in 0..Len(list)] == IF k = 0 THEN 0 ELSE upto[k - 1] + list[k]
  IN upto[Len(list)]

IdsOf(entries, key) == {e[key] : e \in ToSet(entries)}

\* No two entries have the same value of this key.
DistinctBy(entries, key) == Cardinality(IdsOf(entries, key)) = Len(entries)

-----------------------------------------------------------------------------
(* validate_protocol *)

ValidStrata(strata, target) ==
  /\ \A s \in ToSet(strata) : s.min <= s.target /\ s.target <= s.max
  /\ DistinctBy(strata, "id")
  /\ FoldSeq(LAMBDA s, sum : s.target + sum, 0, strata) = target

ValidProtocol(p) ==
  /\ p.header
  /\ p.featureFreeze
  /\ p.target = Registered.target
  /\ p.pool >= Registered.pool
  /\ ~p.influence
  /\ ValidStrata(p.strata, p.target)
  /\ p.tierA = Registered.target
  /\ p.tierB = Registered.tierB /\ p.dualB
  /\ p.tierC = Registered.tierC /\ p.dualC
  /\ p.staticOnly          \* nothing of a target is executed, imported or installed
  /\ p.exactSha
  /\ p.preserveBaseline

\* How many cases of tier B may be of one framework: share is a percentage.
TierBCap(p) == (p.tierB * p.share) \div 100

-----------------------------------------------------------------------------
(* validate_candidates *)

\* One row of the ledger: a pending row has not been screened, every other one has been,
\* from source and with its earlier exposure to the scanner looked up.
ValidCandidate(c, p) ==
  /\ c.stratum \in IdsOf(p.strata, "id")
  /\ c.discovered
  /\ c.decision = "exclude" => c.reason
  /\ IF c.decision = "pending"
     THEN c.screening = None
     ELSE /\ c.screening # None
          /\ c.screening.sourceOnly
          /\ c.decision = "include" => c.screening.path
          /\ c.exposure = "checked"

FrozenPool(doc, p) ==
  /\ Len(doc.entries) >= p.pool
  /\ \A c \in ToSet(doc.entries) : c.decision # "pending" /\ c.exposure = "checked"

ValidCandidates(doc, p) ==
  /\ doc.header
  /\ ~doc.influence
  /\ doc.pool = p.pool
  /\ \A c \in ToSet(doc.entries) : ValidCandidate(c, p)
  /\ DistinctBy(doc.entries, "repo")
  /\ doc.frozen => FrozenPool(doc, p)

-----------------------------------------------------------------------------
(* validate_ground_truth *)

ValidAssertions(assertions) ==
  /\ \A a \in ToSet(assertions) : a.evidence # {} /\ a.expected \in {"present", "absent", "unresolved"}
  /\ DistinctBy(assertions, "id")

\* The reviews a case needs: two when it is in one of the tiers.
Required(inB, inC) == IF inB \/ inC THEN 2 ELSE 1

ValidTruth(t, case, inB, inC) ==
  /\ t.header
  /\ t.id = case
  /\ t.reviewed
  /\ ~t.outputSeen
  /\ Len(t.reviewers) = Cardinality(ToSet(t.reviewers))
  /\ Len(t.reviewers) >= Required(inB, inC)
  /\ inB => t.tierB # None
  /\ inC => t.tierC # None
  /\ ValidAssertions(t.assertions)

-----------------------------------------------------------------------------
(* validate_cohort *)

UnfrozenCohort(c) ==
  /\ c.cases = <<>>
  /\ c.tierB = <<>> /\ c.tierC = <<>>
  /\ ~c.locked

InStratum(cases, id) == Cardinality({i \in DOMAIN cases : cases[i].stratum = id})

ValidCounts(c, p) ==
  \A s \in ToSet(p.strata) :
     /\ InStratum(c.cases, s.id) <= s.max
     /\ InStratum(c.cases, s.id) < s.min => s.id \in c.exceptions

\* Fewer cases than registered have deployment evidence: that has to be documented.
ValidShortfall(c, p) ==
  Len(c.tierC) = p.tierC
  \/ /\ c.shortfall # None
     /\ c.shortfall.target = p.tierC
     /\ c.shortfall.selected = Len(c.tierC)
     /\ c.shortfall.reviewComplete

InTierB(c, id) == id \in ToSet(c.tierB)
InTierC(c, id) == id \in ToSet(c.tierC)

ValidTiers(c, p) ==
  LET deep == SelectSeq(c.cases, LAMBDA x : InTierB(c, x.id)) IN
  /\ Len(c.tierB) = p.tierB /\ Cardinality(ToSet(c.tierB)) = Len(c.tierB)
  /\ Cardinality(ToSet(c.tierC)) = Len(c.tierC)
  /\ ValidShortfall(c, p)
  /\ (ToSet(c.tierB) \cup ToSet(c.tierC)) \subseteq IdsOf(c.cases, "id")
  /\ \A s \in IdsOf(deep, "stratum") : InStratum(deep, s) <= TierBCap(p)
  /\ Cardinality(IdsOf(deep, "stratum")) >= Registered.tierBStrata

ValidCohort(c, p, truth) ==
  /\ c.header
  /\ c.scanner = p.scanner
  /\ ~c.influence
  /\ IF ~c.frozen
     THEN UnfrozenCohort(c)
     ELSE /\ Len(c.cases) = p.target
          /\ IdsOf(c.cases, "stratum") \subseteq IdsOf(p.strata, "id")
          /\ DistinctBy(c.cases, "id")
          /\ DistinctBy(c.cases, "repo")
          /\ ValidCounts(c, p)
          /\ ValidTiers(c, p)
          /\ c.locked => \A case \in ToSet(c.cases) :
               /\ truth[case.truth] # None
               /\ ValidTruth(truth[case.truth], case.id, InTierB(c, case.id), InTierC(c, case.id))

-----------------------------------------------------------------------------

\* validate_state: what --validate-only accepts.
ValidState(tree) ==
  /\ ValidProtocol(tree.protocol)
  /\ ValidCandidates(tree.candidates, tree.protocol)
  /\ ValidCohort(tree.cohort, tree.protocol, tree.truth)
===============================================================================
