------------------------------ MODULE PolicyGate ------------------------------
(***************************************************************************)
(* A repository whose pull requests are merged only if                     *)
(* "horustrace diff --fail-on-policy-violation" succeeds (cli.py,          *)
(* authority_policy_delta.py).  Several pull requests are open at a time,  *)
(* the main branch moves under them, and the verdict of a check stays what *)
(* it was when the pull request is merged later.                           *)
(*                                                                         *)
(* The check compares the two commits of the pull request event, not the   *)
(* merge (README.md): branching and merging are Git's, not HorusTrace's.   *)
(***************************************************************************)
EXTENDS PolicyDelta

CONSTANTS
  Agents,   \* names of agents
  Trees,    \* the commits a repository may have
  Strict,   \* --strict
  FailOnRegression,  \* --fail-on-authority-regression
  MaxOpen   \* bound: pull requests open at a time

VARIABLES
  main,     \* the main branch
  origin,   \* the main branch when the gate was introduced
  kept,     \* agents that have been in the main branch ever since
  prs,      \* open pull requests
  linear    \* every merge so far was of a branch made and checked from main

vars == <<main, origin, kept, prs, linear>>

(***************************************************************************)
(* A commit declares agents.  Of each it says, in a manifest, its contract *)
(* and, in the sources, its authority.                                     *)
(***************************************************************************)
Gone == [declared |-> FALSE, contract |-> NoContract, authority |-> {}]

Present(tree) == {a \in Agents : tree[a].declared}

TreeType ==
  {tree \in [Agents -> [declared : BOOLEAN, contract : Contracts,
                        authority : SUBSET Relationships]] :
     \A a \in Agents : ~tree[a].declared => tree[a] = Gone}

ASSUME TreesAssumption ==
  /\ Trees \subseteq TreeType
  /\ Strict \in BOOLEAN
  /\ FailOnRegression \in BOOLEAN
  /\ MaxOpen \in Nat

\* fork: where the branch was made; base: what it was successfully checked against.
PRs == [fork : TreeType, head : TreeType, base : TreeType, passed : BOOLEAN]

TypeOK ==
  /\ main \in TreeType
  /\ origin \in TreeType
  /\ kept \in SUBSET Agents
  /\ prs \in SUBSET PRs
  /\ linear \in BOOLEAN

-----------------------------------------------------------------------------
(* The gate.                                                               *)

\* A scan that could not read everything may miss agents, and says so.
Scanned(tree, seen) == [a \in Agents |-> IF a \in seen THEN tree[a] ELSE Gone]

\* authority_contract_report: what identifies the violations of an agent.
ViolationIdsOf(tree, a) ==
  UNION {{<<a, r.kind, r.name, x>> : x \in Violations(r, tree[a].contract)} :
           r \in tree[a].authority}

ViolationIds(tree) == UNION {ViolationIdsOf(tree, a) : a \in Agents}

\* Wrong: the two sides are swapped.
IntroducedViolationsSwapped(base, head) == ViolationIds(base) \ ViolationIds(head)

\* compare_authority_contracts
IntroducedViolations(base, head) == ViolationIds(head) \ ViolationIds(base)

\* compare_contract_constraints: only agents on both sides are compared.
ContractWeakenings(base, head) ==
  UNION {{<<a, x>> : x \in Weakenings(base[a].contract, head[a].contract)} :
           a \in Present(base) \cap Present(head)}

\* Wrong: incomplete analysis is looked at after the policy gate has passed.
ExitCodeLenient(base, head, incomplete, regressed, severe) ==
  IF \/ IntroducedViolations(base, head) # {}
     \/ ContractWeakenings(base, head) # {} THEN 2 ELSE 0

(***************************************************************************)
(* The exit code of the diff command.  regressed and severe come from the  *)
(* comparison of resolution counts and findings.                           *)
(***************************************************************************)
ExitCode(base, head, incomplete, regressed, severe) ==
  IF Strict /\ incomplete THEN 1
  ELSE IF FailOnRegression /\ regressed THEN 1
  ELSE IF \/ severe
          \/ IntroducedViolations(base, head) # {}
          \/ ContractWeakenings(base, head) # {} THEN 2
  ELSE 0

-----------------------------------------------------------------------------
(* Git: branches and merges (external).                                    *)

Branch(head) ==
  /\ Cardinality(prs) < MaxOpen
  /\ head # main
  /\ prs' = prs \cup {[fork |-> main, head |-> head, base |-> main, passed |-> FALSE]}
  /\ UNCHANGED <<main, origin, kept, linear>>

\* Of a part that one side changed, the changed one is taken.
Pick(x, ours, theirs) == IF theirs = x THEN ours ELSE theirs

Merged(pr) ==
  [a \in Agents |->
     LET x == pr.fork[a]  ours == main[a]  theirs == pr.head[a] IN
     [declared  |-> Pick(x.declared, ours.declared, theirs.declared),
      contract  |-> Pick(x.contract, ours.contract, theirs.contract),
      authority |-> Pick(x.authority, ours.authority, theirs.authority)]]

\* A part both sides changed in different ways is a conflict.
Conflicts(x, ours, theirs) == x # ours /\ x # theirs /\ ours # theirs

\* So is a part changed by one side in what the other deletes.
Mergeable(pr) ==
  \A a \in Agents :
    /\ ~Conflicts(pr.fork[a].contract, main[a].contract, pr.head[a].contract)
    /\ ~Conflicts(pr.fork[a].authority, main[a].authority, pr.head[a].authority)
    /\ Merged(pr)[a].declared \/ Merged(pr)[a] = Gone

-----------------------------------------------------------------------------

\* The exit codes a check of head against base can end with.
ExitCodes(base, head) ==
  {ExitCode(Scanned(base, seen[1]), Scanned(head, seen[2]),
            seen # <<Agents, Agents>>, regressed, severe) :
     seen \in (SUBSET Agents) \X (SUBSET Agents),
     regressed \in BOOLEAN, severe \in BOOLEAN}

\* Wrong: agents that the base commit does not have are not compared with it.
CheckPresentOnly(pr) ==
  \E code \in ExitCodes(main, pr.head) :
    /\ prs' = (prs \ {pr}) \cup
              {[pr EXCEPT !.base = [a \in Present(main) |-> main[a]],
                          !.passed = (code = 0)]}
    /\ UNCHANGED <<main, origin, kept, linear>>

\* The check runs against the tip of main at the time of the event.
Check(pr) ==
  \E code \in ExitCodes(main, pr.head) :
    /\ prs' = (prs \ {pr}) \cup
              {[pr EXCEPT !.base = IF code = 0 THEN main ELSE pr.fork,
                          !.passed = (code = 0)]}
    /\ UNCHANGED <<main, origin, kept, linear>>

\* Only a pull request whose last check succeeded is merged.
Merge(pr) ==
  /\ pr.passed
  /\ Mergeable(pr)
  /\ main' = Merged(pr)
  /\ kept' = kept \cap Present(main')
  /\ prs' = prs \ {pr}
  /\ linear' = (linear /\ pr.fork = main /\ pr.base = main)
  /\ UNCHANGED origin

Close(pr) == prs' = prs \ {pr} /\ UNCHANGED <<main, origin, kept, linear>>

Init ==
  /\ main \in Trees
  /\ origin = main
  /\ kept = Present(main)
  /\ prs = {}
  /\ linear = TRUE

Next ==
  \/ \E head \in Trees : Branch(head)
  \/ \E pr \in prs : Check(pr) \/ Merge(pr) \/ Close(pr)

SafetySpec == Init /\ [][Next]_vars

-----------------------------------------------------------------------------
(* Properties.                                                             *)

(***************************************************************************)
(* "The optional policy gate fails on newly introduced violations or on    *)
(* contract weakening" (README.md): an agent that stays in the main branch *)
(* can at no later time do what its first contract called a violation      *)
(* without its present contract calling it a violation too, however many   *)
(* pull requests were merged and however stale their checks were.          *)
(***************************************************************************)
ContractRatchet ==
  \A a \in kept : \A r \in Relationships :
    Violations(r, origin[a].contract) \subseteq Violations(r, main[a].contract)

(***************************************************************************)
(* As long as pull requests are up to date when checked and merged, every  *)
(* violation in the main branch was there when the gate was introduced.    *)
(***************************************************************************)
NoViolationSlips == linear => ViolationIds(main) \subseteq ViolationIds(origin)

(***************************************************************************)
(* If a relationship itself is the same on both sides of a check, a        *)
(* violation it is newly blamed for comes with a strengthening in the      *)
(* report's contract delta.                                                *)
(***************************************************************************)
NewBlameExplained ==
  \A pr \in prs : \A a \in Present(pr.base) \cap Present(pr.head) :
    \A r \in Relationships :
      Violations(r, pr.head[a].contract) \subseteq Violations(r, pr.base[a].contract)
        \/ Strengthenings(pr.base[a].contract, pr.head[a].contract) # {}

(***************************************************************************)
(* "Missing identity, destination, resource, approval, IAM, OAuth or MCP   *)
(* evidence remains unresolved" (docs/authority-contract.md): where a      *)
(* contract constrains a dimension and nothing was observed in it, the     *)
(* relationship is not compliant.                                          *)
(***************************************************************************)
MissingEvidenceUnresolved ==
  \A a \in Agents : \A r \in main[a].authority : \A d \in Evaluated(r) :
    /\ Observed(r, d) = {}
    /\ main[a].contract.allow[d] # {}
    => \E x \in Unresolved(r, main[a].contract) : x.on = d
=============================================================================
