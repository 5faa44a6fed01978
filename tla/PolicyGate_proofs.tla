--------------------------- MODULE PolicyGate_proofs ---------------------------
(***************************************************************************)
(* What the policy gate guarantees for every set of strings, contracts and *)
(* commits, and what it needs for that: pattern coverage must be sound,    *)
(* which fnmatch applied to patterns is not for every pattern.             *)
(***************************************************************************)
EXTENDS PolicyGate, TLAPS

\* A pattern that another accepts as a string matches nothing the other does not.
CoverageSound == \A p, q \in Strings : p \in Lang[q] => Lang[p] \subseteq Lang[q]

\* No contract has two entries for an MCP server.
UniqueServers ==
  \A c \in Contracts : \A i, j \in DOMAIN c.mcp :
    c.mcp[i].server = c.mcp[j].server => i = j

-----------------------------------------------------------------------------
(* Contracts.                                                              *)

LEMMA ContractFields ==
  ASSUME NEW c \in Contracts
  PROVE  /\ c.allow \in [Dimensions -> SUBSET Strings]
         /\ c.deny \in [Dimensions -> SUBSET Strings]
         /\ c.approvals \in SUBSET Strings
  BY ContractsAssumption DEF ContractType

LEMMA ObservedType ==
  ASSUME NEW r \in Relationships, NEW d \in Evaluated(r)
  PROVE  Observed(r, d) \in SUBSET Strings /\ d \in Dimensions
<1>1. r \in RelationshipType
  BY ContractsAssumption
<1>2. d \in Dimensions
  BY DEF Evaluated
<1>3. r.name \in Strings /\ r.observed \in [Dimensions -> SUBSET Strings]
  BY <1>1 DEF RelationshipType
<1> QED BY <1>2, <1>3 DEF Observed

\* Where entries are unique, evaluation and delta read the same one.
LEMMA PoliciesAgree ==
  ASSUME UniqueServers, NEW c \in Contracts, NEW s
  PROVE  /\ FirstPolicy(c, s) = LastPolicy(c, s)
         /\ \/ FirstPolicy(c, s) = NoTools(s)
            \/ \E i \in DOMAIN c.mcp : FirstPolicy(c, s) = c.mcp[i]
<1> DEFINE hits == {i \in DOMAIN c.mcp : c.mcp[i].server = s}
<1>1. CASE hits = {}
  BY <1>1 DEF FirstPolicy, LastPolicy
<1>2. CASE hits # {}
  <2>1. PICK i \in hits : hits = {i}
    BY <1>2 DEF UniqueServers
  <2>2. i <= i
    <3>1. c \in ContractType
      BY ContractsAssumption
    <3>2. c.mcp \in Seq([server : Strings, allowed : SUBSET Strings,
                        denied : SUBSET Strings])
      BY <3>1 DEF ContractType
    <3>3. i \in DOMAIN c.mcp
      BY <2>1
    <3>4. DOMAIN c.mcp = 1..Len(c.mcp) /\ Len(c.mcp) \in Nat
      BY <3>2
    <3> QED BY <3>3, <3>4
  <2>3. (CHOOSE k \in hits : \A j \in hits : k <= j) = i
    BY <2>1, <2>2
  <2>4. (CHOOSE k \in hits : \A j \in hits : j <= k) = i
    BY <2>1, <2>2
  <2>5. FirstPolicy(c, s) = c.mcp[i] /\ LastPolicy(c, s) = c.mcp[i]
    BY <1>2, <2>3, <2>4 DEF FirstPolicy, LastPolicy
  <2> QED BY <2>1, <2>5
<1> QED BY <1>1, <1>2

\* A server without an entry has no constraints.
LEMMA NoEntry ==
  ASSUME NEW c, NEW s, s \notin Servers(c)
  PROVE  LastPolicy(c, s).allowed = {} /\ LastPolicy(c, s).denied = {}
<1>1. {i \in DOMAIN c.mcp : c.mcp[i].server = s} = {}
  BY DEF Servers
<1> QED BY <1>1 DEF LastPolicy, NoTools

-----------------------------------------------------------------------------
(* Without a weakening no violation disappears.                            *)

LEMMA LooseningParts ==
  ASSUME NEW b, NEW h, Loosened(b, h) = {}
  PROVE  /\ AllowRemoved(b, h) = {} /\ AllowWidened(b, h) = {}
         /\ DenyRemoved(b, h) = {}
         /\ b.approvals \subseteq h.approvals
         /\ McpAllowRemoved(b, h) = {} /\ McpAllowWidened(b, h) = {}
         /\ McpDenyRemoved(b, h) = {}
<1>1. AllowRemoved(b, h) = {}
  BY DEF Loosened
<1>2. AllowWidened(b, h) = {}
  BY DEF Loosened
<1>3. DenyRemoved(b, h) = {}
  BY DEF Loosened
<1>4. b.approvals \subseteq h.approvals
  <2>1. {x \in {Change("approval", "required", "removed")} :
           ~(b.approvals \subseteq h.approvals)} = {}
    BY DEF Loosened
  <2> QED BY <2>1
<1>5. McpAllowRemoved(b, h) = {}
  BY DEF Loosened
<1>6. McpAllowWidened(b, h) = {}
  BY DEF Loosened
<1>7. McpDenyRemoved(b, h) = {}
  BY DEF Loosened
<1> QED BY <1>1, <1>2, <1>3, <1>4, <1>5, <1>6, <1>7

\* A value outside an allowlist stays outside one that covers no more.
LEMMA OutsideKept ==
  ASSUME CoverageSound, NEW b \in Contracts, NEW h \in Contracts,
         NEW d \in Dimensions, d \notin AllowRemoved(b, h), d \notin AllowWidened(b, h),
         b.allow[d] # {}, NEW v \in Strings, ~Matched(v, b.allow[d])
  PROVE  h.allow[d] # {} /\ ~Matched(v, h.allow[d])
<1>1. b.allow[d] \in SUBSET Strings /\ h.allow[d] \in SUBSET Strings
  BY ContractFields
<1>2. Star \notin b.allow[d]
  BY StringsAssumption DEF Matched
<1>3. Allowlist(b, d) = b.allow[d] /\ Allowlist(b, d) # {}
  BY <1>2 DEF Allowlist
<1>4. Allowlist(h, d) # {}
  BY <1>3 DEF AllowRemoved
<1>5. Allowlist(h, d) = h.allow[d]
  BY <1>4 DEF Allowlist
<1>6. Allowlist(b, d) = Allowlist(h, d)
      \/ Uncovered(Allowlist(h, d), Allowlist(b, d)) = {}
  BY <1>3, <1>4 DEF AllowWidened
<1>7. CASE h.allow[d] = b.allow[d]
  BY <1>7
<1>8. CASE Uncovered(h.allow[d], b.allow[d]) = {}
  <2>1. SUFFICES ASSUME NEW p \in h.allow[d], v \in Lang[p]
                 PROVE  FALSE
    BY <1>4, <1>5 DEF Matched
  <2>2. PICK q \in b.allow[d] : p \in Lang[q]
    BY <1>8 DEF Uncovered, Matched
  <2>3. v \in Lang[q]
    BY <1>1, <2>1, <2>2 DEF CoverageSound
  <2> QED BY <2>3 DEF Matched
<1> QED BY <1>3, <1>5, <1>6, <1>7, <1>8

\* A value a deny rule matched is still matched.
LEMMA DeniedKept ==
  ASSUME CoverageSound, NEW b \in Contracts, NEW h \in Contracts,
         NEW d \in Dimensions, d \notin DenyRemoved(b, h),
         NEW v \in Strings, Matched(v, b.deny[d])
  PROVE  Matched(v, h.deny[d])
<1>1. b.deny[d] \in SUBSET Strings /\ h.deny[d] \in SUBSET Strings
  BY ContractFields
<1>2. b.deny[d] = h.deny[d] \/ Uncovered(b.deny[d], h.deny[d]) = {}
  BY DEF DenyRemoved
<1>3. CASE Uncovered(b.deny[d], h.deny[d]) = {}
  <2>1. PICK p \in b.deny[d] : v \in Lang[p]
    BY DEF Matched
  <2>2. PICK q \in h.deny[d] : p \in Lang[q]
    BY <1>3, <2>1 DEF Uncovered, Matched
  <2>3. v \in Lang[q]
    BY <1>1, <2>1, <2>2 DEF CoverageSound
  <2> QED BY <2>3 DEF Matched
<1> QED BY <1>2, <1>3

\* The same for the tools of an MCP server.
LEMMA McpKept ==
  ASSUME UniqueServers, NEW b \in Contracts, NEW h \in Contracts,
         McpAllowRemoved(b, h) = {}, McpAllowWidened(b, h) = {},
         McpDenyRemoved(b, h) = {}, NEW r
  PROVE  McpViolations(r, FirstPolicy(b, r.name))
           \subseteq McpViolations(r, FirstPolicy(h, r.name))
<1> DEFINE s == r.name
           p == FirstPolicy(b, s)
           q == FirstPolicy(h, s)
<1>1. p = LastPolicy(b, s) /\ q = LastPolicy(h, s)
  BY PoliciesAgree
<1>2. CASE s \notin Servers(b)
  <2>1. p.allowed = {} /\ p.denied = {}
    BY <1>1, <1>2, NoEntry
  <2> HIDE DEF s, p, q
  <2>2. McpViolations(r, p) = {}
    BY <2>1 DEF McpViolations
  <2> QED BY <2>2 DEF s, p, q
<1>3. CASE s \in Servers(b)
  <2>1. p.allowed # {} => q.allowed # {}
    BY <1>1, <1>3 DEF McpAllowRemoved
  <2>2. p.allowed # {} => q.allowed \subseteq p.allowed
    BY <1>1, <1>3, <2>1 DEF McpAllowWidened
  <2>3. p.denied \subseteq q.denied
    BY <1>1, <1>3 DEF McpDenyRemoved
  <2> HIDE DEF s, p, q
  <2>4. p.allowed # {} /\ ~(r.allowed \subseteq p.allowed)
        => q.allowed # {} /\ ~(r.allowed \subseteq q.allowed)
    BY <2>1, <2>2
  <2>5. r.allowed \cap p.denied # {} => r.allowed \cap q.denied # {}
    BY <2>3
  <2>6. McpViolations(r, p) \subseteq McpViolations(r, q)
    BY <2>1, <2>4, <2>5 DEF McpViolations
  <2> QED BY <2>6 DEF s, p, q
<1> QED BY <1>2, <1>3

\* A contract without clauses calls nothing a violation.
LEMMA EmptyAllowsAll ==
  ASSUME UniqueServers, NEW c \in Contracts, ~NonEmpty(c), NEW r \in Relationships
  PROVE  Violations(r, c) = {}
<1>1. \A d \in Dimensions : c.allow[d] = {} /\ c.deny[d] = {}
  BY DEF NonEmpty
<1>2. \A d \in Evaluated(r) : c.allow[d] = {} /\ DeniedSeen(r, c, d) = {}
  BY <1>1 DEF DeniedSeen, Matched, Evaluated
<1>3. ScopeViolations(r, c) = {}
  BY <1>2 DEF ScopeViolations
<1>4. ApprovalViolations(r, c) = {}
  BY DEF ApprovalViolations, ApprovalDue, NonEmpty
<1>5. FirstPolicy(c, r.name).allowed = {} /\ FirstPolicy(c, r.name).denied = {}
  <2>1. CASE FirstPolicy(c, r.name) = NoTools(r.name)
    BY <2>1 DEF NoTools
  <2>2. CASE \E i \in DOMAIN c.mcp : FirstPolicy(c, r.name) = c.mcp[i]
    BY <2>2 DEF NonEmpty
  <2> QED BY <2>1, <2>2, PoliciesAgree
<1>6. McpViolations(r, FirstPolicy(c, r.name)) = {}
  BY <1>5 DEF McpViolations
<1> QED BY <1>3, <1>4, <1>6 DEF Violations

(***************************************************************************)
(* The heart of the gate: when no weakening is reported, whatever was a    *)
(* violation before is one afterwards.                                     *)
(***************************************************************************)
THEOREM ViolationsKept ==
  ASSUME CoverageSound, UniqueServers, NEW b \in Contracts, NEW h \in Contracts,
         Weakenings(b, h) = {}, NEW r \in Relationships
  PROVE  Violations(r, b) \subseteq Violations(r, h)
<1>1. CASE ~NonEmpty(b)
  BY <1>1, EmptyAllowsAll
<1>2. CASE NonEmpty(b)
  <2>1. NonEmpty(h) /\ Loosened(b, h) = {}
    BY <1>2 DEF Weakenings
  <2>2. /\ AllowRemoved(b, h) = {} /\ AllowWidened(b, h) = {}
        /\ DenyRemoved(b, h) = {} /\ b.approvals \subseteq h.approvals
        /\ McpAllowRemoved(b, h) = {} /\ McpAllowWidened(b, h) = {}
        /\ McpDenyRemoved(b, h) = {}
    BY <2>1, LooseningParts
  <2>3. \A d \in Evaluated(r) : DeniedSeen(r, b, d) # {} => DeniedSeen(r, h, d) # {}
    <3>1. SUFFICES ASSUME NEW d \in Evaluated(r), NEW v \in DeniedSeen(r, b, d)
                   PROVE  v \in DeniedSeen(r, h, d)
      OBVIOUS
    <3>2. v \in Strings /\ d \in Dimensions /\ v \in Observed(r, d)
      BY ObservedType DEF DeniedSeen
    <3>3. Matched(v, b.deny[d])
      BY DEF DeniedSeen
    <3>4. Matched(v, h.deny[d])
      BY <2>2, <3>2, <3>3, DeniedKept
    <3> QED BY <3>2, <3>4 DEF DeniedSeen
  <2>4. \A d \in Evaluated(r) :
          b.allow[d] # {} /\ OutsideAllowed(r, b, d) # {}
          => h.allow[d] # {} /\ OutsideAllowed(r, h, d) # {}
    <3>1. SUFFICES ASSUME NEW d \in Evaluated(r), b.allow[d] # {},
                          NEW v \in OutsideAllowed(r, b, d)
                   PROVE  h.allow[d] # {} /\ v \in OutsideAllowed(r, h, d)
      OBVIOUS
    <3>2. v \in Strings /\ d \in Dimensions /\ v \in Observed(r, d)
      BY ObservedType DEF OutsideAllowed
    <3>3. ~Matched(v, b.allow[d])
      BY DEF OutsideAllowed
    <3>4. h.allow[d] # {} /\ ~Matched(v, h.allow[d])
      BY <2>2, <3>1, <3>2, <3>3, OutsideKept
    <3> QED BY <3>2, <3>4 DEF OutsideAllowed
  <2>5. ScopeViolations(r, b) \subseteq ScopeViolations(r, h)
    BY <2>3, <2>4 DEF ScopeViolations
  <2>6. ApprovalViolations(r, b) \subseteq ApprovalViolations(r, h)
    <3>1. ApprovalDue(r, b) => ApprovalDue(r, h)
      BY <2>2 DEF ApprovalDue
    <3> QED BY <3>1 DEF ApprovalViolations
  <2>7. McpViolations(r, FirstPolicy(b, r.name))
          \subseteq McpViolations(r, FirstPolicy(h, r.name))
    BY <2>2, McpKept
  <2> QED BY <2>5, <2>6, <2>7 DEF Violations
<1> QED BY <1>1, <1>2

-----------------------------------------------------------------------------
(* Types.                                                                  *)

LEMMA TreeFields ==
  ASSUME NEW tree \in TreeType, NEW a \in Agents
  PROVE  /\ tree[a].declared \in BOOLEAN
         /\ tree[a].contract \in Contracts
         /\ tree[a].authority \in SUBSET Relationships
         /\ ~tree[a].declared => tree[a] = Gone
  BY DEF TreeType

\* The merge of three commits, where it is clean, is a commit.
LEMMA MergedType ==
  ASSUME main \in TreeType, NEW pr \in PRs, Mergeable(pr)
  PROVE  Merged(pr) \in TreeType
<1>1. pr.fork \in TreeType /\ pr.head \in TreeType
  BY DEF PRs
<1>2. ASSUME NEW a \in Agents
      PROVE  /\ Merged(pr)[a] \in [declared : BOOLEAN, contract : Contracts,
                                    authority : SUBSET Relationships]
             /\ ~Merged(pr)[a].declared => Merged(pr)[a] = Gone
  <2>1. Merged(pr)[a] =
          [declared |-> Pick(pr.fork[a].declared, main[a].declared, pr.head[a].declared),
           contract |-> Pick(pr.fork[a].contract, main[a].contract, pr.head[a].contract),
           authority |-> Pick(pr.fork[a].authority, main[a].authority,
                              pr.head[a].authority)]
    BY DEF Merged
  <2>2. Pick(pr.fork[a].declared, main[a].declared, pr.head[a].declared) \in BOOLEAN
    BY <1>1, TreeFields DEF Pick
  <2>3. Pick(pr.fork[a].contract, main[a].contract, pr.head[a].contract) \in Contracts
    BY <1>1, TreeFields DEF Pick
  <2>4. Pick(pr.fork[a].authority, main[a].authority, pr.head[a].authority)
          \in SUBSET Relationships
    BY <1>1, TreeFields DEF Pick
  <2>5. Merged(pr)[a].declared \/ Merged(pr)[a] = Gone
    BY DEF Mergeable
  <2> QED BY <2>1, <2>2, <2>3, <2>4, <2>5
<1>3. Merged(pr) = [a \in Agents |-> Merged(pr)[a]]
  BY DEF Merged
<1> QED BY <1>2, <1>3 DEF TreeType

\* The variables keep their types: no merge invents a commit.
THEOREM GateTypeCorrect == SafetySpec => []TypeOK
<1>1. Init => TypeOK
  BY TreesAssumption DEF Init, TypeOK, Present
<1>2. TypeOK /\ [Next]_vars => TypeOK'
  <2> SUFFICES ASSUME TypeOK, [Next]_vars
               PROVE  TypeOK'
    OBVIOUS
  <2>1. ASSUME NEW head \in Trees, Branch(head)
        PROVE  TypeOK'
    <3>1. [fork |-> main, head |-> head, base |-> main, passed |-> FALSE] \in PRs
      BY TreesAssumption DEF TypeOK, PRs
    <3> QED BY <2>1, <3>1 DEF Branch, TypeOK
  <2>2. ASSUME NEW pr \in prs, Check(pr)
        PROVE  TypeOK'
    <3>1. PICK code \in ExitCodes(main, pr.head) :
            prs' = (prs \ {pr}) \cup
                   {[pr EXCEPT !.base = IF code = 0 THEN main ELSE pr.fork,
                               !.passed = (code = 0)]}
      BY <2>2 DEF Check
    <3>2. pr \in PRs
      BY DEF TypeOK
    <3>3. [pr EXCEPT !.base = IF code = 0 THEN main ELSE pr.fork,
                     !.passed = (code = 0)] \in PRs
      BY <3>2 DEF TypeOK, PRs
    <3> QED BY <2>2, <3>1, <3>3 DEF Check, TypeOK
  <2>3. ASSUME NEW pr \in prs, Merge(pr)
        PROVE  TypeOK'
    <3>1. pr \in PRs
      BY DEF TypeOK
    <3>2. Merged(pr) \in TreeType
      BY <2>3, <3>1, MergedType DEF Merge, TypeOK
    <3>3. linear' \in BOOLEAN
      BY <2>3 DEF Merge
    <3> QED BY <2>3, <3>2, <3>3 DEF Merge, TypeOK
  <2>4. ASSUME NEW pr \in prs, Close(pr)
        PROVE  TypeOK'
    BY <2>4 DEF Close, TypeOK
  <2>5. CASE UNCHANGED vars
    BY <2>5 DEF vars, TypeOK
  <2> QED BY <2>1, <2>2, <2>3, <2>4, <2>5 DEF Next
<1> QED BY <1>1, <1>2, PTL DEF SafetySpec

-----------------------------------------------------------------------------
(* A passed check.                                                         *)

(***************************************************************************)
(* With --strict, exit code 0 says that both scans were complete, so the   *)
(* comparison was of the commits themselves.                               *)
(***************************************************************************)
LEMMA PassedIsComplete ==
  ASSUME Strict, NEW base \in TreeType, NEW head \in TreeType,
         0 \in ExitCodes(base, head)
  PROVE  /\ IntroducedViolations(base, head) = {}
         /\ ContractWeakenings(base, head) = {}
<1>1. PICK seen \in (SUBSET Agents) \X (SUBSET Agents),
           regressed \in BOOLEAN, severe \in BOOLEAN :
        0 = ExitCode(Scanned(base, seen[1]), Scanned(head, seen[2]),
                     seen # <<Agents, Agents>>, regressed, severe)
  BY DEF ExitCodes
<1>2. seen = <<Agents, Agents>>
  BY <1>1 DEF ExitCode
<1>3. Scanned(base, Agents) = base /\ Scanned(head, Agents) = head
  BY DEF Scanned, TreeType
<1>4. Scanned(base, seen[1]) = base /\ Scanned(head, seen[2]) = head
  <2> HIDE DEF Scanned
  <2>1. seen[1] = Agents /\ seen[2] = Agents
    BY <1>2
  <2> QED BY <2>1, <1>3
<1>5. 0 = ExitCode(base, head, seen # <<Agents, Agents>>, regressed, severe)
  BY <1>1, <1>4
<1> HIDE DEF IntroducedViolations, ContractWeakenings
<1> QED BY <1>5 DEF ExitCode

\* An empty report says so of every agent on both sides.
LEMMA NoWeakening ==
  ASSUME NEW base, NEW head, ContractWeakenings(base, head) = {},
         NEW a \in Present(base) \cap Present(head)
  PROVE  Weakenings(base[a].contract, head[a].contract) = {}
<1>1. SUFFICES ASSUME NEW x \in Weakenings(base[a].contract, head[a].contract)
               PROVE  FALSE
  OBVIOUS
<1> DEFINE of(b) == {<<b, y>> : y \in Weakenings(base[b].contract, head[b].contract)}
           all == {of(b) : b \in Present(base) \cap Present(head)}
<1>2. <<a, x>> \in of(a)
  BY Zenon
<1>3. of(a) \in all
  BY Zenon
<1>4. <<a, x>> \in UNION all
  <2> HIDE DEF of, all
  <2> QED BY <1>2, <1>3
<1>5. UNION all = {}
  BY Zenon DEF ContractWeakenings
<1> QED BY <1>4, <1>5

\* What a commit must keep of the contracts there were at the beginning.
Ratcheted(tree) ==
  \A a \in kept : \A r \in Relationships :
    Violations(r, origin[a].contract) \subseteq Violations(r, tree[a].contract)

\* A passed check found nothing.
Sound(pr) ==
  pr.passed => /\ IntroducedViolations(pr.base, pr.head) = {}
               /\ ContractWeakenings(pr.base, pr.head) = {}

CheckInv ==
  /\ \A pr \in prs : Sound(pr)
  /\ linear => ViolationIds(main) \subseteq ViolationIds(origin)

\* A pull request is forked from, and checked against, earlier main branches.
Holds(tree) == kept \subseteq Present(tree) /\ Ratcheted(tree)

RatchetInv == Holds(main) /\ \A pr \in prs : Holds(pr.fork) /\ Holds(pr.base)

\* No reported weakening: the head of a pull request keeps what its base kept.
LEMMA HeadRatcheted ==
  ASSUME CoverageSound, UniqueServers, TypeOK, NEW pr \in prs, Holds(pr.base),
         Sound(pr), pr.passed,
         NEW a \in kept, pr.head[a].declared, NEW r \in Relationships
  PROVE  Violations(r, origin[a].contract) \subseteq Violations(r, pr.head[a].contract)
<1>1. pr.base \in TreeType /\ pr.head \in TreeType /\ a \in Agents
  BY DEF TypeOK, PRs
<1>2. pr.base[a].contract \in Contracts /\ pr.head[a].contract \in Contracts
  BY <1>1, TreeFields
<1>3. a \in Present(pr.base) \cap Present(pr.head)
  BY <1>1 DEF Holds, Present
<1>4. Weakenings(pr.base[a].contract, pr.head[a].contract) = {}
  BY <1>3, NoWeakening DEF Sound
<1>5. Violations(r, pr.base[a].contract) \subseteq Violations(r, pr.head[a].contract)
  BY <1>2, <1>4, ViolationsKept
<1>6. Violations(r, origin[a].contract) \subseteq Violations(r, pr.base[a].contract)
  BY DEF Holds, Ratcheted
<1> QED BY <1>5, <1>6

-----------------------------------------------------------------------------
(* The invariants.                                                         *)

\* What the check proves when it runs, and what an up-to-date merge keeps.
LEMMA CheckInvStep ==
  ASSUME Strict, TypeOK, CheckInv, [Next]_vars
  PROVE  CheckInv'
<1>1. ASSUME NEW head \in Trees, Branch(head)
      PROVE  CheckInv'
  BY <1>1 DEF Branch, CheckInv, Sound
<1>2. ASSUME NEW pr \in prs, Check(pr)
      PROVE  CheckInv'
  <2>1. PICK code \in ExitCodes(main, pr.head) :
          prs' = (prs \ {pr}) \cup
                 {[pr EXCEPT !.base = IF code = 0 THEN main ELSE pr.fork,
                             !.passed = (code = 0)]}
    BY <1>2 DEF Check
  <2> DEFINE new == [pr EXCEPT !.base = IF code = 0 THEN main ELSE pr.fork,
                               !.passed = (code = 0)]
  <2>2. pr \in PRs /\ main \in TreeType /\ pr.head \in TreeType
    BY DEF TypeOK, PRs
  <2>3. /\ new.head = pr.head /\ new.passed = (code = 0)
        /\ code = 0 => new.base = main
    BY <2>2 DEF PRs
  <2>4. Sound(new)
    <3> HIDE DEF new
    <3>1. CASE code = 0
      <4>1. /\ IntroducedViolations(main, pr.head) = {}
            /\ ContractWeakenings(main, pr.head) = {}
        BY <2>1, <2>2, <3>1, PassedIsComplete
      <4> QED BY <2>3, <3>1, <4>1 DEF Sound
    <3>2. CASE code # 0
      BY <2>3, <3>2 DEF Sound
    <3> QED BY <3>1, <3>2
  <2>5. \A q \in prs' : Sound(q)
    BY <2>1, <2>4 DEF CheckInv
  <2> QED BY <1>2, <2>5 DEF Check, CheckInv, Sound
<1>3. ASSUME NEW pr \in prs, Merge(pr)
      PROVE  CheckInv'
  <2>1. /\ main' = Merged(pr) /\ prs' = prs \ {pr} /\ origin' = origin
        /\ linear' = (linear /\ pr.fork = main /\ pr.base = main)
        /\ pr.passed
    BY <1>3 DEF Merge
  <2>2. pr.head \in TreeType
    BY DEF TypeOK, PRs
  <2>3. ASSUME linear'
        PROVE  ViolationIds(main') \subseteq ViolationIds(origin')
    <3>1. linear /\ pr.fork = main /\ pr.base = main
      BY <2>1, <2>3
    <3>2. ASSUME NEW a \in Agents
          PROVE  main'[a] = pr.head[a]
      <4>1. main'[a] =
              [declared |-> Pick(main[a].declared, main[a].declared, pr.head[a].declared),
               contract |-> Pick(main[a].contract, main[a].contract, pr.head[a].contract),
               authority |-> Pick(main[a].authority, main[a].authority,
                                  pr.head[a].authority)]
        BY <2>1, <3>1 DEF Merged
      <4>2. pr.head[a] \in [declared : BOOLEAN, contract : Contracts,
                            authority : SUBSET Relationships]
        BY <2>2 DEF TreeType
      <4> QED BY <4>1, <4>2 DEF Pick
    <3>3. main' = pr.head
      BY <2>1, <2>2, <3>2 DEF Merged, TreeType
    <3>4. IntroducedViolations(main, pr.head) = {}
      BY <2>1, <3>1 DEF CheckInv, Sound
    <3>5. ViolationIds(pr.head) \subseteq ViolationIds(main)
      BY <3>4 DEF IntroducedViolations
    <3>6. ViolationIds(main) \subseteq ViolationIds(origin)
      BY <3>1 DEF CheckInv
    <3> QED BY <2>1, <3>3, <3>5, <3>6
  <2>4. \A q \in prs' : Sound(q)
    BY <2>1 DEF CheckInv
  <2> QED BY <2>3, <2>4 DEF CheckInv, Sound
<1>4. ASSUME NEW pr \in prs, Close(pr)
      PROVE  CheckInv'
  BY <1>4 DEF Close, CheckInv, Sound
<1>5. CASE UNCHANGED vars
  BY <1>5 DEF vars, CheckInv, Sound
<1> QED BY <1>1, <1>2, <1>3, <1>4, <1>5 DEF Next

\* A merge takes every contract from the main branch or from a passed head.
LEMMA MergeRatchets ==
  ASSUME CoverageSound, UniqueServers, TypeOK, CheckInv, RatchetInv,
         NEW pr \in prs, Merge(pr)
  PROVE  RatchetInv'
<1>1. /\ main' = Merged(pr) /\ kept' = kept \cap Present(main')
      /\ prs' = prs \ {pr} /\ origin' = origin /\ pr.passed
  BY DEF Merge
<1>2. /\ Holds(pr.fork) /\ Holds(pr.base) /\ Holds(main) /\ Sound(pr)
      /\ pr.fork \in TreeType /\ pr.head \in TreeType
  BY DEF RatchetInv, CheckInv, TypeOK, PRs
<1>3. ASSUME NEW a \in kept', NEW r \in Relationships
      PROVE  Violations(r, origin[a].contract) \subseteq Violations(r, main'[a].contract)
  <2>1. a \in kept /\ a \in Agents /\ main'[a].declared
    BY <1>1 DEF Present
  <2>2. pr.fork[a].declared
    BY <1>2, <2>1 DEF Holds, Present
  <2>3. /\ main'[a].declared
             = Pick(pr.fork[a].declared, main[a].declared, pr.head[a].declared)
        /\ main'[a].contract
             = Pick(pr.fork[a].contract, main[a].contract, pr.head[a].contract)
    BY <1>1, <2>1 DEF Merged
  <2>4. pr.head[a].declared
    BY <2>1, <2>2, <2>3 DEF Pick
  <2>5. Violations(r, origin[a].contract) \subseteq Violations(r, pr.head[a].contract)
    BY <1>1, <1>2, <2>1, <2>4, HeadRatcheted
  <2>6. Violations(r, origin[a].contract) \subseteq Violations(r, main[a].contract)
    BY <1>2, <2>1 DEF Holds, Ratcheted
  <2> QED BY <2>3, <2>5, <2>6 DEF Pick
<1>4. Holds(main)'
  BY <1>1, <1>3 DEF Holds, Ratcheted
<1>5. ASSUME NEW q \in prs'
      PROVE  Holds(q.fork)' /\ Holds(q.base)'
  BY <1>1 DEF RatchetInv, Holds, Ratcheted
<1> QED BY <1>4, <1>5 DEF RatchetInv

LEMMA RatchetInvStep ==
  ASSUME CoverageSound, UniqueServers, TypeOK, CheckInv, RatchetInv, [Next]_vars
  PROVE  RatchetInv'
<1>1. ASSUME NEW head \in Trees, Branch(head)
      PROVE  RatchetInv'
  <2>1. Holds(main) /\ \A q \in prs' : Holds(q.fork) /\ Holds(q.base)
    BY <1>1 DEF Branch, RatchetInv
  <2> QED BY <1>1, <2>1 DEF Branch, RatchetInv, Holds, Ratcheted
<1>2. ASSUME NEW pr \in prs, Check(pr)
      PROVE  RatchetInv'
  <2>1. PICK code \in ExitCodes(main, pr.head) :
          prs' = (prs \ {pr}) \cup
                 {[pr EXCEPT !.base = IF code = 0 THEN main ELSE pr.fork,
                             !.passed = (code = 0)]}
    BY <1>2 DEF Check
  <2> DEFINE new == [pr EXCEPT !.base = IF code = 0 THEN main ELSE pr.fork,
                               !.passed = (code = 0)]
  <2>2. pr \in PRs
    BY DEF TypeOK
  <2>3. new.fork = pr.fork /\ new.base \in {main, pr.fork}
    BY <2>2 DEF PRs
  <2>4. Holds(main) /\ Holds(pr.fork)
    BY DEF RatchetInv
  <2>5. \A q \in prs' : Holds(q.fork) /\ Holds(q.base)
    <3> HIDE DEF new
    <3>1. prs' = (prs \ {pr}) \cup {new}
      BY <2>1 DEF new
    <3> QED BY <2>3, <2>4, <3>1 DEF RatchetInv
  <2> QED BY <1>2, <2>4, <2>5 DEF Check, RatchetInv, Holds, Ratcheted
<1>3. ASSUME NEW pr \in prs, Merge(pr)
      PROVE  RatchetInv'
  BY <1>3, MergeRatchets
<1>4. ASSUME NEW pr \in prs, Close(pr)
      PROVE  RatchetInv'
  BY <1>4 DEF Close, RatchetInv, Holds, Ratcheted
<1>5. CASE UNCHANGED vars
  BY <1>5 DEF vars, RatchetInv, Holds, Ratcheted
<1> QED BY <1>1, <1>2, <1>3, <1>4, <1>5 DEF Next

LEMMA CheckInvariant == ASSUME Strict PROVE SafetySpec => []CheckInv
<1>1. Init => CheckInv
  BY DEF Init, CheckInv
<1>2. TypeOK /\ CheckInv /\ [Next]_vars => CheckInv'
  BY CheckInvStep
<1> QED BY <1>1, <1>2, GateTypeCorrect, PTL DEF SafetySpec

(***************************************************************************)
(* With --strict, up-to-date merges bring no violation that was not there  *)
(* when the gate was introduced.  Nothing is assumed of the patterns.      *)
(***************************************************************************)
THEOREM NoSlip == ASSUME Strict PROVE SafetySpec => []NoViolationSlips
<1>1. CheckInv => NoViolationSlips
  BY DEF CheckInv, NoViolationSlips
<1> QED BY <1>1, CheckInvariant, PTL

(***************************************************************************)
(* With --strict, where patterns cover each other soundly and no contract  *)
(* has two entries for an MCP server, no sequence of merges loosens the    *)
(* contract of an agent that stays, however stale the checks were.         *)
(***************************************************************************)
THEOREM RatchetHolds ==
  ASSUME Strict, CoverageSound, UniqueServers
  PROVE  SafetySpec => []ContractRatchet
<1>1. Init => RatchetInv
  BY DEF Init, RatchetInv, Holds, Ratcheted
<1>2. TypeOK /\ CheckInv /\ RatchetInv /\ [Next]_vars => RatchetInv'
  BY RatchetInvStep
<1>3. RatchetInv => ContractRatchet
  BY DEF RatchetInv, Holds, Ratcheted, ContractRatchet
<1> QED BY <1>1, <1>2, <1>3, GateTypeCorrect, CheckInvariant, PTL DEF SafetySpec

-----------------------------------------------------------------------------
(* The report's contract delta.                                            *)

(***************************************************************************)
(* A relationship that is the same on both sides is blamed anew only if a  *)
(* strengthening is reported: the mirror image of ViolationsKept.          *)
(***************************************************************************)
THEOREM NewBlame ==
  ASSUME CoverageSound, UniqueServers
  PROVE  SafetySpec => []NewBlameExplained
<1>1. TypeOK => NewBlameExplained
  <2> SUFFICES ASSUME TypeOK, NEW pr \in prs,
                      NEW a \in Present(pr.base) \cap Present(pr.head),
                      NEW r \in Relationships,
                      Strengthenings(pr.base[a].contract, pr.head[a].contract) = {}
               PROVE  Violations(r, pr.head[a].contract)
                        \subseteq Violations(r, pr.base[a].contract)
    BY DEF NewBlameExplained
  <2>1. pr.base \in TreeType /\ pr.head \in TreeType /\ a \in Agents
    BY DEF TypeOK, PRs, Present
  <2>2. pr.base[a].contract \in Contracts /\ pr.head[a].contract \in Contracts
    BY <2>1, TreeFields
  <2>3. Weakenings(pr.head[a].contract, pr.base[a].contract) = {}
    BY DEF Strengthenings
  <2> QED BY <2>2, <2>3, ViolationsKept
<1> QED BY <1>1, GateTypeCorrect, PTL
=============================================================================
