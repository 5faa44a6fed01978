------------------------------ MODULE PolicyDelta ------------------------------
(***************************************************************************)
(* compare_contract_constraints (authority_policy_delta.py): how the       *)
(* contract of an agent that is on both sides of a diff changed.           *)
(***************************************************************************)
EXTENDS AuthorityContract

Change(clause, on, change) == [clause |-> clause, on |-> on, change |-> change]

\* Wrong: MCP clauses are forgotten.
NonEmptyWithoutMcp(c) ==
  \/ c.approvals # {}
  \/ \E d \in Dimensions : c.allow[d] # {} \/ c.deny[d] # {}

\* _contract_nonempty
NonEmpty(c) ==
  \/ c.approvals # {}
  \/ \E i \in DOMAIN c.mcp : c.mcp[i].allowed # {} \/ c.mcp[i].denied # {}
  \/ \E d \in Dimensions : c.allow[d] # {} \/ c.deny[d] # {}

\* An allowlist with "*" counts as no allowlist.
Allowlist(c, d) == IF Star \in c.allow[d] THEN {} ELSE c.allow[d]

\* _uncovered_patterns: the patterns no other pattern accepts as a string.
Uncovered(patterns, covering) == {p \in patterns : ~Matched(p, covering)}

\* _mcp_map is a dict: of several entries for a server the last counts.
LastPolicy(c, s) ==
  LET hits == {i \in DOMAIN c.mcp : c.mcp[i].server = s}
  IN  IF hits = {} THEN NoTools(s)
      ELSE c.mcp[CHOOSE i \in hits : \A j \in hits : j <= i]

Servers(c) == {c.mcp[i].server : i \in DOMAIN c.mcp}

-----------------------------------------------------------------------------
(* Weakenings, kind by kind.                                               *)

\* The dimensions whose allowlist b has and h has not, or has wider.
AllowRemoved(b, h) ==
  {d \in Dimensions : Allowlist(b, d) # {} /\ Allowlist(h, d) = {}}

AllowWidened(b, h) ==
  {d \in Dimensions : /\ Allowlist(b, d) # {} /\ Allowlist(h, d) # {}
                      /\ Allowlist(b, d) # Allowlist(h, d)
                      /\ Uncovered(Allowlist(h, d), Allowlist(b, d)) # {}}

DenyRemoved(b, h) ==
  {d \in Dimensions : /\ b.deny[d] # h.deny[d]
                      /\ Uncovered(b.deny[d], h.deny[d]) # {}}

\* MCP tools are compared by name, not as patterns.
McpAllowRemoved(b, h) ==
  {s \in Servers(b) \cup Servers(h) :
     LastPolicy(b, s).allowed # {} /\ LastPolicy(h, s).allowed = {}}

McpAllowWidened(b, h) ==
  {s \in Servers(b) \cup Servers(h) :
     /\ LastPolicy(b, s).allowed # {} /\ LastPolicy(h, s).allowed # {}
     /\ ~(LastPolicy(h, s).allowed \subseteq LastPolicy(b, s).allowed)}

McpDenyRemoved(b, h) ==
  {s \in Servers(b) \cup Servers(h) :
     ~(LastPolicy(b, s).denied \subseteq LastPolicy(h, s).denied)}

\* What b constrains and h does not: _scope_changes, _approval_changes and
\* _mcp_tool_changes, in one direction.
Loosened(b, h) ==
  {Change("allow", d, "removed") : d \in AllowRemoved(b, h)} \cup
  {Change("allow", d, "widened") : d \in AllowWidened(b, h)} \cup
  {Change("deny", d, "removed") : d \in DenyRemoved(b, h)} \cup
  {x \in {Change("approval", "required", "removed")} :
     ~(b.approvals \subseteq h.approvals)} \cup
  {Change("mcp_allow", s, "removed") : s \in McpAllowRemoved(b, h)} \cup
  {Change("mcp_allow", s, "widened") : s \in McpAllowWidened(b, h)} \cup
  {Change("mcp_deny", s, "removed") : s \in McpDenyRemoved(b, h)}

Weakenings(b, h) ==
  IF NonEmpty(b) /\ ~NonEmpty(h) THEN {Change("contract", "authority", "removed")}
  ELSE IF NonEmpty(b) /\ NonEmpty(h) THEN Loosened(b, h)
  ELSE {}

\* Every kind of change has its mirror image, reported as a strengthening.
Strengthenings(b, h) == Weakenings(h, b)
=============================================================================
