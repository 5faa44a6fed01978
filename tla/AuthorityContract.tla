-------------------------- MODULE AuthorityContract --------------------------
(***************************************************************************)
(* evaluate_relationship (authority_contract.py): what one effective       *)
(* authority relationship of an agent, with the evidence there is for it,  *)
(* violates of the agent's Authority Contract, and what cannot be decided. *)
(*                                                                         *)
(* Values and patterns are members of one set Strings, because the policy  *)
(* delta matches patterns against patterns.                                *)
(***************************************************************************)
EXTENDS Integers, Sequences, FiniteSets

CONSTANTS
  Strings,        \* values and fnmatch patterns
  Star,           \* the pattern "*"
  Lang,           \* Lang[p]: the strings that fnmatch accepts for pattern p
  Relationships,  \* the relationships an agent may have
  Contracts       \* the contracts a manifest may declare

IdentityDimensions == {"identities", "iam_roles", "permissions", "oauth_scopes"}

Dimensions ==
  IdentityDimensions \cup {"capabilities", "resources", "destinations", "mcp_servers"}

(***************************************************************************)
(* One relationship: agent to a tool or to an MCP server.  identified:     *)
(* the identity it names is known.  approval is "yes", "no" or "unset".    *)
(* allowed, denied and dynamic are the server's tool filter.               *)
(***************************************************************************)
RelationshipType ==
  [kind : {"tool", "mcp_server"}, name : Strings,
   observed : [Dimensions -> SUBSET Strings], identified : BOOLEAN,
   approval : {"yes", "no", "unset"},
   allowed : SUBSET Strings, denied : SUBSET Strings, dynamic : BOOLEAN]

ContractType ==
  [allow : [Dimensions -> SUBSET Strings], deny : [Dimensions -> SUBSET Strings],
   approvals : SUBSET Strings,
   mcp : Seq([server : Strings, allowed : SUBSET Strings, denied : SUBSET Strings])]

\* No contract and a contract without any clause give the same results.
NoContract ==
  [allow |-> [d \in Dimensions |-> {}], deny |-> [d \in Dimensions |-> {}],
   approvals |-> {}, mcp |-> <<>>]

ASSUME StringsAssumption ==
  /\ Star \in Strings
  /\ Lang \in [Strings -> SUBSET Strings]
  /\ Lang[Star] = Strings

ASSUME ContractsAssumption ==
  /\ Relationships \subseteq RelationshipType
  /\ Contracts \subseteq ContractType
  /\ NoContract \in Contracts

-----------------------------------------------------------------------------
(* Evidence.                                                               *)

\* matches_any
Matched(v, patterns) == \E p \in patterns : v \in Lang[p]

\* Which dimensions a relationship is evaluated in, and what is seen there.
Evaluated(r) == IF r.kind = "mcp_server" THEN Dimensions
                                         ELSE Dimensions \ {"mcp_servers"}

Observed(r, d) == IF d = "mcp_servers" THEN {r.name} ELSE r.observed[d]

\* Identity dimensions share one piece of evidence; the others need a value.
Known(r, d) ==
  IF d \in IdentityDimensions THEN r.identified ELSE Observed(r, d) # {}

\* _mcp_tool_scope
ToolScope(r) ==
  IF r.allowed # {} THEN "explicit_allowlist"
  ELSE IF r.denied # {} THEN "denylist_only"
  ELSE IF r.dynamic THEN "dynamic_filter" ELSE "unrestricted_or_unknown"

NoTools(s) == [server |-> s, allowed |-> {}, denied |-> {}]

\* next(...): of several entries for a server the first counts.
FirstPolicy(c, s) ==
  LET hits == {i \in DOMAIN c.mcp : c.mcp[i].server = s}
  IN  IF hits = {} THEN NoTools(s)
      ELSE c.mcp[CHOOSE i \in hits : \A j \in hits : i <= j]

-----------------------------------------------------------------------------
(* Results.  A result is identified by the relationship, the clause and    *)
(* the reason; the values seen are not part of it (_stable_result_id).     *)

Result(clause, on, reason) == [clause |-> clause, on |-> on, reason |-> reason]

DeniedSeen(r, c, d) == {v \in Observed(r, d) : Matched(v, c.deny[d])}

OutsideAllowed(r, c, d) == {v \in Observed(r, d) : ~Matched(v, c.allow[d])}

\* _evaluate_string_dimension, where the evidence is known.
ScopeViolations(r, c) ==
  {Result("deny", d, "observed") :
     d \in {x \in Evaluated(r) : Known(r, x) /\ DeniedSeen(r, c, x) # {}}}
  \cup
  {Result("allow", d, "outside_allowlist") :
     d \in {x \in Evaluated(r) : /\ Known(r, x)
                                 /\ c.allow[x] # {}
                                 /\ OutsideAllowed(r, c, x) # {}}}

\* _evaluate_string_dimension, where it is not.
ScopeUnresolved(r, c) ==
  {Result("deny", d, "evidence_unknown") :
     d \in {x \in Evaluated(r) : ~Known(r, x) /\ c.deny[x] # {}}}
  \cup
  {Result("allow", d, "evidence_unknown") :
     d \in {x \in Evaluated(r) : ~Known(r, x) /\ c.allow[x] # {}}}

\* _approval_results
ApprovalDue(r, c) == r.observed["capabilities"] \cap c.approvals # {}

ApprovalViolations(r, c) ==
  {x \in {Result("approval", "required", "disabled")} :
     ApprovalDue(r, c) /\ r.approval = "no"}

ApprovalUnresolved(r, c) ==
  {x \in {Result("approval", "required", "not_proven")} :
     ApprovalDue(r, c) /\ r.approval = "unset"}

\* _mcp_tool_results; p is the contract's policy for the server.
McpViolations(r, p) ==
  {x \in {Result("mcp_allow", r.name, "outside_allowlist")} :
     /\ p.allowed # {}
     /\ ToolScope(r) = "explicit_allowlist"
     /\ ~(r.allowed \subseteq p.allowed)}
  \cup
  {x \in {Result("mcp_allow", r.name, "not_enforced")} :
     /\ p.allowed # {}
     /\ ToolScope(r) \in {"unrestricted_or_unknown", "denylist_only"}}
  \cup
  {x \in {Result("mcp_deny", r.name, "explicitly_allowed")} :
     r.allowed \cap p.denied # {}}

McpUnresolved(r, p) ==
  {x \in {Result("mcp_allow", r.name, "dynamic_or_unknown")} :
     p.allowed # {} /\ ToolScope(r) = "dynamic_filter"}
  \cup
  {x \in {Result("mcp_deny", r.name, "absence_not_proven")} :
     /\ r.allowed \cap p.denied = {}
     /\ ToolScope(r) # "explicit_allowlist"
     /\ ~(p.denied \subseteq r.denied)}

Violations(r, c) ==
  ScopeViolations(r, c) \cup ApprovalViolations(r, c) \cup
  IF r.kind = "mcp_server" THEN McpViolations(r, FirstPolicy(c, r.name)) ELSE {}

Unresolved(r, c) ==
  ScopeUnresolved(r, c) \cup ApprovalUnresolved(r, c) \cup
  IF r.kind = "mcp_server" THEN McpUnresolved(r, FirstPolicy(c, r.name)) ELSE {}
=============================================================================
