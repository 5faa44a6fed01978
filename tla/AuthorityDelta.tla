---------------------------- MODULE AuthorityDelta ----------------------------
(***************************************************************************)
(* How the effective authority of an agent over one target is classified   *)
(* (trust_boundaries.py), how that of two commits differs                  *)
(* (authority_delta.py), how much of it is unresolved                      *)
(* (authority_resolution.py), and what a reviewer is shown of it           *)
(* (security_review.py).                                                   *)
(*                                                                         *)
(* A relationship's id is of its agent, the kind and the name of its       *)
(* target; a list may have several of one id.  Of an identity, a role      *)
(* stands for roles and permissions alike but for how broad it is.         *)
(***************************************************************************)
EXTENDS Integers, Sequences, FiniteSets, SequencesExt

CONSTANTS
  Targets,       \* agents and names of targets
  Capabilities,  \* includes the capabilities named below
  AuthRoles,     \* roles and permissions of identities
  OAuthScopes,
  Broad,         \* the roles, permissions and scopes that are broad
  ToolNames      \* tools of MCP servers

IdentityDoc == [name : {<<"i">>, <<"j">>}, roles : SUBSET AuthRoles,
                oauth_scopes : SUBSET OAuthScopes, credential : BOOLEAN]

Mutations == {"none", "local_session_state_write", "internal_write_unspecified",
              "persistent_internal_write", "external_side_effect", "destructive_write"}

Networks == {"none", "fixed_provider_network", "arbitrary_internet_retrieval",
             "arbitrary_egress"}

(***************************************************************************)
(* An effective authority relationship.  required is the approval that is  *)
(* declared: "yes", "no" or "unknown"; control is a guardrail or a control *)
(* inherited from the agent; entry tells the relationships of a list apart.*)
(***************************************************************************)
AuthorityOver(server) ==
  [target : Targets, entry : Nat \X Nat, server : {server}, capabilities : SUBSET Capabilities,
   identity : SUBSET IdentityDoc,
   required : {"yes", "no", "unknown"}, guardrails : BOOLEAN, inherited : BOOLEAN,
   allowed : SUBSET ToolNames, denied : SUBSET ToolNames, dynamic : BOOLEAN,
   resources : SUBSET Targets, destinations : SUBSET Targets,
   restricted : BOOLEAN, mutation : Mutations, network : Networks]

-----------------------------------------------------------------------------
(* Tool scope, resolution.                                                 *)

\* _mcp_tool_scope
Scope(r) ==
  IF r.allowed # {} THEN "explicit_allowlist"
  ELSE IF r.denied # {} THEN "denylist_only"
  ELSE IF r.dynamic THEN "dynamic_filter" ELSE "unrestricted_or_unknown"

\* The dimensions that _tool_relationship and _mcp_relationship leave unresolved.
UnresolvedDimensions(r) ==
  {x \in {"capabilities"} : ~r.server /\ r.capabilities = {}}
    \cup {x \in {"identity"} : r.identity = {}}
    \cup {x \in {"credential_source"} : \E i \in r.identity : ~i.credential}
    \cup {x \in {"approval"} : r.required = "unknown" /\ ~r.guardrails /\ ~r.inherited}
    \cup {x \in {"resources"} : r.resources = {}}
    \cup {x \in {"destinations"} : r.destinations = {}}
    \cup {x \in {"tool_catalogue"} : r.server /\ r.allowed = {}}

\* authority_resolution_summary: "unresolved_relationships", of a whole list
UnresolvedCount(rels) == Cardinality({r \in rels : UnresolvedDimensions(r) # {}})

\* compare_authority_resolution: a count, so one that is resolved makes up for one
\* that is not.
ResolutionRegressed(base, head) == UnresolvedCount(head) > UnresolvedCount(base)

-----------------------------------------------------------------------------
(* Trust boundaries.  "unknown" is a class that is compared with nothing.  *)

MutationOrder == <<"no_mutation", "local_session_mutation",
  "internal_mutation_unspecified", "persistent_internal_mutation",
  "external_side_effect", "destructive_mutation", "security_identity_sensitive_mutation">>

NetworkOrder == <<"no_external_network", "fixed_destination",
  "provider_constrained_destination", "internet_retrieval", "arbitrary_egress">>

IdentityOrder == <<"workload_service_identity", "oauth_delegated_authority",
  "iam_authority", "broad_privileged_authority">>

ControlOrder == <<"mandatory_approval", "guardrail_control", "explicitly_no_approval">>

ScopeOrder == <<"explicit_allowlist", "denylist_only">>

\* _mutation_boundary: the first class whose evidence is there.
MutationClass(r) ==
  IF "identity.admin" \in r.capabilities THEN "security_identity_sensitive_mutation"
  ELSE IF r.mutation = "destructive_write" \/ "destructive.write" \in r.capabilities
  THEN "destructive_mutation"
  ELSE IF r.mutation = "external_side_effect" \/ "external.write" \in r.capabilities
  THEN "external_side_effect"
  ELSE IF r.mutation = "persistent_internal_write" THEN "persistent_internal_mutation"
  ELSE IF r.mutation = "local_session_state_write" THEN "local_session_mutation"
  ELSE IF r.mutation = "internal_write_unspecified" \/ "data.write" \in r.capabilities
  THEN "internal_mutation_unspecified"
  ELSE IF r.server \/ {"process.execute", "computer.control"} \cap r.capabilities # {}
          \/ r.capabilities = {}
  THEN "unknown" ELSE "no_mutation"

\* _network_boundary
NetworkClass(r) ==
  IF "network.external" \notin r.capabilities THEN "no_external_network"
  ELSE IF r.network = "arbitrary_egress" THEN "arbitrary_egress"
  ELSE IF r.network = "arbitrary_internet_retrieval" THEN "internet_retrieval"
  ELSE IF r.network = "fixed_provider_network" THEN "provider_constrained_destination"
  ELSE IF r.destinations # {} /\ r.restricted THEN "fixed_destination" ELSE "unknown"

\* _identity_boundary
IdentityClass(r) ==
  IF r.identity = {} THEN "unknown"
  ELSE LET i == CHOOSE x \in r.identity : TRUE IN
       IF (i.roles \cup i.oauth_scopes) \cap Broad # {} THEN "broad_privileged_authority"
       ELSE IF i.roles # {} THEN "iam_authority"
       ELSE IF i.oauth_scopes # {} THEN "oauth_delegated_authority"
       ELSE "workload_service_identity"

\* _control_boundary
ControlClass(r) ==
  IF r.required = "yes" THEN "mandatory_approval"
  ELSE IF r.guardrails \/ r.inherited THEN "guardrail_control"
  ELSE IF r.required = "no" THEN "explicitly_no_approval" ELSE "unknown"

\* _mcp_scope_boundary
ScopeClass(r) ==
  IF ~r.server THEN "not_applicable"
  ELSE IF Scope(r) = "dynamic_filter" THEN "dynamic_scope"
  ELSE IF Scope(r) = "unrestricted_or_unknown" THEN "unknown" ELSE Scope(r)

\* _ordered_direction, _control_direction: up the order is wider, or weaker.
Rises(before, after, order) ==
  /\ {before, after} \subseteq Range(order)
  /\ \E j \in DOMAIN order, k \in DOMAIN order :
       order[j] = before /\ order[k] = after /\ j < k

\* classify_boundary_crossings: the families in which after is wider or weaker.
Crossings(before, after) ==
  {x \in {"mutation"} : Rises(MutationClass(before), MutationClass(after), MutationOrder)}
    \cup {x \in {"network"} : Rises(NetworkClass(before), NetworkClass(after), NetworkOrder)}
    \cup {x \in {"identity"} :
            Rises(IdentityClass(before), IdentityClass(after), IdentityOrder)}
    \cup {x \in {"control"} : Rises(ControlClass(before), ControlClass(after), ControlOrder)}
    \cup {x \in {"mcp_scope"} : Rises(ScopeClass(before), ScopeClass(after), ScopeOrder)}

-----------------------------------------------------------------------------
(* Expansions.                                                             *)

\* Wrong: a denied tool that is allowed again is no expansion.
ScopeExpandedByAllowed(before, after) ==
  \/ ~(after.allowed \subseteq before.allowed)
  \/ Scope(before) = "explicit_allowlist" /\ Scope(after) # "explicit_allowlist"

\* _tool_scope_expanded
ScopeExpanded(before, after) ==
  \/ ~(after.allowed \subseteq before.allowed)
  \/ ~(before.denied \subseteq after.denied)
  \/ Scope(before) = "explicit_allowlist" /\ Scope(after) # "explicit_allowlist"

\* _approval_weakened
ApprovalWeakened(before, after) ==
  \/ before.required = "yes" /\ after.required # "yes"
  \/ before.guardrails /\ ~after.guardrails
  \/ before.inherited /\ ~after.inherited

\* The identity expansions of _identity_delta and _changed_relationship.
IdentityExpanded(before, after) ==
  \E i \in after.identity :
    \/ before.identity = {}
    \/ \E j \in before.identity : \/ i.name # j.name
                                  \/ ~(i.roles \subseteq j.roles)
                                  \/ ~(i.oauth_scopes \subseteq j.oauth_scopes)

\* _changed_relationship: "expansion_reasons"
ExpansionReasons(before, after) ==
  {x \in {"capabilities_added"} : ~(after.capabilities \subseteq before.capabilities)}
    \cup {x \in {"identity"} : IdentityExpanded(before, after)}
    \cup {x \in {"approval_weakened"} : ApprovalWeakened(before, after)}
    \cup {x \in {"tool_scope_expanded"} : after.server /\ ScopeExpanded(before, after)}
    \cup {x \in {"resources_added"} : ~(after.resources \subseteq before.resources)}
    \cup {x \in {"destinations_added"} : ~(after.destinations \subseteq before.destinations)}

\* _relationship_index, _typed_relationship_index: of the relationships with one id the
\* last of the list, which is as the adapters and the passes happened to add them.
Indexes(rels) ==
  {index \in SUBSET rels :
     \A r \in rels : Cardinality({k \in index : k.target = r.target}) = 1}

\* compare_effective_authority: "expansions", with their reasons and crossings, of an index
\* of base and one of head.
Expansions(base, head) ==
  {[target |-> h.target, reasons |-> {"new_relationship"}, crossings |-> {}] :
     h \in {x \in head : \A b \in base : b.target # x.target}}
    \cup
  {[target |-> p[2].target, reasons |-> ExpansionReasons(p[1], p[2]),
    crossings |-> Crossings(p[1], p[2])] :
     p \in {q \in base \X head : /\ q[1].target = q[2].target
                                 /\ ExpansionReasons(q[1], q[2]) # {}}}
=============================================================================
