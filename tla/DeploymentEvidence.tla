-------------------------- MODULE DeploymentEvidence --------------------------
(***************************************************************************)
(* What a deployment evidence file says (deployment_evidence.py), which    *)
(* agents its workloads run (deployed_identity.py), and the authority that *)
(* its IAM bindings give them (deployed_authority.py).                     *)
(*                                                                         *)
(* The resource scope of a binding and where it is inherited from are      *)
(* reported and decide nothing; they are left out.                         *)
(***************************************************************************)
EXTENDS Integers, Sequences, FiniteSets, SequencesExt

CONSTANTS
  AgentNames,
  Unnamed,      \* no agent is named
  Workloads,    \* ids and names of workloads
  Accounts,     \* service accounts, by their canonical email
  Roles,
  Permissions

ASSUME UnnamedAssumption == Unnamed \notin AgentNames

(***************************************************************************)
(* A principal as it is written: an email, "serviceAccount:" and an email, *)
(* a ".../serviceAccounts/" resource name, or anything else: a group, a    *)
(* domain, allUsers, a user, a template that was not filled in.            *)
(***************************************************************************)
Principal == [form : {"email", "prefixed", "resource", "other"}, account : Accounts]

Workload == [name : Workloads, identity : Principal, agent : AgentNames \cup {Unnamed}]

Binding == [principal : Principal, role : Roles, permissions : SUBSET Permissions,
            conditional : BOOLEAN]

Bundle == [provider : {"gcp", "aws"}, workloads : SUBSET Workload,
           bindings : SUBSET Binding, catalogue : [Roles -> SUBSET Permissions]]

-----------------------------------------------------------------------------
(* Loading a file.                                                         *)

KnownFields == {"schema_version", "provider", "source", "workloads",
                "iam_bindings", "role_permissions", "metadata"}

\* A file: how it can be read, the fields found at any level, and what they say.
Document ==
  [file : {"readable", "absent", "oversized", "not_text", "other_suffix"},
   parses : BOOLEAN, version : Nat, fields : SUBSET (KnownFields \cup {"unknown"}),
   well_typed : BOOLEAN, bundle : Bundle]

\* Wrong: fields that are not known are passed over.
AcceptedUnknownFields(d) ==
  d.file = "readable" /\ d.parses /\ d.version = 1 /\ d.well_typed

\* Whether load_deployment_evidence returns a bundle; otherwise it raises.
Accepted(d) ==
  /\ d.file = "readable"
  /\ d.parses
  /\ d.fields \subseteq KnownFields
  /\ d.version = 1
  /\ d.well_typed

-----------------------------------------------------------------------------
(* Identities.                                                             *)

\* normalize_gcp_service_account: whether a principal has a canonical form.
Normalizes(provider, p) == provider = "gcp" => p.form # "other"

\* _canonical_principal: whether two principals are one.
SamePrincipal(provider, p, q) ==
  IF provider = "gcp"
  THEN p.form # "other" /\ q.form # "other" /\ p.account = q.account
  ELSE p = q

\* Wrong: a hint counts although the evidence names the agent.
MatchesAnyway(a, w) == w.agent = a.name \/ w.name \in a.hints

\* _matches: the agent the evidence names, or else the deployment an agent names.
Matches(a, w) == IF w.agent # Unnamed THEN w.agent = a.name ELSE w.name \in a.hints

\* deployed_identity_relationships, of the agents of one name.
IdentityRelationships(agents, name, b) ==
  {[agent |-> name, workload |-> w,
    unresolved |-> IF Normalizes(b.provider, w.identity) THEN {} ELSE {"identity"}] :
     w \in {v \in b.workloads :
              \E a \in Range(agents) : a.name = name /\ Matches(a, v)}}

-----------------------------------------------------------------------------
(* Deployed authority.                                                     *)

\* _matching_bindings
BindingsOf(r, b) ==
  {g \in b.bindings : SamePrincipal(b.provider, r.workload.identity, g.principal)}

\* _binding_permissions; a role that is expanded to nothing is unresolved.
Expansion(g, b) == g.permissions \cup b.catalogue[g.role]

RolesOf(bindings) == {g.role : g \in bindings}
PermissionsOf(bindings, b) == UNION {Expansion(g, b) : g \in bindings}

\* Wrong: a role that was not expanded grants nothing.
UnresolvedButExpansion(r, bindings, b) ==
  r.unresolved
    \cup {x \in {"iam_bindings"} : bindings = {}}
    \cup {x \in {"iam_condition_applicability"} : \E g \in bindings : g.conditional}

UnresolvedAuthority(r, bindings, b) ==
  r.unresolved
    \cup {x \in {"iam_bindings"} : bindings = {}}
    \cup {x \in {"permissions"} : \E g \in bindings : Expansion(g, b) = {}}
    \cup {x \in {"iam_condition_applicability"} : \E g \in bindings : g.conditional}

\* _authority_relationship
AuthorityRelationship(r, b) ==
  LET all  == BindingsOf(r, b)
      held == {g \in all : ~g.conditional}
  IN  [agent |-> r.agent, workload |-> r.workload,
       roles |-> RolesOf(held),
       conditional_roles |-> RolesOf(all \ held),
       permissions |-> PermissionsOf(held, b),
       conditional_permissions |-> PermissionsOf(all \ held, b),
       unresolved |-> UnresolvedAuthority(r, all, b)]

\* deployed_authority_relationships
AuthorityRelationships(agents, name, b) ==
  {AuthorityRelationship(r, b) : r \in IdentityRelationships(agents, name, b)}

-----------------------------------------------------------------------------
(***************************************************************************)
(* What a deployment may be in truth, given what a bundle says: conditions *)
(* hold or not, and a role nobody expanded grants any permissions.  Not    *)
(* code: the properties of the reports are about these worlds.             *)
(***************************************************************************)
Worlds(b) ==
  [holds : SUBSET {g \in b.bindings : g.conditional},
   grants : [{g.role : g \in {h \in b.bindings : Expansion(h, b) = {}}}
               -> SUBSET Permissions]]

InForce(w, b, principal) ==
  {g \in b.bindings : /\ SamePrincipal(b.provider, principal, g.principal)
                      /\ g.conditional => g \in w.holds}

PermissionsIn(w, b, principal) ==
  UNION {IF Expansion(g, b) # {} THEN Expansion(g, b) ELSE w.grants[g.role] :
           g \in InForce(w, b, principal)}

RolesIn(w, b, principal) == RolesOf(InForce(w, b, principal))
=============================================================================
