------------------------ MODULE AuthorityReconciliation ------------------------
(***************************************************************************)
(* What an agent is required and what it is deployed to hold               *)
(* (authority_reconciliation.py), whether that keeps to its Authority      *)
(* Contract (deployed_policy.py), and how two snapshots of a deployment    *)
(* differ (deployment_delta.py).                                           *)
(***************************************************************************)
EXTENDS DeploymentRequirements

CONSTANT Supersets  \* _GCP_ROLE_SUPERSETS

ASSUME SupersetsAssumption ==
  /\ Supersets \in [Roles -> SUBSET Roles]
  /\ SqlClient \in Roles
  /\ DiscoveryRoles \subseteq Roles

Named(agents, name) == {a \in Range(agents) : a.name = name}

Names(agents) == {a.name : a \in Range(agents)}

-----------------------------------------------------------------------------
(* Required authority.                                                     *)

\* _identity: the first that has the name, of the agent's identities and the graph's.
IdentityOf(a, r) ==
  LET hits == {k \in DOMAIN a.identities : a.identities[k].name \in r.identity} IN
  IF hits = {} THEN {}
  ELSE {a.identities[CHOOSE k \in hits : \A j \in hits : k <= j]}

\* The relationships of all agents of one name, with the identity of each.
RelationshipsOf(agents, name) ==
  UNION {{[required |-> r, identity |-> IdentityOf(a, r)] : r \in a.relationships} :
           a \in Named(agents, name)}

\* _required_authority.  One identity with roles makes the roles complete, and so does one
\* relationship that says so.
RequiredOf(rels) ==
  LET known == UNION {r.identity : r \in rels}
      seen  == {r.required : r \in rels} IN
  [roles |-> UNION {x.roles : x \in known \cup seen},
   permissions |-> UNION {x.permissions : x \in known \cup seen},
   roles_complete |-> \/ \E i \in known : i.roles # {}
                      \/ \E x \in seen : x.roles_complete,
   permissions_complete |-> \/ \E i \in known : i.permissions # {}
                            \/ \E x \in seen : x.permissions_complete]

\* With what the deployment shows to be needed; that is never complete.
Required(agents, name) ==
  LET source == RequiredOf(RelationshipsOf(agents, name)) IN
  [source EXCEPT !.roles = @ \cup agents[LastNamed(agents, name)].deployment_roles]

RequiredUnresolved(agents, name) ==
  LET q    == Required(agents, name)
      more == agents[LastNamed(agents, name)].deployment_roles IN
  {x \in {"required_roles"} : q.roles = {}}
    \cup {x \in {"required_roles_incomplete"} :
            more # {} \/ (q.roles # {} /\ ~q.roles_complete)}
    \cup {x \in {"required_permissions"} : q.permissions = {}}
    \cup {x \in {"required_permissions_incomplete"} :
            q.permissions # {} /\ ~q.permissions_complete}

-----------------------------------------------------------------------------
(* Reconciliation.                                                         *)

\* _role_satisfied
Satisfied(provider, role, deployed) ==
  role \in deployed \/ (provider = "gcp" /\ Supersets[role] \cap deployed # {})

Excess(deployed, required, complete) == IF complete THEN deployed \ required ELSE {}

\* _status
Status(excess, missing, unresolved) ==
  IF excess /\ missing THEN "mixed"
  ELSE IF excess THEN "excess_authority"
  ELSE IF missing THEN "missing_authority"
  ELSE IF unresolved # {} THEN "unresolved" ELSE "aligned"

\* authority_reconciliations, for the agents of one name.
Reconciliation(agents, name, b) ==
  LET q        == Required(agents, name)
      held     == AuthorityRelationships(agents, name, b)
      roles    == UNION {r.roles : r \in held}
      perms    == UNION {r.permissions : r \in held}
      if_roles == UNION {r.conditional_roles : r \in held}
      if_perms == UNION {r.conditional_permissions : r \in held}
      excess_roles == Excess(roles, q.roles, q.roles_complete)
      excess_perms == Excess(perms, q.permissions, q.permissions_complete)
      missing_roles == {x \in q.roles : ~Satisfied(b.provider, x, roles)}
      missing_perms == q.permissions \ perms
      unresolved ==
        RequiredUnresolved(agents, name)
          \cup {x \in {"deployed_identity"} : held = {}}
          \cup (UNION {r.unresolved : r \in held})
          \cup {x \in {"conditional_authority"} : if_roles \cup if_perms # {}}
  IN [roles |-> roles, permissions |-> perms,
      conditional_roles |-> if_roles, conditional_permissions |-> if_perms,
      excess_roles |-> excess_roles, excess_permissions |-> excess_perms,
      missing_roles |-> missing_roles, missing_permissions |-> missing_perms,
      unresolved |-> unresolved,
      status |-> Status(excess_roles \cup excess_perms # {},
                        missing_roles \cup missing_perms # {}, unresolved)]

-----------------------------------------------------------------------------
(* The contract.                                                           *)

Constrained(c) ==
  \E s \in {c.allow, c.deny} :
    s.identities # {} \/ s.iam_roles # {} \/ s.permissions # {}

\* _dimension_results: values that match a pattern the contract denies, or none it allows.
Against(c, dimension, values) ==
  {v \in values : \/ v \in UNION c.deny[dimension]
                  \/ c.allow[dimension] # {} /\ v \notin UNION c.allow[dimension]}

\* The identity of a relationship as a value: the email, where it has a canonical form.
Canonical(provider, p) ==
  IF provider = "gcp" /\ p.form # "other" THEN [p EXCEPT !.form = "email"] ELSE p

IdentityAgainst(c, provider, p) ==
  Against(c, "identities", {Canonical(provider, p)}) # {}

\* Wrong: authority under a condition counts like any other.
ViolatedIfConditional(c, provider, r) ==
  \/ IdentityAgainst(c, provider, r.workload.identity)
  \/ Against(c, "iam_roles", r.roles \cup r.conditional_roles) # {}
  \/ Against(c, "permissions", r.permissions \cup r.conditional_permissions) # {}

Violated(c, provider, r) ==
  \/ IdentityAgainst(c, provider, r.workload.identity)
  \/ Against(c, "iam_roles", r.roles) # {}
  \/ Against(c, "permissions", r.permissions) # {}

PolicyUnresolved(c, r) ==
  \/ Against(c, "iam_roles", r.conditional_roles) # {}
  \/ Against(c, "permissions", r.conditional_permissions) # {}
  \/ r.unresolved # {}

\* _evaluate_relationship; of several agents with one name, the last one's contract.
PolicyStatus(agents, b, r) ==
  LET c == agents[LastNamed(agents, r.agent)].contract IN
  IF ~c.configured THEN "not_configured"
  ELSE IF ~Constrained(c) THEN "not_constrained"
  ELSE IF Violated(c, b.provider, r) THEN "violation"
  ELSE IF PolicyUnresolved(c, r) THEN "unresolved" ELSE "compliant"

-----------------------------------------------------------------------------
(* Drift.                                                                  *)

\* Wrong: new authority under a condition is no news.
RegressedButConditions(before, after) ==
  \/ ~(after.excess_roles \subseteq before.excess_roles)
  \/ ~(after.excess_permissions \subseteq before.excess_permissions)
  \/ ~(after.unresolved \subseteq before.unresolved)

\* deployment_authority_delta: item["regressed"]
Regressed(before, after) ==
  \/ ~(after.excess_roles \subseteq before.excess_roles)
  \/ ~(after.excess_permissions \subseteq before.excess_permissions)
  \/ ~(after.conditional_roles \subseteq before.conditional_roles)
  \/ ~(after.conditional_permissions \subseteq before.conditional_permissions)
  \/ ~(after.unresolved \subseteq before.unresolved)

Regressions(agents, base, head) ==
  {n \in Names(agents) : Regressed(Reconciliation(agents, n, base),
                                   Reconciliation(agents, n, head))}
=============================================================================
