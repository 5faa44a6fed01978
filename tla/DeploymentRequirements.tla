------------------------ MODULE DeploymentRequirements ------------------------
(***************************************************************************)
(* The authority that the source requires of a deployment: the roles a     *)
(* Terraform repository declares for the identities that were found        *)
(* (authority_source.py), a role that application and infrastructure       *)
(* together show to be needed (deployment_requirements.py), and a          *)
(* certificate that a service is not used (authority_completeness.py).     *)
(*                                                                         *)
(* Of a source file only what these walks look for is kept.                *)
(***************************************************************************)
EXTENDS DeploymentEvidence

CONSTANTS
  LocalPart,       \* LocalPart[a]: an account's email up to the @
  SqlClient,       \* roles/cloudsql.client
  DiscoveryRoles,  \* roles/discoveryengine.*
  MaxFiles         \* MAX_FILES_VISITED

Marks == {"database", "discovery", "dynamic", "generic_api"}

\* A file of the application: where it is, whether it can be parsed, what it does.
File == [path : Nat, dir : {"runtime", "tests", "vendored"}, python : BOOLEAN,
         parses : BOOLEAN, small : BOOLEAN, marks : SUBSET Marks]

\* An identity that was found in the source, under the name it was written with.
Identity == [name : Principal, provider : {"gcp", "generic", "aws"},
             roles : SUBSET Roles, permissions : SUBSET Permissions]

\* An agent's tool or MCP server: the identity it names, the roles and permissions it is
\* seen to need and whether those are all.
Relationship == [identity : SUBSET Principal, roles : SUBSET Roles,
                 permissions : SUBSET Permissions,
                 roles_complete : BOOLEAN, permissions_complete : BOOLEAN]

\* A pattern of a clause is the set of what it matches.
Clauses == [identities : SUBSET SUBSET Principal, iam_roles : SUBSET SUBSET Roles,
            permissions : SUBSET SUBSET Permissions]

Contract == [configured : BOOLEAN, allow : Clauses, deny : Clauses]

\* identities: where a name is looked up, the agent's own and then the graph's.
Agent == [name : AgentNames, hints : SUBSET Workloads, identities : Seq(Identity),
          relationships : SUBSET Relationship, contract : Contract,
          deployment_roles : SUBSET Roles, blocked : BOOLEAN]

(***************************************************************************)
(* A Terraform repository: the number of its files, whether one of them    *)
(* cannot be analysed safely, the members it binds to roles, the service   *)
(* accounts it declares, and its Cloud Run services (wired: with a Cloud   *)
(* SQL socket and a DATABASE_URL that points to it) and what they run as:  *)
(* an email, or a reference to a service account by its Terraform name.    *)
(***************************************************************************)
Terraform == [given : BOOLEAN, entries : Nat, unsafe : BOOLEAN,
              members : SUBSET [principal : Principal, role : Roles],
              accounts : Seq([name : Workloads, account : Accounts]),
              services : SUBSET [wired : BOOLEAN, email : SUBSET Accounts,
                                 account_ref : SUBSET Workloads]]

-----------------------------------------------------------------------------
(* Roles that Terraform declares (authority_source.py).                    *)

\* An authority source that cannot be read to the end stops the scan.
SourceRefused(tf) == tf.given /\ (tf.entries > MaxFiles \/ tf.unsafe)

DeclaredRoles(tf, p) ==
  {m.role : m \in {x \in tf.members : SamePrincipal("gcp", x.principal, p)}}

\* enrich_from_terraform_authority_source, for one identity.
EnrichedIdentity(tf, i) ==
  IF i.provider = "aws" \/ DeclaredRoles(tf, i.name) = {} THEN i
  ELSE [i EXCEPT !.provider = "gcp", !.roles = @ \cup DeclaredRoles(tf, i.name)]

FromAuthoritySource(tf, agents) ==
  IF ~tf.given THEN agents
  ELSE [k \in DOMAIN agents |->
          [agents[k] EXCEPT !.identities =
             [j \in DOMAIN @ |-> EnrichedIdentity(tf, @[j])]]]

-----------------------------------------------------------------------------
(* A role that two layers show to be needed (deployment_requirements.py).  *)

\* _safe_files stops at the limit without a word: seen is what it came to see.
DatabaseUsed(seen) ==
  \E f \in seen : /\ f.dir # "vendored" /\ f.python /\ f.small /\ f.parses
                  /\ "database" \in f.marks

\* Of the accounts with one Terraform name, in whatever module, the last counts.
TerraformAccount(tf, n) ==
  LET hits == {k \in DOMAIN tf.accounts : tf.accounts[k].name = n} IN
  IF hits = {} THEN {}
  ELSE {tf.accounts[CHOOSE k \in hits : \A j \in hits : j <= k].account}

\* _terraform_cloud_sql_workloads
SqlAccounts(tf) ==
  UNION {IF s.email # {} THEN s.email
         ELSE UNION {TerraformAccount(tf, n) : n \in s.account_ref} :
           s \in {x \in tf.services : x.wired}}

\* _workload_local_part, and its comparison with account_id.  A resource name
\* has another local part than the email in it.
WiredTo(p, accounts) ==
  /\ p.form \in {"email", "prefixed"}
  /\ \E a \in accounts : LocalPart[a] = LocalPart[p.account]

\* The names of the agents whose workloads connect to Cloud SQL.
SqlAgents(seen, tf, b) ==
  {w.agent : w \in {v \in b.workloads : /\ DatabaseUsed(seen)
                                        /\ v.agent # Unnamed
                                        /\ WiredTo(v.identity, SqlAccounts(tf))}}

\* agents = {agent.name: agent ...}: of several agents with one name the last.
LastNamed(agents, name) ==
  LET hits == {k \in DOMAIN agents : agents[k].name = name} IN
  CHOOSE k \in hits : \A j \in hits : j <= k

\* enrich_cross_layer_required_authority
WithDeploymentRoles(agents, seen, tf, b) ==
  IF ~tf.given \/ b.provider # "gcp" THEN agents
  ELSE [k \in DOMAIN agents |->
          IF /\ agents[k].name \in SqlAgents(seen, tf, b)
             /\ k = LastNamed(agents, agents[k].name)
          THEN [agents[k] EXCEPT !.deployment_roles = @ \cup {SqlClient}]
          ELSE agents[k]]

-----------------------------------------------------------------------------
(* Absence of a service (authority_completeness.py).                       *)

\* The files a walk counts before it stops at the limit, in any order.
Visits(files, excluded) ==
  LET counted == {f \in files : f.dir \notin excluded} IN
  IF Cardinality(counted) <= MaxFiles THEN {counted}
  ELSE {s \in SUBSET counted : Cardinality(s) = MaxFiles}

\* _runtime_python_files says when it stops; seen is what it came to see.
Truncated(files, seen) ==
  \E f \in files : f.dir = "runtime" /\ f \notin seen

\* Wrong: what was seen is taken for everything.
SurfaceClosedAsSeen(files, seen) ==
  \A f \in seen : f.python => f.small /\ f.parses /\ f.marks \subseteq {"database"}

\* _source_surface finds neither a marker nor a blocker.
SurfaceClosed(files, seen) ==
  /\ ~Truncated(files, seen)
  /\ \A f \in seen : f.python => f.small /\ f.parses /\ f.marks \subseteq {"database"}

\* discovery_engine_completeness_certificates: the agents certified not to use it.
CertifiedAbsent(agents, files, seen, b) ==
  {a.name : a \in {x \in Range(agents) :
     /\ \E w \in b.workloads : w.agent = x.name
     /\ b.provider = "gcp"
     /\ SurfaceClosed(files, seen)
     /\ ~x.blocked}}

\* candidate_excess_roles: reported, never enforced.
CandidateExcess(agents, files, seen, b, name) ==
  IF name \notin CertifiedAbsent(agents, files, seen, b) THEN {}
  ELSE DiscoveryRoles \cap UNION {r.roles \cup r.conditional_roles :
                                    r \in AuthorityRelationships(agents, name, b)}
=============================================================================
