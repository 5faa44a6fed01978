------------------------------ MODULE Reconcile ------------------------------
(***************************************************************************)
(* The command "horustrace reconcile" (cli.py, deployment_report.py), run  *)
(* again and again against a deployment that changes in between.  The      *)
(* snapshot of the last run that succeeded is kept and is the baseline of  *)
(* the next one, as the drift gate is meant to be used.                    *)
(*                                                                         *)
(* A run scans the source, loads the evidence, adds the requirements that  *)
(* the evidence and the source show together, loads the baseline, reports  *)
(* and ends with an exit code; whatever goes wrong ends it with 1.         *)
(***************************************************************************)
EXTENDS AuthorityReconciliation

CONSTANT Scenarios  \* a source with its Terraform, and the deployments it may have

\* A source says nothing of what only a deployment shows; whatever file is exported, it may
\* describe any of the deployments.
ASSUME ScenariosAssumption == \A s \in Scenarios :
  /\ s.agents \in Seq(Agent)
  /\ \A k \in DOMAIN s.agents : s.agents[k].deployment_roles = {}
  /\ s.tf \in Terraform
  /\ \A d \in s.exports, b \in s.deployments : [d EXCEPT !.bundle = b] \in Document

VARIABLES
  scenario,  \* of Scenarios: source, files, tf, deployments, exports, gates
  phase,     \* what the command is doing
  head,      \* the evidence file of this run: one document or none
  kept,      \* the snapshot that is the baseline
  agents,    \* the graph's agents
  report,
  exit       \* of the last run; 9 before it ends

vars == <<scenario, phase, head, kept, agents, report, exit>>

Gates == {"excess", "policy", "drift"}

Export(b) ==
  [file |-> "readable", parses |-> TRUE, version |-> 1, fields |-> KnownFields,
   well_typed |-> TRUE, bundle |-> b]

NoReport == [agents |-> <<>>, policy |-> {}, drift |-> {},
             absent |-> {}, candidates |-> {}]

TypeOK ==
  /\ phase \in {"idle", "scan", "load", "enrich", "baseline", "report"}
  /\ \A d \in head : d.bundle \in scenario.deployments
  /\ \A d \in kept : Accepted(d)
  /\ Cardinality(kept) <= 1 /\ Cardinality(head) <= 1
  /\ Names(agents) \subseteq AgentNames
  /\ \A a \in Range(agents) : a.deployment_roles \subseteq {SqlClient}
  /\ DOMAIN report.agents \subseteq AgentNames
  /\ report.drift \subseteq AgentNames
  /\ exit \in {0, 1, 2, 9}

Evidence == CHOOSE d \in head : TRUE
Baseline == CHOOSE d \in kept : TRUE

-----------------------------------------------------------------------------
(* The deployment.                                                         *)

\* Whatever the deployment has become, it is exported and reconcile is started.
Start ==
  /\ phase = "idle"
  /\ \E d \in scenario.exports, b \in scenario.deployments :
       head' = {[d EXCEPT !.bundle = b]}
  /\ phase' = "scan" /\ agents' = <<>> /\ report' = NoReport /\ exit' = 9
  /\ UNCHANGED <<scenario, kept>>

-----------------------------------------------------------------------------
(* The command.                                                            *)

\* Wrong: the snapshot of a run that failed is kept.
FailKeeping ==
  /\ phase' = "idle" /\ exit' = 1
  /\ kept' = head
  /\ UNCHANGED <<scenario, head, agents, report>>

Fail ==
  /\ phase' = "idle" /\ exit' = 1
  /\ UNCHANGED <<scenario, head, kept, agents, report>>

Scan ==
  /\ phase = "scan"
  /\ IF SourceRefused(scenario.tf) THEN Fail
     ELSE /\ agents' = FromAuthoritySource(scenario.tf, scenario.agents)
          /\ phase' = "load"
          /\ UNCHANGED <<scenario, head, kept, report, exit>>

Load ==
  /\ phase = "load"
  /\ IF ~Accepted(Evidence) THEN Fail
     ELSE /\ phase' = "enrich"
          /\ UNCHANGED <<scenario, head, kept, agents, report, exit>>

Enrich ==
  /\ phase = "enrich"
  /\ \E seen \in Visits(scenario.files, {"vendored"}) :
       agents' = WithDeploymentRoles(agents, seen, scenario.tf, Evidence.bundle)
  /\ phase' = "baseline"
  /\ UNCHANGED <<scenario, head, kept, report, exit>>

\* --fail-on-deployment-regression requires --baseline-deployment-evidence.
RefuseMissingBaseline == "drift" \in scenario.gates /\ kept = {}

\* The first snapshot is kept without the gate.
KeepFirst ==
  /\ phase = "baseline" /\ RefuseMissingBaseline
  /\ phase' = "idle" /\ exit' = 1
  /\ kept' = head
  /\ UNCHANGED <<scenario, head, agents, report>>

PolicyStatuses(name, b) ==
  {[agent |-> name, workload |-> r.workload, status |-> PolicyStatus(agents, b, r)] :
     r \in AuthorityRelationships(agents, name, b)}

\* build_deployment_security_report
Report ==
  /\ phase = "baseline" /\ ~RefuseMissingBaseline
  /\ LET b == Evidence.bundle IN
     \E seen \in Visits(scenario.files, {"tests", "vendored"}) :
       report' = [agents |-> [n \in Names(agents) |-> Reconciliation(agents, n, b)],
                  policy |-> UNION {PolicyStatuses(n, b) : n \in Names(agents)},
                  drift |-> IF kept = {} THEN {}
                            ELSE Regressions(agents, Baseline.bundle, b),
                  absent |-> CertifiedAbsent(agents, scenario.files, seen, b),
                  candidates |->
                    {[agent |-> n,
                      roles |-> CandidateExcess(agents, scenario.files, seen, b, n)] :
                       n \in Names(agents)}]
  /\ phase' = "report"
  /\ UNCHANGED <<scenario, head, kept, agents, exit>>

GateFails(r) ==
  \/ /\ "excess" \in scenario.gates
     /\ \E n \in DOMAIN r.agents : r.agents[n].status \in {"excess_authority", "mixed"}
  \/ "policy" \in scenario.gates /\ \E x \in r.policy : x.status = "violation"
  \/ "drift" \in scenario.gates /\ r.drift # {}

\* The exit code; a snapshot that passed is kept.
Finish ==
  /\ phase = "report"
  /\ exit' = IF GateFails(report) THEN 2 ELSE 0
  /\ kept' = IF GateFails(report) THEN kept ELSE head
  /\ phase' = "idle"
  /\ UNCHANGED <<scenario, head, agents, report>>

Init ==
  /\ scenario \in Scenarios
  /\ phase = "idle"
  /\ head = {} /\ kept = {} /\ agents = <<>> /\ report = NoReport /\ exit = 9

Next == Start \/ Scan \/ Load \/ Enrich \/ KeepFirst \/ Report \/ Finish

SafetySpec == Init /\ [][Next]_vars

-----------------------------------------------------------------------------
(* Properties, stated about the worlds the evidence allows.                *)

\* The principals that an agent's workloads run as, by the evidence and its hints.
RunsAs(name, b) ==
  {w.identity : w \in {v \in b.workloads :
     IF v.agent # Unnamed THEN v.agent = name
     ELSE \E a \in Named(agents, name) : v.name \in a.hints}}

RolesHeld(w, b, name) == UNION {RolesIn(w, b, p) : p \in RunsAs(name, b)}
PermissionsHeld(w, b, name) == UNION {PermissionsIn(w, b, p) : p \in RunsAs(name, b)}

(***************************************************************************)
(* "Unknown required authority remains unresolved": an agent is reported   *)
(* aligned only if it holds exactly the permissions it is required to, and *)
(* no role beyond, whichever conditions hold and whatever roles that were  *)
(* not expanded grant; excess is only what it holds whichever of them do.  *)
(***************************************************************************)
VerdictTrueInEveryWorld ==
  phase = "report" => \A n \in DOMAIN report.agents :
    LET b == Evidence.bundle
        r == report.agents[n]
        q == Required(agents, n) IN
    \A w \in Worlds(b) :
      /\ r.status = "aligned" =>
           /\ RunsAs(n, b) # {}
           /\ PermissionsHeld(w, b, n) = q.permissions
           /\ RolesHeld(w, b, n) \subseteq q.roles
      /\ r.excess_roles \subseteq RolesHeld(w, b, n) \ q.roles
      /\ r.excess_permissions \subseteq PermissionsHeld(w, b, n) \ q.permissions

(***************************************************************************)
(* deployed_policy.py "keeps conditional IAM applicability unresolved": a  *)
(* deployment is called compliant only if no world the evidence allows     *)
(* breaks the contract, and a violation only if every world does.          *)
(***************************************************************************)
PolicyTrueInEveryWorld ==
  phase = "report" => \A x \in report.policy :
    LET b == Evidence.bundle
        p == x.workload.identity
        c == agents[LastNamed(agents, x.agent)].contract
        Breaks(w) == \/ IdentityAgainst(c, b.provider, p)
                     \/ Against(c, "iam_roles", RolesIn(w, b, p)) # {}
                     \/ Against(c, "permissions", PermissionsIn(w, b, p)) # {} IN
    \A w \in Worlds(b) : /\ x.status = "compliant" => ~Breaks(w)
                         /\ x.status = "violation" => Breaks(w)

(***************************************************************************)
(* "Name similarity alone is never sufficient" (deployed_identity.py), and *)
(* a principal has one identity however it is written: what is reported of *)
(* an agent rests on the workloads bound to it and the bindings of their   *)
(* accounts, and on nothing else in the evidence, and on no other agent.   *)
(***************************************************************************)
Nobody == [name |-> Unnamed]

Alone(n) == [k \in DOMAIN agents |-> IF agents[k].name = n THEN agents[k] ELSE Nobody]

NothingElseMatters ==
  phase = "report" => \A n \in DOMAIN report.agents :
    LET b    == Evidence.bundle
        mine == {w \in b.workloads : w.identity \in RunsAs(n, b)
                                       /\ w.agent \in {n, Unnamed}}
        Own(g) == \E p \in RunsAs(n, b) :
                    IF b.provider = "gcp"
                    THEN g.principal.account = p.account
                           /\ "other" \notin {g.principal.form, p.form}
                    ELSE g.principal = p
        rest == [b EXCEPT !.workloads = mine,
                          !.bindings = {g \in @ : Own(g)}] IN
    report.agents[n] = Reconciliation(Alone(n), n, rest)

(***************************************************************************)
(* --fail-on-deployment-regression: whatever happens to the deployment     *)
(* between the runs, when a snapshot takes the place of the one before it, *)
(* no agent whose required roles are known holds, or may hold under a      *)
(* condition, a role that is neither required nor was there before.        *)
(***************************************************************************)
Authority(name, b) ==
  UNION {RolesOf({g \in b.bindings : SamePrincipal(b.provider, p, g.principal)}) :
           p \in RunsAs(name, b)}

NoDriftAccumulates ==
  [][kept' # kept /\ kept # {} /\ "drift" \in scenario.gates =>
       \A n \in Names(agents) :
         LET q == Required(agents, n) IN
         q.roles_complete =>
           Authority(n, Evidence.bundle) \ q.roles
             \subseteq Authority(n, Baseline.bundle)]_vars

(***************************************************************************)
(* authority_completeness.py: a role is named as a candidate for excess    *)
(* only if no runtime Python file of the source uses its service or could  *)
(* hide that it does, however many files there are, and only if the        *)
(* agent's account has it or may have it.                                  *)
(***************************************************************************)
AbsenceCertified ==
  phase = "report" => \A x \in report.candidates :
    /\ x.roles \subseteq Authority(x.agent, Evidence.bundle)
    /\ x.roles # {} => \A f \in scenario.files :
         f.dir = "runtime" /\ f.python =>
           f.parses /\ f.small /\ f.marks \cap {"discovery", "dynamic", "generic_api"} = {}

\* The accounts that a service of the Terraform source may run as, and whether a workload is
\* named like one on a service with a Cloud SQL connection.
ServiceAccounts(tf, s) ==
  s.email \cup {t.account : t \in {x \in Range(tf.accounts) : x.name \in s.account_ref}}

WiredService(tf, w) ==
  \E s \in tf.services : /\ s.wired
                          /\ \E account \in ServiceAccounts(tf, s) :
                               LocalPart[account] = LocalPart[w.identity.account]

(***************************************************************************)
(* deployment_requirements.py: a requirement needs "corroborating          *)
(* application and infrastructure evidence", an account of the workload's  *)
(* name on a service that is wired to Cloud SQL; and as it is never "a     *)
(* complete least-privilege baseline", its agent is never aligned.         *)
(***************************************************************************)
RequirementCorroborated ==
  phase = "report" => \A a \in Range(agents) :
    a.deployment_roles # {} =>
      /\ \E f \in scenario.files : "database" \in f.marks
      /\ \E w \in Evidence.bundle.workloads : w.agent = a.name /\ WiredService(scenario.tf, w)
      /\ report.agents[a.name].status # "aligned"

(***************************************************************************)
(* What is concluded from the Terraform source and the code of the runtime *)
(* is grounded in them: candidates for excess and requirements.            *)
(***************************************************************************)
SourceClaimsGrounded == AbsenceCertified /\ RequirementCorroborated

(***************************************************************************)
(* The command fails closed: it ends with a verdict (0 or 2) only on       *)
(* evidence it could read and understand in full, a source that was        *)
(* scanned to the end and, for the drift gate, a baseline.                 *)
(***************************************************************************)
VerdictNeedsEvidence ==
  exit \in {0, 2} =>
    /\ \A d \in head : d.file = "readable" /\ d.parses /\ d.version = 1
                         /\ "unknown" \notin d.fields /\ d.well_typed
    /\ ~(scenario.tf.given /\ (scenario.tf.unsafe \/ scenario.tf.entries > MaxFiles))
    /\ "drift" \in scenario.gates => kept # {}
=============================================================================
