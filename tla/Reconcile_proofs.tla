--------------------------- MODULE Reconcile_proofs ---------------------------
(***************************************************************************)
(* Theorems about Reconcile, for every set of agents, accounts, roles,     *)
(* permissions, sources and deployments.                                   *)
(***************************************************************************)
EXTENDS Reconcile, FiniteSetTheorems, WellFoundedInduction, TLAPS

(***************************************************************************)
(* What deployed authority is made of.                                     *)
(***************************************************************************)
BindingsTo(p, b) == {g \in b.bindings : SamePrincipal(b.provider, p, g.principal)}
CertainTo(p, b) == {g \in BindingsTo(p, b) : ~g.conditional}
ConditionalTo(p, b) == BindingsTo(p, b) \ CertainTo(p, b)

(***************************************************************************)
(* The principals an agent runs as are those of the workloads it is bound  *)
(* to (deployed_identity_relationships).                                   *)
(***************************************************************************)
LEMMA RunsAsBound ==
  ASSUME NEW n \in Names(agents), NEW b
  PROVE  RunsAs(n, b) = {r.workload.identity : r \in IdentityRelationships(agents, n, b)}
  <1> DEFINE bound == {v \in b.workloads : \E a \in Range(agents) : a.name = n /\ Matches(a, v)}
  <1>1. bound = {v \in b.workloads : IF v.agent # Unnamed THEN v.agent = n
                                     ELSE \E a \in Named(agents, n) : v.name \in a.hints}
    <2>1. PICK a \in Range(agents) : a.name = n
      BY DEF Names
    <2> QED BY <2>1 DEF Matches, Named
  <1>2. RunsAs(n, b) = {v.identity : v \in bound}
    BY <1>1 DEF RunsAs
  <1>3. {r.workload.identity : r \in IdentityRelationships(agents, n, b)}
          = {v.identity : v \in bound}
    <2> DEFINE Rel(v) == [agent |-> n, workload |-> v,
                          unresolved |-> IF Normalizes(b.provider, v.identity) THEN {}
                                         ELSE {"identity"}]
    <2>1. IdentityRelationships(agents, n, b) = {Rel(v) : v \in bound}
      BY DEF IdentityRelationships
    <2>2. \A v : Rel(v).workload.identity = v.identity
      OBVIOUS
    <2> HIDE DEF bound, Rel
    <2>3. \A x : (\E r \in IdentityRelationships(agents, n, b) : x = r.workload.identity)
                   <=> (\E v \in bound : x = v.identity)
      BY <2>1, <2>2
    <2> QED BY <2>3
  <1> QED BY <1>2, <1>3

(***************************************************************************)
(* Each relationship says of its workload's principal what the bindings of *)
(* that principal grant (_authority_relationship).                         *)
(***************************************************************************)
LEMMA RelationshipOf ==
  ASSUME NEW n \in Names(agents), NEW b,
         NEW r \in AuthorityRelationships(agents, n, b)
  PROVE  LET p == r.workload.identity IN
         /\ r.agent = n /\ p \in RunsAs(n, b)
         /\ r.roles = RolesOf(CertainTo(p, b))
         /\ r.conditional_roles = RolesOf(ConditionalTo(p, b))
         /\ r.permissions = PermissionsOf(CertainTo(p, b), b)
         /\ r.conditional_permissions = PermissionsOf(ConditionalTo(p, b), b)
         /\ r.unresolved = {} => \A g \in BindingsTo(p, b) :
                                  ~g.conditional /\ Expansion(g, b) # {}
  <1>1. PICK i \in IdentityRelationships(agents, n, b) : r = AuthorityRelationship(i, b)
    BY DEF AuthorityRelationships
  <1>2. BindingsOf(i, b) = BindingsTo(i.workload.identity, b)
    BY DEF BindingsOf, BindingsTo
  <1>3. r.workload = i.workload /\ r.agent = i.agent
    BY <1>1 DEF AuthorityRelationship
  <1>4. i.agent = n /\ i.workload.identity \in RunsAs(n, b)
    BY RunsAsBound DEF IdentityRelationships
  <1>5. r.unresolved = UnresolvedAuthority(i, BindingsOf(i, b), b)
    BY <1>1 DEF AuthorityRelationship
  <1>6. ASSUME r.unresolved = {}, NEW g \in BindingsOf(i, b)
        PROVE  ~g.conditional /\ Expansion(g, b) # {}
    BY <1>5, <1>6 DEF UnresolvedAuthority
  <1>7. /\ r.roles = RolesOf(CertainTo(i.workload.identity, b))
        /\ r.conditional_roles = RolesOf(ConditionalTo(i.workload.identity, b))
        /\ r.permissions = PermissionsOf(CertainTo(i.workload.identity, b), b)
        /\ r.conditional_permissions = PermissionsOf(ConditionalTo(i.workload.identity, b), b)
    BY <1>1, <1>2 DEF AuthorityRelationship, CertainTo, ConditionalTo
  <1> QED BY <1>2, <1>3, <1>4, <1>6, <1>7

LEMMA RelationshipFor ==
  ASSUME NEW n \in Names(agents), NEW b, NEW p \in RunsAs(n, b)
  PROVE  \E r \in AuthorityRelationships(agents, n, b) : r.workload.identity = p
  <1>1. PICK i \in IdentityRelationships(agents, n, b) : i.workload.identity = p
    BY RunsAsBound
  <1>2. AuthorityRelationship(i, b).workload = i.workload
    BY DEF AuthorityRelationship
  <1> QED BY <1>1, <1>2 DEF AuthorityRelationships

(***************************************************************************)
(* In every world the evidence allows, a principal holds what is reported  *)
(* without a condition, no role but with or without one, and exactly what  *)
(* is reported where nothing is unresolved.                                *)
(***************************************************************************)
LEMMA HeldInWorld ==
  ASSUME NEW n \in Names(agents), NEW b, NEW w \in Worlds(b),
         NEW r \in AuthorityRelationships(agents, n, b)
  PROVE  LET p == r.workload.identity IN
         /\ r.roles \subseteq RolesIn(w, b, p)
         /\ RolesIn(w, b, p) \subseteq r.roles \cup r.conditional_roles
         /\ r.permissions \subseteq PermissionsIn(w, b, p)
         /\ r.unresolved = {} => /\ RolesIn(w, b, p) = r.roles
                                /\ PermissionsIn(w, b, p) = r.permissions
                                /\ r.conditional_roles = {}
                                /\ r.conditional_permissions = {}
  <1> DEFINE p    == r.workload.identity
             all  == BindingsTo(p, b)
             held == CertainTo(p, b)
  <1>1. /\ r.roles = RolesOf(held) /\ r.conditional_roles = RolesOf(all \ held)
        /\ r.permissions = PermissionsOf(held, b)
        /\ r.conditional_permissions = PermissionsOf(all \ held, b)
        /\ r.unresolved = {} => \A g \in all : ~g.conditional /\ Expansion(g, b) # {}
    BY RelationshipOf DEF ConditionalTo
  <1>2. held \subseteq InForce(w, b, p) /\ InForce(w, b, p) \subseteq all
    BY DEF InForce, BindingsTo, CertainTo
  <1> DEFINE force == InForce(w, b, p)
  <1>3. held \subseteq force /\ force \subseteq all
    BY <1>2
  <1>0. held = {g \in all : ~g.conditional}
    BY DEF CertainTo
  <1> HIDE DEF force, all, held
  <1>4. /\ RolesOf(held) \subseteq RolesOf(force)
        /\ RolesOf(force) \subseteq RolesOf(held) \cup RolesOf(all \ held)
    BY <1>3 DEF RolesOf
  <1> DEFINE Grant(g) == IF Expansion(g, b) # {} THEN Expansion(g, b) ELSE w.grants[g.role]
  <1>5. PermissionsIn(w, b, p) = UNION {Grant(g) : g \in force}
    BY DEF PermissionsIn, force
  <1>6. PermissionsOf(held, b) \subseteq PermissionsIn(w, b, p)
    <2>1. SUFFICES ASSUME NEW x, NEW g \in held, x \in Expansion(g, b)
                   PROVE  x \in PermissionsIn(w, b, p)
      BY DEF PermissionsOf
    <2>2. g \in force /\ x \in Grant(g)
      BY <1>3, <2>1
    <2> QED BY <1>5, <2>2
  <1>7. ASSUME r.unresolved = {}
        PROVE  /\ held = all /\ force = all /\ all \ held = {}
               /\ \A g \in all : Expansion(g, b) # {}
    BY <1>0, <1>1, <1>3, <1>7
  <1>8. ASSUME r.unresolved = {}
        PROVE  PermissionsIn(w, b, p) = PermissionsOf(all, b)
    <2>1. \A g \in all : Grant(g) = Expansion(g, b)
      BY <1>7, <1>8
    <2> HIDE DEF Grant
    <2>2. \A x : (\E g \in all : x = Grant(g)) <=> (\E g \in all : x = Expansion(g, b))
      BY <2>1
    <2>3. {Grant(g) : g \in all} = {Expansion(g, b) : g \in all}
      BY <2>2
    <2>4. force = all
      BY <1>7, <1>8
    <2> QED BY <1>5, <2>3, <2>4 DEF PermissionsOf
  <1>9. RolesOf({}) = {} /\ PermissionsOf({}, b) = {}
    BY DEF RolesOf, PermissionsOf
  <1>10. ASSUME r.unresolved = {}
         PROVE  /\ RolesIn(w, b, p) = r.roles /\ PermissionsIn(w, b, p) = r.permissions
                /\ r.conditional_roles = {} /\ r.conditional_permissions = {}
    BY <1>1, <1>7, <1>8, <1>9, <1>10 DEF RolesIn, force
  <1>11. r.roles \subseteq RolesIn(w, b, p) /\ RolesIn(w, b, p) \subseteq r.roles \cup r.conditional_roles
    BY <1>1, <1>4 DEF RolesIn, force
  <1>12. r.permissions \subseteq PermissionsIn(w, b, p)
    BY <1>1, <1>6
  <1> QED BY <1>10, <1>11, <1>12

(***************************************************************************)
(* The same of an agent, over all its workloads.                           *)
(***************************************************************************)
LEMMA AgentInWorld ==
  ASSUME NEW n \in Names(agents), NEW b, NEW w \in Worlds(b)
  PROVE  LET held == AuthorityRelationships(agents, n, b)
             roles == UNION {r.roles : r \in held}
             perms == UNION {r.permissions : r \in held} IN
         /\ roles \subseteq RolesHeld(w, b, n)
         /\ perms \subseteq PermissionsHeld(w, b, n)
         /\ held # {} => RunsAs(n, b) # {}
         /\ (\A r \in held : r.unresolved = {}) =>
              /\ RolesHeld(w, b, n) = roles
              /\ PermissionsHeld(w, b, n) = perms
  <1> DEFINE held == AuthorityRelationships(agents, n, b)
             roles == UNION {r.roles : r \in held}
             perms == UNION {r.permissions : r \in held}
  <1>1. \A r \in held : r.workload.identity \in RunsAs(n, b)
    BY RelationshipOf
  <1>2. \A p \in RunsAs(n, b) : \E r \in held : r.workload.identity = p
    BY RelationshipFor
  <1>3. \A r \in held : /\ r.roles \subseteq RolesIn(w, b, r.workload.identity)
                        /\ r.permissions \subseteq PermissionsIn(w, b, r.workload.identity)
    BY HeldInWorld
  <1>4. ASSUME \A r \in held : r.unresolved = {}
        PROVE  \A r \in held : /\ RolesIn(w, b, r.workload.identity) = r.roles
                               /\ PermissionsIn(w, b, r.workload.identity) = r.permissions
    BY <1>4, HeldInWorld
  <1> HIDE DEF held
  <1>5. roles \subseteq RolesHeld(w, b, n) /\ perms \subseteq PermissionsHeld(w, b, n)
    BY <1>1, <1>3 DEF RolesHeld, PermissionsHeld
  <1>6. ASSUME \A r \in held : r.unresolved = {}
        PROVE  RolesHeld(w, b, n) \subseteq roles /\ PermissionsHeld(w, b, n) \subseteq perms
    <2>1. \A p \in RunsAs(n, b) : \E r \in held : /\ RolesIn(w, b, p) = r.roles
                                                 /\ PermissionsIn(w, b, p) = r.permissions
      BY <1>2, <1>4, <1>6
    <2> QED BY <2>1 DEF RolesHeld, PermissionsHeld
  <1>7. held # {} => RunsAs(n, b) # {}
    BY <1>1
  <1> QED BY <1>5, <1>6, <1>7 DEF held

(***************************************************************************)
(* _status and _required_authority: who is aligned has nothing unresolved, *)
(* and is required what is known in full.                                  *)
(***************************************************************************)
LEMMA AlignedKnown ==
  ASSUME NEW n, NEW b, Reconciliation(agents, n, b).status = "aligned"
  PROVE  LET r == Reconciliation(agents, n, b)
             q == Required(agents, n)
             held == AuthorityRelationships(agents, n, b) IN
         /\ held # {}
         /\ \A h \in held : h.unresolved = {}
         /\ r.permissions = q.permissions
         /\ r.roles \subseteq q.roles
  <1> DEFINE r == Reconciliation(agents, n, b)
             q == Required(agents, n)
             held == AuthorityRelationships(agents, n, b)
  <1>1. /\ r.excess_roles = Excess(r.roles, q.roles, q.roles_complete)
        /\ r.excess_permissions = Excess(r.permissions, q.permissions, q.permissions_complete)
        /\ r.missing_permissions = q.permissions \ r.permissions
        /\ RequiredUnresolved(agents, n) \subseteq r.unresolved
        /\ {x \in {"deployed_identity"} : held = {}} \subseteq r.unresolved
        /\ UNION {h.unresolved : h \in held} \subseteq r.unresolved
        /\ r.status = Status(r.excess_roles \cup r.excess_permissions # {},
                             r.missing_roles \cup r.missing_permissions # {}, r.unresolved)
    BY DEF Reconciliation
  <1> HIDE DEF r, q, held
  <1>2. /\ r.excess_roles = {} /\ r.excess_permissions = {}
        /\ r.missing_permissions = {} /\ r.unresolved = {}
    BY <1>1 DEF Status, r
  <1>3. held # {}
    BY <1>1, <1>2
  <1>4. \A h \in held : h.unresolved = {}
    BY <1>1, <1>2
  <1>5. RequiredUnresolved(agents, n) = {}
    BY <1>1, <1>2
  <1>6. q.roles # {} /\ q.permissions # {} /\ q.roles_complete
    BY <1>5 DEF RequiredUnresolved, q
  <1>7. q.permissions_complete
    BY <1>5, <1>6 DEF RequiredUnresolved, q
  <1>8. r.roles \subseteq q.roles /\ r.permissions \subseteq q.permissions
    BY <1>1, <1>2, <1>6, <1>7 DEF Excess
  <1>9. q.permissions \subseteq r.permissions
    BY <1>1, <1>2
  <1> QED BY <1>3, <1>4, <1>8, <1>9 DEF r, q, held

(***************************************************************************)
(* A verdict about one agent is true in every world the evidence allows.   *)
(***************************************************************************)
LEMMA VerdictSound ==
  ASSUME NEW n \in Names(agents), NEW b, NEW w \in Worlds(b)
  PROVE  LET r == Reconciliation(agents, n, b)
             q == Required(agents, n) IN
         /\ r.status = "aligned" =>
              /\ RunsAs(n, b) # {}
              /\ PermissionsHeld(w, b, n) = q.permissions
              /\ RolesHeld(w, b, n) \subseteq q.roles
         /\ r.excess_roles \subseteq RolesHeld(w, b, n) \ q.roles
         /\ r.excess_permissions \subseteq PermissionsHeld(w, b, n) \ q.permissions
  <1> DEFINE r == Reconciliation(agents, n, b)
             q == Required(agents, n)
             held == AuthorityRelationships(agents, n, b)
  <1>1. /\ r.roles = UNION {h.roles : h \in held}
        /\ r.permissions = UNION {h.permissions : h \in held}
        /\ r.excess_roles = Excess(r.roles, q.roles, q.roles_complete)
        /\ r.excess_permissions = Excess(r.permissions, q.permissions, q.permissions_complete)
    BY DEF Reconciliation
  <1>2. /\ r.roles \subseteq RolesHeld(w, b, n)
        /\ r.permissions \subseteq PermissionsHeld(w, b, n)
        /\ held # {} => RunsAs(n, b) # {}
        /\ (\A h \in held : h.unresolved = {}) =>
             /\ RolesHeld(w, b, n) = r.roles /\ PermissionsHeld(w, b, n) = r.permissions
    BY <1>1, AgentInWorld
  <1>3. r.status = "aligned" => /\ held # {} /\ \A h \in held : h.unresolved = {}
                                /\ r.permissions = q.permissions /\ r.roles \subseteq q.roles
    BY AlignedKnown
  <1> HIDE DEF r, q, held
  <1>4. /\ r.excess_roles \subseteq r.roles \ q.roles
        /\ r.excess_permissions \subseteq r.permissions \ q.permissions
    BY <1>1 DEF Excess
  <1>5. r.status = "aligned" =>
          /\ RunsAs(n, b) # {}
          /\ PermissionsHeld(w, b, n) = q.permissions
          /\ RolesHeld(w, b, n) \subseteq q.roles
    BY <1>2, <1>3
  <1>6. /\ r.excess_roles \subseteq RolesHeld(w, b, n) \ q.roles
        /\ r.excess_permissions \subseteq PermissionsHeld(w, b, n) \ q.permissions
    BY <1>2, <1>4
  <1> QED BY <1>5, <1>6 DEF r, q

(***************************************************************************)
(* What a contract has against some values it has against more of them.    *)
(***************************************************************************)
LEMMA AgainstMore ==
  ASSUME NEW c, NEW d, NEW V, NEW W, V \subseteq W
  PROVE  Against(c, d, V) \subseteq Against(c, d, W)
  BY DEF Against

LEMMA AgainstBoth ==
  ASSUME NEW c, NEW d, NEW V, NEW W, Against(c, d, V) = {}, Against(c, d, W) = {}
  PROVE  Against(c, d, V \cup W) = {}
  BY DEF Against

(***************************************************************************)
(* A workload is called compliant or in violation only if it is so in      *)
(* every world (_evaluate_relationship).                                   *)
(***************************************************************************)
LEMMA PolicySound ==
  ASSUME NEW n \in Names(agents), NEW b, NEW w \in Worlds(b),
         NEW r \in AuthorityRelationships(agents, n, b)
  PROVE  LET p == r.workload.identity
             c == agents[LastNamed(agents, n)].contract
             Breaks == \/ IdentityAgainst(c, b.provider, p)
                       \/ Against(c, "iam_roles", RolesIn(w, b, p)) # {}
                       \/ Against(c, "permissions", PermissionsIn(w, b, p)) # {} IN
         /\ PolicyStatus(agents, b, r) = "compliant" => ~Breaks
         /\ PolicyStatus(agents, b, r) = "violation" => Breaks
  <1> DEFINE p == r.workload.identity
             c == agents[LastNamed(agents, n)].contract
             roles == RolesIn(w, b, p)
             perms == PermissionsIn(w, b, p)
  <1>1. /\ r.roles \subseteq roles
        /\ roles \subseteq r.roles \cup r.conditional_roles
        /\ r.permissions \subseteq perms
        /\ r.unresolved = {} => perms = r.permissions
    BY HeldInWorld
  <1>2. r.agent = n
    BY RelationshipOf
  <1> HIDE DEF roles, perms, c
  <1>3. PolicyStatus(agents, b, r) = "compliant" => ~Violated(c, b.provider, r) /\ ~PolicyUnresolved(c, r)
    BY <1>2 DEF PolicyStatus, c
  <1>4. PolicyStatus(agents, b, r) = "violation" => Violated(c, b.provider, r)
    BY <1>2 DEF PolicyStatus, c
  <1>5. ASSUME ~Violated(c, b.provider, r), ~PolicyUnresolved(c, r)
        PROVE  /\ ~IdentityAgainst(c, b.provider, p)
               /\ Against(c, "iam_roles", roles) = {} /\ Against(c, "permissions", perms) = {}
    <2>1. /\ ~IdentityAgainst(c, b.provider, p)
          /\ Against(c, "iam_roles", r.roles) = {} /\ Against(c, "permissions", r.permissions) = {}
          /\ Against(c, "iam_roles", r.conditional_roles) = {} /\ r.unresolved = {}
      BY <1>5 DEF Violated, PolicyUnresolved
    <2>2. Against(c, "iam_roles", r.roles \cup r.conditional_roles) = {}
      BY <2>1, AgainstBoth
    <2>3. Against(c, "iam_roles", roles) = {}
      BY <1>1, <2>2, AgainstMore
    <2> QED BY <1>1, <2>1, <2>3
  <1>6. ASSUME Violated(c, b.provider, r)
        PROVE  \/ IdentityAgainst(c, b.provider, p)
               \/ Against(c, "iam_roles", roles) # {} \/ Against(c, "permissions", perms) # {}
    <2>1. CASE IdentityAgainst(c, b.provider, p)
      BY <2>1
    <2>2. CASE Against(c, "iam_roles", r.roles) # {}
      BY <1>1, <2>2, AgainstMore
    <2>3. CASE Against(c, "permissions", r.permissions) # {}
      BY <1>1, <2>3, AgainstMore
    <2> QED BY <1>6, <2>1, <2>2, <2>3 DEF Violated
  <1> QED BY <1>3, <1>4, <1>5, <1>6 DEF roles, perms, c

(***************************************************************************)
(* What an agent's accounts hold or may hold is what is reported as held   *)
(* or as conditional.                                                      *)
(***************************************************************************)
LEMMA AuthorityReported ==
  ASSUME NEW n \in Names(agents), NEW b
  PROVE  LET r == Reconciliation(agents, n, b) IN
         Authority(n, b) = r.roles \cup r.conditional_roles
  <1> DEFINE r == Reconciliation(agents, n, b)
             held == AuthorityRelationships(agents, n, b)
             Of(p) == RolesOf({g \in b.bindings : SamePrincipal(b.provider, p, g.principal)})
  <1>1. /\ r.roles = UNION {h.roles : h \in held}
        /\ r.conditional_roles = UNION {h.conditional_roles : h \in held}
    BY DEF Reconciliation
  <1>2. \A h \in held : /\ h.workload.identity \in RunsAs(n, b)
                        /\ h.roles \cup h.conditional_roles = Of(h.workload.identity)
    <2>1. \A p : RolesOf(CertainTo(p, b)) \cup RolesOf(ConditionalTo(p, b)) = RolesOf(BindingsTo(p, b))
      BY DEF RolesOf, ConditionalTo, CertainTo
    <2>2. \A p : Of(p) = RolesOf(BindingsTo(p, b))
      BY DEF BindingsTo
    <2> HIDE DEF Of
    <2> QED BY <2>1, <2>2, RelationshipOf
  <1>3. \A p \in RunsAs(n, b) : \E h \in held : h.workload.identity = p
    BY RelationshipFor
  <1>4. Authority(n, b) = UNION {Of(p) : p \in RunsAs(n, b)}
    BY DEF Authority
  <1> HIDE DEF held, Of
  <1>5. UNION {Of(p) : p \in RunsAs(n, b)}
          = (UNION {h.roles : h \in held}) \cup UNION {h.conditional_roles : h \in held}
    <2>1. ASSUME NEW p \in RunsAs(n, b), NEW x \in Of(p)
          PROVE  \E h \in held : x \in h.roles \/ x \in h.conditional_roles
      BY <1>2, <1>3
    <2>2. ASSUME NEW h \in held, NEW x, x \in h.roles \/ x \in h.conditional_roles
          PROVE  \E p \in RunsAs(n, b) : x \in Of(p)
      BY <1>2, <2>2
    <2>3. \A x : x \in UNION {Of(p) : p \in RunsAs(n, b)}
                   <=> \E p \in RunsAs(n, b) : x \in Of(p)
      OBVIOUS
    <2>4. \A x : x \in (UNION {h.roles : h \in held}) \cup UNION {h.conditional_roles : h \in held}
                   <=> \E h \in held : x \in h.roles \/ x \in h.conditional_roles
      OBVIOUS
    <2> QED BY <2>1, <2>2, <2>3, <2>4
  <1> HIDE DEF r
  <1>6. Authority(n, b) = r.roles \cup r.conditional_roles
    BY <1>1, <1>4, <1>5
  <1> QED BY <1>6 DEF r

(***************************************************************************)
(* An agent that did not regress has no role, conditional or not, that is  *)
(* neither required nor was there before (deployment_authority_delta).     *)
(***************************************************************************)
LEMMA NotRegressed ==
  ASSUME NEW n \in Names(agents), NEW base, NEW b,
         Required(agents, n).roles_complete,
         ~Regressed(Reconciliation(agents, n, base), Reconciliation(agents, n, b))
  PROVE  Authority(n, b) \ Required(agents, n).roles \subseteq Authority(n, base)
  <1> DEFINE before == Reconciliation(agents, n, base)
             after  == Reconciliation(agents, n, b)
             q      == Required(agents, n)
  <1>1. /\ after.excess_roles = Excess(after.roles, q.roles, q.roles_complete)
        /\ before.excess_roles = Excess(before.roles, q.roles, q.roles_complete)
    BY DEF Reconciliation
  <1>2. /\ Authority(n, b) = after.roles \cup after.conditional_roles
        /\ Authority(n, base) = before.roles \cup before.conditional_roles
    BY AuthorityReported
  <1>3. /\ after.excess_roles \subseteq before.excess_roles
        /\ after.conditional_roles \subseteq before.conditional_roles
    BY DEF Regressed
  <1> HIDE DEF before, after
  <1> QED BY <1>1, <1>2, <1>3 DEF Excess

-----------------------------------------------------------------------------
(***************************************************************************)
(* What a run builds: the graph's agents, then the report.                 *)
(***************************************************************************)

\* A set of naturals up to a bound that is not empty has a greatest element.
LEMMA GreatestExists ==
  ASSUME NEW n \in Nat, NEW S \in SUBSET (1..n), S # {}
  PROVE  \E i \in S : \A j \in S : j <= i
  <1> DEFINE R == {ss \in Nat \X Nat : ss[1] < ss[2]}
             T == {n - i : i \in S}
  <1>1. IsWellFoundedOn(R, Nat)
    BY NatLessThanWellFounded, Zenon DEF OpToRel
  <1>2. \A i, j \in Nat : <<j, i>> \notin R => i <= j
    OBVIOUS
  <1>3. T \in SUBSET Nat /\ T # {}
    <2>1. \A i \in S : n - i \in Nat
      OBVIOUS
    <2>2. PICK i \in S : TRUE
      OBVIOUS
    <2> QED BY <2>1, <2>2
  <1>4. \A i \in S : n - i \in T
    OBVIOUS
  <1>5. \A t \in T : \E i \in S : t = n - i
    OBVIOUS
  <1> HIDE DEF R, T
  <1>6. PICK t \in T : \A u \in T : <<u, t>> \notin R
    BY <1>1, <1>3, WFMin, Zenon
  <1>7. \A u \in T : t <= u
    BY <1>2, <1>3, <1>6
  <1>8. PICK i \in S : t = n - i
    BY <1>5
  <1>9. \A j \in S : n - i <= n - j
    BY <1>4, <1>7, <1>8
  <1> QED BY <1>9

\* An agent as far as the rest relies on it.
IsAgent(a) == /\ {"name", "deployment_roles"} \subseteq DOMAIN a
              /\ a.name \in AgentNames
              /\ a.deployment_roles \subseteq {SqlClient}

\* The agents of a source are agents, and are said nothing of by a deployment yet.
LEMMA SourceAgents ==
  ASSUME NEW s \in Scenarios
  PROVE  LET B == FromAuthoritySource(s.tf, s.agents) IN
         /\ \E m \in Nat : DOMAIN B = 1..m
         /\ \A k \in DOMAIN B : IsAgent(B[k]) /\ B[k].deployment_roles = {}
  <1> DEFINE A == s.agents
             B == FromAuthoritySource(s.tf, A)
  <1>1. /\ A \in Seq(Agent)
        /\ \A k \in DOMAIN A : A[k].deployment_roles = {}
    BY ScenariosAssumption
  <1>2. \A k \in DOMAIN A : A[k] \in Agent
    BY <1>1
  <1>m. PICK m \in Nat : DOMAIN A = 1..m
    BY <1>1
  <1> HIDE DEF A
  <1>3. CASE ~s.tf.given
    <2>1. B = A
      BY <1>3 DEF FromAuthoritySource
    <2>2. \A k \in DOMAIN A : IsAgent(A[k]) /\ A[k].deployment_roles = {}
      BY <1>1, <1>2 DEF Agent, IsAgent
    <2> QED BY <1>m, <2>1, <2>2 DEF A
  <1>4. CASE s.tf.given
    <2> DEFINE New(k) == [j \in DOMAIN A[k].identities |->
                            EnrichedIdentity(s.tf, A[k].identities[j])]
    <2>1. B = [k \in DOMAIN A |-> [A[k] EXCEPT !.identities = New(k)]]
      BY <1>4 DEF FromAuthoritySource
    <2>2. \A i : \A k \in DOMAIN A : LET a == [A[k] EXCEPT !.identities = i] IN
            /\ {"name", "deployment_roles"} \subseteq DOMAIN a
            /\ a.name = A[k].name /\ a.deployment_roles = A[k].deployment_roles
            /\ A[k].name \in AgentNames
      BY <1>2 DEF Agent
    <2> HIDE DEF New, B
    <2>3. \A k \in DOMAIN B : /\ k \in DOMAIN A /\ B[k] = [A[k] EXCEPT !.identities = New(k)]
      BY <2>1
    <2>4. ASSUME NEW k \in DOMAIN B
          PROVE  IsAgent(B[k]) /\ B[k].deployment_roles = {}
      <3>1. k \in DOMAIN A /\ B[k] = [A[k] EXCEPT !.identities = New(k)]
        BY <2>3
      <3>2. /\ {"name", "deployment_roles"} \subseteq DOMAIN B[k]
            /\ B[k].name \in AgentNames /\ B[k].deployment_roles = {}
        BY <1>1, <2>2, <3>1
      <3> QED BY <3>2 DEF IsAgent
    <2>5. DOMAIN B = 1..m
      BY <1>m, <2>1
    <2> QED BY <2>4, <2>5 DEF A, B
  <1> QED BY <1>3, <1>4

(***************************************************************************)
(* What cross-layer evidence adds (enrich_cross_layer_required_authority): *)
(* a role for the last agent of a name that SqlAgents names.               *)
(***************************************************************************)
LEMMA RolesFromDeployment ==
  ASSUME NEW A, \A k \in DOMAIN A : IsAgent(A[k]) /\ A[k].deployment_roles = {},
         NEW seen, NEW tf, NEW b
  PROVE  LET B == WithDeploymentRoles(A, seen, tf, b) IN
         /\ DOMAIN B = DOMAIN A
         /\ \A k \in DOMAIN B : IsAgent(B[k])
         /\ \A k \in DOMAIN B : B[k].deployment_roles # {} =>
              /\ B[k].name \in SqlAgents(seen, tf, b)
              /\ k = LastNamed(B, B[k].name)
  <1> DEFINE B == WithDeploymentRoles(A, seen, tf, b)
  <1>1. CASE ~tf.given \/ b.provider # "gcp"
    <2>1. B = A
      BY <1>1 DEF WithDeploymentRoles
    <2> QED BY <2>1
  <1>2. CASE ~(~tf.given \/ b.provider # "gcp")
    <2> DEFINE Sql(k) == /\ A[k].name \in SqlAgents(seen, tf, b)
                         /\ k = LastNamed(A, A[k].name)
               With(a) == [a EXCEPT !.deployment_roles = @ \cup {SqlClient}]
    <2>1. B = [k \in DOMAIN A |-> IF Sql(k) THEN With(A[k]) ELSE A[k]]
      BY <1>2 DEF WithDeploymentRoles
    <2>2. \A k \in DOMAIN A : /\ IsAgent(With(A[k]))
                              /\ With(A[k]).name = A[k].name
      BY DEF IsAgent
    <2> HIDE DEF B, With, Sql
    <2>3. DOMAIN B = DOMAIN A /\ \A k \in DOMAIN A : B[k] = IF Sql(k) THEN With(A[k]) ELSE A[k]
      BY <2>1
    <2>4. \A k \in DOMAIN A : /\ IsAgent(B[k]) /\ B[k].name = A[k].name
                              /\ B[k].deployment_roles # {} => Sql(k)
      BY <2>2, <2>3
    <2>5. \A n : LastNamed(B, n) = LastNamed(A, n)
      <3>1. \A n : {k \in DOMAIN B : B[k].name = n} = {k \in DOMAIN A : A[k].name = n}
        BY <2>3, <2>4
      <3> QED BY <3>1 DEF LastNamed
    <2>6. \A k \in DOMAIN B : B[k].deployment_roles # {} =>
            /\ B[k].name \in SqlAgents(seen, tf, b)
            /\ k = LastNamed(B, B[k].name)
      BY <2>3, <2>4, <2>5 DEF Sql
    <2> QED BY <2>3, <2>4, <2>6 DEF B
  <1> QED BY <1>1, <1>2

(***************************************************************************)
(* Whom SqlAgents names has a workload whose account has the name of one   *)
(* that a wired service runs as, and the application uses a database.      *)
(***************************************************************************)
LEMMA SqlAgentsWitnessed ==
  ASSUME NEW seen, NEW tf \in Terraform, NEW b, NEW n \in SqlAgents(seen, tf, b)
  PROVE  /\ \E f \in seen : "database" \in f.marks
         /\ \E w \in b.workloads : w.agent = n /\ WiredService(tf, w)
  <1>1. PICK w \in b.workloads : /\ w.agent = n /\ DatabaseUsed(seen)
                                 /\ WiredTo(w.identity, SqlAccounts(tf))
    BY DEF SqlAgents
  <1>2. PICK a \in SqlAccounts(tf) : LocalPart[a] = LocalPart[w.identity.account]
    BY <1>1 DEF WiredTo
  <1>3. PICK s \in tf.services : /\ s.wired
                                 /\ \/ a \in s.email
                                    \/ \E m \in s.account_ref : a \in TerraformAccount(tf, m)
    BY <1>2 DEF SqlAccounts
  <1>4. ASSUME NEW m \in s.account_ref, a \in TerraformAccount(tf, m)
        PROVE  \E t \in Range(tf.accounts) : t.name = m /\ a = t.account
    <2> DEFINE hits == {k \in DOMAIN tf.accounts : tf.accounts[k].name = m}
               last == CHOOSE k \in hits : \A j \in hits : j <= k
    <2>1. hits # {} /\ a = tf.accounts[last].account
      BY <1>4 DEF TerraformAccount
    <2>2. tf.accounts \in Seq([name : Workloads, account : Accounts])
      BY DEF Terraform
    <2>3. Len(tf.accounts) \in Nat /\ hits \in SUBSET (1 .. Len(tf.accounts))
      BY <2>2
    <2>4. \E k \in hits : \A j \in hits : j <= k
      <3> HIDE DEF hits
      <3> QED BY <2>1, <2>3, GreatestExists
    <2>5. last \in hits
      <3> HIDE DEF hits
      <3> QED BY <2>4
    <2> HIDE DEF last
    <2> QED BY <2>1, <2>5 DEF Range
  <1>5. a \in ServiceAccounts(tf, s)
    BY <1>3, <1>4 DEF ServiceAccounts
  <1>6. WiredService(tf, w)
    BY <1>2, <1>3, <1>5 DEF WiredService
  <1>7. \E f \in seen : "database" \in f.marks
    BY <1>1 DEF DatabaseUsed
  <1> QED BY <1>1, <1>6, <1>7

\* A walk sees files of the source and no others.
LEMMA VisitsSee ==
  ASSUME NEW files, NEW excluded, NEW seen \in Visits(files, excluded)
  PROVE  seen \subseteq files
  BY DEF Visits

(***************************************************************************)
(* An agent with a role that only the deployment shows has a requirement   *)
(* that is incomplete, and is not aligned (_required_authority, _status).  *)
(***************************************************************************)
LEMMA IncompleteNotAligned ==
  ASSUME NEW A, NEW n, NEW b, A[LastNamed(A, n)].deployment_roles # {}
  PROVE  Reconciliation(A, n, b).status # "aligned"
  <1> DEFINE r == Reconciliation(A, n, b)
  <1>1. /\ RequiredUnresolved(A, n) \subseteq r.unresolved
        /\ r.status = Status(r.excess_roles \cup r.excess_permissions # {},
                             r.missing_roles \cup r.missing_permissions # {}, r.unresolved)
    BY DEF Reconciliation
  <1>2. "required_roles_incomplete" \in RequiredUnresolved(A, n)
    BY DEF RequiredUnresolved
  <1> HIDE DEF r
  <1>3. r.status # "aligned"
    BY <1>1, <1>2 DEF Status
  <1> QED BY <1>3 DEF r

-----------------------------------------------------------------------------
(***************************************************************************)
(* The control of a run.                                                   *)
(***************************************************************************)

Phases == {"idle", "scan", "load", "enrich", "baseline", "report"}

\* A run reads one evidence file; the baseline is one snapshot that was accepted.
OneFile == /\ \A d, e \in head : d = e
           /\ \A d \in head : d \in Document /\ d.bundle \in scenario.deployments
           /\ phase # "idle" => head # {} /\ exit = 9

OneBaseline == /\ \A d, e \in kept : d = e
               /\ \A d \in kept : Accepted(d)

\* The gates a run has passed, and what a verdict therefore rests on.
Passed ==
  /\ phase \in {"load", "enrich", "baseline", "report"} \/ exit \in {0, 2} =>
       ~SourceRefused(scenario.tf)
  /\ phase \in {"enrich", "baseline", "report"} \/ exit \in {0, 2} =>
       \A d \in head : Accepted(d)
  /\ phase = "report" \/ exit \in {0, 2} => ~RefuseMissingBaseline

\* The graph's agents; roles that only a deployment shows come with Enrich.
Listed ==
  /\ \E m \in Nat : DOMAIN agents = 1..m
  /\ \A k \in DOMAIN agents : IsAgent(agents[k])
  /\ phase \in {"load", "enrich"} => \A k \in DOMAIN agents : agents[k].deployment_roles = {}

\* A role that only a deployment shows is the last agent's of its name, and is grounded.
Grounded ==
  phase \in {"baseline", "report"} => \A k \in DOMAIN agents :
    agents[k].deployment_roles # {} =>
      /\ k = LastNamed(agents, agents[k].name)
      /\ \E f \in scenario.files : "database" \in f.marks
      /\ \E w \in Evidence.bundle.workloads : w.agent = agents[k].name /\ WiredService(scenario.tf, w)

\* The report is the one of the agents, the evidence and the baseline of this run.
ReportOf(seen, b) ==
  [agents |-> [n \in Names(agents) |-> Reconciliation(agents, n, b)],
   policy |-> UNION {PolicyStatuses(n, b) : n \in Names(agents)},
   drift |-> IF kept = {} THEN {} ELSE Regressions(agents, Baseline.bundle, b),
   absent |-> CertifiedAbsent(agents, scenario.files, seen, b),
   candidates |-> {[agent |-> n,
                    roles |-> CandidateExcess(agents, scenario.files, seen, b, n)] :
                     n \in Names(agents)}]

Reported ==
  /\ DOMAIN report.agents \subseteq AgentNames
  /\ report.drift \subseteq AgentNames
  /\ phase = "report" =>
       \E seen \in Visits(scenario.files, {"tests", "vendored"}) :
         report = ReportOf(seen, Evidence.bundle)

IInv ==
  /\ scenario \in Scenarios /\ phase \in Phases /\ exit \in {0, 1, 2, 9}
  /\ OneFile /\ OneBaseline /\ Passed /\ Listed /\ Grounded /\ Reported

LEMMA EvidenceRead == ASSUME IInv, head # {} PROVE head = {Evidence}
  BY DEF IInv, OneFile, Evidence

LEMMA InitHolds == Init => IInv
  <1> SUFFICES ASSUME Init PROVE IInv
    OBVIOUS
  <1>1. DOMAIN agents = 1..0
    BY DEF Init
  <1> QED BY <1>1 DEF Init, IInv, OneFile, OneBaseline, Passed, Listed, Grounded, Reported, NoReport, Phases

LEMMA StartKeeps == ASSUME IInv, Start PROVE IInv'
  <1>1. PICK d \in scenario.exports, b \in scenario.deployments :
          head' = {[d EXCEPT !.bundle = b]}
    BY DEF Start
  <1>2. /\ phase' = "scan" /\ agents' = <<>> /\ report' = NoReport /\ exit' = 9
        /\ scenario' = scenario /\ kept' = kept
    BY DEF Start
  <1>3. [d EXCEPT !.bundle = b] \in Document /\ [d EXCEPT !.bundle = b].bundle = b
    <2>1. [d EXCEPT !.bundle = b] \in Document
      BY <1>1, ScenariosAssumption DEF IInv
    <2> QED BY <2>1 DEF Document
  <1>4. OneFile'
    BY <1>1, <1>2, <1>3 DEF OneFile
  <1>5. OneBaseline' /\ Passed'
    BY <1>2 DEF IInv, OneBaseline, Passed
  <1>6. Listed' /\ Grounded'
    <2>1. DOMAIN agents' = 1..0
      BY <1>2
    <2> QED BY <1>2, <2>1 DEF Listed, Grounded
  <1>7. Reported'
    BY <1>2 DEF Reported, NoReport
  <1> QED BY <1>2, <1>4, <1>5, <1>6, <1>7 DEF IInv, Phases

LEMMA FailKeeps == ASSUME IInv, Fail PROVE IInv'
  <1>1. /\ phase' = "idle" /\ exit' = 1
        /\ UNCHANGED <<scenario, head, kept, agents, report>>
    BY DEF Fail
  <1>2. OneFile' /\ OneBaseline' /\ Passed'
    BY <1>1 DEF IInv, OneFile, OneBaseline, Passed
  <1>3. Listed' /\ Grounded' /\ Reported'
    BY <1>1 DEF IInv, Listed, Grounded, Reported
  <1> QED BY <1>1, <1>2, <1>3 DEF IInv, Phases

LEMMA ScanKeeps == ASSUME IInv, Scan PROVE IInv'
  <1>1. CASE SourceRefused(scenario.tf)
    BY <1>1, FailKeeps DEF Scan
  <1>2. CASE ~SourceRefused(scenario.tf)
    <2>1. /\ phase = "scan" /\ phase' = "load"
          /\ agents' = FromAuthoritySource(scenario.tf, scenario.agents)
          /\ UNCHANGED <<scenario, head, kept, report, exit>>
      BY <1>2 DEF Scan
    <2>2. OneFile' /\ OneBaseline'
      BY <2>1 DEF IInv, OneFile, OneBaseline
    <2>3. Passed'
      BY <1>2, <2>1 DEF IInv, OneFile, Passed
    <2>4. Listed'
      <3>1. /\ \E m \in Nat : DOMAIN agents' = 1..m
            /\ \A k \in DOMAIN agents' : IsAgent(agents'[k]) /\ agents'[k].deployment_roles = {}
        BY <2>1, SourceAgents DEF IInv
      <3> QED BY <3>1 DEF Listed
    <2>5. Grounded' /\ Reported'
      BY <2>1 DEF IInv, Grounded, Reported
    <2> QED BY <2>1, <2>2, <2>3, <2>4, <2>5 DEF IInv, Phases
  <1> QED BY <1>1, <1>2

LEMMA LoadKeeps == ASSUME IInv, Load PROVE IInv'
  <1>1. CASE ~Accepted(Evidence)
    BY <1>1, FailKeeps DEF Load
  <1>2. CASE Accepted(Evidence)
    <2>1. /\ phase = "load" /\ phase' = "enrich"
          /\ UNCHANGED <<scenario, head, kept, agents, report, exit>>
      BY <1>2 DEF Load
    <2>2. OneFile' /\ OneBaseline'
      BY <2>1 DEF IInv, OneFile, OneBaseline
    <2>3. Passed'
      <3>1. head = {Evidence}
        BY <2>1, EvidenceRead DEF IInv, OneFile
      <3> QED BY <1>2, <2>1, <3>1 DEF IInv, OneFile, Passed
    <2>4. Listed' /\ Grounded' /\ Reported'
      BY <2>1 DEF IInv, Listed, Grounded, Reported
    <2> QED BY <2>1, <2>2, <2>3, <2>4 DEF IInv, Phases
  <1> QED BY <1>1, <1>2

LEMMA EnrichKeeps == ASSUME IInv, Enrich PROVE IInv'
  <1>1. PICK seen \in Visits(scenario.files, {"vendored"}) :
          agents' = WithDeploymentRoles(agents, seen, scenario.tf, Evidence.bundle)
    BY DEF Enrich
  <1>2. /\ phase = "enrich" /\ phase' = "baseline"
        /\ UNCHANGED <<scenario, head, kept, report, exit>>
    BY DEF Enrich
  <1>3. OneFile' /\ OneBaseline' /\ Passed'
    BY <1>2 DEF IInv, OneFile, OneBaseline, Passed, RefuseMissingBaseline
  <1>4. /\ DOMAIN agents' = DOMAIN agents
        /\ \A k \in DOMAIN agents' : IsAgent(agents'[k])
        /\ \A k \in DOMAIN agents' : agents'[k].deployment_roles # {} =>
             /\ agents'[k].name \in SqlAgents(seen, scenario.tf, Evidence.bundle)
             /\ k = LastNamed(agents', agents'[k].name)
    <2>1. \A k \in DOMAIN agents : IsAgent(agents[k]) /\ agents[k].deployment_roles = {}
      BY <1>2 DEF IInv, Listed
    <2> QED BY <1>1, <2>1, RolesFromDeployment
  <1>5. Listed'
    BY <1>2, <1>4 DEF IInv, Listed
  <1>6. Grounded'
    <2>1. Evidence' = Evidence
      BY <1>2 DEF Evidence
    <2>2. SUFFICES ASSUME NEW k \in DOMAIN agents', agents'[k].deployment_roles # {}
                   PROVE  /\ k = LastNamed(agents', agents'[k].name)
                          /\ \E f \in scenario.files : "database" \in f.marks
                          /\ \E w \in Evidence.bundle.workloads : w.agent = agents'[k].name /\ WiredService(scenario.tf, w)
      BY <1>2, <2>1 DEF Grounded
    <2>3. agents'[k].name \in SqlAgents(seen, scenario.tf, Evidence.bundle)
      BY <1>4, <2>2
    <2>4. scenario.tf \in Terraform
      BY ScenariosAssumption DEF IInv
    <2>5. seen \subseteq scenario.files
      BY VisitsSee
    <2>6. \E f \in seen : "database" \in f.marks
      BY <2>3, <2>4, SqlAgentsWitnessed
    <2>7. \E w \in Evidence.bundle.workloads : w.agent = agents'[k].name /\ WiredService(scenario.tf, w)
      BY <2>3, <2>4, SqlAgentsWitnessed
    <2> QED BY <1>4, <2>2, <2>5, <2>6, <2>7
  <1>7. Reported'
    BY <1>2 DEF IInv, Reported
  <1> QED BY <1>2, <1>3, <1>5, <1>6, <1>7 DEF IInv, Phases

LEMMA KeepFirstKeeps == ASSUME IInv, KeepFirst PROVE IInv'
  <1>1. /\ phase = "baseline" /\ phase' = "idle" /\ exit' = 1 /\ kept' = head
        /\ UNCHANGED <<scenario, head, agents, report>>
    BY DEF KeepFirst
  <1>2. OneFile' /\ Passed'
    BY <1>1 DEF IInv, OneFile, Passed
  <1>3. OneBaseline'
    BY <1>1 DEF IInv, OneFile, OneBaseline, Passed
  <1>4. Listed' /\ Grounded' /\ Reported'
    BY <1>1 DEF IInv, Listed, Grounded, Reported
  <1> QED BY <1>1, <1>2, <1>3, <1>4 DEF IInv, Phases

LEMMA ReportKeeps == ASSUME IInv, Report PROVE IInv'
  <1>1. PICK seen \in Visits(scenario.files, {"tests", "vendored"}) :
          report' = ReportOf(seen, Evidence.bundle)
    BY DEF Report, ReportOf
  <1>2. /\ phase = "baseline" /\ phase' = "report" /\ ~RefuseMissingBaseline
        /\ UNCHANGED <<scenario, head, kept, agents, exit>>
    BY DEF Report
  <1>3. OneFile' /\ OneBaseline' /\ Passed'
    BY <1>2 DEF IInv, OneFile, OneBaseline, Passed, RefuseMissingBaseline
  <1>4. Listed' /\ Grounded'
    BY <1>2 DEF IInv, Listed, Grounded, Evidence
  <1>5. Names(agents) \subseteq AgentNames
    BY DEF IInv, Listed, IsAgent, Names, Range
  <1>6. Reported'
    <2>1. ReportOf(seen, Evidence.bundle)' = ReportOf(seen, Evidence.bundle)
      BY <1>2 DEF ReportOf, Evidence, Baseline, PolicyStatuses
    <2>2. DOMAIN report'.agents \subseteq AgentNames
      BY <1>1, <1>5 DEF ReportOf
    <2>3. report'.drift \subseteq AgentNames
      BY <1>1, <1>5 DEF ReportOf, Regressions
    <2> QED BY <1>1, <1>2, <2>1, <2>2, <2>3 DEF Reported
  <1> QED BY <1>2, <1>3, <1>4, <1>6 DEF IInv, Phases

LEMMA FinishKeeps == ASSUME IInv, Finish PROVE IInv'
  <1>1. /\ phase = "report" /\ phase' = "idle" /\ exit' \in {0, 2}
        /\ kept' \in {kept, head}
        /\ UNCHANGED <<scenario, head, agents, report>>
    BY DEF Finish
  <1>2. head # {} /\ \A d \in head : Accepted(d)
    BY <1>1 DEF IInv, OneFile, Passed
  <1>3. OneFile' /\ OneBaseline'
    BY <1>1, <1>2 DEF IInv, OneFile, OneBaseline
  <1>4. Passed'
    BY <1>1, <1>2 DEF IInv, Passed, RefuseMissingBaseline
  <1>5. Listed' /\ Grounded' /\ Reported'
    BY <1>1 DEF IInv, Listed, Grounded, Reported
  <1> QED BY <1>1, <1>3, <1>4, <1>5 DEF IInv, Phases

LEMMA InvariantKept == IInv /\ [Next]_vars => IInv'
  <1> SUFFICES ASSUME IInv, [Next]_vars
               PROVE  IInv'
    OBVIOUS
  <1>1. CASE UNCHANGED vars
    <2>1. OneFile' /\ OneBaseline' /\ Passed'
      BY <1>1 DEF vars, IInv, OneFile, OneBaseline, Passed, RefuseMissingBaseline
    <2>2. Listed' /\ Grounded'
      BY <1>1 DEF vars, IInv, Listed, Grounded, Evidence
    <2>3. Reported'
      <3>1. ASSUME NEW seen
            PROVE  ReportOf(seen, Evidence.bundle)' = ReportOf(seen, Evidence.bundle)
        BY <1>1 DEF vars, ReportOf, Evidence, Baseline, PolicyStatuses
      <3> QED BY <1>1, <3>1 DEF vars, IInv, Reported
    <2> QED BY <1>1, <2>1, <2>2, <2>3 DEF vars, IInv
  <1>2. CASE Next
    BY <1>2, StartKeeps, ScanKeeps, LoadKeeps, EnrichKeeps, KeepFirstKeeps, ReportKeeps,
       FinishKeeps DEF Next
  <1> QED BY <1>1, <1>2

LEMMA InvariantHolds == SafetySpec => []IInv
  BY InitHolds, InvariantKept, PTL DEF SafetySpec

-----------------------------------------------------------------------------
(***************************************************************************)
(* The theorems.                                                           *)
(***************************************************************************)

(***************************************************************************)
(* Every state is of its type: one evidence file at most is read, the      *)
(* baseline is always a snapshot that load_deployment_evidence accepts,    *)
(* and no agent is given a role but the one that the walks can show.       *)
(***************************************************************************)
THEOREM ReconcileTypeCorrect == SafetySpec => []TypeOK
  <1>1. ASSUME IInv
        PROVE  TypeOK
    <2>1. Cardinality(head) <= 1 /\ Cardinality(kept) <= 1
      <3>1. ASSUME NEW S, \A d, e \in S : d = e
            PROVE  Cardinality(S) <= 1
        <4>1. CASE S = {}
          BY <4>1, FS_EmptySet
        <4>2. CASE S # {}
          <5>1. PICK d : S = {d}
            BY <3>1, <4>2
          <5>2. Cardinality(S) = 1
            BY <5>1, FS_Singleton, Zenon
          <5> QED BY <5>2
        <4> QED BY <4>1, <4>2
      <3>2. (\A d, e \in head : d = e) /\ (\A d, e \in kept : d = e)
        BY <1>1 DEF IInv, OneFile, OneBaseline
      <3> QED BY <3>1, <3>2
    <2>2. Names(agents) \subseteq AgentNames
      BY <1>1 DEF IInv, Listed, IsAgent, Names, Range
    <2>3. \A a \in Range(agents) : a.deployment_roles \subseteq {SqlClient}
      BY <1>1 DEF IInv, Listed, IsAgent, Range
    <2> QED BY <1>1, <2>1, <2>2, <2>3
            DEF IInv, TypeOK, OneFile, OneBaseline, Reported, Phases
  <1> QED BY <1>1, InvariantHolds, PTL

(***************************************************************************)
(* What reconcile says of an agent is true in every world the evidence     *)
(* allows: aligned only if it is exactly what is required, excess only     *)
(* what it holds whichever conditions hold (authority_reconciliations).    *)
(***************************************************************************)
THEOREM VerdictIsTrue == SafetySpec => []VerdictTrueInEveryWorld
  <1>1. ASSUME IInv
        PROVE  VerdictTrueInEveryWorld
    <2> SUFFICES ASSUME phase = "report"
                 PROVE  VerdictTrueInEveryWorld
      BY DEF VerdictTrueInEveryWorld
    <2>1. report.agents = [n \in Names(agents) |-> Reconciliation(agents, n, Evidence.bundle)]
      BY <1>1 DEF IInv, Reported, ReportOf
    <2>2. \A n \in DOMAIN report.agents :
            n \in Names(agents) /\ report.agents[n] = Reconciliation(agents, n, Evidence.bundle)
      BY <2>1
    <2> SUFFICES ASSUME NEW n \in DOMAIN report.agents, NEW w \in Worlds(Evidence.bundle)
                 PROVE  LET b == Evidence.bundle
                            r == report.agents[n]
                            q == Required(agents, n) IN
                        /\ r.status = "aligned" =>
                             /\ RunsAs(n, b) # {}
                             /\ PermissionsHeld(w, b, n) = q.permissions
                             /\ RolesHeld(w, b, n) \subseteq q.roles
                        /\ r.excess_roles \subseteq RolesHeld(w, b, n) \ q.roles
                        /\ r.excess_permissions \subseteq PermissionsHeld(w, b, n) \ q.permissions
      BY DEF VerdictTrueInEveryWorld
    <2> QED BY <2>2, VerdictSound
  <1> QED BY <1>1, InvariantHolds, PTL

(***************************************************************************)
(* A deployment is called compliant, or in violation of its agent's        *)
(* contract, only if it is so in every world (_evaluate_relationship).     *)
(***************************************************************************)
THEOREM PolicyIsTrue == SafetySpec => []PolicyTrueInEveryWorld
  <1>1. ASSUME IInv
        PROVE  PolicyTrueInEveryWorld
    <2> SUFFICES ASSUME phase = "report", NEW x \in report.policy,
                        NEW w \in Worlds(Evidence.bundle)
                 PROVE  LET b == Evidence.bundle
                            p == x.workload.identity
                            c == agents[LastNamed(agents, x.agent)].contract
                            Breaks(v) == \/ IdentityAgainst(c, b.provider, p)
                                         \/ Against(c, "iam_roles", RolesIn(v, b, p)) # {}
                                         \/ Against(c, "permissions", PermissionsIn(v, b, p)) # {} IN
                        /\ x.status = "compliant" => ~Breaks(w)
                        /\ x.status = "violation" => Breaks(w)
      BY DEF PolicyTrueInEveryWorld
    <2> DEFINE b == Evidence.bundle
    <2>1. report.policy = UNION {PolicyStatuses(n, b) : n \in Names(agents)}
      BY <1>1 DEF IInv, Reported, ReportOf
    <2>2. PICK n \in Names(agents) : x \in PolicyStatuses(n, b)
      BY <2>1
    <2>3. PICK r \in AuthorityRelationships(agents, n, b) :
            x = [agent |-> n, workload |-> r.workload, status |-> PolicyStatus(agents, b, r)]
      BY <2>2 DEF PolicyStatuses
    <2>4. x.agent = n /\ x.workload = r.workload /\ x.status = PolicyStatus(agents, b, r)
      BY <2>3
    <2> HIDE DEF b
    <2>5. Evidence.bundle = b
      BY DEF b
    <2> QED BY <2>4, <2>5, PolicySound
  <1> QED BY <1>1, InvariantHolds, PTL

(***************************************************************************)
(* A verdict rests on evidence that was understood in full, a source that  *)
(* was read to its end and, for the drift gate, a baseline.                *)
(***************************************************************************)
THEOREM VerdictRestsOnEvidence == SafetySpec => []VerdictNeedsEvidence
  <1>1. ASSUME IInv
        PROVE  VerdictNeedsEvidence
    <2> SUFFICES ASSUME exit \in {0, 2}
                 PROVE  VerdictNeedsEvidence
      BY DEF VerdictNeedsEvidence
    <2>1. /\ ~SourceRefused(scenario.tf) /\ ~RefuseMissingBaseline
          /\ \A d \in head : Accepted(d)
      BY <1>1 DEF IInv, Passed
    <2>2. "unknown" \notin KnownFields
      BY DEF KnownFields
    <2>3. \A d \in head : /\ d.file = "readable" /\ d.parses /\ d.version = 1
                          /\ "unknown" \notin d.fields /\ d.well_typed
      BY <2>1, <2>2 DEF Accepted
    <2> QED BY <2>1, <2>3 DEF VerdictNeedsEvidence, SourceRefused, RefuseMissingBaseline
  <1> QED BY <1>1, InvariantHolds, PTL

(***************************************************************************)
(* What is concluded from the source is grounded in it: a candidate for    *)
(* excess in a runtime that was seen in full, a requirement in a wired     *)
(* service and a workload of one account.                                  *)
(***************************************************************************)
THEOREM SourceClaimsAreGrounded == SafetySpec => []SourceClaimsGrounded
  <1>1. ASSUME IInv
        PROVE  AbsenceCertified
    <2> SUFFICES ASSUME phase = "report", NEW x \in report.candidates
                 PROVE  /\ x.roles \subseteq Authority(x.agent, Evidence.bundle)
                        /\ x.roles # {} => \A f \in scenario.files :
                             f.dir = "runtime" /\ f.python =>
                               /\ f.parses /\ f.small
                               /\ f.marks \cap {"discovery", "dynamic", "generic_api"} = {}
      BY DEF AbsenceCertified
    <2> DEFINE b == Evidence.bundle
    <2>1. PICK seen \in Visits(scenario.files, {"tests", "vendored"}) : report = ReportOf(seen, b)
      BY <1>1 DEF IInv, Reported
    <2>2. PICK n \in Names(agents) :
            x = [agent |-> n, roles |-> CandidateExcess(agents, scenario.files, seen, b, n)]
      BY <2>1 DEF ReportOf
    <2>3. x.agent = n /\ x.roles = CandidateExcess(agents, scenario.files, seen, b, n)
      BY <2>2
    <2> HIDE DEF b
    <2>4. CandidateExcess(agents, scenario.files, seen, b, n) \subseteq Authority(n, b)
      <3> DEFINE held == AuthorityRelationships(agents, n, b)
                 r == Reconciliation(agents, n, b)
      <3>1. CandidateExcess(agents, scenario.files, seen, b, n)
              \subseteq UNION {h.roles \cup h.conditional_roles : h \in held}
        BY DEF CandidateExcess
      <3>2. /\ r.roles = UNION {h.roles : h \in held}
            /\ r.conditional_roles = UNION {h.conditional_roles : h \in held}
        BY DEF Reconciliation
      <3>3. Authority(n, b) = r.roles \cup r.conditional_roles
        BY AuthorityReported
      <3> HIDE DEF held, r
      <3> QED BY <3>1, <3>2, <3>3
    <2>5. ASSUME x.roles # {}, NEW f \in scenario.files, f.dir = "runtime", f.python
          PROVE  /\ f.parses /\ f.small
                 /\ f.marks \cap {"discovery", "dynamic", "generic_api"} = {}
      <3>1. n \in CertifiedAbsent(agents, scenario.files, seen, b)
        BY <2>3, <2>5 DEF CandidateExcess
      <3>2. SurfaceClosed(scenario.files, seen)
        BY <3>1 DEF CertifiedAbsent
      <3> QED BY <2>5, <3>2 DEF SurfaceClosed, Truncated
    <2> QED BY <2>3, <2>4, <2>5 DEF b
  <1>2. ASSUME IInv
        PROVE  RequirementCorroborated
    <2> SUFFICES ASSUME phase = "report", NEW a \in Range(agents), a.deployment_roles # {}
                 PROVE  /\ \E f \in scenario.files : "database" \in f.marks
                        /\ \E w \in Evidence.bundle.workloads : w.agent = a.name /\ WiredService(scenario.tf, w)
                        /\ report.agents[a.name].status # "aligned"
      BY DEF RequirementCorroborated
    <2>1. PICK k \in DOMAIN agents : a = agents[k]
      BY DEF Range
    <2>2. /\ k = LastNamed(agents, a.name)
          /\ \E f \in scenario.files : "database" \in f.marks
          /\ \E w \in Evidence.bundle.workloads : w.agent = a.name /\ WiredService(scenario.tf, w)
      BY <1>2, <2>1 DEF IInv, Grounded
    <2>3. report.agents = [n \in Names(agents) |-> Reconciliation(agents, n, Evidence.bundle)]
      BY <1>2 DEF IInv, Reported, ReportOf
    <2>4. report.agents[a.name] = Reconciliation(agents, a.name, Evidence.bundle)
      BY <2>3 DEF Names
    <2>5. report.agents[a.name].status # "aligned"
      BY <2>1, <2>2, <2>4, IncompleteNotAligned
    <2> QED BY <2>2, <2>5
  <1> QED BY <1>1, <1>2, InvariantHolds, PTL DEF SourceClaimsGrounded

(***************************************************************************)
(* With --fail-on-deployment-regression, however often the deployment      *)
(* changes and reconcile is run, a snapshot takes the baseline's place     *)
(* only if no agent with known requirements may hold a role in it that is  *)
(* neither required nor was there before (deployment_authority_delta).     *)
(***************************************************************************)
THEOREM DriftDoesNotAccumulate == SafetySpec => NoDriftAccumulates
  <1> DEFINE Held ==
        kept' # kept /\ kept # {} /\ "drift" \in scenario.gates =>
          \A n \in Names(agents) :
            LET q == Required(agents, n) IN
            q.roles_complete =>
              Authority(n, Evidence.bundle) \ q.roles \subseteq Authority(n, Baseline.bundle)
  <1>1. ASSUME IInv, [Next]_vars
        PROVE  [Held]_vars
    <2> SUFFICES ASSUME kept' # kept, kept # {}, "drift" \in scenario.gates,
                        NEW n \in Names(agents), Required(agents, n).roles_complete
                 PROVE  Authority(n, Evidence.bundle) \ Required(agents, n).roles
                          \subseteq Authority(n, Baseline.bundle)
      OBVIOUS
    <2>1. Finish
      <3>1. Next
        BY <1>1 DEF vars
      <3> QED BY <3>1 DEF Next, Start, Scan, Load, Enrich, KeepFirst, Report, Fail,
                          RefuseMissingBaseline
    <2>2. phase = "report" /\ report.drift = {}
      BY <2>1 DEF Finish, GateFails
    <2>3. report.drift = Regressions(agents, Baseline.bundle, Evidence.bundle)
      BY <1>1, <2>2 DEF IInv, Reported, ReportOf
    <2>4. ~Regressed(Reconciliation(agents, n, Baseline.bundle),
                     Reconciliation(agents, n, Evidence.bundle))
      BY <2>2, <2>3 DEF Regressions
    <2> QED BY <2>4, NotRegressed
  <1> QED BY <1>1, InvariantHolds, PTL DEF SafetySpec, NoDriftAccumulates
(***************************************************************************)
(* An agent is the last of its name in a list of agents.                   *)
(***************************************************************************)
LEMMA LastOfName ==
  ASSUME IInv, NEW n \in Names(agents)
  PROVE  /\ LastNamed(agents, n) \in DOMAIN agents
         /\ agents[LastNamed(agents, n)].name = n
  <1> DEFINE hits == {k \in DOMAIN agents : agents[k].name = n}
  <1>1. PICK m \in Nat : DOMAIN agents = 1..m
    BY DEF IInv, Listed
  <1>2. hits \in SUBSET (1..m) /\ hits # {}
    BY <1>1 DEF Names, Range
  <1>3. \E k \in hits : \A j \in hits : j <= k
    BY <1>1, <1>2, GreatestExists
  <1>4. LastNamed(agents, n) \in hits
    BY <1>3 DEF LastNamed
  <1> QED BY <1>4

\* Without the other agents, those of one name are the same and the last of them is.
LEMMA AloneOfName ==
  ASSUME IInv, NEW n \in Names(agents)
  PROVE  /\ Named(Alone(n), n) = Named(agents, n)
         /\ LastNamed(Alone(n), n) = LastNamed(agents, n)
         /\ Alone(n)[LastNamed(agents, n)] = agents[LastNamed(agents, n)]
  <1>1. n # Unnamed
    BY UnnamedAssumption DEF IInv, Listed, IsAgent, Names, Range
  <1>2. /\ DOMAIN Alone(n) = DOMAIN agents
        /\ \A k \in DOMAIN agents :
             Alone(n)[k] = IF agents[k].name = n THEN agents[k] ELSE Nobody
    BY DEF Alone
  <1>3. \A k \in DOMAIN agents : /\ Alone(n)[k].name = n <=> agents[k].name = n
                                 /\ agents[k].name = n => Alone(n)[k] = agents[k]
    BY <1>1, <1>2 DEF Nobody
  <1>4. Named(Alone(n), n) = Named(agents, n)
    BY <1>2, <1>3 DEF Named, Range
  <1>5. {k \in DOMAIN Alone(n) : Alone(n)[k].name = n} = {k \in DOMAIN agents : agents[k].name = n}
    BY <1>2, <1>3
  <1>6. LastNamed(Alone(n), n) = LastNamed(agents, n)
    BY <1>5 DEF LastNamed
  <1> QED BY <1>3, <1>4, <1>6, LastOfName

(***************************************************************************)
(* Of the evidence, an agent's own is the workloads that run as one of its *)
(* principals and may be its own, and the bindings of these principals.    *)
(***************************************************************************)
OwnBinding(n, b, g) ==
  \E p \in RunsAs(n, b) : IF b.provider = "gcp"
                          THEN g.principal.account = p.account
                                 /\ "other" \notin {g.principal.form, p.form}
                          ELSE g.principal = p

OwnEvidence(n, b) ==
  [b EXCEPT !.workloads = {w \in b.workloads : w.identity \in RunsAs(n, b)
                                                 /\ w.agent \in {n, Unnamed}},
            !.bindings = {g \in @ : OwnBinding(n, b, g)}]

\* The workloads bound to an agent are its own, and are bound as they were.
LEMMA OwnRelationships ==
  ASSUME IInv, NEW n \in Names(agents), NEW b \in Bundle
  PROVE  IdentityRelationships(Alone(n), n, OwnEvidence(n, b))
           = IdentityRelationships(agents, n, b)
  <1> DEFINE own == OwnEvidence(n, b)
             bound == {v \in b.workloads : \E a \in Named(agents, n) : Matches(a, v)}
  <1>1. /\ own.workloads = {w \in b.workloads : w.identity \in RunsAs(n, b)
                                                 /\ w.agent \in {n, Unnamed}}
        /\ own.provider = b.provider
    BY DEF OwnEvidence, Bundle
  <1>2. bound = {v \in b.workloads : \E a \in Range(agents) : a.name = n /\ Matches(a, v)}
    BY DEF Named
  <1>3. \A v \in bound : v.identity \in RunsAs(n, b) /\ v.agent \in {n, Unnamed}
    <2>1. \A v \in bound : IF v.agent # Unnamed THEN v.agent = n
                           ELSE \E a \in Named(agents, n) : v.name \in a.hints
      BY DEF Matches, Named
    <2> QED BY <2>1 DEF RunsAs
  <1>4. {v \in own.workloads : \E a \in Range(Alone(n)) : a.name = n /\ Matches(a, v)} = bound
    <2>1. Named(Alone(n), n) = Named(agents, n)
      BY AloneOfName
    <2>2. \A v : (\E a \in Range(Alone(n)) : a.name = n /\ Matches(a, v))
                   <=> \E a \in Named(agents, n) : Matches(a, v)
      BY <2>1 DEF Named
    <2> QED BY <1>1, <1>3, <2>2
  <1> HIDE DEF own, bound
  <1> QED BY <1>1, <1>2, <1>4 DEF IdentityRelationships, own

\* The bindings of a principal that an agent runs as are its own.
LEMMA OwnAuthority ==
  ASSUME IInv, NEW n \in Names(agents), NEW b \in Bundle,
         NEW r \in IdentityRelationships(agents, n, b)
  PROVE  AuthorityRelationship(r, OwnEvidence(n, b)) = AuthorityRelationship(r, b)
  <1>1. r.workload.identity \in RunsAs(n, b)
    BY RunsAsBound
  <1>2. PICK own : own = OwnEvidence(n, b)
    OBVIOUS
  <1>3. /\ own.bindings = {g \in b.bindings : OwnBinding(n, b, g)}
        /\ own.provider = b.provider /\ own.catalogue = b.catalogue
    BY <1>2 DEF OwnEvidence, Bundle
  <1>4. BindingsOf(r, own) = BindingsOf(r, b)
    <2>1. \A g \in b.bindings : SamePrincipal(b.provider, r.workload.identity, g.principal)
                                  => OwnBinding(n, b, g)
      BY <1>1 DEF SamePrincipal, OwnBinding
    <2> QED BY <1>3, <2>1 DEF BindingsOf
  <1>5. \A g : Expansion(g, own) = Expansion(g, b)
    BY <1>3 DEF Expansion
  <1>6. \A gs : PermissionsOf(gs, own) = PermissionsOf(gs, b)
    BY <1>5 DEF PermissionsOf
  <1>7. \A gs : UnresolvedAuthority(r, gs, own) = UnresolvedAuthority(r, gs, b)
    BY <1>5 DEF UnresolvedAuthority
  <1> QED BY <1>2, <1>4, <1>6, <1>7, Zenon DEF AuthorityRelationship

LEMMA OwnReconciliation ==
  ASSUME IInv, NEW n \in Names(agents), NEW b \in Bundle
  PROVE  Reconciliation(Alone(n), n, OwnEvidence(n, b)) = Reconciliation(agents, n, b)
  <1>1. AuthorityRelationships(Alone(n), n, OwnEvidence(n, b)) = AuthorityRelationships(agents, n, b)
    <2>1. IdentityRelationships(Alone(n), n, OwnEvidence(n, b)) = IdentityRelationships(agents, n, b)
      BY OwnRelationships
    <2>2. \A r \in IdentityRelationships(agents, n, b) :
            AuthorityRelationship(r, OwnEvidence(n, b)) = AuthorityRelationship(r, b)
      BY OwnAuthority
    <2> QED BY <2>1, <2>2, Zenon DEF AuthorityRelationships
  <1>2. Required(Alone(n), n) = Required(agents, n)
    <2>1. RelationshipsOf(Alone(n), n) = RelationshipsOf(agents, n)
      BY AloneOfName DEF RelationshipsOf
    <2> QED BY <2>1, AloneOfName DEF Required
  <1>3. RequiredUnresolved(Alone(n), n) = RequiredUnresolved(agents, n)
    BY <1>2, AloneOfName DEF RequiredUnresolved
  <1>4. OwnEvidence(n, b).provider = b.provider
    BY DEF OwnEvidence, Bundle
  <1> QED BY <1>1, <1>2, <1>3, <1>4, Zenon DEF Reconciliation

(***************************************************************************)
(* Name similarity is never sufficient: what is reported of an agent rests *)
(* on its own workloads and the bindings of their accounts, whatever other *)
(* agents, workloads and bindings there are (deployed_identity.py).        *)
(***************************************************************************)
THEOREM OnlyOwnEvidenceCounts == SafetySpec => []NothingElseMatters
  <1>1. ASSUME IInv
        PROVE  NothingElseMatters
    <2> SUFFICES ASSUME phase = "report", NEW n \in DOMAIN report.agents
                 PROVE  report.agents[n] = Reconciliation(Alone(n), n, OwnEvidence(n, Evidence.bundle))
      BY DEF NothingElseMatters, OwnEvidence, OwnBinding
    <2>1. n \in Names(agents) /\ report.agents[n] = Reconciliation(agents, n, Evidence.bundle)
      BY <1>1 DEF IInv, Reported, ReportOf
    <2>2. Evidence.bundle \in Bundle
      <3>1. head # {} /\ head = {Evidence}
        BY <1>1, EvidenceRead DEF IInv, OneFile
      <3>2. Evidence \in Document
        BY <1>1, <3>1 DEF IInv, OneFile
      <3> QED BY <3>2 DEF Document
    <2> QED BY <1>1, <2>1, <2>2, OwnReconciliation
  <1> QED BY <1>1, InvariantHolds, PTL

===============================================================================
