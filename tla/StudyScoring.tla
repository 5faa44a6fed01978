----------------------------- MODULE StudyScoring -----------------------------
(***************************************************************************)
(* The scores of the study: scan_one and aggregate of                      *)
(* scripts/real_world_agent_security_execute.py, and                       *)
(* scripts/real_world_agent_security_compare.py.                           *)
(*                                                                         *)
(* What a scanner reports of an application is                             *)
(*   [nodes, edges, relations, paths, identities, full, incomplete]:       *)
(* the nodes [kind, name, path, line] of its topology in order, the pairs  *)
(* of node numbers of its DELEGATES_TO edges, its effective authority as   *)
(* <<agent, kind, target>>, its attack paths as [agent, mentions], whether *)
(* it calls a relationship fully resolved and its analysis incomplete.     *)
(*                                                                         *)
(* A ratio is in ten-thousandths, as the scripts round to four digits.     *)
(***************************************************************************)
EXTENDS StudyTruth

AllDims == Dims \cup {"effective_authority"}

Occurrences(list, v) == Cardinality({i \in DOMAIN list : list[i] = v})

\* Wrong: a prediction may be counted for more than it answers.
CommonUncapped(expected, predicted) ==
  Cardinality({k \in DOMAIN predicted : Occurrences(expected, predicted[k]) > 0})

\* How many of the expected entries are found when each prediction answers one of them: the
\* n-th of several that are alike needs n such predictions.
Common(expected, predicted) ==
  Cardinality({a \in Range(expected) \X (1..Cardinality(DOMAIN expected)) :
                 /\ a[2] <= Occurrences(expected, a[1])
                 /\ a[2] <= Occurrences(predicted, a[1])})

-----------------------------------------------------------------------------
(* match_entities *)

Aliases(fact) == {Norm(fact.name), Norm(fact.var)} \ {Norm(NoName)}

\* path_match: the scan starts in the application's directory, the truth at the root.
PathMatch(a, b) == IsSuffix(a, b) \/ IsSuffix(b, a)

Places(fact, node) == PathMatch(fact.path, node.path) /\ Near(fact.line, node.line, 6)

\* One pass over n facts, each of which takes the first prediction that answers it and is not
\* taken; what is taken are pairs <<fact, prediction>>.
Pass(answers, n, taken) ==
  LET Take(sofar, t) ==
        LET free == {a[2] : a \in {a \in answers : a[1] = t /\ \A b \in sofar : b[2] # a[2]}}
        IN IF free = {} \/ \E b \in sofar : b[1] = t THEN sofar ELSE sofar \cup {<<t, Min(free)>>}
      upto[t \in 0..n] == IF t = 0 THEN taken ELSE Take(upto[t - 1], t)
  IN upto[n]

\* Names first, then places.
Matching(facts, nodes, predicted) ==
  LET Answers(Test(_, _)) == {a \in (DOMAIN facts) \X predicted : Test(facts[a[1]], nodes[a[2]])}
      SameName(fact, node) == Norm(node.name) \in Aliases(fact)
      byName == Pass(Answers(SameName), Len(facts), {})
  IN Pass(Answers(Places), Len(facts), byName)

KindsOf == [agent_entities |-> {"agent", "workflow_node"},
            tools |-> {"tool"}, mcp_servers |-> {"mcp_server"}]
FactsOf(ref, dim) == CASE dim = "agent_entities" -> ref.agents
                       [] dim = "tools" -> ref.tools
                       [] OTHER -> ref.servers

PredictedOf(scan, dim) == {k \in DOMAIN scan.nodes : scan.nodes[k].kind \in KindsOf[dim]}

\* The counts of a dimension: what is predicted beyond the reference counts as wrong only
\* where the reference is complete.
Counts(truth, predicted, tp, right, eligible) ==
  [truth |-> truth, predicted |-> predicted, tp |-> tp, fn |-> truth - tp, eligible |-> eligible,
   precisionTp |-> IF eligible THEN right ELSE 0,
   fp |-> IF eligible THEN predicted - right ELSE 0,
   unadjudicated |-> IF eligible THEN 0 ELSE predicted - right]

EntityCounts(ref, scan, dim) ==
  LET predicted == PredictedOf(scan, dim)
      matched == Matching(FactsOf(ref, dim), scan.nodes, predicted)
  IN Counts(Len(FactsOf(ref, dim)), Cardinality(predicted), Cardinality({a[1] : a \in matched}),
            Cardinality({a[2] : a \in matched}), ref.complete[dim])

-----------------------------------------------------------------------------
(* delegation_metrics, authority_metrics, attack_path_support, tier_c_identity_metrics *)

\* canonical_truth_name: the name of the first agent that has this alias.
Canonical(ref, name) ==
  LET known == {i \in DOMAIN ref.agents : Norm(name) \in Aliases(ref.agents[i])} IN
  IF known = {} THEN Norm(name) ELSE Norm(ref.agents[Min(known)].name)

DelegationCounts(ref, scan) ==
  LET expected == [i \in DOMAIN ref.edges |->
                     <<Canonical(ref, ref.edges[i][1]), Canonical(ref, ref.edges[i][2])>>]
      inGraph == {i \in DOMAIN scan.edges : {scan.edges[i][1], scan.edges[i][2]} \subseteq DOMAIN scan.nodes}
      pairs == [i \in inGraph |-> <<Canonical(ref, scan.nodes[scan.edges[i][1]].name),
                                    Canonical(ref, scan.nodes[scan.edges[i][2]].name)>>]
      tp == Common(expected, pairs)
  IN [Counts(Cardinality(DOMAIN expected), Cardinality(inGraph), tp, tp,
             ref.complete["delegation_edges"])
        EXCEPT !.predicted = Len(scan.edges)]

AuthorityCounts(truth, scan) ==
  LET ref == truth.reference
      Key(r) == <<Canonical(ref, r[1]), r[2], Norm(r[3])>>
      expected == [i \in DOMAIN truth.tierB |-> Key(truth.tierB[i])]
      predicted == [i \in DOMAIN scan.relations |-> Key(scan.relations[i])]
      tp == Common(expected, predicted)
  IN Counts(Cardinality(DOMAIN expected), Len(scan.relations), tp, tp,
            \A d \in {"agent_entities", "tools", "mcp_servers"} : ref.complete[d])

\* A reported path can be judged when the reference knows authority of its agent, and is
\* supported when it mentions a target of that authority.
PathSupport(truth, scan) ==
  LET ref == truth.reference
      Known(path) == {Norm(r[3]) : r \in {r \in Range(truth.tierB) :
                        Canonical(ref, r[1]) = Canonical(ref, path.agent)}}
      judged == {i \in DOMAIN scan.paths : Known(scan.paths[i]) # {}}
  IN [reported |-> Len(scan.paths),
      adjudicable |-> Cardinality(judged),
      supported |-> Cardinality({i \in judged : Known(scan.paths[i]) \cap scan.paths[i].mentions # {}})]

\* An identity that several files declare counts once here.
IdentityCounts(truth, scan) ==
  LET expected == {Norm(p[1]) : p \in truth.tierC.identities}
      predicted == {Norm(n) : n \in scan.identities}
  IN [truth |-> Cardinality(expected), predicted |-> Cardinality(predicted),
      tp |-> Cardinality(expected \cap predicted),
      fn |-> Cardinality(expected \ predicted)]

-----------------------------------------------------------------------------
(* The result of scan_one *)

Failed(case, status) == [id |-> case.id, stratum |-> case.stratum, studied |-> case.studied,
                         status |-> status]

\* The dimensions that are compared: authority for cases of tier B only.
ComparedWith(truth) == Dims \cup {d \in {"effective_authority"} : truth.tierB # None}

Comparison(truth, scan, dim) ==
  CASE dim = "delegation_edges" -> DelegationCounts(truth.reference, scan)
    [] dim = "effective_authority" -> AuthorityCounts(truth, scan)
    [] OTHER -> EntityCounts(truth.reference, scan, dim)

Scored(case, truth, scan) ==
  [id |-> case.id, stratum |-> case.stratum, studied |-> case.studied, status |-> "success",
   comparisons |-> [d \in ComparedWith(truth) |-> Comparison(truth, scan, d)],
   paths |-> IF truth.tierB # None THEN PathSupport(truth, scan) ELSE None,
   identities |-> IF truth.tierC # None THEN IdentityCounts(truth, scan) ELSE None,
   fullOnDynamic |-> scan.full /\ truth.reference.dynamic,
   incomplete |-> scan.incomplete]

-----------------------------------------------------------------------------
(* aggregate *)

\* round of a quotient: the nearest, and of two that are equally near the even one.  (A tie
\* that has no exact binary form goes to either; no property depends on it.)
Ratio(num, den) ==
  IF den = 0 THEN None ELSE
  LET below == (10000 * num) \div den
      rest == (10000 * num) % den
      up == 2 * rest > den \/ (2 * rest = den /\ below % 2 = 1)
  IN IF up THEN below + 1 ELSE below

Successes(cases) == {i \in DOMAIN cases : cases[i].status = "success"}

\* aggregate_dimension over some of the cases that were scanned
Metric(cases, chosen, dim) ==
  LET Total(field) ==
        Sum([i \in DOMAIN cases |-> IF i \in chosen /\ dim \in DOMAIN cases[i].comparisons
                                    THEN cases[i].comparisons[dim][field] ELSE 0])
  IN [truth |-> Total("truth"), predicted |-> Total("predicted"),
      tp |-> Total("tp"), fn |-> Total("fn"),
      recall |-> Ratio(Total("tp"), Total("tp") + Total("fn")),
      fp |-> Total("fp"),
      precision |-> Ratio(Total("precisionTp"), Total("precisionTp") + Total("fp")),
      unadjudicated |-> Total("unadjudicated")]

Metrics(cases, chosen) == [d \in AllDims |-> Metric(cases, chosen, d)]

PathTotals(cases, scanned) ==
  LET Total(field) == Sum([i \in DOMAIN cases |-> IF i \in scanned /\ cases[i].paths # None
                                                  THEN cases[i].paths[field] ELSE 0])
  IN [adjudicable |-> Total("adjudicable"), supported |-> Total("supported")]

\* The registered thresholds, of precision and recall of agents and of effective authority
\* and of the support of attack paths.
Thresholds(metrics, paths) ==
  LET Meets(value, threshold) == value # None /\ value >= threshold IN
  [agentPrecision |-> Meets(metrics["agent_entities"].precision, 9500),
   agentRecall |-> Meets(metrics["agent_entities"].recall, 9000),
   authorityPrecision |-> Meets(metrics["effective_authority"].precision, 9000),
   authorityRecall |-> Meets(metrics["effective_authority"].recall, 8000),
   pathSupport |-> Meets(Ratio(paths.supported, paths.adjudicable), 8000)]

Aggregate(cases, scanner, mode) ==
  LET scanned == Successes(cases)
      overall == Metrics(cases, scanned)
      In(stratum) == {i \in scanned : cases[i].stratum = stratum}
  IN
  [scanner |-> scanner, mode |-> mode, cases |-> cases,
   cohortCases |-> Len(cases),
   successful |-> Cardinality(scanned),
   failures |-> {[id |-> cases[i].id, status |-> cases[i].status] : i \in (DOMAIN cases) \ scanned},
   incomplete |-> Cardinality({i \in scanned : cases[i].incomplete}),
   metrics |-> overall,
   frameworks |-> [s \in IdsOf(cases, "stratum") |-> Metrics(cases, In(s))],
   unseen |-> Metrics(cases, {i \in scanned : ~cases[i].studied}),
   seen |-> Metrics(cases, {i \in scanned : cases[i].studied}),
   thresholds |-> Thresholds(overall, PathTotals(cases, scanned))]

-----------------------------------------------------------------------------
(* compare *)

\* Wrong: the two reports are swapped.
FellSwapped(before, after) == before # None /\ after # None /\ before < after

\* A metric that one of the two reports does not have is not compared.
Fell(before, after) == before # None /\ after # None /\ after < before

Measures == {"precision", "recall"}

Regressions(baseline, candidate) ==
  LET both == (DOMAIN baseline.frameworks) \cap (DOMAIN candidate.frameworks) IN
       {x \in {"overall"} \X AllDims \X Measures :
          Fell(baseline.metrics[x[2]][x[3]], candidate.metrics[x[2]][x[3]])}
  \cup {x \in both \X (AllDims \ {"delegation_edges"}) \X Measures :
          Fell(baseline.frameworks[x[1]][x[2]][x[3]], candidate.frameworks[x[1]][x[2]][x[3]])}

OfFramework(report, s, dim) ==
  IF s \in DOMAIN report.frameworks THEN report.frameworks[s][dim].recall ELSE None

\* Wrong: what failed is left out of the share of cases that were executed.
GateValuesOfSuccesses(candidate) ==
  [agentPrecision |-> candidate.metrics["agent_entities"].precision,
   langgraphAgents |-> OfFramework(candidate, "langgraph", "agent_entities"),
   langgraphTools |-> OfFramework(candidate, "langgraph", "tools"),
   customAgents |-> OfFramework(candidate, "mcp-custom", "agent_entities"),
   customTools |-> OfFramework(candidate, "mcp-custom", "tools"),
   mcpServers |-> candidate.metrics["mcp_servers"].recall,
   delegation |-> candidate.metrics["delegation_edges"].precision,
   execution |-> Ratio(candidate.successful, candidate.successful)]

GateValues(candidate) ==
  [agentPrecision |-> candidate.metrics["agent_entities"].precision,
   langgraphAgents |-> OfFramework(candidate, "langgraph", "agent_entities"),
   langgraphTools |-> OfFramework(candidate, "langgraph", "tools"),
   customAgents |-> OfFramework(candidate, "mcp-custom", "agent_entities"),
   customTools |-> OfFramework(candidate, "mcp-custom", "tools"),
   mcpServers |-> candidate.metrics["mcp_servers"].recall,
   delegation |-> candidate.metrics["delegation_edges"].precision,
   execution |-> (10000 * candidate.successful) \div candidate.cohortCases]

Required09 ==
  [agentPrecision |-> 9500, langgraphAgents |-> 8000, langgraphTools |-> 7000,
   customAgents |-> 6000, customTools |-> 6000, mcpServers |-> 8500, delegation |-> 9000,
   execution |-> 10000]

GatesMet(candidate) ==
  LET values == GateValues(candidate) IN
  \A g \in DOMAIN values : values[g] # None /\ values[g] >= Required09[g]

Comparable(baseline, candidate) ==
  /\ baseline.cohortCases = candidate.cohortCases
  /\ candidate.mode = "postfix"

Compare(baseline, candidate) ==
  LET FailedIn(report) == {f.id : f \in report.failures} IN
  [regressions |-> Regressions(baseline, candidate),
   gatesMet |-> GatesMet(candidate),
   newFailures |-> FailedIn(candidate) \ FailedIn(baseline),
   fixedFailures |-> FailedIn(baseline) \ FailedIn(candidate),
   incompleteDelta |-> candidate.incomplete - baseline.incomplete]
===============================================================================
