----------------------------- MODULE MCReconcile -----------------------------
(***************************************************************************)
(* Two agents, two service accounts and three roles: sources whose         *)
(* requirements are known, incomplete or unknown, and for each of them     *)
(* deployments that change.                                                *)
(***************************************************************************)
EXTENDS Reconcile

P(form, account) == [form |-> form, account |-> account]
Work(name, identity, agent) == [name |-> name, identity |-> identity, agent |-> agent]
Bind(p, role, permissions, conditional) ==
  [principal |-> p, role |-> role, permissions |-> permissions,
   conditional |-> conditional]

MCLocalPart == [a \in Accounts |-> "app"]
MCSupersets == [r \in Roles |-> IF r = "view" THEN {"own"} ELSE {}]

Nowhere == [identities |-> {}, iam_roles |-> {}, permissions |-> {}]
NoContract == [configured |-> FALSE, allow |-> Nowhere, deny |-> Nowhere]
\* Of the patterns, "*" matches everything and {"view", "own"} is a glob.
OnlyView == [configured |-> TRUE,
             allow |-> [identities |-> {{P("email", "s")}}, iam_roles |-> {{"view"}},
                        permissions |-> {}],
             deny |-> [identities |-> {}, iam_roles |-> {}, permissions |-> {{"q"}}]]
NoOwner == [configured |-> TRUE,
            allow |-> [identities |-> {Principal}, iam_roles |-> {{"view", "own"}, {"sql"}},
                       permissions |-> {}],
            deny |-> [identities |-> {{P("email", "t")}}, iam_roles |-> {{"own"}},
                      permissions |-> {}]]

Known(roles, permissions) ==
  [name |-> P("email", "s"), provider |-> "gcp", roles |-> roles,
   permissions |-> permissions]

AnAgent(name, hints, identities, needs, contract) ==
  [name |-> name, hints |-> hints, identities |-> identities, relationships |-> needs,
   contract |-> contract, deployment_roles |-> {}, blocked |-> FALSE]

\* No adapter knows permissions that are needed, or that what it knows is all.
Needs(identity, roles) ==
  [identity |-> identity, roles |-> roles, permissions |-> {},
   roles_complete |-> FALSE, permissions_complete |-> FALSE]
AsS == Needs({P("email", "s")}, {})
NeedsSql == Needs({}, {"sql"})

Sources ==
  {<<AnAgent("a", {}, <<Known({"view"}, {"p"})>>, {AsS}, OnlyView)>>,
   <<AnAgent("a", {"v"}, <<Known({"view"}, {})>>, {AsS, NeedsSql}, NoOwner),
     AnAgent("b", {"v"}, <<Known({"view", "own"}, {"p", "q"})>>, {AsS}, NoContract)>>,
   <<AnAgent("a", {}, <<Known({"view"}, {"p"})>>, {AsS}, NoContract),
     AnAgent("a", {"v"}, <<>>, {NeedsSql}, OnlyView)>>}

Running ==
  {{Work("w", P("email", "s"), "a")},
   {Work("w", P("prefixed", "s"), "b"), Work("v", P("resource", "t"), Unnamed)},
   {Work("v", P("other", "s"), "a"), Work("w", P("email", "t"), "a")}}

Grants ==
  {Bind(P("prefixed", "s"), "view", {"p"}, FALSE),
   Bind(P("email", "s"), "view", {}, FALSE),
   Bind(P("email", "s"), "own", {}, TRUE),
   Bind(P("email", "s"), "own", {"q"}, FALSE),
   Bind(P("resource", "s"), "sql", {"q"}, TRUE),
   Bind(P("email", "t"), "view", {"p"}, FALSE),
   Bind(P("other", "s"), "sql", {"q"}, FALSE)}

UpTo(n, S) == {s \in SUBSET S : Cardinality(s) <= n}

Catalogues == {[r \in Roles |-> {}], [r \in Roles |-> IF r = "sql" THEN {} ELSE {"p"}]}

Deployments(running, provider, catalogue) ==
  {[provider |-> provider, workloads |-> running, bindings |-> g,
    catalogue |-> catalogue] : g \in UpTo(2, Grants)}

NoTerraform == [given |-> FALSE, entries |-> 0, unsafe |-> FALSE, members |-> {},
                accounts |-> <<>>, services |-> {}]

AuthorityScenarios ==
  {[agents |-> s, files |-> {}, tf |-> NoTerraform,
    deployments |-> Deployments(running, provider, catalogue),
    exports |-> {Export(Deployments(running, provider, catalogue))},
    gates |-> gates] :
     s \in Sources, running \in Running, provider \in {"gcp", "aws"},
     catalogue \in Catalogues, gates \in {{"drift"}}}

\* Files and Terraform: at and over the limit, wired or not, declaring roles or not.
AFile(path, dir, marks, parses) ==
  [path |-> path, dir |-> dir, python |-> TRUE, parses |-> parses, small |-> TRUE,
   marks |-> marks]

SomeFiles ==
  {AFile(1, "runtime", {"database"}, TRUE), AFile(2, "runtime", {"discovery"}, TRUE),
   AFile(3, "tests", {"dynamic"}, TRUE), AFile(4, "vendored", {"discovery"}, TRUE),
   AFile(5, "runtime", {}, FALSE), AFile(6, "runtime", {}, TRUE)}

Repositories ==
  {[given |-> TRUE, entries |-> entries, unsafe |-> unsafe, members |-> members,
    accounts |-> <<[name |-> "w", account |-> "s"]>>,
    services |-> {[wired |-> wired, email |-> email,
                   account_ref |-> IF email = {} THEN {"w"} ELSE {}]}] :
     entries \in {2, MaxFiles + 1}, unsafe \in BOOLEAN, wired \in BOOLEAN, email \in {{}, {"t"}},
     members \in {{}, {[principal |-> P("prefixed", "s"), role |-> "own"]}}}

FewDeployments ==
  {[provider |-> provider, workloads |-> {Work("w", P(form, "s"), "a")},
    bindings |-> {Bind(P("email", "s"), "view", {"p"}, FALSE),
                  Bind(P("prefixed", "s"), "own", {}, TRUE)},
    catalogue |-> [r \in Roles |-> {}]] :
     provider \in {"gcp", "aws"}, form \in {"email", "resource"}}

SourceScenarios ==
  {[agents |-> <<AnAgent("a", {}, <<Known({"view"}, {"p"})>>, {AsS}, OnlyView)>>,
    files |-> files, tf |-> tf, deployments |-> FewDeployments,
    exports |-> {Export(FewDeployments)}, gates |-> {"excess"}] :
     files \in UpTo(3, SomeFiles), tf \in Repositories \cup {NoTerraform}}

\* Evidence that cannot be used, one fault at a time.
FaultyExports ==
  LET e == Export(FewDeployments) IN
  {e, [e EXCEPT !.file = "oversized"], [e EXCEPT !.parses = FALSE],
   [e EXCEPT !.version = 2], [e EXCEPT !.fields = @ \cup {"unknown"}],
   [e EXCEPT !.well_typed = FALSE]}

FaultScenarios ==
  {[agents |-> s, files |-> {}, tf |-> NoTerraform, deployments |-> FewDeployments,
    exports |-> FaultyExports, gates |-> gates] :
     s \in Sources, gates \in SUBSET Gates}

MCScenarios == AuthorityScenarios \cup SourceScenarios \cup FaultScenarios
=============================================================================
