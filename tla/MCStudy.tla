-------------------------------- MODULE MCStudy -------------------------------
(* Three cases out of four candidates, one of each of three frameworks, two scanners, two workers. *)
EXTENDS Study

MCRegistered == [target |-> 3, pool |-> 4, tierB |-> 1, tierC |-> 1, tierBStrata |-> 1]

-----------------------------------------------------------------------------
(* Documents *)

Protocol ==
  [header |-> TRUE, scanner |-> "s0", featureFreeze |-> TRUE, target |-> 3, pool |-> 4,
   influence |-> FALSE,
   strata |-> <<[id |-> "langgraph", min |-> 1, target |-> 1, max |-> 1],
                [id |-> "mcp-custom", min |-> 1, target |-> 1, max |-> 2],
                [id |-> "autogen", min |-> 0, target |-> 1, max |-> 1]>>,
   tierA |-> 3, tierB |-> 1, dualB |-> TRUE, tierC |-> 1, dualC |-> TRUE, share |-> 100,
   staticOnly |-> TRUE, exactSha |-> TRUE, preserveBaseline |-> TRUE]

Protocols == {Protocol,
                [Protocol EXCEPT !.strata[2].max = 1, !.target = 4]}

Row(repo, stratum) ==
  [repo |-> repo, stratum |-> stratum, discovered |-> TRUE, decision |-> "include", reason |-> FALSE,
   exposure |-> "checked", screening |-> [sourceOnly |-> TRUE, path |-> TRUE]]
Pending(row) == [row EXCEPT !.decision = "pending", !.screening = None, !.exposure = "pending"]

Ledger == [header |-> TRUE, influence |-> FALSE, pool |-> 4, frozen |-> TRUE,
           entries |-> <<Row("r1", "langgraph"), Row("r2", "mcp-custom"), Row("r3", "autogen"),
                         [Row("r4", "langgraph") EXCEPT !.decision = "exclude", !.reason = TRUE]>>]

Ledgers == {Ledger,
            [Ledger EXCEPT !.entries[4] = Pending(@)],
            [Ledger EXCEPT !.entries[2] = Pending(@), !.frozen = FALSE]}

CaseOf(id, repo, stratum) ==
  [id |-> id, repo |-> repo, stratum |-> stratum, studied |-> id = "c1", truth |-> id]

Cohort == [header |-> TRUE, scanner |-> "s0", influence |-> FALSE, frozen |-> TRUE, locked |-> FALSE,
           cases |-> <<CaseOf("c1", "r1", "langgraph"), CaseOf("c2", "r2", "mcp-custom"),
                       CaseOf("c3", "r3", "autogen")>>,
           tierB |-> <<"c1">>, tierC |-> <<"c2">>, exceptions |-> {}, shortfall |-> None]

\* Two cases exchange their repositories after the truth was written.
Exchanged == [Cohort EXCEPT !.locked = TRUE,
                            !.cases[1] = CaseOf("c1", "r2", "mcp-custom"),
                            !.cases[2] = CaseOf("c2", "r1", "langgraph")]

Unfrozen == [Cohort EXCEPT !.frozen = FALSE, !.cases = <<>>, !.tierB = <<>>, !.tierC = <<>>]

Cohorts == {Unfrozen, Cohort,
            [Cohort EXCEPT !.locked = TRUE],                           \* truths may be missing
            [Cohort EXCEPT !.locked = TRUE, !.cases[2].id = "c1", !.cases[2].truth = "c1"],
            [Cohort EXCEPT !.cases[2].repo = "r1"],
            [Cohort EXCEPT !.cases[2].stratum = "langgraph"],          \* above the maximum
            [Cohort EXCEPT !.cases[2].truth = "other"],
            [Cohort EXCEPT !.tierC = <<>>],
            [Cohort EXCEPT !.tierC = <<>>, !.cases = <<@[2], @[1], @[3]>>,
                           !.shortfall = [target |-> 1, selected |-> 0, reviewComplete |-> TRUE]]}

Tree(cohort) == [protocol |-> Protocol, candidates |-> Ledger, cohort |-> cohort,
                 truth |-> [f \in {"c1", "c2", "c3", "other"} |-> None], baseline |-> None]

SettledDocuments == [protocol |-> {}, candidates |-> {}, cohort |-> {}]

-----------------------------------------------------------------------------
(* Applications *)

Planner == <<1, 1>>
PlannerVar == <<2, 1>>
Writer == <<3, 1>>
Search == <<4, 1>>
SearchAgain == <<4, 2>>
Fs == <<5, 1>>
Other == <<6, 1>>
Sa == <<7, 1>>

Decl(kind, var, name, line) ==
  [kind |-> kind, var |-> var, name |-> name, owner |-> NoName, tools |-> <<>>, subs |-> <<>>,
   line |-> line]

File(name, decls) == [path |-> <<"app", name>>, lang |-> "py", readable |-> TRUE, size |-> 1,
                      parses |-> TRUE, dynamic |-> FALSE, decls |-> decls, ghosts |-> <<>>]

Main == File("main.py",
  <<Decl("agent", Writer, Writer, 10),
    [Decl("agent", PlannerVar, Planner, 20) EXCEPT !.tools = <<Search, Writer>>, !.subs = <<Writer>>],
    [Decl("tool", NoName, Search, 30) EXCEPT !.owner = PlannerVar],
    Decl("server", Fs, Fs, 40)>>)

AppOf(files) == [found |-> TRUE, files |-> files, identities |-> {<<Sa, "main.tf">>, <<Sa, "run.yaml">>},
                 roles |-> {<<"viewer", "main.tf">>}]

More(file) == AppOf(<<Main, file>>)
Extra == File("more.py", <<Decl("tool", NoName, Other, 10), Decl("node", NoName, SearchAgain, 30)>>)

AppsOfMain == <<
   AppOf(<<Main>>), More(Extra),
   AppOf(<<[Main EXCEPT !.dynamic = TRUE]>>),
   AppOf(<<[Main EXCEPT !.ghosts = <<[name |-> Other, line |-> 50]>>]>>),
   AppOf(<<[Main EXCEPT !.ghosts = <<[name |-> PlannerVar, line |-> 22]>>]>>),
   AppOf(<<[Main EXCEPT !.parses = FALSE]>>),
   More([Extra EXCEPT !.lang = "js"]), More([Extra EXCEPT !.parses = FALSE]),
   More([Extra EXCEPT !.readable = FALSE]), More([Extra EXCEPT !.size = 3]),
   AppOf(<<Main, File("empty.py", <<>>), Extra>>),
   AppOf(<<[Main EXCEPT !.lang = "ipynb"]>>),
   More([Extra EXCEPT !.lang = "ipynb", !.parses = FALSE]),
   AppOf(<<[Main EXCEPT !.decls[4].kind = "tree server"]>>),
   AppOf(<<[Main EXCEPT !.decls[4].kind = "tree server", !.parses = FALSE]>>),
   AppOf(<<[Main EXCEPT !.decls[4].kind = "text server"]>>),
   AppOf(<<[Main EXCEPT !.decls[1] = [@ EXCEPT !.kind = "decorated agent", !.name = PlannerVar]]>>)>>

Missing == [AppOf(<<Main>>) EXCEPT !.found = FALSE]

Custom == AppOf(<<File("bot.py", <<Decl("agent", Writer, Writer, 5),
                                 [Decl("tool", NoName, Search, 15) EXCEPT !.owner = Writer],
                                 Decl("server", Fs, Fs, 25)>>)>>)

-----------------------------------------------------------------------------
(* What scanners report *)

Node(kind, name, file, line) == [kind |-> kind, name |-> name, path |-> <<file>>, line |-> line]

Nothing == [nodes |-> <<>>, edges |-> <<>>, relations |-> <<>>, paths |-> <<>>, identities |-> {},
            full |-> FALSE, incomplete |-> TRUE]

OfMain ==
  [nodes |-> <<Node("agent", Writer, "main.py", 10), Node("agent", Planner, "main.py", 20),
               Node("tool", Search, "main.py", 30), Node("tool", Writer, "main.py", 20),
               Node("mcp_server", Fs, "main.py", 40)>>,
   edges |-> <<<<2, 1>>, <<2, 1>>>>, relations |-> <<<<Planner, "tool", Search>>, <<Planner, "tool", Writer>>>>,
   paths |-> <<[agent |-> Planner, mentions |-> {Norm(Search)}]>>, identities |-> {}, full |-> FALSE,
   incomplete |-> FALSE]

OfCustom ==
  [Nothing EXCEPT !.nodes = <<Node("agent", Writer, "bot.py", 5), Node("tool", Search, "bot.py", 15),
                              Node("mcp_server", Fs, "bot.py", 25)>>,
                  !.identities = {Sa}, !.incomplete = FALSE]

ScansOfMain == <<
   OfMain, Nothing,
   [OfMain EXCEPT !.nodes = Tail(@), !.edges = <<>>],
   [OfMain EXCEPT !.nodes[3].name = SearchAgain],
   [OfMain EXCEPT !.nodes[2].name = Other, !.full = TRUE],              \* found by its place
   [OfMain EXCEPT !.nodes[1] = OfMain.nodes[2], !.nodes[2] = OfMain.nodes[1], !.edges = <<<<1, 2>>>>],
   [OfMain EXCEPT !.nodes = Append(Append(@, Node("tool", Other, "more.py", 10)),
                                   Node("workflow_node", Search, "more.py", 30))],
   [OfMain EXCEPT !.nodes = Append(@, Node("tool", Other, "main.py", 90)),
                  !.edges = @ \o <<<<2, 1>>, <<1, 9>>>>, !.relations = Append(@, <<Writer, "tool", Other>>)]>>

\* Keys of applications and reports: a number, or the name of one of the others.
MCApps == [n \in 1..Len(AppsOfMain) |-> AppsOfMain[n]] @@ (20 :> Custom) @@ (30 :> Missing)
MCScans == [n \in 1..Len(ScansOfMain) |-> ScansOfMain[n]] @@ (20 :> OfCustom)

MCDocuments ==
  [cohorts |-> [SettledDocuments EXCEPT !.cohort = Cohorts],
   exchanged |-> [SettledDocuments EXCEPT !.cohort = {Exchanged}],
   pools |-> [protocol |-> Protocols, candidates |-> Ledgers, cohort |-> {Cohort}],
   settled |-> SettledDocuments]

-----------------------------------------------------------------------------

World(branch, docs, kinds, app, baseline, candidate, custom, faults) ==
  [tree |-> branch, docs |-> docs, kinds |-> kinds,
   apps |-> [r1 |-> app, r2 |-> 20, r3 |-> 20],
   scans |-> [s0 |-> [r1 |-> baseline, r2 |-> 20, r3 |-> 20],
              s1 |-> [r1 |-> candidate, r2 |-> custom, r3 |-> 20]],
   faults |-> faults]

\* The branch once the workflow of the truth has pushed.
Reviewed(app) ==
  [Tree([Cohort EXCEPT !.locked = TRUE]) EXCEPT
     !.truth["c1"] = BuildTruth(Cohort.cases[1], MCApps[app], "none", TRUE, FALSE),
     !.truth["c2"] = BuildTruth(Cohort.cases[2], Custom, "none", FALSE, TRUE),
     !.truth["c3"] = BuildTruth(Cohort.cases[3], Custom, "none", FALSE, FALSE)]

\* The branch once the workflow of the baseline has pushed, too.
Measured(app, baseline) ==
  LET t == Reviewed(app)
      Result(c, scan) == Scored(c, t.truth[c.truth], MCScans[scan])
  IN [t EXCEPT !.baseline =
        Aggregate(<<Result(Cohort.cases[1], baseline), Result(Cohort.cases[2], 20),
                    Result(Cohort.cases[3], 20)>>, "s0", "baseline")]

MCWorlds ==
  \* documents are changed while workflows run
       {World(Tree(Unfrozen), docs, Kinds, 1, 1, 2, 20, {}) : docs \in {"cohorts", "pools"}}
  \* every application is scored for two scanners
  \cup {World(Measured(x[1], x[2]), "settled", {"postfix"}, x[1], x[2], c, 20, {}) :
          x \in ((1..4) \X {1, 3, 5}) \cup ((5..Len(AppsOfMain)) \X {1}), c \in 1..Len(ScansOfMain)}
  \* identifiers of cases go to other repositories
  \cup {World(Measured(1, 1), "exchanged", {"truth", "postfix"}, 1, 1, c, 20, {}) : c \in {1, 2}}
  \* commands fail and hang; the scanner of the second family meets the gates otherwise
  \cup {World(Tree(Cohort), "settled", {"truth"}, app, 1, 1, 20, faults) :
          app \in {1, 30}, faults \in {{"git hangs", "fetch_failed"}, {"checkout_failed"}}}
  \cup {World(Reviewed(2), "settled", {"baseline", "postfix"}, 2, 7, 7, 20, faults) :
          faults \in {{"git hangs", "frozen_sha_mismatch"}, {"scan fails"}, {"scan hangs"}}}
===============================================================================
