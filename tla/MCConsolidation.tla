---------------------------- MODULE MCConsolidation ----------------------------
(***************************************************************************)
(* Source files, manifests and a deployment file about the same two        *)
(* agents, found in every order, each of them or not.                      *)
(***************************************************************************)
EXTENDS Consolidation

ATool(n, kind, caps, approval, guarded) ==
  [name |-> n, kind |-> kind, caps |-> caps, approval |-> approval, guarded |-> guarded,
   identity |-> Nothing]

AServer(n, terms, identity) == [name |-> n, terms |-> terms, identity |-> identity]
AnIdentity(n, provider, roles) == [name |-> n, provider |-> provider, roles |-> roles]

NoPolicy == [limits |-> Nothing, contract |-> Nothing]

Declares(n, instance, uses, policy) ==
  [name |-> n, instance |-> instance, uses |-> uses, runsAs |-> <<>>, servers |-> <<>>,
   inputs |-> {}, delegates |-> {}, policy |-> policy]

AFile(manifest, tools, identities, global, declarations) ==
  [manifest |-> manifest, tools |-> tools, identities |-> identities, global |-> global,
   agents |-> declarations]

\* Two agents of a source file share a tool, or not, or are in a factory.
Sources ==
  {AFile(FALSE,
        <<ATool("t", "resolved", {"read"}, approval, FALSE),
          ATool("u", "generic", {}, "unset", FALSE)>>, <<>>, 0,
        <<[Declares("a", Nothing, <<1, 2>>, NoPolicy) EXCEPT
             !.servers = <<AServer("m", "p", Nothing)>>,
             !.inputs = {[name |-> "chat", trusted |-> TRUE]}, !.delegates = {"b"}],
          Declares(n, instance, <<1>>, NoPolicy)>>) :
     approval \in {"yes", "unset"}, n \in {"a", "b"}, instance \in {"b", Nothing}}

\* Of the first, both agents have a tool of one name.  The last two are about identities:
\* agents that share one, and one that has its own.
Manifests ==
  {AFile(TRUE, <<ATool("t", "generic", {"write"}, "no", TRUE),
                 ATool("t", "generic", {}, "yes", FALSE),
                 ATool("t", "generic", {"write"}, "unset", FALSE)>>, <<>>, 0,
        <<[Declares("a", Nothing, <<1>>, [limits |-> "p", contract |-> Nothing]) EXCEPT
             !.servers = <<AServer("m", "q", "sb"), AServer("n", "q", Nothing)>>],
          Declares("b", Nothing, <<2, 3>>, NoPolicy)>>),
   AFile(TRUE, <<ATool("t", "generic", {}, "yes", FALSE)>>, <<>>, 0,
        <<Declares("b", Nothing, <<1>>, [limits |-> "q", contract |-> "q"]),
          [Declares("a", Nothing, <<>>, NoPolicy) EXCEPT
             !.inputs = {[name |-> "chat", trusted |-> FALSE]}]>>),
   AFile(TRUE, <<>>, <<AnIdentity("sa", "generic", {"viewer"})>>, 1,
        <<[Declares("a", Nothing, <<>>, NoPolicy) EXCEPT !.runsAs = <<1>>],
          [Declares("b", Nothing, <<>>, NoPolicy) EXCEPT !.runsAs = <<1>>]>>),
   AFile(TRUE, <<[ATool("t", "generic", {}, "unset", FALSE) EXCEPT !.identity = "sb"]>>,
        <<AnIdentity("sa", "gcp", {"owner"}), AnIdentity("sa", "generic", {}),
          AnIdentity("sb", "generic", {"editor"})>>, 0,
        <<[Declares("b", Nothing, <<1>>, NoPolicy) EXCEPT !.runsAs = <<1, 3>>],
          [Declares("a", Nothing, <<>>, NoPolicy) EXCEPT !.runsAs = <<2>>]>>)}

\* What is deployed.
Infrastructure ==
  AFile(FALSE, <<>>, <<AnIdentity("sa", "gcp", {"editor"}), AnIdentity("sb", "aws", {"owner"})>>,
       2, <<>>)

Resolves(n, tools) ==
  [name |-> n, tools |-> tools, servers |-> <<>>, inputs |-> {}, delegates |-> {},
   identities |-> <<>>]

\* What the repository-wide analysis resolves.
Resolutions ==
  {<<>>,
   <<[Resolves("a", <<ATool("t", "resolved", {"read"}, "unset", FALSE),
                      [ATool("v", "resolved", {"write"}, "unset", FALSE) EXCEPT
                         !.identity = "sb"]>>) EXCEPT
        !.servers = <<AServer("m", "q", Nothing), AServer("o", "p", Nothing)>>,
        !.inputs = {[name |-> "chat", trusted |-> FALSE]}, !.delegates = {"c"},
        !.identities = <<AnIdentity("sb", "gcp", {"editor"})>>],
     Resolves("c", <<ATool("t", "resolved", {"read"}, "unset", FALSE)>>)>>}

Orders(S) == UNION {{s \in [1..n -> S] : \A i, j \in 1..n : s[i] = s[j] => i = j} :
                      n \in 0..3}

Scans(sources, manifests, resolutions) ==
  {[files |-> f, resolved |-> r] : f \in Orders(sources \cup manifests), r \in resolutions}

\* A tool that only the repository-wide analysis resolves, and a manifest about it.
Placeholder ==
  AFile(FALSE, <<ATool("t", "placeholder", {}, "unset", FALSE)>>, <<>>, 0,
       <<[Declares("a", Nothing, <<1>>, NoPolicy) EXCEPT !.delegates = {"a", "c"}],
         Declares("b", Nothing, <<1>>, NoPolicy)>>)

MCRepositories ==
  Scans({s \in Sources : s.tools[1].approval = "yes"} \cup {Placeholder, Infrastructure},
        Manifests, Resolutions)

\* A manifest with an Authority Contract and no limits.
ContractOnly ==
  AFile(TRUE, <<>>, <<>>, 0,
       <<Declares("a", Nothing, <<>>, [limits |-> Nothing, contract |-> "p"])>>)

ContractRepositories == Scans(Sources, {ContractOnly}, Resolutions)
=============================================================================
