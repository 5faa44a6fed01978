------------------------------- MODULE MCReview -------------------------------
(***************************************************************************)
(* Reviews of small pull requests: every way to come by the commits for    *)
(* one empty repository, and for commits at hand the repositories that     *)
(* exercise one part of the scan each.                                     *)
(***************************************************************************)
EXTENDS FlowReview

X == <<"x">>
Y == <<"y">>
Ctx == <<"ctx">>
MCVars == {X, Y, Ctx}
MCContextParams == {Ctx}

MCPeel(o) == IF o = "t" THEN "c2" ELSE o

Module(name) == <<"src", name>>

NoTree == [skipped |-> 0, partial |-> FALSE, config |-> <<>>, agents |-> <<>>,
           decls |-> <<>>, clients |-> {}, relations |-> <<>>, program |-> <<>>,
           aside |-> {}]

Quiet == [strict |-> FALSE, regression |-> FALSE, policy |-> FALSE, failOn |-> 0,
          asked |-> "none"]
Strict == [Quiet EXCEPT !.strict = TRUE]
FailOnHigh == [Quiet EXCEPT !.failOn = HIGH]

FromEvent == [explicit |-> FALSE, base |-> "c1", head |-> "c2", number |-> TRUE]

\* A review of commits that are both at hand.
Compared(bases, heads, opts) ==
  [event |-> [FromEvent EXCEPT !.number = FALSE], pull |-> "c2", local |-> {"c1", "c2"},
   branch |-> "c2", base |-> bases, head |-> heads, options |-> opts]

-----------------------------------------------------------------------------
(* Ways to come by the commits.                                            *)

GitJobs ==
  {[event |-> e, pull |-> p, local |-> objects, branch |-> "c3",
    base |-> {NoTree}, head |-> {NoTree}, options |-> {Quiet}] :
     e \in {z \in [explicit : BOOLEAN, base : {"c1", BRANCH}, head : {"c2", "t", BRANCH, NONE},
                   number : BOOLEAN] : z.explicit => ~z.number},
     p \in {"c2", "c3"},
     objects \in {{}, {"c1"}, {"c1", "c2"}, {"c1", "c2", "t"}}}

-----------------------------------------------------------------------------
(* Agents, tools and servers.                                              *)

AnAgent(name, module, tools) ==
  [name |-> name, path |-> Module(module), fast |-> FALSE, servers |-> {}, imports |-> {}, refs |-> {},
   dynamic |-> FALSE, untrusted |-> FALSE, data |-> {}, control |-> FALSE, required |-> {},
   denied |-> {}, tools |-> tools]

ATool(name, module, capabilities) ==
  [at |-> 1, name |-> name, path |-> Module(module), import |-> <<>>, kind |-> "function",
   capabilities |-> capabilities, approval |-> "unknown", guardrails |-> FALSE,
   identity |-> {}, mutation |-> "none", network |-> "none", resources |-> {},
   destinations |-> {}, restricted |-> TRUE]

AServer(at, name, module) ==
  [at |-> at, name |-> name, path |-> Module(module), scope |-> {}, allowed |-> {},
   denied |-> {}, dynamic |-> FALSE, authenticated |-> "unknown", credential |-> FALSE,
   keys |-> FALSE, identity |-> {}, approval |-> "unknown", guardrails |-> FALSE,
   resources |-> {}, filesystem |-> {}, origin |-> "declared", url |-> "command"]

With(agents) == [NoTree EXCEPT !.agents = agents]

-----------------------------------------------------------------------------
(* Authority: one tool, or one server through an import, that changes.     *)

Roled(roles) == [name |-> <<"i">>, roles |-> roles, oauth_scopes |-> {}, credential |-> TRUE]

Changed(t) ==
  {t} \cup {[t EXCEPT !.capabilities = c] : c \in {{}, {"data.read"}, {"data.write", "data.read"}}}
      \cup {[t EXCEPT !.approval = a, !.guardrails = g] : a \in {"yes", "no", "unknown"},
                                                           g \in BOOLEAN}
      \cup {[t EXCEPT !.identity = i] :
              i \in {{Roled({"view"})}, {Roled({"view", "own"})},
                     {[Roled({}) EXCEPT !.oauth_scopes = {"all"}]},
                     {[Roled({"view"}) EXCEPT !.name = <<"j">>, !.credential = FALSE]}}}
      \cup {[t EXCEPT !.resources = r, !.destinations = d] : r \in SUBSET {"x"}, d \in SUBSET {"x"}}
      \cup {[t EXCEPT !.mutation = m] : m \in {"local_session_state_write", "destructive_write"}}
      \cup {[t EXCEPT !.network = n, !.capabilities = {"network.external"}] :
              n \in {"arbitrary_egress", "fixed_provider_network"}}

Tools == {[t EXCEPT !.approval = a] : a \in {"yes", "no"},
                                      t \in Changed(ATool("t", "m", {"data.read"}))}
         \cup Changed(ATool("t", "m", {"data.read"}))

ToolTrees ==
  {With(<<AnAgent("a", "m", {t})>>) : t \in Tools}
    \cup {With(<<[AnAgent("a", "m", {ATool("t", "m", {"data.read"})}) EXCEPT !.control = TRUE]>>),
          With(<<AnAgent("a", "m", {})>>), NoTree}

Server == AServer(1, "s", "m")

Servers ==
  {[Server EXCEPT !.allowed = a, !.denied = d, !.dynamic = dyn] :
     a \in SUBSET ToolNames, d \in SUBSET ToolNames, dyn \in BOOLEAN}
    \cup {[Server EXCEPT !.url = u, !.authenticated = a, !.credential = c] :
            u \in {"none", "http", "https"}, a \in {"yes", "unknown"}, c \in BOOLEAN}
    \cup {[Server EXCEPT !.approval = a, !.guardrails = g] :
            a \in {"yes", "no"}, g \in BOOLEAN}
    \cup {[Server EXCEPT !.filesystem = f] : f \in SUBSET {"x"}}

\* The server is imported, or a manifest gives it to the agent, alone or with another of
\* its name.
Importing == [AnAgent("a", "n", {}) EXCEPT !.imports = {[name |-> "s", module |-> Module("m")]}]

ServerTrees ==
  {[With(<<Importing>>) EXCEPT !.decls = <<s>>] : s \in Servers}
    \cup {[With(<<[AnAgent("a", "n", {}) EXCEPT !.servers = 1..n]>>)
             EXCEPT !.decls = <<Server, [AServer(2, "s", "m") EXCEPT !.url = "http"]>>] :
            n \in 1..2}

AuthorityJobs ==
  {Compared(ToolTrees, ToolTrees, {Quiet}), Compared(ServerTrees, ServerTrees, {Quiet})}

-----------------------------------------------------------------------------
(* Binding: which servers two agents get.                                  *)

Declared(module, names) == [name |-> "s", module |-> module]

Decls ==
  {<<[AServer(1, "s", "m") EXCEPT !.authenticated = "yes"], AServer(2, "r", "m")>>,
   <<AServer(1, "s", "m"), AServer(2, "s", "n")>>,
   <<[AServer(1, "s", "m") EXCEPT !.scope = {<<"src">>}, !.allowed = {"u"}],
     [AServer(2, "s", "n") EXCEPT !.scope = {<<"src", "n">>}, !.credential = TRUE],
     AServer(3, "r", "m")>>}

Agents ==
  {[AnAgent("a", m, {}) EXCEPT !.imports = i, !.fast = f, !.refs = r, !.dynamic = f] :
     m \in {"m", "n"},
     i \in {{}, {[name |-> "s", module |-> <<"m">>]}, {[name |-> "s", module |-> <<"src">>],
                                                       [name |-> "r", module |-> Module("m")]},
            {[name |-> "s", module |-> <<>>]}},
     f \in {TRUE},
     r \in {{}, {[name |-> "s", filter |-> {{"u", "w"}}]}, {[name |-> "r", filter |-> {}]}}}

Others == {AnAgent("b", "m", {}),
           [AnAgent("b", "m", {}) EXCEPT !.imports = {[name |-> "s", module |-> <<"m">>]}],
           [AnAgent("b", "n", {}) EXCEPT !.servers = {1}],
           [AnAgent("b", "n", {}) EXCEPT !.fast = TRUE,
                                         !.refs = {[name |-> "s", filter |-> {}]}]}

Clients == {[path |-> Module("m"), alias |-> "client", names |-> {}],
            [path |-> Module("m"), alias |-> "client", names |-> {"s"}]}

Given(agent) == [path |-> Module("m"), agent |-> agent, alias |-> "client"]

BindingTrees ==
  {[With(<<a, b>>) EXCEPT !.decls = d, !.clients = {c}, !.relations = rs] :
     a \in Agents, b \in Others, d \in Decls, c \in Clients,
     rs \in {<<>>, <<Given("a"), Given("b")>>}}

BindingJobs == {Compared({NoTree}, BindingTrees, {Strict})}

-----------------------------------------------------------------------------
(* Flows: two functions of one module, one of another.                     *)

Const == [op |-> "const"]
Var(v) == [op |-> "var", var |-> v]
Source(kind) == [op |-> "source", kind |-> kind, site |-> <<"src", "l1">>]
Sink(e) == [op |-> "sink", kind |-> "process_execute", site |-> <<"src", "l2">>, args |-> <<e>>]
Later(e) == [Sink(e) EXCEPT !.site = <<"src", "l3">>]
Call(name, e) == [op |-> "call", name |-> name, args |-> <<e>>]
Both(e, f) == [op |-> "join", args |-> <<e, f>>]

Assign(v, e) == [op |-> "assign", var |-> v, expr |-> e]
Do(e) == [op |-> "expr", expr |-> e, var |-> Y]
Return(e) == [op |-> "return", expr |-> e, var |-> Y]
If(body, orelse) == [op |-> "if", expr |-> Const, var |-> Y, body |-> body, orelse |-> orelse]
For(v, e, body) == [op |-> "for", var |-> v, expr |-> e, body |-> body]
Try(body, handler, final) ==
  [op |-> "try", expr |-> Const, var |-> Y, body |-> body, handler |-> handler,
   final |-> final]

FBodies ==
  {<<Do(Sink(Var(X)))>>,
   <<Assign(Y, Call("g", Var(X))), Do(Sink(Var(Y)))>>,
   <<Assign(Y, Source("user_input")), If(<<Assign(Y, Const)>>, <<>>), Do(Sink(Var(Y)))>>,
   <<Assign(Y, Const), If(<<Assign(Y, Var(X))>>, <<>>), Do(Sink(Var(Y)))>>,
   <<Do(Call("g", Both(Var(X), Source("secret_value"))))>>,
   <<Assign(Y, Const), For(Y, Call("g", Var(X)), <<Do(Call("h", Var(Y)))>>),
     Do(Sink(Var(Y)))>>,
   <<Try(<<Assign(Y, Var(X))>>, <<Do(Call("g", Var(X)))>>, <<>>), Do(Sink(Var(Y)))>>,
   <<Assign(Y, Const),
     Try(<<Assign(Y, Var(X))>>, <<Return(Const)>>, <<Do(Later(Var(Y))), Do(Call("g", Var(X)))>>),
     Do(Sink(Var(Y)))>>,
   <<Assign(Y, Call("unknown", Var(X))), Do(Sink(Var(Y)))>>,
   <<Do(Call("h", Var(Ctx))), Return(Call("g", Var(Ctx)))>>}

GBodies ==
  {<<Return(Var(X))>>,
   <<Do(Sink(Var(X)))>>,
   <<If(<<Return(Call("g", Var(X)))>>, <<>>), Return(Var(X))>>,
   <<Return(Const)>>,
   <<Do(Sink(Call("f", Source("web_retrieval")))), Return(Source("user_input"))>>,
   <<Assign(Y, Call("h", Var(X))), Return(Both(Var(Y), Const))>>,
   <<Do(Call("f", Var(X))), Return(Call("h", Var(X)))>>}

F == Append(Module("m"), "f")
G == Append(Module("m"), "g")
H == Append(Module("n"), "h")

Program(f, g, h, alias) ==
  F :> [params |-> <<X, Ctx>>, imports |-> {}, body |-> f]
  @@ G :> [params |-> <<X>>, imports |-> {[alias |-> "h", key |-> H]} \cap alias, body |-> g]
  @@ H :> [params |-> <<X>>, imports |-> {}, body |-> h]

Programs == {Program(f, g, <<Do(Sink(Var(X))), Return(Var(X))>>, {}) : f \in FBodies, g \in GBodies}

FlowTools ==
  {<<AnAgent("a", "m", {ATool("f", "m", {})})>>,
   <<AnAgent("a", "m", {ATool("f", "m", {}), [ATool("g", "m", {}) EXCEPT !.at = 2]})>>,
   <<AnAgent("a", "m", {ATool("f", "m", {})}), AnAgent("b", "m", {ATool("g", "m", {})})>>,
   <<AnAgent("a", "m", {ATool("f", "m", {})}), AnAgent("b", "m", {ATool("f", "m", {})})>>,
   <<AnAgent("a", "m", {[ATool("h", "m", {}) EXCEPT !.import = <<"n">>]})>>}

FlowTree(agents, program) == [With(agents) EXCEPT !.program = program, !.aside = {G}]

FlowJobs == {Compared({NoTree}, {FlowTree(as, p) : as \in FlowTools, p \in Programs}, {Strict})}

-----------------------------------------------------------------------------
(* Findings: an agent in either of two files with up to two shells.        *)

Shell(at, name, module, approval) ==
  [ATool(name, module, {"process.execute"}) EXCEPT !.at = at, !.approval = approval]

Shells == {Shell(1, "t", "m", "yes"), Shell(2, "t", "m", "no"), Shell(3, "u", "n", "unknown"),
           Shell(4, "t", "n", "no"),
           [ATool("v", "n", {"destructive.write", "external.write"}) EXCEPT !.at = 5]}

FindingTrees ==
  {With(<<[AnAgent("a", "m", ts) EXCEPT !.denied = d, !.untrusted = TRUE, !.data = {"x"}],
           AnAgent("b", "m", us)>>) :
     ts \in kSubset(1, Shells) \cup kSubset(2, Shells),
     us \in {{}, {Shell(1, "t", "m", "no")}},
     d \in {{}, {"process.execute", "external.write"}}}

Regraded == {"AGT020" :> [enabled |-> FALSE, severity |-> 0],
             "CAP002" :> [enabled |-> TRUE, severity |-> MEDIUM]}

FindingJobs ==
  {Compared(FindingTrees, FindingTrees, {FailOnHigh}),
   Compared({NoTree}, {[h EXCEPT !.config = c] : h \in FindingTrees, c \in Regraded},
            {FailOnHigh})}

-----------------------------------------------------------------------------
(* Completeness: what was not seen, on either side.                        *)

OddTrees ==
  {[NoTree EXCEPT !.skipped = n, !.partial = p, !.decls = d] :
     n \in {0, 2}, p \in BOOLEAN,
     d \in {<<>>, <<[Server EXCEPT !.url = "https"]>>}}

CompleteJobs ==
  {Compared(OddTrees, OddTrees, [strict : BOOLEAN, regression : BOOLEAN, policy : BOOLEAN,
                                 failOn : {0}, asked : {"none"}])}

-----------------------------------------------------------------------------
(* The target branch: what was accepted, for how long.                     *)

\* The first has the id that a baseline's first has, the last is too wide.
Exception(id, expires) ==
  [id |-> id, expires |-> expires, fingerprint |-> {}, rule |-> {"AGT020"}, agent |-> {},
   path |-> {}]
MCHandwritten ==
  {[Exception(<<"baseline", 1>>, 2) EXCEPT !.path = {{Module("m")}}],
   [Exception(<<"hand", 1>>, 1) EXCEPT !.agent = {"a"}, !.path = {{Module("m"), Module("n")}}],
   [Exception(<<"hand", 1>>, 2) EXCEPT !.rule = {}, !.agent = {"a"}]}

Accepted(ts, d, c, p) ==
  [With(<<[AnAgent("a", "m", ts) EXCEPT !.denied = d]>>) EXCEPT !.config = c, !.partial = p]

AcceptedTrees ==
  {Accepted(ts, {}, <<>>, FALSE) :
     ts \in {{}, {Shell(1, "t", "m", "no")},
             {Shell(1, "t", "m", "no"), Shell(2, "u", "n", "unknown")}}}
    \cup {Accepted({Shell(1, "t", "m", "no")}, {"process.execute"}, c, p) :
            c \in {<<>>} \cup Regraded, p \in BOOLEAN}

MainJobs ==
  {Compared(AcceptedTrees, AcceptedTrees,
            {[FailOnHigh EXCEPT !.strict = strict, !.asked = "default"] : strict \in BOOLEAN}
              \cup {[FailOnHigh EXCEPT !.asked = "yml"]})}

MCJobs == MainJobs \cup GitJobs \cup AuthorityJobs \cup BindingJobs \cup FlowJobs \cup FindingJobs
            \cup CompleteJobs
=============================================================================
