------------------------------- MODULE Findings -------------------------------
(***************************************************************************)
(* From the graph of a scan to its findings: the attack paths              *)
(* (analysis.py), the rules (rules/builtin.py), the configuration that     *)
(* turns rules off or regrades them (config.py), and the comparison of the *)
(* findings of two commits by fingerprint (suppressions.py,                *)
(* change_analysis.py).                                                    *)
(*                                                                         *)
(* An agent of a graph is [name, path, untrusted, data, control, required, *)
(* denied, tools, servers, identities]: whether it has untrusted input,    *)
(* its sensitive data sources, whether a plugin or a callback controls its *)
(* tools, the capabilities its policy requires and denies.  A tool is      *)
(* [name, path, kind, capabilities, approval, guardrails, destinations,    *)
(* restricted, network]; approval is "yes", "no" or "unknown".             *)
(* Evidence is a set of [key, values]; a value is a sequence of names.     *)
(***************************************************************************)
EXTENDS Integers, Sequences, FiniteSets, SequencesExt, FiniteSetsExt

MEDIUM == 2
HIGH == 3
CRITICAL == 4

PRIVILEGED_CAPABILITIES == {"process.execute", "destructive.write", "external.write",
                            "data.write", "secrets.read", "identity.admin"}
HIGH_RISK_CAPABILITIES  == {"process.execute", "destructive.write", "secrets.read",
                            "identity.admin"}
Outbound == {"network.external", "external.write"}

UNTRUSTED_FLOW_SOURCES == {"user_input", "external_http_response", "web_retrieval",
                           "mcp_response", "agent_tool_input"}

Names(set) == {<<x>> : x \in set}

Fact(key, values) == {[key |-> key, values |-> values]}

Finding(rule, severity, agent, path, evidence) ==
  [rule |-> rule, severity |-> severity, agent |-> agent, path |-> path,
   evidence |-> evidence]

\* The finding, if the condition holds.
When(condition, finding) == {f \in {finding} : condition}

\* A server is reached at an address: "http", "https" or, on this host, "loopback".
Remote(server) == server.url \notin {"none", "command"}

\* Agent.capabilities: of its tools, its data sources and its servers.
CapabilitiesOf(agent) ==
  (UNION {t.capabilities : t \in agent.tools})
    \cup {c \in {"data.read"} : agent.data # {}}
    \cup {IF Remote(s) THEN "mcp.remote" ELSE "mcp.local" : s \in agent.servers}
    \cup {c \in {"network.external"} : \E s \in agent.servers : Remote(s)}

\* Agent.effective_destinations: of its tools and of its remote servers.
DestinationsOf(agent) ==
  (UNION {t.destinations : t \in agent.tools})
    \cup {s.name : s \in {x \in agent.servers : Remote(x)}}

-----------------------------------------------------------------------------
(* Attack paths, as findings of layer 5.                                   *)

PathFinding(rule, severity, agent, path, nodes) ==
  Finding(rule, severity, agent.name, path, Fact("nodes", Names(nodes)))

\* _flow_id: the source, the sink and where they are, the agent, the chain of functions.
FlowId(flow, agent) == <<flow.source, flow.sink, flow.site, agent, flow.chain>>

\* The rule and the severity of a flow from that source to that sink.
FlowRules(flow) ==
  {r \in {[rule |-> "PATH001", severity |-> CRITICAL]} :
     flow.source.kind \in UNTRUSTED_FLOW_SOURCES /\ flow.sink = "process_execute"}
    \cup
  {r \in {[rule |-> "PATH007", severity |-> HIGH]} :
     flow.source.kind \in UNTRUSTED_FLOW_SOURCES /\ flow.sink = "memory_write"}
    \cup
  {r \in {[rule |-> "PATH003", severity |-> CRITICAL]} :
     flow.source.kind = "secret_value" /\ flow.sink = "external_send"}

FlowFindings(f) ==
  {Finding(r.rule, r.severity, a, Front(f.site), Fact("flow_id", Names({FlowId(f, a)}))) :
     r \in FlowRules(f), a \in f.agents}

\* _flow_backed_paths: of flows that cross no unresolved call and that an agent reaches.
FlowBackedPaths(flows) ==
  UNION {FlowFindings(f) : f \in {x \in flows : /\ x.basis = "static_dataflow"
                                                /\ x.reachability = "proven_agent_reachable"}}

\* The paths that an agent's capabilities combine to: build_attack_paths.
CooccurrencePaths(agent, flowBacked) ==
  LET outbound == {t \in agent.tools : Outbound \cap t.capabilities # {}}
      open     == {t \in outbound : /\ t.network \notin {"fixed_managed_service",
                                                         "explicit_destination"}
                                    /\ ~(t.destinations # {} /\ t.restricted)}
      with(c)  == {t \in agent.tools : c \in t.capabilities}
      privileged == CapabilitiesOf(agent) \cap HIGH_RISK_CAPABILITIES
      path(rule, severity, where, nodes) == PathFinding(rule, severity, agent, where, nodes)
  IN {path("PATH001", CRITICAL, t.path, {t.name, "process.execute"}) :
        t \in {x \in with("process.execute") :
                 /\ agent.untrusted /\ x.approval # "yes"
                 /\ \A f \in flowBacked : f.rule # "PATH001" \/ f.agent # agent.name}}
       \cup {path("PATH002", HIGH, t.path, {t.name, "destructive.write"}) :
               t \in {x \in with("destructive.write") : agent.untrusted /\ x.approval # "yes"}}
       \cup {path("PATH003", CRITICAL, t.path, {t.name, "external destination"}) :
               t \in {x \in outbound : agent.data # {} /\ x.approval # "yes"}}
       \cup When(agent.untrusted /\ agent.data # {} /\ with("process.execute") # {},
                 path("PATH004", CRITICAL, agent.path, {agent.name}))
       \cup When(agent.untrusted /\ with("secrets.read") # {} /\ open # {},
                 path("PATH005", HIGH, agent.path, {agent.name}))
       \cup When(agent.untrusted /\ Cardinality(privileged) >= 2,
                 path("PATH006", HIGH, agent.path, privileged))

AttackPaths(agents, flows) ==
  LET flowBacked == FlowBackedPaths(flows)
  IN flowBacked \cup UNION {CooccurrencePaths(a, flowBacked) : a \in agents}

-----------------------------------------------------------------------------
(* The rules.                                                              *)

ToolEvidence(capability, t) ==
  Fact("capability", {<<capability>>}) \cup Fact("approval", {<<t.approval>>})

\* Layer 1, of a tool of an agent.
ToolFindings(agent, t) ==
  LET open == t.approval # "yes"
      found(rule, severity, evidence) == Finding(rule, severity, agent.name, t.path, evidence)
  IN When("process.execute" \in t.capabilities /\ open /\ t.kind # "delegated_agent",
          found("AGT020", HIGH, ToolEvidence("process.execute", t)))
       \cup When("destructive.write" \in t.capabilities /\ open,
                 found("AGT021", HIGH, ToolEvidence("destructive.write", t)))
       \cup When("data.write" \in t.capabilities /\ open
                   /\ t.kind \in {"apply_patch", "generic", "function"},
                 found("AGT022", MEDIUM, ToolEvidence("data.write", t)))
       \cup When(t.capabilities \cap PRIVILEGED_CAPABILITIES # {} /\ open
                   /\ ~t.guardrails /\ ~agent.control,
                 found("AGT040", MEDIUM, Fact("capabilities", Names(t.capabilities))
                                           \cup Fact("authority_relationship",
                                                     {<<agent.name, t.name>>})))

\* Layer 1, of a server, bound or not: its findings have no agent.
ServerFindings(server) ==
  LET outside == server.url \in {"http", "https"}
      found(rule, severity, key) ==
        Finding(rule, severity, "none", server.path, Fact(key, {<<server.name>>}))
  IN When(server.url = "http", found("AGT031", HIGH, "url"))
       \cup When(outside /\ server.authenticated = "no", found("AGT030", HIGH, "authenticated"))
       \cup When(outside /\ server.allowed = {}, found("AGT032", MEDIUM, "allowed_tools"))

\* Layer 2.
CapabilityFindings(agent) ==
  LET caps == CapabilitiesOf(agent)
      privileged == caps \cap PRIVILEGED_CAPABILITIES
      found(rule, severity, key, values) ==
        Finding(rule, severity, agent.name, agent.path, Fact(key, Names(values)))
  IN When(agent.required # {} /\ ~(caps \subseteq agent.required),
          found("CAP001", HIGH, "unexpected", caps \ agent.required))
       \cup When(caps \cap agent.denied # {},
                 found("CAP002", CRITICAL, "denied", caps \cap agent.denied))
       \cup When(Cardinality(privileged) > 3, found("CAP003", HIGH, "privileged", privileged))
       \cup When({"process.execute", "network.external"} \subseteq caps,
                 found("CAP004", HIGH, "combined", {}))
       \cup When("data.read" \in caps /\ {"data.write", "destructive.write"} \cap caps # {},
                 found("CAP005", MEDIUM, "combined",
                       {t.name : t \in {x \in agent.tools : x.capabilities \cap
                          {"data.read", "data.write", "destructive.write"} # {}}}))

\* Layer 3: _identity_findings
IdentityFindings(agent, broad) ==
  UNION {When((i.roles \cup i.oauth_scopes) \cap broad # {},
              Finding("IDN001", HIGH, agent.name, agent.path,
                      Fact("roles", Names((i.roles \cup i.oauth_scopes) \cap broad)))) :
           i \in agent.identities}

\* Layer 4.  A destination of a tool that is not restricted is broad.
ReachFindings(agent) ==
  LET outbound == {t \in agent.tools : Outbound \cap t.capabilities # {}}
      free     == {t \in outbound : t.network # "fixed_managed_service"}
      broad    == UNION {t.destinations : t \in {x \in agent.tools : ~x.restricted}}
      gaps     == {t \in outbound : /\ t.destinations = {}
                                    /\ t.network \notin {"fixed_managed_service",
                                                         "fixed_provider_network"}}
      reaches  == Outbound \cap CapabilitiesOf(agent) # {}
      found(rule, severity, key, values) ==
        Finding(rule, severity, agent.name, agent.path, Fact(key, Names(values)))
  IN When(broad # {}, found("NET001", HIGH, "destinations", broad))
       \cup When(broad = {} /\ gaps # {},
                 found("NET002", MEDIUM, "authority_relationship", {t.name : t \in gaps}))
       \cup When(agent.data # {} /\ \E t \in outbound : t.approval # "yes",
                 found("AGT010", CRITICAL, "outbound", {t.name : t \in outbound}))
       \cup When(/\ agent.data # {}
                 /\ broad # {} \/ (reaches /\ DestinationsOf(agent) = {} /\ free # {}),
                 found("DATA003", CRITICAL, "sensitive", agent.data))

\* evaluate: of the agents, the servers bound to none and the attack paths.
Evaluate(agents, unbound, paths, broad) ==
  paths
    \cup (UNION {UNION {ToolFindings(a, t) : t \in a.tools} : a \in agents})
    \cup (UNION {ServerFindings(s) : s \in unbound \cup UNION {a.servers : a \in agents}})
    \cup UNION {CapabilityFindings(a) \cup IdentityFindings(a, broad) \cup ReachFindings(a) :
                  a \in agents}

-----------------------------------------------------------------------------
(* Configuration.  Of the rules it names, [enabled, severity]; severity 0  *)
(* leaves the rule's own.                                                  *)

\* apply of config.py
ApplyConfig(config, findings) ==
  {IF f.rule \in DOMAIN config /\ config[f.rule].severity # 0
   THEN [f EXCEPT !.severity = config[f.rule].severity] ELSE f :
     f \in {x \in findings : x.rule \in DOMAIN config => config[x.rule].enabled}}

-----------------------------------------------------------------------------
(* Comparison.                                                             *)

\* Wrong: the agent is not part of the fingerprint.
FingerprintWithoutAgent(f) == [rule |-> f.rule, path |-> f.path, evidence |-> f.evidence]

\* fingerprint
Fingerprint(f) ==
  [rule |-> f.rule, agent |-> f.agent, path |-> f.path, evidence |-> f.evidence]

\* compare_scans: "introduced", "resolved", "worsened"
Introduced(base, head) ==
  {h \in head : \A b \in base : Fingerprint(b) # Fingerprint(h)}

Resolved(base, head) == Introduced(head, base)

Worsened(base, head) ==
  {h \in head : \E b \in base : Fingerprint(b) = Fingerprint(h) /\ h.severity > b.severity}
=============================================================================
