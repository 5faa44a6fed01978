--------------------------- MODULE FlowAttribution ----------------------------
(***************************************************************************)
(* What the data flow of a repository comes to (flow.py): the summaries of *)
(* its functions, computed in rounds from those of the functions they      *)
(* call, and the flows from sources to sinks that the summaries show, each *)
(* bound to the agent whose tool it passes (source_provenance.py).         *)
(*                                                                         *)
(* A function is keyed by its module's path and its name; a program maps   *)
(* keys to functions [params, imports, body].  How a body is summarised is *)
(* FlowAnalysis' matter: nothing here depends on it.                       *)
(***************************************************************************)
EXTENDS Integers, Sequences, FiniteSets, SequencesExt

CONSTANTS
  ContextParams,               \* _AGENT_TOOL_CONTEXT_PARAMS
  MAX_FLOW_SUMMARY_ITERATIONS,
  MAX_FLOW_PATHS,
  Summarize(_, _, _)           \* _FunctionAnalyzer.run: program, summaries, key

ASSUME FlowAssumption == /\ MAX_FLOW_SUMMARY_ITERATIONS \in Nat \ {0}
                         /\ MAX_FLOW_PATHS \in Nat \ {0}

-----------------------------------------------------------------------------
(* Values.  A source is [kind, site]; unresolved says that a call of       *)
(* unknown semantics was crossed.                                          *)

Value(params, sources, unresolved) ==
  [params |-> params, sources |-> sources, unresolved |-> unresolved]

Clean == Value({}, {}, FALSE)

NoSummary == [returns |-> Clean, sinks |-> <<>>]

\* One round of _build_summaries: all from the summaries of the round before.
SummaryRound(program, summaries) ==
  [key \in DOMAIN program |-> Summarize(program, summaries, key)]

-----------------------------------------------------------------------------
(* Agents.  A tool is [agent, name, path, import]: the module in which it  *)
(* was found and the one it was imported from (<<>> if it was not).        *)

\* _tool_ref: the keys of the function that implements the tool: one, or none.
ToolRef(program, tool) ==
  LET local    == {Append(tool.path, tool.name)} \cap DOMAIN program
      imported == {k \in DOMAIN program : IsSuffix(Append(tool.import, tool.name), k)}
  IN IF local # {} THEN local
     ELSE IF tool.import # <<>> /\ Cardinality(imported) = 1 THEN imported ELSE {}

\* The agents that have the function as a tool: annotate_tool_source_provenance.
ToolAgents(program, tools, key) ==
  {t.agent : t \in {u \in tools : key \in ToolRef(program, u)}}

\* _agent_for_chain: the first function of the chain that is a tool decides.
AgentForChain(program, tools, chain) ==
  LET bound == {k \in DOMAIN chain : ToolAgents(program, tools, chain[k]) # {}}
  IN IF bound = {} THEN [agents |-> {}, basis |-> "none", function |-> <<>>]
     ELSE LET first  == CHOOSE k \in bound : \A j \in bound : k <= j
              agents == ToolAgents(program, tools, chain[first])
          IN IF Cardinality(agents) = 1
             THEN [agents |-> agents, basis |-> "source_function_key",
                   function |-> chain[first]]
             ELSE [agents |-> {}, basis |-> "ambiguous_source_function_key",
                   function |-> chain[first]]

\* _agent_tool_parameter_sources
ParameterSources(binding, key, params) ==
  IF binding.basis = "source_function_key" /\ binding.function = key
  THEN {[kind |-> "agent_tool_input", site |-> key \o p] : p \in params \ ContextParams}
  ELSE {}

\* The flows of one sink in the summary of the function key.
FlowsOfSink(program, tools, key, s) ==
  LET binding == AgentForChain(program, tools, s.chain)
  IN {[source |-> src, sink |-> s.kind, site |-> s.site, chain |-> s.chain,
       agents |-> binding.agents, binding |-> binding.basis, reachability |-> "unknown",
       basis |-> IF s.value.unresolved THEN "static_dataflow_partial" ELSE "static_dataflow"] :
        src \in s.value.sources \cup ParameterSources(binding, key, s.value.params)}

\* analyze_repository_flows, before MAX_FLOW_PATHS
RepositoryFlows(program, tools, summaries) ==
  UNION {UNION {FlowsOfSink(program, tools, k, s) : s \in Range(summaries[k].sinks)} :
           k \in DOMAIN program}

\* _classify_flow_execution_context, _classify_flow_agent_reachability: functions aside
\* are in tests or examples, or are what a main guard or a project script calls.
Reachability(flow, aside) ==
  IF flow.agents # {} THEN "proven_agent_reachable"
  ELSE IF flow.binding = "none" /\ Range(flow.chain) \cap aside # {} THEN "proven_non_agent"
  ELSE "unknown"
=============================================================================
