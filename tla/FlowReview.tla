------------------------------ MODULE FlowReview -------------------------------
(***************************************************************************)
(* The review of a pull request whose functions are summarised as flow.py  *)
(* does it (Summarize is FlowAnalysis' Run), and what it finds compared    *)
(* with what the programs do when they run.                                *)
(***************************************************************************)
EXTENDS MainBranch, FlowExecution

\* A tool's function, when an agent calls it or when the repository does, and every other
\* function: a source that reaches a sink in an execution of FlowExecution with no more
\* nested calls than rounds of summaries is a flow, of the agent if one agent alone has the
\* tool, unless the list of flows is full; and what passes a function that several agents
\* have is not called unreachable for agents.  Of what passes through a variable that a
\* try body leaves for its final branch, or a loop's turn for the next, nothing is said:
\* flow.py starts those branches from the environment before the body, and loses it.
FlowsFound ==
  Decided => \A s \in Sides :
    LET r == Tree(s)  tools == ToolsOf(r) IN
    /\ Cardinality(flows[s]) < MAX_FLOW_PATHS =>
         \A key \in DOMAIN r.program :
           LET agents == ToolAgents(r.program, tools, key)
               inputs == IF Cardinality(agents) # 1 THEN {}
                         ELSE {ToolInput(key, p) :
                                 p \in Range(r.program[key].params) \ ContextParams}
               outside == {ToolInput(key, p) : p \in Range(r.program[key].params)}
           IN \A x \in Reached(r.program, key, MAX_FLOW_SUMMARY_ITERATIONS) :
                x[1] \in outside \ inputs
                \/ \E f \in flows[s] : /\ f.source = x[1] /\ f.site = x[2]
                                       /\ Head(f.chain) = key
                                       /\ Cardinality(agents) = 1 => f.agents = agents
    /\ \A f \in flows[s] : f.reachability = "proven_non_agent" =>
         \A k \in DOMAIN f.chain : ToolAgents(r.program, tools, f.chain[k]) = {}
================================================================================
