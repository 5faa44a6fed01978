---------------------------- MODULE FlowExecution -----------------------------
(***************************************************************************)
(* What the programs of FlowAnalysis do when they run: the reference for   *)
(* the analysis.  A value is the set of sources it depends on; a run also  *)
(* says which source reached which sink.  Branches are taken either way, a *)
(* loop is entered once or not at all, a try body raises before its first  *)
(* statement or not at all, and calls nest at most depth deep.  What an    *)
(* interrupted or repeated body leaves is not followed: a turn of a loop   *)
(* for the next, a try body for its final branch (Unfollowed).             *)
(***************************************************************************)
EXTENDS FlowAnalysis

RECURSIVE AssignedBy(_)

\* The variables that the statements assign.
AssignedBy(body) ==
  UNION {CASE st.op = "assign" -> {st.var}
           [] st.op = "if"     -> AssignedBy(st.body) \cup AssignedBy(st.orelse)
           [] st.op \in {"for", "with"} -> {st.var} \cup AssignedBy(st.body)
           [] st.op = "try"    -> AssignedBy(st.body) \cup AssignedBy(st.handler)
                                    \cup AssignedBy(st.final)
           [] OTHER -> {} : st \in Range(body)}

\* The environment without what those variables hold.
Unfollowed(env, vars) == [v \in Vars |-> IF v \in vars THEN {} ELSE env[v]]

\* t after its try's final branch, which ended in f: the branch runs whether the body
\* returned or not, and may itself return.
Finally(t, f, final) ==
  [f EXCEPT !.env = [v \in Vars |-> IF v \in AssignedBy(final) THEN f.env[v] ELSE t.env[v]],
            !.value = IF f.returned THEN @ ELSE t.value,
            !.returned = @ \/ t.returned]

RECURSIVE Evaluations(_, _, _, _, _), EvaluationsAll(_, _, _, _, _)
RECURSIVE Executions(_, _, _, _, _), Runs(_, _, _, _)

\* The values e may have, each with the sinks reached on the way.
Evaluations(program, key, env, depth, e) ==
  CASE e.op = "const"  -> {[value |-> {}, reached |-> {}]}
    [] e.op = "var"    -> {[value |-> env[e.var], reached |-> {}]}
    [] e.op = "source" -> {[value |-> {[kind |-> e.kind, site |-> e.site]}, reached |-> {}]}
    [] e.op = "join"   ->
         {[value |-> UNION Range(a.values), reached |-> a.reached] :
            a \in EvaluationsAll(program, key, env, depth, e.args)}
    [] e.op = "sink"   ->
         {[value |-> {}, reached |-> a.reached \cup ((UNION Range(a.values)) \X {e.site})] :
            a \in EvaluationsAll(program, key, env, depth, e.args)}
    [] e.op = "call"   ->
         LET callees == ResolveCallee(program, key, e.name)
             all == EvaluationsAll(program, key, env, depth, e.args)
         IN IF callees = {}
            THEN UNION {{[value |-> v, reached |-> a.reached] :
                           v \in {{}, UNION Range(a.values)}} : a \in all}
            ELSE LET k == CHOOSE c \in callees : TRUE
                 IN UNION {{[value |-> r.value, reached |-> a.reached \cup r.reached] :
                              r \in Runs(program, k, a.values, depth - 1)} : a \in all}

EvaluationsAll(program, key, env, depth, args) ==
  IF args = <<>> THEN {[values |-> <<>>, reached |-> {}]}
  ELSE {[values |-> <<p[1].value>> \o p[2].values, reached |-> p[1].reached \cup p[2].reached] :
          p \in Evaluations(program, key, env, depth, Head(args))
                  \X EvaluationsAll(program, key, env, depth, Tail(args))}

\* The states in which the statements may end, from the state s.
Executions(program, key, depth, s, body) ==
  IF body = <<>> \/ s.returned THEN {s}
  ELSE
    LET st == Head(body)
        evaluated == Evaluations(program, key, s.env, depth, st.expr)
        with(v, env) == [s EXCEPT !.env = env, !.reached = @ \cup v.reached]
        assigned(v) == with(v, Assigned(s.env, st.var, v.value))
        after(from, statements) == Executions(program, key, depth, from, statements)
        next ==
          CASE st.op = "assign" -> {assigned(v) : v \in evaluated}
            [] st.op = "expr"   -> {with(v, s.env) : v \in evaluated}
            [] st.op = "return" -> {[with(v, s.env) EXCEPT !.value = v.value,
                                                           !.returned = TRUE] : v \in evaluated}
            [] st.op = "if"     -> UNION {after(with(v, s.env), st.body)
                                            \cup after(with(v, s.env), st.orelse) : v \in evaluated}
            [] st.op = "for"    -> UNION {{with(v, s.env)} \cup after(assigned(v), st.body) :
                                            v \in evaluated}
            [] st.op = "with"   -> UNION {after(assigned(v), st.body) : v \in evaluated}
            [] st.op = "try"    ->
                 LET tried == AssignedBy(st.body) \cup AssignedBy(st.handler)
                     from(t) == [t EXCEPT !.env = Unfollowed(@, tried), !.returned = FALSE]
                 IN UNION {{Finally(t, f, st.final) : f \in after(from(t), st.final)} :
                             t \in after(s, st.body) \cup after(s, st.handler)}
    IN UNION {Executions(program, key, depth, n, Tail(body)) : n \in next}

\* The runs of a function on the given arguments.
Runs(program, key, args, depth) ==
  IF depth = 0 THEN {}
  ELSE {[value |-> s.value, reached |-> s.reached] :
          s \in Executions(program, key, depth,
                  [env |-> [v \in Vars |->
                              IF v \in Range(program[key].params)
                              THEN LET k == CHOOSE j \in DOMAIN program[key].params :
                                              program[key].params[j] = v
                                   IN IF k <= Len(args) THEN args[k] ELSE {}
                              ELSE {}],
                   value |-> {}, returned |-> FALSE, reached |-> {}],
                  program[key].body)}

\* The source that an agent is at the parameters of its tool.
ToolInput(key, p) == [kind |-> "agent_tool_input", site |-> key \o p]

\* What reaches what when the function is called from outside: by an agent, if it is a
\* tool of one.
Reached(program, key, depth) ==
  LET params == program[key].params
      args == [k \in DOMAIN params |-> {ToolInput(key, params[k])} ]
  IN UNION {r.reached : r \in Runs(program, key, args, depth)}
=============================================================================
