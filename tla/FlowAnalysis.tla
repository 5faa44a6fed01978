----------------------------- MODULE FlowAnalysis -----------------------------
(***************************************************************************)
(* How one function is summarised (flow.py), given the summaries of those  *)
(* it calls.  Of the language there are the statements that the analysis   *)
(* tells apart and, for its expressions, constants, variables, joins,      *)
(* sources, sinks and calls.                                               *)
(***************************************************************************)
EXTENDS FlowAttribution

CONSTANT Vars  \* variables and parameters

ASSUME VarsAssumption == ContextParams \subseteq Vars

-----------------------------------------------------------------------------
(* Values.                                                                 *)

\* _Value.combine
Combine(values) == Value(UNION {v.params : v \in values}, UNION {v.sources : v \in values},
                         \E v \in values : v.unresolved)

\* Wrong: what a parameter of the callee was given is forgotten.
InstantiateSources(value, parameters) == Value({}, value.sources, value.unresolved)

\* _instantiate
Instantiate(value, parameters) ==
  Combine({Value({}, value.sources, value.unresolved)}
            \cup {parameters[p] : p \in value.params \cap DOMAIN parameters})

\* _merge_env
MergeEnv(branches) == [v \in Vars |-> Combine({b[v] : b \in branches})]

Assigned(env, v, value) == [w \in Vars |-> IF w = v THEN value ELSE env[w]]

-----------------------------------------------------------------------------
(* Names.                                                                  *)

\* _simple_name_index, _resolve_callee: imported, else local, else the only function
\* of that name.  The keys a call resolves to: one, or none.
ResolveCallee(program, key, called) ==
  LET imported == {i.key : i \in {j \in program[key].imports : j.alias = called}}
                    \cap DOMAIN program
      local  == {Append(Front(key), called)} \cap DOMAIN program
      simple == {k \in DOMAIN program : Last(k) = called}
  IN IF imported # {} THEN imported
     ELSE IF local # {} THEN local
     ELSE IF Cardinality(simple) = 1 THEN simple ELSE {}

\* The arguments of a call by the names of the callee's parameters.
Parameters(params, values) ==
  [p \in Range(params) |->
     LET k == CHOOSE j \in DOMAIN params : params[j] = p
     IN IF k <= Len(values) THEN values[k] ELSE Clean]

-----------------------------------------------------------------------------
(* One function, given the summaries of the others: _FunctionAnalyzer.     *)
(* The sinks are kept in the order in which they are met.                  *)

RECURSIVE Expr(_, _, _, _, _), ExprAll(_, _, _, _, _)

\* _expr: the value of e and the sinks met.
Expr(program, summaries, key, env, e) ==
  CASE e.op = "const" -> [value |-> Clean, sinks |-> <<>>]
    [] e.op = "var"   -> [value |-> env[e.var], sinks |-> <<>>]
    [] e.op = "source" ->
         [value |-> Value({}, {[kind |-> e.kind, site |-> e.site]}, FALSE), sinks |-> <<>>]
    [] e.op = "join" ->
         LET all == ExprAll(program, summaries, key, env, e.args)
         IN [value |-> Combine(Range(all.values)), sinks |-> all.sinks]
    [] e.op = "sink" ->
         LET all == ExprAll(program, summaries, key, env, e.args)
         IN [value |-> Clean,
             sinks |-> Append(all.sinks,
                         [kind |-> e.kind, site |-> e.site,
                          value |-> Combine(Range(all.values)), chain |-> <<key>>])]
    [] e.op = "call" ->
         LET all == ExprAll(program, summaries, key, env, e.args)
             callees == ResolveCallee(program, key, e.name)
             combined == Combine(Range(all.values))
         IN IF callees = {}
            THEN [value |-> [combined EXCEPT !.unresolved = combined # Clean],
                  sinks |-> all.sinks]
            ELSE LET k == CHOOSE c \in callees : TRUE
                     given == Parameters(program[k].params, all.values)
                     inner == [j \in DOMAIN summaries[k].sinks |->
                                 [summaries[k].sinks[j] EXCEPT
                                    !.value = Instantiate(@, given), !.chain = <<key>> \o @]]
                 IN [value |-> Instantiate(summaries[k].returns, given),
                     sinks |-> all.sinks \o inner]

ExprAll(program, summaries, key, env, args) ==
  IF args = <<>> THEN [values |-> <<>>, sinks |-> <<>>]
  ELSE LET first == Expr(program, summaries, key, env, Head(args))
           rest  == ExprAll(program, summaries, key, env, Tail(args))
       IN [values |-> <<first.value>> \o rest.values, sinks |-> first.sinks \o rest.sinks]

RECURSIVE Statements(_, _, _, _, _)

\* Wrong: of an if, the environment of the last branch is kept.
LastBranch(branches) == branches[Len(branches)].env

\* What follows the branches of a statement: their environments are merged.
Join(branches) == MergeEnv({b.env : b \in Range(branches)})

\* Branch k continues a copy of the environment and the common lists of sinks and
\* return values.
Branches(program, summaries, key, s, envs, bodies) ==
  [k \in DOMAIN bodies |->
     Statements(program, summaries, key, [env |-> envs[k], sinks |-> <<>>, returns |-> {}],
                bodies[k])]

\* s after its branches: the variables merge the environments of the branches and of
\* those listed in also.
After(s, branches, also) ==
  [env |-> Join(branches \o also),
   sinks |-> s.sinks \o FlattenSeq([k \in DOMAIN branches |-> branches[k].sinks]),
   returns |-> s.returns \cup UNION {b.returns : b \in Range(branches)}]

\* _statements: the environment, the sinks met and the values returned so far.
Statements(program, summaries, key, s, body) ==
  IF body = <<>> THEN s
  ELSE
    LET st   == Head(body)
        eval == Expr(program, summaries, key, s.env, st.expr)
        met  == [s EXCEPT !.sinks = @ \o eval.sinks]
        bound == Assigned(s.env, st.var, eval.value)
        next ==
          CASE st.op = "assign" -> [met EXCEPT !.env = bound]
            [] st.op = "expr"   -> met
            [] st.op = "return" -> [met EXCEPT !.returns = @ \cup {eval.value}]
            [] st.op = "if" ->
                 After(met, Branches(program, summaries, key, s, <<s.env, s.env>>,
                                     <<st.body, st.orelse>>), <<>>)
            [] st.op \in {"for", "with"} ->
                 After(met, Branches(program, summaries, key, s, <<bound>>, <<st.body>>), <<s>>)
            [] st.op = "try" ->
                 After(s, Branches(program, summaries, key, s, <<s.env, s.env, s.env>>,
                                   <<st.body, st.handler, st.final>>), <<>>)
    IN Statements(program, summaries, key, next, Tail(body))

\* What makes two sinks of a function one: not whether a call was unresolved.
SinkKey(s) == [kind |-> s.kind, site |-> s.site, params |-> s.value.params,
               sources |-> s.value.sources, chain |-> s.chain]

\* Of sinks with one key the last is kept, in the place of the first.
Kept(sinks, t) ==
  LET same == {j \in DOMAIN sinks : SinkKey(sinks[j]) = SinkKey(t)}
  IN IF same = {} THEN Append(sinks, t) ELSE [sinks EXCEPT ![CHOOSE j \in same : TRUE] = t]

\* _FunctionAnalyzer.run
Run(program, summaries, key) ==
  LET start == [v \in Vars |-> Value({v} \cap Range(program[key].params), {}, FALSE)]
      s == Statements(program, summaries, key,
                      [env |-> start, sinks |-> <<>>, returns |-> {}], program[key].body)
  IN [returns |-> Combine(s.returns), sinks |-> FoldLeft(Kept, <<>>, s.sinks)]
=============================================================================
