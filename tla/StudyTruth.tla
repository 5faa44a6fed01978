------------------------------ MODULE StudyTruth ------------------------------
(***************************************************************************)
(* The reference truth of the study: what                                  *)
(* scripts/real_world_agent_security_truth.py reads off the source of a    *)
(* pinned application, without running the scanner.                        *)
(*                                                                         *)
(* An application is                                                       *)
(*   [found, files, identities, roles]                                     *)
(* the selected path exists or not, the source files of its directory in   *)
(* the order of their paths, and what deployment files declare: pairs of   *)
(* an identity or a role and the file.  A source file is                   *)
(*   [path, lang, readable, size, parses, dynamic, decls, ghosts]          *)
(* with the declarations an adapter could find, and ghosts: text that only *)
(* looks like an agent's construction.  A declaration is                   *)
(*   [kind, var, name, owner, tools, subs, line].                          *)
(* A name is <<letters, spelling>>: two names with the same letters are    *)
(* the same once punctuation and case are removed (norm in the scripts).   *)
(* A "server" is constructed under a name that both passes know, a "tree   *)
(* server" (MCPServerStdio) under one that MCP_RE does not match, as that   *)
(* asks for a letter before MCP, and a "text server" (AnMcpHttpServer)      *)
(* under one that only MCP_RE matches.                                     *)
(***************************************************************************)
EXTENDS StudyProtocol

CONSTANTS
  MaxFiles,     \* MAX_FILES: files read of an application
  MaxBytes      \* MAX_BYTES: their size together

ASSUME LimitsAssumption == MaxFiles \in Nat /\ MaxBytes \in Nat

NoName == <<0, 0>>
Norm(name) == name[1]

Dims == {"agent_entities", "tools", "mcp_servers", "delegation_edges"}

-----------------------------------------------------------------------------
(* collect_sources *)

Upto(files, i) == Sum([j \in 1..i |-> IF files[j].readable THEN files[j].size ELSE 0])

\* Files are read up to the first one that would exceed the size.
InScope(files) == {i \in DOMAIN files : i <= MaxFiles /\ Upto(files, i) <= MaxBytes}
Sources(files) == {i \in InScope(files) : files[i].readable}

\* Wrong: that files are left over is not noted.
ScopeDiagnosticsNoFileLimit(files) ==
       {d \in {"byte_limit"} : \E i \in DOMAIN files : i <= MaxFiles /\ Upto(files, i) > MaxBytes}
  \cup {d \in {"read_failed"} : InScope(files) # Sources(files)}
  \cup {d \in {"no_source"} : Sources(files) = {}}

ScopeDiagnostics(files) ==
       {d \in {"file_limit"} : Len(files) > MaxFiles}
  \cup {d \in {"byte_limit"} : \E i \in DOMAIN files : i <= MaxFiles /\ Upto(files, i) > MaxBytes}
  \cup {d \in {"read_failed"} : InScope(files) # Sources(files)}
  \cup {d \in {"no_source"} : Sources(files) = {}}

-----------------------------------------------------------------------------
(* extract_python: the facts of the syntax tree of file i *)

Fact(i, f, name, var, owner, line) ==
  [name |-> name, var |-> var, owner |-> owner, file |-> i, path |-> f.path, line |-> line]

Of(f, kinds) == {k \in DOMAIN f.decls : f.decls[k].kind \in kinds}

AgentKinds == {"agent", "decorated agent"}

TreeAgents(i, f) ==
       {Fact(i, f, f.decls[k].name, f.decls[k].var, NoName, f.decls[k].line) : k \in Of(f, AgentKinds)}
  \cup {Fact(i, f, f.decls[k].name, f.decls[k].name, NoName, f.decls[k].line) : k \in Of(f, {"node"})}

TreeTools(i, f) ==
       {Fact(i, f, f.decls[k].name, NoName, f.decls[k].owner, f.decls[k].line) : k \in Of(f, {"tool"})}
  \cup UNION {{Fact(i, f, t, NoName, f.decls[k].var, f.decls[k].line) : t \in ToSet(f.decls[k].tools)} :
              k \in Of(f, {"agent"})}

TreeServerKinds == {"server", "tree server"}

TreeServers(i, f) ==
  {Fact(i, f, f.decls[k].name, f.decls[k].var, NoName, f.decls[k].line) : k \in Of(f, TreeServerKinds)}

\* The name of an agent's variable.
NameOf(f, v) ==
  LET ks == {k \in Of(f, AgentKinds) : f.decls[k].var = v} IN
  IF ks = {} THEN v ELSE f.decls[Max(ks)].name

\* Whom declaration k delegates to: its sub-agents and, among its tools, the agents that were
\* declared further up; <<"sub", n>> and <<"tool", n>> are the places of an entry.
Targets(f, k) ==
  LET above == {f.decls[j].var : j \in {j \in Of(f, AgentKinds) : j <= k}}
      d == f.decls[k]
  IN [e \in ({"sub"} \X DOMAIN d.subs)
               \cup ({"tool"} \X {n \in DOMAIN d.tools : d.tools[n] \in above}) |->
        IF e[1] = "sub" THEN d.subs[e[2]] ELSE d.tools[e[2]]]

\* The delegations of the files with a syntax tree, by <<file, declaration, entry>>.
Edges(files, parsed) ==
  LET parents == UNION {{i} \X Of(files[i], {"agent"}) : i \in parsed}
      places == UNION {{<<p[1], p[2], e>> : e \in DOMAIN Targets(files[p[1]], p[2])} : p \in parents}
  IN [p \in places |->
        LET f == files[p[1]] IN
        <<NameOf(f, f.decls[p[2]].var), NameOf(f, Targets(f, p[2])[p[3]])>>]

-----------------------------------------------------------------------------
(* lexical_extract: what patterns find in the text of the file *)

TextAgents(i, f) ==
       {Fact(i, f, f.decls[k].var, f.decls[k].var, NoName, f.decls[k].line) : k \in Of(f, {"agent"})}
  \cup {Fact(i, f, g.name, g.name, NoName, g.line) : g \in ToSet(f.ghosts)}

TextServerKinds == {"server", "text server"}

TextServers(i, f) ==
  {Fact(i, f, f.decls[k].var, f.decls[k].var, NoName, f.decls[k].line) : k \in Of(f, TextServerKinds)}

\* Tools are looked for in the text of .py files only, and not in that of notebooks.
TextTools(i, f) ==
  {Fact(i, f, f.decls[k].name, NoName, NoName, f.decls[k].line) :
     k \in {k \in Of(f, {"tool"}) : f.lang = "py"}}

\* facts_match: one of the names, in the same file, at most four lines apart.  Two facts
\* without a variable have the empty name in common.
Near(a, b, distance) == a - b \in -distance..distance
FactsMatch(a, b) ==
  /\ {a.name, a.var} \cap {b.name, b.var} # {}
  /\ a.path = b.path
  /\ Near(a.line, b.line, 4)

Unmatched(text, tree) == {t \in text : \A a \in tree : ~FactsMatch(t, a)}

Rank(a) == <<a.file, a.line, a.name[1], a.name[2], a.owner[1], a.owner[2]>>
Earlier(a, b) ==
  \E n \in 1..6 : Rank(a)[n] < Rank(b)[n] /\ \A m \in 1..(n - 1) : Rank(a)[m] = Rank(b)[m]

\* The elements of a set in the order that a set of pairs says.
Ordered(set, before) ==
  [n \in 1..Cardinality(set) |->
     CHOOSE x \in set : Cardinality({y \in set : <<y, x>> \in before}) = n - 1]

\* dedupe_facts: in the order of the source, one fact per name, place and owner.
Deduped(facts) ==
  LET Key(x) == <<x.name, x.path, x.line, x.owner>>
      keys == {Key(x) : x \in facts}
      first == {(CHOOSE x \in facts : Key(x) = k) : k \in keys}
  IN Ordered(first, {p \in first \X first : Earlier(p[1], p[2])})

\* What the lexical pass found beyond the syntax trees is added to their facts.
Together(tree, text) == Deduped(tree \cup Unmatched(text, tree))

\* build_reference: the two passes together, and for which dimensions they are complete.
\* The files that were read, and those among them that have a syntax tree, are given.
ReferenceFrom(files, read, parsed, diagnostics) ==
  LET Tree(Facts(_, _)) == UNION {Facts(i, files[i]) : i \in parsed}
      Text(Facts(_, _)) == UNION {Facts(i, files[i]) : i \in read}
      disagreement == Unmatched(Text(TextAgents), Tree(TreeAgents)) # {}
      dynamic == \E i \in read : files[i].dynamic
      complete == read # {} /\ read = parsed /\ ~dynamic /\ ~disagreement
  IN [agents |-> Together(Tree(TreeAgents), Text(TextAgents)),
      tools |-> Together(Tree(TreeTools), Text(TextTools)),
      servers |-> Together(Tree(TreeServers), Text(TextServers)),
      edges |-> Edges(files, parsed),
      dynamic |-> dynamic,
      complete |-> [d \in Dims |->
                      complete /\ (d = "tools" => diagnostics \cap {"file_limit", "byte_limit"} = {})]]

\* Files of Python and notebooks have a syntax tree, if they parse.
TreeLangs == {"py", "ipynb"}

Reference(files, diagnostics) ==
  LET read == Sources(files) IN
  ReferenceFrom(files, read, {i \in read : files[i].lang \in TreeLangs /\ files[i].parses}, diagnostics)

-----------------------------------------------------------------------------
(* build_truth *)

\* The tools that are bound to an agent of the reference; of several agents that go by the
\* owner's name the last counts.
Relations(ref) ==
  LET Owners(t) == {i \in DOMAIN ref.agents : t.owner \in {ref.agents[i].var, ref.agents[i].name}}
      bound == {i \in DOMAIN ref.tools : ref.tools[i].owner # NoName /\ Owners(ref.tools[i]) # {}}
  IN [i \in bound |-> <<ref.agents[Max(Owners(ref.tools[i]))].name, "tool", ref.tools[i].name>>]

Assertions(tier, n) == [i \in 1..n |-> [id |-> <<tier, i>>, evidence |-> {tier}, expected |-> "present"]]

\* The tiers of a case: its relations to agents if it is in B, what is deployed if it is in C.
WithTiers(case, ref, diagnostics, deployed, inB, inC) ==
  [header |-> TRUE, id |-> case.id, repo |-> case.repo, reviewed |-> TRUE, outputSeen |-> FALSE,
   reviewers |-> <<"structural pass", "lexical pass">>,
   reference |-> ref,
   unresolved |-> diagnostics,
   assertions |-> Assertions("A", Len(ref.agents) + Len(ref.tools) + Len(ref.servers)
                                   + Cardinality(DOMAIN ref.edges))
                  \o (IF inB THEN Assertions("B", Cardinality(DOMAIN Relations(ref))) ELSE <<>>)
                  \o (IF inC THEN Assertions("C", Cardinality(deployed.identities) + Cardinality(deployed.roles))
                      ELSE <<>>),
   tierB |-> IF inB THEN Relations(ref) ELSE None,
   tierC |-> IF inC THEN deployed ELSE None]

\* The reference of one case.  When the application could not be fetched it is empty,
\* complete for no dimension, and reviewed like every other.
BuildTruth(case, app, error, inB, inC) ==
  LET diagnostics == IF error # "none" THEN {error} ELSE ScopeDiagnostics(app.files)
      fetched == error \in {"none", "application_path_missing"}
  IN WithTiers(case, Reference(IF error # "none" THEN <<>> ELSE app.files, diagnostics),
               diagnostics,
               [identities |-> IF fetched THEN app.identities ELSE {},
                roles |-> IF fetched THEN app.roles ELSE {}],
               inB, inC)
===============================================================================
