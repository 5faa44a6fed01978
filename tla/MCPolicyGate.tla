---------------------------- MODULE MCPolicyGate ----------------------------
(***************************************************************************)
(* One agent with a tool and an MCP server, and contracts with allowlists, *)
(* deny rules and MCP tools.  Lang is computed with Python's fnmatch from  *)
(* the characters of the strings.                                          *)
(***************************************************************************)
EXTENDS PolicyGate

\* fnmatch.fnmatch without character classes, from the ends of both strings.
Fnmatch(text, pattern) ==
  LET m[i \in 0..Len(text), j \in 0..Len(pattern)] ==
        IF j = 0 THEN i = 0
        ELSE IF pattern[j] = "*" THEN m[i, j - 1] \/ (i > 0 /\ m[i - 1, j])
        ELSE /\ i > 0
             /\ pattern[j] \in {text[i], "?"}
             /\ m[i - 1, j - 1]
  IN  m[Len(text), Len(pattern)]

Any == "*"
Read == "r"
Write == "wx"
Twice == "wxx"
Writes == "w*"
Wr == "w?"

Text == [s \in {Any, Read, Write, Twice, Writes, Wr} |->
           CASE s = Any -> <<"*">>  [] s = Read -> <<"r">>
             [] s = Write -> <<"w", "x">>  [] s = Twice -> <<"w", "x", "x">>
             [] s = Writes -> <<"w", "*">>  [] s = Wr -> <<"w", "?">>]

MCStrings == {Any, Read, Write, Writes}
GlobStrings == {Any, Read, Write, Twice, Writes, Wr}

LangOf(S) == [p \in S |-> {t \in S : Fnmatch(Text[t], Text[p])}]
MCLang == LangOf(MCStrings)
GlobLang == LangOf(GlobStrings)

None == [d \in Dimensions |-> {}]

\* A tool without evidence of its identity, and one with, and an MCP server.
ATool(caps, identified, approval) ==
  [kind |-> "tool", name |-> Read, observed |-> [None EXCEPT !["capabilities"] = caps],
   identified |-> identified, approval |-> approval,
   allowed |-> {}, denied |-> {}, dynamic |-> FALSE]

Reader == ATool({Read}, FALSE, "no")
Writer == ATool({Read, Write}, FALSE, "no")

AServer(allowed) ==
  [kind |-> "mcp_server", name |-> Read,
   observed |-> [None EXCEPT !["capabilities"] = {Read}],
   identified |-> FALSE, approval |-> "unset",
   allowed |-> allowed, denied |-> {}, dynamic |-> FALSE]

MCRelationships == {Reader, Writer, AServer({Read, Write}), AServer({})}

Allow(P) == [NoContract EXCEPT !.allow["capabilities"] = P]
Deny(P) == [NoContract EXCEPT !.deny["capabilities"] = P]
Approve(P) == [NoContract EXCEPT !.approvals = P]
McpTools(allowed, denied) ==
  [NoContract EXCEPT !.mcp = <<[server |-> Read, allowed |-> allowed, denied |-> denied]>>]

MCContracts ==
  {NoContract, Allow({Read, Writes}), Allow({Read}), Deny({Writes}),
   McpTools({Read}, {})}

TreesOf(contracts, authorities) ==
  {[a \in Agents |-> Gone]} \cup
  {[a \in Agents |-> [declared |-> TRUE, contract |-> c, authority |-> auth]] :
     c \in contracts, auth \in authorities}

MCTrees ==
  TreesOf(MCContracts, {{Writer, AServer({Read, Write})}}) \cup
  TreesOf({NoContract, Deny({Writes})}, {{Reader}})

GlobContracts == {NoContract, Allow({Wr}), Allow({Writes})}
GlobRelationships == {ATool({Twice}, FALSE, "yes")}
GlobTrees == TreesOf(GlobContracts, {GlobRelationships})

EvidenceContracts == {NoContract, [NoContract EXCEPT !.allow["iam_roles"] = {Read}]}
EvidenceRelationships == {Reader, ATool({Read}, TRUE, "no")}
EvidenceTrees == TreesOf(EvidenceContracts, {{r} : r \in EvidenceRelationships})
=============================================================================
