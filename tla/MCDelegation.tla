---------------------------- MODULE MCDelegation ----------------------------
(***************************************************************************)
(* Three agents a, b and c_agent with every shape of delegation between    *)
(* them, cycles included, and references of every kind: by name, without   *)
(* or with the "_agent" suffix, by module alias, to itself, twice to one   *)
(* agent, to nothing.  b and c_agent have an approved or an unapproved     *)
(* privileged tool; c_agent may have an outgoing one or none instead.      *)
(***************************************************************************)
EXTENDS Delegation

MCRefs == {"a", "b", "c_agent", "b_agent", "c", "mod", "file", "ghost", "ghost_agent"}

MCBase == [r \in MCRefs |-> CASE r = "b_agent" -> "b"
                              [] r = "c_agent" -> "c"
                              [] r = "ghost_agent" -> "ghost"
                              [] OTHER -> r]

\* No agent answers to a_agent, mod_agent and the like: ghost_agent stands for them.
MCSuffixed == [r \in MCRefs |-> CASE r = "b" -> "b_agent"
                                  [] r = "c" -> "c_agent"
                                  [] OTHER -> "ghost_agent"]

MCCaps == {"agent.delegate", "data.write", "external.write", "data.read"}
MCPrivileged == {"data.write", "external.write"}
MCOutgoing == {"external.write"}
MCSelectors == {"s"}

ATool(cap, approval, managed) ==
  [caps |-> {cap}, scopes |-> {[selector |-> "s", via |-> "direct"]},
   approval |-> approval, managed |-> managed, guarded |-> FALSE]

WriteApproved == {ATool("data.write", "yes", FALSE)}
WriteUnapproved == {ATool("data.write", "unset", FALSE)}
SendApproved == {ATool("external.write", "yes", TRUE)}

AnAgent(name, aliases, delegates, tools) ==
  [name |-> name, aliases |-> aliases, delegates |-> delegates,
   own |-> IF name = "c_agent" THEN {"data.read"} ELSE {},
   scopes |-> {}, tools |-> tools, guarded |-> name = "b"]

UniqueGraphs ==
  {<<AnAgent("a", {"file"}, da, {}), AnAgent("b", {"file"}, db, tb),
     AnAgent("c_agent", {"mod"}, dc, tc)>> :
     da \in {<<>>, <<"b">>, <<"b", "c">>, <<"b_agent", "b">>, <<"mod", "ghost">>,
             <<"a", "c">>},
     db \in {<<>>, <<"a">>, <<"c">>, <<"c", "a">>, <<"file">>},
     dc \in {<<>>, <<"a">>, <<"b">>, <<"mod", "a">>},
     tb \in {WriteApproved, WriteUnapproved},
     tc \in {WriteApproved, WriteUnapproved, SendApproved, {}}}

\* Two agents named a, from different files, both kept by _consolidate_agents.
SharedNameGraphs ==
  {<<AnAgent("a", {}, d1, {}), AnAgent("a", {}, d2, {}),
     AnAgent("b", {}, db, WriteApproved)>> :
     d1 \in {<<>>, <<"b">>, <<"mod">>}, d2 \in {<<>>, <<"b">>}, db \in {<<>>, <<"a">>}}

MCGraphs == UniqueGraphs \cup SharedNameGraphs
=============================================================================
