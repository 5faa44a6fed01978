------------------------------- MODULE MCIntake -------------------------------
(***************************************************************************)
(* A root with a link, a directory with a file and a link of its own, and  *)
(* two more files, one before and one after the directory.                 *)
(***************************************************************************)
EXTENDS Intake

MCPaths == 1..6

Nothing == [parent |-> Root, kind |-> "none", name |-> "other", fragment |-> FALSE,
            ignored |-> FALSE, content |-> "plain", targets |-> {}]

File(parent, name, content) ==
  [Nothing EXCEPT !.parent = parent, !.kind = "file", !.name = name, !.content = content]

Fragment(parent, content) == [File(parent, "python", content) EXCEPT !.fragment = TRUE]

Directory(content, ignored) ==
  [Nothing EXCEPT !.kind = "directory", !.content = content, !.ignored = ignored]

Link(parent, name, targets) ==
  [Nothing EXCEPT !.parent = parent, !.kind = "link", !.name = name, !.targets = targets]

Directories == {Directory("plain", FALSE), Directory("unreadable", FALSE),
                Directory("plain", TRUE), Nothing}

InnerFiles == {File(2, "python", "agents"), File(2, "python", "broken"),
             Fragment(2, "broken"), File(2, "python", "templated"),
             [File(2, "python", "agents") EXCEPT !.ignored = TRUE], Nothing}

Files5 == {File(Root, "python", c) : c \in {"agents", "opaque", "oversized"}} \cup
          {File(Root, "terraform", "plain"), File(Root, "pyproject", "plain"),
           File(Root, "other", "plain"), Nothing}

Configs == {File(Root, "manifest", c) : c \in {"plain", "invalid", "oversized"}} \cup
           {File(Root, "mcp", "broken"), File(Root, "suppressions", "plain"), Nothing}

\* Links before and after what they lead to.
Aliases == {Link(Root, "python", {5, Nowhere}), Link(Root, "python", {5, Outside}),
            Link(Root, "python", {2}),
            Link(Root, "python", {3, 5}), Nothing}

InnerLinks == {Link(2, "other", {2}), Nothing}

Layouts(aliases) ==
  {<<l1, d, f3, l4, f5, f6>> : l1 \in aliases, d \in Directories, f3 \in InnerFiles,
                               l4 \in InnerLinks, f5 \in Files5, f6 \in Configs}

Sensible(r) ==
  /\ \A p \in MCPaths : r[p].parent # Root => r[2].kind = "directory"
  /\ \A p \in MCPaths : \A t \in r[p].targets :
       t \in MCPaths => r[t].kind \in {"directory", "file"}

MCRepositories == {r \in Layouts(Aliases) : Sensible(r)}

\* A link that sorts before the manifest and has another type of name.
MixedRepositories ==
  {r \in Layouts({Link(Root, "yaml", {6})}) :
     /\ Sensible(r)
     /\ r[5] = File(Root, "python", "agents") /\ r[2] = Nothing}
=============================================================================
