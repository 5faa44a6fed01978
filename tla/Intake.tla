-------------------------------- MODULE Intake --------------------------------
(***************************************************************************)
(* Which files of a repository a scan analyses and what it says of those   *)
(* it does not (scanner.py): the walk that collects candidates, the loop   *)
(* that reads, checks and hands each of them to an adapter, the coverage   *)
(* counters and diagnostics, and the limits that end a scan.               *)
(*                                                                         *)
(* Somebody may redirect symbolic links until the walk is over; the files  *)
(* themselves stay as they are, and so do the links once they are read.    *)
(***************************************************************************)
EXTENDS Integers, FiniteSets

CONSTANTS
  Paths,           \* the paths below the root, numbered in the order of their names
  Repositories,    \* what is there
  MaxEntries,      \* MAX_REPOSITORY_ENTRIES_VISITED
  MaxCandidates,   \* MAX_FILES_VISITED
  MaxDiagnostics   \* MAX_DIAGNOSTICS

VARIABLES
  repo,         \* what this scan is about
  target,       \* where each symbolic link leads now
  phase,        \* what scan() is doing
  stack,        \* directories still to be listed
  entries,      \* entries of a listed directory still to be looked at
  visited,      \* number of entries looked at
  listed,       \* directories listed, or tried to
  candidates,   \* files the walk collected
  todo,         \* candidates still to be read
  seen,         \* real paths taken care of
  analysed,     \* what adapters were given: [path, file]
  counts,       \* the coverage counters
  diagnostics   \* [kind, path, incomplete]

vars == <<repo, target, phase, stack, entries, visited, listed, candidates, todo,
          seen, analysed, counts, diagnostics>>

walking == <<stack, entries, visited, listed, candidates>>
reading == <<todo, seen, analysed>>

-----------------------------------------------------------------------------
(* Repositories.                                                           *)

Root == 0
Outside == -1   \* where a link may lead: out of the root,
Nowhere == -2   \* to nothing or in a circle

Candidates == {"python", "notebook", "terraform", "yaml", "env", "manifest", "mcp",
               "suppressions", "fast_agent"}
SecurityConfig == {"manifest", "mcp", "suppressions", "fast_agent"}

\* templated, broken: cannot be parsed; invalid: parsed but refused;
\* opaque: uses a framework, but no agent can be made of it.
Contents == {"agents", "opaque", "plain", "templated", "broken", "invalid",
             "oversized", "unreadable"}

Entry == [parent : Paths \cup {Root}, kind : {"directory", "file", "link", "none"},
          name : Candidates \cup {"pyproject", "other"}, fragment : BOOLEAN,
          ignored : BOOLEAN, content : Contents,
          targets : SUBSET (Paths \cup {Outside, Nowhere})]

Links(r) == {p \in Paths : r[p].kind = "link"}

ASSUME RepositoriesAssumption ==
  /\ Paths \subseteq Nat \ {0} /\ IsFiniteSet(Paths)
  /\ Repositories \subseteq [Paths -> Entry]
  /\ \A r \in Repositories : \A p \in Paths :
       /\ r[p].parent \in {Root} \cup {d \in Paths : r[d].kind = "directory"}
       /\ \A t \in r[p].targets :
            t \in {Outside, Nowhere} \cup {q \in Paths : r[q].kind \in {"directory", "file"}}
       /\ p \in Links(r) <=> r[p].targets # {}

ASSUME LimitsAssumption ==
  MaxEntries \in Nat /\ MaxCandidates \in Nat /\ MaxDiagnostics \in Nat

\* Path.resolve
Real(p) == IF p \in Links(repo) THEN target[p] ELSE p

IsFile(p) == Real(p) \in Paths /\ repo[Real(p)].kind = "file"
IsDirectory(p) == Real(p) \in Paths /\ repo[Real(p)].kind = "directory"

Supported(p) == repo[p].name \in Candidates
Content(p) == IF IsFile(p) THEN repo[Real(p)].content ELSE "unreadable"

\* What cannot be parsed; Terraform and .env files are searched as text.
Parsed == Candidates \ {"terraform", "env"}

Templated(p) == repo[p].name = "python" /\ Content(p) = "templated"
Unparsable(p) ==
  \/ repo[p].name \in Parsed /\ Content(p) = "broken"
  \/ repo[p].name = "mcp" /\ Content(p) = "invalid"
Loads(p) == /\ Content(p) \notin {"oversized", "unreadable"}
            /\ ~Templated(p) /\ ~Unparsable(p)

-----------------------------------------------------------------------------
(* Coverage.                                                               *)

Diagnostic == [kind : {"unreadable_path", "outside", "templated_source", "source_fragment",
                       "limit", "parse_error", "framework_not_normalized", "no_targets"},
               path : Paths \cup {Root}, incomplete : BOOLEAN]

Told(kind, p, incomplete) == [kind |-> kind, path |-> p, incomplete |-> incomplete]

Counted(considered, scanned, skipped, failed) ==
  counts' = [considered |-> counts.considered + considered,
             scanned |-> counts.scanned + scanned,
             skipped |-> counts.skipped + skipped,
             failed |-> counts.failed + failed]

\* add_diagnostic, for all of D; the scan stops if there is no room.
Report(D, next) ==
  IF Cardinality(diagnostics \cup D) <= MaxDiagnostics
  THEN diagnostics' = diagnostics \cup D /\ phase' = next
  ELSE /\ \E F \in SUBSET D : /\ diagnostics' = diagnostics \cup F
                             /\ Cardinality(diagnostics') = MaxDiagnostics
       /\ phase' = "stopped"

Stop == phase' = "stopped" /\ UNCHANGED diagnostics

Incomplete == \E d \in diagnostics : d.incomplete

-----------------------------------------------------------------------------
(* The walk: the entries of a directory in the order of their names,       *)
(* directories in any order (the code's is depth first).                   *)

\* The root can be listed.
Unlistable(d) == d # Root /\ repo[d].content = "unreadable"

ListDirectory(d) ==
  /\ phase = "walk" /\ entries = {} /\ d \in stack
  /\ stack' = stack \ {d}
  /\ listed' = listed \cup {d}
  /\ \/ /\ Unlistable(d)
        /\ Counted(0, 0, 0, 1)
        /\ Report({Told("unreadable_path", d, TRUE)}, phase)
        /\ entries' = {}
     \/ /\ ~Unlistable(d)
        /\ entries' = {p \in Paths : repo[p].parent = d /\ repo[p].kind # "none"}
        /\ UNCHANGED <<counts, diagnostics, phase>>
  /\ UNCHANGED <<repo, target, visited, candidates, reading>>

Look(p) ==
  /\ phase = "walk" /\ p \in entries /\ \A q \in entries : p <= q
  /\ entries' = entries \ {p}
  /\ visited' = visited + 1
  /\ UNCHANGED <<repo, target, listed, reading>>

TooManyEntries(p) ==
  /\ Look(p) /\ visited >= MaxEntries
  /\ Stop
  /\ UNCHANGED <<stack, candidates, counts>>

\* resolve(strict=True) fails.
LookAtBrokenLink(p) ==
  /\ Look(p) /\ visited < MaxEntries
  /\ Real(p) = Nowhere
  /\ Counted(0, 0, 0, 1)
  /\ Report({Told("unreadable_path", p, TRUE)}, phase)
  /\ UNCHANGED <<stack, candidates>>

\* Wrong: links out of the root are followed.
LookOutsideFollowed(p) ==
  /\ Look(p) /\ visited < MaxEntries
  /\ Real(p) = Outside
  /\ stack' = stack \cup {Real(p)}
  /\ UNCHANGED <<candidates, counts, diagnostics, phase>>

LookOutside(p) ==
  /\ Look(p) /\ visited < MaxEntries
  /\ Real(p) = Outside
  /\ Counted(0, 0, 1, 0)
  /\ Report({Told("outside", p, FALSE)}, phase)
  /\ UNCHANGED <<stack, candidates>>

\* Links to directories are not followed.
LookAtDirectory(p) ==
  /\ Look(p) /\ visited < MaxEntries
  /\ IsDirectory(p)
  /\ IF p \in Links(repo) THEN Counted(0, 0, 1, 0) /\ stack' = stack
     ELSE /\ stack' = IF repo[p].ignored THEN stack ELSE stack \cup {p}
          /\ UNCHANGED counts
  /\ UNCHANGED <<candidates, diagnostics, phase>>

\* Wrong: when the budget is spent further candidates are left out.
AddCandidateWhileRoom(p) ==
  /\ Supported(p) \/ repo[p].name = "pyproject"
  /\ candidates' = IF Cardinality(candidates) >= MaxCandidates THEN candidates
                   ELSE candidates \cup {p}
  /\ UNCHANGED <<counts, diagnostics, phase>>

\* A candidate too many stops the scan.
AddCandidate(p) ==
  /\ Supported(p) \/ repo[p].name = "pyproject"
  /\ IF Cardinality(candidates) >= MaxCandidates THEN Stop /\ UNCHANGED candidates
     ELSE candidates' = candidates \cup {p} /\ UNCHANGED <<diagnostics, phase>>
  /\ UNCHANGED counts

LookAtFile(p) ==
  /\ Look(p) /\ visited < MaxEntries
  /\ IsFile(p)
  /\ \/ /\ repo[p].ignored
        /\ UNCHANGED <<candidates, counts, diagnostics, phase>>
     \/ /\ ~repo[p].ignored
        /\ ~Supported(p) /\ repo[p].name # "pyproject"
        /\ Counted(1, 0, 1, 0)
        /\ UNCHANGED <<candidates, diagnostics, phase>>
     \/ ~repo[p].ignored /\ AddCandidate(p)
  /\ UNCHANGED stack

EndWalk ==
  /\ phase = "walk" /\ stack = {} /\ entries = {}
  /\ phase' = "intake"
  /\ todo' = candidates
  /\ UNCHANGED <<repo, target, walking, seen, analysed, counts, diagnostics>>

-----------------------------------------------------------------------------
(* The intake: candidates are taken in the order of their names.           *)

Take(p) ==
  /\ phase = "intake" /\ p \in todo /\ \A q \in todo : p <= q
  /\ todo' = todo \ {p}
  /\ UNCHANGED <<repo, target, walking>>

CannotResolve(p) ==
  /\ Take(p)
  /\ Real(p) = Nowhere
  /\ Counted(1, 0, 0, 1)
  /\ Report({Told("unreadable_path", p, TRUE)}, phase)
  /\ UNCHANGED <<seen, analysed>>

LeftRoot(p) ==
  /\ Take(p)
  /\ Real(p) = Outside
  /\ Counted(1, 0, 1, 0)
  /\ Report({Told("outside", p, TRUE)}, phase)
  /\ UNCHANGED <<seen, analysed>>

\* Another name of a real path that was taken care of, or pyproject.toml.
Skip(p) ==
  /\ Take(p)
  /\ Real(p) \in Paths
  /\ Real(p) \in seen \/ ~Supported(p)
  /\ Counted(1, 0, 1, 0)
  /\ UNCHANGED <<seen, analysed, diagnostics, phase>>

\* Wrong: the real path is not recorded.
ReadForgotten(p) ==
  /\ Take(p)
  /\ Real(p) \in Paths \ seen
  /\ Supported(p)
  /\ seen' = seen

Read(p) ==
  /\ Take(p)
  /\ Real(p) \in Paths \ seen
  /\ Supported(p)
  /\ seen' = seen \cup {Real(p)}

\* Templates, and fragments that cannot be parsed: no Python modules.
NoModule(p) ==
  /\ Read(p)
  /\ \/ /\ Templated(p)
        /\ Report({Told("templated_source", p, FALSE)}, phase)
     \/ /\ repo[p].name = "python" /\ Unparsable(p) /\ repo[p].fragment
        /\ Report({Told("source_fragment", p, FALSE)}, phase)
  /\ Counted(1, 0, 1, 0)
  /\ UNCHANGED analysed

\* Wrong: security configuration that is too large is skipped like any other file.
RefuseMalformed(p) ==
  /\ Read(p)
  /\ repo[p].name \in SecurityConfig
  /\ ~Loads(p) \/ (repo[p].name = "manifest" /\ Content(p) = "invalid")
  /\ IF Content(p) # "oversized" THEN Counted(1, 0, 0, 0) /\ Stop
     ELSE Counted(1, 0, 0, 1) /\ Report({Told("limit", p, TRUE)}, phase)
  /\ UNCHANGED analysed

\* A manifest that cannot be parsed is counted as scanned, then its adapter stops
\* the scan; other security configuration, and one too large, is refused here.
Refuse(p) ==
  /\ Read(p)
  /\ repo[p].name \in SecurityConfig
  /\ ~Loads(p) \/ (repo[p].name = "manifest" /\ Content(p) = "invalid")
  /\ IF repo[p].name = "manifest" /\ Content(p) # "oversized"
     THEN Counted(1, 1, 0, 0) ELSE Counted(1, 0, 0, 0)
  /\ Stop
  /\ UNCHANGED analysed

\* Wrong: a file counts as scanned before it is parsed.
FailAfterCounting(p) ==
  /\ Read(p)
  /\ ~Loads(p) /\ ~Templated(p)
  /\ repo[p].name \notin SecurityConfig
  /\ ~(repo[p].name = "python" /\ Unparsable(p) /\ repo[p].fragment)
  /\ Counted(1, 1, 0, 1)
  /\ Report({Told(IF Content(p) = "oversized" THEN "limit" ELSE "parse_error", p, TRUE)},
            phase)
  /\ UNCHANGED analysed

Fail(p) ==
  /\ Read(p)
  /\ ~Loads(p) /\ ~Templated(p)
  /\ repo[p].name \notin SecurityConfig
  /\ ~(repo[p].name = "python" /\ Unparsable(p) /\ repo[p].fragment)
  /\ Counted(1, 0, 0, 1)
  /\ Report({Told(IF Content(p) = "oversized" THEN "limit" ELSE "parse_error", p, TRUE)},
            phase)
  /\ UNCHANGED analysed

Analyse(p) ==
  /\ Read(p)
  /\ Loads(p)
  /\ ~(repo[p].name = "manifest" /\ Content(p) = "invalid")
  /\ Counted(1, 1, 0, 0)
  /\ analysed' = analysed \cup {[path |-> p, file |-> Real(p)]}
  /\ UNCHANGED <<diagnostics, phase>>

\* The paths of which adapters, or the repository-wide analysis, made agents and
\* tools, or could not make any.
Found(names, content) ==
  {a.path : a \in {x \in analysed : repo[x.path].name \in names /\
                                     repo[x.file].content = content}}

Modules == {"python", "notebook"}

\* The first module that uses a framework, if no module's agents were found.
Unnormalized ==
  {p \in Found(Modules, "opaque") : /\ Found(Modules, "agents") = {}
                                    /\ \A q \in Found(Modules, "opaque") : p <= q}

NoTargets == Found(Candidates \ {"suppressions"}, "agents") = {}

Finish ==
  /\ phase = "intake" /\ todo = {}
  /\ Report({Told("framework_not_normalized", p, TRUE) : p \in Unnormalized}
              \cup {d \in {Told("no_targets", Root, TRUE)} : NoTargets},
            "done")
  /\ UNCHANGED <<repo, target, walking, reading, counts>>

-----------------------------------------------------------------------------

\* Somebody redirects a link.
Redirect(l, t) ==
  /\ phase = "walk"
  /\ l \in Links(repo) /\ t \in repo[l].targets \ {target[l]}
  /\ target' = [target EXCEPT ![l] = t]
  /\ UNCHANGED <<repo, phase, walking, reading, counts, diagnostics>>

Init ==
  /\ repo \in Repositories
  /\ target \in [Links(repo) -> Paths \cup {Outside, Nowhere}]
  /\ \A l \in Links(repo) : target[l] \in repo[l].targets
  /\ phase = "walk"
  /\ stack = {Root}
  /\ entries = {} /\ listed = {} /\ candidates = {} /\ visited = 0
  /\ todo = {} /\ seen = {} /\ analysed = {}
  /\ counts = [considered |-> 0, scanned |-> 0, skipped |-> 0, failed |-> 0]
  /\ diagnostics = {}

Walk ==
  \/ \E d \in stack : ListDirectory(d)
  \/ \E p \in entries : \/ TooManyEntries(p) \/ LookAtBrokenLink(p) \/ LookOutside(p)
                        \/ LookAtDirectory(p) \/ LookAtFile(p)
  \/ EndWalk

TakeIn ==
  \E p \in todo : \/ CannotResolve(p) \/ LeftRoot(p) \/ Skip(p) \/ NoModule(p)
                  \/ Refuse(p) \/ Fail(p) \/ Analyse(p)

Next ==
  \/ Walk \/ TakeIn \/ Finish
  \/ \E l \in Links(repo) : \E t \in repo[l].targets : Redirect(l, t)

SafetySpec == Init /\ [][Next]_vars

-----------------------------------------------------------------------------
(* Properties.                                                             *)

TypeOK ==
  /\ repo \in [Paths -> Entry]
  /\ target \in [Links(repo) -> Paths \cup {Outside, Nowhere}]
  /\ phase \in {"walk", "intake", "done", "stopped"}
  /\ stack \subseteq Paths \cup {Root} /\ listed \subseteq Paths \cup {Root}
  /\ entries \subseteq Paths /\ candidates \subseteq Paths /\ todo \subseteq Paths
  /\ visited \in Nat
  /\ seen \subseteq Paths
  /\ analysed \subseteq [path : Paths, file : Paths]
  /\ counts \in [considered : Nat, scanned : Nat, skipped : Nat, failed : Nat]
  /\ diagnostics \subseteq Diagnostic

\* The directories a walk gets to, if it can list those above them.
Closed(r, S) ==
  /\ Root \in S
  /\ \A d \in Paths : /\ r[d].kind = "directory" /\ ~r[d].ignored
                      /\ r[d].parent \in S
                      => d \in S

Visible(r) == {d \in Paths \cup {Root} :
                 \A S \in SUBSET (Paths \cup {Root}) : Closed(r, S) => d \in S}

\* The files a scan is about.
Files(r) == {f \in Paths : /\ r[f].kind = "file" /\ ~r[f].ignored
                           /\ r[f].parent \in Visible(r)}

\* No link makes a file look like one of another type.
AliasesAgree(r) ==
  \A l \in Links(r) : \A t \in r[l].targets \cap Paths :
    \/ r[l].name \notin Candidates
    \/ r[t].kind = "directory"
    \/ r[l].name = r[t].name /\ r[l].fragment = r[t].fragment

\* A template, or a fragment that is not a module.
Excused(r, f) ==
  /\ r[f].name = "python"
  /\ r[f].content = "templated" \/ (r[f].content = "broken" /\ r[f].fragment)

(***************************************************************************)
(* A scan that --strict and "horustrace baseline" accept as complete has   *)
(* analysed every supported file there is, as what its name says it is:    *)
(* no limit, no unreadable directory, no link and no alias drops one.      *)
(***************************************************************************)
NothingSilent ==
  phase = "done" /\ ~Incomplete /\ AliasesAgree(repo) =>
    \A f \in Files(repo) :
      repo[f].name \in Candidates =>
        \/ Excused(repo, f)
        \/ \E a \in analysed : a.file = f /\ repo[a.path].name = repo[f].name

\* As a file of a type of security configuration.
Malformed(name, content) ==
  \/ name \in SecurityConfig /\ content \in {"broken", "oversized", "unreadable"}
  \/ name \in {"manifest", "mcp"} /\ content = "invalid"

(***************************************************************************)
(* "Malformed, unreadable, or structurally invalid policy manifests stop   *)
(* the scan" (README.md), and so does other security configuration.        *)
(***************************************************************************)
MalformedStops ==
  phase = "done" => \A f \in candidates \ Links(repo) : ~Malformed(repo[f].name, repo[f].content)

(***************************************************************************)
(* MalformedStops where no link makes a file look like another type.       *)
(***************************************************************************)
AgreedMalformedStops == AliasesAgree(repo) => MalformedStops

(***************************************************************************)
(* A file with several names is analysed once, also if links were          *)
(* redirected meanwhile (test_internal_symlink_target_is_scanned_once).    *)
(***************************************************************************)
OncePerFile == \A a, b \in analysed : a.file = b.file => a = b

(***************************************************************************)
(* Whatever is broken, unreadable or links nowhere does not stop a scan    *)
(* ("analysis continued with incomplete coverage"): only malformed         *)
(* security configuration does, and more than the limits allow.            *)
(***************************************************************************)
OnlyForCause ==
  phase = "stopped" =>
    \/ \E p \in candidates : Malformed(repo[p].name, Content(p))
    \/ Cardinality({p \in Paths : repo[p].kind # "none"}) > MaxEntries
    \/ Cardinality({p \in Paths : Supported(p) \/ repo[p].name = "pyproject"}) > MaxCandidates
    \/ Cardinality(diagnostics) >= MaxDiagnostics

(***************************************************************************)
(* "A scanned file was read and parsed", and without links and unreadable  *)
(* directories every file that is not ignored is counted once and has one  *)
(* outcome (README.md).                                                    *)
(***************************************************************************)
CountsAddUp ==
  phase = "done" =>
    /\ counts.scanned = Cardinality(analysed)
    /\ Links(repo) = {} /\ (\A d \in listed \ {Root} : repo[d].content # "unreadable") =>
         /\ counts.considered = Cardinality(Files(repo))
         /\ counts.considered = counts.scanned + counts.skipped + counts.failed

(***************************************************************************)
(* Whatever the repository looks like, an end that is no report has a      *)
(* cause, and the numbers of a report are true.                            *)
(***************************************************************************)
OutcomesExplained == OnlyForCause /\ CountsAddUp
=============================================================================
