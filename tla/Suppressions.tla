------------------------------ MODULE Suppressions ------------------------------
(***************************************************************************)
(* Risk that is accepted for a time (suppressions.py): which files of      *)
(* exceptions are valid, which findings of a scan they take away, what a   *)
(* baseline accepts, and the exit status of `horustrace scan` (cli.py).    *)
(*                                                                         *)
(* An exception is [id, expires, fingerprint, rule, agent, path]; the last *)
(* four are its scopes, each a set of at most one element.  Of a pattern   *)
(* of paths what counts is the set of paths that it matches.               *)
(***************************************************************************)
EXTENDS Findings

\* _load: a fingerprint, or a rule that is narrowed down.
Narrow(s) ==
  /\ s.fingerprint # {} \/ s.rule # {}
  /\ s.fingerprint = {} => s.agent # {} \/ s.path # {}

Valid(file) ==
  /\ \A i \in DOMAIN file : Narrow(file[i])
  /\ \A i, j \in DOMAIN file : file[i].id = file[j].id => i = j

\* Wrong: an exception holds on, whatever its date.
NeverExpired(s, today) == FALSE

\* apply: "suppression.expires < today"
Expired(s, today) == s.expires < today

\* The inner loop of apply: every scope that is given must be the finding's.
Matches(s, f) ==
  /\ \A p \in s.fingerprint : p = Fingerprint(f)
  /\ \A r \in s.rule : r = f.rule
  /\ \A a \in s.agent : a = f.agent
  /\ \A matched \in s.path : f.path \in matched

Active(file, today) == {s \in Range(file) : ~Expired(s, today)}

\* apply: "kept".  Which exception comes first decides about the audit only.
Remaining(found, file, today) ==
  {f \in found : \A s \in Active(file, today) : ~Matches(s, f)}

\* write_baseline
Baseline(found, expires) ==
  LET order == SetToSeq(found) IN
  [i \in DOMAIN order |->
     [id |-> <<"baseline", i>>, expires |-> expires, fingerprint |-> {Fingerprint(order[i])},
      rule |-> {order[i].rule}, agent |-> {}, path |-> {}]]

\* The default names of a file of exceptions.
SUPPRESSION_FILENAMES == {"yaml", "yml"}

\* The file that a scan reads: the one that is asked for or, with "default", the only one
\* there is; of two it is not known which is meant.
Applicable(files, asked) ==
  IF asked = "default" THEN DOMAIN files ELSE {asked}

\* scan fails: there are two files, or not the one asked for, or it is not valid.
Refused(files, asked) ==
  \/ Cardinality(Applicable(files, asked)) > 1
  \/ \E n \in Applicable(files, asked) : n \notin DOMAIN files \/ ~Valid(files[n])

Exceptions(files, asked) ==
  IF Applicable(files, asked) = {} THEN <<>>
  ELSE files[CHOOSE n \in Applicable(files, asked) : TRUE]

\* main of cli.py, for scan.
ScanStatus(found, incomplete, files, today, options) ==
  LET file == Exceptions(files, options.asked) IN
  IF Refused(files, options.asked) THEN 1
  ELSE IF options.strict /\ (incomplete \/ \E s \in Range(file) : Expired(s, today)) THEN 1
  ELSE IF options.failOn # 0 /\ \E f \in Remaining(found, file, today) : f.severity >= options.failOn
       THEN 2
  ELSE 0
=============================================================================
