------------------------- MODULE Consolidation_proofs -------------------------
(***************************************************************************)
(* Whatever files a scan finds and whatever the repository-wide analysis   *)
(* resolves, consolidated agents have all that was declared of them and    *)
(* nothing that was declared of others.                                    *)
(***************************************************************************)
EXTENDS Consolidation, TLAPS, FiniteSetTheorems, SequenceTheorems, WellFoundedInduction

-----------------------------------------------------------------------------
(* Loops                                                                   *)

\* A set of naturals that is not empty has a least element.
LEMMA LeastExists ==
  ASSUME NEW S \in SUBSET Nat, S # {}
  PROVE  \E i \in S : \A j \in S : i <= j
  <1> DEFINE R == {ss \in Nat \X Nat : ss[1] < ss[2]}
  <1>1. IsWellFoundedOn(R, Nat)
    BY NatLessThanWellFounded, Zenon DEF OpToRel
  <1>2. \A i, j \in Nat : <<j, i>> \notin R => i <= j
    OBVIOUS
  <1>3. \E i \in S : \A j \in S : <<j, i>> \notin R
    <2> HIDE DEF R
    <2> QED BY <1>1, WFMin, Zenon
  <1> HIDE DEF R
  <1> QED BY <1>2, <1>3

\* What holds of 0 and of k whenever it holds of k - 1 holds up to n: the set is of those for
\* which it holds.
LEMMA Steps0 ==
  ASSUME NEW n \in Nat, NEW S, 0 \in S, \A k \in 1..n : k - 1 \in S => k \in S
  PROVE  0..n \subseteq S
  <1> SUFFICES ASSUME ~(0..n \subseteq S)
               PROVE  FALSE
    OBVIOUS
  <1> DEFINE B == (0..n) \ S
  <1>1. PICK m \in B : \A j \in B : m <= j
    <2>1. B \in SUBSET Nat /\ B # {}
      OBVIOUS
    <2> HIDE DEF B
    <2> QED BY <2>1, LeastExists
  <1>2. m \in 1..n /\ m - 1 \notin B
    BY <1>1
  <1> QED BY <1>1, <1>2

\* A function on 0..m-1 with one value more.
Longer(g, m, f, v) ==
  /\ g = [k \in 0..m |-> g[k]] /\ g[m] = v
  /\ \A k \in 0..(m - 1) : g[k] = f[k]

\* What was made of n elements of a list makes what is made of n + 1.
LEMMA OneMore ==
  ASSUME NEW m \in Nat \ {0}, NEW f, NEW v
  PROVE  \E g : Longer(g, m, f, v)
  <1> DEFINE g == [k \in 0..m |-> IF k = m THEN v ELSE f[k]]
  <1>1. Longer(g, m, f, v)
    BY DEF Longer
  <1> HIDE DEF g
  <1> QED BY <1>1

\* What is accumulated after k tools of a list.
ToolSteps(f, start, list, n) ==
  /\ f = [k \in 0..n |-> f[k]] /\ f[0] = start
  /\ \A k \in 1..n : f[k] = TakeTool(f[k - 1], list[k])

\* The loops, each as the function from how many elements it has seen to what it has come to.  The
\* same proof for each of them: no prover here instantiates an operator that a theorem takes.
LEMMA ToolStepsExist ==
  ASSUME NEW start, NEW list, NEW n \in Nat, Len(list) = n
  PROVE  \E f : ToolSteps(f, start, list, n) /\ Folded(TakeTool, start, list) = f[n]
  <1> DEFINE S == {m \in 0..n : \E f : ToolSteps(f, start, list, m)}
             Equation(f) == f = [k \in 0..n |-> IF k = 0 THEN start ELSE TakeTool(f[k - 1], list[k])]
  <1>1. 0 \in S
    <2> DEFINE f == [k \in 0..0 |-> start]
    <2>1. ToolSteps(f, start, list, 0)
      BY DEF ToolSteps
    <2> HIDE DEF f
    <2> QED BY <2>1
  <1>2. ASSUME NEW m \in 1..n, m - 1 \in S
        PROVE  m \in S
    <2>1. PICK f : ToolSteps(f, start, list, m - 1)
      BY <1>2
    <2> m \in Nat \ {0} /\ 0 \in 0..(m - 1)
      OBVIOUS
    <2>2. PICK g : Longer(g, m, f, TakeTool(f[m - 1], list[m]))
      BY OneMore
    <2> USE <2>2 DEF Longer
    <2>3. g[0] = start
      BY <2>1, <2>2 DEF ToolSteps
    <2>4. ASSUME NEW k \in 1..m
          PROVE  g[k] = TakeTool(g[k - 1], list[k])
      <3>1. k - 1 \in 0..(m - 1) /\ (k # m => k \in 1..(m - 1) /\ k \in 0..(m - 1))
        OBVIOUS
      <3>2. CASE k = m
        BY <2>2, <3>1, <3>2
      <3>3. CASE k # m
        <4>1. f[k] = TakeTool(f[k - 1], list[k])
          BY <2>1, <3>1, <3>3 DEF ToolSteps
        <4> QED BY <2>2, <3>1, <3>3, <4>1
      <3> QED BY <3>2, <3>3
    <2>5. ToolSteps(g, start, list, m)
      BY <2>2, <2>3, <2>4 DEF ToolSteps
    <2> QED BY <2>5
  <1>3. n \in S
    <2> HIDE DEF S
    <2> QED BY <1>1, <1>2, Steps0
  <1>4. \E f : Equation(f)
    <2>1. PICK f : ToolSteps(f, start, list, n)
      BY <1>3
    <2>2. \A k \in 0..n : f[k] = IF k = 0 THEN start ELSE TakeTool(f[k - 1], list[k])
      BY <2>1 DEF ToolSteps
    <2>3. f = [k \in 0..n |-> f[k]]
      BY <2>1 DEF ToolSteps
    <2>4. Equation(f)
      BY <2>2, <2>3
    <2> HIDE DEF Equation
    <2> QED BY <2>4
  <1> DEFINE f == CHOOSE f : Equation(f)
  <1>5. Equation(f)
    <2> HIDE DEF Equation
    <2> QED BY <1>4
  <1>6. Folded(TakeTool, start, list) = f[n]
    BY DEF Folded
  <1> HIDE DEF f
  <1>7. ToolSteps(f, start, list, n)
    <2>1. f[0] = start /\ \A k \in 1..n : f[k] = TakeTool(f[k - 1], list[k])
      BY <1>5
    <2>2. f = [k \in 0..n |-> f[k]]
      BY <1>5
    <2> QED BY <2>1, <2>2 DEF ToolSteps
  <1> QED BY <1>6, <1>7

\* The same for identities of an agent, for those of the graph, servers, resolved tools and links.
IdentitySteps(f, start, list, n) ==
  /\ f = [k \in 0..n |-> f[k]] /\ f[0] = start
  /\ \A k \in 1..n : f[k] = TakeIdentity(f[k - 1], list[k])

LEMMA IdentityStepsExist ==
  ASSUME NEW start, NEW list, NEW n \in Nat, Len(list) = n
  PROVE  \E f : IdentitySteps(f, start, list, n) /\ Folded(TakeIdentity, start, list) = f[n]
  <1> DEFINE S == {m \in 0..n : \E f : IdentitySteps(f, start, list, m)}
             Equation(f) == f = [k \in 0..n |-> IF k = 0 THEN start ELSE TakeIdentity(f[k - 1], list[k])]
  <1>1. 0 \in S
    <2> DEFINE f == [k \in 0..0 |-> start]
    <2>1. IdentitySteps(f, start, list, 0)
      BY DEF IdentitySteps
    <2> HIDE DEF f
    <2> QED BY <2>1
  <1>2. ASSUME NEW m \in 1..n, m - 1 \in S
        PROVE  m \in S
    <2>1. PICK f : IdentitySteps(f, start, list, m - 1)
      BY <1>2
    <2> m \in Nat \ {0} /\ 0 \in 0..(m - 1)
      OBVIOUS
    <2>2. PICK g : Longer(g, m, f, TakeIdentity(f[m - 1], list[m]))
      BY OneMore
    <2> USE <2>2 DEF Longer
    <2>3. g[0] = start
      BY <2>1, <2>2 DEF IdentitySteps
    <2>4. ASSUME NEW k \in 1..m
          PROVE  g[k] = TakeIdentity(g[k - 1], list[k])
      <3>1. k - 1 \in 0..(m - 1) /\ (k # m => k \in 1..(m - 1) /\ k \in 0..(m - 1))
        OBVIOUS
      <3>2. CASE k = m
        BY <2>2, <3>1, <3>2
      <3>3. CASE k # m
        <4>1. f[k] = TakeIdentity(f[k - 1], list[k])
          BY <2>1, <3>1, <3>3 DEF IdentitySteps
        <4> QED BY <2>2, <3>1, <3>3, <4>1
      <3> QED BY <3>2, <3>3
    <2>5. IdentitySteps(g, start, list, m)
      BY <2>2, <2>3, <2>4 DEF IdentitySteps
    <2> QED BY <2>5
  <1>3. n \in S
    <2> HIDE DEF S
    <2> QED BY <1>1, <1>2, Steps0
  <1>4. \E f : Equation(f)
    <2>1. PICK f : IdentitySteps(f, start, list, n)
      BY <1>3
    <2>2. \A k \in 0..n : f[k] = IF k = 0 THEN start ELSE TakeIdentity(f[k - 1], list[k])
      BY <2>1 DEF IdentitySteps
    <2>3. f = [k \in 0..n |-> f[k]]
      BY <2>1 DEF IdentitySteps
    <2>4. Equation(f)
      BY <2>2, <2>3
    <2> HIDE DEF Equation
    <2> QED BY <2>4
  <1> DEFINE f == CHOOSE f : Equation(f)
  <1>5. Equation(f)
    <2> HIDE DEF Equation
    <2> QED BY <1>4
  <1>6. Folded(TakeIdentity, start, list) = f[n]
    BY DEF Folded
  <1> HIDE DEF f
  <1>7. IdentitySteps(f, start, list, n)
    <2>1. f[0] = start /\ \A k \in 1..n : f[k] = TakeIdentity(f[k - 1], list[k])
      BY <1>5
    <2>2. f = [k \in 0..n |-> f[k]]
      BY <1>5
    <2> QED BY <2>1, <2>2 DEF IdentitySteps
  <1> QED BY <1>6, <1>7

GlobalSteps(f, start, list, n) ==
  /\ f = [k \in 0..n |-> f[k]] /\ f[0] = start
  /\ \A k \in 1..n : f[k] = TakeGlobal(f[k - 1], list[k])

LEMMA GlobalStepsExist ==
  ASSUME NEW start, NEW list, NEW n \in Nat, Len(list) = n
  PROVE  \E f : GlobalSteps(f, start, list, n) /\ Folded(TakeGlobal, start, list) = f[n]
  <1> DEFINE S == {m \in 0..n : \E f : GlobalSteps(f, start, list, m)}
             Equation(f) == f = [k \in 0..n |-> IF k = 0 THEN start ELSE TakeGlobal(f[k - 1], list[k])]
  <1>1. 0 \in S
    <2> DEFINE f == [k \in 0..0 |-> start]
    <2>1. GlobalSteps(f, start, list, 0)
      BY DEF GlobalSteps
    <2> HIDE DEF f
    <2> QED BY <2>1
  <1>2. ASSUME NEW m \in 1..n, m - 1 \in S
        PROVE  m \in S
    <2>1. PICK f : GlobalSteps(f, start, list, m - 1)
      BY <1>2
    <2> m \in Nat \ {0} /\ 0 \in 0..(m - 1)
      OBVIOUS
    <2>2. PICK g : Longer(g, m, f, TakeGlobal(f[m - 1], list[m]))
      BY OneMore
    <2> USE <2>2 DEF Longer
    <2>3. g[0] = start
      BY <2>1, <2>2 DEF GlobalSteps
    <2>4. ASSUME NEW k \in 1..m
          PROVE  g[k] = TakeGlobal(g[k - 1], list[k])
      <3>1. k - 1 \in 0..(m - 1) /\ (k # m => k \in 1..(m - 1) /\ k \in 0..(m - 1))
        OBVIOUS
      <3>2. CASE k = m
        BY <2>2, <3>1, <3>2
      <3>3. CASE k # m
        <4>1. f[k] = TakeGlobal(f[k - 1], list[k])
          BY <2>1, <3>1, <3>3 DEF GlobalSteps
        <4> QED BY <2>2, <3>1, <3>3, <4>1
      <3> QED BY <3>2, <3>3
    <2>5. GlobalSteps(g, start, list, m)
      BY <2>2, <2>3, <2>4 DEF GlobalSteps
    <2> QED BY <2>5
  <1>3. n \in S
    <2> HIDE DEF S
    <2> QED BY <1>1, <1>2, Steps0
  <1>4. \E f : Equation(f)
    <2>1. PICK f : GlobalSteps(f, start, list, n)
      BY <1>3
    <2>2. \A k \in 0..n : f[k] = IF k = 0 THEN start ELSE TakeGlobal(f[k - 1], list[k])
      BY <2>1 DEF GlobalSteps
    <2>3. f = [k \in 0..n |-> f[k]]
      BY <2>1 DEF GlobalSteps
    <2>4. Equation(f)
      BY <2>2, <2>3
    <2> HIDE DEF Equation
    <2> QED BY <2>4
  <1> DEFINE f == CHOOSE f : Equation(f)
  <1>5. Equation(f)
    <2> HIDE DEF Equation
    <2> QED BY <1>4
  <1>6. Folded(TakeGlobal, start, list) = f[n]
    BY DEF Folded
  <1> HIDE DEF f
  <1>7. GlobalSteps(f, start, list, n)
    <2>1. f[0] = start /\ \A k \in 1..n : f[k] = TakeGlobal(f[k - 1], list[k])
      BY <1>5
    <2>2. f = [k \in 0..n |-> f[k]]
      BY <1>5
    <2> QED BY <2>1, <2>2 DEF GlobalSteps
  <1> QED BY <1>6, <1>7

ServerSteps(f, start, list, n) ==
  /\ f = [k \in 0..n |-> f[k]] /\ f[0] = start
  /\ \A k \in 1..n : f[k] = TakeServer(f[k - 1], list[k])

LEMMA ServerStepsExist ==
  ASSUME NEW start, NEW list, NEW n \in Nat, Len(list) = n
  PROVE  \E f : ServerSteps(f, start, list, n) /\ Folded(TakeServer, start, list) = f[n]
  <1> DEFINE S == {m \in 0..n : \E f : ServerSteps(f, start, list, m)}
             Equation(f) == f = [k \in 0..n |-> IF k = 0 THEN start ELSE TakeServer(f[k - 1], list[k])]
  <1>1. 0 \in S
    <2> DEFINE f == [k \in 0..0 |-> start]
    <2>1. ServerSteps(f, start, list, 0)
      BY DEF ServerSteps
    <2> HIDE DEF f
    <2> QED BY <2>1
  <1>2. ASSUME NEW m \in 1..n, m - 1 \in S
        PROVE  m \in S
    <2>1. PICK f : ServerSteps(f, start, list, m - 1)
      BY <1>2
    <2> m \in Nat \ {0} /\ 0 \in 0..(m - 1)
      OBVIOUS
    <2>2. PICK g : Longer(g, m, f, TakeServer(f[m - 1], list[m]))
      BY OneMore
    <2> USE <2>2 DEF Longer
    <2>3. g[0] = start
      BY <2>1, <2>2 DEF ServerSteps
    <2>4. ASSUME NEW k \in 1..m
          PROVE  g[k] = TakeServer(g[k - 1], list[k])
      <3>1. k - 1 \in 0..(m - 1) /\ (k # m => k \in 1..(m - 1) /\ k \in 0..(m - 1))
        OBVIOUS
      <3>2. CASE k = m
        BY <2>2, <3>1, <3>2
      <3>3. CASE k # m
        <4>1. f[k] = TakeServer(f[k - 1], list[k])
          BY <2>1, <3>1, <3>3 DEF ServerSteps
        <4> QED BY <2>2, <3>1, <3>3, <4>1
      <3> QED BY <3>2, <3>3
    <2>5. ServerSteps(g, start, list, m)
      BY <2>2, <2>3, <2>4 DEF ServerSteps
    <2> QED BY <2>5
  <1>3. n \in S
    <2> HIDE DEF S
    <2> QED BY <1>1, <1>2, Steps0
  <1>4. \E f : Equation(f)
    <2>1. PICK f : ServerSteps(f, start, list, n)
      BY <1>3
    <2>2. \A k \in 0..n : f[k] = IF k = 0 THEN start ELSE TakeServer(f[k - 1], list[k])
      BY <2>1 DEF ServerSteps
    <2>3. f = [k \in 0..n |-> f[k]]
      BY <2>1 DEF ServerSteps
    <2>4. Equation(f)
      BY <2>2, <2>3
    <2> HIDE DEF Equation
    <2> QED BY <2>4
  <1> DEFINE f == CHOOSE f : Equation(f)
  <1>5. Equation(f)
    <2> HIDE DEF Equation
    <2> QED BY <1>4
  <1>6. Folded(TakeServer, start, list) = f[n]
    BY DEF Folded
  <1> HIDE DEF f
  <1>7. ServerSteps(f, start, list, n)
    <2>1. f[0] = start /\ \A k \in 1..n : f[k] = TakeServer(f[k - 1], list[k])
      BY <1>5
    <2>2. f = [k \in 0..n |-> f[k]]
      BY <1>5
    <2> QED BY <2>1, <2>2 DEF ServerSteps
  <1> QED BY <1>6, <1>7

ResolvedSteps(f, start, list, n) ==
  /\ f = [k \in 0..n |-> f[k]] /\ f[0] = start
  /\ \A k \in 1..n : f[k] = TakeResolved(f[k - 1], list[k])

LEMMA ResolvedStepsExist ==
  ASSUME NEW start, NEW list, NEW n \in Nat, Len(list) = n
  PROVE  \E f : ResolvedSteps(f, start, list, n) /\ Folded(TakeResolved, start, list) = f[n]
  <1> DEFINE S == {m \in 0..n : \E f : ResolvedSteps(f, start, list, m)}
             Equation(f) == f = [k \in 0..n |-> IF k = 0 THEN start ELSE TakeResolved(f[k - 1], list[k])]
  <1>1. 0 \in S
    <2> DEFINE f == [k \in 0..0 |-> start]
    <2>1. ResolvedSteps(f, start, list, 0)
      BY DEF ResolvedSteps
    <2> HIDE DEF f
    <2> QED BY <2>1
  <1>2. ASSUME NEW m \in 1..n, m - 1 \in S
        PROVE  m \in S
    <2>1. PICK f : ResolvedSteps(f, start, list, m - 1)
      BY <1>2
    <2> m \in Nat \ {0} /\ 0 \in 0..(m - 1)
      OBVIOUS
    <2>2. PICK g : Longer(g, m, f, TakeResolved(f[m - 1], list[m]))
      BY OneMore
    <2> USE <2>2 DEF Longer
    <2>3. g[0] = start
      BY <2>1, <2>2 DEF ResolvedSteps
    <2>4. ASSUME NEW k \in 1..m
          PROVE  g[k] = TakeResolved(g[k - 1], list[k])
      <3>1. k - 1 \in 0..(m - 1) /\ (k # m => k \in 1..(m - 1) /\ k \in 0..(m - 1))
        OBVIOUS
      <3>2. CASE k = m
        BY <2>2, <3>1, <3>2
      <3>3. CASE k # m
        <4>1. f[k] = TakeResolved(f[k - 1], list[k])
          BY <2>1, <3>1, <3>3 DEF ResolvedSteps
        <4> QED BY <2>2, <3>1, <3>3, <4>1
      <3> QED BY <3>2, <3>3
    <2>5. ResolvedSteps(g, start, list, m)
      BY <2>2, <2>3, <2>4 DEF ResolvedSteps
    <2> QED BY <2>5
  <1>3. n \in S
    <2> HIDE DEF S
    <2> QED BY <1>1, <1>2, Steps0
  <1>4. \E f : Equation(f)
    <2>1. PICK f : ResolvedSteps(f, start, list, n)
      BY <1>3
    <2>2. \A k \in 0..n : f[k] = IF k = 0 THEN start ELSE TakeResolved(f[k - 1], list[k])
      BY <2>1 DEF ResolvedSteps
    <2>3. f = [k \in 0..n |-> f[k]]
      BY <2>1 DEF ResolvedSteps
    <2>4. Equation(f)
      BY <2>2, <2>3
    <2> HIDE DEF Equation
    <2> QED BY <2>4
  <1> DEFINE f == CHOOSE f : Equation(f)
  <1>5. Equation(f)
    <2> HIDE DEF Equation
    <2> QED BY <1>4
  <1>6. Folded(TakeResolved, start, list) = f[n]
    BY DEF Folded
  <1> HIDE DEF f
  <1>7. ResolvedSteps(f, start, list, n)
    <2>1. f[0] = start /\ \A k \in 1..n : f[k] = TakeResolved(f[k - 1], list[k])
      BY <1>5
    <2>2. f = [k \in 0..n |-> f[k]]
      BY <1>5
    <2> QED BY <2>1, <2>2 DEF ResolvedSteps
  <1> QED BY <1>6, <1>7

LinkSteps(f, start, list, n) ==
  /\ f = [k \in 0..n |-> f[k]] /\ f[0] = start
  /\ \A k \in 1..n : f[k] = LinkIdentity(f[k - 1], list[k])

LEMMA LinkStepsExist ==
  ASSUME NEW start, NEW list, NEW n \in Nat, Len(list) = n
  PROVE  \E f : LinkSteps(f, start, list, n) /\ Folded(LinkIdentity, start, list) = f[n]
  <1> DEFINE S == {m \in 0..n : \E f : LinkSteps(f, start, list, m)}
             Equation(f) == f = [k \in 0..n |-> IF k = 0 THEN start ELSE LinkIdentity(f[k - 1], list[k])]
  <1>1. 0 \in S
    <2> DEFINE f == [k \in 0..0 |-> start]
    <2>1. LinkSteps(f, start, list, 0)
      BY DEF LinkSteps
    <2> HIDE DEF f
    <2> QED BY <2>1
  <1>2. ASSUME NEW m \in 1..n, m - 1 \in S
        PROVE  m \in S
    <2>1. PICK f : LinkSteps(f, start, list, m - 1)
      BY <1>2
    <2> m \in Nat \ {0} /\ 0 \in 0..(m - 1)
      OBVIOUS
    <2>2. PICK g : Longer(g, m, f, LinkIdentity(f[m - 1], list[m]))
      BY OneMore
    <2> USE <2>2 DEF Longer
    <2>3. g[0] = start
      BY <2>1, <2>2 DEF LinkSteps
    <2>4. ASSUME NEW k \in 1..m
          PROVE  g[k] = LinkIdentity(g[k - 1], list[k])
      <3>1. k - 1 \in 0..(m - 1) /\ (k # m => k \in 1..(m - 1) /\ k \in 0..(m - 1))
        OBVIOUS
      <3>2. CASE k = m
        BY <2>2, <3>1, <3>2
      <3>3. CASE k # m
        <4>1. f[k] = LinkIdentity(f[k - 1], list[k])
          BY <2>1, <3>1, <3>3 DEF LinkSteps
        <4> QED BY <2>2, <3>1, <3>3, <4>1
      <3> QED BY <3>2, <3>3
    <2>5. LinkSteps(g, start, list, m)
      BY <2>2, <2>3, <2>4 DEF LinkSteps
    <2> QED BY <2>5
  <1>3. n \in S
    <2> HIDE DEF S
    <2> QED BY <1>1, <1>2, Steps0
  <1>4. \E f : Equation(f)
    <2>1. PICK f : LinkSteps(f, start, list, n)
      BY <1>3
    <2>2. \A k \in 0..n : f[k] = IF k = 0 THEN start ELSE LinkIdentity(f[k - 1], list[k])
      BY <2>1 DEF LinkSteps
    <2>3. f = [k \in 0..n |-> f[k]]
      BY <2>1 DEF LinkSteps
    <2>4. Equation(f)
      BY <2>2, <2>3
    <2> HIDE DEF Equation
    <2> QED BY <2>4
  <1> DEFINE f == CHOOSE f : Equation(f)
  <1>5. Equation(f)
    <2> HIDE DEF Equation
    <2> QED BY <1>4
  <1>6. Folded(LinkIdentity, start, list) = f[n]
    BY DEF Folded
  <1> HIDE DEF f
  <1>7. LinkSteps(f, start, list, n)
    <2>1. f[0] = start /\ \A k \in 1..n : f[k] = LinkIdentity(f[k - 1], list[k])
      BY <1>5
    <2>2. f = [k \in 0..n |-> f[k]]
      BY <1>5
    <2> QED BY <2>1, <2>2 DEF LinkSteps
  <1> QED BY <1>6, <1>7

-----------------------------------------------------------------------------
(* Lists                                                                   *)

\* Appending, joining.
LEMMA AppendIs ==
  ASSUME NEW S, NEW s \in Seq(S), NEW x \in S
  PROVE  Append(s, x) \in Seq(S) /\ Range(Append(s, x)) = Range(s) \cup {x}
  <1>1. /\ Append(s, x) \in Seq(S) /\ Len(Append(s, x)) = Len(s) + 1 /\ Len(s) \in Nat
        /\ \A i \in 1..Len(s) : Append(s, x)[i] = s[i]
        /\ Append(s, x)[Len(s) + 1] = x
    BY AppendProperties, LenProperties
  <1>2. DOMAIN s = 1..Len(s) /\ DOMAIN Append(s, x) = 1..(Len(s) + 1)
    BY <1>1, LenProperties
  <1>3. 1..(Len(s) + 1) = (1..Len(s)) \cup {Len(s) + 1}
    BY <1>1
  <1> HIDE <1>3
  <1> QED BY <1>1, <1>2, <1>3 DEF Range

\* What is in two lists one after the other.
LEMMA JoinedIs ==
  ASSUME NEW S, NEW s \in Seq(S), NEW t \in Seq(S)
  PROVE  /\ s \o t \in Seq(S) /\ Range(s \o t) = Range(s) \cup Range(t)
         /\ Len(s) \in Nat /\ Len(t) \in Nat /\ Len(s \o t) = Len(s) + Len(t)
         /\ \A i \in 1..Len(s) : (s \o t)[i] = s[i]
         /\ \A j \in 1..Len(t) : (s \o t)[Len(s) + j] = t[j]
  <1> DEFINE st == s \o t
             n == Len(s)
             m == Len(t)
  <1>1. /\ st \in Seq(S) /\ Len(st) = n + m /\ n \in Nat /\ m \in Nat
        /\ \A i \in 1..(n + m) : st[i] = IF i <= n THEN s[i] ELSE t[i - n]
    BY ConcatProperties, LenProperties
  <1> HIDE DEF st
  <1>2. DOMAIN s = 1..n /\ DOMAIN t = 1..m /\ DOMAIN st = 1..(n + m)
    BY <1>1, LenProperties
  <1> HIDE DEF n, m
  <1>3. /\ \A i \in 1..n : i \in 1..(n + m) /\ st[i] = s[i]
        /\ \A j \in 1..m : n + j \in 1..(n + m) /\ st[n + j] = t[j]
    BY <1>1
  <1>4. \A i \in 1..(n + m) : i \in 1..n \/ (i - n \in 1..m /\ st[i] = t[i - n])
    BY <1>1
  <1>5. Range(st) \subseteq Range(s) \cup Range(t)
    BY <1>2, <1>3, <1>4 DEF Range
  <1>6. Range(s) \subseteq Range(st)
    BY <1>2, <1>3 DEF Range
  <1>7. Range(t) \subseteq Range(st)
    BY <1>2, <1>3 DEF Range
  <1> QED BY <1>1, <1>3, <1>5, <1>6, <1>7 DEF st, n, m

\* A set of positions has a last one.
LEMMA LastIs ==
  ASSUME NEW n \in Nat, NEW S \in SUBSET (1..n), S # {}
  PROVE  LastOf(S) \in S /\ \A j \in S : j <= LastOf(S)
  <1> DEFINE B == {n - i : i \in S}
  <1>1. PICK b \in B : \A j \in B : b <= j
    <2>1. B \subseteq Nat
      OBVIOUS
    <2>2. B # {}
      OBVIOUS
    <2> HIDE DEF B
    <2> QED BY <2>1, <2>2, LeastExists
  <1>2. PICK i \in S : b = n - i
    BY <1>1
  <1>3. \A j \in S : j <= i
    <2> TAKE j \in S
    <2>1. n - j \in B
      OBVIOUS
    <2> HIDE DEF B
    <2> QED BY <1>1, <1>2, <2>1
  <1> HIDE DEF B
  <1>4. \E x \in S : \A j \in S : j <= x
    BY <1>2, <1>3
  <1> QED BY <1>4 DEF LastOf

\* What is at a place of a list.
LEMMA RangeIs ==
  ASSUME NEW S, NEW s \in Seq(S)
  PROVE  /\ Len(s) \in Nat /\ DOMAIN s = 1..Len(s)
         /\ \A i \in 1..Len(s) : s[i] \in S /\ s[i] \in Range(s)
         /\ Range(s) = {s[i] : i \in 1..Len(s)} /\ Range(s) \subseteq S
  BY LenProperties DEF Range

-----------------------------------------------------------------------------
(* Merging tools                                                           *)

\* Whatever is true of a tool is true of one of these.
DrawnFrom(tool, sources) ==
  /\ tool.caps \subseteq UNION {t.caps : t \in sources}
  /\ tool.guarded => \E t \in sources : t.guarded
  /\ tool.approval # "unset" => \E t \in sources : t.approval = tool.approval
  /\ tool.identity # Nothing => \E t \in sources : t.identity = tool.identity
  /\ \E t \in sources : t.kind = tool.kind

\* What is drawn from some tools is drawn from more, and from those that these are drawn from.
LEMMA DrawnFromMore ==
  ASSUME NEW tool, NEW S, NEW T, DrawnFrom(tool, S), S \subseteq T
  PROVE  DrawnFrom(tool, T)
  BY DEF DrawnFrom

LEMMA DrawnFromBoth ==
  ASSUME NEW tool, NEW x, NEW y, NEW S, DrawnFrom(tool, {x, y}), DrawnFrom(x, S), DrawnFrom(y, S)
  PROVE  DrawnFrom(tool, S)
  <1>1. tool.caps \subseteq UNION {t.caps : t \in S}
    <2>1. tool.caps \subseteq x.caps \cup y.caps
      BY DEF DrawnFrom
    <2> QED BY <2>1 DEF DrawnFrom
  <1>2. tool.guarded => \E t \in S : t.guarded
    BY DEF DrawnFrom
  <1>3. tool.approval # "unset" => \E t \in S : t.approval = tool.approval
    BY DEF DrawnFrom
  <1>4. tool.identity # Nothing => \E t \in S : t.identity = tool.identity
    BY DEF DrawnFrom
  <1>5. \E t \in S : t.kind = tool.kind
    BY DEF DrawnFrom
  <1> QED BY <1>1, <1>2, <1>3, <1>4, <1>5 DEF DrawnFrom

LEMMA DrawnFromItself ==
  ASSUME NEW tool, NEW S, tool \in S
  PROVE  DrawnFrom(tool, S)
  BY DEF DrawnFrom

\* A merged tool keeps what either says, a declared lack of approval included, and adds nothing.
LEMMA MergeToolIs ==
  ASSUME NEW old \in Tool, NEW new \in Tool
  PROVE  LET merged == MergeTool(old, new) IN
         /\ merged \in Tool /\ merged.name = old.name
         /\ Keeps(merged, old) /\ Keeps(merged, new)
         /\ DrawnFrom(merged, {old, new})
  <1> DEFINE merged == MergeTool(old, new)
  <1>1. /\ merged.name = old.name /\ merged.caps = old.caps \cup new.caps
        /\ merged.approval = IF old.approval = "no" \/ new.approval = "unset" THEN old.approval
                             ELSE new.approval
        /\ merged.guarded = (old.guarded \/ new.guarded)
        /\ merged.identity = IF new.identity = Nothing THEN old.identity ELSE new.identity
        /\ merged.kind = IF old.kind = "generic" THEN new.kind ELSE old.kind
    BY DEF MergeTool, Tool
  <1>2. merged \in Tool
    BY DEF MergeTool, Tool
  <1> HIDE DEF merged
  <1>3. Keeps(merged, old) /\ Keeps(merged, new)
    BY <1>1 DEF Keeps, Tool
  <1>4. DrawnFrom(merged, {old, new})
    BY <1>1 DEF DrawnFrom, Tool
  <1> QED BY <1>1, <1>2, <1>3, <1>4 DEF merged

\* Keeping is transitive.
LEMMA KeepsKept ==
  ASSUME NEW a, NEW b, NEW c, Keeps(a, b), Keeps(b, c)
  PROVE  Keeps(a, c)
  BY DEF Keeps

\* The tools at A that have the name of the one at t.
Namesakes(h, t, A) == {h[u] : u \in {v \in A : h[v].name = h[t].name}}

\* After the tools at us were taken into the list ts.
ToolsTaken(h, ts, us, acc) ==
  /\ acc.tools \in Seq(Address)
  /\ DOMAIN acc.heap = DOMAIN h
  /\ \A t \in DOMAIN h : /\ acc.heap[t] \in Tool /\ acc.heap[t].name = h[t].name
                         /\ Keeps(acc.heap[t], h[t])
  /\ Range(ts) \subseteq Range(acc.tools) /\ Range(acc.tools) \subseteq Range(ts) \cup us
  /\ \A t \in DOMAIN h \ (Range(ts) \cup us) : acc.heap[t] = h[t]
  /\ \A t \in Range(ts) \cup us : DrawnFrom(acc.heap[t], Namesakes(h, t, Range(ts) \cup us))
  /\ \A u \in us : \E t \in Range(acc.tools) : h[t].name = h[u].name /\ Keeps(acc.heap[t], h[u])

\* One more tool is taken.
LEMMA OneToolTaken ==
  ASSUME NEW h, NEW ts, NEW us, NEW acc, NEW u \in DOMAIN h,
         DOMAIN h \subseteq Address, \A t \in DOMAIN h : h[t] \in Tool,
         Range(ts) \cup us \subseteq DOMAIN h, ToolsTaken(h, ts, us, acc)
  PROVE  ToolsTaken(h, ts, us \cup {u}, TakeTool(acc, u))
  <1> DEFINE next == TakeTool(acc, u)
             hits == Indices(acc.tools, acc.heap, acc.heap[u].name)
             all == Range(ts) \cup us
             more == all \cup {u}
  <1>0. Range(ts) \cup (us \cup {u}) = more
    OBVIOUS
  <1>1. /\ acc.tools \in Seq(Address) /\ DOMAIN acc.heap = DOMAIN h
        /\ \A t \in DOMAIN h : /\ acc.heap[t] \in Tool /\ acc.heap[t].name = h[t].name
                               /\ Keeps(acc.heap[t], h[t])
        /\ Range(ts) \subseteq Range(acc.tools) /\ Range(acc.tools) \subseteq all
    BY DEF ToolsTaken
  <1>2. \A t \in more : DrawnFrom(acc.heap[t], Namesakes(h, t, more))
    <2> SUFFICES ASSUME NEW t \in more PROVE DrawnFrom(acc.heap[t], Namesakes(h, t, more))
      OBVIOUS
    <2>1. CASE t \in all
      <3>1. DrawnFrom(acc.heap[t], Namesakes(h, t, all))
        BY <2>1 DEF ToolsTaken
      <3>2. Namesakes(h, t, all) \subseteq Namesakes(h, t, more)
        BY DEF Namesakes
      <3> QED BY <3>1, <3>2, DrawnFromMore
    <2>2. CASE t \notin all
      <3>1. acc.heap[t] = h[t] /\ h[t] \in Namesakes(h, t, more)
        BY <2>2 DEF ToolsTaken, Namesakes
      <3> QED BY <3>1, DrawnFromItself
    <2> QED BY <2>1, <2>2
  <1>3. CASE hits = {}
    <2>1. next.heap = acc.heap /\ next.tools = Append(acc.tools, u)
      BY <1>3 DEF TakeTool
    <2>2. next.tools \in Seq(Address) /\ Range(next.tools) = Range(acc.tools) \cup {u}
      BY <1>1, <2>1, AppendIs
    <2>3. \A w \in us \cup {u} : \E t \in Range(next.tools) :
            h[t].name = h[w].name /\ Keeps(next.heap[t], h[w])
      BY <1>1, <2>1, <2>2 DEF ToolsTaken
    <2>4. \A t \in DOMAIN h \ more : next.heap[t] = h[t]
      BY <2>1 DEF ToolsTaken
    <2>5. \A t \in more : DrawnFrom(next.heap[t], Namesakes(h, t, more))
      BY <1>2, <2>1
    <2>6. Range(ts) \subseteq Range(next.tools) /\ Range(next.tools) \subseteq more
      BY <1>1, <2>2
    <2>7. /\ DOMAIN next.heap = DOMAIN h
          /\ \A t \in DOMAIN h : next.heap[t] \in Tool /\ next.heap[t].name = h[t].name
                                /\ Keeps(next.heap[t], h[t])
      BY <1>1, <2>1
    <2>8. ToolsTaken(h, ts, us \cup {u}, next)
      <3> HIDE DEF next, hits, more, all
      <3> QED BY <1>0, <2>2, <2>3, <2>4, <2>5, <2>6, <2>7 DEF ToolsTaken
    <2> QED BY <2>8 DEF next
  <1>4. CASE hits # {}
    <2> DEFINE old == acc.tools[LastOf(hits)]
               merged == MergeTool(acc.heap[old], acc.heap[u])
    <2>1. next.heap = [acc.heap EXCEPT ![old] = merged] /\ next.tools = acc.tools
      BY <1>4 DEF TakeTool
    <2>2. old \in Range(acc.tools) /\ acc.heap[old].name = acc.heap[u].name
      <3>1. hits \in SUBSET (1..Len(acc.tools)) /\ Len(acc.tools) \in Nat
        BY <1>1, RangeIs DEF Indices
      <3>2. LastOf(hits) \in hits
        <4> HIDE DEF hits
        <4> QED BY <1>4, <3>1, LastIs
      <3>3. LastOf(hits) \in 1..Len(acc.tools) /\ acc.heap[acc.tools[LastOf(hits)]].name = acc.heap[u].name
        <4>1. \A i \in hits : acc.heap[acc.tools[i]].name = acc.heap[u].name
          BY DEF Indices
        <4> HIDE DEF hits
        <4> QED BY <3>1, <3>2, <4>1
      <3> HIDE DEF hits
      <3> QED BY <1>1, <3>3, RangeIs
    <2> HIDE DEF next, old, hits
    <2>3. old \in DOMAIN h /\ old \in all /\ h[old].name = h[u].name
      BY <1>1, <2>2
    <2>4. /\ merged \in Tool /\ merged.name = h[old].name
          /\ Keeps(merged, acc.heap[old]) /\ Keeps(merged, acc.heap[u])
          /\ DrawnFrom(merged, {acc.heap[old], acc.heap[u]})
      BY <1>1, <2>3, MergeToolIs
    <2> HIDE DEF merged
    <2>5. /\ DOMAIN next.heap = DOMAIN h /\ next.heap[old] = merged
          /\ \A t \in DOMAIN h : t # old => next.heap[t] = acc.heap[t]
      BY <1>1, <2>1, <2>3
    <2>6. \A t \in DOMAIN h : Keeps(next.heap[t], acc.heap[t])
      <3>1. \A t \in DOMAIN h : Keeps(acc.heap[t], acc.heap[t])
        BY DEF Keeps
      <3> QED BY <2>4, <2>5, <3>1
    <2>7. \A t \in DOMAIN h : next.heap[t] \in Tool /\ next.heap[t].name = h[t].name
                              /\ Keeps(next.heap[t], h[t])
      BY <1>1, <2>4, <2>5, <2>6, KeepsKept
    <2>8. \A t \in more : DrawnFrom(next.heap[t], Namesakes(h, t, more))
      <3> SUFFICES ASSUME NEW t \in more PROVE DrawnFrom(next.heap[t], Namesakes(h, t, more))
        OBVIOUS
      <3>1. CASE t = old
        <4>1. Namesakes(h, u, more) = Namesakes(h, old, more)
          BY <2>3 DEF Namesakes
        <4>2. DrawnFrom(acc.heap[old], Namesakes(h, old, more)) /\ DrawnFrom(acc.heap[u], Namesakes(h, u, more))
          BY <1>2, <2>3
      <4> QED BY <2>4, <2>5, <3>1, <4>1, <4>2, DrawnFromBoth
      <3>2. CASE t # old
        <4>1. next.heap[t] = acc.heap[t]
          BY <2>5, <3>2
      <4> QED BY <1>2, <4>1
      <3> QED BY <3>1, <3>2
    <2>9. \A w \in us \cup {u} : \E t \in Range(next.tools) :
            h[t].name = h[w].name /\ Keeps(next.heap[t], h[w])
      <3>1. ASSUME NEW w \in us
            PROVE  \E t \in Range(next.tools) : h[t].name = h[w].name /\ Keeps(next.heap[t], h[w])
        <4>1. PICK t \in Range(acc.tools) : h[t].name = h[w].name /\ Keeps(acc.heap[t], h[w])
          BY DEF ToolsTaken
        <4>2. Keeps(next.heap[t], h[w])
          BY <1>1, <2>6, <4>1, KeepsKept
        <4> QED BY <2>1, <4>1, <4>2
      <3>2. Keeps(next.heap[old], h[u])
        BY <1>1, <2>4, <2>5, KeepsKept
      <3> QED BY <2>1, <2>2, <2>3, <3>1, <3>2
    <2>10. \A t \in DOMAIN h \ more : next.heap[t] = h[t]
      BY <2>3, <2>5 DEF ToolsTaken
    <2>11. Range(ts) \subseteq Range(next.tools) /\ Range(next.tools) \subseteq more
      BY <1>1, <2>1
    <2>12. next.tools \in Seq(Address)
      BY <1>1, <2>1
    <2>13. ToolsTaken(h, ts, us \cup {u}, next)
      <3> HIDE DEF more, all
      <3> QED BY <1>0, <2>5, <2>7, <2>8, <2>9, <2>10, <2>11, <2>12 DEF ToolsTaken
    <2> QED BY <2>13 DEF next
  <1> QED BY <1>3, <1>4

\* What consolidation makes of two lists of tools.
LEMMA ToolsFolded ==
  ASSUME NEW h, NEW ts \in Seq(Address), NEW list \in Seq(Address),
         DOMAIN h \subseteq Address, \A t \in DOMAIN h : h[t] \in Tool,
         Range(ts) \cup Range(list) \subseteq DOMAIN h
  PROVE  ToolsTaken(h, ts, Range(list), Folded(TakeTool, [heap |-> h, tools |-> ts], list))
  <1> DEFINE n == Len(list)
             start == [heap |-> h, tools |-> ts]
             First(k) == {list[i] : i \in 1..k}
  <1>1. n \in Nat /\ First(n) = Range(list) /\ \A k \in 1..n : list[k] \in DOMAIN h
    BY RangeIs
  <1>2. PICK f : ToolSteps(f, start, list, n) /\ Folded(TakeTool, start, list) = f[n]
    <2> HIDE DEF start
    <2> QED BY <1>1, ToolStepsExist
  <1> DEFINE S == {k \in 0..n : ToolsTaken(h, ts, First(k), f[k])}
  <1>3. 0 \in S
    <2>1. First(0) = {} /\ f[0] = start
      BY <1>2 DEF ToolSteps
    <2>2. \A t \in DOMAIN h : Keeps(h[t], h[t])
      BY DEF Keeps
    <2>3. \A t \in Range(ts) : DrawnFrom(h[t], Namesakes(h, t, Range(ts)))
      <3> SUFFICES ASSUME NEW t \in Range(ts)
                   PROVE  DrawnFrom(h[t], Namesakes(h, t, Range(ts)))
        OBVIOUS
      <3>1. h[t] \in Namesakes(h, t, Range(ts))
        BY DEF Namesakes
      <3> QED BY <3>1, DrawnFromItself
    <2>4. ToolsTaken(h, ts, {}, start)
      BY <2>2, <2>3 DEF ToolsTaken
    <2> HIDE DEF start, First
    <2>5. ToolsTaken(h, ts, First(0), f[0])
      BY <2>1, <2>4
    <2> HIDE <2>1, <2>4
    <2> QED BY <1>1, <2>5
  <1>4. ASSUME NEW k \in 1..n, k - 1 \in S
        PROVE  k \in S
    <2>1. First(k) = First(k - 1) \cup {list[k]}
      OBVIOUS
    <2>2. Range(ts) \cup First(k - 1) \subseteq DOMAIN h
      BY <1>1
    <2>3. f[k] = TakeTool(f[k - 1], list[k])
      BY <1>2 DEF ToolSteps
    <2>4. ToolsTaken(h, ts, First(k - 1), f[k - 1])
      BY <1>4
    <2> HIDE DEF First, start
    <2>5. ToolsTaken(h, ts, First(k - 1) \cup {list[k]}, TakeTool(f[k - 1], list[k]))
      BY <1>1, <2>2, <2>4, OneToolTaken
    <2>6. ToolsTaken(h, ts, First(k), f[k])
      BY <2>1, <2>3, <2>5
    <2>7. k \in 0..n
      BY <1>1
    <2> HIDE DEF n
    <2> QED BY <2>6, <2>7
  <1> HIDE DEF S
  <1>5. 0..n \subseteq S
    BY <1>1, <1>3, <1>4, Steps0
  <1>6. n \in S
    BY <1>1, <1>5
  <1> QED BY <1>1, <1>2, <1>6 DEF S

-----------------------------------------------------------------------------
(* What is known of an agent                                               *)

\* The declarations in the first m files of a scan rp, by file and place in it.
Decls(rp, m) == {p \in (1..m) \X Nat : p[2] \in DOMAIN rp.files[p[1]].agents}
Decl(rp, p) == rp.files[p[1]].agents[p[2]]

\* The agent that a file's adapter makes of a declaration.
Raw(rp, p) ==
  LET d == Decl(rp, p) IN
  [name |-> d.name, instance |-> d.instance,
   tools |-> [k \in DOMAIN d.uses |-> <<p[1], p[2], d.uses[k]>>],
   ids |-> [k \in DOMAIN d.runsAs |-> <<p[1], 0, d.runsAs[k]>>],
   servers |-> d.servers, inputs |-> d.inputs, delegates |-> d.delegates,
   policy |-> d.policy, manifest |-> rp.files[p[1]].manifest, file |-> p[1]]

\* The tools called n and the identities called n that the declarations P refer to.
UsedTools(rp, p) == {rp.files[p[1]].tools[k] : k \in Range(Decl(rp, p).uses)}
SaidTools(rp, P, n) == {x \in UNION {UsedTools(rp, p) : p \in P} : x.name = n}
UsedIds(rp, p) == {rp.files[p[1]].identities[k] : k \in Range(Decl(rp, p).runsAs)}
SaidIds(rp, P, n) == {x \in UNION {UsedIds(rp, p) : p \in P} : x.name = n}

\* What the graph is to know of identities after m files and r resolved agents; GloballyKnown
\* and EverKnown of the scan rp.
KnownBy(rp, m, r) ==
  (UNION {{rp.files[i].identities[k] : k \in 1..rp.files[i].global} : i \in 1..m}) \cup
  UNION {Range(rp.resolved[q].identities) : q \in 1..r}
KnownIn(rp, n) == {x \in KnownBy(rp, Len(rp.files), Len(rp.resolved)) : x.name = n}
EverIn(rp, n) ==
  KnownIn(rp, n) \cup
  {x \in UNION {Range(rp.files[i].identities) : i \in DOMAIN rp.files} : x.name = n}

OneProviderIn(rp, n, p) ==
  /\ KnownIn(rp, n) # {}
  /\ \A x \in KnownIn(rp, n) : x.provider = p
  /\ \A x \in EverIn(rp, n) : x.provider \in {p, "generic"}

\* P are the declarations of the agent a, Q the resolved agents that it is.  Its tools are
\* its own, and say what was declared of them for it or resolved for it.
ToolsAre(rp, a, P, Q, h) ==
  \A t \in Range(a.tools) :
    /\ t \in DOMAIN h
    /\ IF t[1] # 0 THEN <<t[1], t[2]>> \in P /\ DrawnFrom(h[t], SaidTools(rp, P, h[t].name))
       ELSE t[2] \in Q /\ h[t] \in Range(rp.resolved[t[2]].tools)

ToolsKept(rp, a, P, h) ==
  \A n \in ToolNames : \A d \in SaidTools(rp, P, n) :
    \/ \E x \in SaidTools(rp, P, n) : x.kind = "placeholder"
    \/ \E t \in Range(a.tools) : t[1] # 0 /\ h[t].name = n /\ Keeps(h[t], d)

\* An identity the graph knows nothing of is its own.
IdsAre(rp, a, P, v) ==
  \A x \in Range(a.ids) :
    /\ x \in DOMAIN v
    /\ KnownIn(rp, v[x].name) = {} =>
         /\ \E p \in P : x[1] = p[1] /\ x[3] \in Range(Decl(rp, p).runsAs)
         /\ v[x].roles \subseteq UNION {y.roles : y \in SaidIds(rp, P, v[x].name)}

IdsKept(rp, a, P, v) ==
  \A n \in IdentityNames : \A d \in SaidIds(rp, P, n) :
    \E x \in Range(a.ids) : v[x].name = n /\ d.roles \subseteq v[x].roles

\* Those of its declarations that have a server called n.
Serving(rp, P, n) == {p \in P : \E s \in Range(Decl(rp, p).servers) : s.name = n}

ServersAre(rp, a, P, Q) ==
  \A t \in Range(a.servers) :
    IF Serving(rp, P, t.name) = {}
    THEN \E q \in Q : t \in Range(rp.resolved[q].servers)
    ELSE \E p \in Serving(rp, P, t.name) :
           /\ t \in Range(Decl(rp, p).servers)
           /\ \A e \in Serving(rp, P, t.name) : p[1] <= e[1]

ServersCover(rp, a, P) ==
  \A p \in P : \A s \in Range(Decl(rp, p).servers) : \E t \in Range(a.servers) : t.name = s.name

InputsAre(rp, a, P) == \A p \in P : Decl(rp, p).inputs \subseteq a.inputs

Saying(rp, P) == {p \in P : Decl(rp, p).delegates # {}}

DelegatesAre(rp, a, P, Q) ==
  /\ Saying(rp, P) # {} => \E p \in Saying(rp, P) : /\ Decl(rp, p).delegates \subseteq a.delegates
                                                   /\ \A e \in Saying(rp, P) : e[1] <= p[1]
  /\ a.delegates \subseteq (UNION {Decl(rp, p).delegates : p \in P}) \cup
                           UNION {rp.resolved[q].delegates : q \in Q}

InSource(rp, P) == {p \in P : ~rp.files[p[1]].manifest}

PlaceIs(rp, a, P) ==
  IF InSource(rp, P) = {} THEN P # {} => a.manifest
  ELSE /\ ~a.manifest
       /\ \E p \in InSource(rp, P) : a.file = p[1]
       /\ \A p \in InSource(rp, P) : a.file <= p[1]

Limiting(rp, P) == {p \in P : Decl(rp, p).policy.limits # Nothing}

LimitsAre(rp, a, P) ==
  Limiting(rp, P) # {} => \E p \in Limiting(rp, P) : a.policy = Decl(rp, p).policy

Facts(rp, a, P, Q, h, v) ==
  /\ a \in Agent
  /\ ToolsAre(rp, a, P, Q, h) /\ ToolsKept(rp, a, P, h)
  /\ IdsAre(rp, a, P, v) /\ IdsKept(rp, a, P, v)
  /\ ServersAre(rp, a, P, Q) /\ ServersCover(rp, a, P) /\ InputsAre(rp, a, P)
  /\ DelegatesAre(rp, a, P, Q) /\ PlaceIs(rp, a, P) /\ LimitsAre(rp, a, P)

-----------------------------------------------------------------------------
(* What is known of the graph                                              *)

\* Those of the declarations D that are of the agent a, and the resolved agents of R that are.
Mine(rp, a, D) == {p \in D : SameKey(Decl(rp, p), a)}
MyResolved(rp, a, R) == {q \in R : rp.resolved[q].name = a.name}

\* A consolidated agent is declared, or resolved under a name nobody declares.
AgentIs(rp, a, D, R, h, v) ==
  /\ Facts(rp, a, Mine(rp, a, D), MyResolved(rp, a, R), h, v)
  /\ Mine(rp, a, D) = {} => /\ \A p \in D : Decl(rp, p).name # a.name
                            /\ MyResolved(rp, a, R) # {}

\* A list of agents as the adapters made them, of the declarations at pos.
Pending(rp, list, pos, h, v) ==
  /\ list \in Seq(Agent) /\ pos \in Seq(Nat \X Nat) /\ DOMAIN list = DOMAIN pos
  /\ \A n \in DOMAIN pos :
       list[n] = Raw(rp, pos[n]) /\ Facts(rp, list[n], {pos[n]}, {}, h, v)
  /\ \A k, n \in DOMAIN pos : k < n => pos[k][1] <= pos[n][1] /\ pos[k] # pos[n]

\* Consolidated agents.
AgentsAre(rp, list, D, R, h, v) ==
  /\ list \in Seq(Agent)
  /\ \A n \in DOMAIN list : AgentIs(rp, list[n], D, R, h, v)
  /\ \A k, n \in DOMAIN list : SameKey(list[k], list[n]) => k = n
  /\ \A p \in D : \E n \in DOMAIN list : SameKey(Decl(rp, p), list[n])
  /\ \A q \in R : \E n \in DOMAIN list : /\ list[n].name = rp.resolved[q].name
                                         /\ rp.resolved[q].delegates \subseteq list[n].delegates

\* Objects are of the first m files and the first r resolved agents.
PlacesAre(f, m, r) ==
  \A x \in DOMAIN f : x \in Address /\ IF x[1] = 0 THEN x[2] \in 1..r ELSE x[1] \in 1..m

HeapIs(h) == \A t \in DOMAIN h : h[t] \in Tool

\* What an identity is called is never changed; its roles and provider are known under this name.
VaultIs(rp, v) ==
  \A x \in DOMAIN v :
    /\ v[x] \in Identity
    /\ v[x].name = IF x[1] = 0 THEN rp.resolved[x[2]].identities[x[3]].name
                   ELSE rp.files[x[1]].identities[x[3]].name
    /\ v[x].roles \subseteq UNION {y.roles : y \in EverIn(rp, v[x].name)}
    /\ \E y \in EverIn(rp, v[x].name) : y.provider = v[x].provider

GlobalsAre(rp, v, gs) ==
  /\ gs \in Seq(Address)
  /\ \A g \in Range(gs) :
       g \in DOMAIN v /\ \E y \in KnownIn(rp, v[g].name) : y.provider = v[g].provider

GlobalsCover(rp, v, gs, m, r) ==
  \A y \in KnownBy(rp, m, r) :
    \E g \in Range(gs) : /\ v[g].name = y.name /\ v[g].provider = y.provider
                         /\ y.roles \subseteq v[g].roles

GlobalsDiffer(v, gs) ==
  \A k, l \in DOMAIN gs :
    v[gs[k]].name = v[gs[l]].name /\ v[gs[k]].provider = v[gs[l]].provider => k = l

\* x has all that the graph knows of it.
Knows(rp, v, x) ==
  \A p : OneProviderIn(rp, v[x].name, p) =>
           \A y \in KnownIn(rp, v[x].name) : y.roles \subseteq v[x].roles

GlobalsKnow(rp, v, gs) ==
  /\ \A g \in Range(gs) : Knows(rp, v, g)
  /\ \A y \in KnownBy(rp, Len(rp.files), Len(rp.resolved)) :
       \E g \in Range(gs) : v[g].name = y.name

\* a has the identities its tools and servers name.
LinkedIs(rp, a, h, v) ==
  /\ \A x \in Range(a.ids) : Knows(rp, v, x)
  /\ \A n \in {h[t].identity : t \in Range(a.tools)} \cup {s.identity : s \in Range(a.servers)} :
       n # Nothing /\ KnownIn(rp, n) # {} => \E x \in Range(a.ids) : v[x].name = n
-----------------------------------------------------------------------------
(* Merging identities                                                      *)

\* Identities that are merged: of one name, and among the graph's of one provider too.
Alike(v, x, y, strict) ==
  v[x].name = v[y].name /\ (strict => v[x].provider = v[y].provider)

Differing(v, list, strict) ==
  \A k, l \in DOMAIN list : Alike(v, list[k], list[l], strict) => k = l

\* The roles of the identities at A that have the name of the one at x.
RolesOf(v, A, x) == UNION {v[y].roles : y \in {z \in A : v[z].name = v[x].name}}

\* After the identities at us were taken into the list is, in the vault v.
IdsTaken(v, is, us, w, list, strict) ==
  /\ list \in Seq(Address) /\ DOMAIN w = DOMAIN v
  /\ \A x \in DOMAIN v : /\ w[x] \in Identity
                         /\ w[x].name = v[x].name /\ w[x].provider = v[x].provider
                         /\ v[x].roles \subseteq w[x].roles
  /\ Range(is) \subseteq Range(list) /\ Range(list) \subseteq Range(is) \cup us
  /\ \A x \in DOMAIN v \ (Range(is) \cup us) : w[x] = v[x]
  /\ \A x \in Range(is) \cup us : w[x].roles \subseteq RolesOf(v, Range(is) \cup us, x)
  /\ \A u \in us : \E g \in Range(list) : Alike(v, g, u, strict) /\ v[u].roles \subseteq w[g].roles
  /\ strict /\ Differing(v, is, strict) => Differing(v, list, strict)

\* One identity is added to the list, or merged into one of it.
Absorbs(w, list, u, w2, list2, strict) ==
  \/ /\ \A k \in DOMAIN list : ~Alike(w, list[k], u, strict)
     /\ w2 = w /\ list2 = Append(list, u)
  \/ \E old \in Range(list) :
       /\ Alike(w, old, u, strict)
       /\ w2 = [w EXCEPT ![old] = MergeIdentity(w[old], w[u])] /\ list2 = list

\* A merged identity has the roles of both.
LEMMA MergeIdentityIs ==
  ASSUME NEW old \in Identity, NEW new \in Identity
  PROVE  LET merged == MergeIdentity(old, new) IN
         /\ merged \in Identity /\ merged.name = old.name /\ merged.provider = old.provider
         /\ merged.roles = old.roles \cup new.roles
  BY DEF MergeIdentity, Identity

\* One more identity is taken, by an agent or by the graph (which also asks for the provider).
LEMMA OneIdTaken ==
  ASSUME NEW v, NEW is, NEW us, NEW w, NEW list, NEW strict \in BOOLEAN, NEW u \in DOMAIN v,
         NEW w2, NEW list2,
         DOMAIN v \subseteq Address, Range(is) \cup us \subseteq DOMAIN v,
         IdsTaken(v, is, us, w, list, strict), Absorbs(w, list, u, w2, list2, strict)
  PROVE  IdsTaken(v, is, us \cup {u}, w2, list2, strict)
  <1> DEFINE all == Range(is) \cup us
             more == Range(is) \cup (us \cup {u})
  <1>1. /\ list \in Seq(Address) /\ DOMAIN w = DOMAIN v
        /\ \A x \in DOMAIN v : /\ w[x] \in Identity
                               /\ w[x].name = v[x].name /\ w[x].provider = v[x].provider
                               /\ v[x].roles \subseteq w[x].roles
        /\ Range(is) \subseteq Range(list) /\ Range(list) \subseteq all
        /\ \A x \in DOMAIN v \ all : w[x] = v[x]
    BY DEF IdsTaken
  <1>2. /\ Len(list) \in Nat /\ DOMAIN list = 1..Len(list)
        /\ \A k \in 1..Len(list) : list[k] \in Range(list) /\ list[k] \in DOMAIN v
        /\ all \subseteq DOMAIN v /\ more \subseteq DOMAIN v /\ all \subseteq more /\ u \in more
    BY <1>1, RangeIs
  <1>3. \A x \in more : w[x].roles \subseteq RolesOf(v, more, x)
    <2> SUFFICES ASSUME NEW x \in more PROVE w[x].roles \subseteq RolesOf(v, more, x)
      OBVIOUS
    <2>1. CASE x \in all
      <3>1. w[x].roles \subseteq RolesOf(v, all, x)
        BY <2>1 DEF IdsTaken
      <3>2. RolesOf(v, all, x) \subseteq RolesOf(v, more, x)
        BY <1>2 DEF RolesOf
      <3> QED BY <3>1, <3>2
    <2>2. CASE x \notin all
      BY <1>1, <1>2, <2>2 DEF RolesOf
    <2> QED BY <2>1, <2>2
  <1>4. \A x, y \in DOMAIN v : Alike(w, x, y, strict) <=> Alike(v, x, y, strict)
    BY <1>1 DEF Alike
  <1>5. CASE /\ \A k \in DOMAIN list : ~Alike(w, list[k], u, strict)
             /\ w2 = w /\ list2 = Append(list, u)
    <2>1. /\ list2 \in Seq(Address) /\ Range(list2) = Range(list) \cup {u}
          /\ DOMAIN list2 = (1..Len(list)) \cup {Len(list) + 1}
          /\ \A k \in 1..Len(list) : list2[k] = list[k]
          /\ list2[Len(list) + 1] = u
      <3>1. Len(list2) = Len(list) + 1 /\ list2 \in Seq(Address)
        BY <1>1, <1>5, AppendProperties
      <3>2. Range(list2) = Range(list) \cup {u}
        BY <1>1, <1>5, AppendIs
      <3>3. /\ \A k \in 1..Len(list) : list2[k] = list[k]
            /\ list2[Len(list) + 1] = u
        BY <1>1, <1>5, AppendProperties
      <3>4. DOMAIN list2 = 1..(Len(list) + 1)
        BY <3>1, RangeIs
      <3> QED BY <1>2, <3>1, <3>2, <3>3, <3>4
    <2>2. \A o \in us \cup {u} : \E g \in Range(list2) :
            Alike(v, g, o, strict) /\ v[o].roles \subseteq w2[g].roles
      <3>1. Alike(v, u, u, strict)
        BY DEF Alike
      <3> QED BY <1>1, <1>5, <2>1, <3>1 DEF IdsTaken
    <2>3. strict /\ Differing(v, is, strict) => Differing(v, list2, strict)
      <3> SUFFICES ASSUME strict, Differing(v, is, strict), NEW k \in DOMAIN list2,
                          NEW l \in DOMAIN list2, Alike(v, list2[k], list2[l], strict)
                   PROVE  k = l
        BY DEF Differing
      <3>1. \A i \in 1..Len(list) : ~Alike(v, list[i], u, strict)
        BY <1>2, <1>4, <1>5
      <3>2. \A i \in 1..Len(list) : ~Alike(v, u, list[i], strict)
        BY <3>1 DEF Alike
      <3>3. \A i, j \in 1..Len(list) : Alike(v, list[i], list[j], strict) => i = j
        BY <1>2 DEF IdsTaken, Differing
      <3> QED BY <2>1, <3>1, <3>2, <3>3
    <2>4. \A x \in more : w2[x].roles \subseteq RolesOf(v, more, x)
      BY <1>3, <1>5
    <2>5. /\ DOMAIN w2 = DOMAIN v
          /\ \A x \in DOMAIN v : /\ w2[x] \in Identity
                                 /\ w2[x].name = v[x].name /\ w2[x].provider = v[x].provider
                                 /\ v[x].roles \subseteq w2[x].roles
          /\ \A x \in DOMAIN v \ more : w2[x] = v[x]
      BY <1>1, <1>5
    <2>6. Range(is) \subseteq Range(list2) /\ Range(list2) \subseteq more
      BY <1>1, <2>1
    <2> QED BY <2>1, <2>2, <2>3, <2>4, <2>5, <2>6 DEF IdsTaken
  <1>6. ASSUME NEW old \in Range(list), Alike(w, old, u, strict),
               w2 = [w EXCEPT ![old] = MergeIdentity(w[old], w[u])], list2 = list
        PROVE  IdsTaken(v, is, us \cup {u}, w2, list2, strict)
    <2>1. old \in DOMAIN v /\ old \in more /\ Alike(v, old, u, strict) /\ v[old].name = v[u].name
      BY <1>1, <1>2, <1>4, <1>6 DEF Alike
    <2>2. /\ w2[old] \in Identity /\ w2[old].name = w[old].name
          /\ w2[old].provider = w[old].provider /\ w2[old].roles = w[old].roles \cup w[u].roles
      BY <1>1, <1>6, <2>1, MergeIdentityIs
    <2>3. DOMAIN w2 = DOMAIN v /\ \A x \in DOMAIN v : x # old => w2[x] = w[x]
      BY <1>1, <1>6, <2>1
    <2>4. \A x \in DOMAIN v : /\ w2[x] \in Identity /\ w[x].roles \subseteq w2[x].roles
                              /\ w2[x].name = v[x].name /\ w2[x].provider = v[x].provider
                              /\ v[x].roles \subseteq w2[x].roles
      BY <1>1, <2>2, <2>3
    <2>5. \A x \in DOMAIN v \ more : w2[x] = v[x]
      BY <1>1, <2>1, <2>3
    <2>6. \A x \in more : w2[x].roles \subseteq RolesOf(v, more, x)
      <3>1. RolesOf(v, more, old) = RolesOf(v, more, u)
        BY <2>1 DEF RolesOf
      <3>2. w2[old].roles \subseteq RolesOf(v, more, old)
        BY <1>2, <1>3, <2>1, <2>2, <3>1
      <3> HIDE DEF more
      <3> QED BY <1>2, <1>3, <2>3, <3>2
    <2>7. \A o \in us \cup {u} : \E g \in Range(list2) :
            Alike(v, g, o, strict) /\ v[o].roles \subseteq w2[g].roles
      <3>1. ASSUME NEW o \in us
            PROVE  \E g \in Range(list2) : Alike(v, g, o, strict) /\ v[o].roles \subseteq w2[g].roles
        <4>1. PICK g \in Range(list) : Alike(v, g, o, strict) /\ v[o].roles \subseteq w[g].roles
          BY DEF IdsTaken
        <4> QED BY <1>1, <1>2, <1>6, <2>4, <4>1
      <3>2. v[u].roles \subseteq w2[old].roles
        BY <1>1, <2>2
      <3> QED BY <1>6, <2>1, <3>1, <3>2
    <2>8. list2 \in Seq(Address) /\ Range(is) \subseteq Range(list2) /\ Range(list2) \subseteq more
      BY <1>1, <1>2, <1>6
    <2>9. strict /\ Differing(v, is, strict) => Differing(v, list2, strict)
      BY <1>6 DEF IdsTaken
    <2> QED BY <2>3, <2>4, <2>5, <2>6, <2>7, <2>8, <2>9 DEF IdsTaken
  <1> QED BY <1>5, <1>6 DEF Absorbs

LEMMA NoIdTaken ==
  ASSUME NEW v, NEW is \in Seq(Address), NEW strict \in BOOLEAN,
         \A x \in DOMAIN v : v[x] \in Identity, Range(is) \subseteq DOMAIN v
  PROVE  IdsTaken(v, is, {}, v, is, strict)
  <1>1. \A x \in Range(is) : v[x].roles \subseteq RolesOf(v, Range(is) \cup {}, x)
    BY DEF RolesOf
  <1> QED BY <1>1 DEF IdsTaken

\* What consolidation makes of two lists of identities.
LEMMA IdsFolded ==
  ASSUME NEW v, NEW is \in Seq(Address), NEW list \in Seq(Address),
         DOMAIN v \subseteq Address, \A x \in DOMAIN v : v[x] \in Identity,
         Range(is) \cup Range(list) \subseteq DOMAIN v
  PROVE  LET acc == Folded(TakeIdentity, [vault |-> v, ids |-> is], list) IN
         IdsTaken(v, is, Range(list), acc.vault, acc.ids, FALSE)
  <1> DEFINE n == Len(list)
             start == [vault |-> v, ids |-> is]
             First(k) == {list[i] : i \in 1..k}
  <1>1. n \in Nat /\ First(n) = Range(list) /\ \A k \in 1..n : list[k] \in DOMAIN v
    BY RangeIs
  <1>2. PICK f : IdentitySteps(f, start, list, n) /\ Folded(TakeIdentity, start, list) = f[n]
    <2> HIDE DEF start
    <2> QED BY <1>1, IdentityStepsExist
  <1> DEFINE Done(k) == IdsTaken(v, is, First(k), f[k].vault, f[k].ids, FALSE)
             S == {k \in 0..n : Done(k)}
  <1>3. 0 \in S
    <2>1. First(0) = {} /\ f[0].vault = v /\ f[0].ids = is
      BY <1>2 DEF IdentitySteps
    <2>2. IdsTaken(v, is, {}, v, is, FALSE)
      BY NoIdTaken
    <2> HIDE DEF First
    <2>3. Done(0)
      BY <2>1, <2>2
    <2> HIDE DEF Done
    <2> QED BY <1>1, <2>3
  <1>4. ASSUME NEW k \in 1..n, k - 1 \in S
        PROVE  k \in S
    <2> DEFINE acc == f[k - 1]
               u == list[k]
               hits == Indices(acc.ids, acc.vault, acc.vault[u].name)
    <2>1. First(k) = First(k - 1) \cup {u}
      OBVIOUS
    <2>9. Range(is) \cup First(k - 1) \subseteq DOMAIN v
      BY <1>1
    <2>2. f[k] = TakeIdentity(acc, u)
      BY <1>2 DEF IdentitySteps
    <2>3. IdsTaken(v, is, First(k - 1), acc.vault, acc.ids, FALSE)
      BY <1>4
    <2>4. Absorbs(acc.vault, acc.ids, u, f[k].vault, f[k].ids, FALSE)
      <3> HIDE DEF First, acc, u
      <3>1. CASE hits = {}
        <4>1. f[k].vault = acc.vault /\ f[k].ids = Append(acc.ids, u)
          BY <2>2, <3>1 DEF TakeIdentity
        <4> QED BY <3>1, <4>1 DEF Indices, Absorbs, Alike
      <3>2. CASE hits # {}
        <4>1. acc.ids \in Seq(Address)
          BY <2>3 DEF IdsTaken
        <4>2. hits \in SUBSET (1..Len(acc.ids)) /\ Len(acc.ids) \in Nat
          BY <4>1, RangeIs DEF Indices
        <4>3. LastOf(hits) \in hits
          <5> HIDE DEF hits
          <5> QED BY <3>2, <4>2, LastIs
        <4>4. /\ acc.ids[LastOf(hits)] \in Range(acc.ids)
              /\ acc.vault[acc.ids[LastOf(hits)]].name = acc.vault[u].name
          <5>1. \A i \in hits : acc.ids[i] \in Range(acc.ids) /\ acc.vault[acc.ids[i]].name = acc.vault[u].name
            BY DEF Indices, Range
          <5> HIDE DEF hits
          <5> QED BY <4>3, <5>1
        <4>5. /\ f[k].vault = [acc.vault EXCEPT ![acc.ids[LastOf(hits)]] =
                                 MergeIdentity(acc.vault[acc.ids[LastOf(hits)]], acc.vault[u])]
              /\ f[k].ids = acc.ids
          BY <2>2, <3>2 DEF TakeIdentity
        <4> HIDE DEF hits
        <4> QED BY <4>4, <4>5 DEF Absorbs, Alike
      <3> QED BY <3>1, <3>2
    <2>5. u \in DOMAIN v
      BY <1>1
    <2> HIDE DEF First, acc, u
    <2>6. IdsTaken(v, is, First(k - 1) \cup {u}, f[k].vault, f[k].ids, FALSE)
      BY <2>9, <2>3, <2>4, <2>5, OneIdTaken
    <2>7. Done(k)
      BY <2>1, <2>6
    <2>8. k \in 0..n
      BY <1>1
    <2> HIDE DEF Done
    <2> QED BY <2>7, <2>8
  <1> HIDE DEF S
  <1>5. 0..n \subseteq S
    BY <1>1, <1>3, <1>4, Steps0
  <1>6. n \in S
    BY <1>1, <1>5
  <1> QED BY <1>1, <1>2, <1>6 DEF S

\* What becomes of the identities of the graph.
LEMMA GlobalsFolded ==
  ASSUME NEW v, NEW is \in Seq(Address), NEW list \in Seq(Address),
         DOMAIN v \subseteq Address, \A x \in DOMAIN v : v[x] \in Identity,
         Range(is) \cup Range(list) \subseteq DOMAIN v
  PROVE  LET acc == Folded(TakeGlobal, [vault |-> v, list |-> is], list) IN
         IdsTaken(v, is, Range(list), acc.vault, acc.list, TRUE)
  <1> DEFINE n == Len(list)
             start == [vault |-> v, list |-> is]
             First(k) == {list[i] : i \in 1..k}
  <1>1. n \in Nat /\ First(n) = Range(list) /\ \A k \in 1..n : list[k] \in DOMAIN v
    BY RangeIs
  <1>2. PICK f : GlobalSteps(f, start, list, n) /\ Folded(TakeGlobal, start, list) = f[n]
    <2> HIDE DEF start
    <2> QED BY <1>1, GlobalStepsExist
  <1> DEFINE Done(k) == IdsTaken(v, is, First(k), f[k].vault, f[k].list, TRUE)
             S == {k \in 0..n : Done(k)}
  <1>3. 0 \in S
    <2>1. First(0) = {} /\ f[0].vault = v /\ f[0].list = is
      BY <1>2 DEF GlobalSteps
    <2>2. IdsTaken(v, is, {}, v, is, TRUE)
      BY NoIdTaken
    <2> HIDE DEF First
    <2>3. Done(0)
      BY <2>1, <2>2
    <2> HIDE DEF Done
    <2> QED BY <1>1, <2>3
  <1>4. ASSUME NEW k \in 1..n, k - 1 \in S
        PROVE  k \in S
    <2> DEFINE acc == f[k - 1]
               u == list[k]
               same == SameIdentity(acc.list, acc.vault, u)
    <2>1. First(k) = First(k - 1) \cup {u}
      OBVIOUS
    <2>9. Range(is) \cup First(k - 1) \subseteq DOMAIN v
      BY <1>1
    <2>2. f[k] = TakeGlobal(acc, u)
      BY <1>2 DEF GlobalSteps
    <2>3. IdsTaken(v, is, First(k - 1), acc.vault, acc.list, TRUE)
      BY <1>4
    <2>4. Absorbs(acc.vault, acc.list, u, f[k].vault, f[k].list, TRUE)
      <3> HIDE DEF First, acc, u
      <3>1. CASE same = {}
        <4>1. f[k].vault = acc.vault /\ f[k].list = Append(acc.list, u)
          BY <2>2, <3>1 DEF TakeGlobal
        <4> QED BY <3>1, <4>1 DEF SameIdentity, Indices, Absorbs, Alike
      <3>2. CASE same # {}
        <4> DEFINE j == CHOOSE j \in same : TRUE
        <4>1. j \in same
          BY <3>2
        <4>2. /\ acc.list[j] \in Range(acc.list)
              /\ acc.vault[acc.list[j]].name = acc.vault[u].name
              /\ acc.vault[acc.list[j]].provider = acc.vault[u].provider
          BY <4>1 DEF Range, SameIdentity, Indices
        <4>3. /\ f[k].vault = [acc.vault EXCEPT ![acc.list[j]] =
                                 MergeIdentity(acc.vault[acc.list[j]], acc.vault[u])]
              /\ f[k].list = acc.list
          BY <2>2, <3>2 DEF TakeGlobal
        <4> HIDE DEF j, same
        <4> QED BY <4>2, <4>3 DEF Absorbs, Alike
      <3> QED BY <3>1, <3>2
    <2>5. u \in DOMAIN v
      BY <1>1
    <2> HIDE DEF First, acc, u
    <2>6. IdsTaken(v, is, First(k - 1) \cup {u}, f[k].vault, f[k].list, TRUE)
      BY <2>9, <2>3, <2>4, <2>5, OneIdTaken
    <2>7. Done(k)
      BY <2>1, <2>6
    <2>8. k \in 0..n
      BY <1>1
    <2> HIDE DEF Done
    <2> QED BY <2>7, <2>8
  <1> HIDE DEF S
  <1>5. 0..n \subseteq S
    BY <1>1, <1>3, <1>4, Steps0
  <1>6. n \in S
    BY <1>1, <1>5
  <1> QED BY <1>1, <1>2, <1>6 DEF S

-----------------------------------------------------------------------------
(* Merging servers, and tools that were resolved                           *)

\* What becomes of the servers old when those of new come.
ServersTaken(old, new, list) ==
  /\ list \in Seq(Server)
  /\ old \subseteq Range(list) /\ Range(list) \subseteq old \cup new
  /\ \A s \in new : \E t \in Range(list) : t.name = s.name
  /\ \A t \in Range(list) : t \in old \/ \A s \in old : s.name # t.name

\* What is made of two lists of servers.
LEMMA ServersFolded ==
  ASSUME NEW start \in Seq(Server), NEW list \in Seq(Server)
  PROVE  ServersTaken(Range(start), Range(list), Folded(TakeServer, start, list))
  <1> DEFINE n == Len(list)
             First(k) == {list[i] : i \in 1..k}
  <1>1. n \in Nat /\ First(n) = Range(list) /\ \A k \in 1..n : list[k] \in Server
    BY RangeIs
  <1>2. PICK f : ServerSteps(f, start, list, n) /\ Folded(TakeServer, start, list) = f[n]
    BY <1>1, ServerStepsExist
  <1> DEFINE Done(k) == ServersTaken(Range(start), First(k), f[k])
             S == {k \in 0..n : Done(k)}
  <1>3. 0 \in S
    <2>1. First(0) = {} /\ f[0] = start
      BY <1>2 DEF ServerSteps
    <2>2. ServersTaken(Range(start), {}, start)
      BY DEF ServersTaken
    <2> HIDE DEF First
    <2>3. Done(0)
      BY <2>1, <2>2
    <2> HIDE DEF Done
    <2> QED BY <1>1, <2>3
  <1>4. ASSUME NEW k \in 1..n, k - 1 \in S
        PROVE  k \in S
    <2> DEFINE acc == f[k - 1]
               s == list[k]
    <2>1. First(k) = First(k - 1) \cup {s}
      OBVIOUS
    <2>2. f[k] = TakeServer(acc, s) /\ s \in Server
      BY <1>1, <1>2 DEF ServerSteps
    <2>3. ServersTaken(Range(start), First(k - 1), acc)
      BY <1>4
    <2> HIDE DEF First, acc, s
    <2>4. ServersTaken(Range(start), First(k - 1) \cup {s}, f[k])
      <3>1. acc \in Seq(Server) /\ DOMAIN acc = 1..Len(acc) /\ Range(acc) = {acc[i] : i \in 1..Len(acc)}
        BY <2>3, RangeIs DEF ServersTaken
      <3>2. CASE \E i \in DOMAIN acc : acc[i].name = s.name
        <4>1. f[k] = acc
          BY <2>2, <3>2 DEF TakeServer
        <4>2. \E t \in Range(acc) : t.name = s.name
          BY <3>1, <3>2
        <4> QED BY <2>3, <4>1, <4>2 DEF ServersTaken
      <3>3. CASE ~\E i \in DOMAIN acc : acc[i].name = s.name
        <4>1. f[k] = Append(acc, s)
          BY <2>2, <3>3 DEF TakeServer
        <4>2. f[k] \in Seq(Server) /\ Range(f[k]) = Range(acc) \cup {s}
          BY <2>2, <3>1, <4>1, AppendIs
        <4>3. \A t \in Range(acc) : t.name # s.name
          BY <3>1, <3>3
        <4> QED BY <2>3, <4>2, <4>3 DEF ServersTaken
      <3> QED BY <3>2, <3>3
    <2>5. Done(k)
      BY <2>1, <2>4
    <2>6. k \in 0..n
      BY <1>1
    <2> HIDE DEF Done
    <2> QED BY <2>5, <2>6
  <1> HIDE DEF S
  <1>5. 0..n \subseteq S
    BY <1>1, <1>3, <1>4, Steps0
  <1>6. n \in S
    BY <1>1, <1>5
  <1> QED BY <1>1, <1>2, <1>6 DEF S

\* After the resolved tools at us were taken into the list ts.
ResolvedTaken(h, ts, us, acc) ==
  /\ acc.heap = h /\ acc.tools \in Seq(Address)
  /\ Range(acc.tools) \subseteq ts \cup us
  /\ \A t \in ts : t \in Range(acc.tools) \/ h[t].kind = "placeholder"

\* A list in which one element is replaced.
LEMMA ReplacedIs ==
  ASSUME NEW S, NEW s \in Seq(S), NEW i \in DOMAIN s, NEW x \in S, NEW r, r = [s EXCEPT ![i] = x]
  PROVE  /\ r \in Seq(S) /\ Len(r) = Len(s) /\ DOMAIN r = DOMAIN s
         /\ r[i] = x /\ \A j \in DOMAIN s : j # i => r[j] = s[j]
         /\ Range(r) \subseteq Range(s) \cup {x}
         /\ \A y \in Range(s) : y \in Range(r) \/ y = s[i]
  <1>1. /\ Len(s) \in Nat /\ DOMAIN s = 1..Len(s) /\ \A j \in 1..Len(s) : s[j] \in S
    BY RangeIs
  <1>2. r \in [1..Len(s) -> S]
    BY <1>1
  <1>3. r \in Seq(S)
    BY <1>1, <1>2, SeqDef
  <1>4. Len(r) = Len(s)
    BY <1>1, <1>2, <1>3, LenProperties
  <1> QED BY <1>1, <1>2, <1>3, <1>4 DEF Range

ReplacedAt(S, s, i, x, r) == s \in Seq(S) /\ i \in DOMAIN s /\ x \in S /\ r = [s EXCEPT ![i] = x]

\* The same of a bundle of facts, which the provers do not take apart before they need to.
LEMMA ReplacedAtIs ==
  ASSUME NEW S, NEW s, NEW i, NEW x, NEW r, ReplacedAt(S, s, i, x, r)
  PROVE  /\ r \in Seq(S) /\ Range(r) \subseteq Range(s) \cup {x}
         /\ \A y \in Range(s) : y \in Range(r) \/ y = s[i]
  <1>1. s \in Seq(S) /\ i \in DOMAIN s /\ x \in S /\ r = [s EXCEPT ![i] = x]
    BY DEF ReplacedAt
  <1>2. Len(s) \in Nat /\ DOMAIN s = 1..Len(s) /\ \A j \in 1..Len(s) : s[j] \in S
    BY <1>1, RangeIs
  <1>3. r \in [1..Len(s) -> S]
    BY <1>1, <1>2
  <1>4. r \in Seq(S)
    BY <1>2, <1>3, SeqDef
  <1>5. /\ DOMAIN r = DOMAIN s /\ r[i] = x /\ \A j \in DOMAIN s : j # i => r[j] = s[j]
    BY <1>1
  <1> QED BY <1>1, <1>4, <1>5 DEF Range

\* What enrichment makes of two lists of tools.
LEMMA ResolvedFolded ==
  ASSUME NEW h, NEW ts \in Seq(Address), NEW list \in Seq(Address)
  PROVE  ResolvedTaken(h, Range(ts), Range(list),
                       Folded(TakeResolved, [heap |-> h, tools |-> ts], list))
  <1> DEFINE n == Len(list)
             start == [heap |-> h, tools |-> ts]
             First(k) == {list[i] : i \in 1..k}
  <1>1. n \in Nat /\ First(n) = Range(list) /\ \A k \in 1..n : list[k] \in Address
    BY RangeIs
  <1>2. PICK f : ResolvedSteps(f, start, list, n) /\ Folded(TakeResolved, start, list) = f[n]
    <2> HIDE DEF start
    <2> QED BY <1>1, ResolvedStepsExist
  <1> DEFINE Done(k) == ResolvedTaken(h, Range(ts), First(k), f[k])
             S == {k \in 0..n : Done(k)}
  <1>3. 0 \in S
    <2>1. First(0) = {} /\ f[0] = start
      BY <1>2 DEF ResolvedSteps
    <2>2. ResolvedTaken(h, Range(ts), {}, start)
      BY DEF ResolvedTaken
    <2> HIDE DEF First, start
    <2>3. Done(0)
      BY <2>1, <2>2
    <2> HIDE DEF Done
    <2> QED BY <1>1, <2>3
  <1>4. ASSUME NEW k \in 1..n, k - 1 \in S
        PROVE  k \in S
    <2> DEFINE acc == f[k - 1]
               t == list[k]
               hits == Indices(acc.tools, h, h[t].name)
    <2>1. First(k) = First(k - 1) \cup {t}
      OBVIOUS
    <2>2. f[k] = TakeResolved(acc, t) /\ t \in Address
      BY <1>1, <1>2 DEF ResolvedSteps
    <2>3. ResolvedTaken(h, Range(ts), First(k - 1), acc)
      BY <1>4
    <2> HIDE DEF First, acc, t, start
    <2>4. ResolvedTaken(h, Range(ts), First(k - 1) \cup {t}, f[k])
      <3>1. acc.heap = h /\ acc.tools \in Seq(Address) /\ f[k].heap = h
        BY <2>2, <2>3 DEF ResolvedTaken, TakeResolved
      <3>2. CASE hits = {}
        <4>1. f[k].tools = Append(acc.tools, t)
          BY <2>2, <3>1, <3>2 DEF TakeResolved
        <4>2. f[k].tools \in Seq(Address) /\ Range(f[k].tools) = Range(acc.tools) \cup {t}
          BY <2>2, <3>1, <4>1, AppendIs
        <4> QED BY <2>3, <3>1, <4>2 DEF ResolvedTaken
      <3>3. CASE hits # {} /\ h[acc.tools[LastOf(hits)]].kind = "placeholder"
        <4> DEFINE i == LastOf(hits)
        <4>1. f[k].tools = [acc.tools EXCEPT ![i] = t]
          BY <2>2, <3>1, <3>3 DEF TakeResolved
        <4>2. i \in DOMAIN acc.tools
          <5>1. hits \in SUBSET (1..Len(acc.tools)) /\ Len(acc.tools) \in Nat
            BY <3>1, RangeIs DEF Indices
          <5>2. i \in hits
            <6> HIDE DEF hits
            <6> QED BY <3>3, <5>1, LastIs
          <5> QED BY <5>2 DEF Indices
        <4>3. h[acc.tools[i]].kind = "placeholder"
          BY <3>3
        <4> HIDE DEF i
        <4>4. /\ f[k].tools \in Seq(Address) /\ Range(f[k].tools) \subseteq Range(acc.tools) \cup {t}
              /\ \A y \in Range(acc.tools) : y \in Range(f[k].tools) \/ y = acc.tools[i]
          <5> DEFINE before == acc.tools
                     after == f[k].tools
          <5>1. before \in Seq(Address) /\ i \in DOMAIN before /\ t \in Address
            BY <2>2, <3>1, <4>2
          <5>2. after = [before EXCEPT ![i] = t]
            BY <4>1
          <5> HIDE DEF before, after
          <5>3. ReplacedAt(Address, before, i, t, after)
            BY <5>1, <5>2 DEF ReplacedAt
          <5>4. /\ after \in Seq(Address) /\ Range(after) \subseteq Range(before) \cup {t}
                /\ \A y \in Range(before) : y \in Range(after) \/ y = before[i]
            BY <5>3, ReplacedAtIs
          <5> QED BY <5>4 DEF before, after
        <4> QED BY <2>3, <3>1, <4>3, <4>4 DEF ResolvedTaken
      <3>4. CASE hits # {} /\ h[acc.tools[LastOf(hits)]].kind # "placeholder"
        <4>1. f[k].tools = acc.tools
          BY <2>2, <3>1, <3>4 DEF TakeResolved
        <4> QED BY <2>3, <3>1, <4>1 DEF ResolvedTaken
      <3> QED BY <3>2, <3>3, <3>4
    <2>5. Done(k)
      BY <2>1, <2>4
    <2>6. k \in 0..n
      BY <1>1
    <2> HIDE DEF Done
    <2> QED BY <2>5, <2>6
  <1> HIDE DEF S
  <1>5. 0..n \subseteq S
    BY <1>1, <1>3, <1>4, Steps0
  <1>6. n \in S
    BY <1>1, <1>5
  <1> QED BY <1>1, <1>2, <1>6 DEF S

-----------------------------------------------------------------------------
(* What is known of an agent stays true                                    *)

\* What a scan finds has its types.
LEMMA ScanIs ==
  ASSUME NEW rp \in Repositories
  PROVE  /\ Len(rp.files) \in Nat /\ DOMAIN rp.files = 1..Len(rp.files)
         /\ \A i \in 1..Len(rp.files) : rp.files[i] \in File
         /\ Len(rp.resolved) \in Nat /\ DOMAIN rp.resolved = 1..Len(rp.resolved)
         /\ \A q \in 1..Len(rp.resolved) : rp.resolved[q] \in Resolution
  <1>1. rp.files \in Seq(File) /\ rp.resolved \in Seq(Resolution)
    BY RepositoriesAssumption
  <1> QED BY <1>1, RangeIs

\* A declaration of a scan refers to objects of its file.
LEMMA DeclIs ==
  ASSUME NEW rp \in Repositories, NEW m \in 0..Len(rp.files), NEW p \in Decls(rp, m)
  PROVE  /\ p \in Nat \X Nat /\ p = <<p[1], p[2]>> /\ p[1] \in 1..m /\ p[1] # 0
         /\ p[2] \in DOMAIN rp.files[p[1]].agents /\ p[1] \in DOMAIN rp.files
         /\ rp.files[p[1]] \in File /\ Decl(rp, p) \in Declaration
         /\ Range(Decl(rp, p).uses) \subseteq DOMAIN rp.files[p[1]].tools
         /\ Range(Decl(rp, p).runsAs) \subseteq DOMAIN rp.files[p[1]].identities
  <1>1. /\ p \in (1..m) \X Nat /\ p[2] \in DOMAIN rp.files[p[1]].agents
        /\ p[1] \in DOMAIN rp.files /\ rp.files[p[1]] \in File
    BY ScanIs DEF Decls
  <1>2. p \in Nat \X Nat /\ p = <<p[1], p[2]>> /\ p[1] \in 1..m /\ p[1] # 0
    BY <1>1, ScanIs
  <1>3. rp.files[p[1]].agents \in Seq(Declaration)
    BY <1>1 DEF File
  <1>4. Decl(rp, p) \in Declaration
    BY <1>1, <1>3, RangeIs DEF Decl
  <1>5. /\ Range(Decl(rp, p).uses) \subseteq DOMAIN rp.files[p[1]].tools
        /\ Range(Decl(rp, p).runsAs) \subseteq DOMAIN rp.files[p[1]].identities
    BY <1>1, RepositoriesAssumption DEF Decl
  <1> QED BY <1>1, <1>2, <1>4, <1>5

\* What a declaration uses is of the types of tools and identities, and the graph can know it.
LEMMA UsedAre ==
  ASSUME NEW rp \in Repositories, NEW p \in Decls(rp, Len(rp.files))
  PROVE  /\ UsedTools(rp, p) \subseteq Tool
         /\ UsedIds(rp, p) \subseteq Identity
         /\ \A x \in UsedIds(rp, p) : x \in EverIn(rp, x.name)
  <1> DEFINE f == rp.files[p[1]]
             d == Decl(rp, p)
  <1>1. /\ p[1] \in DOMAIN rp.files /\ f \in File
        /\ Range(d.uses) \subseteq DOMAIN f.tools /\ Range(d.runsAs) \subseteq DOMAIN f.identities
    BY ScanIs, DeclIs
  <1> HIDE DEF d
  <1>2. /\ \A k \in DOMAIN f.tools : f.tools[k] \in Tool
        /\ \A k \in DOMAIN f.identities : f.identities[k] \in Identity
                                          /\ f.identities[k] \in Range(f.identities)
    BY <1>1, RangeIs DEF File
  <1>3. \A k \in Range(d.uses) : f.tools[k] \in Tool
    BY <1>1, <1>2
  <1>4. \A k \in Range(d.runsAs) : f.identities[k] \in Identity /\ f.identities[k] \in Range(f.identities)
    BY <1>1, <1>2
  <1> HIDE DEF f
  <1>5. \A x \in Range(f.identities) : x \in EverIn(rp, x.name)
    BY <1>1 DEF EverIn, f
  <1> QED BY <1>3, <1>4, <1>5 DEF UsedTools, UsedIds, d, f

\* w has of identities at S whatever v has, and of those the graph does not know no more.
Grown(rp, v, w, S) ==
  \A x \in S : /\ x \in DOMAIN w
               /\ w[x].name = v[x].name /\ v[x].roles \subseteq w[x].roles
               /\ KnownIn(rp, v[x].name) = {} => w[x].roles = v[x].roles

\* Agents are not affected by what becomes of other agents' objects.
LEMMA FactsElsewhere ==
  ASSUME NEW rp, NEW a, NEW P, NEW Q, NEW h, NEW v, NEW g, NEW w,
         Facts(rp, a, P, Q, h, v),
         \A t \in Range(a.tools) : t \in DOMAIN g /\ g[t] = h[t],
         Grown(rp, v, w, Range(a.ids))
  PROVE  Facts(rp, a, P, Q, g, w)
  <1>1. ToolsAre(rp, a, P, Q, g)
    BY DEF Facts, ToolsAre
  <1>2. ToolsKept(rp, a, P, g)
    BY DEF Facts, ToolsKept
  <1>3. IdsAre(rp, a, P, w)
    BY DEF Facts, IdsAre, Grown
  <1>4. IdsKept(rp, a, P, w)
    <2> SUFFICES ASSUME NEW n \in IdentityNames, NEW d \in SaidIds(rp, P, n)
                 PROVE  \E x \in Range(a.ids) : w[x].name = n /\ d.roles \subseteq w[x].roles
      BY DEF IdsKept
    <2>1. PICK x \in Range(a.ids) : v[x].name = n /\ d.roles \subseteq v[x].roles
      BY DEF Facts, IdsKept
    <2> QED BY <2>1 DEF Grown
  <1> QED BY <1>1, <1>2, <1>3, <1>4 DEF Facts

\* Nor by what is resolved later.
LEMMA FactsLater ==
  ASSUME NEW rp, NEW a, NEW P, NEW Q, NEW h, NEW v, NEW Q2, Q \subseteq Q2,
         Facts(rp, a, P, Q, h, v)
  PROVE  Facts(rp, a, P, Q2, h, v)
  <1>1. ToolsAre(rp, a, P, Q2, h)
    BY DEF Facts, ToolsAre
  <1>2. ServersAre(rp, a, P, Q2)
    BY DEF Facts, ServersAre
  <1>3. DelegatesAre(rp, a, P, Q2)
    BY DEF Facts, DelegatesAre
  <1> QED BY <1>1, <1>2, <1>3 DEF Facts

-----------------------------------------------------------------------------
(* What is known of the two is true of the consolidated agent              *)

\* Being drawn from is transitive.
LEMMA DrawnFromAll ==
  ASSUME NEW tool, NEW S, NEW T, DrawnFrom(tool, S), \A s \in S : DrawnFrom(s, T)
  PROVE  DrawnFrom(tool, T)
  <1>1. tool.caps \subseteq UNION {t.caps : t \in T}
    <2> SUFFICES ASSUME NEW c \in tool.caps PROVE \E t \in T : c \in t.caps
      OBVIOUS
    <2>1. PICK s \in S : c \in s.caps
      BY DEF DrawnFrom
    <2> QED BY <2>1 DEF DrawnFrom
  <1>2. tool.guarded => \E t \in T : t.guarded
    BY DEF DrawnFrom
  <1>3. tool.approval # "unset" => \E t \in T : t.approval = tool.approval
    BY DEF DrawnFrom
  <1>4. tool.identity # Nothing => \E t \in T : t.identity = tool.identity
    BY DEF DrawnFrom
  <1>5. \E t \in T : t.kind = tool.kind
    BY DEF DrawnFrom
  <1> QED BY <1>1, <1>2, <1>3, <1>4, <1>5 DEF DrawnFrom

\* Merging a declaration of an agent keeps what is known of its tools,
LEMMA ToolsMerged ==
  ASSUME NEW rp, NEW a, NEW new, NEW c, NEW P, NEW N, NEW h, NEW acc,
         ToolsAre(rp, a, P, {}, h), ToolsAre(rp, new, N, {}, h),
         ToolsKept(rp, a, P, h), ToolsKept(rp, new, N, h), HeapIs(h),
         ToolsTaken(h, a.tools, Range(new.tools), acc), c.tools = acc.tools
  PROVE  ToolsAre(rp, c, P \cup N, {}, acc.heap) /\ ToolsKept(rp, c, P \cup N, acc.heap)
  <1> DEFINE both == Range(a.tools) \cup Range(new.tools)
             Said(n) == SaidTools(rp, P \cup N, n)
  <1>1. \A t \in both : /\ t \in DOMAIN h /\ t[1] # 0 /\ <<t[1], t[2]>> \in P \cup N
                        /\ DrawnFrom(h[t], Said(h[t].name))
    <2> SUFFICES ASSUME NEW t \in both
                 PROVE  /\ t \in DOMAIN h /\ t[1] # 0 /\ <<t[1], t[2]>> \in P \cup N
                        /\ DrawnFrom(h[t], Said(h[t].name))
      OBVIOUS
    <2>1. Said(h[t].name) = SaidTools(rp, P, h[t].name) \cup SaidTools(rp, N, h[t].name)
      BY DEF SaidTools
    <2>2. CASE t \in Range(a.tools)
      <3>1. DrawnFrom(h[t], SaidTools(rp, P, h[t].name))
        BY <2>2 DEF ToolsAre
      <3>2. DrawnFrom(h[t], Said(h[t].name))
        BY <2>1, <3>1, DrawnFromMore
      <3> QED BY <2>2, <3>2 DEF ToolsAre
    <2>3. CASE t \in Range(new.tools)
      <3>1. DrawnFrom(h[t], SaidTools(rp, N, h[t].name))
        BY <2>3 DEF ToolsAre
      <3>2. DrawnFrom(h[t], Said(h[t].name))
        BY <2>1, <3>1, DrawnFromMore
      <3> QED BY <2>3, <3>2 DEF ToolsAre
    <2> QED BY <2>2, <2>3
  <1>2. /\ DOMAIN acc.heap = DOMAIN h /\ Range(acc.tools) \subseteq both
        /\ Range(a.tools) \subseteq Range(acc.tools)
        /\ \A t \in DOMAIN h : acc.heap[t].name = h[t].name /\ Keeps(acc.heap[t], h[t])
    BY DEF ToolsTaken
  <1>3. ToolsAre(rp, c, P \cup N, {}, acc.heap)
    <2> SUFFICES ASSUME NEW t \in Range(c.tools)
                 PROVE  /\ t \in DOMAIN acc.heap /\ t[1] # 0 /\ <<t[1], t[2]>> \in P \cup N
                        /\ DrawnFrom(acc.heap[t], Said(acc.heap[t].name))
      BY DEF ToolsAre
    <2>1. t \in both /\ t \in DOMAIN h
      BY <1>1, <1>2
    <2>2. DrawnFrom(acc.heap[t], Namesakes(h, t, both))
      BY <2>1 DEF ToolsTaken
    <2>3. \A s \in Namesakes(h, t, both) : DrawnFrom(s, Said(h[t].name))
      BY <1>1 DEF Namesakes
    <2> HIDE DEF both, Said
    <2>4. DrawnFrom(acc.heap[t], Said(h[t].name))
      BY <2>2, <2>3, DrawnFromAll
    <2> QED BY <1>1, <1>2, <2>1, <2>4
  <1>4. ToolsKept(rp, c, P \cup N, acc.heap)
    <2> SUFFICES ASSUME NEW n \in ToolNames, NEW d \in Said(n)
                 PROVE  \/ \E x \in Said(n) : x.kind = "placeholder"
                        \/ \E t \in Range(c.tools) : /\ t[1] # 0 /\ acc.heap[t].name = n
                                                     /\ Keeps(acc.heap[t], d)
      BY DEF ToolsKept
    <2>1. Said(n) = SaidTools(rp, P, n) \cup SaidTools(rp, N, n)
      BY DEF SaidTools
    <2> HIDE DEF Said
    <2>2. CASE d \in SaidTools(rp, P, n)
      <3>1. CASE \E x \in SaidTools(rp, P, n) : x.kind = "placeholder"
        BY <2>1, <3>1
      <3>2. ASSUME NEW t \in Range(a.tools), t[1] # 0, h[t].name = n, Keeps(h[t], d)
            PROVE  t \in Range(c.tools) /\ acc.heap[t].name = n /\ Keeps(acc.heap[t], d)
        BY <1>1, <1>2, <3>2, KeepsKept
      <3> QED BY <2>2, <3>1, <3>2 DEF ToolsKept
    <2>3. CASE d \in SaidTools(rp, N, n)
      <3>1. CASE \E x \in SaidTools(rp, N, n) : x.kind = "placeholder"
        BY <2>1, <3>1
      <3>2. ASSUME NEW u \in Range(new.tools), u[1] # 0, h[u].name = n, Keeps(h[u], d)
            PROVE  \E t \in Range(c.tools) : t[1] # 0 /\ acc.heap[t].name = n /\ Keeps(acc.heap[t], d)
        <4>1. PICK t \in Range(acc.tools) : h[t].name = h[u].name /\ Keeps(acc.heap[t], h[u])
          BY DEF ToolsTaken
        <4> QED BY <1>1, <1>2, <3>2, <4>1, KeepsKept
      <3> QED BY <2>3, <3>1, <3>2 DEF ToolsKept
    <2> QED BY <2>1, <2>2, <2>3
  <1> QED BY <1>3, <1>4

\* of its identities,
LEMMA IdsMerged ==
  ASSUME NEW rp, NEW a, NEW new, NEW c, NEW P, NEW N, NEW v, NEW w,
         IdsAre(rp, a, P, v), IdsAre(rp, new, N, v),
         IdsKept(rp, a, P, v), IdsKept(rp, new, N, v),
         IdsTaken(v, a.ids, Range(new.ids), w, c.ids, FALSE)
  PROVE  IdsAre(rp, c, P \cup N, w) /\ IdsKept(rp, c, P \cup N, w)
  <1> DEFINE both == Range(a.ids) \cup Range(new.ids)
             Said(n) == SaidIds(rp, P \cup N, n)
  <1>1. \A n : Said(n) = SaidIds(rp, P, n) \cup SaidIds(rp, N, n)
    BY DEF SaidIds
  <1>2. /\ DOMAIN w = DOMAIN v /\ Range(c.ids) \subseteq both
        /\ Range(a.ids) \subseteq Range(c.ids)
        /\ \A x \in DOMAIN v : w[x].name = v[x].name /\ v[x].roles \subseteq w[x].roles
    BY DEF IdsTaken
  <1>3. both \subseteq DOMAIN v
    BY DEF IdsAre
  <1>4. IdsAre(rp, c, P \cup N, w)
    <2> SUFFICES ASSUME NEW x \in Range(c.ids), KnownIn(rp, v[x].name) = {}
                 PROVE  /\ \E e \in P \cup N : x[1] = e[1] /\ x[3] \in Range(Decl(rp, e).runsAs)
                        /\ w[x].roles \subseteq UNION {y.roles : y \in Said(v[x].name)}
      BY <1>2, <1>3 DEF IdsAre
    <2>1. \E e \in P \cup N : x[1] = e[1] /\ x[3] \in Range(Decl(rp, e).runsAs)
      BY <1>2 DEF IdsAre
    <2>2. \A z \in both : v[z].name = v[x].name =>
            v[z].roles \subseteq UNION {y.roles : y \in Said(v[x].name)}
      <3>1. \A z \in Range(a.ids) : v[z].name = v[x].name =>
              v[z].roles \subseteq UNION {y.roles : y \in SaidIds(rp, P, v[x].name)}
        BY DEF IdsAre
      <3>2. \A z \in Range(new.ids) : v[z].name = v[x].name =>
              v[z].roles \subseteq UNION {y.roles : y \in SaidIds(rp, N, v[x].name)}
        BY DEF IdsAre
      <3> HIDE DEF Said
      <3> QED BY <1>1, <3>1, <3>2
    <2>3. w[x].roles \subseteq RolesOf(v, both, x)
      BY <1>2 DEF IdsTaken
    <2> HIDE DEF Said
    <2> QED BY <2>1, <2>2, <2>3 DEF RolesOf
  <1>5. IdsKept(rp, c, P \cup N, w)
    <2> SUFFICES ASSUME NEW n \in IdentityNames, NEW d \in Said(n)
                 PROVE  \E x \in Range(c.ids) : w[x].name = n /\ d.roles \subseteq w[x].roles
      BY DEF IdsKept
    <2>1. CASE d \in SaidIds(rp, P, n)
      <3>1. PICK x \in Range(a.ids) : v[x].name = n /\ d.roles \subseteq v[x].roles
        BY <2>1 DEF IdsKept
      <3> QED BY <1>2, <1>3, <3>1
    <2>2. CASE d \in SaidIds(rp, N, n)
      <3>1. PICK u \in Range(new.ids) : v[u].name = n /\ d.roles \subseteq v[u].roles
        BY <2>2 DEF IdsKept
      <3>2. PICK g \in Range(c.ids) : Alike(v, g, u, FALSE) /\ v[u].roles \subseteq w[g].roles
        BY DEF IdsTaken
      <3> QED BY <1>2, <1>3, <3>1, <3>2 DEF Alike
    <2> HIDE DEF Said
    <2> QED BY <1>1, <2>1, <2>2
  <1> QED BY <1>4, <1>5

\* of its servers,
LEMMA ServersMerged ==
  ASSUME NEW rp, NEW a, NEW new, NEW c, NEW P, NEW N,
         ServersAre(rp, a, P, {}), ServersAre(rp, new, N, {}),
         ServersCover(rp, a, P), ServersCover(rp, new, N),
         ServersTaken(Range(a.servers), Range(new.servers), c.servers),
         \A e \in P, p \in N : e[1] <= p[1]
  PROVE  ServersAre(rp, c, P \cup N, {}) /\ ServersCover(rp, c, P \cup N)
  <1>1. \A n : Serving(rp, P \cup N, n) = Serving(rp, P, n) \cup Serving(rp, N, n)
    BY DEF Serving
  <1>2. ServersAre(rp, c, P \cup N, {})
    <2> SUFFICES ASSUME NEW t \in Range(c.servers)
                 PROVE  \E p \in Serving(rp, P \cup N, t.name) :
                          /\ t \in Range(Decl(rp, p).servers)
                          /\ \A e \in Serving(rp, P \cup N, t.name) : p[1] <= e[1]
      BY DEF ServersAre
    <2>1. CASE t \in Range(a.servers)
      <3>1. PICK p \in Serving(rp, P, t.name) : /\ t \in Range(Decl(rp, p).servers)
                                                /\ \A e \in Serving(rp, P, t.name) : p[1] <= e[1]
        BY <2>1 DEF ServersAre
      <3>2. \A e \in Serving(rp, N, t.name) : p[1] <= e[1]
        BY <3>1 DEF Serving
      <3> QED BY <1>1, <3>1, <3>2
    <2>2. CASE t \notin Range(a.servers)
      <3>1. t \in Range(new.servers) /\ \A s \in Range(a.servers) : s.name # t.name
        BY <2>2 DEF ServersTaken
      <3>2. PICK p \in Serving(rp, N, t.name) : /\ t \in Range(Decl(rp, p).servers)
                                                /\ \A e \in Serving(rp, N, t.name) : p[1] <= e[1]
        BY <3>1 DEF ServersAre
      <3>3. Serving(rp, P, t.name) = {}
        BY <3>1 DEF Serving, ServersCover
      <3> QED BY <1>1, <3>2, <3>3
    <2> QED BY <2>1, <2>2
  <1>3. ServersCover(rp, c, P \cup N)
    <2> SUFFICES ASSUME NEW p \in P \cup N, NEW s \in Range(Decl(rp, p).servers)
                 PROVE  \E t \in Range(c.servers) : t.name = s.name
      BY DEF ServersCover
    <2>1. CASE p \in P
      BY <2>1 DEF ServersCover, ServersTaken
    <2>2. CASE p \in N
      <3>1. PICK t \in Range(new.servers) : t.name = s.name
        BY <2>2 DEF ServersCover
      <3>2. PICK u \in Range(c.servers) : u.name = t.name
        BY <3>1 DEF ServersTaken
      <3> QED BY <3>1, <3>2
    <2> QED BY <2>1, <2>2
  <1> QED BY <1>2, <1>3

\* of whom it delegates to,
LEMMA DelegatesMerged ==
  ASSUME NEW rp, NEW a, NEW c, NEW P, NEW p, \A e \in P \cup {p} : e[1] \in Nat,
         DelegatesAre(rp, a, P, {}), \A e \in P : e[1] <= p[1],
         Decl(rp, p).delegates = {} => c.delegates = a.delegates,
         Decl(rp, p).delegates # {} => c.delegates = Decl(rp, p).delegates
  PROVE  DelegatesAre(rp, c, P \cup {p}, {})
  <1> DEFINE N == {p}
             more == P \cup N
  <1>1. CASE Decl(rp, p).delegates = {}
    <2>1. Saying(rp, more) = Saying(rp, P)
      BY <1>1 DEF Saying
    <2>2. a.delegates \subseteq UNION {Decl(rp, e).delegates : e \in more}
      BY DEF DelegatesAre
    <2> HIDE DEF more
    <2>3. DelegatesAre(rp, c, more, {})
      BY <1>1, <2>1, <2>2 DEF DelegatesAre
    <2> QED BY <2>3 DEF more
  <1>2. CASE Decl(rp, p).delegates # {}
    <2>1. p \in Saying(rp, more) /\ \A e \in Saying(rp, more) : e[1] <= p[1]
      BY <1>2 DEF Saying
    <2>2. c.delegates \subseteq UNION {Decl(rp, e).delegates : e \in more}
      BY <1>2
    <2> HIDE DEF more
    <2>3. DelegatesAre(rp, c, more, {})
      BY <1>2, <2>1, <2>2 DEF DelegatesAre
    <2> QED BY <2>3 DEF more
  <1> QED BY <1>1, <1>2

\* of where it is,
LEMMA PlaceMerged ==
  ASSUME NEW rp, NEW a, NEW new, NEW c, NEW P, P # {}, NEW p, \A e \in P \cup {p} : e[1] \in Nat,
         PlaceIs(rp, a, P), \A e \in P : e[1] <= p[1],
         new.manifest = rp.files[p[1]].manifest, new.file = p[1],
         Relocated(a, new) => c.manifest = new.manifest /\ c.file = new.file,
         ~Relocated(a, new) => c.manifest = a.manifest /\ c.file = a.file
  PROVE  PlaceIs(rp, c, P \cup {p})
  <1> DEFINE N == {p}
             more == P \cup N
  <1>1. CASE InSource(rp, P) = {}
    <2>1. a.manifest /\ \A e \in P : rp.files[e[1]].manifest
      BY <1>1 DEF PlaceIs, InSource
    <2>2. CASE new.manifest
      <3>1. InSource(rp, more) = {} /\ ~Relocated(a, new)
        BY <2>1, <2>2 DEF InSource, Relocated
      <3> QED BY <2>1, <3>1 DEF PlaceIs
    <2>3. CASE ~new.manifest
      <3>1. /\ p \in InSource(rp, more) /\ \A e \in InSource(rp, more) : e = p
            /\ Relocated(a, new)
        BY <2>1, <2>3 DEF InSource, Relocated
      <3>2. ~c.manifest /\ c.file = p[1] /\ p[1] \in Nat
        BY <2>3, <3>1
      <3> HIDE DEF more
      <3>3. PlaceIs(rp, c, more)
        BY <3>1, <3>2 DEF PlaceIs
      <3> QED BY <3>3 DEF more
    <2> QED BY <2>2, <2>3
  <1>2. CASE InSource(rp, P) # {}
    <2>1. /\ ~a.manifest /\ \E e \in InSource(rp, P) : a.file = e[1]
          /\ \A e \in InSource(rp, P) : a.file <= e[1]
      BY <1>2 DEF PlaceIs
    <2>2. c.manifest = a.manifest /\ c.file = a.file
      BY <2>1 DEF Relocated
    <2>3. InSource(rp, P) \subseteq P /\ InSource(rp, P) \subseteq InSource(rp, more)
          /\ InSource(rp, more) \subseteq InSource(rp, P) \cup {p}
      BY DEF InSource
    <2>4. a.file <= p[1]
      BY <2>1, <2>3
    <2> HIDE DEF more
    <2>5. PlaceIs(rp, c, more)
      BY <1>2, <2>1, <2>2, <2>3, <2>4 DEF PlaceIs
    <2> QED BY <2>5 DEF more
  <1> QED BY <1>1, <1>2

\* and of the limits of its policy.
LEMMA LimitsMerged ==
  ASSUME NEW rp, NEW a, NEW c, NEW P, NEW p, LimitsAre(rp, a, P),
         c.policy = PolicyOf(a.policy, Decl(rp, p).policy)
  PROVE  LimitsAre(rp, c, P \cup {p})
  <1> DEFINE N == {p}
             more == P \cup N
  <1>1. CASE Decl(rp, p).policy.limits # Nothing
    <2>1. p \in Limiting(rp, more) /\ c.policy = Decl(rp, p).policy
      BY <1>1 DEF Limiting, PolicyOf
    <2> QED BY <2>1 DEF LimitsAre
  <1>2. CASE Decl(rp, p).policy.limits = Nothing
    <2>1. Limiting(rp, more) = Limiting(rp, P) /\ c.policy = a.policy
      BY <1>2 DEF Limiting, PolicyOf
    <2> QED BY <2>1 DEF LimitsAre
  <1> QED BY <1>1, <1>2

\* What becomes of the agent a.
Became(a, new, tools, ids, c) ==
  /\ c \in Agent /\ c.name = a.name /\ c.instance = a.instance
  /\ c.tools = tools /\ c.ids = ids
  /\ ServersTaken(Range(a.servers), Range(new.servers), c.servers)
  /\ c.inputs = a.inputs \cup new.inputs
  /\ new.delegates = {} => c.delegates = a.delegates
  /\ new.delegates # {} => c.delegates = new.delegates
  /\ c.policy = PolicyOf(a.policy, new.policy)
  /\ Relocated(a, new) => c.manifest = new.manifest /\ c.file = new.file
  /\ ~Relocated(a, new) => c.manifest = a.manifest /\ c.file = a.file

\* The fields of a consolidated agent.
LEMMA ConsolidatedIs ==
  ASSUME NEW a \in Agent, NEW new \in Agent, NEW tools \in Seq(Address), NEW ids \in Seq(Address)
  PROVE  Became(a, new, tools, ids, Consolidated(a, new, tools, ids))
  <1> DEFINE c == Consolidated(a, new, tools, ids)
             servers == Folded(TakeServer, a.servers, new.servers)
  <1>1. a.servers \in Seq(Server) /\ new.servers \in Seq(Server)
    BY DEF Agent
  <1>2. ServersTaken(Range(a.servers), Range(new.servers), servers)
    BY <1>1, ServersFolded
  <1>3. PolicyOf(a.policy, new.policy) \in Policy
    BY DEF PolicyOf, Agent
  <1>4. c = [name |-> a.name, instance |-> a.instance, tools |-> tools, ids |-> ids,
             servers |-> servers, inputs |-> a.inputs \cup new.inputs,
             delegates |-> IF new.delegates = {} THEN a.delegates ELSE new.delegates,
             policy |-> PolicyOf(a.policy, new.policy),
             manifest |-> (IF Relocated(a, new) THEN new ELSE a).manifest,
             file |-> (IF Relocated(a, new) THEN new ELSE a).file]
    BY DEF Consolidated
  <1>5. servers \in Seq(Server)
    BY <1>2 DEF ServersTaken
  <1> HIDE DEF servers, c
  <1>6. c \in Agent
    BY <1>3, <1>4, <1>5 DEF Agent
  <1>7. Became(a, new, tools, ids, c)
    BY <1>2, <1>4, <1>6 DEF Became
  <1> QED BY <1>7 DEF c

\* The agent that a declaration p is consolidated with: all that is known of the two.
LEMMA FactsMerged ==
  ASSUME NEW rp \in Repositories, NEW P, P \subseteq Decls(rp, Len(rp.files)), P # {},
         NEW p \in Decls(rp, Len(rp.files)), \A e \in P : e[1] <= p[1],
         NEW h, HeapIs(h), NEW v, NEW a, Facts(rp, a, P, {}, h, v),
         NEW new, new = Raw(rp, p), Facts(rp, new, {p}, {}, h, v),
         NEW acc, ToolsTaken(h, a.tools, Range(new.tools), acc),
         NEW w, NEW ids, IdsTaken(v, a.ids, Range(new.ids), w, ids, FALSE)
  PROVE  Facts(rp, Consolidated(a, new, acc.tools, ids), P \cup {p}, {}, acc.heap, w)
  <1> DEFINE N == {p}
  <1>0. PICK c : c = Consolidated(a, new, acc.tools, ids)
    OBVIOUS
  <1>1. a \in Agent /\ new \in Agent /\ acc.tools \in Seq(Address) /\ ids \in Seq(Address)
    BY DEF Facts, ToolsTaken, IdsTaken
  <1>2. Became(a, new, acc.tools, ids, c)
    BY <1>0, <1>1, ConsolidatedIs
  <1>3. /\ new.inputs = Decl(rp, p).inputs /\ new.delegates = Decl(rp, p).delegates
        /\ new.policy = Decl(rp, p).policy
        /\ new.manifest = rp.files[p[1]].manifest /\ new.file = p[1]
    BY DEF Raw
  <1>5. \A e \in P \cup {p} : e[1] \in Nat
    BY ScanIs, DeclIs
  <1>6. PlaceIs(rp, c, P \cup {p})
    BY <1>2, <1>3, <1>5, PlaceMerged DEF Facts, Became
  <1>7. DelegatesAre(rp, c, P \cup {p}, {})
    BY <1>2, <1>3, <1>5, DelegatesMerged DEF Facts, Became
  <1>8. LimitsAre(rp, c, P \cup {p})
    BY <1>2, <1>3, LimitsMerged DEF Facts, Became
  <1>9. InputsAre(rp, c, P \cup {p})
    BY <1>2, <1>3 DEF Facts, Became, InputsAre
  <1>10. \A e \in P, q \in N : e[1] <= q[1]
    OBVIOUS
  <1>11. /\ ToolsAre(rp, new, N, {}, h) /\ ToolsKept(rp, new, N, h)
         /\ IdsAre(rp, new, N, v) /\ IdsKept(rp, new, N, v)
         /\ ServersAre(rp, new, N, {}) /\ ServersCover(rp, new, N)
    BY DEF Facts
  <1> HIDE DEF N
  <1>12. ServersAre(rp, c, P \cup N, {}) /\ ServersCover(rp, c, P \cup N)
    BY <1>2, <1>10, <1>11, ServersMerged DEF Facts, Became
  <1>13. ToolsAre(rp, c, P \cup N, {}, acc.heap) /\ ToolsKept(rp, c, P \cup N, acc.heap)
    BY <1>2, <1>11, ToolsMerged DEF Facts, Became
  <1>14. IdsAre(rp, c, P \cup N, w) /\ IdsKept(rp, c, P \cup N, w)
    BY <1>2, <1>11, IdsMerged DEF Facts, Became
  <1>15. Facts(rp, c, P \cup {p}, {}, acc.heap, w)
    BY <1>2, <1>6, <1>7, <1>8, <1>9, <1>12, <1>13, <1>14 DEF Facts, Became, N
  <1> QED BY <1>0, <1>15

-----------------------------------------------------------------------------
(* What is known of an agent as it is made, enriched and linked            *)

\* The addresses of the objects number list[k] of something.
Places3(i, j, list) == [k \in DOMAIN list |-> <<i, j, list[k]>>]

\* The addresses that a file gives to a list of objects.
LEMMA AddressesAre ==
  ASSUME NEW i \in Nat, NEW j \in Nat, NEW list \in Seq(Nat \ {0})
  PROVE  /\ Places3(i, j, list) \in Seq(Address)
         /\ \A x \in Range(Places3(i, j, list)) : \E n \in Range(list) : x = <<i, j, n>>
         /\ \A n \in Range(list) : <<i, j, n>> \in Range(Places3(i, j, list))
  <1> DEFINE s == Places3(i, j, list)
  <1>1. Len(list) \in Nat /\ DOMAIN list = 1..Len(list) /\ \A k \in 1..Len(list) : list[k] \in Nat
    BY RangeIs
  <1>2. s \in [1..Len(list) -> Address]
    BY <1>1 DEF Address, Places3
  <1>3. s \in Seq(Address)
    BY <1>1, <1>2, SeqDef
  <1>4. DOMAIN s = DOMAIN list /\ \A k \in DOMAIN list : s[k] = <<i, j, list[k]>>
    BY DEF Places3
  <1> HIDE DEF s
  <1>5. \A x \in Range(s) : \E n \in Range(list) : x = <<i, j, n>>
    BY <1>4 DEF Range
  <1>6. \A n \in Range(list) : <<i, j, n>> \in Range(s)
    BY <1>4 DEF Range
  <1> QED BY <1>3, <1>5, <1>6 DEF s

\* An agent just as an adapter made it.
LEMMA FactsRaw ==
  ASSUME NEW rp \in Repositories, NEW p \in Decls(rp, Len(rp.files)), NEW h, NEW v,
         \A k \in DOMAIN rp.files[p[1]].tools :
           LET t == <<p[1], p[2], k>> IN t \in DOMAIN h /\ h[t] = rp.files[p[1]].tools[k],
         \A k \in DOMAIN rp.files[p[1]].identities :
           LET x == <<p[1], 0, k>> IN x \in DOMAIN v /\ v[x] = rp.files[p[1]].identities[k]
  PROVE  Facts(rp, Raw(rp, p), {p}, {}, h, v)
  <1> DEFINE f == rp.files[p[1]]
             d == Decl(rp, p)
             N == {p}
  <1>1. PICK a : a = Raw(rp, p)
    OBVIOUS
  <1>2. /\ p \in Nat \X Nat /\ p = <<p[1], p[2]>> /\ p[1] # 0 /\ f \in File /\ d \in Declaration
        /\ Range(d.uses) \subseteq DOMAIN f.tools /\ Range(d.runsAs) \subseteq DOMAIN f.identities
    BY ScanIs, DeclIs
  <1>3. /\ d.uses \in Seq(Nat \ {0}) /\ d.runsAs \in Seq(Nat \ {0})
        /\ d.name \in Names /\ d.instance \in Names \cup {Nothing}
        /\ d.servers \in Seq(Server) /\ d.inputs \in SUBSET Input
        /\ d.delegates \in SUBSET Names /\ d.policy \in Policy /\ f.manifest \in BOOLEAN
    BY <1>2 DEF Declaration, File
  <1>4. /\ a.tools = [k \in DOMAIN d.uses |-> <<p[1], p[2], d.uses[k]>>]
        /\ a.ids = [k \in DOMAIN d.runsAs |-> <<p[1], 0, d.runsAs[k]>>]
        /\ a.servers = d.servers /\ a.inputs = d.inputs /\ a.delegates = d.delegates
        /\ a.policy = d.policy /\ a.manifest = f.manifest /\ a.file = p[1]
    BY <1>1 DEF Raw
  <1>5. /\ a.tools \in Seq(Address)
        /\ \A x \in Range(a.tools) : \E k \in Range(d.uses) : x = <<p[1], p[2], k>>
        /\ \A k \in Range(d.uses) : <<p[1], p[2], k>> \in Range(a.tools)
        /\ a.ids \in Seq(Address)
        /\ \A x \in Range(a.ids) : \E k \in Range(d.runsAs) : x = <<p[1], 0, k>>
        /\ \A k \in Range(d.runsAs) : <<p[1], 0, k>> \in Range(a.ids)
    <2>1. p[1] \in Nat /\ p[2] \in Nat /\ 0 \in Nat
      BY <1>2
    <2>2. a.tools = Places3(p[1], p[2], d.uses) /\ a.ids = Places3(p[1], 0, d.runsAs)
      BY <1>4 DEF Places3
    <2> HIDE DEF d
    <2>3. /\ a.tools \in Seq(Address)
          /\ \A x \in Range(a.tools) : \E k \in Range(d.uses) : x = <<p[1], p[2], k>>
          /\ \A k \in Range(d.uses) : <<p[1], p[2], k>> \in Range(a.tools)
      <3> DEFINE first == p[1]
                 second == p[2]
                 list == d.uses
      <3>1. first \in Nat /\ second \in Nat /\ list \in Seq(Nat \ {0})
        BY <1>3, <2>1
      <3>2. a.tools = Places3(first, second, list)
        BY <2>2
      <3> HIDE DEF first, second, list
      <3>3. /\ Places3(first, second, list) \in Seq(Address)
            /\ \A x \in Range(Places3(first, second, list)) : \E n \in Range(list) : x = <<first, second, n>>
            /\ \A n \in Range(list) : <<first, second, n>> \in Range(Places3(first, second, list))
        BY <3>1, AddressesAre
      <3> QED BY <3>2, <3>3 DEF first, second, list
    <2>4. /\ a.ids \in Seq(Address)
          /\ \A x \in Range(a.ids) : \E k \in Range(d.runsAs) : x = <<p[1], 0, k>>
          /\ \A k \in Range(d.runsAs) : <<p[1], 0, k>> \in Range(a.ids)
      <3> DEFINE first == p[1]
                 zero == 0
                 list == d.runsAs
      <3>1. first \in Nat /\ zero \in Nat /\ list \in Seq(Nat \ {0})
        BY <1>3, <2>1
      <3>2. a.ids = Places3(first, zero, list)
        BY <2>2
      <3> HIDE DEF first, zero, list
      <3>3. /\ Places3(first, zero, list) \in Seq(Address)
            /\ \A x \in Range(Places3(first, zero, list)) : \E n \in Range(list) : x = <<first, zero, n>>
            /\ \A n \in Range(list) : <<first, zero, n>> \in Range(Places3(first, zero, list))
        BY <3>1, AddressesAre
      <3> QED BY <3>2, <3>3 DEF first, zero, list
    <2> QED BY <2>3, <2>4 DEF d
  <1>6. a \in Agent
    <2> DEFINE tools == a.tools
               ids == a.ids
    <2>1. a = [name |-> d.name, instance |-> d.instance, tools |-> tools, ids |-> ids,
               servers |-> d.servers, inputs |-> d.inputs, delegates |-> d.delegates,
               policy |-> d.policy, manifest |-> f.manifest, file |-> p[1]]
      BY <1>1 DEF Raw
    <2> HIDE DEF tools, ids, d, f
    <2> QED BY <1>2, <1>3, <1>5, <2>1 DEF Agent, tools, ids
  <1>9. ToolsAre(rp, a, N, {}, h)
    <2> SUFFICES ASSUME NEW t \in Range(a.tools)
                 PROVE  /\ t \in DOMAIN h /\ t[1] # 0 /\ <<t[1], t[2]>> \in N
                        /\ DrawnFrom(h[t], SaidTools(rp, N, h[t].name))
      BY DEF ToolsAre
    <2>1. PICK k \in Range(d.uses) : t = <<p[1], p[2], k>>
      BY <1>5
    <2>2. t \in DOMAIN h /\ h[t] = f.tools[k]
      BY <1>2, <2>1
    <2>3. h[t] \in SaidTools(rp, N, h[t].name)
      BY <2>2 DEF SaidTools, SaidIds, UsedTools, UsedIds
    <2>4. DrawnFrom(h[t], SaidTools(rp, N, h[t].name))
      BY <2>3, DrawnFromItself
    <2> QED BY <1>2, <2>1, <2>2, <2>4
  <1>10. ToolsKept(rp, a, N, h)
    <2> SUFFICES ASSUME NEW n \in ToolNames, NEW x \in SaidTools(rp, N, n)
                 PROVE  \E t \in Range(a.tools) : t[1] # 0 /\ h[t].name = n /\ Keeps(h[t], x)
      BY DEF ToolsKept
    <2>1. PICK k \in Range(d.uses) : x = f.tools[k] /\ x.name = n
      BY DEF SaidTools, SaidIds, UsedTools, UsedIds
    <2>2. <<p[1], p[2], k>> \in Range(a.tools) /\ h[<<p[1], p[2], k>>] = x
      BY <1>2, <1>5, <2>1
    <2>3. Keeps(x, x)
      BY DEF Keeps
    <2> QED BY <1>2, <2>1, <2>2, <2>3
  <1>11. IdsAre(rp, a, N, v)
    <2> SUFFICES ASSUME NEW x \in Range(a.ids)
                 PROVE  /\ x \in DOMAIN v
                        /\ \E e \in N : x[1] = e[1] /\ x[3] \in Range(Decl(rp, e).runsAs)
                        /\ v[x].roles \subseteq UNION {y.roles : y \in SaidIds(rp, N, v[x].name)}
      BY DEF IdsAre
    <2>1. PICK k \in Range(d.runsAs) : x = <<p[1], 0, k>>
      BY <1>5
    <2>2. x \in DOMAIN v /\ v[x] = f.identities[k]
      BY <1>2, <2>1
    <2>3. v[x] \in SaidIds(rp, N, v[x].name)
      BY <2>2 DEF SaidTools, SaidIds, UsedTools, UsedIds
    <2> QED BY <2>1, <2>2, <2>3
  <1>12. IdsKept(rp, a, N, v)
    <2> SUFFICES ASSUME NEW n \in IdentityNames, NEW y \in SaidIds(rp, N, n)
                 PROVE  \E x \in Range(a.ids) : v[x].name = n /\ y.roles \subseteq v[x].roles
      BY DEF IdsKept
    <2>1. PICK k \in Range(d.runsAs) : y = f.identities[k] /\ y.name = n
      BY DEF SaidTools, SaidIds, UsedTools, UsedIds
    <2>2. <<p[1], 0, k>> \in Range(a.ids) /\ v[<<p[1], 0, k>>] = y
      BY <1>2, <1>5, <2>1
    <2> QED BY <2>1, <2>2
  <1>13. ServersAre(rp, a, N, {}) /\ ServersCover(rp, a, N)
    <2>1. \A t \in Range(a.servers) : p \in Serving(rp, N, t.name)
      BY <1>4 DEF Serving
    <2>2. \A n : \A e \in Serving(rp, N, n) : e = p
      BY DEF Serving
    <2>3. p[1] <= p[1]
      BY <1>2
    <2> QED BY <1>4, <2>1, <2>2, <2>3 DEF ServersAre, ServersCover
  <1>14. InputsAre(rp, a, N)
    BY <1>4 DEF InputsAre
  <1>15. DelegatesAre(rp, a, N, {})
    <2>1. \A e \in Saying(rp, N) : e = p
      BY DEF Saying
    <2>2. p[1] <= p[1] /\ p \in N
      BY <1>2
    <2> QED BY <1>4, <2>1, <2>2 DEF DelegatesAre, d
  <1>16. PlaceIs(rp, a, N)
    <2>1. \A e \in InSource(rp, N) : e = p
      BY DEF InSource
    <2>2. f.manifest <=> InSource(rp, N) = {}
      BY DEF InSource
    <2>3. p[1] <= p[1]
      BY <1>2
    <2> QED BY <1>4, <2>1, <2>2, <2>3 DEF PlaceIs
  <1>17. LimitsAre(rp, a, N)
    <2>1. \A e \in Limiting(rp, N) : e = p
      BY DEF Limiting
    <2> QED BY <1>4, <2>1 DEF LimitsAre
  <1> HIDE DEF N
  <1>18. Facts(rp, a, N, {}, h, v)
    BY <1>6, <1>9, <1>10, <1>11, <1>12, <1>13, <1>14, <1>15, <1>16, <1>17 DEF Facts
  <1> QED BY <1>1, <1>18 DEF N

\* Objects made for a resolved agent.
MadeFor(rp, q, h, us) ==
  \A t \in us : /\ t \in DOMAIN h /\ t[1] = 0 /\ t[2] = q
                /\ h[t] \in Range(rp.resolved[q].tools)

Enriching(rp, q, Q, r, a, acc, c) ==
  q \in Q /\ q \in 1..Len(rp.resolved) /\ r = rp.resolved[q] /\ c = Enriched(a, r, acc.tools)

\* Enrichment keeps what is known of an agent.
LEMMA FactsEnriched ==
  ASSUME NEW rp \in Repositories, NEW P, NEW Q, NEW q, NEW h, NEW v,
         NEW a, Facts(rp, a, P, Q, h, v), NEW us, MadeFor(rp, q, h, us),
         NEW acc, ResolvedTaken(h, Range(a.tools), us, acc),
         NEW r, NEW c, Enriching(rp, q, Q, r, a, acc, c)
  PROVE  /\ Facts(rp, c, P, Q, h, v) /\ c.name = a.name /\ c.instance = a.instance
         /\ a.delegates \subseteq c.delegates /\ r.delegates \subseteq c.delegates
  <1>0. q \in Q /\ q \in 1..Len(rp.resolved) /\ r = rp.resolved[q] /\ c = Enriched(a, r, acc.tools)
    BY DEF Enriching
  <1>1. /\ a \in Agent /\ r \in Resolution /\ acc.tools \in Seq(Address)
        /\ a.servers \in Seq(Server) /\ r.servers \in Seq(Server)
    BY <1>0, ScanIs DEF Facts, Agent, Resolution, ResolvedTaken
  <1> DEFINE servers == Folded(TakeServer, a.servers, r.servers)
             inputs == a.inputs \cup NewInputs(a.inputs, r.inputs)
             delegates == a.delegates \cup r.delegates
  <1>2. ServersTaken(Range(a.servers), Range(r.servers), servers) /\ servers \in Seq(Server)
    BY <1>1, ServersFolded DEF ServersTaken
  <1>3. inputs \in SUBSET Input /\ delegates \in SUBSET Names /\ a.inputs \subseteq inputs
    BY <1>1 DEF Agent, Resolution, NewInputs
  <1>4. c = [a EXCEPT !.tools = acc.tools, !.servers = servers, !.inputs = inputs,
                      !.delegates = delegates]
    BY <1>0 DEF Enriched
  <1> HIDE DEF servers, inputs, delegates
  <1>5. /\ c.tools = acc.tools /\ c.servers = servers /\ c.inputs = inputs /\ c.delegates = delegates
        /\ c.name = a.name /\ c.instance = a.instance /\ c.ids = a.ids /\ c.policy = a.policy
        /\ c.manifest = a.manifest /\ c.file = a.file
    BY <1>1, <1>4 DEF Agent
  <1>6. c \in Agent
    BY <1>1, <1>2, <1>3, <1>4 DEF Agent
  <1>7. ToolsAre(rp, c, P, Q, h)
    BY <1>0, <1>5 DEF Facts, ToolsAre, ResolvedTaken, MadeFor
  <1>8. ToolsKept(rp, c, P, h)
    <2> SUFFICES ASSUME NEW n \in ToolNames, NEW d \in SaidTools(rp, P, n),
                        \A x \in SaidTools(rp, P, n) : x.kind # "placeholder"
                 PROVE  \E t \in Range(c.tools) : t[1] # 0 /\ h[t].name = n /\ Keeps(h[t], d)
      BY DEF ToolsKept
    <2>1. PICK t \in Range(a.tools) : t[1] # 0 /\ h[t].name = n /\ Keeps(h[t], d)
      BY DEF Facts, ToolsKept
    <2>2. DrawnFrom(h[t], SaidTools(rp, P, n))
      BY <2>1 DEF Facts, ToolsAre
    <2>3. h[t].kind # "placeholder"
      BY <2>2 DEF DrawnFrom
    <2> QED BY <1>5, <2>1, <2>3 DEF ResolvedTaken
  <1>9. IdsAre(rp, c, P, v) /\ IdsKept(rp, c, P, v)
    BY <1>5 DEF Facts, IdsAre, IdsKept
  <1>10. ServersAre(rp, c, P, Q)
    <2> SUFFICES ASSUME NEW t \in Range(c.servers)
                 PROVE  IF Serving(rp, P, t.name) = {}
                        THEN \E k \in Q : t \in Range(rp.resolved[k].servers)
                        ELSE \E p \in Serving(rp, P, t.name) :
                               /\ t \in Range(Decl(rp, p).servers)
                               /\ \A e \in Serving(rp, P, t.name) : p[1] <= e[1]
      BY DEF ServersAre
    <2>1. CASE t \in Range(a.servers)
      BY <2>1 DEF Facts, ServersAre
    <2>2. CASE t \notin Range(a.servers)
      <3>1. t \in Range(r.servers) /\ \A s \in Range(a.servers) : s.name # t.name
        BY <1>2, <1>5, <2>2 DEF ServersTaken
      <3>2. Serving(rp, P, t.name) = {}
        BY <3>1 DEF Facts, ServersCover, Serving
      <3> QED BY <1>0, <3>1, <3>2
    <2> QED BY <2>1, <2>2
  <1>11. ServersCover(rp, c, P)
    BY <1>2, <1>5 DEF Facts, ServersCover, ServersTaken
  <1>12. InputsAre(rp, c, P)
    BY <1>3, <1>5 DEF Facts, InputsAre
  <1>13. DelegatesAre(rp, c, P, Q)
    <2>1. a.delegates \subseteq c.delegates /\ c.delegates \subseteq a.delegates \cup r.delegates
      BY <1>5 DEF delegates
    <2>2. c.delegates \subseteq (UNION {Decl(rp, p).delegates : p \in P}) \cup
                                UNION {rp.resolved[k].delegates : k \in Q}
      BY <1>0, <2>1 DEF Facts, DelegatesAre
    <2>3. Saying(rp, P) # {} => \E p \in Saying(rp, P) : /\ Decl(rp, p).delegates \subseteq c.delegates
                                                        /\ \A e \in Saying(rp, P) : e[1] <= p[1]
      BY <2>1 DEF Facts, DelegatesAre
    <2> QED BY <2>2, <2>3 DEF DelegatesAre
  <1>14. PlaceIs(rp, c, P) /\ LimitsAre(rp, c, P)
    BY <1>5 DEF Facts, PlaceIs, LimitsAre
  <1>15. a.delegates \subseteq c.delegates /\ r.delegates \subseteq c.delegates
    BY <1>5 DEF delegates
  <1> QED BY <1>5, <1>6, <1>7, <1>8, <1>9, <1>10, <1>11, <1>12, <1>13, <1>14, <1>15 DEF Facts

Resolving(rp, q, Q, r, addresses, c) ==
  q \in Q /\ q \in 1..Len(rp.resolved) /\ r = rp.resolved[q] /\ c = ResolvedAgent(r, addresses)

\* An agent that only the repository-wide analysis knows.
LEMMA FactsResolved ==
  ASSUME NEW rp \in Repositories, NEW Q, NEW q, NEW h, NEW v,
         NEW addresses \in Seq(Address), MadeFor(rp, q, h, Range(addresses)),
         NEW r, NEW c, Resolving(rp, q, Q, r, addresses, c)
  PROVE  /\ Facts(rp, c, {}, Q, h, v) /\ c.name = r.name /\ c.instance = Nothing
         /\ c.delegates = r.delegates
  <1>1. /\ q \in Q /\ q \in 1..Len(rp.resolved) /\ r = rp.resolved[q]
        /\ c = ResolvedAgent(r, addresses) /\ r \in Resolution
    BY ScanIs DEF Resolving
  <1>2. /\ c.name = r.name /\ c.instance = Nothing /\ c.tools = addresses /\ c.ids = <<>>
        /\ c.servers = r.servers /\ c.inputs = r.inputs /\ c.delegates = r.delegates
    BY <1>1 DEF ResolvedAgent
  <1>3. c \in Agent
    <2>1. [limits |-> Nothing, contract |-> Nothing] \in Policy
      BY DEF Policy
    <2> QED BY <1>1, <2>1 DEF ResolvedAgent, Agent, Resolution
  <1>4. ToolsAre(rp, c, {}, Q, h)
    BY <1>1, <1>2 DEF ToolsAre, MadeFor
  <1>5. ToolsKept(rp, c, {}, h) /\ IdsKept(rp, c, {}, v)
    BY DEF ToolsKept, IdsKept, SaidTools, SaidIds
  <1>6. IdsAre(rp, c, {}, v)
    BY <1>2 DEF IdsAre, Range
  <1>7. ServersAre(rp, c, {}, Q) /\ ServersCover(rp, c, {}) /\ InputsAre(rp, c, {})
    BY <1>1, <1>2 DEF ServersAre, ServersCover, InputsAre, Serving
  <1>8. DelegatesAre(rp, c, {}, Q)
    BY <1>1, <1>2 DEF DelegatesAre, Saying
  <1>9. PlaceIs(rp, c, {}) /\ LimitsAre(rp, c, {})
    BY <1>1 DEF PlaceIs, LimitsAre, InSource, Limiting
  <1> QED BY <1>2, <1>3, <1>4, <1>5, <1>6, <1>7, <1>8, <1>9 DEF Facts

\* An agent that gets further identities.
WithIds(a, order) == [a EXCEPT !.ids = a.ids \o order]
AllKnown(rp, v, S) == \A x \in S : x \in DOMAIN v /\ KnownIn(rp, v[x].name) # {}

\* An agent that gets identities the graph knows.
LEMMA FactsLinked ==
  ASSUME NEW rp, NEW P, NEW Q, NEW h, NEW v, NEW a, Facts(rp, a, P, Q, h, v),
         NEW order \in Seq(Address),
         AllKnown(rp, v, Range(order)), NEW c, c = WithIds(a, order)
  PROVE  /\ Facts(rp, c, P, Q, h, v) /\ c.name = a.name /\ c.instance = a.instance
         /\ c.delegates = a.delegates /\ c.tools = a.tools /\ c.servers = a.servers
         /\ Range(c.ids) = Range(a.ids) \cup Range(order)
  <1>1. a \in Agent /\ a.ids \in Seq(Address)
    BY DEF Facts, Agent
  <1>2. /\ c.ids = a.ids \o order /\ c.tools = a.tools /\ c.servers = a.servers
        /\ c.inputs = a.inputs /\ c.delegates = a.delegates /\ c.name = a.name
        /\ c.instance = a.instance /\ c.policy = a.policy
        /\ c.manifest = a.manifest /\ c.file = a.file
    BY <1>1 DEF Agent, WithIds
  <1>3. a.ids \o order \in Seq(Address) /\ Range(a.ids \o order) = Range(a.ids) \cup Range(order)
    BY <1>1, JoinedIs
  <1>4. c \in Agent
    BY <1>1, <1>3 DEF Agent, WithIds
  <1>5. IdsAre(rp, c, P, v)
    BY <1>2, <1>3 DEF Facts, IdsAre, AllKnown
  <1>6. IdsKept(rp, c, P, v)
    BY <1>2, <1>3 DEF Facts, IdsKept
  <1>7. ToolsAre(rp, c, P, Q, h) /\ ToolsKept(rp, c, P, h)
    BY <1>2 DEF Facts, ToolsAre, ToolsKept
  <1>8. /\ ServersAre(rp, c, P, Q) /\ ServersCover(rp, c, P) /\ InputsAre(rp, c, P)
        /\ DelegatesAre(rp, c, P, Q)
    BY <1>2 DEF Facts, ServersAre, ServersCover, InputsAre, DelegatesAre
  <1>9. PlaceIs(rp, c, P) /\ LimitsAre(rp, c, P)
    BY <1>2 DEF Facts, PlaceIs, LimitsAre
  <1> QED BY <1>2, <1>3, <1>4, <1>5, <1>6, <1>7, <1>8, <1>9 DEF Facts

-----------------------------------------------------------------------------
(* What becomes of the graph's identities                                  *)

\* Merging identities of one name leaves them what is known under it.
LEMMA VaultTaken ==
  ASSUME NEW rp, NEW v, NEW is, NEW us, NEW w, NEW list, NEW strict,
         VaultIs(rp, v), Range(is) \cup us \subseteq DOMAIN v, IdsTaken(v, is, us, w, list, strict)
  PROVE  VaultIs(rp, w)
  <1> DEFINE all == Range(is) \cup us
  <1>1. /\ DOMAIN w = DOMAIN v /\ all \subseteq DOMAIN v
        /\ \A x \in DOMAIN v : /\ w[x] \in Identity
                               /\ w[x].name = v[x].name /\ w[x].provider = v[x].provider
        /\ \A x \in DOMAIN v \ all : w[x] = v[x]
        /\ \A x \in all : w[x].roles \subseteq RolesOf(v, all, x)
    BY DEF IdsTaken
  <1> HIDE DEF all
  <1>2. ASSUME NEW x \in DOMAIN v
        PROVE  w[x].roles \subseteq UNION {y.roles : y \in EverIn(rp, w[x].name)}
    <2>1. \A z \in DOMAIN v : v[z].roles \subseteq UNION {y.roles : y \in EverIn(rp, v[z].name)}
      BY DEF VaultIs
    <2>2. CASE x \in all
      <3>1. w[x].roles \subseteq RolesOf(v, all, x)
        BY <1>1, <2>2
      <3>2. RolesOf(v, all, x) \subseteq UNION {y.roles : y \in EverIn(rp, v[x].name)}
        BY <1>1, <2>1 DEF RolesOf
      <3> QED BY <1>1, <3>1, <3>2
    <2>3. CASE x \notin all
      BY <1>1, <2>1, <2>3
    <2> QED BY <2>2, <2>3
  <1> QED BY <1>1, <1>2 DEF VaultIs

\* The graph knows of those at us, and they are among those of a list then.
GraphKnows(rp, v, us) ==
  us \subseteq DOMAIN v /\ \A u \in us : \E y \in KnownIn(rp, v[u].name) : y.provider = v[u].provider
Represented(v, us, w, list) ==
  \A g \in us : \E x \in Range(list) : /\ w[x].name = v[g].name /\ w[x].provider = v[g].provider
                                      /\ v[g].roles \subseteq w[x].roles

\* Identities that come to those of the graph.
LEMMA GlobalsTaken ==
  ASSUME NEW rp, NEW v, NEW is, NEW us, NEW w, NEW list,
         VaultIs(rp, v), GlobalsAre(rp, v, is), GraphKnows(rp, v, us),
         IdsTaken(v, is, us, w, list, TRUE)
  PROVE  /\ VaultIs(rp, w) /\ GlobalsAre(rp, w, list) /\ Grown(rp, v, w, DOMAIN v)
         /\ DOMAIN w = DOMAIN v
         /\ GlobalsDiffer(v, is) => GlobalsDiffer(w, list)
         /\ Represented(v, Range(is), w, list) /\ Represented(v, us, w, list)
  <1> DEFINE all == Range(is) \cup us
  <1>1. /\ list \in Seq(Address) /\ DOMAIN w = DOMAIN v
        /\ \A x \in DOMAIN v : /\ w[x] \in Identity
                               /\ w[x].name = v[x].name /\ w[x].provider = v[x].provider
                               /\ v[x].roles \subseteq w[x].roles
        /\ Range(is) \subseteq Range(list) /\ Range(list) \subseteq all
        /\ \A x \in DOMAIN v \ all : w[x] = v[x]
        /\ \A x \in all : w[x].roles \subseteq RolesOf(v, all, x)
        /\ \A u \in us : \E g \in Range(list) :
             /\ v[g].name = v[u].name /\ v[g].provider = v[u].provider
             /\ v[u].roles \subseteq w[g].roles
        /\ Differing(v, is, TRUE) => Differing(v, list, TRUE)
    BY DEF IdsTaken, Alike
  <1>2. /\ all \subseteq DOMAIN v
        /\ \A x \in all : \E y \in KnownIn(rp, v[x].name) : y.provider = v[x].provider
    BY DEF GlobalsAre, GraphKnows
  <1> HIDE DEF all
  <1>4. VaultIs(rp, w)
    <2>1. Range(is) \cup us \subseteq DOMAIN v
      BY <1>2 DEF all
    <2> QED BY <2>1, VaultTaken
  <1>5. GlobalsAre(rp, w, list)
    BY <1>1, <1>2 DEF GlobalsAre
  <1>6. Grown(rp, v, w, DOMAIN v)
    BY <1>1, <1>2 DEF Grown
  <1>7. ASSUME GlobalsDiffer(v, is)
        PROVE  GlobalsDiffer(w, list)
    <2>1. Differing(v, list, TRUE)
      BY <1>1, <1>7 DEF Differing, Alike, GlobalsDiffer
    <2>2. \A k \in DOMAIN list : list[k] \in DOMAIN v
      BY <1>1, <1>2 DEF Range
    <2> QED BY <1>1, <2>1, <2>2 DEF Differing, Alike, GlobalsDiffer
  <1>8. ASSUME NEW g \in Range(is) \cup us
        PROVE  \E x \in Range(list) : /\ w[x].name = v[g].name /\ w[x].provider = v[g].provider
                                      /\ v[g].roles \subseteq w[x].roles
    <2>1. \A x \in Range(list) : x \in DOMAIN v
      BY <1>1, <1>2
    <2>2. CASE g \in Range(is)
      BY <1>1, <2>1, <2>2
    <2>3. CASE g \in us
      BY <1>1, <2>1, <2>3
    <2> QED BY <2>2, <2>3
  <1>9. Represented(v, Range(is), w, list) /\ Represented(v, us, w, list)
    BY <1>8 DEF Represented
  <1> QED BY <1>1, <1>4, <1>5, <1>6, <1>7, <1>9

\* Objects are added.
Extended(f, g) == \A x \in DOMAIN f : x \in DOMAIN g /\ g[x] = f[x]

\* What is known of an agent stays known when objects are added and identities get more roles.
LEMMA FactsGrown ==
  ASSUME NEW rp, NEW a, NEW P, NEW Q, NEW h, NEW v, NEW g, NEW w,
         Facts(rp, a, P, Q, h, v), Extended(h, g), Grown(rp, v, w, DOMAIN v)
  PROVE  Facts(rp, a, P, Q, g, w)
  <1>1. \A t \in Range(a.tools) : t \in DOMAIN g /\ g[t] = h[t]
    BY DEF Facts, ToolsAre, Extended
  <1>2. Grown(rp, v, w, Range(a.ids))
    BY DEF Facts, IdsAre, Grown
  <1> QED BY <1>1, <1>2, FactsElsewhere

\* Growth of the vault is transitive, and more objects are no change to those there are.
LEMMA GrownTwice ==
  ASSUME NEW rp, NEW v, NEW w, NEW u, Grown(rp, v, w, DOMAIN v), Grown(rp, w, u, DOMAIN w)
  PROVE  Grown(rp, v, u, DOMAIN v)
  BY DEF Grown

LEMMA GrownWhenExtended ==
  ASSUME NEW rp, NEW v, NEW w, Extended(v, w)
  PROVE  Grown(rp, v, w, DOMAIN v)
  BY DEF Grown, Extended

\* New objects change nothing of agents, as the adapters made them or consolidated.
LEMMA PendingGrown ==
  ASSUME NEW rp, NEW list, NEW pos, NEW h, NEW v, NEW g, NEW w,
         Pending(rp, list, pos, h, v), Extended(h, g), Grown(rp, v, w, DOMAIN v)
  PROVE  Pending(rp, list, pos, g, w)
  BY FactsGrown DEF Pending

LEMMA AgentsGrown ==
  ASSUME NEW rp, NEW list, NEW D, NEW R, NEW h, NEW v, NEW g, NEW w,
         AgentsAre(rp, list, D, R, h, v), Extended(h, g), Grown(rp, v, w, DOMAIN v)
  PROVE  AgentsAre(rp, list, D, R, g, w)
  <1>1. ASSUME NEW n \in DOMAIN list
        PROVE  AgentIs(rp, list[n], D, R, g, w)
    <2>1. AgentIs(rp, list[n], D, R, h, v)
      BY DEF AgentsAre
    <2> QED BY <2>1, FactsGrown DEF AgentIs
  <1> QED BY <1>1 DEF AgentsAre

\* The objects of two sets of addresses that have none in common.
LEMMA BothIs ==
  ASSUME NEW f, NEW g, \A x \in DOMAIN g : x \notin DOMAIN f
  PROVE  /\ DOMAIN Both(f, g) = DOMAIN f \cup DOMAIN g
         /\ Extended(f, Both(f, g)) /\ Extended(g, Both(f, g))
  BY DEF Both, Extended

-----------------------------------------------------------------------------
(* Linking an agent                                                        *)

\* Whom a name finds in the graph.
LEMMA GlobalOfIs ==
  ASSUME NEW rp, GlobalsAre(rp, vault, globals), NEW n
  PROVE  /\ \A g \in GlobalOf(n) : g \in Range(globals) /\ vault[g].name = n
         /\ \A g, x \in GlobalOf(n) : g = x
         /\ \A g \in Range(globals) : vault[g].name = n => GlobalOf(n) # {}
  <1> DEFINE named == Indices(globals, vault, n)
             last == globals[LastOf(named)]
  <1>1. Len(globals) \in Nat /\ DOMAIN globals = 1..Len(globals)
    BY RangeIs DEF GlobalsAre
  <1>2. named \in SUBSET (1..Len(globals))
    BY <1>1 DEF Indices
  <1>3. \A k \in named : globals[k] \in Range(globals) /\ vault[globals[k]].name = n
    BY DEF Indices, Range
  <1>4. \A g \in Range(globals) : vault[g].name = n => named # {}
    BY DEF Indices, Range
  <1>5. (named = {} => GlobalOf(n) = {}) /\ (named # {} => GlobalOf(n) = {last})
    BY DEF GlobalOf
  <1>6. named # {} => LastOf(named) \in named
    <2> HIDE DEF named
    <2> QED BY <1>1, <1>2, LastIs
  <1> HIDE DEF named
  <1> QED BY <1>3, <1>4, <1>5, <1>6

\* After the identities at us were linked, in the vault v.
LinkedTo(rp, v, us, w) ==
  /\ DOMAIN w = DOMAIN v /\ VaultIs(rp, w) /\ GlobalsAre(rp, w, globals)
  /\ \A x \in DOMAIN v : /\ w[x].name = v[x].name /\ v[x].roles \subseteq w[x].roles
                         /\ KnownIn(rp, v[x].name) = {} => w[x].roles = v[x].roles
  /\ \A x \in us : Knows(rp, w, x)

\* More roles do no harm.
LEMMA KnowsMore ==
  ASSUME NEW rp, NEW v, NEW w, NEW x, Knows(rp, v, x), w[x].name = v[x].name,
         v[x].roles \subseteq w[x].roles
  PROVE  Knows(rp, w, x)
  BY DEF Knows

\* One identity is linked; then all of an agent are.
LEMMA OneLinked ==
  ASSUME NEW rp, GlobalsAre(rp, vault, globals), GlobalsKnow(rp, vault, globals),
         NEW us, us \subseteq DOMAIN vault, NEW v, LinkedTo(rp, vault, us, v),
         NEW i \in DOMAIN vault, NEW w, w = LinkIdentity(v, i)
  PROVE  LinkedTo(rp, vault, us \cup {i}, w)
  <1> DEFINE n == v[i].name
             Condition == \E g \in GlobalOf(n) : v[g].provider \in {v[i].provider, "generic"}
                                                 \/ v[i].provider = "generic"
  <1>1. /\ DOMAIN v = DOMAIN vault /\ VaultIs(rp, v) /\ GlobalsAre(rp, v, globals)
        /\ \A x \in DOMAIN vault : /\ v[x].name = vault[x].name
                                   /\ vault[x].roles \subseteq v[x].roles
                                   /\ KnownIn(rp, vault[x].name) = {} => v[x].roles = vault[x].roles
        /\ \A x \in us : Knows(rp, v, x)
    BY DEF LinkedTo
  <1>2. /\ \A x \in DOMAIN v : /\ v[x] \in Identity
                               /\ v[x].roles \subseteq UNION {y.roles : y \in EverIn(rp, v[x].name)}
                               /\ \E y \in EverIn(rp, v[x].name) : y.provider = v[x].provider
        /\ \A g \in Range(globals) : /\ g \in DOMAIN v
                                     /\ \E y \in KnownIn(rp, v[g].name) : y.provider = v[g].provider
    BY <1>1 DEF VaultIs, GlobalsAre
  <1>3. \A g \in Range(globals) : Knows(rp, v, g)
    BY <1>1, <1>2, KnowsMore DEF GlobalsKnow
  <1>4. \A g \in GlobalOf(n) : g \in Range(globals) /\ v[g].name = n
    BY <1>1, <1>2, GlobalOfIs
  <1>5. CASE Condition
    <2> DEFINE g == CHOOSE x \in GlobalOf(n) : TRUE
    <2>1. g \in GlobalOf(n)
      BY <1>5
    <2>2. w = [v EXCEPT ![i].roles = @ \cup v[g].roles,
                        ![i].provider = IF @ = "generic" THEN v[g].provider ELSE @]
      BY <1>5 DEF LinkIdentity
    <2> HIDE DEF g
    <2>3. /\ DOMAIN w = DOMAIN v /\ \A x \in DOMAIN v : x # i => w[x] = v[x]
          /\ w[i] = [v[i] EXCEPT !.roles = @ \cup v[g].roles,
                                 !.provider = IF @ = "generic" THEN v[g].provider ELSE @]
      BY <1>1, <2>2
    <2>4. /\ g \in Range(globals) /\ v[g].name = n /\ v[g] \in Identity /\ v[i] \in Identity
          /\ g \in DOMAIN v
      BY <1>1, <1>2, <1>4, <2>1
    <2> HIDE DEF n
    <2>5. /\ w[i] \in Identity /\ w[i].name = v[i].name /\ w[i].roles = v[i].roles \cup v[g].roles
          /\ w[i].provider = IF v[i].provider = "generic" THEN v[g].provider ELSE v[i].provider
      BY <2>3, <2>4 DEF Identity
    <2>6. /\ \E y \in KnownIn(rp, n) : y.provider = v[g].provider
          /\ v[g].roles \subseteq UNION {y.roles : y \in EverIn(rp, n)}
          /\ \A y \in KnownIn(rp, n) : y \in EverIn(rp, n)
          /\ n = v[i].name
      BY <1>2, <2>4 DEF EverIn, n
    <2>7. Knows(rp, w, i)
      <3>1. Knows(rp, v, g)
        BY <1>3, <2>4
      <3> QED BY <2>4, <2>5, <2>6, <3>1 DEF Knows
    <2>8. VaultIs(rp, w)
      <3> SUFFICES ASSUME NEW x \in DOMAIN w
                   PROVE  /\ w[x] \in Identity /\ w[x].name = v[x].name
                          /\ w[x].roles \subseteq UNION {y.roles : y \in EverIn(rp, w[x].name)}
                          /\ \E y \in EverIn(rp, w[x].name) : y.provider = w[x].provider
        BY <1>1, <2>3 DEF VaultIs
      <3>1. CASE x = i
        <4>1. w[i].roles \subseteq UNION {y.roles : y \in EverIn(rp, n)}
          BY <1>1, <1>2, <2>5, <2>6
        <4>2. \E y \in EverIn(rp, n) : y.provider = w[i].provider
          BY <1>1, <1>2, <2>5, <2>6
        <4> QED BY <2>5, <2>6, <3>1, <4>1, <4>2
      <3>2. CASE x # i
        BY <1>2, <2>3, <3>2
      <3> QED BY <3>1, <3>2
    <2>9. GlobalsAre(rp, w, globals)
      <3> SUFFICES ASSUME NEW x \in Range(globals)
                   PROVE  x \in DOMAIN w /\ \E y \in KnownIn(rp, w[x].name) : y.provider = w[x].provider
        BY DEF GlobalsAre
      <3>1. CASE x = i
        <4>1. w[i].provider \in {v[i].provider, v[g].provider}
          BY <2>5
        <4>2. i \in DOMAIN w /\ \E y \in KnownIn(rp, n) : y.provider = v[i].provider
          BY <1>2, <2>3, <2>6, <3>1
        <4>3. \E y \in KnownIn(rp, n) : y.provider = w[i].provider
          BY <2>6, <4>1, <4>2
        <4> QED BY <2>5, <2>6, <3>1, <4>2, <4>3
      <3>2. CASE x # i
        BY <1>2, <2>3, <3>2
      <3> QED BY <3>1, <3>2
    <2>10. \A x \in DOMAIN vault : /\ w[x].name = vault[x].name /\ vault[x].roles \subseteq w[x].roles
                                   /\ KnownIn(rp, vault[x].name) = {} => w[x].roles = vault[x].roles
      <3> SUFFICES ASSUME NEW x \in DOMAIN vault
                   PROVE  /\ w[x].name = vault[x].name /\ vault[x].roles \subseteq w[x].roles
                          /\ KnownIn(rp, vault[x].name) = {} => w[x].roles = vault[x].roles
        OBVIOUS
      <3>1. CASE x = i
        BY <1>1, <2>5, <2>6, <3>1
      <3>2. CASE x # i
        BY <1>1, <2>3, <3>2
      <3> QED BY <3>1, <3>2
    <2>11. \A x \in us \cup {i} : Knows(rp, w, x)
      <3>1. \A x \in us : x # i => Knows(rp, w, x)
        BY <1>1, <2>3, KnowsMore
      <3> QED BY <2>7, <3>1
    <2> QED BY <1>1, <2>3, <2>8, <2>9, <2>10, <2>11 DEF LinkedTo
  <1>6. CASE ~Condition
    <2>1. w = v
      BY <1>6 DEF LinkIdentity
    <2>2. Knows(rp, v, i)
      <3> SUFFICES ASSUME NEW p, OneProviderIn(rp, n, p)
                   PROVE  FALSE
        BY DEF Knows
      <3>1. PICK y \in KnownBy(rp, Len(rp.files), Len(rp.resolved)) : y.name = n
        BY DEF OneProviderIn, KnownIn
      <3>2. PICK g \in GlobalOf(n) : TRUE
        BY <3>1, GlobalOfIs DEF GlobalsKnow
      <3>3. v[g].name = n /\ v[g].provider = p
        BY <1>2, <1>4, <3>2 DEF OneProviderIn
      <3>4. v[i].provider \in {p, "generic"}
        BY <1>1, <1>2 DEF OneProviderIn
      <3> QED BY <1>6, <3>2, <3>3, <3>4
    <2> QED BY <1>1, <2>1, <2>2 DEF LinkedTo
  <1> QED BY <1>5, <1>6

LEMMA LinksFolded ==
  ASSUME NEW rp, VaultIs(rp, vault), GlobalsAre(rp, vault, globals),
         GlobalsKnow(rp, vault, globals), NEW list \in Seq(Address), Range(list) \subseteq DOMAIN vault
  PROVE  LinkedTo(rp, vault, Range(list), Folded(LinkIdentity, vault, list))
  <1> DEFINE n == Len(list)
             First(k) == {list[i] : i \in 1..k}
  <1>1. n \in Nat /\ First(n) = Range(list) /\ \A k \in 1..n : list[k] \in DOMAIN vault
    BY RangeIs
  <1>2. PICK f : LinkSteps(f, vault, list, n) /\ Folded(LinkIdentity, vault, list) = f[n]
    BY <1>1, LinkStepsExist
  <1> DEFINE Done(k) == LinkedTo(rp, vault, First(k), f[k])
             S == {k \in 0..n : Done(k)}
  <1>3. 0 \in S
    <2>1. f[0] = vault /\ First(0) = {}
      BY <1>2 DEF LinkSteps
    <2>2. LinkedTo(rp, vault, {}, vault)
      BY DEF LinkedTo
    <2> HIDE DEF First
    <2>3. Done(0)
      BY <2>1, <2>2
    <2> HIDE DEF Done
    <2> QED BY <1>1, <2>3
  <1>4. ASSUME NEW k \in 1..n, k - 1 \in S
        PROVE  k \in S
    <2>1. First(k) = First(k - 1) \cup {list[k]}
      OBVIOUS
    <2>2. First(k - 1) \subseteq DOMAIN vault /\ list[k] \in DOMAIN vault
      BY <1>1
    <2>3. f[k] = LinkIdentity(f[k - 1], list[k])
      BY <1>2 DEF LinkSteps
    <2>4. LinkedTo(rp, vault, First(k - 1), f[k - 1])
      BY <1>4
    <2> HIDE DEF First
    <2>5. LinkedTo(rp, vault, First(k - 1) \cup {list[k]}, f[k])
      BY <2>2, <2>3, <2>4, OneLinked
    <2>6. Done(k) /\ k \in 0..n
      BY <1>1, <2>1, <2>5
    <2> HIDE DEF Done
    <2> QED BY <2>6
  <1> HIDE DEF S
  <1>5. 0..n \subseteq S
    BY <1>1, <1>3, <1>4, Steps0
  <1>6. n \in S
    BY <1>1, <1>5
  <1> QED BY <1>1, <1>2, <1>6 DEF S
-----------------------------------------------------------------------------
(* Agents do not share what is their own                                   *)

\* Agents of different declarations have no tool in common, and no identity the graph does not
\* know.
LEMMA NotShared ==
  ASSUME NEW rp \in Repositories, NEW P, NEW B, NEW a, NEW b, NEW h, NEW v,
         P \subseteq Decls(rp, Len(rp.files)), B \subseteq Decls(rp, Len(rp.files)),
         \A p \in P : p \notin B, VaultIs(rp, v),
         ToolsAre(rp, a, P, {}, h), ToolsAre(rp, b, B, {}, h), IdsAre(rp, a, P, v), IdsAre(rp, b, B, v)
  PROVE  /\ \A t \in Range(a.tools) : t \notin Range(b.tools)
         /\ \A x \in Range(a.ids) : KnownIn(rp, v[x].name) = {} => x \notin Range(b.ids)
  <1>1. \A t \in Range(a.tools) : t \notin Range(b.tools)
    BY DEF ToolsAre
  <1>2. ASSUME NEW x \in Range(a.ids), KnownIn(rp, v[x].name) = {}, x \in Range(b.ids)
        PROVE  FALSE
    <2>1. PICK p \in P : x[1] = p[1] /\ x[3] \in Range(Decl(rp, p).runsAs)
      BY <1>2 DEF IdsAre
    <2>2. PICK q \in B : x[1] = q[1] /\ x[3] \in Range(Decl(rp, q).runsAs)
      BY <1>2 DEF IdsAre
    <2>3. /\ p \in Decls(rp, Len(rp.files)) /\ q \in Decls(rp, Len(rp.files))
          /\ p = <<p[1], p[2]>> /\ q = <<q[1], q[2]>> /\ p # q
          /\ p[1] \in 1..Len(rp.files) /\ p[1] \in DOMAIN rp.files /\ p[1] # 0
          /\ p[2] \in DOMAIN rp.files[p[1]].agents /\ q[2] \in DOMAIN rp.files[p[1]].agents
      <3>1. Len(rp.files) \in 0..Len(rp.files)
        BY ScanIs
      <3>2. /\ p \in Decls(rp, Len(rp.files)) /\ q \in Decls(rp, Len(rp.files))
            /\ p # q
        OBVIOUS
      <3>3. /\ p = <<p[1], p[2]>> /\ p[1] \in 1..Len(rp.files) /\ p[1] \in DOMAIN rp.files
            /\ p[1] # 0 /\ p[2] \in DOMAIN rp.files[p[1]].agents
        BY <3>1, <3>2, DeclIs
      <3>4. q = <<q[1], q[2]>> /\ q[2] \in DOMAIN rp.files[q[1]].agents
        BY <3>1, <3>2, DeclIs
      <3> QED BY <2>1, <2>2, <3>2, <3>3, <3>4
    <2>4. p[2] # q[2]
      BY <2>1, <2>2, <2>3
    <2> DEFINE f == rp.files[p[1]]
    <2>5. Range(f.agents[p[2]].runsAs) \cap Range(f.agents[q[2]].runsAs) \subseteq 1..f.global
      BY <2>3, <2>4, RepositoriesAssumption
    <2>6. x[3] \in 1..f.global
      BY <2>1, <2>2, <2>3, <2>5 DEF Decl
    <2>7. v[x].name = f.identities[x[3]].name
      BY <1>2, <2>1, <2>3 DEF VaultIs, IdsAre
    <2>8. f.identities[x[3]] \in KnownBy(rp, Len(rp.files), Len(rp.resolved))
      BY <2>3, <2>6 DEF KnownBy
    <2> QED BY <1>2, <2>7, <2>8 DEF KnownIn
  <1> QED BY <1>1, <1>2

\* What is known of an agent stays known when another is consolidated.
LEMMA FactsOfOthers ==
  ASSUME NEW rp \in Repositories, NEW P, NEW p, NEW B, NEW a, NEW new, NEW b, NEW h, NEW v,
         P \subseteq Decls(rp, Len(rp.files)), p \in Decls(rp, Len(rp.files)),
         B \subseteq Decls(rp, Len(rp.files)), \A q \in B : q \notin P /\ q # p, VaultIs(rp, v),
         Facts(rp, a, P, {}, h, v), Facts(rp, new, {p}, {}, h, v), Facts(rp, b, B, {}, h, v),
         NEW acc, ToolsTaken(h, a.tools, Range(new.tools), acc),
         NEW w, NEW ids, IdsTaken(v, a.ids, Range(new.ids), w, ids, FALSE)
  PROVE  Facts(rp, b, B, {}, acc.heap, w)
  <1>1. /\ \A t \in Range(b.tools) : t \notin Range(a.tools)
        /\ \A x \in Range(b.ids) : KnownIn(rp, v[x].name) = {} => x \notin Range(a.ids)
    BY NotShared DEF Facts
  <1>2. /\ \A t \in Range(b.tools) : t \notin Range(new.tools)
        /\ \A x \in Range(b.ids) : KnownIn(rp, v[x].name) = {} => x \notin Range(new.ids)
    <2> DEFINE N == {p}
    <2>1. N \subseteq Decls(rp, Len(rp.files)) /\ (\A q \in B : q \notin N) /\ Facts(rp, new, N, {}, h, v)
      OBVIOUS
    <2> HIDE DEF N
    <2> QED BY <2>1, NotShared DEF Facts
  <1>3. /\ \A t \in Range(b.tools) : t \in DOMAIN h
        /\ \A x \in Range(b.ids) : x \in DOMAIN v
    BY DEF Facts, ToolsAre, IdsAre
  <1>4. \A t \in Range(b.tools) : t \in DOMAIN acc.heap /\ acc.heap[t] = h[t]
    BY <1>1, <1>2, <1>3 DEF ToolsTaken
  <1>5. Grown(rp, v, w, Range(b.ids))
    BY <1>1, <1>2, <1>3 DEF IdsTaken, Grown
  <1> QED BY <1>4, <1>5, FactsElsewhere

-----------------------------------------------------------------------------
(* Lists of agents                                                         *)

\* Agents change, but neither which there are nor, unless nothing is resolved yet, whom they
\* delegate to.
SameAgents(list, r, R) ==
  /\ r \in Seq(Agent) /\ DOMAIN r = DOMAIN list
  /\ \A n \in DOMAIN list : /\ r[n].name = list[n].name /\ r[n].instance = list[n].instance
                            /\ (R = {} \/ list[n].delegates \subseteq r[n].delegates)
EachIs(rp, list, D, R, h, v) == \A n \in DOMAIN list : AgentIs(rp, list[n], D, R, h, v)
Covers(rp, list, r, D, R, D2, R2) ==
  /\ \A p \in D2 : p \in D \/ \E n \in DOMAIN list : SameKey(Decl(rp, p), list[n])
  /\ \A q \in R2 : q \in R \/ \E n \in DOMAIN list :
                                (/\ list[n].name = rp.resolved[q].name
                                 /\ rp.resolved[q].delegates \subseteq r[n].delegates)

\* Consolidated agents after one of them was changed or one was added.
LEMMA AgentsChanged ==
  ASSUME NEW rp, NEW list, NEW D, NEW R, NEW h, NEW v, AgentsAre(rp, list, D, R, h, v),
         NEW r, SameAgents(list, r, R), NEW D2, NEW R2, NEW g, NEW w,
         EachIs(rp, r, D2, R2, g, w), Covers(rp, list, r, D, R, D2, R2)
  PROVE  AgentsAre(rp, r, D2, R2, g, w)
  <1>1. \A k, n \in DOMAIN r : SameKey(r[k], r[n]) => k = n
    BY DEF AgentsAre, SameKey, SameAgents
  <1>2. \A p \in D2 : \E n \in DOMAIN r : SameKey(Decl(rp, p), r[n])
    BY DEF AgentsAre, SameKey, SameAgents, Covers
  <1>3. \A q \in R2 : \E n \in DOMAIN r : /\ r[n].name = rp.resolved[q].name
                                          /\ rp.resolved[q].delegates \subseteq r[n].delegates
    <2> TAKE q \in R2
    <2>1. CASE q \in R
      <3>1. PICK n \in DOMAIN list : /\ list[n].name = rp.resolved[q].name
                                     /\ rp.resolved[q].delegates \subseteq list[n].delegates
        BY <2>1 DEF AgentsAre
      <3> QED BY <2>1, <3>1 DEF SameAgents
    <2> QED BY <2>1 DEF SameAgents, Covers
  <1> QED BY <1>1, <1>2, <1>3 DEF AgentsAre, SameAgents, EachIs

\* An agent is added.
LEMMA AgentAdded ==
  ASSUME NEW rp, NEW list, NEW D, NEW R, NEW h, NEW v, AgentsAre(rp, list, D, R, h, v),
         NEW c, \A n \in DOMAIN list : ~SameKey(list[n], c), NEW r, r = Append(list, c),
         NEW D2, NEW R2, \A n \in DOMAIN list : AgentIs(rp, list[n], D2, R2, h, v),
         AgentIs(rp, c, D2, R2, h, v),
         \A p \in D2 : p \in D \/ SameKey(Decl(rp, p), c),
         \A q \in R2 : q \in R \/ /\ c.name = rp.resolved[q].name
                                  /\ rp.resolved[q].delegates \subseteq c.delegates
  PROVE  AgentsAre(rp, r, D2, R2, h, v)
  <1> DEFINE m == Len(list)
  <1>1. list \in Seq(Agent) /\ c \in Agent
    BY DEF AgentsAre, AgentIs, Facts
  <1>2. /\ m \in Nat /\ DOMAIN list = 1..m /\ r \in Seq(Agent) /\ DOMAIN r = 1..(m + 1)
        /\ r[m + 1] = c /\ \A n \in 1..m : r[n] = list[n]
    BY <1>1, AppendProperties, LenProperties
  <1>3. /\ \A n \in DOMAIN r : n = m + 1 \/ n \in DOMAIN list
        /\ \A n \in DOMAIN list : n \in DOMAIN r /\ r[n] = list[n]
        /\ m + 1 \in DOMAIN r
    BY <1>2
  <1> HIDE DEF m
  <1>4. \A n \in DOMAIN r : AgentIs(rp, r[n], D2, R2, h, v)
    BY <1>2, <1>3
  <1>5. ASSUME NEW k \in DOMAIN r, NEW n \in DOMAIN r, SameKey(r[k], r[n])
        PROVE  k = n
    <2>1. \A x, y : SameKey(x, y) => SameKey(y, x)
      BY DEF SameKey
    <2>2. \A i, j \in DOMAIN list : SameKey(list[i], list[j]) => i = j
      BY DEF AgentsAre
    <2> QED BY <1>2, <1>3, <1>5, <2>1, <2>2
  <1>6. \A p \in D2 : \E n \in DOMAIN r : SameKey(Decl(rp, p), r[n])
    <2> TAKE p \in D2
    <2>1. CASE p \in D
      BY <1>3, <2>1 DEF AgentsAre
    <2> QED BY <1>2, <1>3, <2>1
  <1>7. \A q \in R2 : \E n \in DOMAIN r : /\ r[n].name = rp.resolved[q].name
                                          /\ rp.resolved[q].delegates \subseteq r[n].delegates
    <2> TAKE q \in R2
    <2>1. CASE q \in R
      BY <1>3, <2>1 DEF AgentsAre
    <2> QED BY <1>2, <1>3, <2>1
  <1> QED BY <1>2, <1>4, <1>5, <1>6, <1>7 DEF AgentsAre

\* The next element of t is moved to s, perhaps changed.
Moved(s, t, x, r) ==
  /\ DOMAIN r = DOMAIN (s \o t) /\ Len(s) + 1 \in DOMAIN r
  /\ r[Len(s) + 1] = x /\ (s \o t)[Len(s) + 1] = Head(t)
  /\ \A n \in DOMAIN r : n # Len(s) + 1 => r[n] = (s \o t)[n]

\* One agent is moved from the list still to be looked at to the end of the other.
LEMMA MovedIs ==
  ASSUME NEW S, NEW s \in Seq(S), NEW t \in Seq(S), t # <<>>, NEW x \in S
  PROVE  /\ Append(s, x) \o Tail(t) \in Seq(S)
         /\ Moved(s, t, x, Append(s, x) \o Tail(t))
  <1> DEFINE s2 == Append(s, x)
             t2 == Tail(t)
             r == s2 \o t2
             st == s \o t
             m == Len(s)
             n == Len(t)
  <1>1. /\ s2 \in Seq(S) /\ Len(s2) = m + 1 /\ m \in Nat /\ n \in Nat \ {0}
        /\ (\A i \in 1..m : s2[i] = s[i]) /\ s2[m + 1] = x
    BY AppendProperties, LenProperties, EmptySeq
  <1>2. t2 \in Seq(S) /\ Len(t2) = n - 1 /\ (\A i \in 1..(n - 1) : t2[i] = t[i + 1]) /\ Head(t) = t[1]
    BY HeadTailProperties
  <1>3. /\ r \in Seq(S) /\ Len(r) = m + 1 + (n - 1)
        /\ \A i \in 1..(m + 1 + (n - 1)) : r[i] = IF i <= m + 1 THEN s2[i] ELSE t2[i - (m + 1)]
    <2> HIDE DEF s2, t2
    <2>1. /\ s2 \o t2 \in Seq(S) /\ Len(s2 \o t2) = Len(s2) + Len(t2)
          /\ \A i \in 1..(Len(s2) + Len(t2)) :
               (s2 \o t2)[i] = IF i <= Len(s2) THEN s2[i] ELSE t2[i - Len(s2)]
      BY <1>1, <1>2, ConcatProperties
    <2>2. Len(s2) = m + 1 /\ Len(t2) = n - 1
      BY <1>1, <1>2
    <2> QED BY <2>1, <2>2
  <1>4. /\ st \in Seq(S) /\ Len(st) = m + n
        /\ \A i \in 1..(m + n) : st[i] = IF i <= m THEN s[i] ELSE t[i - m]
    BY ConcatProperties
  <1>5. DOMAIN r = 1..(m + n) /\ DOMAIN st = 1..(m + n)
    <2> HIDE DEF r, st, m, n
    <2>1. DOMAIN r = 1..Len(r) /\ DOMAIN st = 1..Len(st) /\ m + 1 + (n - 1) = m + n
      BY <1>1, <1>3, <1>4, LenProperties
    <2> QED BY <1>3, <1>4, <2>1
  <1> HIDE DEF r, st, s2, t2, m, n
  <1>6. m + 1 \in 1..(m + n) /\ r[m + 1] = x /\ st[m + 1] = t[1]
    BY <1>1, <1>3, <1>4
  <1>7. ASSUME NEW i \in 1..(m + n), i # m + 1
        PROVE  r[i] = st[i]
    <2>1. CASE i <= m
      BY <1>1, <1>3, <1>4, <2>1
    <2>2. CASE i > m + 1
      <3>1. i - (m + 1) \in 1..(n - 1) /\ i - (m + 1) + 1 = i - m
        BY <1>1, <2>2
      <3>2. r[i] = t2[i - (m + 1)]
        BY <1>1, <1>3, <2>2
      <3>3. t2[i - (m + 1)] = t[i - (m + 1) + 1]
        BY <1>2, <3>1
      <3>4. st[i] = t[i - m]
        BY <1>1, <1>4, <2>2
      <3> QED BY <3>1, <3>2, <3>3, <3>4
    <2> QED BY <1>1, <1>7, <2>1, <2>2
  <1> QED BY <1>2, <1>3, <1>5, <1>6, <1>7 DEF Moved, r, st, m, s2, t2

LEMMA MovedOnly ==
  ASSUME NEW S, NEW s \in Seq(S), NEW t \in Seq(S), t # <<>>
  PROVE  Append(s, Head(t)) \o Tail(t) = s \o t
  <1>1. Head(t) \in S
    BY HeadTailProperties
  <1> DEFINE r == Append(s, Head(t)) \o Tail(t)
             st == s \o t
  <1>2. r \in Seq(S) /\ Moved(s, t, Head(t), r)
    BY <1>1, MovedIs
  <1>3. st \in Seq(S)
    BY JoinedIs
  <1>4. DOMAIN r = DOMAIN st /\ \A n \in DOMAIN r : r[n] = st[n]
    <2> HIDE DEF r
    <2> QED BY <1>2 DEF Moved
  <1> HIDE DEF r, st
  <1>5. r = [n \in DOMAIN r |-> r[n]] /\ st = [n \in DOMAIN st |-> st[n]]
    BY <1>2, <1>3, SeqDef
  <1>6. r = st
    BY <1>4, <1>5
  <1> QED BY <1>6 DEF r, st

\* What is left of a list.
Rest(list, rest) ==
  /\ rest \in Seq(Range(list)) /\ Len(rest) <= Len(list)
  /\ \A k \in DOMAIN rest : rest[k] = list[Len(list) - Len(rest) + k]

\* pos is a parameter of the phases in which there are agents as the adapters made them.
PhaseInv(rp, ph, fs, rs, td, as, h, v, gs, pos) ==
  LET m == Len(rp.files) - Len(fs)
      r == Len(rp.resolved) - Len(rs)
      all == Decls(rp, Len(rp.files))
      named == 1..r IN
  /\ ph # "merge" => fs = <<>>
  /\ ph \in {"merge", "identities", "consolidate"} => rs = rp.resolved
  /\ ph \in {"again", "link", "done"} => rs = <<>>
  /\ ph \in {"merge", "identities", "enrich", "done"} => td = <<>>
  /\ ph \notin {"link", "done"} => GlobalsCover(rp, v, gs, m, r)
  /\ ph \notin {"merge", "link", "done"} => GlobalsDiffer(v, gs)
  /\ ph \in {"merge", "identities"} =>
       Pending(rp, as, pos, h, v) /\ Range(pos) = Decls(rp, m)
  /\ ph = "consolidate" =>
       /\ Pending(rp, td, pos, h, v) /\ Range(pos) \subseteq all
       /\ \A d \in all \ Range(pos) : \A p \in Range(pos) : d[1] <= p[1]
       /\ AgentsAre(rp, as, all \ Range(pos), {}, h, v)
  /\ ph \in {"enrich", "again", "link", "done"} => AgentsAre(rp, as \o td, all, named, h, v)
  /\ ph \in {"link", "done"} =>
       GlobalsKnow(rp, v, gs) /\ \A a \in Range(as) : LinkedIs(rp, a, h, v)

StateInv(rp, ph, fs, rs, td, as, h, v, gs, pos) ==
  /\ rp \in Repositories /\ Rest(rp.files, fs) /\ Rest(rp.resolved, rs)
  /\ ph \in {"merge", "identities", "consolidate", "enrich", "again", "link", "done"}
  /\ as \in Seq(Agent) /\ td \in Seq(Agent)
  /\ PlacesAre(h, Len(rp.files) - Len(fs), Len(rp.resolved) - Len(rs)) /\ HeapIs(h)
  /\ PlacesAre(v, Len(rp.files) - Len(fs), Len(rp.resolved) - Len(rs)) /\ VaultIs(rp, v)
  /\ GlobalsAre(rp, v, gs)
  /\ PhaseInv(rp, ph, fs, rs, td, as, h, v, gs, pos)

\* pos may be any list in phases in which all agents are consolidated.
Inv == \E pos : StateInv(repo, phase, files, resolved, todo, agents, heap, vault, globals, pos)

\* Taking the first of what is left of a list.
LEMMA RestIs ==
  ASSUME NEW S, NEW list \in Seq(S), NEW rest, Rest(list, rest), rest # <<>>
  PROVE  LET n == Len(list) - Len(rest) + 1 IN
         /\ n \in 1..Len(list) /\ Head(rest) = list[n] /\ Rest(list, Tail(rest))
         /\ Len(list) - Len(Tail(rest)) = n
  <1> DEFINE l == Len(list)
             k == Len(rest)
             t == Tail(rest)
  <1>1. l \in Nat
    BY LenProperties
  <1>2. rest \in Seq(Range(list)) /\ k <= l /\ (\A i \in DOMAIN rest : rest[i] = list[l - k + i])
    BY DEF Rest
  <1>3. k \in Nat \ {0} /\ DOMAIN rest = 1..k /\ Head(rest) = rest[1]
    BY <1>2, EmptySeq, LenProperties
  <1>4. t \in Seq(Range(list)) /\ Len(t) = k - 1 /\ \A i \in 1..(k - 1) : t[i] = rest[i + 1]
    BY <1>2, HeadTailProperties
  <1>5. DOMAIN t = 1..(k - 1)
    BY <1>4, LenProperties
  <1> HIDE DEF l, k, t
  <1>6. \A i \in DOMAIN t : t[i] = list[l - (k - 1) + i]
    <2> TAKE i \in DOMAIN t
    <2>1. t[i] = rest[i + 1] /\ i + 1 \in 1..k /\ i \in Nat
      BY <1>3, <1>4, <1>5
    <2>2. rest[i + 1] = list[l - k + (i + 1)]
      BY <1>2, <1>3, <2>1
    <2>3. l - k + (i + 1) = l - (k - 1) + i
      BY <1>1, <1>3, <2>1
    <2> QED BY <2>1, <2>2, <2>3
  <1>7. Rest(list, t)
    <2>1. Len(t) <= l
      BY <1>1, <1>2, <1>3, <1>4
    <2>2. \A i \in DOMAIN t : t[i] = list[l - Len(t) + i]
      BY <1>4, <1>6
    <2> QED BY <1>4, <2>1, <2>2 DEF Rest, l
  <1>8. l - k + 1 \in 1..l /\ Head(rest) = list[l - k + 1] /\ l - Len(t) = l - k + 1
    <2>1. 1 \in DOMAIN rest /\ l - k + 1 \in 1..l
      BY <1>1, <1>2, <1>3
    <2>2. rest[1] = list[l - k + 1]
      BY <1>2, <2>1
    <2> QED BY <1>1, <1>3, <1>4, <2>1, <2>2
  <1>9. Rest(list, Tail(rest))
    BY <1>7 DEF t
  <1>10. /\ Len(list) - Len(rest) + 1 \in 1..Len(list)
         /\ Head(rest) = list[Len(list) - Len(rest) + 1]
         /\ Len(list) - Len(Tail(rest)) = Len(list) - Len(rest) + 1
    BY <1>8 DEF l, k, t
  <1> QED BY <1>9, <1>10

LEMMA RestAll ==
  ASSUME NEW S, NEW list \in Seq(S)
  PROVE  Rest(list, list) /\ Len(list) - Len(list) = 0
  <1>1. Len(list) \in Nat /\ DOMAIN list = 1..Len(list) /\ list \in Seq(Range(list))
    BY LenProperties, SeqDef DEF Range
  <1> QED BY <1>1 DEF Rest

\* A function on 1..n is a list.
LEMMA SeqIs ==
  ASSUME NEW S, NEW n \in Nat, NEW s \in [1..n -> S]
  PROVE  s \in Seq(S)
  BY SeqDef

\* Objects that are made of a list: at <<n, j, k>> the one at k, for each j in J.
Objects(g, n, J, list) ==
  /\ \A x \in DOMAIN g : /\ x = <<n, x[2], x[3]>> /\ x[1] = n /\ x[2] \in J /\ x[3] \in DOMAIN list
                         /\ g[x] = list[x[3]]
  /\ \A j \in J, k \in DOMAIN list : <<n, j, k>> \in DOMAIN g /\ g[<<n, j, k>>] = list[k]

\* New objects, and what heap and vault are with them.
LEMMA ObjectsAre ==
  ASSUME NEW n, NEW J, NEW list
  PROVE  Objects([x \in {n} \X J \X DOMAIN list |-> list[x[3]]], n, J, list)
  BY DEF Objects

LEMMA HeapGrows ==
  ASSUME NEW h, HeapIs(h), NEW g, \A x \in DOMAIN g : g[x] \in Tool
  PROVE  HeapIs(Both(h, g))
  BY DEF HeapIs, Both

LEMMA VaultGrows ==
  ASSUME NEW rp, NEW v, VaultIs(rp, v), NEW g, VaultIs(rp, g)
  PROVE  VaultIs(rp, Both(v, g))
  <1> DEFINE b == Both(v, g)
  <1>1. /\ DOMAIN b = DOMAIN v \cup DOMAIN g
        /\ \A x \in DOMAIN b : (x \in DOMAIN v /\ b[x] = v[x]) \/ (x \in DOMAIN g /\ b[x] = g[x])
    BY DEF Both
  <1> HIDE DEF b
  <1>2. VaultIs(rp, b)
    BY <1>1 DEF VaultIs
  <1> QED BY <1>2 DEF b

\* Where the objects are of files or resolved agents that come later.
LEMMA PlacesLater ==
  ASSUME NEW f, NEW m \in Nat, NEW r \in Nat, PlacesAre(f, m, r), NEW g, NEW m2 \in Nat, NEW r2 \in Nat,
         m <= m2, r <= r2, PlacesAre(g, m2, r2)
  PROVE  PlacesAre(Both(f, g), m2, r2)
  <1>1. DOMAIN Both(f, g) = DOMAIN f \cup DOMAIN g
    BY DEF Both
  <1>2. 1..m \subseteq 1..m2 /\ 1..r \subseteq 1..r2
    OBVIOUS
  <1>3. \A x \in DOMAIN f : x \in Address /\ IF x[1] = 0 THEN x[2] \in 1..r2 ELSE x[1] \in 1..m2
    BY <1>2 DEF PlacesAre
  <1> QED BY <1>1, <1>3 DEF PlacesAre

-----------------------------------------------------------------------------
(* Steps                                                                   *)

\* Before the first file.
LEMMA InitiallyInv == Init => Inv
  <1> SUFFICES ASSUME Init
               PROVE  Inv
    OBVIOUS
  <1> DEFINE none == <<>>
  <1>1. /\ repo \in Repositories /\ phase = "merge" /\ files = repo.files
        /\ resolved = repo.resolved /\ todo = none /\ agents = none /\ heap = none /\ vault = none
        /\ globals = none
    BY DEF Init
  <1>2. /\ Rest(repo.files, repo.files) /\ Len(repo.files) - Len(repo.files) = 0
        /\ Rest(repo.resolved, repo.resolved) /\ Len(repo.resolved) - Len(repo.resolved) = 0
    <2>1. repo.files \in Seq(File) /\ repo.resolved \in Seq(Resolution)
      BY <1>1, RepositoriesAssumption
    <2> QED BY <2>1, RestAll
  <1>3. DOMAIN none = {} /\ Range(none) = {} /\ none \in Seq(Nat \X Nat) /\ none \in Seq(Address)
        /\ none \in Seq(Agent)
    BY DEF Range
  <1> HIDE DEF none
  <1>4. PlacesAre(none, 0, 0) /\ HeapIs(none) /\ VaultIs(repo, none) /\ GlobalsAre(repo, none, none)
    BY <1>3 DEF PlacesAre, HeapIs, VaultIs, GlobalsAre
  <1>5. GlobalsCover(repo, none, none, 0, 0)
    <2>1. KnownBy(repo, 0, 0) = {}
      BY DEF KnownBy
    <2> QED BY <2>1 DEF GlobalsCover
  <1>6. Pending(repo, none, none, none, none) /\ Range(none) = Decls(repo, 0)
    BY <1>3 DEF Pending, Decls
  <1>7. StateInv(repo, phase, files, resolved, todo, agents, heap, vault, globals, none)
    BY <1>1, <1>2, <1>3, <1>4, <1>5, <1>6 DEF StateInv, PhaseInv, none
  <1> QED BY <1>7 DEF Inv

\* The agents of one file more.
LEMMA PendingJoined ==
  ASSUME NEW rp, NEW l1, NEW p1, NEW l2, NEW p2, NEW h, NEW v,
         Pending(rp, l1, p1, h, v), Pending(rp, l2, p2, h, v),
         \A k \in DOMAIN p1, n \in DOMAIN p2 : p1[k][1] <= p2[n][1] /\ p1[k] # p2[n]
  PROVE  Pending(rp, l1 \o l2, p1 \o p2, h, v) /\ Range(p1 \o p2) = Range(p1) \cup Range(p2)
  <1> DEFINE list == l1 \o l2
             pos == p1 \o p2
             a == Len(p1)
             b == Len(p2)
  <1>1. /\ l1 \in Seq(Agent) /\ l2 \in Seq(Agent) /\ p1 \in Seq(Nat \X Nat) /\ p2 \in Seq(Nat \X Nat)
        /\ DOMAIN l1 = DOMAIN p1 /\ DOMAIN l2 = DOMAIN p2
    BY DEF Pending
  <1>2. /\ list \in Seq(Agent) /\ Len(list) = Len(l1) + Len(l2)
        /\ \A i \in 1..Len(l1) : list[i] = l1[i]
        /\ \A j \in 1..Len(l2) : list[Len(l1) + j] = l2[j]
    BY <1>1, JoinedIs
  <1>3. /\ pos \in Seq(Nat \X Nat) /\ Range(pos) = Range(p1) \cup Range(p2)
        /\ a \in Nat /\ b \in Nat /\ Len(pos) = a + b
        /\ \A i \in 1..a : pos[i] = p1[i]
        /\ \A j \in 1..b : pos[a + j] = p2[j]
    BY <1>1, JoinedIs
  <1>4. /\ DOMAIN p1 = 1..a /\ DOMAIN p2 = 1..b /\ DOMAIN l1 = 1..Len(l1) /\ DOMAIN l2 = 1..Len(l2)
        /\ Len(l1) \in Nat /\ Len(l2) \in Nat
    BY <1>1, LenProperties
  <1> HIDE DEF a, b
  <1>5. Len(l1) = a /\ Len(l2) = b
    BY <1>1, <1>3, <1>4
  <1>6. DOMAIN list = 1..(a + b) /\ DOMAIN pos = 1..(a + b)
    <2> HIDE DEF list, pos
    <2>1. DOMAIN list = 1..Len(list) /\ DOMAIN pos = 1..Len(pos)
      BY <1>2, <1>3, LenProperties
    <2> QED BY <1>2, <1>3, <1>5, <2>1
  <1> HIDE DEF list, pos
  <1>7. \A i \in 1..(a + b) : \/ i \in 1..a /\ list[i] = l1[i] /\ pos[i] = p1[i]
                              \/ /\ i - a \in 1..b /\ i > a
                                 /\ list[i] = l2[i - a] /\ pos[i] = p2[i - a]
    <2> TAKE i \in 1..(a + b)
    <2>1. CASE i <= a
      BY <1>2, <1>3, <1>5, <2>1
    <2>2. CASE i > a
      <3>1. i - a \in 1..b /\ a + (i - a) = i
        BY <1>3, <2>2
      <3> QED BY <1>2, <1>3, <1>5, <2>2, <3>1
    <2> QED BY <1>3, <2>1, <2>2
  <1>8. ASSUME NEW i \in DOMAIN pos
        PROVE  list[i] = Raw(rp, pos[i]) /\ Facts(rp, list[i], {pos[i]}, {}, h, v)
    <2>1. \A j \in 1..a : l1[j] = Raw(rp, p1[j]) /\ Facts(rp, l1[j], {p1[j]}, {}, h, v)
      BY <1>4 DEF Pending
    <2>2. \A j \in 1..b : l2[j] = Raw(rp, p2[j]) /\ Facts(rp, l2[j], {p2[j]}, {}, h, v)
      BY <1>4 DEF Pending
    <2>3. CASE i \in 1..a /\ list[i] = l1[i] /\ pos[i] = p1[i]
      BY <2>1, <2>3
    <2>4. CASE i - a \in 1..b /\ list[i] = l2[i - a] /\ pos[i] = p2[i - a]
      BY <2>2, <2>4
    <2>5. i \in 1..(a + b)
      BY <1>6
    <2> QED BY <1>7, <2>3, <2>4, <2>5
  <1>9. ASSUME NEW k \in DOMAIN pos, NEW n \in DOMAIN pos, k < n
        PROVE  pos[k][1] <= pos[n][1] /\ pos[k] # pos[n]
    <2>1. k \in 1..(a + b) /\ n \in 1..(a + b)
      BY <1>6
    <2>2. CASE k \in 1..a /\ pos[k] = p1[k] /\ n \in 1..a /\ pos[n] = p1[n]
      BY <1>4, <1>9, <2>2 DEF Pending
    <2>3. CASE k \in 1..a /\ pos[k] = p1[k] /\ n - a \in 1..b /\ pos[n] = p2[n - a]
      BY <1>4, <2>3
    <2>4. CASE k - a \in 1..b /\ pos[k] = p2[k - a] /\ n - a \in 1..b /\ pos[n] = p2[n - a]
      <3>1. k - a < n - a
        BY <1>3, <1>9, <2>1
      <3> QED BY <1>4, <2>4, <3>1 DEF Pending
    <2>5. ~(k > a /\ n \in 1..a)
      BY <1>3, <1>9, <2>1
    <2> QED BY <1>7, <2>1, <2>2, <2>3, <2>4, <2>5
  <1>10. Pending(rp, list, pos, h, v)
    BY <1>2, <1>3, <1>6, <1>8, <1>9 DEF Pending
  <1> QED BY <1>3, <1>10 DEF list, pos

\* The agents of a file are as its adapter made them.
LEMMA AddedAre ==
  ASSUME NEW f, f = repo.files[FileNo]
  PROVE  LET list == Added(f, [j \in DOMAIN f.agents |-> j]) IN
         /\ DOMAIN list = DOMAIN f.agents
         /\ \A j \in DOMAIN f.agents : list[j] = Raw(repo, <<FileNo, j>>)
  <1> DEFINE copy == [j \in DOMAIN f.agents |-> j]
             list == Added(f, copy)
  <1>1. DOMAIN list = DOMAIN f.agents
    BY DEF Added
  <1>2. ASSUME NEW j \in DOMAIN f.agents
        PROVE  list[j] = Raw(repo, <<FileNo, j>>)
    <2> DEFINE p == <<FileNo, j>>
               d == f.agents[j]
    <2>1. p[1] = FileNo /\ p[2] = j /\ copy[j] = j
      OBVIOUS
    <2> HIDE DEF p, copy
    <2>2. Decl(repo, p) = d
      BY <2>1 DEF Decl
    <2>3. list[j] = [name |-> d.name, instance |-> d.instance,
                     tools |-> [k \in DOMAIN d.uses |-> <<FileNo, copy[j], d.uses[k]>>],
                     ids |-> [k \in DOMAIN d.runsAs |-> <<FileNo, 0, d.runsAs[k]>>],
                     servers |-> d.servers, inputs |-> d.inputs, delegates |-> d.delegates,
                     policy |-> d.policy, manifest |-> f.manifest, file |-> FileNo]
      BY DEF Added
    <2> HIDE DEF d, list
    <2>4. Raw(repo, p) = [name |-> d.name, instance |-> d.instance,
                          tools |-> [k \in DOMAIN d.uses |-> <<FileNo, j, d.uses[k]>>],
                          ids |-> [k \in DOMAIN d.runsAs |-> <<FileNo, 0, d.runsAs[k]>>],
                          servers |-> d.servers, inputs |-> d.inputs, delegates |-> d.delegates,
                          policy |-> d.policy, manifest |-> f.manifest, file |-> FileNo]
      BY <2>1, <2>2 DEF Raw
    <2> QED BY <2>1, <2>3, <2>4 DEF p
  <1> QED BY <1>1, <1>2

\* A file is merged.
LEMMA MergeFileStep ==
  ASSUME NEW pos,
         StateInv(repo, phase, files, resolved, todo, agents, heap, vault, globals, pos), MergeFile
  PROVE  Inv'
  <1> DEFINE m == Len(repo.files) - Len(files)
             n == FileNo
             f == Head(files)
             tools == Copies(f, DOMAIN f.agents)
             ids == [i \in {n} \X {0} \X DOMAIN f.identities |-> f.identities[i[3]]]
             added == Added(f, [j \in DOMAIN f.agents |-> j])
             more == [j \in DOMAIN f.agents |-> <<n, j>>]
             known == [k \in 1..f.global |-> <<n, 0, k>>]
  <1>1. /\ phase = "merge" /\ files # <<>> /\ files' = Tail(files)
        /\ heap' = Both(heap, tools) /\ agents' = agents \o added /\ vault' = Both(vault, ids)
        /\ globals' = globals \o known
        /\ repo' = repo /\ phase' = phase /\ resolved' = resolved /\ todo' = todo
    BY DEF MergeFile, Merged
  <1>2. /\ repo \in Repositories /\ Rest(repo.files, files) /\ Rest(repo.resolved, resolved)
        /\ resolved = repo.resolved /\ todo = <<>>
        /\ PlacesAre(heap, m, Len(repo.resolved) - Len(resolved)) /\ HeapIs(heap)
        /\ PlacesAre(vault, m, Len(repo.resolved) - Len(resolved)) /\ VaultIs(repo, vault)
        /\ GlobalsAre(repo, vault, globals)
        /\ GlobalsCover(repo, vault, globals, m, Len(repo.resolved) - Len(resolved))
        /\ Pending(repo, agents, pos, heap, vault) /\ Range(pos) = Decls(repo, m)
    BY <1>1 DEF StateInv, PhaseInv
  <1>3. Len(repo.resolved) - Len(resolved) = 0
    BY <1>2, ScanIs
  <1>4. /\ n \in 1..Len(repo.files) /\ f = repo.files[n] /\ Rest(repo.files, Tail(files))
        /\ Len(repo.files) - Len(Tail(files)) = n /\ n = m + 1 /\ m \in Nat
    <2>1. repo.files \in Seq(File)
      BY <1>2, RepositoriesAssumption
    <2>2. /\ n \in 1..Len(repo.files) /\ f = repo.files[n] /\ Rest(repo.files, Tail(files))
          /\ Len(repo.files) - Len(Tail(files)) = n
      BY <1>1, <1>2, <2>1, RestIs DEF FileNo
    <2>3. Len(repo.files) \in Nat /\ Len(files) \in Nat
      BY <1>2, ScanIs, LenProperties DEF Rest
    <2>4. n = m + 1
      BY DEF FileNo
    <2>5. m \in Nat
      <3> HIDE DEF n
      <3> QED BY <2>2, <2>3, <2>4
    <2> QED BY <2>2, <2>4, <2>5
  <1>5. f \in File /\ n \in DOMAIN repo.files
    BY <1>2, <1>4, ScanIs
  <1>6. Objects(tools, n, DOMAIN f.agents, f.tools)
    BY ObjectsAre DEF Copies
  <1>7. Objects(ids, n, {0}, f.identities)
    BY ObjectsAre
  <1>8. DOMAIN added = DOMAIN f.agents /\ \A j \in DOMAIN f.agents : added[j] = Raw(repo, <<n, j>>)
    BY <1>4, AddedAre
  <1>9. /\ DOMAIN more = DOMAIN f.agents /\ \A j \in DOMAIN f.agents : more[j] = <<n, j>>
        /\ DOMAIN known = 1..f.global /\ \A k \in 1..f.global : known[k] = <<n, 0, k>>
    OBVIOUS
  <1>10. /\ f.agents \in Seq(Declaration) /\ f.tools \in Seq(Tool) /\ f.identities \in Seq(Identity)
         /\ f.global \in Nat /\ f.global <= Len(f.identities)
    BY <1>2, <1>5, <1>4, RepositoriesAssumption DEF File
  <1>11. /\ Len(f.agents) \in Nat /\ Len(f.tools) \in Nat /\ Len(f.identities) \in Nat
         /\ DOMAIN f.agents = 1..Len(f.agents) /\ DOMAIN f.tools = 1..Len(f.tools)
         /\ DOMAIN f.identities = 1..Len(f.identities)
         /\ \A k \in DOMAIN f.tools : f.tools[k] \in Tool
         /\ \A k \in DOMAIN f.identities : f.identities[k] \in Identity
    BY <1>10, RangeIs
  <1>12. added = [j \in DOMAIN f.agents |-> added[j]] /\ more \in Seq(Nat \X Nat) /\ known \in Seq(Address)
    <2>1. added = [j \in DOMAIN f.agents |-> added[j]]
      BY DEF Added
    <2>2. more \in [1..Len(f.agents) -> Nat \X Nat]
      BY <1>4, <1>11
    <2>3. known \in [1..f.global -> Address]
      BY <1>4 DEF Address
    <2> HIDE DEF added, more, known, f
    <2>4. more \in Seq(Nat \X Nat)
      BY <1>11, <2>2, SeqIs
    <2>5. known \in Seq(Address)
      BY <1>10, <2>3, SeqIs
    <2> QED BY <2>1, <2>4, <2>5
  <1> HIDE DEF m, n, f, tools, ids, added, more, known
  <1>13. PlacesAre(tools, n, 0) /\ PlacesAre(ids, n, 0)
    <2>1. \A x \in DOMAIN tools : x \in Address /\ x[1] \in 1..n /\ x[1] # 0
      BY <1>4, <1>6, <1>11 DEF Objects, Address
    <2>2. \A x \in DOMAIN ids : x \in Address /\ x[1] \in 1..n /\ x[1] # 0
      BY <1>4, <1>7, <1>11 DEF Objects, Address
    <2> QED BY <2>1, <2>2 DEF PlacesAre
  <1>14. /\ \A x \in DOMAIN tools : x \notin DOMAIN heap
         /\ \A x \in DOMAIN ids : x \notin DOMAIN vault
    <2>1. \A g : PlacesAre(g, m, 0) => \A x \in DOMAIN g : x[1] # n
      BY <1>4 DEF PlacesAre
    <2> QED BY <1>2, <1>3, <1>6, <1>7, <2>1 DEF Objects, m
  <1>15. Extended(heap, heap') /\ Extended(tools, heap') /\ Extended(vault, vault') /\ Extended(ids, vault')
    BY <1>1, <1>14, BothIs
  <1>16. HeapIs(heap') /\ PlacesAre(heap', n, 0) /\ PlacesAre(vault', n, 0)
    <2>1. \A x \in DOMAIN tools : tools[x] \in Tool
      BY <1>6, <1>11 DEF Objects
    <2>2. HeapIs(heap')
      BY <1>1, <1>2, <2>1, HeapGrows
    <2>3. n \in Nat /\ m <= n /\ 0 <= 0
      BY <1>4
    <2>4. PlacesAre(heap, m, 0) /\ PlacesAre(vault, m, 0)
      BY <1>2, <1>3 DEF m
    <2> QED BY <1>1, <1>4, <1>13, <2>2, <2>3, <2>4, PlacesLater
  <1>17. \A k \in DOMAIN f.identities : f.identities[k] \in EverIn(repo, f.identities[k].name)
    BY <1>4, <1>5 DEF EverIn, Range
  <1>18. VaultIs(repo, vault')
    <2>1. ASSUME NEW x \in DOMAIN ids
          PROVE  /\ ids[x] \in Identity /\ x[1] # 0 /\ ids[x] = repo.files[x[1]].identities[x[3]]
                 /\ ids[x] \in EverIn(repo, ids[x].name)
      BY <1>4, <1>7, <1>11, <1>17 DEF Objects
    <2>2. VaultIs(repo, ids)
      BY <2>1 DEF VaultIs
    <2> QED BY <1>1, <1>2, <2>2, VaultGrows
  <1>19. Grown(repo, vault, vault', DOMAIN vault)
    BY <1>15, GrownWhenExtended
  <1>20. \A k \in 1..f.global : /\ <<n, 0, k>> \in DOMAIN vault' /\ <<n, 0, k>> \in Range(globals')
                                /\ vault'[<<n, 0, k>>] = f.identities[k]
                                /\ f.identities[k] \in KnownIn(repo, f.identities[k].name)
    <2> TAKE k \in 1..f.global
    <2>1. k \in DOMAIN f.identities
      BY <1>10, <1>11
    <2>2. <<n, 0, k>> \in DOMAIN vault' /\ vault'[<<n, 0, k>>] = f.identities[k]
      BY <1>7, <1>15, <2>1 DEF Objects, Extended
    <2>3. <<n, 0, k>> \in Range(known)
      BY <1>9 DEF Range
    <2>4. Range(globals') = Range(globals) \cup Range(known)
      BY <1>1, <1>2, <1>12, JoinedIs DEF GlobalsAre
    <2>5. f.identities[k] \in KnownBy(repo, Len(repo.files), Len(repo.resolved))
      BY <1>4 DEF KnownBy
    <2> QED BY <2>2, <2>3, <2>4, <2>5 DEF KnownIn
  <1>21. GlobalsAre(repo, vault', globals')
    <2>1. globals \in Seq(Address)
      BY <1>2 DEF GlobalsAre
    <2>2. globals' \in Seq(Address) /\ Range(globals') = Range(globals) \cup Range(known)
      BY <1>1, <1>12, <2>1, JoinedIs
    <2>3. \A g \in Range(known) : \E k \in 1..f.global : g = <<n, 0, k>>
      BY <1>9 DEF Range
    <2>4. \A g \in Range(globals) : /\ g \in DOMAIN vault'
                                    /\ \E y \in KnownIn(repo, vault'[g].name) : y.provider = vault'[g].provider
      BY <1>2, <1>15 DEF GlobalsAre, Extended
    <2>5. \A g \in Range(known) : /\ g \in DOMAIN vault'
                                  /\ \E y \in KnownIn(repo, vault'[g].name) : y.provider = vault'[g].provider
      BY <1>20, <2>3
    <2> QED BY <2>2, <2>4, <2>5 DEF GlobalsAre
  <1>22. GlobalsCover(repo, vault', globals', n, 0)
    <2> SUFFICES ASSUME NEW y \in KnownBy(repo, n, 0)
                 PROVE  \E g \in Range(globals') : /\ vault'[g].name = y.name
                                                  /\ vault'[g].provider = y.provider
                                                  /\ y.roles \subseteq vault'[g].roles
      BY DEF GlobalsCover
    <2>1. CASE y \in KnownBy(repo, m, 0)
      <3>1. PICK g \in Range(globals) : /\ vault[g].name = y.name /\ vault[g].provider = y.provider
                                        /\ y.roles \subseteq vault[g].roles
        BY <1>2, <1>3, <2>1 DEF GlobalsCover, m
      <3>2. g \in DOMAIN vault /\ g \in Range(globals')
        BY <1>1, <1>2, <1>12, JoinedIs DEF GlobalsAre
      <3> QED BY <1>15, <3>1, <3>2 DEF Extended
    <2>2. CASE y \notin KnownBy(repo, m, 0)
      <3>1. PICK i \in 1..n : \E k \in 1..repo.files[i].global : y = repo.files[i].identities[k]
        BY <2>2 DEF KnownBy
      <3>2. i \notin 1..m
        BY <2>2, <3>1 DEF KnownBy
      <3>3. i = n
        BY <1>4, <3>2
      <3>4. PICK k \in 1..f.global : y = f.identities[k]
        BY <1>4, <3>1, <3>3
      <3> QED BY <1>20, <3>4
    <2> QED BY <2>1, <2>2
  <1>23. Pending(repo, agents, pos, heap', vault')
    BY <1>2, <1>15, <1>19, PendingGrown
  <1>24. Pending(repo, added, more, heap', vault')
    <2>1. ASSUME NEW j \in DOMAIN more
          PROVE  Facts(repo, added[j], {more[j]}, {}, heap', vault')
      <3> DEFINE p == more[j]
      <3>1. /\ p[1] = n /\ p[2] = j /\ j \in DOMAIN f.agents /\ repo.files[p[1]] = f
            /\ added[j] = Raw(repo, p) /\ p \in Decls(repo, Len(repo.files))
        <4>1. p = <<n, j>> /\ j \in DOMAIN f.agents /\ j \in Nat
          BY <1>9, <1>11
        <4> HIDE DEF p
        <4>2. p[1] = n /\ p[2] = j /\ p \in (1..Len(repo.files)) \X Nat
          BY <1>4, <4>1
        <4> QED BY <1>4, <1>8, <4>1, <4>2 DEF Decls
      <3> HIDE DEF p
      <3>2. \A k \in DOMAIN repo.files[p[1]].tools :
              LET t == <<p[1], p[2], k>> IN t \in DOMAIN heap' /\ heap'[t] = repo.files[p[1]].tools[k]
        BY <1>6, <1>15, <3>1 DEF Objects, Extended
      <3>3. \A k \in DOMAIN repo.files[p[1]].identities :
              LET x == <<p[1], 0, k>> IN x \in DOMAIN vault' /\ vault'[x] = repo.files[p[1]].identities[k]
        BY <1>7, <1>15, <3>1 DEF Objects, Extended
      <3> QED BY <1>2, <3>1, <3>2, <3>3, FactsRaw DEF p
    <2>2. \A j \in DOMAIN more : added[j] \in Agent
      BY <2>1 DEF Facts
    <2>3. added \in Seq(Agent)
      <3>1. \A j \in 1..Len(f.agents) : added[j] \in Agent
        BY <1>9, <1>11, <2>2
      <3>2. added = [j \in 1..Len(f.agents) |-> added[j]]
        BY <1>11, <1>12
      <3>3. added \in [1..Len(f.agents) -> Agent]
        BY <3>1, <3>2
      <3> QED BY <1>11, <3>3, SeqIs
    <2>4. \A j, k \in DOMAIN more : j < k => more[j][1] <= more[k][1] /\ more[j] # more[k]
      BY <1>4, <1>9, <1>11
    <2> QED BY <1>8, <1>9, <1>12, <2>1, <2>3, <2>4 DEF Pending
  <1> DEFINE all == pos \o more
  <1>25. Pending(repo, agents', all, heap', vault') /\ Range(all) = Decls(repo, n)
    <2>1. \A k \in DOMAIN pos : pos[k] \in Decls(repo, m) /\ pos[k][1] \in 1..m
      BY <1>2 DEF Range, m, Decls
    <2>2. \A k \in DOMAIN pos, j \in DOMAIN more : pos[k][1] <= more[j][1] /\ pos[k] # more[j]
      BY <1>4, <1>9, <2>1
    <2>3. Pending(repo, agents', all, heap', vault') /\ Range(all) = Range(pos) \cup Range(more)
      BY <1>1, <1>23, <1>24, <2>2, PendingJoined
    <2>4. Range(more) = {<<n, j>> : j \in DOMAIN f.agents}
      BY <1>9 DEF Range
    <2>5. Decls(repo, n) = Decls(repo, m) \cup {<<n, j>> : j \in DOMAIN f.agents}
      BY <1>4, <1>11 DEF Decls
    <2> QED BY <1>2, <2>3, <2>4, <2>5 DEF m
  <1> HIDE DEF all
  <1>26. StateInv(repo', phase', files', resolved', todo', agents', heap', vault', globals', all)
    <2>1. agents' \in Seq(Agent) /\ todo' \in Seq(Agent)
      BY <1>1, <1>25 DEF Pending, StateInv
    <2> QED BY <1>1, <1>2, <1>3, <1>4, <1>16, <1>18, <1>21, <1>22, <1>25, <2>1 DEF StateInv, PhaseInv
  <1> QED BY <1>26 DEF Inv

\* The identities of the graph are consolidated.
LEMMA ConsolidateIdentitiesStep ==
  ASSUME NEW pos,
         StateInv(repo, phase, files, resolved, todo, agents, heap, vault, globals, pos),
         ConsolidateIdentities
  PROVE  Inv'
  <1> DEFINE m == Len(repo.files) - Len(files)
             r == Len(repo.resolved) - Len(resolved)
             none == <<>>
             acc == Folded(TakeGlobal, [vault |-> vault, list |-> none], globals)
  <1>1. /\ phase = "merge" /\ files = <<>> /\ phase' = "identities"
        /\ vault' = acc.vault /\ globals' = acc.list
        /\ repo' = repo /\ files' = files /\ resolved' = resolved /\ todo' = todo
        /\ agents' = agents /\ heap' = heap
    BY DEF ConsolidateIdentities
  <1>2. /\ repo \in Repositories /\ Rest(repo.files, files) /\ Rest(repo.resolved, resolved)
        /\ agents \in Seq(Agent) /\ todo \in Seq(Agent)
        /\ resolved = repo.resolved /\ todo = <<>>
        /\ PlacesAre(heap, m, r) /\ HeapIs(heap) /\ PlacesAre(vault, m, r) /\ VaultIs(repo, vault)
        /\ GlobalsAre(repo, vault, globals) /\ GlobalsCover(repo, vault, globals, m, r)
        /\ Pending(repo, agents, pos, heap, vault) /\ Range(pos) = Decls(repo, m)
    BY <1>1 DEF StateInv, PhaseInv
  <1>3. none \in Seq(Address) /\ Range(none) = {}
    BY DEF Range
  <1>4. /\ DOMAIN vault \subseteq Address /\ (\A x \in DOMAIN vault : vault[x] \in Identity)
        /\ globals \in Seq(Address) /\ Range(globals) \subseteq DOMAIN vault
    BY <1>2 DEF PlacesAre, VaultIs, GlobalsAre
  <1>5. IdsTaken(vault, none, Range(globals), vault', globals', TRUE)
    <2> HIDE DEF none
    <2>1. Range(none) \cup Range(globals) \subseteq DOMAIN vault
      BY <1>3, <1>4
    <2> QED BY <1>1, <1>3, <1>4, <2>1, GlobalsFolded
  <1>6. GlobalsAre(repo, vault, none) /\ GlobalsDiffer(vault, none)
    BY DEF GlobalsAre, GlobalsDiffer, Range
  <1> HIDE DEF none, acc
  <1>7. GraphKnows(repo, vault, Range(globals))
    BY <1>2 DEF GlobalsAre, GraphKnows
  <1>8. /\ VaultIs(repo, vault') /\ GlobalsAre(repo, vault', globals')
        /\ Grown(repo, vault, vault', DOMAIN vault) /\ DOMAIN vault' = DOMAIN vault
        /\ GlobalsDiffer(vault', globals')
        /\ Represented(vault, Range(globals), vault', globals')
    BY <1>2, <1>5, <1>6, <1>7, GlobalsTaken
  <1>9. GlobalsCover(repo, vault', globals', m, r)
    <2> SUFFICES ASSUME NEW y \in KnownBy(repo, m, r)
                 PROVE  \E x \in Range(globals') : /\ vault'[x].name = y.name
                                                  /\ vault'[x].provider = y.provider
                                                  /\ y.roles \subseteq vault'[x].roles
      BY DEF GlobalsCover
    <2>1. PICK g \in Range(globals) : /\ vault[g].name = y.name /\ vault[g].provider = y.provider
                                      /\ y.roles \subseteq vault[g].roles
      BY <1>2 DEF GlobalsCover
    <2> QED BY <1>8, <2>1 DEF Represented
  <1>10. PlacesAre(vault', m, r)
    BY <1>2, <1>8 DEF PlacesAre
  <1>11. Pending(repo, agents, pos, heap, vault')
    <2>1. Extended(heap, heap)
      BY DEF Extended
    <2> QED BY <1>2, <1>8, <2>1, PendingGrown
  <1>12. StateInv(repo', phase', files', resolved', todo', agents', heap', vault', globals', pos)
    BY <1>1, <1>2, <1>8, <1>9, <1>10, <1>11 DEF StateInv, PhaseInv
  <1> QED BY <1>12 DEF Inv

\* A consolidation starts.
LEMMA NoAgents ==
  ASSUME NEW rp, NEW h, NEW v
  PROVE  AgentsAre(rp, <<>>, {}, {}, h, v)
  <1> DEFINE none == <<>>
  <1>1. none \in Seq(Agent) /\ DOMAIN none = {}
    OBVIOUS
  <1> HIDE DEF none
  <1>2. AgentsAre(rp, none, {}, {}, h, v)
    BY <1>1 DEF AgentsAre
  <1> QED BY <1>2 DEF none

\* A consolidation starts with the agents as they are.
LEMMA StartConsolidationStep ==
  ASSUME NEW pos,
         StateInv(repo, phase, files, resolved, todo, agents, heap, vault, globals, pos),
         StartConsolidation
  PROVE  Inv'
  <1> DEFINE m == Len(repo.files) - Len(files)
             r == Len(repo.resolved) - Len(resolved)
             all == Decls(repo, Len(repo.files))
  <1>1. /\ phase \in {"identities", "enrich"} /\ todo' = agents /\ agents' = <<>>
        /\ repo' = repo /\ files' = files /\ resolved' = resolved /\ heap' = heap /\ vault' = vault
        /\ globals' = globals
        /\ phase = "identities" => phase' = "consolidate"
        /\ phase = "enrich" => resolved = <<>> /\ phase' = "again"
    BY DEF StartConsolidation
  <1>2. /\ repo \in Repositories /\ Rest(repo.files, files) /\ Rest(repo.resolved, resolved)
        /\ agents \in Seq(Agent) /\ todo \in Seq(Agent)
        /\ files = <<>> /\ todo = <<>>
        /\ PlacesAre(heap, m, r) /\ HeapIs(heap) /\ PlacesAre(vault, m, r) /\ VaultIs(repo, vault)
        /\ GlobalsAre(repo, vault, globals) /\ GlobalsCover(repo, vault, globals, m, r)
        /\ GlobalsDiffer(vault, globals)
    BY <1>1 DEF StateInv, PhaseInv
  <1>3. m = Len(repo.files)
    BY <1>2, ScanIs
  <1>4. CASE phase = "identities"
    <2>1. resolved = repo.resolved /\ Pending(repo, agents, pos, heap, vault) /\ Range(pos) = all
      BY <1>3, <1>4 DEF StateInv, PhaseInv
    <2>2. all \ Range(pos) = {}
      BY <2>1
    <2>3. AgentsAre(repo, agents', all \ Range(pos), {}, heap, vault)
      BY <1>1, <2>2, NoAgents
    <2>4. StateInv(repo', phase', files', resolved', todo', agents', heap', vault', globals', pos)
      BY <1>1, <1>2, <1>4, <2>1, <2>2, <2>3 DEF StateInv, PhaseInv
    <2> QED BY <2>4 DEF Inv
  <1>5. CASE phase = "enrich"
    <2>1. AgentsAre(repo, agents \o todo, all, 1..r, heap, vault)
      BY <1>5 DEF StateInv, PhaseInv
    <2>2. agents \in Seq(Agent) /\ agents \o todo = agents /\ agents' \o todo' = agents
      BY <1>1, <1>2, ConcatEmptySeq
    <2>3. StateInv(repo', phase', files', resolved', todo', agents', heap', vault', globals', pos)
      BY <1>1, <1>2, <1>5, <2>1, <2>2 DEF StateInv, PhaseInv
    <2> QED BY <2>3 DEF Inv
  <1> QED BY <1>1, <1>4, <1>5

\* When all files are merged and all resolved agents, the graph knows of an identity all there is.
LEMMA GlobalsKnowAll ==
  ASSUME NEW rp, NEW v, NEW gs, GlobalsAre(rp, v, gs), GlobalsDiffer(v, gs),
         GlobalsCover(rp, v, gs, Len(rp.files), Len(rp.resolved))
  PROVE  GlobalsKnow(rp, v, gs)
  <1>1. ASSUME NEW g \in Range(gs), NEW p, OneProviderIn(rp, v[g].name, p),
               NEW y \in KnownIn(rp, v[g].name)
        PROVE  y.roles \subseteq v[g].roles
    <2>1. y \in KnownBy(rp, Len(rp.files), Len(rp.resolved)) /\ y.name = v[g].name /\ y.provider = p
      BY <1>1 DEF OneProviderIn, KnownIn
    <2>2. PICK x \in Range(gs) : /\ v[x].name = y.name /\ v[x].provider = y.provider
                                 /\ y.roles \subseteq v[x].roles
      BY <2>1 DEF GlobalsCover
    <2>3. v[g].provider = p
      BY <1>1 DEF GlobalsAre, OneProviderIn
    <2>4. x = g
      BY <2>1, <2>2, <2>3 DEF GlobalsDiffer, Range
    <2> QED BY <2>2, <2>4
  <1>2. \A y \in KnownBy(rp, Len(rp.files), Len(rp.resolved)) : \E g \in Range(gs) : v[g].name = y.name
    BY DEF GlobalsCover
  <1> QED BY <1>1, <1>2 DEF GlobalsKnow, Knows

\* A consolidation ends; so do the links.
LEMMA EndConsolidationStep ==
  ASSUME NEW pos,
         StateInv(repo, phase, files, resolved, todo, agents, heap, vault, globals, pos),
         EndConsolidation
  PROVE  Inv'
  <1> DEFINE m == Len(repo.files) - Len(files)
             r == Len(repo.resolved) - Len(resolved)
             all == Decls(repo, Len(repo.files))
  <1>1. /\ phase \in {"consolidate", "again"} /\ todo = <<>>
        /\ repo' = repo /\ files' = files /\ resolved' = resolved /\ heap' = heap /\ vault' = vault
        /\ globals' = globals
        /\ phase = "consolidate" => phase' = "enrich" /\ agents' = agents /\ todo' = todo
        /\ phase = "again" => phase' = "link" /\ agents' = <<>> /\ todo' = agents
    BY DEF EndConsolidation
  <1>2. /\ repo \in Repositories /\ Rest(repo.files, files) /\ Rest(repo.resolved, resolved)
        /\ agents \in Seq(Agent) /\ todo \in Seq(Agent)
        /\ files = <<>> /\ todo = <<>>
        /\ PlacesAre(heap, m, r) /\ HeapIs(heap) /\ PlacesAre(vault, m, r) /\ VaultIs(repo, vault)
        /\ GlobalsAre(repo, vault, globals) /\ GlobalsCover(repo, vault, globals, m, r)
        /\ GlobalsDiffer(vault, globals)
    BY <1>1 DEF StateInv, PhaseInv
  <1>3. m = Len(repo.files) /\ agents \o todo = agents
    BY <1>2, ScanIs, ConcatEmptySeq
  <1>4. CASE phase = "consolidate"
    <2>1. /\ resolved = repo.resolved /\ Pending(repo, todo, pos, heap, vault)
          /\ AgentsAre(repo, agents, all \ Range(pos), {}, heap, vault)
      BY <1>4 DEF StateInv, PhaseInv
    <2>2. all \ Range(pos) = all
      <3>1. DOMAIN pos = {}
        BY <1>2, <2>1 DEF Pending
      <3> QED BY <3>1 DEF Range
    <2>3. 1..r = {}
      BY <1>2, <2>1, ScanIs
    <2>4. AgentsAre(repo, agents \o todo, all, 1..r, heap, vault)
      BY <1>3, <2>1, <2>2, <2>3
    <2>5. StateInv(repo', phase', files', resolved', todo', agents', heap', vault', globals', pos)
      BY <1>1, <1>2, <1>4, <2>1, <2>4 DEF StateInv, PhaseInv
    <2> QED BY <2>5 DEF Inv
  <1>5. CASE phase = "again"
    <2>1. AgentsAre(repo, agents \o todo, all, 1..r, heap, vault) /\ resolved = <<>>
      BY <1>5 DEF StateInv, PhaseInv
    <2>2. agents' \o todo' = agents
      BY <1>1, <1>2, <1>5, ConcatEmptySeq
    <2>3. r = Len(repo.resolved)
      BY <1>2, <2>1, ScanIs
    <2>4. GlobalsKnow(repo, vault, globals)
      BY <1>2, <1>3, <2>3, GlobalsKnowAll
    <2>5. Range(agents') = {}
      BY <1>1, <1>5 DEF Range
    <2>6. agents' \in Seq(Agent) /\ todo' \in Seq(Agent)
      BY <1>1, <1>2, <1>5
    <2>7. StateInv(repo', phase', files', resolved', todo', agents', heap', vault', globals', pos)
      BY <1>1, <1>2, <1>3, <1>5, <2>1, <2>2, <2>4, <2>5, <2>6 DEF StateInv, PhaseInv
    <2> QED BY <2>7 DEF Inv
  <1> QED BY <1>1, <1>4, <1>5

\* Nothing is left to link.
LEMMA EndLinkStep ==
  ASSUME NEW pos,
         StateInv(repo, phase, files, resolved, todo, agents, heap, vault, globals, pos), EndLink
  PROVE  Inv'
  <1>1. /\ phase = "link" /\ todo = <<>> /\ phase' = "done"
        /\ repo' = repo /\ files' = files /\ resolved' = resolved /\ heap' = heap /\ vault' = vault
        /\ globals' = globals /\ todo' = todo /\ agents' = agents
    BY DEF EndLink
  <1>2. StateInv(repo', phase', files', resolved', todo', agents', heap', vault', globals', pos)
    BY <1>1 DEF StateInv, PhaseInv
  <1> QED BY <1>2 DEF Inv

\* The identities that an agent still needs come in some order.
LEMMA RangeFinite ==
  ASSUME NEW S, NEW s \in Seq(S)
  PROVE  IsFiniteSet(Range(s))
  <1> DEFINE n == Len(s)
             D == 1..n
  <1>1. n \in Nat /\ s \in [D -> Range(s)] /\ DOMAIN s = D
    BY LenProperties DEF Range
  <1>2. \A t \in Range(s) : \E k \in D : s[k] = t
    BY <1>1 DEF Range
  <1>3. IsFiniteSet(D)
    BY <1>1, FS_Interval
  <1>4. s \in Surjection(D, Range(s))
    BY <1>1, <1>2 DEF Surjection
  <1> QED BY <1>3, <1>4, FS_Surjection

\* What an agent gets when its tools and servers name identities it does not have.
MissingIds(a) ==
  UNION {GlobalOf(n) : n \in Referenced(a) \ ({vault[i].name : i \in Range(a.ids)} \cup {Nothing})}

\* The identities an agent still lacks, in any order.
LEMMA OrderIs ==
  ASSUME GlobalsAre(repo, vault, globals),
         NEW a, NEW order \in [1..Cardinality(MissingIds(a)) -> MissingIds(a)]
  PROVE  order \in Seq(Address)
  <1> DEFINE M == MissingIds(a)
  <1>1. \A g \in M : g \in Range(globals)
    BY GlobalOfIs DEF MissingIds
  <1>2. globals \in Seq(Address) /\ Range(globals) \subseteq Address
    BY RangeIs DEF GlobalsAre
  <1>3. IsFiniteSet(M)
    <2> HIDE DEF M
    <2>1. IsFiniteSet(Range(globals)) /\ M \in SUBSET Range(globals)
      BY <1>1, <1>2, RangeFinite
    <2> QED BY <2>1, FS_Subset
  <1> HIDE DEF M
  <1>4. Cardinality(M) \in Nat
    BY <1>3, FS_CardinalityType
  <1>5. order \in [1..Cardinality(M) -> Address]
    BY <1>1, <1>2 DEF M
  <1> QED BY <1>4, <1>5, SeqIs

\* An agent that is linked, in the vault w.
LEMMA LinkedAgentIs ==
  ASSUME NEW D, NEW R, VaultIs(repo, vault), GlobalsAre(repo, vault, globals),
         GlobalsKnow(repo, vault, globals), NEW a, AgentIs(repo, a, D, R, heap, vault),
         NEW w, LinkedTo(repo, vault, Range(a.ids), w),
         NEW order \in Seq(Address), Range(order) = MissingIds(a),
         NEW c, c = WithIds(a, order)
  PROVE  /\ AgentIs(repo, c, D, R, heap, w) /\ LinkedIs(repo, c, heap, w) /\ c \in Agent
         /\ c.name = a.name /\ c.instance = a.instance /\ c.delegates = a.delegates
  <1> DEFINE P == Mine(repo, a, D)
             Q == MyResolved(repo, a, R)
             missing == MissingIds(a)
  <1>1. Facts(repo, a, P, Q, heap, vault)
    BY DEF AgentIs
  <1>2. /\ DOMAIN w = DOMAIN vault /\ GlobalsAre(repo, w, globals)
        /\ \A x \in DOMAIN vault : /\ w[x].name = vault[x].name /\ vault[x].roles \subseteq w[x].roles
                                   /\ KnownIn(repo, vault[x].name) = {} => w[x].roles = vault[x].roles
        /\ \A x \in Range(a.ids) : Knows(repo, w, x)
    BY DEF LinkedTo
  <1>3. Grown(repo, vault, w, DOMAIN vault)
    BY <1>2 DEF Grown
  <1>4. Facts(repo, a, P, Q, heap, w)
    <2>1. Extended(heap, heap)
      BY DEF Extended
    <2> QED BY <1>1, <1>3, <2>1, FactsGrown
  <1>5. \A x \in missing : x \in Range(globals)
    BY GlobalOfIs DEF MissingIds
  <1>6. AllKnown(repo, w, Range(order))
    BY <1>2, <1>5 DEF GlobalsAre, AllKnown, missing
  <1> HIDE DEF P, Q, missing
  <1>7. /\ Facts(repo, c, P, Q, heap, w) /\ c.name = a.name /\ c.instance = a.instance
        /\ c.delegates = a.delegates /\ c.tools = a.tools /\ c.servers = a.servers
        /\ Range(c.ids) = Range(a.ids) \cup Range(order)
    BY <1>4, <1>6, FactsLinked
  <1>8. AgentIs(repo, c, D, R, heap, w)
    <2>1. Mine(repo, c, D) = P /\ MyResolved(repo, c, R) = Q
      BY <1>7 DEF Mine, SameKey, MyResolved, P, Q
    <2> QED BY <1>7, <2>1 DEF AgentIs, P, Q
  <1>9. LinkedIs(repo, c, heap, w)
    <2>1. \A x \in Range(c.ids) : Knows(repo, w, x)
      <3>1. \A x \in missing : Knows(repo, w, x)
        BY <1>2, <1>5, KnowsMore DEF GlobalsKnow, GlobalsAre
      <3> QED BY <1>2, <1>7, <3>1 DEF missing
    <2> SUFFICES ASSUME NEW n \in Referenced(a), n # Nothing, KnownIn(repo, n) # {}
                 PROVE  \E x \in Range(c.ids) : w[x].name = n
      BY <1>7, <2>1 DEF LinkedIs, Referenced
    <2>2. CASE n \in {vault[i].name : i \in Range(a.ids)}
      <3>1. PICK i \in Range(a.ids) : vault[i].name = n
        BY <2>2
      <3>2. i \in DOMAIN vault
        BY <1>1, <3>1 DEF Facts, IdsAre
      <3> QED BY <1>2, <1>7, <3>1, <3>2
    <2>3. CASE n \notin {vault[i].name : i \in Range(a.ids)}
      <3>1. GlobalOf(n) \subseteq missing
        BY <2>3 DEF missing, MissingIds
      <3>2. PICK y \in KnownBy(repo, Len(repo.files), Len(repo.resolved)) : y.name = n
        BY DEF KnownIn
      <3>3. PICK g \in GlobalOf(n) : vault[g].name = n
        BY <3>2, GlobalOfIs DEF GlobalsKnow
      <3>4. g \in missing /\ g \in DOMAIN vault
        BY <1>5, <3>1, <3>3 DEF GlobalsAre
      <3> QED BY <1>2, <1>7, <3>3, <3>4 DEF missing
    <2> QED BY <2>2, <2>3
  <1> QED BY <1>7, <1>8, <1>9 DEF Facts

\* An agent is linked.
LEMMA LinkStep ==
  ASSUME NEW pos,
         StateInv(repo, phase, files, resolved, todo, agents, heap, vault, globals, pos), Link
  PROVE  Inv'
  <1> DEFINE m == Len(repo.files) - Len(files)
             r == Len(repo.resolved) - Len(resolved)
             all == Decls(repo, Len(repo.files))
             named == 1..r
             a == Head(todo)
             list == agents \o todo
             list2 == agents' \o todo'
             w == vault'
  <1>1. /\ phase = "link" /\ todo # <<>> /\ todo' = Tail(todo)
        /\ repo' = repo /\ phase' = phase /\ files' = files /\ resolved' = resolved
        /\ heap' = heap /\ globals' = globals
        /\ w = Folded(LinkIdentity, vault, a.ids)
    BY DEF Link
  <1>2. PICK order \in [1..Cardinality(MissingIds(a)) -> MissingIds(a)] :
          /\ Range(order) = MissingIds(a)
          /\ agents' = Append(agents, WithIds(a, order))
    BY DEF Link, MissingIds, WithIds
  <1>3. /\ repo \in Repositories /\ Rest(repo.files, files) /\ Rest(repo.resolved, resolved)
        /\ agents \in Seq(Agent) /\ todo \in Seq(Agent) /\ files = <<>> /\ resolved = <<>>
        /\ PlacesAre(heap, m, r) /\ HeapIs(heap) /\ PlacesAre(vault, m, r) /\ VaultIs(repo, vault)
        /\ GlobalsAre(repo, vault, globals) /\ GlobalsKnow(repo, vault, globals)
        /\ AgentsAre(repo, list, all, named, heap, vault)
        /\ \A b \in Range(agents) : LinkedIs(repo, b, heap, vault)
    BY <1>1 DEF StateInv, PhaseInv
  <1> DEFINE c == WithIds(a, order)
  <1>4. a \in Agent /\ (list)[Len(agents) + 1] = a /\ Len(agents) + 1 \in DOMAIN list
    <2>1. a \in Agent
      BY <1>1, <1>3, HeadTailProperties
    <2>2. Moved(agents, todo, a, Append(agents, a) \o Tail(todo))
      BY <1>1, <1>3, <2>1, MovedIs
    <2> QED BY <2>1, <2>2 DEF Moved
  <1>5. AgentIs(repo, a, all, named, heap, vault) /\ a.ids \in Seq(Address) /\ Range(a.ids) \subseteq DOMAIN vault
    <2>1. AgentIs(repo, a, all, named, heap, vault)
      BY <1>3, <1>4 DEF AgentsAre
    <2> QED BY <1>4, <2>1 DEF AgentIs, Facts, IdsAre, Agent
  <1>6. order \in Seq(Address)
    BY <1>3, OrderIs
  <1>7. LinkedTo(repo, vault, Range(a.ids), w)
    BY <1>1, <1>3, <1>5, LinksFolded
  <1> HIDE DEF all, named, a, list, w, m, r
  <1>8. /\ AgentIs(repo, c, all, named, heap, w) /\ LinkedIs(repo, c, heap, w) /\ c \in Agent
        /\ c.name = a.name /\ c.instance = a.instance /\ c.delegates = a.delegates
    BY <1>2, <1>3, <1>5, <1>6, <1>7, LinkedAgentIs
  <1> HIDE DEF c
  <1>9. /\ DOMAIN w = DOMAIN vault /\ VaultIs(repo, w) /\ GlobalsAre(repo, w, globals)
        /\ \A x \in DOMAIN vault : /\ w[x].name = vault[x].name /\ vault[x].roles \subseteq w[x].roles
                                   /\ KnownIn(repo, vault[x].name) = {} => w[x].roles = vault[x].roles
    BY <1>7 DEF LinkedTo
  <1>10. GlobalsKnow(repo, w, globals)
    <2>1. \A g \in Range(globals) : Knows(repo, w, g) /\ w[g].name = vault[g].name
      BY <1>3, <1>9, KnowsMore DEF GlobalsKnow, GlobalsAre
    <2>2. \A y \in KnownBy(repo, Len(repo.files), Len(repo.resolved)) :
            \E g \in Range(globals) : w[g].name = y.name
      BY <1>3, <2>1 DEF GlobalsKnow
    <2> QED BY <2>1, <2>2 DEF GlobalsKnow
  <1>11. AgentsAre(repo, list, all, named, heap, w)
    <2>1. Extended(heap, heap)
      BY DEF Extended
    <2>2. Grown(repo, vault, w, DOMAIN vault)
      BY <1>9 DEF Grown
    <2> QED BY <1>3, <2>1, <2>2, AgentsGrown
  <1>12. list2 \in Seq(Agent) /\ Moved(agents, todo, c, list2)
    <2>1. agents' = Append(agents, c)
      BY <1>2 DEF c
    <2> QED BY <1>1, <1>3, <1>8, <2>1, MovedIs
  <1> HIDE DEF list2
  <1>13. AgentsAre(repo, list2, all, named, heap, w)
    <2>1. /\ DOMAIN list2 = DOMAIN list /\ list2[Len(agents) + 1] = c
          /\ \A n \in DOMAIN list : n # Len(agents) + 1 => list2[n] = list[n]
      BY <1>12 DEF Moved, list
    <2>2. ASSUME NEW n \in DOMAIN list
          PROVE  /\ list2[n].name = list[n].name /\ list2[n].instance = list[n].instance
                 /\ list[n].delegates \subseteq list2[n].delegates
                 /\ AgentIs(repo, list2[n], all, named, heap, w)
      <3>1. CASE n = Len(agents) + 1
        BY <1>4, <1>8, <2>1, <3>1
      <3>2. CASE n # Len(agents) + 1
        BY <1>11, <2>1, <3>2 DEF AgentsAre
      <3> QED BY <3>1, <3>2
    <2>3. SameAgents(list, list2, named)
      BY <1>12, <2>1, <2>2 DEF SameAgents
    <2>4. EachIs(repo, list2, all, named, heap, w) /\ Covers(repo, list, list2, all, named, all, named)
      BY <2>1, <2>2 DEF EachIs, Covers
    <2> QED BY <1>11, <2>3, <2>4, AgentsChanged
  <1>14. ASSUME NEW b \in Range(agents')
         PROVE  LinkedIs(repo, b, heap, w)
    <2>1. CASE b = c
      BY <1>8, <2>1
    <2>2. CASE b # c
      <3>1. b \in Range(agents)
        <4>1. agents' = Append(agents, c)
          BY <1>2 DEF c
        <4> QED BY <1>3, <1>8, <2>2, <4>1, AppendIs
      <3>2. LinkedIs(repo, b, heap, vault)
        BY <1>3, <3>1
      <3>3. \A x \in Range(b.ids) : x \in DOMAIN vault
        <4>1. Range(list) = Range(agents) \cup Range(todo)
          BY <1>3, JoinedIs DEF list
        <4>2. PICK n \in DOMAIN list : b = list[n]
          BY <3>1, <4>1 DEF Range
        <4> QED BY <1>3, <4>2 DEF AgentsAre, AgentIs, Facts, IdsAre
      <3>4. \A x \in Range(b.ids) : Knows(repo, w, x) /\ w[x].name = vault[x].name
        BY <1>9, <3>2, <3>3, KnowsMore DEF LinkedIs
      <3> QED BY <3>2, <3>4 DEF LinkedIs
    <2> QED BY <2>1, <2>2
  <1>15. agents' \in Seq(Agent) /\ todo' \in Seq(Agent)
    <2>1. agents' = Append(agents, c)
      BY <1>2 DEF c
    <2> QED BY <1>1, <1>3, <1>8, <2>1, AppendProperties, HeadTailProperties
  <1>16. PlacesAre(w, m, r)
    BY <1>3, <1>9 DEF PlacesAre
  <1>17. /\ files' = <<>> /\ resolved' = <<>> /\ phase' = "link"
         /\ Len(repo.files) - Len(files') = m /\ Len(repo.resolved) - Len(resolved') = r
         /\ 1..(Len(repo.resolved) - Len(resolved')) = named
    BY <1>1, <1>3 DEF m, r, named
  <1>18. StateInv(repo', phase', files', resolved', todo', agents', heap', vault', globals', pos)
    <2>1. PhaseInv(repo, "link", <<>>, <<>>, todo', agents', heap, w, globals, pos)
      BY <1>1, <1>3, <1>10, <1>13, <1>14, <1>17 DEF PhaseInv, list2, all, w
    <2> QED BY <1>1, <1>3, <1>9, <1>15, <1>16, <1>17, <2>1 DEF StateInv, w
  <1> QED BY <1>18 DEF Inv

\* The addresses of what is resolved.
LEMMA PlacesIs ==
  ASSUME ResolvedNo \in Nat, NEW S, NEW list \in Seq(S)
  PROVE  /\ Places(list) \in Seq(Address)
         /\ \A x \in Range(Places(list)) : \E k \in DOMAIN list : x = <<0, ResolvedNo, k>>
         /\ \A k \in DOMAIN list : <<0, ResolvedNo, k>> \in Range(Places(list))
  <1> DEFINE s == Places(list)
  <1>1. Len(list) \in Nat /\ DOMAIN list = 1..Len(list)
    BY LenProperties
  <1>2. s = [k \in 1..Len(list) |-> <<0, ResolvedNo, k>>]
    BY <1>1 DEF Places
  <1>3. s \in [1..Len(list) -> Address]
    BY <1>1, <1>2 DEF Address
  <1>4. DOMAIN s = DOMAIN list /\ \A k \in DOMAIN list : s[k] = <<0, ResolvedNo, k>>
    BY <1>1, <1>2
  <1> HIDE DEF s
  <1>5. s \in Seq(Address)
    BY <1>1, <1>3, SeqIs
  <1>6. \A x \in Range(s) : \E k \in DOMAIN list : x = <<0, ResolvedNo, k>>
    BY <1>4 DEF Range
  <1>7. \A k \in DOMAIN list : <<0, ResolvedNo, k>> \in Range(s)
    BY <1>4 DEF Range
  <1> QED BY <1>5, <1>6, <1>7 DEF s

\* After the resolved agent q those that were merged are not R but R2.
Another(R, R2, q) == q \in R2 /\ R \subseteq R2 /\ \A k \in R2 : k \in R \/ k = q

\* What is resolved later is no matter to other agents.
LEMMA AgentLater ==
  ASSUME NEW rp, NEW a, NEW D, NEW R, NEW h, NEW v, AgentIs(rp, a, D, R, h, v), NEW R2, R \subseteq R2
  PROVE  AgentIs(rp, a, D, R2, h, v)
  <1>1. MyResolved(rp, a, R) \subseteq MyResolved(rp, a, R2)
    BY DEF MyResolved
  <1>2. Facts(rp, a, Mine(rp, a, D), MyResolved(rp, a, R2), h, v)
    BY <1>1, FactsLater DEF AgentIs
  <1> QED BY <1>1, <1>2 DEF AgentIs

\* The agents after the resolved agent q became one of them.
LEMMA AgentResolved ==
  ASSUME NEW all, NEW R, NEW h, NEW v, repo \in Repositories,
         all = Decls(repo, Len(repo.files)), AgentsAre(repo, agents, all, R, h, v),
         NEW R2, NEW q, Another(R, R2, q),
         q \in 1..Len(repo.resolved), NEW r, r = repo.resolved[q],
         NEW addresses \in Seq(Address), MadeFor(repo, q, h, Range(addresses)),
         Known(r) = {}, NEW c, c = ResolvedAgent(r, addresses), NEW after, after = Append(agents, c)
  PROVE  AgentsAre(repo, after, all, R2, h, v)
  <1> DEFINE Q == MyResolved(repo, c, R2)
             none == {}
  <1>1. \A n \in DOMAIN agents : AgentIs(repo, agents[n], all, R2, h, v)
    <2> TAKE n \in DOMAIN agents
    <2>1. AgentIs(repo, agents[n], all, R, h, v)
      BY DEF AgentsAre
    <2> QED BY <2>1, AgentLater DEF Another
  <1>2. q \in Q
    <2>1. c.name = r.name
      BY DEF ResolvedAgent
    <2> QED BY <2>1 DEF MyResolved, Another
  <1> HIDE DEF Q
  <1>3. Facts(repo, c, {}, Q, h, v) /\ c.name = r.name /\ c.delegates = r.delegates
    <2>1. Resolving(repo, q, Q, r, addresses, c)
      BY <1>2 DEF Resolving
    <2> QED BY <2>1, FactsResolved
  <1>4. \A n \in DOMAIN agents : agents[n].name # c.name
    BY <1>3 DEF Known
  <1>5. \A p \in all : Decl(repo, p).name # c.name
    <2> SUFFICES ASSUME NEW p \in all
                 PROVE  Decl(repo, p).name # c.name
      OBVIOUS
    <2>1. PICK n \in DOMAIN agents : SameKey(Decl(repo, p), agents[n])
      BY DEF AgentsAre
    <2> QED BY <1>4, <2>1 DEF SameKey
  <1>6. Mine(repo, c, all) = none
    BY <1>5 DEF Mine, SameKey
  <1>7. AgentIs(repo, c, all, R2, h, v)
    <2>1. Facts(repo, c, none, Q, h, v) /\ Q # {}
      BY <1>2, <1>3
    <2>2. Q = MyResolved(repo, c, R2)
      BY DEF Q
    <2> HIDE DEF none
    <2> QED BY <1>5, <1>6, <2>1, <2>2 DEF AgentIs
  <1>8. \A n \in DOMAIN agents : ~SameKey(agents[n], c)
    BY <1>4 DEF SameKey
  <1>9. ASSUME NEW k \in R2
        PROVE  k \in R \/ (c.name = repo.resolved[k].name /\ repo.resolved[k].delegates \subseteq c.delegates)
    BY <1>3 DEF Another
  <1>10. \A p \in all : p \in all \/ SameKey(Decl(repo, p), c)
    OBVIOUS
  <1> QED BY <1>1, <1>7, <1>8, <1>9, <1>10, AgentAdded

\* The agent that a resolved agent is.
LEMMA KnownIs ==
  ASSUME agents \in Seq(Agent), NEW r, Known(r) # {}, NEW i, i = LastOf(Known(r)), NEW a, a = agents[i]
  PROVE  i \in DOMAIN agents /\ a.name = r.name /\ a \in Agent
  <1>1. agents \in Seq(Agent) /\ Len(agents) \in Nat /\ DOMAIN agents = 1..Len(agents)
    BY LenProperties
  <1>2. Known(r) \in SUBSET (1..Len(agents))
    BY <1>1 DEF Known
  <1>3. i \in Known(r)
    <2> DEFINE S == Known(r)
               n == Len(agents)
    <2>1. n \in Nat /\ S \in SUBSET (1..n) /\ S # {} /\ i = LastOf(S)
      BY <1>1, <1>2
    <2> HIDE DEF S, n
    <2>2. i \in S
      BY <2>1, LastIs
    <2> QED BY <2>2 DEF S
  <1>4. i \in DOMAIN agents /\ agents[i].name = r.name
    BY <1>3 DEF Known
  <1> QED BY <1>1, <1>4, RangeIs

\* The agents after the resolved agent q was merged into one of them.
Replaced(list, i, c, after) == after = [list EXCEPT ![i] = c]
IsThe(i, a, r) == i \in DOMAIN agents /\ a = agents[i] /\ a.name = r.name

\* An agent is enriched.
LEMMA AgentEnriched ==
  ASSUME NEW all, NEW R, NEW h, NEW v, repo \in Repositories, AgentsAre(repo, agents, all, R, h, v),
         NEW R2, NEW q, Another(R, R2, q), NEW us, MadeFor(repo, q, h, us),
         NEW i, NEW a, NEW r, IsThe(i, a, r), NEW ts, ResolvedTaken(h, Range(a.tools), us, ts),
         NEW c, Enriching(repo, q, R2, r, a, ts, c), NEW after, Replaced(agents, i, c, after)
  PROVE  AgentsAre(repo, after, all, R2, h, v)
  <1> DEFINE P == Mine(repo, a, all)
             Q == MyResolved(repo, a, R2)
  <1>1. agents \in Seq(Agent) /\ Len(agents) \in Nat /\ DOMAIN agents = 1..Len(agents)
    BY LenProperties DEF AgentsAre
  <1>2. \A n \in DOMAIN agents : AgentIs(repo, agents[n], all, R2, h, v)
    <2> TAKE n \in DOMAIN agents
    <2>1. AgentIs(repo, agents[n], all, R, h, v)
      BY DEF AgentsAre
    <2> QED BY <2>1, AgentLater DEF Another
  <1>3. AgentIs(repo, a, all, R2, h, v)
    BY <1>2 DEF IsThe
  <1>4. Facts(repo, a, P, Q, h, v) /\ Enriching(repo, q, Q, r, a, ts, c)
    BY <1>3 DEF AgentIs, IsThe, Enriching, MyResolved
  <1> HIDE DEF P, Q
  <1>5. /\ Facts(repo, c, P, Q, h, v) /\ c.name = a.name /\ c.instance = a.instance
        /\ a.delegates \subseteq c.delegates /\ r.delegates \subseteq c.delegates
    BY <1>4, FactsEnriched
  <1>6. AgentIs(repo, c, all, R2, h, v)
    <2>1. Mine(repo, c, all) = P /\ MyResolved(repo, c, R2) = Q
      BY <1>5 DEF Mine, SameKey, MyResolved, P, Q
    <2> QED BY <1>3, <1>5, <2>1 DEF AgentIs, P, Q
  <1>7. after \in Seq(Agent) /\ DOMAIN after = DOMAIN agents /\ after[i] = c
        /\ \A n \in DOMAIN agents : n # i => after[n] = agents[n]
    <2>1. c \in Agent
      BY <1>5 DEF Facts
    <2> QED BY <1>1, <2>1, ReplacedIs DEF Replaced, IsThe
  <1>8. ASSUME NEW n \in DOMAIN agents
         PROVE  /\ after[n].name = agents[n].name /\ after[n].instance = agents[n].instance
                /\ agents[n].delegates \subseteq after[n].delegates
                /\ AgentIs(repo, after[n], all, R2, h, v)
    <2>1. CASE n = i
      BY <1>5, <1>6, <1>7, <2>1 DEF IsThe
    <2>2. CASE n # i
      BY <1>2, <1>7, <2>2
    <2> QED BY <2>1, <2>2
  <1>9. ASSUME NEW k \in R2, k \notin R
         PROVE  \E n \in DOMAIN agents : /\ agents[n].name = repo.resolved[k].name
                                        /\ repo.resolved[k].delegates \subseteq after[n].delegates
    <2>1. k = q /\ r.delegates \subseteq after[i].delegates
      BY <1>5, <1>7, <1>9 DEF Another
    <2> QED BY <2>1 DEF IsThe, Enriching
  <1>10. SameAgents(agents, after, R)
    BY <1>7, <1>8 DEF SameAgents
  <1>11. EachIs(repo, after, all, R2, h, v)
    BY <1>7, <1>8 DEF EachIs
  <1>12. Covers(repo, agents, after, all, R, all, R2)
    BY <1>9 DEF Covers
  <1> QED BY <1>10, <1>11, <1>12, AgentsChanged

\* Objects made for the resolved agent q are of none that came before.
LEMMA MadeIsNew ==
  ASSUME NEW f, NEW m \in Nat, NEW r \in Nat, PlacesAre(f, m, r), NEW q, q = r + 1, NEW list,
         DOMAIN list \subseteq Nat, NEW g, Objects(g, 0, {q}, list)
  PROVE  /\ PlacesAre(Both(f, g), m, q) /\ Extended(f, Both(f, g)) /\ Extended(g, Both(f, g))
         /\ DOMAIN Both(f, g) = DOMAIN f \cup DOMAIN g
  <1>1. \A x \in DOMAIN g : x \in Address /\ x[1] = 0 /\ x[2] = q
    BY DEF Objects, Address
  <1>2. PlacesAre(g, m, q)
    BY <1>1 DEF PlacesAre
  <1>3. \A x \in DOMAIN g : x \notin DOMAIN f
    BY <1>1 DEF PlacesAre
  <1>4. /\ DOMAIN Both(f, g) = DOMAIN f \cup DOMAIN g
        /\ Extended(f, Both(f, g)) /\ Extended(g, Both(f, g))
    BY <1>3, BothIs
  <1>5. q \in Nat /\ m <= m /\ r <= q
    OBVIOUS
  <1>6. PlacesAre(Both(f, g), m, q)
    BY <1>2, <1>5, PlacesLater
  <1> QED BY <1>4, <1>6

\* The resolved agent whose turn it is.
LEMMA ResolvedNoIs ==
  ASSUME repo \in Repositories, Rest(repo.resolved, resolved), resolved # <<>>,
         NEW r, r = Len(repo.resolved) - Len(resolved)
  PROVE  /\ ResolvedNo \in 1..Len(repo.resolved) /\ ResolvedNo = r + 1 /\ r \in Nat
         /\ Head(resolved) = repo.resolved[ResolvedNo] /\ Head(resolved) \in Resolution
         /\ Rest(repo.resolved, Tail(resolved))
         /\ Len(repo.resolved) - Len(Tail(resolved)) = ResolvedNo
         /\ Tail(resolved) \in Seq(Range(repo.resolved))
  <1>1. repo.resolved \in Seq(Resolution)
    BY RepositoriesAssumption
  <1>2. /\ ResolvedNo \in 1..Len(repo.resolved) /\ Head(resolved) = repo.resolved[ResolvedNo]
        /\ Rest(repo.resolved, Tail(resolved))
        /\ Len(repo.resolved) - Len(Tail(resolved)) = ResolvedNo
    BY <1>1, RestIs DEF ResolvedNo
  <1>3. Len(repo.resolved) \in Nat /\ Len(resolved) \in Nat
    BY ScanIs, LenProperties DEF Rest
  <1>4. ResolvedNo = r + 1
    BY DEF ResolvedNo
  <1>5. r \in Nat
    BY <1>2, <1>3, <1>4
  <1> QED BY <1>2, <1>4, <1>5, ScanIs DEF Rest

\* The tools of a resolved agent.
NextIs(c, r) ==
  /\ r \in Nat /\ ResolvedNo = r + 1 /\ ResolvedNo \in 1..Len(repo.resolved)
  /\ c = repo.resolved[ResolvedNo] /\ c \in Resolution

\* What is made for a resolved agent is new, and the graph gets to know its identities.
LEMMA ToolsResolved ==
  ASSUME repo \in Repositories, NEW m, m \in Nat, NEW r, NEW c, NextIs(c, r),
         PlacesAre(heap, m, r), HeapIs(heap),
         NEW fresh, fresh = Both(heap, Made(c.tools))
  PROVE  /\ PlacesAre(fresh, m, ResolvedNo) /\ HeapIs(fresh) /\ Extended(heap, fresh)
         /\ Places(c.tools) \in Seq(Address) /\ MadeFor(repo, ResolvedNo, fresh, Range(Places(c.tools)))
  <1> DEFINE list == c.tools
             g == Made(list)
             q == ResolvedNo
  <1>1. /\ list \in Seq(Tool) /\ DOMAIN list \subseteq Nat /\ q \in Nat
        /\ \A k \in DOMAIN list : list[k] \in Tool /\ list[k] \in Range(list)
    <2>1. list \in Seq(Tool) /\ q \in Nat
      BY DEF Resolution, NextIs
    <2> HIDE DEF list
    <2>2. DOMAIN list = 1..Len(list) /\ Len(list) \in Nat
      BY <2>1, LenProperties
    <2>3. \A k \in DOMAIN list : list[k] \in Tool /\ list[k] \in Range(list)
      BY <2>1, <2>2, RangeIs
    <2> QED BY <2>1, <2>2, <2>3
  <1>2. Objects(g, 0, {q}, list)
    BY ObjectsAre DEF Made
  <1> HIDE DEF g, list, q
  <1>3. PlacesAre(fresh, m, q) /\ Extended(heap, fresh) /\ Extended(g, fresh)
    BY <1>1, <1>2, MadeIsNew DEF q, g, list, NextIs
  <1>4. HeapIs(fresh)
    <2>1. \A x \in DOMAIN g : g[x] \in Tool
      BY <1>1, <1>2 DEF Objects
    <2> QED BY <2>1, HeapGrows DEF g, list
  <1>5. /\ Places(list) \in Seq(Address)
        /\ \A x \in Range(Places(list)) : \E k \in DOMAIN list : x = <<0, q, k>>
    BY <1>1, PlacesIs DEF q
  <1>6. MadeFor(repo, q, fresh, Range(Places(list)))
    <2> SUFFICES ASSUME NEW t \in Range(Places(list))
                 PROVE  t \in DOMAIN fresh /\ t[1] = 0 /\ t[2] = q /\ fresh[t] \in Range(list)
      BY DEF MadeFor, list, q, NextIs
    <2>1. PICK k \in DOMAIN list : t = <<0, q, k>>
      BY <1>5
    <2>2. t \in DOMAIN g /\ g[t] = list[k]
      BY <1>2, <2>1 DEF Objects
    <2> QED BY <1>1, <1>3, <2>1, <2>2 DEF Extended
  <1> QED BY <1>3, <1>4, <1>5, <1>6 DEF list, q

\* The graph's identities when further ones are added and taken into their list.
LEMMA GlobalsExtended ==
  ASSUME NEW rp, NEW v, NEW gs, GlobalsAre(rp, v, gs), GlobalsDiffer(v, gs),
         NEW more, Extended(v, more), VaultIs(rp, more), NEW us, GraphKnows(rp, more, us),
         NEW w, NEW list, IdsTaken(more, gs, us, w, list, TRUE)
  PROVE  /\ VaultIs(rp, w) /\ GlobalsAre(rp, w, list) /\ GlobalsDiffer(w, list)
         /\ Grown(rp, v, w, DOMAIN v) /\ DOMAIN w = DOMAIN more
         /\ Represented(v, Range(gs), w, list) /\ Represented(more, us, w, list)
  <1>1. \A x \in Range(gs) : x \in DOMAIN more /\ more[x] = v[x]
    BY DEF GlobalsAre, Extended
  <1>2. GlobalsAre(rp, more, gs) /\ GlobalsDiffer(more, gs)
    <2>1. \A k \in DOMAIN gs : gs[k] \in Range(gs)
      BY DEF Range
    <2> QED BY <1>1, <2>1 DEF GlobalsAre, GlobalsDiffer
  <1>3. /\ VaultIs(rp, w) /\ GlobalsAre(rp, w, list) /\ Grown(rp, more, w, DOMAIN more)
        /\ DOMAIN w = DOMAIN more
        /\ GlobalsDiffer(more, gs) => GlobalsDiffer(w, list)
        /\ Represented(more, Range(gs), w, list) /\ Represented(more, us, w, list)
    BY <1>2, GlobalsTaken
  <1>4. Grown(rp, v, w, DOMAIN v)
    <2>1. Grown(rp, v, more, DOMAIN v)
      BY GrownWhenExtended
    <2> QED BY <1>3, <2>1, GrownTwice
  <1>5. Represented(v, Range(gs), w, list)
    BY <1>1, <1>3 DEF Represented
  <1> QED BY <1>2, <1>3, <1>4, <1>5

\* The identities of a resolved agent.
GlobalsFoldedTo(w, gs, more, list) ==
  LET acc == Folded(TakeGlobal, [vault |-> more, list |-> globals], list) IN
  w = acc.vault /\ gs = acc.list

LEMMA IdentitiesResolved ==
  ASSUME repo \in Repositories, NEW m, m \in Nat, NEW r, NEW c, NextIs(c, r),
         PlacesAre(vault, m, r), VaultIs(repo, vault), GlobalsAre(repo, vault, globals),
         GlobalsCover(repo, vault, globals, m, r), GlobalsDiffer(vault, globals),
         NEW w, NEW gs, GlobalsFoldedTo(w, gs, Both(vault, Made(c.identities)), Places(c.identities))
  PROVE  /\ PlacesAre(w, m, ResolvedNo) /\ VaultIs(repo, w) /\ Grown(repo, vault, w, DOMAIN vault)
         /\ GlobalsAre(repo, w, gs) /\ GlobalsDiffer(w, gs)
         /\ GlobalsCover(repo, w, gs, m, ResolvedNo)
  <1> DEFINE list == c.identities
             g == Made(list)
             q == ResolvedNo
             more == Both(vault, g)
             us == Range(Places(list))
  <1>1. /\ list \in Seq(Identity) /\ DOMAIN list \subseteq Nat /\ q \in Nat
        /\ \A k \in DOMAIN list : list[k] \in Identity /\ list[k] \in Range(list)
    <2>1. list \in Seq(Identity) /\ q \in Nat
      BY DEF Resolution, NextIs
    <2> HIDE DEF list
    <2>2. DOMAIN list = 1..Len(list) /\ Len(list) \in Nat
      BY <2>1, LenProperties
    <2>3. \A k \in DOMAIN list : list[k] \in Identity /\ list[k] \in Range(list)
      BY <2>1, <2>2, RangeIs
    <2> QED BY <2>1, <2>2, <2>3
  <1>2. Objects(g, 0, {q}, list)
    BY ObjectsAre DEF Made
  <1>3. \A k \in DOMAIN list : list[k] \in KnownIn(repo, list[k].name) /\ list[k] \in EverIn(repo, list[k].name)
    <2> TAKE k \in DOMAIN list
    <2>1. list[k] \in KnownBy(repo, Len(repo.files), Len(repo.resolved))
      BY <1>1 DEF KnownBy, NextIs
    <2> QED BY <2>1 DEF KnownIn, EverIn
  <1> HIDE DEF g, list, q, us, more
  <1>4. PlacesAre(more, m, q) /\ Extended(vault, more) /\ Extended(g, more)
    BY <1>1, <1>2, MadeIsNew DEF q, more, NextIs
  <1>5. VaultIs(repo, more)
    <2>1. ASSUME NEW x \in DOMAIN g
          PROVE  /\ g[x] \in Identity /\ x[1] = 0 /\ g[x] = repo.resolved[x[2]].identities[x[3]]
                 /\ g[x] \in EverIn(repo, g[x].name)
      <3>1. x[1] = 0 /\ x[2] = q /\ x[3] \in DOMAIN list /\ g[x] = list[x[3]]
        BY <1>2 DEF Objects
      <3>2. repo.resolved[x[2]].identities = list
        BY <3>1 DEF list, q, NextIs
      <3> QED BY <1>1, <1>3, <3>1, <3>2
    <2>2. VaultIs(repo, g)
      BY <2>1 DEF VaultIs
    <2> QED BY <2>2, VaultGrows DEF more
  <1>6. /\ Places(list) \in Seq(Address)
        /\ \A x \in us : \E k \in DOMAIN list : x = <<0, q, k>>
        /\ \A k \in DOMAIN list : <<0, q, k>> \in us
    BY <1>1, PlacesIs DEF q, us
  <1>7. \A k \in DOMAIN list : <<0, q, k>> \in DOMAIN more /\ more[<<0, q, k>>] = list[k]
    BY <1>2, <1>4 DEF Objects, Extended
  <1>8. GraphKnows(repo, more, us)
    <2>1. ASSUME NEW x \in us
          PROVE  x \in DOMAIN more /\ \E y \in KnownIn(repo, more[x].name) : y.provider = more[x].provider
      <3>1. PICK k \in DOMAIN list : x = <<0, q, k>>
        BY <1>6
      <3> QED BY <1>3, <1>7, <3>1
    <2> QED BY <2>1 DEF GraphKnows
  <1>9. /\ DOMAIN more \subseteq Address /\ (\A x \in DOMAIN more : more[x] \in Identity)
        /\ globals \in Seq(Address) /\ Range(globals) \subseteq DOMAIN more /\ us \subseteq DOMAIN more
    <2>1. \A x \in Range(globals) : x \in DOMAIN more
      BY <1>4 DEF GlobalsAre, Extended
    <2> QED BY <1>4, <1>5, <1>8, <2>1 DEF PlacesAre, VaultIs, GlobalsAre, GraphKnows
  <1>10. IdsTaken(more, globals, us, w, gs, TRUE)
    <2>1. Range(globals) \cup Range(Places(list)) \subseteq DOMAIN more
      BY <1>9 DEF us
    <2> DEFINE acc == Folded(TakeGlobal, [vault |-> more, list |-> globals], Places(list))
    <2>2. IdsTaken(more, globals, Range(Places(list)), acc.vault, acc.list, TRUE)
      BY <1>6, <1>9, <2>1, GlobalsFolded
    <2>3. w = acc.vault /\ gs = acc.list
      BY DEF GlobalsFoldedTo, more, g, list
    <2> HIDE DEF acc
    <2> QED BY <2>2, <2>3 DEF us
  <1>11. /\ VaultIs(repo, w) /\ GlobalsAre(repo, w, gs) /\ GlobalsDiffer(w, gs)
         /\ Grown(repo, vault, w, DOMAIN vault) /\ DOMAIN w = DOMAIN more
         /\ Represented(vault, Range(globals), w, gs) /\ Represented(more, us, w, gs)
    BY <1>4, <1>5, <1>8, <1>10, GlobalsExtended
  <1>12. PlacesAre(w, m, q)
    BY <1>4, <1>11 DEF PlacesAre
  <1>13. GlobalsCover(repo, w, gs, m, q)
    <2> SUFFICES ASSUME NEW y \in KnownBy(repo, m, q)
                 PROVE  \E x \in Range(gs) : /\ w[x].name = y.name /\ w[x].provider = y.provider
                                            /\ y.roles \subseteq w[x].roles
      BY DEF GlobalsCover
    <2>1. CASE y \in KnownBy(repo, m, r)
      <3>1. PICK x \in Range(globals) : /\ vault[x].name = y.name /\ vault[x].provider = y.provider
                                        /\ y.roles \subseteq vault[x].roles
        BY <2>1 DEF GlobalsCover
      <3> QED BY <1>11, <3>1 DEF Represented
    <2>2. CASE y \notin KnownBy(repo, m, r)
      <3>1. PICK i \in 1..q : y \in Range(repo.resolved[i].identities)
        BY <2>2 DEF KnownBy
      <3>2. i \notin 1..r
        BY <2>2, <3>1 DEF KnownBy
      <3>3. i = q
        BY <3>2 DEF q, NextIs
      <3>4. PICK k \in DOMAIN list : y = list[k]
        BY <3>1, <3>3 DEF Range, list, q, NextIs
      <3>5. <<0, q, k>> \in us /\ more[<<0, q, k>>] = y
        BY <1>6, <1>7, <3>4
      <3> QED BY <1>11, <3>5 DEF Represented
    <2> QED BY <2>1, <2>2
  <1> QED BY <1>11, <1>12, <1>13 DEF q

\* A resolved agent is merged.
LEMMA EnrichStep ==
  ASSUME NEW pos,
         StateInv(repo, phase, files, resolved, todo, agents, heap, vault, globals, pos), Enrich
  PROVE  Inv'
  <1> DEFINE m == Len(repo.files) - Len(files)
             r == Len(repo.resolved) - Len(resolved)
             q == ResolvedNo
             c == Head(resolved)
             fresh == Both(heap, Made(c.tools))
             places == Places(c.tools)
             all == Decls(repo, Len(repo.files))
             R == 1..r
             R2 == 1..q
  <1>1. /\ phase = "enrich" /\ resolved # <<>> /\ resolved' = Tail(resolved) /\ heap' = fresh
        /\ GlobalsFoldedTo(vault', globals', Both(vault, Made(c.identities)), Places(c.identities))
        /\ repo' = repo /\ phase' = phase /\ files' = files /\ todo' = todo
    BY DEF Enrich, GlobalsFoldedTo
  <1>2. \/ Known(c) = {} /\ agents' = Append(agents, ResolvedAgent(c, places))
        \/ /\ Known(c) # {}
           /\ LET i == LastOf(Known(c))
                  acc == Folded(TakeResolved, [heap |-> fresh, tools |-> agents[i].tools], places) IN
              agents' = [agents EXCEPT ![i] = Enriched(agents[i], c, acc.tools)]
    BY DEF Enrich
  <1>3. /\ repo \in Repositories /\ Rest(repo.files, files) /\ Rest(repo.resolved, resolved)
        /\ agents \in Seq(Agent) /\ files = <<>> /\ todo = <<>>
        /\ PlacesAre(heap, m, r) /\ HeapIs(heap) /\ PlacesAre(vault, m, r) /\ VaultIs(repo, vault)
        /\ GlobalsAre(repo, vault, globals) /\ GlobalsCover(repo, vault, globals, m, r)
        /\ GlobalsDiffer(vault, globals) /\ AgentsAre(repo, agents \o todo, all, R, heap, vault)
    BY <1>1 DEF StateInv, PhaseInv
  <1>4. AgentsAre(repo, agents, all, R, heap, vault)
    BY <1>3, ConcatEmptySeq
  <1>5. m \in Nat /\ m = Len(repo.files)
    BY <1>3, ScanIs
  <1>6. /\ NextIs(c, r) /\ Rest(repo.resolved, Tail(resolved))
        /\ Len(repo.resolved) - Len(Tail(resolved)) = q
    BY <1>1, <1>3, ResolvedNoIs DEF NextIs
  <1>7. q \in 1..Len(repo.resolved) /\ c = repo.resolved[q] /\ Another(R, R2, q)
    <2>1. r \in Nat /\ q = r + 1 /\ q \in 1..Len(repo.resolved) /\ c = repo.resolved[q]
      BY <1>6 DEF NextIs
    <2> HIDE DEF r, q, c
    <2> QED BY <2>1 DEF Another
  <1> HIDE DEF m, r, q, c, fresh, places, all, R, R2
  <1>8. /\ PlacesAre(fresh, m, q) /\ HeapIs(fresh) /\ Extended(heap, fresh)
        /\ places \in Seq(Address) /\ MadeFor(repo, q, fresh, Range(places))
    BY <1>3, <1>5, <1>6, ToolsResolved DEF fresh, places, q
  <1>9. /\ PlacesAre(vault', m, q) /\ VaultIs(repo, vault') /\ Grown(repo, vault, vault', DOMAIN vault)
        /\ GlobalsAre(repo, vault', globals') /\ GlobalsDiffer(vault', globals')
        /\ GlobalsCover(repo, vault', globals', m, q)
    BY <1>1, <1>3, <1>5, <1>6, IdentitiesResolved DEF q
  <1>10. AgentsAre(repo, agents, all, R, fresh, vault')
    BY <1>4, <1>8, <1>9, AgentsGrown
  <1>11. AgentsAre(repo, agents', all, R2, fresh, vault')
    <2>1. CASE Known(c) = {} /\ agents' = Append(agents, ResolvedAgent(c, places))
      <3>1. Another(R, R2, q) /\ q \in 1..Len(repo.resolved) /\ c = repo.resolved[q]
        BY <1>7
      <3> QED BY <1>3, <1>8, <1>10, <2>1, <3>1, AgentResolved DEF all
    <2>2. CASE Known(c) # {}
      <3> DEFINE i == LastOf(Known(c))
                 a == agents[i]
                 ts == Folded(TakeResolved, [heap |-> fresh, tools |-> a.tools], places)
                 d == Enriched(a, c, ts.tools)
      <3>1. IsThe(i, a, c) /\ a \in Agent
        BY <1>3, <2>2, KnownIs DEF IsThe
      <3>2. Replaced(agents, i, d, agents')
        BY <1>2, <2>2 DEF Replaced
      <3>3. ResolvedTaken(fresh, Range(a.tools), Range(places), ts)
        <4>1. a.tools \in Seq(Address)
          BY <3>1 DEF Agent
        <4> QED BY <1>8, <4>1, ResolvedFolded
      <3>4. Enriching(repo, q, R2, c, a, ts, d)
        BY <1>7 DEF Enriching, Another
      <3> HIDE DEF i, a, ts, d
      <3>5. Another(R, R2, q)
        BY <1>7
      <3> QED BY <1>3, <1>8, <1>10, <3>1, <3>2, <3>3, <3>4, <3>5, AgentEnriched
    <2> QED BY <1>2, <2>1, <2>2
  <1>12. agents' \in Seq(Agent)
    BY <1>11 DEF AgentsAre
  <1>13. StateInv(repo', phase', files', resolved', todo', agents', heap', vault', globals', pos)
    <2>1. agents' \o todo' = agents' /\ todo' \in Seq(Agent)
      BY <1>1, <1>3, <1>12, ConcatEmptySeq
    <2>2. Len(repo'.resolved) - Len(resolved') = q /\ Len(repo'.files) - Len(files') = m
      BY <1>1, <1>6 DEF m
    <2> QED BY <1>1, <1>3, <1>6, <1>8, <1>9, <1>11, <1>12, <2>1, <2>2 DEF StateInv, PhaseInv, all, R2
  <1> QED BY <1>13 DEF Inv

-----------------------------------------------------------------------------
(* Consolidation                                                           *)

\* The next of the agents that are to be looked at.
LEMMA PendingHead ==
  ASSUME NEW rp, NEW list, NEW pos, NEW h, NEW v, Pending(rp, list, pos, h, v), list # <<>>,
         NEW p, p = Head(pos), NEW rest, rest = Tail(pos)
  PROVE  /\ Head(list) = Raw(rp, p) /\ Facts(rp, Head(list), {p}, {}, h, v)
         /\ Pending(rp, Tail(list), rest, h, v)
         /\ Range(pos) = Range(rest) \cup {p} /\ p \notin Range(rest)
         /\ \A x \in Range(rest) : p[1] <= x[1]
  <1>1. /\ list \in Seq(Agent) /\ pos \in Seq(Nat \X Nat) /\ DOMAIN list = DOMAIN pos
        /\ (\A n \in DOMAIN pos : list[n] = Raw(rp, pos[n]) /\ Facts(rp, list[n], {pos[n]}, {}, h, v))
        /\ \A k, n \in DOMAIN pos : k < n => pos[k][1] <= pos[n][1] /\ pos[k] # pos[n]
    BY DEF Pending
  <1> DEFINE l == Len(list)
             t == Tail(list)
  <1>2. l \in Nat \ {0} /\ DOMAIN list = 1..l /\ Head(list) = list[1]
    BY <1>1, EmptySeq, LenProperties
  <1>3. t \in Seq(Agent) /\ Len(t) = l - 1 /\ \A i \in 1..(l - 1) : t[i] = list[i + 1]
    BY <1>1, <1>2, HeadTailProperties
  <1>4. Len(pos) = l /\ DOMAIN pos = 1..l /\ pos # <<>>
    <2>1. Len(pos) \in Nat /\ DOMAIN pos = 1..Len(pos)
      BY <1>1, LenProperties
    <2>2. Len(pos) = l
      <3> DEFINE k == Len(pos)
      <3>1. k \in Nat /\ 1..k = 1..l /\ l \in Nat
        BY <1>1, <1>2, <2>1
      <3> HIDE DEF k, l
      <3>2. k = l
        <4>1. CASE k < l
          BY <3>1, <4>1
        <4>2. CASE l < k
          BY <3>1, <4>2
        <4> QED BY <3>1, <4>1, <4>2
      <3> QED BY <3>2 DEF k
    <2>3. pos # <<>>
      BY <1>2, <2>1, <2>2
    <2> QED BY <2>1, <2>2, <2>3
  <1>5. /\ rest \in Seq(Nat \X Nat) /\ Len(rest) = l - 1 /\ p = pos[1]
        /\ \A i \in 1..(l - 1) : rest[i] = pos[i + 1]
    BY <1>1, <1>4, HeadTailProperties
  <1>6. DOMAIN t = 1..(l - 1) /\ DOMAIN rest = 1..(l - 1)
    BY <1>3, <1>5, LenProperties
  <1> HIDE DEF l, t
  <1>7. \A n \in 1..(l - 1) : n \in Nat /\ n + 1 \in 1..l
    BY <1>2
  <1>8. \A n \in DOMAIN rest : /\ n \in Nat /\ n + 1 \in DOMAIN pos
                                /\ t[n] = list[n + 1] /\ rest[n] = pos[n + 1]
    <2> TAKE n \in DOMAIN rest
    <2>1. n \in 1..(l - 1)
      BY <1>6
    <2>2. n \in Nat /\ n + 1 \in 1..l
      BY <1>7, <2>1
    <2>3. t[n] = list[n + 1] /\ rest[n] = pos[n + 1]
      BY <1>3, <1>5, <2>1
    <2> QED BY <1>4, <2>2, <2>3
  <1>9. 1 \in DOMAIN pos
    BY <1>2, <1>4
  <1>10. Head(list) = Raw(rp, p) /\ Facts(rp, Head(list), {p}, {}, h, v)
    <2>1. 1 \in DOMAIN pos
      BY <1>2, <1>4
    <2> QED BY <1>1, <1>2, <1>5, <2>1
  <1>11. Pending(rp, t, rest, h, v)
    <2>1. ASSUME NEW n \in DOMAIN rest
          PROVE  t[n] = Raw(rp, rest[n]) /\ Facts(rp, t[n], {rest[n]}, {}, h, v)
      <3>1. n + 1 \in DOMAIN pos /\ t[n] = list[n + 1] /\ rest[n] = pos[n + 1]
        BY <1>8
      <3> QED BY <1>1, <3>1
    <2>2. ASSUME NEW k \in DOMAIN rest, NEW n \in DOMAIN rest, k < n
          PROVE  rest[k][1] <= rest[n][1] /\ rest[k] # rest[n]
      <3>1. /\ k + 1 \in DOMAIN pos /\ n + 1 \in DOMAIN pos /\ k + 1 < n + 1
            /\ rest[k] = pos[k + 1] /\ rest[n] = pos[n + 1]
        <4>1. k \in Nat /\ n \in Nat /\ k + 1 < n + 1
          BY <1>8, <2>2
        <4> QED BY <1>8, <4>1
      <3> QED BY <1>1, <3>1
    <2> QED BY <1>3, <1>5, <1>6, <2>1, <2>2 DEF Pending
  <1>12. Range(pos) = Range(rest) \cup {p}
    <2>1. \A i \in DOMAIN pos : pos[i] \in Range(rest) \cup {p}
      <3> TAKE i \in DOMAIN pos
      <3>1. CASE i = 1
        BY <1>5, <3>1
      <3>2. CASE i # 1
        <4>1. i - 1 \in DOMAIN rest /\ rest[i - 1] = pos[i - 1 + 1] /\ i - 1 + 1 = i
          BY <1>2, <1>4, <1>5, <1>6, <3>2
        <4>2. pos[i] \in Range(rest)
          BY <4>1 DEF Range
        <4> QED BY <4>2
      <3> QED BY <3>1, <3>2
    <2>2. \A i \in DOMAIN rest : rest[i] \in Range(pos)
      <3> TAKE i \in DOMAIN rest
      <3>1. i + 1 \in DOMAIN pos /\ rest[i] = pos[i + 1]
        BY <1>8
      <3> QED BY <3>1 DEF Range
    <2>3. p \in Range(pos)
      BY <1>5, <1>9 DEF Range
    <2> QED BY <2>1, <2>2, <2>3 DEF Range
  <1>13. \A x \in Range(rest) : x # p /\ p[1] <= x[1]
    <2> TAKE x \in Range(rest)
    <2>1. PICK i \in DOMAIN rest : rest[i] = x
      BY DEF Range
    <2>2. i + 1 \in DOMAIN pos /\ x = pos[i + 1] /\ 1 \in DOMAIN pos /\ 1 < i + 1
      <3>1. i \in Nat /\ i + 1 \in DOMAIN pos /\ x = pos[i + 1]
        BY <1>8, <2>1
      <3>2. 1 < i + 1
        <4>1. i \in 1..(l - 1)
          BY <1>6, <2>1
        <4> QED BY <3>1, <4>1
      <3> QED BY <1>9, <3>1, <3>2
    <2>3. pos[1][1] <= pos[i + 1][1] /\ pos[1] # pos[i + 1]
      BY <1>1, <2>2
    <2> QED BY <1>5, <2>2, <2>3
  <1> QED BY <1>10, <1>11, <1>12, <1>13 DEF t

\* The declaration p, of the agent new, is merged into the agent a, of the declarations P.
Merging(rp, a, P, new, p, h, v, acc, w, ids) ==
  /\ P \subseteq Decls(rp, Len(rp.files)) /\ p \in Decls(rp, Len(rp.files))
  /\ Facts(rp, a, P, {}, h, v) /\ Facts(rp, new, {p}, {}, h, v)
  /\ ToolsTaken(h, a.tools, Range(new.tools), acc)
  /\ IdsTaken(v, a.ids, Range(new.ids), w, ids, FALSE)
OtherThan(rp, B, P, p) == B \subseteq Decls(rp, Len(rp.files)) /\ \A q \in B : q \notin P /\ q # p

\* While a declaration is merged, other agents stay what they are, consolidated or not.
LEMMA OthersKept ==
  ASSUME NEW rp, rp \in Repositories, NEW a, NEW P, NEW new, NEW p, NEW h, NEW v, NEW acc, NEW w, NEW ids,
         Merging(rp, a, P, new, p, h, v, acc, w, ids), VaultIs(rp, v),
         NEW b, NEW B, OtherThan(rp, B, P, p), Facts(rp, b, B, {}, h, v)
  PROVE  Facts(rp, b, B, {}, acc.heap, w)
  <1>1. /\ P \subseteq Decls(rp, Len(rp.files)) /\ p \in Decls(rp, Len(rp.files))
        /\ B \subseteq Decls(rp, Len(rp.files)) /\ (\A q \in B : q \notin P /\ q # p)
        /\ Facts(rp, a, P, {}, h, v) /\ Facts(rp, new, {p}, {}, h, v)
        /\ ToolsTaken(h, a.tools, Range(new.tools), acc)
        /\ IdsTaken(v, a.ids, Range(new.ids), w, ids, FALSE)
    BY DEF Merging, OtherThan
  <1> QED BY <1>1, FactsOfOthers

\* What still waits stays as it was made.
LEMMA PendingKept ==
  ASSUME NEW rp, rp \in Repositories, NEW a, NEW P, NEW new, NEW p, NEW h, NEW v, NEW acc, NEW w, NEW ids,
         Merging(rp, a, P, new, p, h, v, acc, w, ids), VaultIs(rp, v),
         NEW list, NEW pos, Pending(rp, list, pos, h, v), \A x \in Range(pos) : OtherThan(rp, {x}, P, p)
  PROVE  Pending(rp, list, pos, acc.heap, w)
  <1>1. ASSUME NEW n \in DOMAIN pos
        PROVE  Facts(rp, list[n], {pos[n]}, {}, acc.heap, w)
    <2> DEFINE B == {pos[n]}
    <2>1. OtherThan(rp, B, P, p) /\ Facts(rp, list[n], B, {}, h, v)
      BY DEF Range, Pending
    <2> HIDE DEF B
    <2>2. Facts(rp, list[n], B, {}, acc.heap, w)
      BY <2>1, OthersKept
    <2> QED BY <2>2 DEF B
  <1> QED BY <1>1 DEF Pending

\* The graph's identities keep what makes them its.
LEMMA GlobalsStay ==
  ASSUME NEW rp, NEW v, NEW gs, GlobalsAre(rp, v, gs), NEW is, NEW us, NEW w, NEW ids,
         IdsTaken(v, is, us, w, ids, FALSE)
  PROVE  /\ GlobalsAre(rp, w, gs) /\ (GlobalsDiffer(v, gs) => GlobalsDiffer(w, gs))
         /\ \A m, r : GlobalsCover(rp, v, gs, m, r) => GlobalsCover(rp, w, gs, m, r)
  <1>1. \A x \in Range(gs) : /\ x \in DOMAIN v /\ x \in DOMAIN w /\ w[x].name = v[x].name
                             /\ w[x].provider = v[x].provider /\ v[x].roles \subseteq w[x].roles
    BY DEF GlobalsAre, IdsTaken
  <1>2. GlobalsAre(rp, w, gs)
    BY <1>1 DEF GlobalsAre
  <1>3. \A k \in DOMAIN gs : gs[k] \in Range(gs)
    BY DEF Range
  <1>4. GlobalsDiffer(v, gs) => GlobalsDiffer(w, gs)
    BY <1>1, <1>3 DEF GlobalsDiffer
  <1>5. ASSUME NEW m, NEW r, GlobalsCover(rp, v, gs, m, r)
        PROVE  GlobalsCover(rp, w, gs, m, r)
    <2> SUFFICES ASSUME NEW y \in KnownBy(rp, m, r)
                 PROVE  \E g \in Range(gs) : /\ w[g].name = y.name /\ w[g].provider = y.provider
                                            /\ y.roles \subseteq w[g].roles
      BY DEF GlobalsCover
    <2>1. PICK g \in Range(gs) : /\ v[g].name = y.name /\ v[g].provider = y.provider
                                 /\ y.roles \subseteq v[g].roles
      BY <1>5 DEF GlobalsCover
    <2> QED BY <1>1, <2>1
  <1> QED BY <1>2, <1>4, <1>5

\* The declaration p is looked at after D, and is of the agent new.
AnotherDecl(D, D2, p) ==
  p \in D2 /\ p \notin D /\ D \subseteq D2 /\ (\A d \in D2 : d \in D \/ d = p) /\ \A d \in D : d[1] <= p[1]
IsOf(rp, new, p, h, v) ==
  new = Raw(rp, p) /\ SameKey(Decl(rp, p), new) /\ Facts(rp, new, {p}, {}, h, v)

\* While nothing is resolved every agent is declared.
LEMMA DeclaredAre ==
  ASSUME NEW rp, NEW a, NEW D, NEW h, NEW v, AgentIs(rp, a, D, {}, h, v)
  PROVE  /\ Mine(rp, a, D) # {} /\ Facts(rp, a, Mine(rp, a, D), {}, h, v)
         /\ MyResolved(rp, a, {}) = {}
  BY DEF AgentIs, MyResolved

\* Of a declared agent that nothing was resolved for, all there is to say are its facts.
LEMMA DeclaredIs ==
  ASSUME NEW rp, NEW a, NEW D, NEW h, NEW v, NEW P, P = Mine(rp, a, D), P # {}, Facts(rp, a, P, {}, h, v)
  PROVE  AgentIs(rp, a, D, {}, h, v)
  <1>1. MyResolved(rp, a, {}) = {}
    BY DEF MyResolved
  <1> QED BY <1>1 DEF AgentIs

\* An agent that is not declared again is of the same declarations as before.
LEMMA MineStays ==
  ASSUME NEW rp, NEW a, NEW D, NEW D2, NEW p, AnotherDecl(D, D2, p), ~SameKey(Decl(rp, p), a)
  PROVE  Mine(rp, a, D2) = Mine(rp, a, D)
  BY DEF Mine, AnotherDecl

\* new is the first of its declarations.
LEMMA AgentAppended ==
  ASSUME NEW rp, NEW list, NEW D, NEW D2, NEW p, NEW h, NEW v, AgentsAre(rp, list, D, {}, h, v),
         AnotherDecl(D, D2, p), NEW new, IsOf(rp, new, p, h, v),
         \A n \in DOMAIN list : ~SameKey(list[n], new), NEW r, r = Append(list, new)
  PROVE  AgentsAre(rp, r, D2, {}, h, v)
  <1> DEFINE none == {}
  <1>1. \A n \in DOMAIN list : AgentIs(rp, list[n], D2, none, h, v)
    <2> TAKE n \in DOMAIN list
    <2> DEFINE a == list[n]
               P == Mine(rp, a, D)
    <2>1. AgentIs(rp, a, D, {}, h, v)
      BY DEF AgentsAre
    <2>2. P # {} /\ Facts(rp, a, P, {}, h, v)
      BY <2>1, DeclaredAre
    <2>3. ~SameKey(Decl(rp, p), a)
      BY DEF SameKey, IsOf
    <2> HIDE DEF a
    <2>4. P = Mine(rp, a, D2)
      BY <2>3, MineStays
    <2> HIDE DEF P
    <2>5. AgentIs(rp, a, D2, {}, h, v)
      BY <2>2, <2>4, DeclaredIs
    <2> QED BY <2>5 DEF a
  <1>2. AgentIs(rp, new, D2, none, h, v)
    <2> DEFINE P == {p}
    <2>1. \A d \in D : ~SameKey(Decl(rp, d), new)
      BY DEF AgentsAre, SameKey
    <2>2. P = Mine(rp, new, D2)
      BY <2>1 DEF Mine, AnotherDecl, IsOf
    <2>3. P # {} /\ Facts(rp, new, P, {}, h, v)
      BY DEF IsOf
    <2> HIDE DEF P
    <2>4. AgentIs(rp, new, D2, {}, h, v)
      BY <2>2, <2>3, DeclaredIs
    <2> QED BY <2>4
  <1>3. AgentsAre(rp, list, D, none, h, v)
    OBVIOUS
  <1>4. \A d \in D2 : d \in D \/ SameKey(Decl(rp, d), new)
    BY DEF AnotherDecl, IsOf
  <1>5. \A q \in none : q \in none \/ /\ new.name = rp.resolved[q].name
                                      /\ rp.resolved[q].delegates \subseteq new.delegates
    OBVIOUS
  <1> HIDE DEF none
  <1>6. AgentsAre(rp, r, D2, none, h, v)
    BY <1>1, <1>2, <1>3, <1>4, <1>5, AgentAdded
  <1> QED BY <1>6 DEF none

\* new is a further declaration of the agent at i.
MergedInto(list, i, a, new, c, r) ==
  /\ i \in DOMAIN list /\ a = list[i] /\ SameKey(a, new) /\ r = [list EXCEPT ![i] = c]

\* A declaration is merged into the agent it is of.
LEMMA AgentMerged ==
  ASSUME NEW rp, rp \in Repositories, NEW list, NEW D, NEW D2, NEW p, NEW h, NEW v,
         AgentsAre(rp, list, D, {}, h, v), D \subseteq Decls(rp, Len(rp.files)), HeapIs(h), VaultIs(rp, v),
         AnotherDecl(D, D2, p), NEW new, IsOf(rp, new, p, h, v),
         NEW a, NEW acc, NEW w, NEW ids, Merging(rp, a, Mine(rp, a, D), new, p, h, v, acc, w, ids),
         NEW c, c = Consolidated(a, new, acc.tools, ids),
         NEW i, NEW r, MergedInto(list, i, a, new, c, r)
  PROVE  AgentsAre(rp, r, D2, {}, acc.heap, w)
  <1> DEFINE P == Mine(rp, a, D)
             P2 == P \cup {p}
             none == {}
  <1>1. P # {} /\ P \subseteq Decls(rp, Len(rp.files)) /\ p \in Decls(rp, Len(rp.files)) /\ Facts(rp, a, P, {}, h, v)
        /\ \A e \in P : e[1] <= p[1]
    <2>1. AgentIs(rp, a, D, {}, h, v)
      BY DEF AgentsAre, MergedInto
    <2>2. P # {} /\ Facts(rp, a, P, {}, h, v)
      BY <2>1, DeclaredAre
    <2> QED BY <2>2 DEF Merging, Mine, AnotherDecl
  <1>2. Mine(rp, a, D2) = P2
    BY DEF Mine, AnotherDecl, IsOf, SameKey, MergedInto
  <1> HIDE DEF P, P2
  <1>3. Facts(rp, c, P2, {}, acc.heap, w)
    <2>1. /\ new = Raw(rp, p) /\ Facts(rp, new, {p}, {}, h, v)
          /\ ToolsTaken(h, a.tools, Range(new.tools), acc)
          /\ IdsTaken(v, a.ids, Range(new.ids), w, ids, FALSE)
      BY DEF IsOf, Merging
    <2> QED BY <1>1, <2>1, FactsMerged DEF P2
  <1>4. c.name = a.name /\ c.instance = a.instance
    BY DEF Consolidated
  <1>5. AgentIs(rp, c, D2, {}, acc.heap, w)
    <2>1. P2 = Mine(rp, c, D2) /\ P2 # {}
      BY <1>2, <1>4 DEF Mine, SameKey, P2
    <2> QED BY <1>3, <2>1, DeclaredIs
  <1>6. ASSUME NEW n \in DOMAIN list, n # i
        PROVE  AgentIs(rp, list[n], D2, {}, acc.heap, w)
    <2> DEFINE b == list[n]
               B == Mine(rp, b, D)
    <2>1. ~SameKey(a, b)
      BY <1>6 DEF AgentsAre, MergedInto
    <2>2. AgentIs(rp, b, D, {}, h, v)
      BY DEF AgentsAre
    <2>3. B # {} /\ Facts(rp, b, B, {}, h, v)
      BY <2>2, DeclaredAre
    <2>4. ~SameKey(Decl(rp, p), b)
      BY <2>1 DEF SameKey, IsOf, MergedInto
    <2> HIDE DEF b
    <2>5. B = Mine(rp, b, D2)
      BY <2>4, MineStays
    <2>6. OtherThan(rp, B, P, p)
      BY <2>1 DEF OtherThan, Mine, AnotherDecl, SameKey, P
    <2> HIDE DEF B
    <2>7. Facts(rp, b, B, {}, acc.heap, w)
      BY <2>3, <2>6, OthersKept DEF P
    <2>8. AgentIs(rp, b, D2, {}, acc.heap, w)
      BY <2>3, <2>5, <2>7, DeclaredIs
    <2> QED BY <2>8 DEF b
  <1>7. r \in Seq(Agent) /\ DOMAIN r = DOMAIN list /\ r[i] = c /\ \A n \in DOMAIN list : n # i => r[n] = list[n]
    <2>1. c \in Agent /\ list \in Seq(Agent)
      BY <1>3 DEF Facts, AgentsAre
    <2> QED BY <2>1, ReplacedIs DEF MergedInto
  <1>8. SameAgents(list, r, none)
    BY <1>4, <1>7 DEF SameAgents, MergedInto
  <1>9. EachIs(rp, r, D2, none, acc.heap, w)
    BY <1>5, <1>6, <1>7 DEF EachIs
  <1>10. Covers(rp, list, r, D, none, D2, none)
    BY DEF Covers, AnotherDecl, IsOf, SameKey, MergedInto
  <1>11. AgentsAre(rp, list, D, none, h, v)
    OBVIOUS
  <1> HIDE DEF none
  <1>12. AgentsAre(rp, r, D2, none, acc.heap, w)
    BY <1>8, <1>9, <1>10, <1>11, AgentsChanged
  <1> QED BY <1>12 DEF none

\* Enrichment makes no duplicates, so the second consolidation only moves agents.
LEMMA SecondPass ==
  ASSUME NEW all, NEW R, agents \in Seq(Agent), todo \in Seq(Agent),
         AgentsAre(repo, agents \o todo, all, R, heap, vault), todo # <<>>, Consolidate
  PROVE  /\ heap' = heap /\ vault' = vault /\ agents' \o todo' = agents \o todo
         /\ agents' \in Seq(Agent) /\ todo' \in Seq(Agent)
  <1> DEFINE list == agents \o todo
             new == Head(todo)
             same == {i \in DOMAIN agents : SameKey(agents[i], new)}
             m == Len(agents)
  <1>1. /\ m \in Nat /\ DOMAIN agents = 1..m /\ (\A i \in 1..m : list[i] = agents[i])
        /\ list[m + 1] = new /\ m + 1 \in DOMAIN list /\ 1..m \subseteq DOMAIN list
    <2>1. /\ list \in Seq(Agent) /\ Len(list) = m + Len(todo) /\ m \in Nat /\ Len(todo) \in Nat
          /\ (\A i \in 1..m : list[i] = agents[i]) /\ (\A j \in 1..Len(todo) : list[m + j] = todo[j])
      BY JoinedIs
    <2>2. Len(todo) # 0 /\ new = todo[1] /\ DOMAIN list = 1..Len(list) /\ DOMAIN agents = 1..m
      <3>1. Len(todo) # 0
        BY EmptySeq
      <3>2. DOMAIN list = 1..Len(list) /\ DOMAIN agents = 1..m
        BY <2>1, LenProperties
      <3> QED BY <3>1, <3>2
    <2> HIDE DEF list, new, m
    <2>3. 1 \in 1..Len(todo) /\ m + 1 \in 1..(m + Len(todo)) /\ 1..m \subseteq 1..(m + Len(todo))
      BY <2>1, <2>2
    <2> QED BY <2>1, <2>2, <2>3
  <1>2. same = {}
    <2> HIDE DEF list, m, new
    <2>1. \A k, n \in DOMAIN list : SameKey(list[k], list[n]) => k = n
      BY DEF AgentsAre, list
    <2>2. \A i \in 1..m : i # m + 1
      BY <1>1
    <2> QED BY <1>1, <2>1, <2>2
  <1>3. /\ heap' = heap /\ vault' = vault /\ agents' = Append(agents, Head(todo)) /\ todo' = Tail(todo)
    BY <1>2 DEF Consolidate
  <1>4. agents' \o todo' = agents \o todo
    BY <1>3, MovedOnly
  <1>5. agents' \in Seq(Agent) /\ todo' \in Seq(Agent)
    BY <1>3, HeadTailProperties, AppendProperties
  <1> QED BY <1>3, <1>4, <1>5

\* In the first consolidation the next declaration is looked at.
LEMMA FirstPass ==
  ASSUME repo \in Repositories, NEW all, all = Decls(repo, Len(repo.files)), NEW m, NEW r,
         PlacesAre(heap, m, r), HeapIs(heap), PlacesAre(vault, m, r), VaultIs(repo, vault),
         GlobalsAre(repo, vault, globals), GlobalsCover(repo, vault, globals, m, r),
         GlobalsDiffer(vault, globals),
         NEW pos, Pending(repo, todo, pos, heap, vault), Range(pos) \subseteq all,
         \A d \in all \ Range(pos) : \A p \in Range(pos) : d[1] <= p[1],
         AgentsAre(repo, agents, all \ Range(pos), {}, heap, vault), todo # <<>>, Consolidate
  PROVE  /\ PlacesAre(heap', m, r) /\ HeapIs(heap') /\ PlacesAre(vault', m, r) /\ VaultIs(repo, vault')
         /\ GlobalsAre(repo, vault', globals) /\ GlobalsCover(repo, vault', globals, m, r)
         /\ GlobalsDiffer(vault', globals)
         /\ Pending(repo, todo', Tail(pos), heap', vault') /\ Range(Tail(pos)) \subseteq all
         /\ \A d \in all \ Range(Tail(pos)) : \A p \in Range(Tail(pos)) : d[1] <= p[1]
         /\ AgentsAre(repo, agents', all \ Range(Tail(pos)), {}, heap', vault')
  <1> DEFINE p == Head(pos)
             rest == Tail(pos)
             new == Head(todo)
             D == all \ Range(pos)
             D2 == all \ Range(rest)
             same == {i \in DOMAIN agents : SameKey(agents[i], new)}
  <1>1. /\ new = Raw(repo, p) /\ Facts(repo, new, {p}, {}, heap, vault)
        /\ Pending(repo, Tail(todo), rest, heap, vault)
        /\ Range(pos) = Range(rest) \cup {p} /\ p \notin Range(rest)
        /\ \A x \in Range(rest) : p[1] <= x[1]
    BY PendingHead
  <1> HIDE DEF p, rest, new
  <1>2. AnotherDecl(D, D2, p)
    BY <1>1 DEF AnotherDecl
  <1>3. Range(rest) \subseteq all /\ \A d \in D2 : \A x \in Range(rest) : d[1] <= x[1]
    BY <1>1
  <1>4. D \subseteq all /\ p \in all /\ \A x \in Range(rest) : x \notin D /\ x # p
    BY <1>1
  <1>5. AgentsAre(repo, agents, D, {}, heap, vault)
    OBVIOUS
  <1>6. IsOf(repo, new, p, heap, vault)
    BY <1>1 DEF IsOf, Raw, SameKey
  <1> HIDE DEF D, D2
  <1>7. \/ same = {} /\ agents' = Append(agents, new) /\ heap' = heap /\ vault' = vault
        \/ \E i \in same :
             LET acc == Folded(TakeTool, [heap |-> heap, tools |-> agents[i].tools], new.tools)
                 idacc == Folded(TakeIdentity, [vault |-> vault, ids |-> agents[i].ids], new.ids) IN
             /\ heap' = acc.heap /\ vault' = idacc.vault
             /\ agents' = [agents EXCEPT ![i] = Consolidated(agents[i], new, acc.tools, idacc.ids)]
    BY DEF Consolidate, new
  <1>8. todo' = Tail(todo)
    BY DEF Consolidate
  <1> SUFFICES /\ PlacesAre(heap', m, r) /\ HeapIs(heap') /\ PlacesAre(vault', m, r)
               /\ VaultIs(repo, vault')
               /\ GlobalsAre(repo, vault', globals) /\ GlobalsCover(repo, vault', globals, m, r)
               /\ GlobalsDiffer(vault', globals)
               /\ Pending(repo, Tail(todo), rest, heap', vault')
               /\ AgentsAre(repo, agents', D2, {}, heap', vault')
    BY <1>3, <1>8 DEF rest, D2
  <1>9. CASE same = {} /\ agents' = Append(agents, new) /\ heap' = heap /\ vault' = vault
    <2>1. \A n \in DOMAIN agents : ~SameKey(agents[n], new)
      BY <1>9
    <2>2. AgentsAre(repo, agents', D2, {}, heap, vault)
      BY <1>2, <1>5, <1>6, <1>9, <2>1, AgentAppended
    <2> QED BY <1>1, <1>9, <2>2
  <1>10. ASSUME NEW i \in same,
                LET acc == Folded(TakeTool, [heap |-> heap, tools |-> agents[i].tools], new.tools)
                    idacc == Folded(TakeIdentity, [vault |-> vault, ids |-> agents[i].ids], new.ids) IN
                /\ heap' = acc.heap /\ vault' = idacc.vault
                /\ agents' = [agents EXCEPT ![i] = Consolidated(agents[i], new, acc.tools, idacc.ids)]
         PROVE  /\ PlacesAre(heap', m, r) /\ HeapIs(heap') /\ PlacesAre(vault', m, r)
                /\ VaultIs(repo, vault')
                /\ GlobalsAre(repo, vault', globals) /\ GlobalsCover(repo, vault', globals, m, r)
                /\ GlobalsDiffer(vault', globals)
                /\ Pending(repo, Tail(todo), rest, heap', vault')
                /\ AgentsAre(repo, agents', D2, {}, heap', vault')
    <2> DEFINE a == agents[i]
               acc == Folded(TakeTool, [heap |-> heap, tools |-> a.tools], new.tools)
               idacc == Folded(TakeIdentity, [vault |-> vault, ids |-> a.ids], new.ids)
               ids == idacc.ids
               w == idacc.vault
               P == Mine(repo, a, D)
               c == Consolidated(a, new, acc.tools, ids)
    <2>1. heap' = acc.heap /\ vault' = w /\ MergedInto(agents, i, a, new, c, agents')
      BY <1>10 DEF MergedInto
    <2>2. Facts(repo, a, P, {}, heap, vault)
      <3>1. AgentIs(repo, a, D, {}, heap, vault)
        BY <1>5 DEF AgentsAre
      <3> QED BY <3>1, DeclaredAre
    <2>3. a \in Agent /\ new \in Agent
      BY <1>1, <2>2 DEF Facts
    <2>4. ToolsTaken(heap, a.tools, Range(new.tools), acc)
      <3>1. /\ DOMAIN heap \subseteq Address /\ (\A t \in DOMAIN heap : heap[t] \in Tool)
            /\ Range(a.tools) \cup Range(new.tools) \subseteq DOMAIN heap
        BY <1>1, <2>2 DEF Facts, ToolsAre, PlacesAre, HeapIs
      <3>2. a.tools \in Seq(Address) /\ new.tools \in Seq(Address)
        BY <2>3 DEF Agent
      <3> QED BY <3>1, <3>2, ToolsFolded
    <2>5. IdsTaken(vault, a.ids, Range(new.ids), w, ids, FALSE)
      <3>1. /\ DOMAIN vault \subseteq Address /\ (\A x \in DOMAIN vault : vault[x] \in Identity)
            /\ Range(a.ids) \cup Range(new.ids) \subseteq DOMAIN vault
        BY <1>1, <2>2 DEF Facts, IdsAre, PlacesAre, VaultIs
      <3>2. a.ids \in Seq(Address) /\ new.ids \in Seq(Address)
        BY <2>3 DEF Agent
      <3> QED BY <3>1, <3>2, IdsFolded
    <2>6. Merging(repo, a, P, new, p, heap, vault, acc, w, ids)
      BY <1>1, <1>4, <2>2, <2>4, <2>5 DEF Merging, Mine
    <2>7. Range(a.ids) \cup Range(new.ids) \subseteq DOMAIN vault
      BY <1>1, <2>2 DEF Facts, IdsAre
    <2> HIDE DEF a, acc, idacc, ids, w, P
    <2>8. PlacesAre(heap', m, r) /\ HeapIs(heap')
      BY <2>1, <2>4 DEF ToolsTaken, PlacesAre, HeapIs
    <2>9. PlacesAre(vault', m, r)
      BY <2>1, <2>5 DEF IdsTaken, PlacesAre
    <2>10. VaultIs(repo, vault')
      BY <2>1, <2>5, <2>7, VaultTaken
    <2>11. /\ GlobalsAre(repo, vault', globals) /\ GlobalsCover(repo, vault', globals, m, r)
           /\ GlobalsDiffer(vault', globals)
      BY <2>1, <2>5, GlobalsStay
    <2>12. Pending(repo, Tail(todo), rest, heap', vault')
      <3>1. \A x \in Range(rest) : OtherThan(repo, {x}, P, p)
        BY <1>3, <1>4 DEF OtherThan, Mine, P
      <3> QED BY <1>1, <2>1, <2>6, <3>1, PendingKept
    <2>13. AgentsAre(repo, agents', D2, {}, heap', vault')
      <3>1. D \subseteq Decls(repo, Len(repo.files))
        BY <1>4
      <3>2. Merging(repo, a, Mine(repo, a, D), new, p, heap, vault, acc, w, ids)
        BY <2>6 DEF P
      <3> HIDE DEF c
      <3>3. c = Consolidated(a, new, acc.tools, ids)
        BY DEF c
      <3> QED BY <1>2, <1>5, <1>6, <2>1, <3>1, <3>2, <3>3, AgentMerged
    <2> QED BY <2>8, <2>9, <2>10, <2>11, <2>12, <2>13
  <1> QED BY <1>7, <1>9, <1>10

\* A declaration is consolidated, in either pass.
LEMMA ConsolidateStep ==
  ASSUME NEW pos,
         StateInv(repo, phase, files, resolved, todo, agents, heap, vault, globals, pos), Consolidate
  PROVE  Inv'
  <1> DEFINE m == Len(repo.files) - Len(files)
             r == Len(repo.resolved) - Len(resolved)
             all == Decls(repo, Len(repo.files))
             none == {}
  <1>1. /\ phase \in {"consolidate", "again"} /\ todo # <<>>
        /\ repo' = repo /\ phase' = phase /\ files' = files /\ resolved' = resolved
        /\ globals' = globals /\ todo' = Tail(todo)
    BY DEF Consolidate
  <1>2. /\ repo \in Repositories /\ Rest(repo.files, files) /\ Rest(repo.resolved, resolved)
        /\ agents \in Seq(Agent) /\ todo \in Seq(Agent) /\ files = <<>>
        /\ PlacesAre(heap, m, r) /\ HeapIs(heap) /\ PlacesAre(vault, m, r) /\ VaultIs(repo, vault)
        /\ GlobalsAre(repo, vault, globals) /\ GlobalsCover(repo, vault, globals, m, r)
        /\ GlobalsDiffer(vault, globals)
    BY <1>1 DEF StateInv, PhaseInv
  <1>3. CASE phase = "consolidate"
    <2> DEFINE rest == Tail(pos)
    <2>1. /\ resolved = repo.resolved
          /\ Pending(repo, todo, pos, heap, vault) /\ Range(pos) \subseteq all
          /\ \A d \in all \ Range(pos) : \A p \in Range(pos) : d[1] <= p[1]
          /\ AgentsAre(repo, agents, all \ Range(pos), {}, heap, vault)
      BY <1>3 DEF StateInv, PhaseInv
    <2>2. /\ PlacesAre(heap', m, r) /\ HeapIs(heap') /\ PlacesAre(vault', m, r) /\ VaultIs(repo, vault')
          /\ GlobalsAre(repo, vault', globals) /\ GlobalsCover(repo, vault', globals, m, r)
          /\ GlobalsDiffer(vault', globals)
          /\ Pending(repo, todo', rest, heap', vault') /\ Range(rest) \subseteq all
          /\ \A d \in all \ Range(rest) : \A p \in Range(rest) : d[1] <= p[1]
          /\ AgentsAre(repo, agents', all \ Range(rest), {}, heap', vault')
      <3> HIDE DEF m, r, all
      <3>1. all = Decls(repo, Len(repo.files))
        BY DEF all
      <3> QED BY <1>1, <1>2, <2>1, <3>1, FirstPass
    <2>3. agents' \in Seq(Agent) /\ todo' \in Seq(Agent)
      BY <2>2 DEF AgentsAre, Pending
    <2> HIDE DEF rest
    <2>4. StateInv(repo', phase', files', resolved', todo', agents', heap', vault', globals', rest)
      BY <1>1, <1>2, <1>3, <2>1, <2>2, <2>3 DEF StateInv, PhaseInv
    <2> QED BY <2>4 DEF Inv
  <1>4. CASE phase = "again"
    <2>1. AgentsAre(repo, agents \o todo, all, 1..r, heap, vault) /\ resolved = <<>>
      BY <1>4 DEF StateInv, PhaseInv
    <2>2. /\ heap' = heap /\ vault' = vault /\ agents' \o todo' = agents \o todo
          /\ agents' \in Seq(Agent) /\ todo' \in Seq(Agent)
      BY <1>1, <1>2, <2>1, SecondPass
    <2>3. StateInv(repo', phase', files', resolved', todo', agents', heap', vault', globals', pos)
      BY <1>1, <1>2, <1>4, <2>1, <2>2 DEF StateInv, PhaseInv
    <2> QED BY <2>3 DEF Inv
  <1> QED BY <1>1, <1>3, <1>4

-----------------------------------------------------------------------------
(* Every state                                                             *)

\* Wherever a scan stands between the first file and the last link, each agent, consolidated or as
\* an adapter made it, has just what its declarations and resolutions say, in objects of its own.
THEOREM InvHolds == SafetySpec => []Inv
  <1>1. Inv /\ [Next]_vars => Inv'
    <2> SUFFICES ASSUME Inv, [Next]_vars
                 PROVE  Inv'
      OBVIOUS
    <2>1. PICK pos : StateInv(repo, phase, files, resolved, todo, agents, heap, vault, globals, pos)
      BY DEF Inv
    <2>2. CASE MergeFile
      BY <2>1, <2>2, MergeFileStep
    <2>3. CASE ConsolidateIdentities
      BY <2>1, <2>3, ConsolidateIdentitiesStep
    <2>4. CASE StartConsolidation
      BY <2>1, <2>4, StartConsolidationStep
    <2>5. CASE Consolidate
      BY <2>1, <2>5, ConsolidateStep
    <2>6. CASE EndConsolidation
      BY <2>1, <2>6, EndConsolidationStep
    <2>7. CASE Enrich
      BY <2>1, <2>7, EnrichStep
    <2>8. CASE Link
      BY <2>1, <2>8, LinkStep
    <2>9. CASE EndLink
      BY <2>1, <2>9, EndLinkStep
    <2>10. CASE UNCHANGED vars
      <3>1. StateInv(repo', phase', files', resolved', todo', agents', heap', vault', globals', pos)
        BY <2>1, <2>10 DEF vars
      <3> QED BY <3>1 DEF Inv
    <2> QED BY <2>2, <2>3, <2>4, <2>5, <2>6, <2>7, <2>8, <2>9, <2>10 DEF Next
  <1> QED BY <1>1, InitiallyInv, PTL DEF SafetySpec

\* The agents of a list refer to objects that exist.
Refers(list) == \A a \in Range(list) : Range(a.tools) \subseteq DOMAIN heap /\ Range(a.ids) \subseteq DOMAIN vault

\* Agents refer to objects that there are.
LEMMA FactsRefer ==
  ASSUME NEW rp, NEW a, NEW P, NEW Q, Facts(rp, a, P, Q, heap, vault)
  PROVE  Range(a.tools) \subseteq DOMAIN heap /\ Range(a.ids) \subseteq DOMAIN vault
  BY DEF Facts, ToolsAre, IdsAre

LEMMA PendingRefer ==
  ASSUME NEW rp, NEW list, NEW pos, Pending(rp, list, pos, heap, vault)
  PROVE  Refers(list)
  <1>1. \A n \in DOMAIN list : Facts(rp, list[n], {pos[n]}, {}, heap, vault)
    BY DEF Pending
  <1>2. \A n \in DOMAIN list : /\ Range(list[n].tools) \subseteq DOMAIN heap
                               /\ Range(list[n].ids) \subseteq DOMAIN vault
    BY <1>1, FactsRefer
  <1> QED BY <1>2 DEF Refers, Range

\* Agents refer to objects that are there.
LEMMA AgentsRefer ==
  ASSUME NEW rp, NEW list, NEW D, NEW R, AgentsAre(rp, list, D, R, heap, vault)
  PROVE  Refers(list)
  <1>1. \A n \in DOMAIN list :
          Facts(rp, list[n], Mine(rp, list[n], D), MyResolved(rp, list[n], R), heap, vault)
    BY DEF AgentsAre, AgentIs
  <1>2. \A n \in DOMAIN list : /\ Range(list[n].tools) \subseteq DOMAIN heap
                               /\ Range(list[n].ids) \subseteq DOMAIN vault
    BY <1>1, FactsRefer
  <1> QED BY <1>2 DEF Refers, Range

\* Tools, identities and agents have their types, and no agent and no list of the graph refers to
\* an object that is not there.
THEOREM TypeHolds == SafetySpec => []TypeOK
  <1>1. Inv => TypeOK
    <2> SUFFICES ASSUME Inv
                 PROVE  TypeOK
      OBVIOUS
    <2>1. PICK pos : StateInv(repo, phase, files, resolved, todo, agents, heap, vault, globals, pos)
      BY DEF Inv
    <2>2. /\ repo \in Repositories
          /\ phase \in {"merge", "identities", "consolidate", "enrich", "again", "link", "done"}
          /\ agents \in Seq(Agent) /\ todo \in Seq(Agent)
      BY <2>1 DEF StateInv
    <2>3. /\ DOMAIN heap \subseteq Address /\ DOMAIN vault \subseteq Address
          /\ Range(heap) \subseteq Tool /\ Range(vault) \subseteq Identity
      BY <2>1 DEF StateInv, PlacesAre, HeapIs, VaultIs, Range
    <2>4. Range(globals) \subseteq DOMAIN vault
      BY <2>1 DEF StateInv, GlobalsAre
    <2>5. CASE phase \in {"merge", "identities"}
      <3>1. Pending(repo, agents, pos, heap, vault) /\ todo = <<>>
        BY <2>1, <2>5 DEF StateInv, PhaseInv
      <3>2. Refers(agents)
        BY <3>1, PendingRefer
      <3>3. Range(todo) = {}
        BY <3>1 DEF Range
      <3> QED BY <2>2, <2>3, <2>4, <3>2, <3>3 DEF TypeOK, Refers
    <2>6. CASE phase = "consolidate"
      <3>1. /\ Pending(repo, todo, pos, heap, vault)
            /\ AgentsAre(repo, agents, Decls(repo, Len(repo.files)) \ Range(pos), {}, heap, vault)
        BY <2>1, <2>6 DEF StateInv, PhaseInv
      <3>2. Refers(agents) /\ Refers(todo)
        BY <3>1, PendingRefer, AgentsRefer
      <3> QED BY <2>2, <2>3, <2>4, <3>2 DEF TypeOK, Refers
    <2>7. CASE phase \in {"enrich", "again", "link", "done"}
      <3>1. AgentsAre(repo, agents \o todo, Decls(repo, Len(repo.files)),
                      1..(Len(repo.resolved) - Len(resolved)), heap, vault)
        BY <2>1, <2>7 DEF StateInv, PhaseInv
      <3>2. Refers(agents \o todo)
        BY <3>1, AgentsRefer
      <3>3. Range(agents \o todo) = Range(agents) \cup Range(todo)
        BY <2>2, JoinedIs
      <3> QED BY <2>2, <2>3, <2>4, <3>2, <3>3 DEF TypeOK, Refers
    <2> QED BY <2>2, <2>5, <2>6, <2>7
  <1> QED BY <1>1, InvHolds, PTL

\* The second consolidation finds nothing to do.
THEOREM SecondPassHolds == SafetySpec => SecondPassIdle
  <1> DEFINE Idle == phase = "again" /\ todo # <<>> =>
                       heap' = heap /\ vault' = vault /\ agents' \o todo' = agents \o todo
  <1>1. Inv /\ [Next]_vars => [Idle]_vars
    <2> SUFFICES ASSUME Inv, Next, phase = "again", todo # <<>>
                 PROVE  heap' = heap /\ vault' = vault /\ agents' \o todo' = agents \o todo
      BY DEF vars
    <2>1. Consolidate
      BY DEF Next, MergeFile, ConsolidateIdentities, StartConsolidation, EndConsolidation, Enrich, Link,
             EndLink
    <2>2. PICK pos : StateInv(repo, phase, files, resolved, todo, agents, heap, vault, globals, pos)
      BY DEF Inv
    <2>3. /\ agents \in Seq(Agent) /\ todo \in Seq(Agent)
          /\ AgentsAre(repo, agents \o todo, Decls(repo, Len(repo.files)),
                       1..(Len(repo.resolved) - Len(resolved)), heap, vault)
      BY <2>2 DEF StateInv, PhaseInv
    <2> QED BY <2>1, <2>3, SecondPass
  <1> QED BY <1>1, InvHolds, PTL DEF SafetySpec, SecondPassIdle

-----------------------------------------------------------------------------
(* What was declared, in the words of the properties                       *)

\* What the properties call a declaration.
DeclaredAs(p) ==
  LET d == Decl(repo, p) IN
  [file |-> p[1], manifest |-> repo.files[p[1]].manifest, policy |-> d.policy,
   tools |-> UsedTools(repo, p), identities |-> UsedIds(repo, p),
   servers |-> Range(d.servers), inputs |-> d.inputs, delegates |-> d.delegates]

\* Its fields.
LEMMA DeclaredFields ==
  ASSUME NEW p
  PROVE  /\ DeclaredAs(p).file = p[1] /\ DeclaredAs(p).manifest = repo.files[p[1]].manifest
         /\ DeclaredAs(p).policy = Decl(repo, p).policy
         /\ DeclaredAs(p).tools = UsedTools(repo, p) /\ DeclaredAs(p).identities = UsedIds(repo, p)
         /\ DeclaredAs(p).servers = Range(Decl(repo, p).servers)
         /\ DeclaredAs(p).inputs = Decl(repo, p).inputs
         /\ DeclaredAs(p).delegates = Decl(repo, p).delegates
  BY DEF DeclaredAs

\* P are the declarations of a, Q the resolved agents of its name.
SaidOf(a, P, Q) ==
  /\ \A p \in P : DeclaredAs(p) \in DeclarationsOf(a)
  /\ \A d \in DeclarationsOf(a) : \E p \in P : d = DeclaredAs(p)
  /\ \A q \in Q : repo.resolved[q] \in ResolutionsOf(a)
  /\ \A r \in ResolutionsOf(a) : \E q \in Q : r = repo.resolved[q]

\* All declarations of a scan.
LEMMA DeclsAre ==
  ASSUME repo \in Repositories
  PROVE  /\ \A p \in Decls(repo, Len(repo.files)) :
              p[1] \in DOMAIN repo.files /\ Decl(repo, p) \in Range(repo.files[p[1]].agents)
         /\ \A i \in DOMAIN repo.files : \A d \in Range(repo.files[i].agents) :
              \E p \in Decls(repo, Len(repo.files)) : p[1] = i /\ Decl(repo, p) = d
  <1>1. ASSUME NEW p \in Decls(repo, Len(repo.files))
        PROVE  p[1] \in DOMAIN repo.files /\ Decl(repo, p) \in Range(repo.files[p[1]].agents)
    BY ScanIs DEF Decls, Decl, Range
  <1>2. ASSUME NEW i \in DOMAIN repo.files, NEW d \in Range(repo.files[i].agents)
        PROVE  \E p \in Decls(repo, Len(repo.files)) : p[1] = i /\ Decl(repo, p) = d
    <2>1. PICK j \in DOMAIN repo.files[i].agents : d = repo.files[i].agents[j]
      BY DEF Range
    <2>2. i \in 1..Len(repo.files) /\ j \in Nat
      <3>1. i \in 1..Len(repo.files) /\ repo.files[i].agents \in Seq(Declaration)
        BY ScanIs DEF File
      <3> QED BY <3>1, RangeIs
    <2>3. <<i, j>> \in Decls(repo, Len(repo.files)) /\ Decl(repo, <<i, j>>) = d
      BY <2>1, <2>2 DEF Decls, Decl
    <2> QED BY <2>3
  <1> QED BY <1>1, <1>2

\* The properties speak of the declarations that the invariant speaks of.
LEMMA SaidIs ==
  ASSUME repo \in Repositories, NEW a, NEW P, P = Mine(repo, a, Decls(repo, Len(repo.files))),
         NEW Q, Q = MyResolved(repo, a, 1..Len(repo.resolved))
  PROVE  SaidOf(a, P, Q)
  <1>1. ASSUME NEW p \in P
        PROVE  DeclaredAs(p) \in DeclarationsOf(a)
    <2>1. /\ p[1] \in DOMAIN repo.files /\ Decl(repo, p) \in Range(repo.files[p[1]].agents)
          /\ SameKey(Decl(repo, p), a)
      BY <1>1, DeclsAre DEF Mine
    <2> DEFINE i == p[1]
               e == Decl(repo, p)
    <2>2. DeclaredAs(p) =
            [file |-> i, manifest |-> repo.files[i].manifest, policy |-> e.policy,
             tools |-> {repo.files[i].tools[n] : n \in Range(e.uses)},
             identities |-> {repo.files[i].identities[n] : n \in Range(e.runsAs)},
             servers |-> Range(e.servers), inputs |-> e.inputs, delegates |-> e.delegates]
      BY DEF DeclaredAs, UsedTools, UsedIds
    <2> HIDE DEF i, e
    <2>3. i \in DOMAIN repo.files /\ e \in {x \in Range(repo.files[i].agents) : SameKey(x, a)}
      BY <2>1 DEF i, e
    <2> DEFINE Of(j) ==
                 {[file |-> j, manifest |-> repo.files[j].manifest, policy |-> d.policy,
                   tools |-> {repo.files[j].tools[n] : n \in Range(d.uses)},
                   identities |-> {repo.files[j].identities[n] : n \in Range(d.runsAs)},
                   servers |-> Range(d.servers), inputs |-> d.inputs, delegates |-> d.delegates] :
                    d \in {x \in Range(repo.files[j].agents) : SameKey(x, a)}}
    <2>4. DeclaredAs(p) \in Of(i)
      BY <2>2, <2>3
    <2>5. DeclarationsOf(a) = UNION {Of(j) : j \in DOMAIN repo.files}
      BY Zenon DEF DeclarationsOf
    <2> HIDE DEF Of
    <2> QED BY <2>3, <2>4, <2>5
  <1>2. ASSUME NEW d \in DeclarationsOf(a)
        PROVE  \E p \in P : d = DeclaredAs(p)
    <2>1. PICK i \in DOMAIN repo.files : \E e \in Range(repo.files[i].agents) :
            /\ SameKey(e, a)
            /\ d = [file |-> i, manifest |-> repo.files[i].manifest, policy |-> e.policy,
                    tools |-> {repo.files[i].tools[n] : n \in Range(e.uses)},
                    identities |-> {repo.files[i].identities[n] : n \in Range(e.runsAs)},
                    servers |-> Range(e.servers), inputs |-> e.inputs, delegates |-> e.delegates]
      BY DEF DeclarationsOf
    <2>5. PICK e \in Range(repo.files[i].agents) :
            /\ SameKey(e, a)
            /\ d = [file |-> i, manifest |-> repo.files[i].manifest, policy |-> e.policy,
                    tools |-> {repo.files[i].tools[n] : n \in Range(e.uses)},
                    identities |-> {repo.files[i].identities[n] : n \in Range(e.runsAs)},
                    servers |-> Range(e.servers), inputs |-> e.inputs, delegates |-> e.delegates]
      BY <2>1
    <2>2. PICK p \in Decls(repo, Len(repo.files)) : p[1] = i /\ Decl(repo, p) = e
      BY DeclsAre
    <2>3. p \in P
      BY <2>5, <2>2 DEF Mine
    <2>4. d = DeclaredAs(p)
      BY <2>5, <2>2 DEF DeclaredAs, UsedTools, UsedIds
    <2> QED BY <2>3, <2>4
  <1>3. DOMAIN repo.resolved = 1..Len(repo.resolved)
    BY ScanIs
  <1>4. /\ \A q \in Q : repo.resolved[q] \in ResolutionsOf(a)
        /\ \A r \in ResolutionsOf(a) : \E q \in Q : r = repo.resolved[q]
    BY <1>3 DEF ResolutionsOf, MyResolved, Range
  <1> QED BY <1>1, <1>2, <1>4 DEF SaidOf

\* The tools a property finds declared are those of the agent's declarations.
LEMMA SaidToolsAre ==
  ASSUME NEW a, NEW P, NEW Q, SaidOf(a, P, Q), NEW n
  PROVE  DeclaredTools(a, n) = SaidTools(repo, P, n)
  <1>1. UNION {d.tools : d \in DeclarationsOf(a)} = UNION {UsedTools(repo, p) : p \in P}
    <2>1. \A x : (\E d \in DeclarationsOf(a) : x \in d.tools) <=> (\E p \in P : x \in UsedTools(repo, p))
      <3>1. \A p : DeclaredAs(p).tools = UsedTools(repo, p)
        BY DeclaredFields
      <3> HIDE DEF DeclaredAs
      <3>2. /\ \A p \in P : DeclaredAs(p) \in DeclarationsOf(a)
            /\ \A d \in DeclarationsOf(a) : \E p \in P : d = DeclaredAs(p)
        BY DEF SaidOf
      <3> QED BY <3>1, <3>2, Zenon
    <2> QED BY <2>1
  <1> QED BY <1>1 DEF DeclaredTools, SaidTools

\* What the graph knows of identities of one name.
LEMMA KnownAre ==
  ASSUME repo \in Repositories, NEW n
  PROVE  GloballyKnown(n) = KnownIn(repo, n) /\ EverKnown(n) = EverIn(repo, n)
  <1>1. DOMAIN repo.files = 1..Len(repo.files) /\ DOMAIN repo.resolved = 1..Len(repo.resolved)
    BY ScanIs
  <1>2. UNION {{f.identities[k] : k \in 1..f.global} : f \in Range(repo.files)} =
        UNION {{repo.files[i].identities[k] : k \in 1..repo.files[i].global} : i \in 1..Len(repo.files)}
    BY <1>1 DEF Range
  <1>3. UNION {Range(r.identities) : r \in Range(repo.resolved)} =
        UNION {Range(repo.resolved[q].identities) : q \in 1..Len(repo.resolved)}
    BY <1>1 DEF Range
  <1>4. UNION {Range(f.identities) : f \in Range(repo.files)} =
        UNION {Range(repo.files[i].identities) : i \in DOMAIN repo.files}
    BY DEF Range
  <1>5. GloballyKnown(n) = KnownIn(repo, n)
    BY <1>2, <1>3 DEF GloballyKnown, KnownIn, KnownBy
  <1> QED BY <1>4, <1>5 DEF EverKnown, EverIn

-----------------------------------------------------------------------------
(* Facts are kept                                                          *)

\* An agent in the end: P are its declarations, Q the resolved agents that it is.
InTheEnd(a, P, Q) ==
  /\ repo \in Repositories /\ SaidOf(a, P, Q) /\ P \subseteq Decls(repo, Len(repo.files))
  /\ Facts(repo, a, P, Q, heap, vault)

\* Each part of FactsKept, of an agent in the end.
LEMMA ToolFactsHold ==
  ASSUME NEW a, NEW P, NEW Q, InTheEnd(a, P, Q)
  PROVE  ToolFactsKept(a)
  <1>1. ToolsKept(repo, a, P, heap)
    BY DEF InTheEnd, Facts
  <1> SUFFICES ASSUME NEW n \in ToolNames, \A t \in DeclaredTools(a, n) : t.kind # "placeholder",
                      NEW d \in DeclaredTools(a, n)
               PROVE  \E tool \in ToolsOf(a) : tool.name = n /\ Keeps(tool, d)
    BY DEF ToolFactsKept
  <1>2. DeclaredTools(a, n) = SaidTools(repo, P, n)
    BY SaidToolsAre DEF InTheEnd
  <1>3. PICK t \in Range(a.tools) : heap[t].name = n /\ Keeps(heap[t], d)
    BY <1>1, <1>2 DEF ToolsKept
  <1> QED BY <1>3 DEF ToolsOf

LEMMA IdentitiesHold ==
  ASSUME NEW a, NEW P, NEW Q, InTheEnd(a, P, Q), LinkedIs(repo, a, heap, vault)
  PROVE  IdentitiesKept(a)
  <1> DEFINE Held(n) == {vault[i] : i \in {j \in Range(a.ids) : vault[j].name = n}}
  <1>1. /\ repo \in Repositories /\ P \subseteq Decls(repo, Len(repo.files))
        /\ IdsKept(repo, a, P, vault)
        /\ \A d \in DeclarationsOf(a) : \E p \in P : d = DeclaredAs(p)
    BY DEF InTheEnd, Facts, SaidOf
  <1>2. ASSUME NEW d \in DeclarationsOf(a), NEW x \in d.identities
        PROVE  \E i \in Held(x.name) : x.roles \subseteq i.roles
    <2>1. PICK p \in P : d = DeclaredAs(p)
      BY <1>1
    <2>2. x \in UsedIds(repo, p)
      BY <2>1, <1>2, DeclaredFields
    <2>3. x.name \in IdentityNames
      BY <1>1, <2>2, UsedAre DEF Identity
    <2>4. x \in SaidIds(repo, P, x.name)
      BY <2>2 DEF SaidIds
    <2>5. PICK i \in Range(a.ids) : vault[i].name = x.name /\ x.roles \subseteq vault[i].roles
      BY <1>1, <2>3, <2>4 DEF IdsKept
    <2> QED BY <2>5
  <1>3. ASSUME NEW n \in Referenced(a), n # Nothing, GloballyKnown(n) # {}
        PROVE  Held(n) # {}
    <2>1. KnownIn(repo, n) # {}
      BY <1>1, <1>3, KnownAre
    <2>2. PICK x \in Range(a.ids) : vault[x].name = n
      BY <1>3, <2>1 DEF LinkedIs, Referenced
    <2> QED BY <2>2
  <1>4. ASSUME NEW n \in IdentityNames, OneProvider(n), NEW i \in Held(n), NEW x \in GloballyKnown(n)
        PROVE  x.roles \subseteq i.roles
    <2>1. PICK j \in Range(a.ids) : i = vault[j] /\ vault[j].name = n
      OBVIOUS
    <2>2. PICK p : OneProviderIn(repo, n, p)
      BY <1>1, <1>4, KnownAre DEF OneProvider, OneProviderIn
    <2>3. x \in KnownIn(repo, n)
      BY <1>1, KnownAre
    <2> QED BY <2>1, <2>2, <2>3 DEF LinkedIs, Knows
  <1> QED BY <1>2, <1>3, <1>4 DEF IdentitiesKept

LEMMA ServersHold ==
  ASSUME NEW a, NEW P, NEW Q, InTheEnd(a, P, Q)
  PROVE  ServersKept(a)
  <1>1. /\ ServersAre(repo, a, P, Q) /\ ServersCover(repo, a, P) /\ SaidOf(a, P, Q)
    BY DEF InTheEnd, Facts
  <1>2. ASSUME NEW d \in DeclarationsOf(a), NEW s \in d.servers
        PROVE  \E t \in Range(a.servers) : t.name = s.name
    <2>1. PICK p \in P : d = DeclaredAs(p)
      BY <1>1 DEF SaidOf
    <2>2. s \in Range(Decl(repo, p).servers)
      BY <1>2, <2>1, DeclaredFields
    <2> QED BY <1>1, <2>2 DEF ServersCover
  <1>3. ASSUME NEW t \in Range(a.servers)
        PROVE  LET declaring == {d \in DeclarationsOf(a) : \E s \in d.servers : s.name = t.name} IN
               IF declaring = {} THEN \E r \in ResolutionsOf(a) : t \in Range(r.servers)
               ELSE \E d \in declaring : t \in d.servers /\ \A e \in declaring : d.file <= e.file
    <2> DEFINE declaring == {d \in DeclarationsOf(a) : \E s \in d.servers : s.name = t.name}
               serving == Serving(repo, P, t.name)
    <2>1. \A p \in serving : DeclaredAs(p) \in declaring
      BY <1>1, DeclaredFields DEF SaidOf, Serving
    <2>2. \A d \in declaring : \E p \in serving : d = DeclaredAs(p)
      <3> SUFFICES ASSUME NEW d \in declaring
                   PROVE  \E p \in serving : d = DeclaredAs(p)
        OBVIOUS
      <3>1. PICK p \in P : d = DeclaredAs(p)
        BY <1>1 DEF SaidOf
      <3>2. p \in serving
        BY <3>1, DeclaredFields DEF Serving
      <3> QED BY <3>1, <3>2
    <2>3. CASE serving = {}
      <3>1. PICK q \in Q : t \in Range(repo.resolved[q].servers)
        BY <1>1, <2>3 DEF ServersAre
      <3>2. repo.resolved[q] \in ResolutionsOf(a)
        BY <1>1 DEF SaidOf
      <3>3. declaring = {}
        <4> HIDE DEF declaring, serving
        <4> QED BY <2>2, <2>3
      <3> QED BY <3>1, <3>2, <3>3
    <2>4. CASE serving # {}
      <3>1. PICK p \in serving : /\ t \in Range(Decl(repo, p).servers)
                                 /\ \A e \in serving : p[1] <= e[1]
        BY <1>1, <2>4 DEF ServersAre
      <3> HIDE DEF declaring, serving
      <3>2. DeclaredAs(p) \in declaring /\ t \in DeclaredAs(p).servers
        BY <2>1, <3>1, DeclaredFields
      <3>3. \A e \in declaring : DeclaredAs(p).file <= e.file
        <4> SUFFICES ASSUME NEW e \in declaring
                     PROVE  DeclaredAs(p).file <= e.file
          OBVIOUS
        <4>1. PICK o \in serving : e = DeclaredAs(o)
          BY <2>2
        <4>2. DeclaredAs(p).file = p[1] /\ e.file = o[1]
          BY <4>1, DeclaredFields
        <4> QED BY <3>1, <4>2
      <3>4. declaring # {} /\ \E d \in declaring : t \in d.servers /\ \A e \in declaring : d.file <= e.file
        BY <3>2, <3>3
      <3> QED BY <3>4 DEF declaring
    <2> QED BY <2>3, <2>4
  <1> QED BY <1>2, <1>3 DEF ServersKept

LEMMA InputsHold ==
  ASSUME NEW a, NEW P, NEW Q, InTheEnd(a, P, Q)
  PROVE  InputsKept(a)
  <1> SUFFICES ASSUME NEW d \in DeclarationsOf(a)
               PROVE  d.inputs \subseteq a.inputs
    BY DEF InputsKept
  <1>1. PICK p \in P : d = DeclaredAs(p)
    BY DEF InTheEnd, SaidOf
  <1>2. Decl(repo, p).inputs \subseteq a.inputs
    BY DEF InTheEnd, Facts, InputsAre
  <1> QED BY <1>1, <1>2, DeclaredFields

\* The delegates of resolved agents came to an agent of their name.
ResolvedReached ==
  \A q \in 1..Len(repo.resolved) : \E n \in DOMAIN agents :
    agents[n].name = repo.resolved[q].name /\ repo.resolved[q].delegates \subseteq agents[n].delegates

LEMMA DelegatesHold ==
  ASSUME NEW a, NEW P, NEW Q, InTheEnd(a, P, Q), ResolvedReached,
         Q = MyResolved(repo, a, 1..Len(repo.resolved))
  PROVE  DelegatesKept(a)
  <1> DEFINE saying == {d \in DeclarationsOf(a) : d.delegates # {}}
             resolving == ResolutionsOf(a)
  <1>1. /\ SaidOf(a, P, Q) /\ DelegatesAre(repo, a, P, Q) /\ repo \in Repositories
        /\ P \subseteq Decls(repo, Len(repo.files))
    BY DEF InTheEnd, Facts
  <1>2. \A d \in saying : \E p \in Saying(repo, P) : d = DeclaredAs(p)
    <2> SUFFICES ASSUME NEW d \in saying
                 PROVE  \E p \in Saying(repo, P) : d = DeclaredAs(p)
      OBVIOUS
    <2>1. PICK p \in P : d = DeclaredAs(p)
      BY <1>1 DEF SaidOf
    <2>2. p \in Saying(repo, P)
      BY <2>1, DeclaredFields DEF Saying
    <2> QED BY <2>1, <2>2
  <1>3. \A p \in Saying(repo, P) : DeclaredAs(p) \in saying
    BY <1>1, DeclaredFields DEF SaidOf, Saying
  <1>4. ASSUME NEW d \in saying, \A e \in saying \ {d} : e.file < d.file
        PROVE  d.delegates \subseteq a.delegates
    <2>1. PICK p \in Saying(repo, P) : d = DeclaredAs(p)
      BY <1>2
    <2>2. PICK o \in Saying(repo, P) : /\ Decl(repo, o).delegates \subseteq a.delegates
                                       /\ \A e \in Saying(repo, P) : e[1] <= o[1]
      BY <1>1, <2>1 DEF DelegatesAre
    <2>3. p[1] \in Nat /\ o[1] \in Nat
      <3>1. p \in Decls(repo, Len(repo.files)) /\ o \in Decls(repo, Len(repo.files))
        BY <1>1 DEF Saying
      <3> QED BY <3>1 DEF Decls
    <2>4. DeclaredAs(o) \in saying /\ DeclaredAs(o).file = o[1] /\ d.file = p[1] /\ p[1] <= o[1]
      BY <1>3, <2>1, <2>2, DeclaredFields
    <2> HIDE DEF saying
    <2>5. DeclaredAs(o) = d
      BY <1>4, <2>3, <2>4
    <2> QED BY <2>2, <2>5, DeclaredFields
  <1>5. ASSUME NEW r \in resolving
        PROVE  \E b \in Range(agents) : b.name = a.name /\ r.delegates \subseteq b.delegates
    <2>1. PICK q \in Q : r = repo.resolved[q]
      BY <1>1 DEF SaidOf
    <2>2. q \in 1..Len(repo.resolved) /\ repo.resolved[q].name = a.name
      BY DEF MyResolved
    <2>3. PICK n \in DOMAIN agents : /\ agents[n].name = repo.resolved[q].name
                                     /\ repo.resolved[q].delegates \subseteq agents[n].delegates
      BY <2>2 DEF ResolvedReached
    <2> QED BY <2>1, <2>2, <2>3 DEF Range
  <1>6. a.delegates \subseteq UNION {d.delegates : d \in saying \cup resolving}
    <2> SUFFICES ASSUME NEW x \in a.delegates
                 PROVE  \E d \in saying \cup resolving : x \in d.delegates
      OBVIOUS
    <2>1. CASE \E p \in P : x \in Decl(repo, p).delegates
      <3>1. PICK p \in P : x \in Decl(repo, p).delegates
        BY <2>1
      <3>2. p \in Saying(repo, P)
        BY <3>1 DEF Saying
      <3>3. DeclaredAs(p) \in saying /\ x \in DeclaredAs(p).delegates
        BY <1>3, <3>1, <3>2, DeclaredFields
      <3> QED BY <3>3
    <2>2. CASE \E q \in Q : x \in repo.resolved[q].delegates
      BY <1>1, <2>2 DEF SaidOf
    <2> QED BY <1>1, <2>1, <2>2 DEF DelegatesAre
  <1> QED BY <1>4, <1>5, <1>6 DEF DelegatesKept

LEMMA LocationHolds ==
  ASSUME NEW a, NEW P, NEW Q, InTheEnd(a, P, Q)
  PROVE  LocatedInSource(a)
  <1> DEFINE sources == {d.file : d \in {x \in DeclarationsOf(a) : ~x.manifest}}
  <1>1. SaidOf(a, P, Q) /\ PlaceIs(repo, a, P)
    BY DEF InTheEnd, Facts
  <1>2. \A p \in InSource(repo, P) : p[1] \in sources
    <2> SUFFICES ASSUME NEW p \in InSource(repo, P)
                 PROVE  p[1] \in sources
      OBVIOUS
    <2>1. DeclaredAs(p) \in DeclarationsOf(a) /\ ~DeclaredAs(p).manifest /\ DeclaredAs(p).file = p[1]
      BY <1>1, DeclaredFields DEF SaidOf, InSource
    <2> QED BY <2>1
  <1>3. \A i \in sources : \E p \in InSource(repo, P) : i = p[1]
    <2> SUFFICES ASSUME NEW d \in DeclarationsOf(a), ~d.manifest
                 PROVE  \E p \in InSource(repo, P) : d.file = p[1]
      OBVIOUS
    <2>1. PICK p \in P : d = DeclaredAs(p)
      BY <1>1 DEF SaidOf
    <2>2. ~repo.files[p[1]].manifest /\ d.file = p[1]
      BY <2>1, DeclaredFields
    <2> QED BY <2>2 DEF InSource
  <1> HIDE DEF sources
  <1>4. sources # {} => a.file \in sources /\ \A i \in sources : a.file <= i
    BY <1>1, <1>2, <1>3 DEF PlaceIs
  <1> QED BY <1>4 DEF LocatedInSource, sources

LEMMA LimitsHold ==
  ASSUME NEW a, NEW P, NEW Q, InTheEnd(a, P, Q)
  PROVE  LimitsKept(a)
  <1>1. SaidOf(a, P, Q) /\ LimitsAre(repo, a, P)
    BY DEF InTheEnd, Facts
  <1> SUFFICES ASSUME NEW d \in DeclarationsOf(a), d.policy.limits # Nothing
               PROVE  \E e \in DeclarationsOf(a) : e.policy.limits # Nothing /\ a.policy = e.policy
    BY DEF LimitsKept
  <1>2. PICK p \in P : d = DeclaredAs(p)
    BY <1>1 DEF SaidOf
  <1>3. p \in Limiting(repo, P)
    BY <1>2, DeclaredFields DEF Limiting
  <1>4. PICK o \in Limiting(repo, P) : a.policy = Decl(repo, o).policy
    BY <1>1, <1>3 DEF LimitsAre
  <1>5. DeclaredAs(o) \in DeclarationsOf(a) /\ DeclaredAs(o).policy = Decl(repo, o).policy
    BY <1>1, DeclaredFields DEF SaidOf, Limiting
  <1> QED BY <1>4, <1>5 DEF Limiting

\* When the scan is done.
Done ==
  /\ repo \in Repositories /\ VaultIs(repo, vault)
  /\ AgentsAre(repo, agents, Decls(repo, Len(repo.files)), 1..Len(repo.resolved), heap, vault)
  /\ \A a \in Range(agents) : LinkedIs(repo, a, heap, vault)

\* The invariant when the scan is done.
LEMMA DoneIs ==
  ASSUME Inv, phase = "done"
  PROVE  Done
  <1>1. PICK pos : StateInv(repo, phase, files, resolved, todo, agents, heap, vault, globals, pos)
    BY DEF Inv
  <1>2. /\ repo \in Repositories /\ VaultIs(repo, vault) /\ agents \in Seq(Agent)
        /\ todo = <<>> /\ resolved = <<>>
        /\ AgentsAre(repo, agents \o todo, Decls(repo, Len(repo.files)),
                     1..(Len(repo.resolved) - Len(resolved)), heap, vault)
        /\ \A a \in Range(agents) : LinkedIs(repo, a, heap, vault)
    BY <1>1 DEF StateInv, PhaseInv
  <1>3. agents \o todo = agents
    BY <1>2, ConcatEmptySeq
  <1>4. Len(repo.resolved) - Len(resolved) = Len(repo.resolved)
    <2>1. Len(repo.resolved) \in Nat /\ Len(resolved) = 0
      BY <1>2, ScanIs
    <2> QED BY <2>1
  <1> QED BY <1>2, <1>3, <1>4 DEF Done

\* Every agent of a scan that is done is one in the end.
LEMMA EndIs ==
  ASSUME Done, NEW a \in Range(agents),
         NEW P, P = Mine(repo, a, Decls(repo, Len(repo.files))),
         NEW Q, Q = MyResolved(repo, a, 1..Len(repo.resolved))
  PROVE  InTheEnd(a, P, Q)
  <1>1. Facts(repo, a, P, Q, heap, vault)
    BY DEF Done, AgentsAre, AgentIs, Range
  <1>2. SaidOf(a, P, Q)
    BY SaidIs DEF Done
  <1> QED BY <1>1, <1>2 DEF InTheEnd, Done, Mine

\* Whatever files a scan finds, in whatever order, nothing of what FactsKept names is lost that
\* was declared of an agent, several tools of one name in a file included.
THEOREM FactsHold == SafetySpec => []FactsKept
  <1>1. Inv => FactsKept
    <2> SUFFICES ASSUME Inv, phase = "done", NEW a \in Range(agents)
                 PROVE  /\ ToolFactsKept(a) /\ IdentitiesKept(a) /\ ServersKept(a) /\ InputsKept(a)
                        /\ DelegatesKept(a) /\ LocatedInSource(a) /\ LimitsKept(a)
      BY DEF FactsKept
    <2> DEFINE P == Mine(repo, a, Decls(repo, Len(repo.files)))
               Q == MyResolved(repo, a, 1..Len(repo.resolved))
    <2>1. Done
      BY DoneIs
    <2>2. InTheEnd(a, P, Q)
      BY <2>1, EndIs
    <2>3. LinkedIs(repo, a, heap, vault) /\ ResolvedReached
      BY <2>1 DEF Done, AgentsAre, ResolvedReached
    <2>4. DelegatesKept(a)
      BY <2>2, <2>3, DelegatesHold
    <2> HIDE DEF P, Q
    <2> QED BY <2>2, <2>3, <2>4, ToolFactsHold, IdentitiesHold, ServersHold, InputsHold, LocationHolds,
               LimitsHold
  <1> QED BY <1>1, InvHolds, PTL

-----------------------------------------------------------------------------
(* Agents are not conflated                                                *)

\* Each part of NotConflated.
LEMMA NothingBorrowedHolds ==
  ASSUME NEW a, NEW P, NEW Q, InTheEnd(a, P, Q)
  PROVE  NothingBorrowed(a)
  <1> SUFFICES ASSUME NEW t \in Range(a.tools)
               PROVE  LET tool == heap[t]
                          sources == DeclaredTools(a, tool.name) \cup ResolvedTools(a, tool.name) IN
                      /\ tool.caps \subseteq UNION {x.caps : x \in sources}
                      /\ tool.guarded => \E x \in sources : x.guarded
                      /\ tool.approval # "unset" => \E x \in sources : x.approval = tool.approval
                      /\ tool.identity # Nothing => \E x \in sources : x.identity = tool.identity
    BY DEF NothingBorrowed, ToolsOf
  <1> DEFINE tool == heap[t]
             sources == DeclaredTools(a, tool.name) \cup ResolvedTools(a, tool.name)
  <1>1. /\ SaidOf(a, P, Q)
        /\ IF t[1] # 0 THEN DrawnFrom(tool, SaidTools(repo, P, tool.name))
           ELSE t[2] \in Q /\ tool \in Range(repo.resolved[t[2]].tools)
    BY DEF InTheEnd, Facts, ToolsAre
  <1>2. DrawnFrom(tool, sources)
    <2>1. CASE t[1] # 0
      <3>1. DrawnFrom(tool, DeclaredTools(a, tool.name))
        BY <1>1, <2>1, SaidToolsAre
      <3> QED BY <3>1, DrawnFromMore
    <2>2. CASE t[1] = 0
      <3>1. repo.resolved[t[2]] \in ResolutionsOf(a) /\ tool \in Range(repo.resolved[t[2]].tools)
        BY <1>1, <2>2 DEF SaidOf
      <3>2. tool \in ResolvedTools(a, tool.name)
        BY <3>1 DEF ResolvedTools
      <3> QED BY <3>2, DrawnFromItself
    <2> QED BY <2>1, <2>2
  <1> HIDE DEF tool, sources
  <1>3. /\ tool.caps \subseteq UNION {x.caps : x \in sources}
        /\ tool.guarded => \E x \in sources : x.guarded
        /\ tool.approval # "unset" => \E x \in sources : x.approval = tool.approval
        /\ tool.identity # Nothing => \E x \in sources : x.identity = tool.identity
    BY <1>2 DEF DrawnFrom
  <1> QED BY <1>3 DEF tool, sources

\* An identity that the graph does not know was declared for this agent alone.
LEMMA NoRoleBorrowedHolds ==
  ASSUME NEW a, NEW P, NEW Q, InTheEnd(a, P, Q), VaultIs(repo, vault)
  PROVE  NoRoleBorrowed(a)
  <1> SUFFICES ASSUME NEW i \in Range(a.ids)
               PROVE  LET n == vault[i].name
                          own == {x \in UNION {d.identities : d \in DeclarationsOf(a)} : x.name = n} IN
                      vault[i].roles \subseteq
                        UNION {x.roles : x \in IF GloballyKnown(n) = {} THEN own ELSE EverKnown(n)}
    BY DEF NoRoleBorrowed
  <1> DEFINE n == vault[i].name
             own == {x \in UNION {d.identities : d \in DeclarationsOf(a)} : x.name = n}
  <1>1. IdsAre(repo, a, P, vault) /\ repo \in Repositories /\ SaidOf(a, P, Q)
    BY DEF InTheEnd, Facts
  <1>2. i \in DOMAIN vault /\ GloballyKnown(n) = KnownIn(repo, n) /\ EverKnown(n) = EverIn(repo, n)
    BY <1>1, KnownAre DEF IdsAre
  <1>3. CASE GloballyKnown(n) # {}
    BY <1>2, <1>3 DEF VaultIs
  <1>4. CASE GloballyKnown(n) = {}
    <2>1. vault[i].roles \subseteq UNION {x.roles : x \in SaidIds(repo, P, n)}
      BY <1>1, <1>2, <1>4 DEF IdsAre
    <2>2. \A x \in SaidIds(repo, P, n) : x \in own
      <3> SUFFICES ASSUME NEW x \in SaidIds(repo, P, n)
                   PROVE  x \in own
        OBVIOUS
      <3>1. PICK p \in P : x \in UsedIds(repo, p) /\ x.name = n
        BY DEF SaidIds
      <3>2. DeclaredAs(p) \in DeclarationsOf(a) /\ x \in DeclaredAs(p).identities
        BY <1>1, <3>1, DeclaredFields DEF SaidOf
      <3> QED BY <3>1, <3>2
    <2> HIDE DEF n, own
    <2>3. vault[i].roles \subseteq UNION {x.roles : x \in own}
      BY <2>1, <2>2
    <2> QED BY <1>4, <2>3 DEF n, own
  <1> QED BY <1>3, <1>4

\* The name and instance of an agent or of a declaration.
KeyOf(x) == [name |-> x.name, instance |-> x.instance]

\* Keys are equal when both are.
LEMMA KeysAre ==
  ASSUME NEW x, NEW y
  PROVE  /\ KeyOf(x).name = x.name
         /\ KeyOf(x) = KeyOf(y) <=> SameKey(x, y)
  BY DEF KeyOf, SameKey

\* The keys of all declarations.
LEMMA KeyNames ==
  ASSUME NEW S
  PROVE  {k.name : k \in {KeyOf(x) : x \in S}} = {x.name : x \in S}
  <1>1. \A x \in S : KeyOf(x).name = x.name
    BY KeysAre
  <1>2. \A k \in {KeyOf(x) : x \in S} : \E x \in S : k.name = x.name
    BY <1>1
  <1> HIDE <1>1
  <1>3. \A x \in S : \E k \in {KeyOf(y) : y \in S} : k.name = x.name
    <2> TAKE x \in S
    <2>1. KeyOf(x) \in {KeyOf(y) : y \in S} /\ KeyOf(x).name = x.name
      BY KeysAre
    <2> QED BY <2>1
  <1> DEFINE K == {KeyOf(x) : x \in S}
  <1> HIDE DEF K
  <1>4. {k.name : k \in K} = {x.name : x \in S}
    BY <1>2, <1>3 DEF K
  <1> QED BY <1>4 DEF K

\* Agents with different keys are as many as their keys.
LEMMA KeysCounted ==
  ASSUME agents \in Seq(Agent),
         \A k, n \in DOMAIN agents : SameKey(agents[k], agents[n]) => k = n
  PROVE  Cardinality({KeyOf(a) : a \in Range(agents)}) = Len(agents)
  <1> DEFINE found == {KeyOf(a) : a \in Range(agents)}
             f == [n \in 1..Len(agents) |-> KeyOf(agents[n])]
  <1>1. Len(agents) \in Nat /\ DOMAIN agents = 1..Len(agents)
    BY RangeIs
  <1>2. \A n \in 1..Len(agents) : KeyOf(agents[n]) \in found
    BY <1>1 DEF Range
  <1>3. \A x \in found : \E n \in 1..Len(agents) : x = KeyOf(agents[n])
    BY <1>1 DEF Range
  <1>4. \A k, n \in 1..Len(agents) : KeyOf(agents[k]) = KeyOf(agents[n]) => k = n
    BY <1>1, KeysAre
  <1> HIDE DEF found
  <1>5. f \in Bijection(1..Len(agents), found)
    BY <1>2, <1>3, <1>4 DEF Bijection, Injection, Surjection, IsInjective
  <1>6. ExistsBijection(1..Len(agents), found)
    BY <1>5 DEF ExistsBijection
  <1>7. IsFiniteSet(1..Len(agents)) /\ Cardinality(1..Len(agents)) = Len(agents)
    BY <1>1, FS_Interval
  <1>8. Cardinality(found) = Len(agents)
    BY <1>6, <1>7, FS_Bijection
  <1> QED BY <1>8 DEF found

\* Every declared key has its agent, and others are of resolved names only.
LEMMA OneAgentPerKeyHolds ==
  ASSUME Done
  PROVE  OneAgentPerKey
  <1> DEFINE all == Decls(repo, Len(repo.files))
             R == 1..Len(repo.resolved)
             declarations == UNION {Range(f.agents) : f \in Range(repo.files)}
             declared == {KeyOf(d) : d \in declarations}
             found == {KeyOf(a) : a \in Range(agents)}
  <1>1. /\ repo \in Repositories /\ agents \in Seq(Agent)
        /\ \A n \in DOMAIN agents : AgentIs(repo, agents[n], all, R, heap, vault)
        /\ \A k, n \in DOMAIN agents : SameKey(agents[k], agents[n]) => k = n
        /\ \A p \in all : \E n \in DOMAIN agents : SameKey(Decl(repo, p), agents[n])
        /\ \A q \in R : \E n \in DOMAIN agents : agents[n].name = repo.resolved[q].name
    BY DEF Done, AgentsAre
  <1>2. /\ \A p \in all : Decl(repo, p) \in declarations
        /\ \A d \in declarations : \E p \in all : Decl(repo, p) = d
    <2>1. /\ \A p \in all : p[1] \in DOMAIN repo.files /\ Decl(repo, p) \in Range(repo.files[p[1]].agents)
          /\ \A i \in DOMAIN repo.files : \A d \in Range(repo.files[i].agents) :
               \E p \in all : p[1] = i /\ Decl(repo, p) = d
      BY <1>1, DeclsAre
    <2>2. /\ \A i \in DOMAIN repo.files : repo.files[i] \in Range(repo.files)
          /\ \A f \in Range(repo.files) : \E i \in DOMAIN repo.files : f = repo.files[i]
      BY DEF Range
    <2> HIDE DEF all
    <2>3. \A p \in all : Decl(repo, p) \in declarations
      BY <2>1, <2>2
    <2>4. \A d \in declarations : \E p \in all : Decl(repo, p) = d
      BY <2>1, <2>2
    <2> QED BY <2>3, <2>4
  <1>3. /\ \A a \in Range(agents) : AgentIs(repo, a, all, R, heap, vault)
        /\ \A n \in DOMAIN agents : agents[n] \in Range(agents)
    BY <1>1 DEF Range
  <1>4. /\ \A q \in R : repo.resolved[q] \in Range(repo.resolved)
        /\ \A r \in Range(repo.resolved) : \E q \in R : r = repo.resolved[q]
    <2>1. DOMAIN repo.resolved = R
      BY <1>1, ScanIs
    <2> QED BY <2>1 DEF Range
  <1> HIDE DEF all, R, declarations
  <1>5. Cardinality(found) = Len(agents)
    BY <1>1, KeysCounted
  <1>6. declared \subseteq found
    <2> SUFFICES ASSUME NEW d \in declarations
                 PROVE  \E a \in Range(agents) : KeyOf(d) = KeyOf(a)
      OBVIOUS
    <2>1. PICK p \in all : Decl(repo, p) = d
      BY <1>2
    <2>2. PICK n \in DOMAIN agents : SameKey(d, agents[n])
      BY <1>1, <2>1
    <2> QED BY <1>3, <2>2, KeysAre
  <1>7. ASSUME NEW a \in Range(agents), KeyOf(a) \notin declared
        PROVE  /\ \A d \in declarations : d.name # a.name
               /\ \E r \in Range(repo.resolved) : r.name = a.name
    <2>1. Mine(repo, a, all) = {}
      <3> SUFFICES ASSUME NEW p \in all, SameKey(Decl(repo, p), a)
                   PROVE  FALSE
        BY DEF Mine
      <3>1. KeyOf(Decl(repo, p)) = KeyOf(a)
        BY KeysAre
      <3> QED BY <1>2, <1>7, <3>1
    <2>2. (\A p \in all : Decl(repo, p).name # a.name) /\ MyResolved(repo, a, R) # {}
      BY <1>3, <2>1 DEF AgentIs
    <2>3. PICK q \in R : repo.resolved[q].name = a.name
      BY <2>2 DEF MyResolved
    <2> QED BY <1>2, <1>4, <2>2, <2>3
  <1>8. \A d \in declarations : \E a \in Range(agents) : a.name = d.name
    <2> SUFFICES ASSUME NEW d \in declarations
                 PROVE  \E a \in Range(agents) : a.name = d.name
      OBVIOUS
    <2>1. PICK p \in all : Decl(repo, p) = d
      BY <1>2
    <2>2. PICK n \in DOMAIN agents : SameKey(d, agents[n])
      BY <1>1, <2>1
    <2> QED BY <1>3, <2>2 DEF SameKey
  <1>9. \A r \in Range(repo.resolved) : \E a \in Range(agents) : a.name = r.name
    BY <1>1, <1>3, <1>4
  <1>10. {k.name : k \in found} = {a.name : a \in Range(agents)}
    BY KeyNames
  <1>11. {k.name : k \in declared} = {d.name : d \in declarations}
    BY KeyNames
  <1>12. \A a \in Range(agents) : \/ \E d \in declarations : d.name = a.name
                                  \/ \E r \in Range(repo.resolved) : r.name = a.name
    <2> SUFFICES ASSUME NEW a \in Range(agents), KeyOf(a) \in declared
                 PROVE  \E d \in declarations : d.name = a.name
      BY <1>7
    <2>1. PICK d \in declarations : KeyOf(a) = KeyOf(d)
      OBVIOUS
    <2> QED BY <2>1, KeysAre
  <1>13. {k.name : k \in found} = {k.name : k \in declared} \cup {r.name : r \in Range(repo.resolved)}
    <2>1. {a.name : a \in Range(agents)} =
          {d.name : d \in declarations} \cup {r.name : r \in Range(repo.resolved)}
      BY <1>8, <1>9, <1>12
    <2> HIDE DEF found, declared
    <2> QED BY <1>10, <1>11, <2>1, Zenon
  <1>14. \A k \in found \ declared : k.name \notin {d.name : d \in declared}
    <2> SUFFICES ASSUME NEW a \in Range(agents), KeyOf(a) \notin declared
                 PROVE  KeyOf(a).name \notin {d.name : d \in declared}
      OBVIOUS
    <2>1. KeyOf(a).name = a.name
      BY KeysAre
    <2>2. a.name \notin {d.name : d \in declarations}
      BY <1>7
    <2> HIDE DEF declared
    <2> QED BY <1>11, <2>1, <2>2, Zenon
  <1> HIDE <1>10, <1>11
  <1> QED BY <1>5, <1>6, <1>13, <1>14 DEF OneAgentPerKey, KeyOf, declarations

\* In the end there is one agent for every declared name and instance, and no agent has what was
\* declared or resolved for others only.
THEOREM NotConflatedHolds == SafetySpec => []NotConflated
  <1>1. Inv => NotConflated
    <2> SUFFICES ASSUME Inv, phase = "done"
                 PROVE  OneAgentPerKey /\ \A a \in Range(agents) : NothingBorrowed(a) /\ NoRoleBorrowed(a)
      BY DEF NotConflated
    <2>1. Done
      BY DoneIs
    <2>2. ASSUME NEW a \in Range(agents)
          PROVE  NothingBorrowed(a) /\ NoRoleBorrowed(a)
      <3>1. InTheEnd(a, Mine(repo, a, Decls(repo, Len(repo.files))),
                     MyResolved(repo, a, 1..Len(repo.resolved)))
        BY <2>1, EndIs
      <3> QED BY <2>1, <3>1, NothingBorrowedHolds, NoRoleBorrowedHolds DEF Done
    <2> QED BY <2>1, <2>2, OneAgentPerKeyHolds
  <1> QED BY <1>1, InvHolds, PTL
===============================================================================
