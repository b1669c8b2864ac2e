----------------------------- MODULE FanoutProofs -----------------------------
(***************************************************************************)
(* What parallel branches spend together, for any number of branches, any  *)
(* concurrency, budget and number of resumes, with and without fail_fast.  *)
(* absorb_parallel adds up the branches' usage; the first part shows that  *)
(* the sum behaves as one: it exists, a branch's call adds one to it, and  *)
(* a bound on each branch bounds it.  No induction over sets is assumed:   *)
(* a smallest set for which a claim fails is taken and refuted.            *)
(***************************************************************************)
EXTENDS Fanout, FiniteSetTheorems, WellFoundedInduction, TLAPS

\* The element MapThenSumSet takes first.
Pick(s) == CHOOSE x \in s : TRUE

\* h adds up f over every subset of S.
Adds(h, f, S) ==
    h = [s \in SUBSET S |-> IF s = {} THEN 0 ELSE f[Pick(s)] + h[s \ {Pick(s)}]]

Total(f, S) == (CHOOSE h : Adds(h, f, S))[S]

\* Among sets of subsets of a finite set some set is smallest.
LEMMA Smallest ==
    ASSUME NEW S, IsFiniteSet(S), NEW T, T \subseteq SUBSET S, T # {}
    PROVE  \E s \in T : \A r \in SUBSET s : r # s => r \notin T
<1>1. IsWellFoundedOn(StrictSubsetOrdering(S), SUBSET S)
  BY FS_StrictSubsetOrderingWellFounded, FS_FiniteSubsetsOfFinite
<1>2. PICK s \in T : \A r \in T : <<r, s>> \notin StrictSubsetOrdering(S)
  BY <1>1, WFMin
<1> QED BY <1>2 DEF StrictSubsetOrdering

\* What is left without the element taken first is a smaller set.
LEMMA PickTaken ==
    ASSUME NEW s, s # {}
    PROVE  Pick(s) \in s /\ s \ {Pick(s)} \in SUBSET s /\ s \ {Pick(s)} # s
  BY DEF Pick

\* The value of a sum at one subset.
LEMMA AddsAt ==
    ASSUME NEW h, NEW f, NEW S, Adds(h, f, S), NEW s \in SUBSET S
    PROVE  h[s] = IF s = {} THEN 0 ELSE f[Pick(s)] + h[s \ {Pick(s)}]
<1>1. h = [r \in SUBSET S |-> IF r = {} THEN 0 ELSE f[Pick(r)] + h[r \ {Pick(r)}]]
  BY DEF Adds
<1> QED BY <1>1

\* Two sums of the same values agree where both are defined.
LEMMA AddsAlike ==
    ASSUME NEW f, NEW A, NEW B, NEW g, NEW h, Adds(g, f, A), Adds(h, f, B),
           NEW S, IsFiniteSet(S), S \subseteq A, S \subseteq B
    PROVE  g[S] = h[S]
<1> DEFINE T == {s \in SUBSET S : g[s] # h[s]}
<1> SUFFICES ASSUME T # {} PROVE FALSE
  OBVIOUS
<1>1. PICK s \in T : \A r \in SUBSET s : r # s => r \notin T
  <2>1. T \subseteq SUBSET S
    OBVIOUS
  <2> HIDE DEF T
  <2> QED BY <2>1, Smallest
<1>2. /\ g[s] = IF s = {} THEN 0 ELSE f[Pick(s)] + g[s \ {Pick(s)}]
      /\ h[s] = IF s = {} THEN 0 ELSE f[Pick(s)] + h[s \ {Pick(s)}]
  <2>1. s \in SUBSET A /\ s \in SUBSET B
    BY <1>1
  <2> HIDE DEF T
  <2>2. g[s] = IF s = {} THEN 0 ELSE f[Pick(s)] + g[s \ {Pick(s)}]
    BY ONLY Adds(g, f, A), <2>1, AddsAt
  <2>3. h[s] = IF s = {} THEN 0 ELSE f[Pick(s)] + h[s \ {Pick(s)}]
    BY ONLY Adds(h, f, B), <2>1, AddsAt
  <2> QED BY <2>2, <2>3
<1>3. s # {}
  BY <1>1, <1>2
<1>4. g[s \ {Pick(s)}] = h[s \ {Pick(s)}]
  BY <1>1, <1>3, PickTaken
<1> QED BY <1>1, <1>2, <1>4

\* Every finite set has a sum.
LEMMA AddsExists ==
    ASSUME NEW S, IsFiniteSet(S), NEW f
    PROVE  \E h : Adds(h, f, S)
<1> DEFINE T == {s \in SUBSET S : ~ \E h : Adds(h, f, s)}
<1> SUFFICES ASSUME T # {} PROVE FALSE
  OBVIOUS
<1>1. PICK s \in T : \A r \in SUBSET s : r # s => r \notin T
  <2>1. T \subseteq SUBSET S
    OBVIOUS
  <2> HIDE DEF T
  <2> QED BY <2>1, Smallest
<1> DEFINE H(r) == CHOOSE h : Adds(h, f, r)
           E(r) == IF r = {} THEN 0 ELSE f[Pick(r)] + H(r \ {Pick(r)})[r \ {Pick(r)}]
           g == [r \in SUBSET s |-> E(r)]
<1>2. ASSUME NEW r \in SUBSET s, r # s PROVE Adds(H(r), f, r) /\ IsFiniteSet(r)
  <2>1. \E h : Adds(h, f, r)
    BY <1>1, <1>2
  <2>2. Adds(H(r), f, r)
    BY <2>1
  <2> QED BY <1>1, <2>2, FS_Subset
<1>3. ASSUME NEW r \in SUBSET s, r # s PROVE H(r)[r] = E(r)
  <2>1. H(r)[r] = IF r = {} THEN 0 ELSE f[Pick(r)] + H(r)[r \ {Pick(r)}]
    <3>1. Adds(H(r), f, r) /\ r \in SUBSET r
      BY <1>2, <1>3
    <3> HIDE DEF H
    <3> QED BY <3>1, AddsAt
  <2>2. CASE r = {}
    BY <2>1, <2>2
  <2>3. CASE r # {}
    <3> DEFINE q == r \ {Pick(r)}
    <3>1. q \in SUBSET r /\ q \in SUBSET s /\ q # s
      BY <2>3, PickTaken
    <3>2. Adds(H(r), f, r) /\ Adds(H(q), f, q) /\ IsFiniteSet(q)
      BY <1>2, <1>3, <3>1
    <3>3. H(r)[q] = H(q)[q]
      BY <3>1, <3>2, AddsAlike
    <3> QED BY <2>1, <2>3, <3>3
  <2> QED BY <2>2, <2>3
<1>4. Adds(g, f, s)
  <2> DEFINE F(r) == IF r = {} THEN 0 ELSE f[Pick(r)] + g[r \ {Pick(r)}]
  <2>1. ASSUME NEW r \in SUBSET s, r # {}
        PROVE  r \ {Pick(r)} \in SUBSET s /\ r \ {Pick(r)} # s
    BY <2>1, PickTaken
  <2>2. \A r \in SUBSET s : r # {} => g[r \ {Pick(r)}] = H(r \ {Pick(r)})[r \ {Pick(r)}]
    BY <1>3, <2>1
  <2>3. \A r \in SUBSET s : E(r) = F(r)
    <3> HIDE DEF g, H
    <3> QED BY <2>2
  <2>4. g = [r \in SUBSET s |-> F(r)]
    <3> HIDE DEF E, F
    <3> QED BY <2>3
  <2> QED BY <2>4 DEF Adds
<1> QED BY <1>1, <1>4

\* A sum is that of the set without one element, and the element's value.
LEMMA TotalAt ==
    ASSUME NEW S, IsFiniteSet(S), NEW f
    PROVE  /\ S = {} => Total(f, S) = 0
           /\ S # {} => Total(f, S) = f[Pick(S)] + Total(f, S \ {Pick(S)})
<1> DEFINE H(r) == CHOOSE h : Adds(h, f, r)
           q == S \ {Pick(S)}
<1>1. Adds(H(S), f, S) /\ Adds(H(q), f, q) /\ IsFiniteSet(q)
  <2>1. IsFiniteSet(q) /\ (\E h : Adds(h, f, S)) /\ \E h : Adds(h, f, q)
    BY FS_Subset, AddsExists
  <2> QED BY <2>1
<1>2. Total(f, S) = H(S)[S] /\ Total(f, q) = H(q)[q]
  BY DEF Total
<1> HIDE DEF H
<1>3. H(S)[S] = IF S = {} THEN 0 ELSE f[Pick(S)] + H(S)[S \ {Pick(S)}]
  BY <1>1, AddsAt
<1>4. H(S)[q] = H(q)[q]
  BY <1>1, AddsAlike
<1> QED BY <1>2, <1>3, <1>4

\* A sum of integers is an integer.
LEMMA TotalType ==
    ASSUME NEW S, IsFiniteSet(S), NEW f, \A x \in S : f[x] \in Int
    PROVE  Total(f, S) \in Int
<1> DEFINE T == {s \in SUBSET S : Total(f, s) \notin Int}
<1> SUFFICES ASSUME T # {} PROVE FALSE
  BY DEF T
<1>1. PICK s \in T : \A r \in SUBSET s : r # s => r \notin T
  <2>1. T \subseteq SUBSET S
    OBVIOUS
  <2> HIDE DEF T
  <2> QED BY <2>1, Smallest
<1>2. IsFiniteSet(s) /\ s \subseteq S /\ Total(f, s) \notin Int
  BY <1>1, FS_Subset
<1>3. /\ s = {} => Total(f, s) = 0
      /\ s # {} => Total(f, s) = f[Pick(s)] + Total(f, s \ {Pick(s)})
  BY <1>2, TotalAt
<1>4. s # {} => Total(f, s \ {Pick(s)}) \in Int /\ f[Pick(s)] \in Int
  BY <1>1, <1>2, PickTaken
<1> HIDE DEF T
<1> QED BY <1>2, <1>3, <1>4

\* A sum depends on the values it adds and on no others.
LEMMA TotalSame ==
    ASSUME NEW S, IsFiniteSet(S), NEW f, NEW g, \A x \in S : f[x] = g[x]
    PROVE  Total(f, S) = Total(g, S)
<1> DEFINE T == {s \in SUBSET S : Total(f, s) # Total(g, s)}
<1> SUFFICES ASSUME T # {} PROVE FALSE
  BY DEF T
<1>1. PICK s \in T : \A r \in SUBSET s : r # s => r \notin T
  <2>1. T \subseteq SUBSET S
    OBVIOUS
  <2> HIDE DEF T
  <2> QED BY <2>1, Smallest
<1>2. IsFiniteSet(s) /\ s \subseteq S /\ Total(f, s) # Total(g, s)
  BY <1>1, FS_Subset
<1>3. s # {}
  BY <1>2, TotalAt
<1>4. Total(f, s \ {Pick(s)}) = Total(g, s \ {Pick(s)}) /\ f[Pick(s)] = g[Pick(s)]
  BY <1>1, <1>2, <1>3, PickTaken
<1> QED BY <1>2, <1>3, <1>4, TotalAt

\* One more at one place is one more in all.
LEMMA TotalCounts ==
    ASSUME NEW S, IsFiniteSet(S), NEW f, NEW g, \A x \in S : f[x] \in Int,
           NEW b \in S, g[b] = f[b] + 1, \A x \in S \ {b} : g[x] = f[x]
    PROVE  Total(g, S) = Total(f, S) + 1
<1> DEFINE T == {s \in SUBSET S : b \in s /\ Total(g, s) # Total(f, s) + 1}
<1> SUFFICES ASSUME T # {} PROVE FALSE
  BY DEF T
<1>1. PICK s \in T : \A r \in SUBSET s : r # s => r \notin T
  <2>1. T \subseteq SUBSET S
    OBVIOUS
  <2> HIDE DEF T
  <2> QED BY <2>1, Smallest
<1>2. IsFiniteSet(s) /\ s \subseteq S /\ b \in s /\ Total(g, s) # Total(f, s) + 1
  BY <1>1, FS_Subset
<1> DEFINE p == Pick(s)
           q == s \ {p}
<1>3. p \in s /\ q \in SUBSET s /\ q # s /\ IsFiniteSet(q)
  BY <1>2, PickTaken, FS_Subset
<1>4. Total(f, s) = f[p] + Total(f, q) /\ Total(g, s) = g[p] + Total(g, q)
  BY <1>2, TotalAt
<1>5. Total(f, q) \in Int /\ f[p] \in Int
  BY <1>2, <1>3, TotalType
<1>6. CASE p = b
  <2>1. Total(g, q) = Total(f, q)
    BY <1>2, <1>3, <1>6, TotalSame
  <2> QED BY <1>2, <1>4, <1>5, <1>6, <2>1
<1>7. CASE p # b
  <2>1. Total(g, q) = Total(f, q) + 1
    BY <1>1, <1>2, <1>3, <1>7
  <2> QED BY <1>2, <1>3, <1>4, <1>5, <1>7, <2>1
<1> QED BY <1>6, <1>7

\* So many summands, each within a bound.
LEMMA TotalBound ==
    ASSUME NEW S, IsFiniteSet(S), NEW A, NEW M \in Nat, NEW f,
           \A x \in S : f[x] \in 0..M /\ (x \in A => f[x] = 0)
    PROVE  Total(f, S) \in 0..(Cardinality(S \ A) * M)
<1> DEFINE C(s) == Cardinality(s \ A)
           T == {s \in SUBSET S : Total(f, s) \notin 0..(C(s) * M)}
<1> SUFFICES ASSUME T # {} PROVE FALSE
  BY DEF T
<1>1. PICK s \in T : \A r \in SUBSET s : r # s => r \notin T
  <2>1. T \subseteq SUBSET S
    OBVIOUS
  <2> HIDE DEF T
  <2> QED BY <2>1, Smallest
<1> DEFINE p == Pick(s)
           q == s \ {p}
<1>2. IsFiniteSet(s) /\ s \subseteq S /\ Total(f, s) \notin 0..(C(s) * M)
  BY <1>1, FS_Subset
<1>3. C(s) \in Nat /\ C(q) \in Nat /\ IsFiniteSet(q)
  BY <1>2, FS_Subset, FS_CardinalityType
<1>4. s # {}
  <2>1. C(s) * M \in Nat
    BY <1>3
  <2> HIDE DEF C
  <2>2. s = {} => Total(f, s) = 0
    BY <1>2, TotalAt
  <2> QED BY <1>2, <2>1, <2>2
<1>5. p \in s /\ q \in SUBSET s /\ q # s
  BY <1>4, PickTaken
<1>6. Total(f, s) = f[p] + Total(f, q) /\ Total(f, q) \in 0..(C(q) * M)
  BY <1>1, <1>2, <1>4, <1>5, TotalAt
<1>7. f[p] \in 0..M /\ (p \in A => f[p] = 0)
  BY <1>2, <1>5
<1>8. CASE p \in A
  <2>1. s \ A = q \ A
    BY <1>8
  <2>2. C(s) = C(q)
    BY <2>1
  <2> HIDE DEF C, T, p, q
  <2>3. C(q) * M \in Nat
    BY <1>3
  <2> QED BY <1>2, <1>6, <1>7, <1>8, <2>2, <2>3
<1>9. CASE p \notin A
  <2>1. q \ A = (s \ A) \ {p} /\ p \in s \ A /\ IsFiniteSet(s \ A)
    BY <1>2, <1>5, <1>9, FS_Subset
  <2>2. C(q) = C(s) - 1
    <3> DEFINE u == s \ A
               v == q \ A
    <3>1. v = u \ {p} /\ p \in u /\ IsFiniteSet(u)
      BY <2>1
    <3> HIDE DEF u, v
    <3>2. Cardinality(v) = Cardinality(u) - 1
      BY <3>1, FS_RemoveElement
    <3> USE DEF u, v
    <3> HIDE DEF T, p, q
    <3> QED BY <3>2
  <2>3. C(s) * M = C(q) * M + M /\ C(q) * M \in Nat
    <3> HIDE DEF C, T, p, q
    <3>1. C(s) = C(q) + 1
      BY <1>3, <2>2
    <3> QED BY <1>3, <3>1
  <2> HIDE DEF C, T, p, q
  <2> QED BY <1>2, <1>6, <1>7, <2>3
<1> QED BY <1>8, <1>9

\* Nothing adds up to nothing.
LEMMA TotalNone ==
    ASSUME NEW S, IsFiniteSet(S), NEW f, \A x \in S : f[x] = 0
    PROVE  Total(f, S) = 0
<1>1. Total(f, S) \in 0..(Cardinality(S \ S) * 0)
  <2>1. \A x \in S : f[x] \in 0..0 /\ (x \in S => f[x] = 0)
    OBVIOUS
  <2> QED BY <2>1, TotalBound
<1>2. Cardinality(S \ S) * 0 = 0
  <2>1. S \ S = {}
    OBVIOUS
  <2> QED BY <2>1, FS_EmptySet
<1> QED BY <1>1, <1>2

-----------------------------------------------------------------------------
\* The larger of two numbers.
LEMMA Larger ==
    ASSUME NEW a \in Int, NEW b \in Int
    PROVE  Max({a, b}) = IF a >= b THEN a ELSE b
<1>1. CASE a >= b
  BY <1>1 DEF Max
<1>2. CASE ~(a >= b)
  BY <1>2 DEF Max
<1> QED BY <1>1, <1>2

\* What each branch used in this run of the node.
Used == [b \in Branches |-> IF branch[b] = "waiting" THEN 0 ELSE child[b] - context]

\* What all branches may use in one run of it.
Allowance == Cardinality(Branches \ approvals) * Left

\* absorb_parallel adds what the branches used.
LEMMA AbsorbedAdds ==
    Absorbed = context + Total([b \in Branches |-> child[b] - context], Branches)
<1> DEFINE f == [b \in Branches |-> child[b] - context]
           E(h, s) == IF s = {} THEN 0
                      ELSE LET x == CHOOSE x \in s : TRUE
                           IN  (child[x] - context) + h[s \ {x}]
           F(h, s) == IF s = {} THEN 0 ELSE f[Pick(s)] + h[s \ {Pick(s)}]
           H == CHOOSE h : h = [s \in SUBSET Branches |-> E(h, s)]
           G == CHOOSE h : Adds(h, f, Branches)
<1>1. Absorbed = context + H[Branches]
  BY DEF Absorbed, MapThenSumSet, MapThenFoldSet
<1>2. \A h : \A s \in SUBSET Branches : E(h, s) = F(h, s)
  BY PickTaken DEF Pick
<1>3. \A h : h = [s \in SUBSET Branches |-> E(h, s)] <=> h = [s \in SUBSET Branches |-> F(h, s)]
  <2> HIDE DEF E, F
  <2> QED BY <1>2
<1>4. \A h : h = [s \in SUBSET Branches |-> E(h, s)] <=> Adds(h, f, Branches)
  BY <1>3 DEF Adds
<1>5. \E h : Adds(h, f, Branches)
  BY FanoutAssumption, AddsExists
<1>6. Adds(H, f, Branches) /\ Adds(G, f, Branches)
  <2> HIDE DEF E, f
  <2> QED BY <1>4, <1>5
<1>7. H[Branches] = G[Branches]
  <2> HIDE DEF H, G, f
  <2> QED BY <1>6, FanoutAssumption, AddsAlike
<1> QED BY <1>1, <1>7 DEF Total

Typed == TypeOK /\ before \in Nat /\ approvals \subseteq Branches

\* No branch used more than was left, an approval nothing, and nothing is
\* restored that is older than the node.
Spending ==
    /\ before <= saved
    /\ status # "running" => context = saved /\ \A b \in Branches : branch[b] # "running"
    /\ status = "running" =>
          /\ before <= context
          /\ \A b \in Branches : Used[b] \in 0..Left /\ (b \in approvals => Used[b] = 0)
          /\ made <= before + resumes * Allowance + Total(Used, Branches)
    /\ status = "created" => made = before /\ resumes = 0
    /\ status \notin {"created", "running"} => made <= before + (resumes + 1) * Allowance

\* In a first run every call is with the branches, or was absorbed.
Counting ==
    resumes = 0 =>
        /\ status = "created" => saved = made
        /\ status = "running" => made = context + Total(Used, Branches)
        /\ status = "completed" => saved = made

Inv == Typed /\ Spending /\ Counting

\* What is left, and what all branches may use, are numbers that stay.
LEMMA LeftFacts ==
    Typed => /\ Left \in Nat /\ Left >= MaxModelCalls - before
             /\ Allowance \in Nat
<1> SUFFICES ASSUME Typed PROVE Left \in Nat /\ Left >= MaxModelCalls - before /\ Allowance \in Nat
  OBVIOUS
<1>1. Left = IF 0 >= MaxModelCalls - before THEN 0 ELSE MaxModelCalls - before
  BY FanoutAssumption, Larger DEF Left, Typed
<1>2. Left \in Nat /\ Left >= MaxModelCalls - before
  BY <1>1, FanoutAssumption DEF Typed
<1>3. Cardinality(Branches \ approvals) \in Nat
  BY FanoutAssumption, FS_Subset, FS_CardinalityType
<1> QED BY <1>2, <1>3 DEF Allowance

\* What the branches used, together, is within what they may use.
LEMMA UsedTotal ==
    ASSUME Typed, \A b \in Branches : Used[b] \in 0..Left /\ (b \in approvals => Used[b] = 0)
    PROVE  Total(Used, Branches) \in Nat /\ Total(Used, Branches) <= Allowance
<1>1. Total(Used, Branches) \in 0..Allowance
  BY FanoutAssumption, LeftFacts, TotalBound DEF Allowance
<1> QED BY <1>1, LeftFacts

\* A branch that is not about to start is counted as absorb_parallel counts it.
LEMMA AbsorbedUsed ==
    ASSUME Settled = Branches PROVE Absorbed = context + Total(Used, Branches)
<1>1. \A b \in Branches : Used[b] = [c \in Branches |-> child[c] - context][b]
  BY DEF Used, Settled
<1> QED BY <1>1, FanoutAssumption, TotalSame, AbsorbedAdds

\* A policy and a checkpoint to begin with.
LEMMA InitInv == Init => Inv
<1> SUFFICES ASSUME Init PROVE Inv
  OBVIOUS
<1>1. Typed
  <2>1. before \in Nat /\ context = before
    BY FanoutAssumption DEF Init
  <2>2. Max({MaxModelCalls, context}) \in Nat
    BY <2>1, FanoutAssumption, Larger
  <2> QED BY <2>1, <2>2, FanoutAssumption DEF Init, Typed, TypeOK
<1> QED BY <1>1 DEF Init, Inv, Typed, Spending, Counting

\* The steps that end a run of the node.
LEMMA EndsWithin ==
    ASSUME Inv, status = "running", UNCHANGED <<fixed, made, resumes>>,
           status' \in {"completed", "failed", "timed_out"}, saved' = context',
           context' = context \/ context' = context + Total(Used, Branches),
           \A b \in Branches : branch'[b] # "running",
           status' = "completed" => context' = context + Total(Used, Branches),
           Typed'
    PROVE  Inv'
<1>1. /\ Total(Used, Branches) \in Nat /\ Total(Used, Branches) <= Allowance
      /\ Allowance \in Nat /\ Allowance' = Allowance /\ before' = before
  BY UsedTotal, LeftFacts DEF Inv, Spending, Allowance, Left, fixed
<1>2. /\ made <= before + resumes * Allowance + Total(Used, Branches) /\ before <= context
      /\ made \in Nat /\ before \in Nat /\ context \in Nat /\ resumes \in Nat
  BY FanoutAssumption DEF Inv, Spending, Typed, TypeOK
<1>3. (resumes + 1) * Allowance = resumes * Allowance + Allowance /\ resumes * Allowance \in Nat
  <2> HIDE DEF Allowance
  <2> QED BY <1>1, <1>2
<1>4. Spending'
  <2>1. made <= before + (resumes + 1) * Allowance
    BY <1>1, <1>2, <1>3
  <2>2. before <= context'
    BY <1>1, <1>2
  <2> QED BY <1>1, <2>1, <2>2 DEF Spending
<1>5. Counting'
  BY DEF Inv, Counting
<1> QED BY <1>4, <1>5 DEF Inv

\* A branch's counter is within the budget, or where the node's context is.
Ceiling(c) == IF MaxModelCalls >= c THEN MaxModelCalls ELSE c

\* TypeOK's bound of the counters, written out.
LEMMA CeilingIs == ASSUME NEW c \in Nat PROVE Ceiling(c) = Max({MaxModelCalls, c})
  BY FanoutAssumption, Larger DEF Ceiling

\* The types hold where the counters stay within the budget or the context.
LEMMA TypedAgain ==
    ASSUME Typed, UNCHANGED fixed, resumes' \in 0..MaxResumes,
           status' \in {"created", "running", "completed", "failed", "timed_out"},
           saved' \in Nat, context' \in Nat, made' \in Nat,
           branch' \in [Branches -> {"waiting", "running", "succeeded", "unsuccessful",
                                     "raised", "paused", "cancelled"}],
           child' \in [Branches -> 0..Ceiling(context')]
    PROVE  Typed'
<1>1. Ceiling(context') = Max({MaxModelCalls, context'})
  BY CeilingIs
<1> QED BY <1>1 DEF Typed, TypeOK, fixed

\* Every step that keeps what the branches used keeps the invariant, while the
\* node runs.
LEMMA UsageStays ==
    ASSUME Inv, status = "running", UNCHANGED <<fixed, status, saved, context, made, resumes>>,
           \A b \in Branches : Used'[b] = Used[b], Typed'
    PROVE  Inv'
<1>1. Total(Used', Branches) = Total(Used, Branches)
  BY FanoutAssumption, TotalSame
<1>2. Allowance' = Allowance /\ Left' = Left
  BY DEF Allowance, Left, fixed
<1>3. Spending'
  BY <1>1, <1>2 DEF Inv, Spending, fixed
<1>4. Counting'
  BY <1>1 DEF Inv, Counting
<1> QED BY <1>3, <1>4 DEF Inv

\* A run of the node begins with nothing used.
LEMMA BeginInv == ASSUME Inv, Begin PROVE Inv'
<1>1. /\ UNCHANGED <<fixed, saved, child, made>> /\ status' = "running" /\ context' = saved
      /\ branch' = [b \in Branches |-> "waiting"]
      /\ \/ status = "created" /\ resumes' = resumes
         \/ status = "failed" /\ resumes < MaxResumes /\ resumes' = resumes + 1
  BY DEF Begin
<1>2. context' = context /\ context \in Nat
  BY <1>1 DEF Inv, Spending, Typed, TypeOK
<1>3. Typed'
  BY <1>1, <1>2, CeilingIs, TypedAgain, FanoutAssumption DEF Inv, Typed, TypeOK
<1>4. \A b \in Branches : Used'[b] = 0
  BY <1>1 DEF Used
<1>5. Total(Used', Branches) = 0
  BY <1>4, FanoutAssumption, TotalNone
<1>6. Allowance' = Allowance /\ Left' = Left /\ Allowance \in Nat /\ Left \in Nat
  BY <1>1, LeftFacts DEF Inv, Allowance, Left, fixed
<1>7. made <= before + resumes' * Allowance
  BY <1>1, <1>6 DEF Inv, Spending, Typed, TypeOK
<1>8. Spending'
  BY <1>1, <1>2, <1>4, <1>5, <1>6, <1>7 DEF Inv, Spending, Typed, TypeOK, fixed
<1>9. Counting'
  BY <1>1, <1>2, <1>5 DEF Inv, Counting, Typed, TypeOK
<1> QED BY <1>3, <1>8, <1>9 DEF Inv

\* A branch starts where the node's context is.
LEMMA StartInv == ASSUME Inv, NEW b \in Branches, StartBranch(b) PROVE Inv'
<1>1. /\ status = "running" /\ branch[b] = "waiting"
      /\ branch' = [branch EXCEPT ![b] = "running"] /\ child' = [child EXCEPT ![b] = context]
      /\ UNCHANGED <<fixed, status, saved, context, made, resumes>>
  BY DEF StartBranch
<1>2. context \in Nat /\ child \in [Branches -> 0..Ceiling(context)] /\ context \in 0..Ceiling(context)
  BY CeilingIs, FanoutAssumption DEF Inv, Typed, TypeOK, Ceiling
<1>3. Typed'
  BY <1>1, <1>2, TypedAgain DEF Inv, Typed, TypeOK
<1>4. \A c \in Branches : Used'[c] = Used[c]
  BY <1>1, <1>2 DEF Used, Inv, Typed, TypeOK
<1> QED BY <1>1, <1>3, <1>4, UsageStays

\* A branch that makes a model call used one more, and the budget was not spent.
LEMMA CallInv == ASSUME Inv, NEW b \in Branches, CallModel(b) PROVE Inv'
<1>1. /\ branch[b] = "running" /\ b \notin approvals /\ child[b] < MaxModelCalls
      /\ child' = [child EXCEPT ![b] = @ + 1] /\ made' = made + 1
      /\ UNCHANGED <<fixed, status, saved, context, branch, resumes>>
  BY DEF CallModel, WithinBudget
<1>2. status = "running" /\ context \in Nat /\ child[b] \in Nat /\ child \in [Branches -> 0..Ceiling(context)]
  BY <1>1, CeilingIs DEF Inv, Spending, Typed, TypeOK
<1>3. Typed'
  <2>1. child' \in [Branches -> 0..Ceiling(context')]
    BY <1>1, <1>2, FanoutAssumption DEF Ceiling
  <2> QED BY <1>1, <2>1, TypedAgain DEF Inv, Typed, TypeOK
<1>4. /\ Used'[b] = Used[b] + 1 /\ \A c \in Branches \ {b} : Used'[c] = Used[c]
      /\ \A c \in Branches : Used[c] \in Int
  BY <1>1, <1>2 DEF Used
<1>5. Total(Used', Branches) = Total(Used, Branches) + 1 /\ Total(Used, Branches) \in Nat
  BY <1>2, <1>4, FanoutAssumption, TotalCounts, UsedTotal DEF Inv, Spending
<1>6. Used'[b] <= Left
  <2>1. Used'[b] = child[b] + 1 - context
    BY <1>1, <1>2 DEF Used
  <2>2. before \in Nat /\ before <= context /\ Left \in Nat /\ Left >= MaxModelCalls - before
    BY <1>2, LeftFacts DEF Inv, Spending, Typed
  <2> QED BY <1>1, <1>2, <2>1, <2>2, FanoutAssumption
<1>7. Allowance' = Allowance /\ Left' = Left /\ Allowance \in Nat /\ Left \in Nat
  BY <1>1, LeftFacts DEF Inv, Allowance, Left, fixed
<1>8. resumes * Allowance \in Nat /\ made \in Nat /\ before \in Nat
  <2>1. resumes \in Nat /\ made \in Nat /\ before \in Nat
    BY FanoutAssumption DEF Inv, Typed, TypeOK
  <2> HIDE DEF Allowance
  <2> QED BY <1>7, <2>1
<1>9. made' <= before + resumes * Allowance + Total(Used', Branches)
  BY <1>1, <1>2, <1>5, <1>8 DEF Inv, Spending
<1>10. \A c \in Branches : Used'[c] \in 0..Left /\ (c \in approvals => Used'[c] = 0)
  BY <1>1, <1>2, <1>4, <1>6, <1>7 DEF Inv, Spending
<1>11. Spending'
  BY <1>1, <1>2, <1>7, <1>9, <1>10 DEF Inv, Spending, fixed
<1>12. Counting'
  BY <1>1, <1>2, <1>5, <1>8 DEF Inv, Counting, Typed, TypeOK
<1> QED BY <1>3, <1>11, <1>12 DEF Inv

\* A branch that settles keeps its counter; with fail_fast an exception ends
\* the run.
LEMMA SettleInv == ASSUME Inv, NEW b \in Branches, Return(b) \/ Raise(b) PROVE Inv'
<1>1. branch[b] = "running" /\ UNCHANGED <<fixed, child, made, resumes, context>>
  BY DEF Return, Raise, GroupRaises
<1>2. status = "running" /\ context \in Nat /\ child \in [Branches -> 0..Ceiling(context)]
  BY <1>1, CeilingIs DEF Inv, Spending, Typed, TypeOK
<1>3. CASE \E how \in {"succeeded", "unsuccessful", "raised", "paused"} :
              Settle(b, how) /\ UNCHANGED <<status, saved>>
  <2>1. PICK how \in {"succeeded", "unsuccessful", "raised", "paused"} :
           branch' = [branch EXCEPT ![b] = how] /\ UNCHANGED <<status, saved>>
    BY <1>3 DEF Settle
  <2>2. Typed'
    BY <1>1, <1>2, <2>1, TypedAgain DEF Inv, Typed, TypeOK
  <2>3. \A c \in Branches : Used'[c] = Used[c]
    BY <1>1, <2>1 DEF Used, Inv, Typed, TypeOK
  <2> QED BY <1>1, <1>2, <2>1, <2>2, <2>3, UsageStays
<1>4. CASE \E how \in {"raised", "paused"} : GroupRaises(b, how)
  <2>1. PICK how \in {"raised", "paused"} : GroupRaises(b, how)
    BY <1>4
  <2>2. /\ status' = "failed" /\ saved' = context'
        /\ branch' \in [Branches -> {"waiting", "running", "succeeded", "unsuccessful",
                                     "raised", "paused", "cancelled"}]
        /\ \A c \in Branches : branch'[c] # "running"
    BY <2>1 DEF GroupRaises, Fail, Settled, Inv, Typed, TypeOK
  <2>3. Typed'
    BY <1>1, <1>2, <2>2, TypedAgain DEF Inv, Typed, TypeOK
  <2> QED BY <1>1, <1>2, <2>2, <2>3, EndsWithin
<1> QED BY <1>1, <1>3, <1>4 DEF Return, Raise

\* All branches have settled, and what they used is absorbed.
LEMMA JoinInv == ASSUME Inv, Join PROVE Inv'
<1>1. /\ status = "running" /\ Settled = Branches /\ context' = Absorbed
      /\ status' \in {"completed", "failed"} /\ saved' = context'
      /\ UNCHANGED <<fixed, branch, child, made, resumes>>
  BY DEF Join, Fail
<1>2. context' = context + Total(Used, Branches) /\ Total(Used, Branches) \in Nat
  BY <1>1, AbsorbedUsed, UsedTotal DEF Inv, Spending
<1>3. context \in Nat /\ child \in [Branches -> 0..Ceiling(context)]
  BY CeilingIs DEF Inv, Typed, TypeOK
<1>4. child' \in [Branches -> 0..Ceiling(context')] /\ context' \in Nat
  <2>1. Ceiling(context) <= Ceiling(context') /\ Ceiling(context) \in Nat /\ Ceiling(context') \in Nat
    BY <1>2, <1>3, FanoutAssumption DEF Ceiling
  <2> QED BY <1>1, <1>2, <1>3, <2>1
<1>5. Typed'
  BY <1>1, <1>4, TypedAgain DEF Inv, Typed, TypeOK
<1>6. \A b \in Branches : branch'[b] # "running"
  BY <1>1 DEF Settled
<1> QED BY <1>1, <1>2, <1>5, <1>6, EndsWithin

\* The deadline ends the run and absorbs nothing.
LEMMA DeadlineInv == ASSUME Inv, DeadlineCancels PROVE Inv'
<1>1. /\ status = "running" /\ status' = "timed_out" /\ saved' = context' /\ context' = context
      /\ UNCHANGED <<fixed, child, made, resumes>>
      /\ branch' \in [Branches -> {"waiting", "running", "succeeded", "unsuccessful",
                                   "raised", "paused", "cancelled"}]
      /\ \A b \in Branches : branch'[b] # "running"
  BY DEF DeadlineCancels, Fail, Settled, Inv, Typed, TypeOK
<1>2. context \in Nat /\ child \in [Branches -> 0..Ceiling(context)]
  BY CeilingIs DEF Inv, Typed, TypeOK
<1>3. Typed'
  BY <1>1, <1>2, TypedAgain DEF Inv, Typed, TypeOK
<1> QED BY <1>1, <1>3, EndsWithin

\* Every step keeps the invariant.
LEMMA InvStep == Inv /\ [Next]_vars => Inv'
<1> SUFFICES ASSUME Inv, [Next]_vars PROVE Inv'
  OBVIOUS
<1>1. ASSUME UNCHANGED vars PROVE Inv'
  <2>1. Typed'
    BY <1>1 DEF vars, fixed, Inv, Typed, TypeOK
  <2>2. Used' = Used /\ Allowance' = Allowance /\ Left' = Left
    BY <1>1 DEF vars, fixed, Used, Allowance, Left
  <2>3. Spending' /\ Counting'
    BY <1>1, <2>2 DEF vars, fixed, Inv, Spending, Counting
  <2> QED BY <2>1, <2>3 DEF Inv
<1>2. CASE Begin
  BY <1>2, BeginInv
<1>3. CASE Step
  <2>1. CASE Join
    BY <2>1, JoinInv
  <2>2. ASSUME NEW b \in Branches, BranchStep(b) PROVE Inv'
    BY <2>2, StartInv, CallInv, SettleInv DEF BranchStep
  <2> QED BY <1>3, <2>1, <2>2 DEF Step
<1>4. CASE DeadlineCancels
  BY <1>4, DeadlineInv
<1> QED BY <1>1, <1>2, <1>3, <1>4 DEF Next, Rest

\* The counters of a ParallelNode's context and branches (context.py:119-175)
\* and the statuses keep their types: what is absorbed is never less than what
\* was there.
THEOREM TypeCorrect == Spec => []TypeOK
<1>1. Inv => TypeOK
  BY DEF Inv, Typed
<1> QED BY <1>1, InitInv, InvStep, PTL DEF Spec

\* ExecutionContext.absorb_parallel (context.py:165-175): a node that ran once
\* and completed has every model call of every branch, the failed ones
\* included, in its counters exactly once.
THEOREM AllUsageAbsorbed == Spec => []UsageAbsorbed
<1>1. Inv => UsageAbsorbed
  BY DEF Inv, Counting, UsageAbsorbed
<1> QED BY <1>1, InitInv, InvStep, PTL DEF Spec

\* check_model_budget looks at a branch's own counters (context.py:203-211):
\* each branch that is no approval spends at most what was left before the
\* node, once each time the node runs, however many branches there are and
\* however they end.
THEOREM SpendingIsBounded == Spec => []OverspendBounded
<1>1. Inv => OverspendBounded
  <2> SUFFICES ASSUME Inv PROVE OverspendBounded
    OBVIOUS
  <2>1. Allowance \in Nat /\ made \in Nat /\ before \in Nat /\ resumes \in Nat
    <3>1. Allowance \in Nat
      BY LeftFacts DEF Inv
    <3> QED BY <3>1, FanoutAssumption DEF Inv, Typed, TypeOK
  <2>2. (resumes + 1) * Allowance = resumes * Allowance + Allowance /\ resumes * Allowance \in Nat
    <3> HIDE DEF Allowance
    <3> QED BY <2>1
  <2>3. status = "running" => Total(Used, Branches) \in Nat /\ Total(Used, Branches) <= Allowance
    BY UsedTotal DEF Inv, Spending
  <2>4. made <= before + (resumes + 1) * Allowance
    BY <2>1, <2>2, <2>3 DEF Inv, Spending, Typed, TypeOK
  <2> QED BY <2>4 DEF OverspendBounded, Allowance
<1> QED BY <1>1, InitInv, InvStep, PTL DEF Spec

=============================================================================
