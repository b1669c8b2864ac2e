-------------------------- MODULE CompositionProofs --------------------------
(***************************************************************************)
(* Three properties of Composition, for every set of definitions, however  *)
(* they nest, every number of failures, crashes and resumes, and every     *)
(* decision, condition and revision: a completed node is completed once,   *)
(* usage is kept, and what was compiled finds its model.                   *)
(*                                                                         *)
(* The first part is about stacks, trees and raised exceptions.  InShape   *)
(* says how a stack runs down the tree of the definition; each property is *)
(* then inductive together with InShape and a strengthening of its own.    *)
(***************************************************************************)
EXTENDS Composition, SequenceTheorems, WellFoundedInduction, TLAPS

\* A set of numbers has a least one.
LEMMA LeastNumber ==
    ASSUME NEW S, S \subseteq Nat, S # {}
    PROVE  \E x \in S : \A y \in S : x <= y
<1>1. PICK x \in S : \A y \in S : <<y, x>> \notin OpToRel(<, Nat)
  BY NatLessThanWellFounded, WFMin
<1>2. \A y \in S : x <= y
  <2> TAKE y \in S
  <2>1. ~ (y < x)
    BY <1>1 DEF OpToRel
  <2> QED BY <2>1
<1> QED BY <1>2

\* The larger of two counters.
LEMMA Larger ==
    ASSUME NEW a \in Nat, NEW b \in Nat
    PROVE  Max({a, b}) \in Nat /\ Max({a, b}) = IF a <= b THEN b ELSE a
<1>1. \E x \in {a, b} : \A y \in {a, b} : x >= y
  OBVIOUS
<1>2. Max({a, b}) \in {a, b} /\ \A y \in {a, b} : Max({a, b}) >= y
  BY <1>1 DEF Max
<1> QED BY <1>2

-----------------------------------------------------------------------------
(* lists *)

\* A sequence, of whatever it holds.
Listed(s) == s \in Seq(Range(s))

\* Its indices.
LEMMA ListedFacts ==
    ASSUME NEW s, Listed(s)
    PROVE  /\ Len(s) \in Nat /\ DOMAIN s = 1 .. Len(s)
           /\ s # <<>> => Len(s) # 0
  BY LenProperties, EmptySeq DEF Listed

\* What is appended comes last, and nothing else moves.
LEMMA Appended ==
    ASSUME NEW s, Listed(s), NEW e
    PROVE  /\ Listed(Append(s, e)) /\ Append(s, e) # <<>>
           /\ Len(Append(s, e)) = Len(s) + 1
           /\ Append(s, e)[Len(s) + 1] = e
           /\ \A i \in 1 .. Len(s) : Append(s, e)[i] = s[i]
           /\ Last(Append(s, e)) = e
<1> DEFINE S == Range(s) \cup {e}
           t == Append(s, e)
<1>1. s \in Seq(S) /\ e \in S
  <2>1. Range(s) \subseteq S
    OBVIOUS
  <2> HIDE DEF S
  <2>2. s \in Seq(S)
    BY <2>1, SeqMonotonic DEF Listed
  <2> QED BY <2>2 DEF S
<1> HIDE DEF S
<1>2. /\ t \in Seq(S) /\ t # <<>> /\ Len(t) = Len(s) + 1 /\ t[Len(s) + 1] = e
      /\ \A i \in 1 .. Len(s) : t[i] = s[i]
  BY <1>1, AppendProperties
<1> HIDE DEF t
<1>3. Listed(t)
  BY <1>2, SeqOfRange DEF Listed
<1>4. Last(t) = e
  BY <1>2 DEF Last
<1> QED BY <1>2, <1>3, <1>4 DEF t

\* A list without its last.
LEMMA Shortened ==
    ASSUME NEW s, Listed(s), s # <<>>
    PROVE  /\ Listed(Front(s)) /\ Len(s) \in Nat /\ Len(s) # 0
           /\ Len(Front(s)) = Len(s) - 1
           /\ \A i \in 1 .. Len(s) - 1 : Front(s)[i] = s[i]
           /\ Last(s) = s[Len(s)]
           /\ Front(s) = <<>> <=> Len(s) = 1
<1> DEFINE n == Len(s) - 1
           t == SubSeq(s, 1, n)
           S == Range(s)
<1>1. Len(s) \in Nat /\ Len(s) # 0
  BY ListedFacts
<1>2. \A i \in 1 .. n : s[i] \in S
  BY <1>1, ElementOfSeq DEF Listed
<1>3. 1 \in Int /\ n \in Int /\ n \in Nat
  BY <1>1
<1> HIDE DEF n, S
<1>4. /\ t \in Seq(S) /\ Len(t) = IF 1 <= n THEN n - 1 + 1 ELSE 0
      /\ \A i \in 1 .. n - 1 + 1 : t[i] = s[1 + i - 1]
  BY <1>2, <1>3, SubSeqProperties
<1> HIDE DEF t
<1>5. Len(t) = n /\ \A i \in 1 .. n : t[i] = s[i]
  BY <1>3, <1>4
<1>6. Listed(t)
  BY <1>4, SeqOfRange DEF Listed
<1>7. t = <<>> <=> n = 0
  BY <1>4, <1>5, EmptySeq
<1>8. Front(s) = t /\ n = Len(s) - 1
  BY DEF Front, t, n
<1> QED BY <1>1, <1>5, <1>6, <1>7, <1>8 DEF Last

\* A list of one.
LEMMA Alone ==
    ASSUME NEW e
    PROVE  Listed(<<e>>) /\ Len(<<e>>) = 1 /\ <<e>>[1] = e /\ <<e>> # <<>>
<1>1. <<e>> \in Seq({e})
  OBVIOUS
<1>2. Listed(<<e>>)
  BY <1>1, SeqOfRange DEF Listed
<1> QED BY <1>2

\* No list at all.
LEMMA NothingListed == Listed(<<>>) /\ Len(<<>>) = 0
<1>1. <<>> \in Seq({})
  BY EmptySeq
<1> QED BY <1>1, SeqOfRange, EmptySeq DEF Listed

-----------------------------------------------------------------------------
(* trees *)

\* g has at n the nodes n levels below x, as far as m levels.
Descends(g, x, m) ==
    g = [n \in 0 .. m |-> IF n = 0 THEN {x} ELSE UNION {Children(y) : y \in g[n - 1]}]

\* Its value at one level.
LEMMA DescendsAt ==
    ASSUME NEW g, NEW x, NEW m, Descends(g, x, m), NEW n \in 0 .. m
    PROVE  g[n] = IF n = 0 THEN {x} ELSE UNION {Children(y) : y \in g[n - 1]}
<1>1. g = [k \in 0 .. m |-> IF k = 0 THEN {x} ELSE UNION {Children(y) : y \in g[k - 1]}]
  BY DEF Descends
<1> QED BY <1>1

\* Every node has levels below it.
LEMMA DescendsExists ==
    ASSUME NEW x, NEW m \in Nat
    PROVE  \E g : Descends(g, x, m)
<1> DEFINE T == {k \in Nat : ~ \E g : Descends(g, x, k)}
<1> SUFFICES ASSUME T # {} PROVE FALSE
  OBVIOUS
<1>1. PICK k \in T : \A j \in T : k <= j
  <2>1. T \subseteq Nat
    OBVIOUS
  <2> HIDE DEF T
  <2> QED BY <2>1, LeastNumber
<1>2. k \in Nat /\ ~ \E g : Descends(g, x, k)
  BY <1>1
<1>3. CASE k = 0
  <2> DEFINE h == [n \in 0 .. 0 |-> {x}]
             F(n) == IF n = 0 THEN {x} ELSE UNION {Children(y) : y \in h[n - 1]}
  <2>3. \A n \in 0 .. 0 : F(n) = {x}
    BY \A n \in 0 .. 0 : n = 0
  <2>1. h = [n \in 0 .. 0 |-> F(n)]
    <3> HIDE DEF F
    <3> QED BY <2>3
  <2> HIDE DEF h
  <2>2. Descends(h, x, 0)
    BY <2>1 DEF Descends
  <2> QED BY <1>2, <1>3, <2>2
<1>4. CASE k # 0
  <2>1. k - 1 \in Nat /\ k - 1 \notin T
    BY <1>1, <1>2, <1>4
  <2>2. PICK g : Descends(g, x, k - 1)
    BY <2>1
  <2> DEFINE more == UNION {Children(y) : y \in g[k - 1]}
             h == [n \in 0 .. k |-> IF n = k THEN more ELSE g[n]]
             F(n) == IF n = 0 THEN {x} ELSE UNION {Children(y) : y \in h[n - 1]}
  <2>3. ASSUME NEW n \in 0 .. k, n # 0 PROVE h[n - 1] = g[n - 1]
    <3>1. n - 1 \in 0 .. k /\ n - 1 # k
      BY <1>2, <2>3
    <3> HIDE DEF more
    <3> QED BY <3>1
  <2>4. ASSUME NEW n \in 0 .. k
        PROVE  (IF n = k THEN more ELSE g[n]) = F(n)
    <3>1. CASE n = k
      <4>1. h[n - 1] = g[n - 1]
        BY <1>4, <2>3, <3>1
      <4> HIDE DEF h
      <4> QED BY <1>4, <3>1, <4>1
    <3>2. CASE n # k
      <4>1. n \in 0 .. k - 1
        BY <1>2, <3>2
      <4>2. g[n] = IF n = 0 THEN {x} ELSE UNION {Children(y) : y \in g[n - 1]}
        BY <2>2, <4>1, DescendsAt
      <4>3. n # 0 => h[n - 1] = g[n - 1]
        BY <2>3
      <4> HIDE DEF h, more
      <4> QED BY <3>2, <4>2, <4>3
    <3> QED BY <3>1, <3>2
  <2>5. h = [n \in 0 .. k |-> F(n)]
    <3> HIDE DEF F, more
    <3> QED BY <2>4
  <2> HIDE DEF h
  <2>6. Descends(h, x, k)
    BY <2>5 DEF Descends
  <2> QED BY <1>2, <2>6
<1> QED BY <1>3, <1>4

\* The levels below a node.
LEMMA LevelsAt ==
    ASSUME NEW x, NEW n \in 0 .. MaxDepth
    PROVE  Levels(x)[n] = IF n = 0 THEN {x} ELSE UNION {Children(y) : y \in Levels(x)[n - 1]}
<1>1. Levels(x) = CHOOSE g : Descends(g, x, MaxDepth)
  BY DEF Levels, Descends
<1>2. Descends(Levels(x), x, MaxDepth)
  BY <1>1, CompilerAssumption, DescendsExists
<1> QED BY <1>2, DescendsAt

\* A node is in its own tree.
LEMMA WithinItself == \A x : x \in Levels(x)[0] /\ x \in Within(x)
<1> TAKE x
<1>1. 0 \in 0 .. MaxDepth
  BY CompilerAssumption
<1>2. x \in Levels(x)[0]
  BY <1>1, LevelsAt
<1> QED BY <1>1, <1>2 DEF Within

\* The children of what is at one level are at the next, and nothing else is.
LEMMA OneLevelDown ==
    ASSUME NEW x, NEW n \in Nat, n + 1 <= MaxDepth, NEW z
    PROVE  z \in Levels(x)[n + 1] <=> \E y \in Levels(x)[n] : z \in Children(y)
<1> DEFINE m == n + 1
           k == m - 1
<1>1. m \in 0 .. MaxDepth /\ m # 0 /\ k = n
  BY CompilerAssumption
<1> HIDE DEF m
<1>2. Levels(x)[m] = UNION {Children(w) : w \in Levels(x)[m - 1]}
  BY <1>1, LevelsAt
<1>3. Levels(x)[m] = UNION {Children(w) : w \in Levels(x)[k]}
  BY <1>2
<1> HIDE DEF k
<1>4. z \in Levels(x)[m] <=> \E y \in Levels(x)[k] : z \in Children(y)
  BY <1>3
<1> QED BY <1>1, <1>4 DEF m

\* What is some levels below a child is one level more below its parent, and
\* the other way round.
LEMMA ThroughAChild ==
    ASSUME NEW x, NEW n \in Nat, n + 1 <= MaxDepth, NEW y \in Levels(x)[n + 1]
    PROVE  \E child \in Children(x) : y \in Levels(child)[n]
<1> DEFINE P(k) == \A z \in Levels(x)[k + 1] : \E child \in Children(x) : z \in Levels(child)[k]
           T == {k \in 0 .. n : ~P(k)}
<1> SUFFICES ASSUME T # {} PROVE FALSE
  <2>1. T = {} => P(n)
    <3> HIDE DEF P
    <3> QED OBVIOUS
  <2> HIDE DEF T
  <2> QED BY <2>1
<1>1. PICK k \in T : \A j \in T : k <= j
  <2>1. T \subseteq Nat
    OBVIOUS
  <2> HIDE DEF T
  <2> QED BY <2>1, LeastNumber
<1>2. k \in 0 .. n /\ ~P(k)
  BY <1>1
<1>3. PICK z \in Levels(x)[k + 1] : \A child \in Children(x) : z \notin Levels(child)[k]
  BY <1>2
<1>4. k + 1 \in 0 .. MaxDepth /\ k + 1 # 0 /\ k + 1 - 1 = k /\ k \in 0 .. MaxDepth /\ k \in Nat
  BY <1>2, CompilerAssumption
<1> HIDE DEF T
<1>5. PICK w \in Levels(x)[k] : z \in Children(w)
  <2>1. k + 1 <= MaxDepth
    BY <1>4
  <2> QED BY <1>3, <1>4, <2>1, OneLevelDown
<1>6. CASE k = 0
  <2>1. Levels(x)[0] = {x}
    BY <1>4, <1>6, LevelsAt
  <2>2. z \in Children(x)
    BY <1>5, <1>6, <2>1
  <2> QED BY <1>3, <1>6, <2>2, WithinItself
<1>7. CASE k # 0
  <2>1. k - 1 \in 0 .. n /\ k - 1 \notin T /\ k - 1 + 1 = k /\ k - 1 \in Nat
    BY <1>1, <1>2, <1>7
  <2>2. P(k - 1)
    <3> HIDE DEF P
    <3> QED BY <2>1 DEF T
  <2>3. PICK child \in Children(x) : w \in Levels(child)[k - 1]
    BY <1>5, <2>1, <2>2
  <2>4. z \in Levels(child)[k - 1 + 1]
    BY <1>4, <1>5, <2>1, <2>3, OneLevelDown
  <2> QED BY <1>3, <2>1, <2>3, <2>4
<1> QED BY <1>6, <1>7

-----------------------------------------------------------------------------
(* contexts, memory and checkpoints *)

IsFrame(f) ==
    /\ f = [node |-> f.node, id |-> f.id, input |-> f.input, current |-> f.current,
            at |-> f.at, step |-> f.step, calls |-> f.calls]
    /\ f.at \in Nat /\ f.step \in Nat /\ f.calls \in Nat

IsMemory(m) ==
    m = [completed |-> m.completed, conversation |-> m.conversation, hash |-> m.hash,
         recorded |-> m.recorded]

IsSnapshot(c) ==
    /\ c = [step |-> c.step, calls |-> c.calls, state |-> c.state]
    /\ c.step \in Nat /\ c.calls \in Nat /\ IsMemory(c.state)

\* What merge_from does to the context of a caller: only its counters move.
LEMMA MergedFacts ==
    ASSUME NEW f, IsFrame(f), NEW c, IsFrame(c)
    PROVE  LET m == Merged(f, c)
           IN /\ IsFrame(m) /\ m.node = f.node /\ m.id = f.id /\ m.at = f.at
              /\ m.calls = IF f.calls <= c.calls THEN c.calls ELSE f.calls
<1> DEFINE a == Max({f.step, c.step})
           b == Max({f.calls, c.calls})
<1>1. a \in Nat /\ b \in Nat /\ b = IF f.calls <= c.calls THEN c.calls ELSE f.calls
  BY Larger DEF IsFrame
<1>2. Merged(f, c) = [f EXCEPT !.step = a, !.calls = b]
  BY DEF Merged
<1> HIDE DEF a, b
<1> DEFINE m == [f EXCEPT !.step = a, !.calls = b]
           h == [f EXCEPT !.step = a]
           r == [node |-> f.node, id |-> f.id, input |-> f.input, current |-> f.current,
                 at |-> f.at, step |-> a, calls |-> b]
<1>3. m = r
  <2>1. h = [node |-> f.node, id |-> f.id, input |-> f.input, current |-> f.current,
             at |-> f.at, step |-> a, calls |-> f.calls]
    BY DEF IsFrame
  <2>2. m = [h EXCEPT !.calls = b]
    OBVIOUS
  <2> HIDE DEF h, m
  <2>3. [h EXCEPT !.calls = b] = r
    BY <2>1
  <2> HIDE DEF r
  <2> QED BY <2>2, <2>3
<1>4. /\ r.node = f.node /\ r.id = f.id /\ r.input = f.input /\ r.current = f.current
      /\ r.at = f.at /\ r.step = a /\ r.calls = b
  OBVIOUS
<1>5. IsFrame(r)
  BY <1>1, <1>4 DEF IsFrame
<1> HIDE DEF r, m
<1> QED BY <1>1, <1>2, <1>3, <1>4, <1>5 DEF m

\* The caller that goes on with what its node returned.
LEMMA GoneOn ==
    ASSUME NEW f, IsFrame(f), NEW v
    PROVE  LET g == [f EXCEPT !.current = v, !.at = @ + 1]
           IN /\ IsFrame(g) /\ g.node = f.node /\ g.id = f.id /\ g.at = f.at + 1
              /\ g.calls = f.calls
<1> DEFINE g == [f EXCEPT !.current = v, !.at = @ + 1]
           h == [f EXCEPT !.current = v]
           r == [node |-> f.node, id |-> f.id, input |-> f.input, current |-> v,
                 at |-> f.at + 1, step |-> f.step, calls |-> f.calls]
<1>1. g = r
  <2>1. h = [node |-> f.node, id |-> f.id, input |-> f.input, current |-> v,
             at |-> f.at, step |-> f.step, calls |-> f.calls]
    BY DEF IsFrame
  <2>2. g = [h EXCEPT !.at = @ + 1]
    OBVIOUS
  <2> HIDE DEF h, g
  <2>3. [h EXCEPT !.at = @ + 1] = r
    BY <2>1
  <2> HIDE DEF r
  <2> QED BY <2>2, <2>3
<1>2. /\ r.node = f.node /\ r.id = f.id /\ r.input = f.input /\ r.current = v
      /\ r.at = f.at + 1 /\ r.step = f.step /\ r.calls = f.calls
  OBVIOUS
<1>3. f.at + 1 \in Nat
  BY DEF IsFrame
<1>4. IsFrame(r)
  BY <1>2, <1>3 DEF IsFrame
<1> HIDE DEF g, r
<1> QED BY <1>1, <1>2, <1>4 DEF g

\* A checkpoint of a context and a memory.
LEMMA SnapshotIs ==
    ASSUME NEW f, IsFrame(f), NEW m, IsMemory(m)
    PROVE  /\ IsSnapshot(Snapshot(f, m))
           /\ Snapshot(f, m).calls = f.calls /\ Snapshot(f, m).state = m
<1> DEFINE r == Snapshot(f, m)
<1>1. r.step = f.step /\ r.calls = f.calls /\ r.state = m
  BY DEF Snapshot
<1>2. r = [step |-> r.step, calls |-> r.calls, state |-> r.state]
  BY DEF Snapshot
<1> HIDE DEF r
<1>3. IsSnapshot(r)
  BY <1>1, <1>2 DEF IsSnapshot, IsFrame
<1> QED BY <1>1, <1>3 DEF r

\* A raised exception leaves the context of a workflow merged and that of
\* another node as it is.
LEMMA RaiseThroughFacts ==
    ASSUME NEW c, IsFrame(c), NEW f, IsFrame(f)
    PROVE  /\ IsFrame(RaiseThrough(c, f))
           /\ f.node.kind = "workflow" /\ f.calls <= c.calls =>
                  RaiseThrough(c, f).calls = c.calls
  BY MergedFacts DEF RaiseThrough

\* g has what each frame from k on has become when the innermost call raised.
Raises(g, s, k) ==
    g = [i \in k .. Len(s) |-> IF i = Len(s) THEN s[i] ELSE RaiseThrough(g[i + 1], s[i])]

\* Its value at one frame.
LEMMA RaisesAt ==
    ASSUME NEW g, NEW s, NEW k, Raises(g, s, k), NEW i \in k .. Len(s)
    PROVE  g[i] = IF i = Len(s) THEN s[i] ELSE RaiseThrough(g[i + 1], s[i])
<1>1. g = [j \in k .. Len(s) |-> IF j = Len(s) THEN s[j] ELSE RaiseThrough(g[j + 1], s[j])]
  BY DEF Raises
<1> QED BY <1>1

\* An exception gets through every stack.
LEMMA RaisesExists ==
    ASSUME NEW s, NEW L \in Nat, Len(s) = L, L # 0
    PROVE  \E g : Raises(g, s, 1)
<1> DEFINE T == {n \in 0 .. L - 1 : ~ \E g : Raises(g, s, L - n)}
<1> SUFFICES ASSUME T # {} PROVE FALSE
  <2>0. L - 1 \notin T
    <3> HIDE DEF T
    <3> QED OBVIOUS
  <2>1. L - 1 \notin T /\ L - 1 \in 0 .. L - 1 /\ L - (L - 1) = 1
    BY <2>0
  <2>2. \E g : Raises(g, s, L - (L - 1))
    BY <2>1
  <2> QED BY <2>1, <2>2
<1>1. PICK n \in T : \A j \in T : n <= j
  <2>1. T \subseteq Nat
    OBVIOUS
  <2> HIDE DEF T
  <2> QED BY <2>1, LeastNumber
<1> DEFINE k == L - n
<1>2. n \in 0 .. L - 1 /\ k \in 1 .. L /\ ~ \E g : Raises(g, s, k)
  BY <1>1
<1>3. CASE n = 0
  <2> DEFINE h == [i \in k .. L |-> s[i]]
             F(i) == IF i = L THEN s[i] ELSE RaiseThrough(h[i + 1], s[i])
  <2>1. \A i \in k .. L : i = L
    BY <1>2, <1>3
  <2>2. \A i \in k .. L : F(i) = s[i]
    <3> HIDE DEF h
    <3> QED BY <2>1
  <2>3. h = [i \in k .. L |-> F(i)]
    <3> HIDE DEF F, k
    <3> QED BY <2>2
  <2> HIDE DEF h, k
  <2>4. Raises(h, s, k)
    BY <2>3 DEF Raises
  <2> QED BY <1>2, <2>4
<1>4. CASE n # 0
  <2>0. n - 1 \notin T
    <3>1. ~ (n <= n - 1)
      BY <1>2
    <3> HIDE DEF T
    <3> QED BY <1>1, <3>1
  <2>1. n - 1 \in 0 .. L - 1 /\ n - 1 \notin T /\ L - (n - 1) = k + 1 /\ k # L
    <3>1. n - 1 \in 0 .. L - 1 /\ L - (n - 1) = k + 1 /\ k # L
      BY <1>2, <1>4
    <3> HIDE DEF T
    <3> QED BY <2>0, <3>1
  <2>2. \E g : Raises(g, s, L - (n - 1))
    BY <2>1
  <2>3. PICK g : Raises(g, s, k + 1)
    BY <2>1, <2>2
  <2> HIDE DEF T
  <2> DEFINE more == RaiseThrough(g[k + 1], s[k])
             h == [i \in k .. L |-> IF i = k THEN more ELSE g[i]]
             F(i) == IF i = L THEN s[i] ELSE RaiseThrough(h[i + 1], s[i])
  <2>4. ASSUME NEW i \in k .. L, i # L PROVE h[i + 1] = g[i + 1]
    <3>1. i + 1 \in k .. L /\ i + 1 # k
      BY <1>2, <2>4
    <3> HIDE DEF more, k
    <3> QED BY <3>1
  <2>5. ASSUME NEW i \in k .. L
        PROVE  (IF i = k THEN more ELSE g[i]) = F(i)
    <3> HIDE DEF k
    <3>1. CASE i = k
      <4>1. h[i + 1] = g[i + 1]
        BY <2>1, <2>4, <3>1
      <4> HIDE DEF h
      <4> QED BY <2>1, <3>1, <4>1
    <3>2. CASE i # k
      <4>1. i \in k + 1 .. L
        BY <1>2, <3>2
      <4>2. g[i] = IF i = L THEN s[i] ELSE RaiseThrough(g[i + 1], s[i])
        BY <2>3, <4>1, RaisesAt
      <4>3. i # L => h[i + 1] = g[i + 1]
        BY <2>4
      <4> HIDE DEF h, more
      <4> QED BY <3>2, <4>2, <4>3
    <3> QED BY <3>1, <3>2
  <2>6. h = [i \in k .. L |-> F(i)]
    <3> HIDE DEF F, more, k
    <3> QED BY <2>5
  <2> HIDE DEF h, k
  <2>7. Raises(h, s, k)
    BY <2>6 DEF Raises
  <2> QED BY <1>2, <2>7
<1> QED BY <1>3, <1>4

\* The root context when the innermost call has raised is a context; where only
\* workflows enclose it, it counts all the model calls of the innermost one.
LEMMA UnwoundFacts ==
    ASSUME NEW s, Listed(s), s # <<>>, \A i \in 1 .. Len(s) : IsFrame(s[i])
    PROVE  /\ IsFrame(Unwound(s))
           /\ (\A i \in 1 .. Len(s) - 1 :
                    s[i].node.kind = "workflow" /\ s[i].calls <= s[Len(s)].calls)
                  => Unwound(s).calls = s[Len(s)].calls
<1> DEFINE L == Len(s)
           merging == \A i \in 1 .. L - 1 : s[i].node.kind = "workflow" /\ s[i].calls <= s[L].calls
<1>1. L \in Nat /\ L # 0 /\ DOMAIN s = 1 .. L
  BY ListedFacts
<1> DEFINE g == CHOOSE h : Raises(h, s, 1)
<1>2. Unwound(s) = g[1]
  BY <1>1 DEF Unwound, Raises
<1>3. Raises(g, s, 1)
  <2>1. \E h : Raises(h, s, 1)
    BY <1>1, RaisesExists
  <2> QED BY <2>1
<1> HIDE DEF g
<1> DEFINE P(k) == IsFrame(g[k]) /\ (merging => g[k].calls = s[L].calls)
           T == {n \in 0 .. L - 1 : ~P(L - n)}
<1>4. ASSUME T # {} PROVE FALSE
  <2>1. PICK n \in T : \A j \in T : n <= j
    <3>1. T \subseteq Nat
      OBVIOUS
    <3> HIDE DEF T
    <3> QED BY <1>4, <3>1, LeastNumber
  <2> HIDE DEF P
  <2> DEFINE k == L - n
  <2>2. n \in 0 .. L - 1 /\ k \in 1 .. L /\ ~P(k)
    BY <1>1, <2>1
  <2>3. g[k] = IF k = L THEN s[k] ELSE RaiseThrough(g[k + 1], s[k])
    BY <1>3, <2>2, RaisesAt
  <2>4. CASE n = 0
    <3>1. k = L
      BY <1>1, <2>4
    <3> HIDE DEF k
    <3>2. IsFrame(g[k]) /\ g[k].calls = s[L].calls
      BY <2>2, <2>3, <3>1
    <3> QED BY <2>2, <3>2 DEF P
  <2>5. CASE n # 0
    <3>0. n - 1 \notin T
      <4>1. ~ (n <= n - 1)
        BY <1>1, <2>2
      <4> HIDE DEF T
      <4> QED BY <2>1, <4>1
    <3>9. n - 1 \in 0 .. L - 1 /\ L - (n - 1) = k + 1 /\ k # L /\ k \in 1 .. L - 1
      <4> HIDE DEF T, L
      <4> QED BY <1>1, <2>2, <2>5
    <3>1. n - 1 \in 0 .. L - 1 /\ n - 1 \notin T /\ L - (n - 1) = k + 1 /\ k # L /\ k \in 1 .. L - 1
      <4> HIDE DEF T, k
      <4> QED BY <3>0, <3>9
    <3>2. P(L - (n - 1))
      BY <3>1
    <3>3. P(k + 1)
      BY <3>1, <3>2
    <3> HIDE DEF k, T
    <3>4. IsFrame(g[k + 1]) /\ (merging => g[k + 1].calls = s[L].calls)
      <4> HIDE DEF merging
      <4> QED BY <3>3 DEF P
    <3>5. IsFrame(s[k])
      BY <2>2
    <3>6. merging => s[k].node.kind = "workflow" /\ s[k].calls <= g[k + 1].calls
      BY <3>1, <3>4
    <3> HIDE DEF merging
    <3>7. IsFrame(g[k]) /\ (merging => g[k].calls = s[L].calls)
      BY <2>3, <3>1, <3>4, <3>5, <3>6, RaiseThroughFacts
    <3> QED BY <2>2, <3>7 DEF P
  <2> QED BY <2>4, <2>5
<1>5. L - 1 \in 0 .. L - 1 /\ L - (L - 1) = 1 /\ L - 1 \notin T
  <2> HIDE DEF T
  <2> QED BY <1>1, <1>4
<1>6. P(L - (L - 1))
  <2> HIDE DEF P
  <2> QED BY <1>5
<1>7. P(1)
  BY <1>5, <1>6
<1> QED BY <1>2, <1>7

-----------------------------------------------------------------------------
(* stacks *)

\* A stack of contexts runs down the tree of d, a workflow's node under the
\* number of the node it is at.
Nested(s, d) ==
    /\ Listed(s) /\ Len(s) <= MaxDepth + 1
    /\ \A i \in 1 .. Len(s) : IsFrame(s[i])
    /\ s # <<>> => s[1].node = d
    /\ \A j, k \in 1 .. Len(s) : j <= k => s[k].node \in Levels(s[j].node)[k - j]
    /\ \A i \in 1 .. Len(s) - 1 : s[i].node.kind = "workflow" =>
           s[i + 1].id = NodeId(s[i].node, s[i].at + 1)

\* What a call of execute begins with.
LEMMA NestedRoot ==
    ASSUME NEW f, IsFrame(f)
    PROVE  Nested(<<f>>, f.node)
<1> DEFINE s == <<f>>
<1>1. Listed(s) /\ Len(s) = 1 /\ s[1] = f
  BY Alone
<1> HIDE DEF s
<1>2. \A i \in 1 .. Len(s) : i = 1
  BY <1>1
<1>3. \A j, k \in 1 .. Len(s) : k - j = 0 /\ s[k] = f /\ s[j] = f
  BY <1>1
<1>4. \A j, k \in 1 .. Len(s) : s[k].node \in Levels(s[j].node)[k - j]
  BY <1>3, WithinItself
<1>5. Len(s) <= MaxDepth + 1
  BY <1>1, CompilerAssumption
<1>6. ~ \E i \in 1 .. Len(s) - 1 : TRUE
  BY <1>1
<1> QED BY <1>1, <1>2, <1>4, <1>5, <1>6 DEF Nested, s

\* No stack.
LEMMA NestedNone ==
    ASSUME NEW d
    PROVE  Nested(<<>>, d)
<1> DEFINE s == <<>>
<1>1. Listed(s) /\ Len(s) = 0 /\ s = <<>>
  BY NothingListed
<1> HIDE DEF s
<1>2. (~ \E i \in 1 .. Len(s) : TRUE) /\ ~ \E i \in 1 .. Len(s) - 1 : TRUE
  BY <1>1
<1>3. Len(s) <= MaxDepth + 1
  BY <1>1, CompilerAssumption
<1> QED BY <1>1, <1>2, <1>3 DEF Nested, s

\* The node of every context is in the tree.
LEMMA NestedWithin ==
    ASSUME NEW s, NEW d, Nested(s, d), NEW k \in 1 .. Len(s)
    PROVE  /\ Len(s) \in Nat /\ Len(s) # 0 /\ s # <<>>
           /\ k - 1 \in 0 .. MaxDepth
           /\ s[k].node \in Levels(d)[k - 1] /\ s[k].node \in Within(d)
<1>1. Listed(s) /\ Len(s) <= MaxDepth + 1
  BY DEF Nested
<1>2. Len(s) \in Nat /\ Len(s) # 0 /\ 1 \in 1 .. Len(s) /\ 1 <= k
  BY <1>1, ListedFacts
<1>3. s # <<>>
  BY <1>2, NothingListed
<1>4. k - 1 \in 0 .. MaxDepth
  BY <1>1, <1>2, CompilerAssumption
<1>5. s[k].node \in Levels(s[1].node)[k - 1] /\ s[1].node = d
  BY <1>2, <1>3 DEF Nested
<1>6. s[k].node \in Within(d)
  BY <1>4, <1>5 DEF Within
<1> QED BY <1>2, <1>3, <1>4, <1>5, <1>6

\* Less of a stack is a stack.
LEMMA NestedBelow ==
    ASSUME NEW s, NEW d, Nested(s, d), s # <<>>
    PROVE  Nested(Front(s), d)
<1> DEFINE t == Front(s)
<1>1. /\ Listed(t) /\ Len(s) \in Nat /\ Len(s) # 0 /\ Len(t) = Len(s) - 1
      /\ \A i \in 1 .. Len(s) - 1 : t[i] = s[i]
      /\ t = <<>> <=> Len(s) = 1
  BY Shortened DEF Nested
<1> HIDE DEF t
<1>2. Len(t) <= MaxDepth + 1
  BY <1>1, CompilerAssumption DEF Nested
<1>3. \A i \in 1 .. Len(t) : i \in 1 .. Len(s) /\ t[i] = s[i]
  BY <1>1
<1>4. \A i \in 1 .. Len(t) : IsFrame(t[i])
  BY <1>3 DEF Nested
<1>5. t # <<>> => 1 \in 1 .. Len(t) /\ s # <<>>
  BY <1>1
<1>6. t # <<>> => t[1].node = d
  BY <1>3, <1>5 DEF Nested
<1>7. \A j, k \in 1 .. Len(t) : j <= k => t[k].node \in Levels(t[j].node)[k - j]
  BY <1>3 DEF Nested
<1>8. \A i \in 1 .. Len(t) - 1 : i \in 1 .. Len(s) - 1 /\ i \in 1 .. Len(t) /\ i + 1 \in 1 .. Len(t)
  BY <1>1
<1>9. \A i \in 1 .. Len(t) - 1 : t[i].node.kind = "workflow" =>
          t[i + 1].id = NodeId(t[i].node, t[i].at + 1)
  <2> TAKE i \in 1 .. Len(t) - 1
  <2>1. t[i] = s[i] /\ t[i + 1] = s[i + 1] /\ i \in 1 .. Len(s) - 1
    BY <1>3, <1>8
  <2> QED BY <2>1 DEF Nested
<1> QED BY <1>1, <1>2, <1>4, <1>6, <1>7, <1>9 DEF Nested, t

\* The innermost context goes on.
LEMMA NestedOn ==
    ASSUME NEW s, NEW d, Nested(s, d), s # <<>>,
           NEW f, IsFrame(f), f.node = Last(s).node, f.id = Last(s).id
    PROVE  /\ Nested(Append(Front(s), f), d)
           /\ Len(Append(Front(s), f)) = Len(s)
           /\ Append(Front(s), f)[Len(s)] = f
           /\ \A i \in 1 .. Len(s) - 1 : Append(Front(s), f)[i] = s[i]
<1> DEFINE t == Append(Front(s), f)
           L == Len(s)
<1>1. /\ Listed(Front(s)) /\ L \in Nat /\ L # 0 /\ Len(Front(s)) = L - 1
      /\ \A i \in 1 .. L - 1 : Front(s)[i] = s[i]
      /\ Last(s) = s[L]
  BY Shortened DEF Nested
<1>2. /\ Listed(t) /\ t # <<>> /\ Len(t) = Len(Front(s)) + 1
      /\ t[Len(Front(s)) + 1] = f
      /\ \A i \in 1 .. Len(Front(s)) : t[i] = Front(s)[i]
  BY <1>1, Appended
<1> HIDE DEF t, L
<1>3. Len(t) = L /\ t[L] = f
  BY <1>1, <1>2
<1>4. \A i \in 1 .. L - 1 : t[i] = s[i]
  BY <1>1, <1>2
<1>5. \A i \in 1 .. L : i \in 1 .. L - 1 \/ i = L
  BY <1>1
<1>6. \A i \in 1 .. L : IsFrame(t[i]) /\ t[i].node = s[i].node /\ t[i].id = s[i].id
  BY <1>1, <1>3, <1>4, <1>5 DEF Nested, L
<1>7. 1 \in 1 .. L
  BY <1>1
<1>8. t[1].node = d
  BY <1>6, <1>7 DEF Nested
<1>9. \A j, k \in 1 .. L : j <= k => t[k].node \in Levels(t[j].node)[k - j]
  BY <1>6 DEF Nested, L
<1>10. \A i \in 1 .. L - 1 : i \in 1 .. L /\ i + 1 \in 1 .. L
  BY <1>1
<1>11. \A i \in 1 .. L - 1 : t[i].node.kind = "workflow" =>
          t[i + 1].id = NodeId(t[i].node, t[i].at + 1)
  <2> TAKE i \in 1 .. L - 1
  <2>1. t[i] = s[i] /\ t[i + 1].id = s[i + 1].id
    BY <1>4, <1>6, <1>10
  <2> QED BY <2>1 DEF Nested, L
<1>12. L <= MaxDepth + 1
  BY DEF Nested, L
<1>13. Nested(t, d)
  BY <1>2, <1>3, <1>6, <1>8, <1>9, <1>11, <1>12 DEF Nested
<1> QED BY <1>3, <1>4, <1>13 DEF t, L

\* A node of the innermost context is entered.  The tree being no deeper than
\* MaxDepth, the stack is not either.
LEMMA NestedEnter ==
    ASSUME NEW s, NEW d, Nested(s, d), s # <<>>, IsTree(d),
           NEW c, IsFrame(c), c.node \in Children(Last(s).node),
           Last(s).node.kind = "workflow" => c.id = NodeId(Last(s).node, Last(s).at + 1)
    PROVE  /\ Nested(Append(s, c), d)
           /\ Len(Append(s, c)) = Len(s) + 1
           /\ Append(s, c)[Len(s) + 1] = c
           /\ \A i \in 1 .. Len(s) : Append(s, c)[i] = s[i]
<1> DEFINE t == Append(s, c)
           L == Len(s)
<1>1. L \in Nat /\ L # 0 /\ L \in 1 .. L /\ 1 \in 1 .. L
  BY ListedFacts DEF Nested
<1>2. /\ Listed(t) /\ t # <<>> /\ Len(t) = L + 1 /\ t[L + 1] = c
      /\ \A i \in 1 .. L : t[i] = s[i]
  BY Appended DEF Nested
<1>3. Last(s) = s[L]
  BY DEF Last
<1>4. s[L].node \in Levels(d)[L - 1] /\ L - 1 \in 0 .. MaxDepth
  BY <1>1, NestedWithin
<1>5. L - 1 # MaxDepth
  <2>1. \A x \in Levels(d)[MaxDepth] : Children(x) = {}
    BY DEF IsTree
  <2> QED BY <1>3, <1>4, <2>1
<1> HIDE DEF t, L
<1>6. L + 1 <= MaxDepth + 1
  BY <1>1, <1>4, <1>5, CompilerAssumption
<1>7. \A i \in 1 .. L + 1 : i \in 1 .. L \/ i = L + 1
  BY <1>1
<1>8. \A i \in 1 .. L + 1 : IsFrame(t[i])
  BY <1>2, <1>7 DEF Nested, L
<1>9. t[1].node = d
  BY <1>1, <1>2 DEF Nested
<1>10. ASSUME NEW j \in 1 .. L + 1, NEW k \in 1 .. L + 1, j <= k
       PROVE  t[k].node \in Levels(t[j].node)[k - j]
  <2>1. CASE k \in 1 .. L
    <3>1. j \in 1 .. L
      BY <1>1, <1>10, <2>1
    <3> QED BY <1>2, <1>10, <2>1, <3>1 DEF Nested, L
  <2>2. CASE k = L + 1 /\ j = L + 1
    <3>1. k - j = 0
      BY <1>1, <2>2
    <3> QED BY <2>2, <3>1, WithinItself
  <2>3. CASE k = L + 1 /\ j \in 1 .. L
    <3> DEFINE n == L - j
    <3>1. n \in Nat /\ n + 1 <= MaxDepth /\ k - j = n + 1 /\ j <= L
      BY <1>1, <1>6, <2>3, CompilerAssumption
    <3>2. s[L].node \in Levels(s[j].node)[n]
      BY <1>1, <2>3, <3>1 DEF Nested, L
    <3> HIDE DEF n
    <3>3. c.node \in Levels(s[j].node)[n + 1]
      BY <1>3, <3>1, <3>2, OneLevelDown
    <3> QED BY <1>2, <2>3, <3>1, <3>3
  <2> QED BY <1>7, <2>1, <2>2, <2>3
<1>11. ASSUME NEW i \in 1 .. L, t[i].node.kind = "workflow"
       PROVE  t[i + 1].id = NodeId(t[i].node, t[i].at + 1)
  <2>1. CASE i = L
    BY <1>2, <1>3, <1>11, <2>1
  <2>2. CASE i # L
    <3>1. i \in 1 .. L - 1 /\ i + 1 \in 1 .. L
      BY <1>1, <2>2
    <3>2. t[i] = s[i] /\ t[i + 1] = s[i + 1]
      BY <1>2, <3>1
    <3> QED BY <1>11, <3>1, <3>2 DEF Nested, L
  <2> QED BY <2>1, <2>2
<1>12. Len(t) - 1 = L
  BY <1>1, <1>2
<1>13. Nested(t, d)
  BY <1>2, <1>6, <1>8, <1>9, <1>10, <1>11, <1>12 DEF Nested
<1> QED BY <1>2, <1>13 DEF t, L

-----------------------------------------------------------------------------
(* what the actions make of contexts and memory *)

\* The memory with one of its parts replaced.
LEMMA Remembered ==
    ASSUME NEW m, IsMemory(m), NEW v
    PROVE  /\ IsMemory([m EXCEPT !.hash = v]) /\ [m EXCEPT !.hash = v].completed = m.completed
           /\ IsMemory([m EXCEPT !.conversation = v])
           /\ [m EXCEPT !.conversation = v].completed = m.completed
           /\ IsMemory([m EXCEPT !.completed = v]) /\ [m EXCEPT !.completed = v].completed = v
           /\ IsMemory([m EXCEPT !.recorded = v])
  BY DEF IsMemory

\* What a fork keeps of the memory.
LEMMA ForkedMemory ==
    ASSUME NEW m, IsMemory(m), NEW v, NEW w
    PROVE  IsMemory([m EXCEPT !.hash = v, !.recorded = w])
<1> DEFINE h == [m EXCEPT !.hash = v]
           g == [m EXCEPT !.hash = v, !.recorded = w]
<1>1. IsMemory(h)
  BY Remembered
<1>2. g = [h EXCEPT !.recorded = w]
  OBVIOUS
<1> HIDE DEF g, h
<1>3. IsMemory([h EXCEPT !.recorded = w])
  BY <1>1, Remembered
<1> QED BY <1>2, <1>3 DEF g

\* A new execution has a memory.
LEMMA FreshIs == IsMemory(Fresh)
<1> DEFINE m == Fresh
<1>1. m = [completed |-> m.completed, conversation |-> m.conversation, hash |-> m.hash,
           recorded |-> m.recorded]
  BY DEF Fresh
<1> QED BY <1>1 DEF IsMemory

\* The context of a child counts what its parent's does.
LEMMA ChildIs ==
    ASSUME NEW f, IsFrame(f), NEW n, NEW i, NEW v
    PROVE  /\ IsFrame(Child(f, n, i, v)) /\ Child(f, n, i, v).node = n
           /\ Child(f, n, i, v).id = i /\ Child(f, n, i, v).calls = f.calls
<1> DEFINE p == IF v = None THEN f.input ELSE v
           c == Child(f, n, i, v)
           r == [node |-> n, id |-> i, input |-> p, current |-> p, at |-> 0,
                 step |-> f.step, calls |-> f.calls]
<1>1. c = r
  BY DEF Child
<1> HIDE DEF p
<1>2. /\ r.node = n /\ r.id = i /\ r.input = p /\ r.current = p /\ r.at = 0
      /\ r.step = f.step /\ r.calls = f.calls
  OBVIOUS
<1>3. IsFrame(r)
  BY <1>2 DEF IsFrame
<1> HIDE DEF c, r
<1> QED BY <1>1, <1>2, <1>3 DEF c

\* The root context goes on from a checkpoint, or from nothing.
LEMMA RootIs ==
    ASSUME NEW n, NEW v, NEW from, from.step \in Nat, from.calls \in Nat
    PROVE  /\ IsFrame(Root(n, v, from)) /\ Root(n, v, from).node = n
           /\ Root(n, v, from).at = 0 /\ Root(n, v, from).calls = from.calls
<1> DEFINE c == Root(n, v, from)
           o == <<None, 0>>
           r == [node |-> n, id |-> o, input |-> v, current |-> v, at |-> 0,
                 step |-> from.step, calls |-> from.calls]
<1>1. c = r
  BY DEF Root
<1> HIDE DEF o
<1>2. /\ r.node = n /\ r.id = o /\ r.input = v /\ r.current = v /\ r.at = 0
      /\ r.step = from.step /\ r.calls = from.calls
  OBVIOUS
<1>3. IsFrame(r)
  BY <1>2 DEF IsFrame
<1> HIDE DEF c, r
<1> QED BY <1>1, <1>2, <1>3 DEF c

\* Nothing used yet.
LEMMA StartIs == Start.step = 0 /\ Start.calls = 0
  BY DEF Start

\* An agent takes a step, and calls its model once or not at all.
LEMMA StepTaken ==
    ASSUME NEW f, IsFrame(f)
    PROVE  LET g == [f EXCEPT !.step = @ + 1]
               h == [f EXCEPT !.step = @ + 1, !.calls = @ + 1, !.at = @ + 1]
           IN /\ IsFrame(g) /\ g.node = f.node /\ g.id = f.id /\ g.calls = f.calls
              /\ IsFrame(h) /\ h.node = f.node /\ h.id = f.id /\ h.calls = f.calls + 1
<1> DEFINE g == [f EXCEPT !.step = @ + 1]
           h == [f EXCEPT !.step = @ + 1, !.calls = @ + 1, !.at = @ + 1]
           q == [node |-> f.node, id |-> f.id, input |-> f.input, current |-> f.current,
                 at |-> f.at, step |-> f.step + 1, calls |-> f.calls]
           r == [node |-> f.node, id |-> f.id, input |-> f.input, current |-> f.current,
                 at |-> f.at + 1, step |-> f.step + 1, calls |-> f.calls + 1]
<1>1. g = q
  BY DEF IsFrame
<1>2. h = [[g EXCEPT !.calls = @ + 1] EXCEPT !.at = @ + 1]
  OBVIOUS
<1>3. /\ q.node = f.node /\ q.id = f.id /\ q.input = f.input /\ q.current = f.current
      /\ q.at = f.at /\ q.step = f.step + 1 /\ q.calls = f.calls
  OBVIOUS
<1>4. /\ r.node = f.node /\ r.id = f.id /\ r.input = f.input /\ r.current = f.current
      /\ r.at = f.at + 1 /\ r.step = f.step + 1 /\ r.calls = f.calls + 1
  OBVIOUS
<1>5. [[q EXCEPT !.calls = @ + 1] EXCEPT !.at = @ + 1] = r
  <2> DEFINE w == [node |-> f.node, id |-> f.id, input |-> f.input, current |-> f.current,
                   at |-> f.at, step |-> f.step + 1, calls |-> f.calls + 1]
  <2>1. [q EXCEPT !.calls = @ + 1] = w
    OBVIOUS
  <2>2. [w EXCEPT !.at = @ + 1] = r
    OBVIOUS
  <2> HIDE DEF q, r, w
  <2> QED BY <2>1, <2>2
<1>6. f.step + 1 \in Nat /\ f.calls + 1 \in Nat /\ f.at + 1 \in Nat
  BY DEF IsFrame
<1>7. IsFrame(q) /\ IsFrame(r)
  <2> HIDE DEF q, r
  <2>1. IsFrame(q)
    BY <1>3, <1>6 DEF IsFrame, q
  <2>2. IsFrame(r)
    BY <1>4, <1>6 DEF IsFrame, r
  <2> QED BY <2>1, <2>2
<1> HIDE DEF g, h, q, r
<1>8. h = r
  BY <1>1, <1>2, <1>5
<1> QED BY <1>1, <1>3, <1>4, <1>7, <1>8 DEF g, h

\* The largest of some of a list's indices.
LEMMA LastOf ==
    ASSUME NEW n \in Nat, NEW S, S \subseteq 1 .. n, S # {}
    PROVE  Max(S) \in S
<1> DEFINE T == {n - i : i \in S}
<1>1. PICK x \in T : \A y \in T : x <= y
  <2>1. \A y \in T : y \in Nat
    OBVIOUS
  <2>2. PICK i \in S : n - i \in T
    OBVIOUS
  <2> HIDE DEF T
  <2>3. T \subseteq Nat /\ T # {}
    BY <2>1, <2>2
  <2> QED BY <2>3, LeastNumber
<1>2. PICK i \in S : x = n - i
  BY <1>1
<1>3. \A j \in S : i >= j
  <2> TAKE j \in S
  <2>1. x <= n - j
    BY <1>1
  <2> QED BY <1>2, <2>1
<1>4. \E k \in S : \A j \in S : k >= j
  BY <1>3
<1> QED BY <1>4 DEF Max

-----------------------------------------------------------------------------
(* what a step of the innermost call does *)

\* An executable that runs, and all there is to it.
InShape(D) ==
    /\ def \in D
    /\ status \in {"running", "completed", "failed", "down"}
    /\ status = "running" <=> stack # <<>>
    /\ Nested(stack, def)
    /\ Listed(checkpoints) /\ \A i \in 1 .. Len(checkpoints) : IsSnapshot(checkpoints[i])
    /\ IsMemory(state)
    /\ spent \in Nat /\ lost \in Int

\* The context of the innermost call, with what it has used in this step.
Used(c) ==
    /\ IsFrame(c) /\ c.node = Top.node /\ c.id = Top.id
    /\ \/ c.calls = Top.calls /\ spent' = spent
       \/ c.calls = Top.calls + 1 /\ spent' = spent + 1

\* A workflow that is at its first node has just compiled.
Compiled == Top.node.kind = "workflow" /\ Top.at = 0 => Compiles(Top.node, registry)

\* It calls a child.
Enters(c) ==
    /\ stack' = Append(stack, c)
    /\ IsFrame(c) /\ c.node \in Children(Top.node) /\ c.calls = Top.calls
    /\ Top.node.kind = "workflow" =>
           c.id = NodeId(Top.node, Top.at + 1) /\ Key(Top) \notin DOMAIN state.completed
    /\ Compiled
    /\ IsMemory(state') /\ state'.completed = state.completed
    /\ checkpoints' = checkpoints \/ checkpoints' = Append(checkpoints, Snapshot(Top, state'))
    /\ UNCHANGED <<status, why, spent, completions, lost>>

\* It skips a node that is done.
Skips(f) ==
    /\ stack' = Append(Below, f)
    /\ IsFrame(f) /\ f.node = Top.node /\ f.id = Top.id /\ f.calls = Top.calls
    /\ Top.node.kind = "workflow" /\ Key(Top) \in DOMAIN state.completed
    /\ Compiled
    /\ IsMemory(state') /\ state'.completed = state.completed
    /\ UNCHANGED <<checkpoints, status, why, spent, completions, lost>>

\* An agent goes on to its next iteration.
Continues(f) ==
    /\ stack' = Append(Below, f) /\ Used(f)
    /\ Top.node.kind = "agent"
    /\ IsMemory(state') /\ state'.completed = state.completed
    /\ UNCHANGED <<checkpoints, status, why, completions, lost>>

\* It returns.
Returns(c, v, m) ==
    /\ Return(c, v, m) /\ Used(c)
    /\ IsMemory(m) /\ m.completed = state.completed
    /\ lost' = lost

\* It raises; a model is missing only for an agent that has none.
Raised(c, m, reason) ==
    /\ Raise(c, m, reason) /\ Used(c)
    /\ IsMemory(m) /\ m.completed = state.completed
    /\ reason = "model" => Top.node.kind = "agent" /\ Resolve(registry, Top.node) = None
    /\ lost' = lost

\* What the innermost call may do.
Acts ==
    \/ \E c : Enters(c)
    \/ \E f : Skips(f)
    \/ \E f : Continues(f)
    \/ \E c, v, m : Returns(c, v, m)
    \/ \E c, m, reason : Raised(c, m, reason)

\* The innermost context.
LEMMA TopFacts ==
    ASSUME NEW D, Programs(D), InShape(D), stack # <<>>
    PROVE  /\ Len(stack) \in Nat /\ Len(stack) # 0 /\ Top = stack[Len(stack)]
           /\ IsFrame(Top) /\ Top.node \in Within(def) /\ IsTree(def)
           /\ def.kind = "workflow"
<1>1. Nested(stack, def) /\ def \in D
  BY DEF InShape
<1>2. Len(stack) \in Nat /\ Len(stack) # 0 /\ Top = stack[Len(stack)]
  BY <1>1, Shortened DEF Nested, Top
<1>3. Len(stack) \in 1 .. Len(stack)
  BY <1>2
<1>4. IsFrame(Top) /\ Top.node \in Within(def)
  BY <1>1, <1>2, <1>3, NestedWithin DEF Nested
<1> QED BY <1>1, <1>2, <1>4 DEF Programs

\* A step that calls no model uses nothing.
LEMMA NothingUsed ==
    ASSUME NEW D, Programs(D), InShape(D), stack # <<>>, spent' = spent
    PROVE  Used(Top)
  BY TopFacts DEF Used

\* Transform.
LEMMA TransformActs ==
    ASSUME NEW D, Programs(D), InShape(D), Transform
    PROVE  Acts
<1> DEFINE value == IF Top.node.kind = "mute" THEN None ELSE Append(Top.input, Top.node.name)
<1>1. stack # <<>> /\ spent' = spent /\ IsMemory(state)
  BY DEF Transform, Driven, InShape
<1>2. Used(Top)
  BY <1>1, NothingUsed
<1>3. CASE Return(Top, value, state) /\ UNCHANGED disturbances
  <2>1. lost' = lost
    BY <1>3 DEF disturbances
  <2> HIDE DEF value
  <2>2. Returns(Top, value, state)
    BY <1>1, <1>2, <1>3, <2>1 DEF Returns
  <2> QED BY <2>2 DEF Acts
<1>4. CASE Failing /\ Raise(Top, state, "leaf")
  <2>1. lost' = lost
    BY <1>4 DEF Failing
  <2>2. Raised(Top, state, "leaf")
    BY <1>1, <1>2, <1>4, <2>1 DEF Raised
  <2> QED BY <2>2 DEF Acts
<1>5. \/ Return(Top, value, state) /\ UNCHANGED disturbances
      \/ Failing /\ Raise(Top, state, "leaf")
  BY DEF Transform
<1> QED BY <1>3, <1>4, <1>5

\* CallAgent.
LEMMA CallAgentActs ==
    ASSUME NEW D, Programs(D), InShape(D), CallAgent
    PROVE  Acts
<1> DEFINE key   == ConversationKey(Top)
           asked == IF key \in DOMAIN state.conversation THEN state.conversation[key] ELSE Top.input
           talk  == Put(state.conversation, key, asked)
           saved == [state EXCEPT !.conversation = Put(@, key, asked)]
           took  == [Top EXCEPT !.step = @ + 1]
           used  == [Top EXCEPT !.step = @ + 1, !.calls = @ + 1, !.at = @ + 1]
           answered == IsRecorded(Top) \/ Resolve(registry, Top.node) # None
           answer == Answer(Top, asked)
<1>1. stack # <<>> /\ IsMemory(state) /\ Top.node.kind = "agent"
  BY DEF CallAgent, Driven, InShape
<1>2. IsFrame(Top)
  BY <1>1, TopFacts
<1>3. /\ IsFrame(took) /\ took.node = Top.node /\ took.id = Top.id /\ took.calls = Top.calls
      /\ IsFrame(used) /\ used.node = Top.node /\ used.id = Top.id /\ used.calls = Top.calls + 1
  BY <1>2, StepTaken
<1>4. saved = [state EXCEPT !.conversation = talk]
  OBVIOUS
<1>5. IsMemory(saved) /\ saved.completed = state.completed
  <2> HIDE DEF saved, talk
  <2> QED BY <1>1, <1>4, Remembered
<1>6. \/ ~answered /\ Raise(took, state, "model") /\ UNCHANGED <<spent, disturbances>>
      \/ answered /\ Return(used, answer, saved) /\ spent' = spent + 1 /\ UNCHANGED disturbances
      \/ /\ stack' = Append(Below, used) /\ state' = saved /\ spent' = spent + 1
         /\ UNCHANGED <<status, output, why, checkpoints, completions, disturbances>>
      \/ Failing /\ Raise(took, state, "leaf") /\ UNCHANGED spent
      \/ Failing /\ answered /\ Raise(used, saved, "leaf") /\ spent' = spent + 1
  BY DEF CallAgent
<1>7. ~answered => Resolve(registry, Top.node) = None
  OBVIOUS
<1> HIDE DEF saved, took, used, answered, answer
<1>8. CASE ~answered /\ Raise(took, state, "model") /\ UNCHANGED <<spent, disturbances>>
  <2>1. Used(took) /\ lost' = lost
    BY <1>3, <1>8 DEF Used, disturbances
  <2>2. Raised(took, state, "model")
    BY <1>1, <1>7, <1>8, <2>1 DEF Raised
  <2> QED BY <2>2 DEF Acts
<1>9. CASE answered /\ Return(used, answer, saved) /\ spent' = spent + 1 /\ UNCHANGED disturbances
  <2>1. Used(used) /\ lost' = lost
    BY <1>3, <1>9 DEF Used, disturbances
  <2>2. Returns(used, answer, saved)
    BY <1>5, <1>9, <2>1 DEF Returns
  <2> QED BY <2>2 DEF Acts
<1>10. CASE Failing /\ Raise(took, state, "leaf") /\ UNCHANGED spent
  <2>1. Used(took) /\ lost' = lost
    BY <1>3, <1>10 DEF Used, Failing
  <2>2. Raised(took, state, "leaf")
    BY <1>1, <1>10, <2>1 DEF Raised
  <2> QED BY <2>2 DEF Acts
<1>11. CASE Failing /\ answered /\ Raise(used, saved, "leaf") /\ spent' = spent + 1
  <2>1. Used(used) /\ lost' = lost
    BY <1>3, <1>11 DEF Used, Failing
  <2>2. Raised(used, saved, "leaf")
    BY <1>5, <1>11, <2>1 DEF Raised
  <2> QED BY <2>2 DEF Acts
<1>12. CASE /\ stack' = Append(Below, used) /\ state' = saved /\ spent' = spent + 1
            /\ UNCHANGED <<status, output, why, checkpoints, completions, disturbances>>
  <2>1. Used(used) /\ lost' = lost
    BY <1>3, <1>12 DEF Used, disturbances
  <2>2. Continues(used)
    BY <1>1, <1>5, <1>12, <2>1 DEF Continues
  <2> QED BY <2>2 DEF Acts
<1> QED BY <1>6, <1>8, <1>9, <1>10, <1>11, <1>12

\* The children of each kind of node.
LEMMA ChildrenOf ==
    ASSUME NEW x
    PROVE  /\ x.kind = "sequence" => Children(x) = Range(x.steps)
           /\ x.kind = "workflow" => Children(x) = Range(x.nodes)
           /\ x.kind = "router" =>
                  Children(x) = {x.routes[key] : key \in DOMAIN x.routes} \cup ({x.default} \ {None})
           /\ x.kind = "loop" => Children(x) = {x.body}
           /\ x.kind \in {"agent", "transform", "mute"} => Children(x) = {}
  BY DEF Children

\* A child is entered and nothing else happens; from a workflow no child is
\* entered in this way.
LEMMA ChildEntered ==
    ASSUME NEW D, Programs(D), InShape(D), stack # <<>>, Top.node.kind # "workflow",
           NEW n \in Children(Top.node), NEW i, NEW v,
           Enter(Child(Top, n, i, v)), UNCHANGED <<state, checkpoints>>
    PROVE  Acts
<1> DEFINE c == Child(Top, n, i, v)
<1>1. IsFrame(c) /\ c.node = n /\ c.calls = Top.calls
  <2>1. IsFrame(Top)
    BY TopFacts
  <2> QED BY <2>1, ChildIs
<1>2. Enter(c)
  OBVIOUS
<1> HIDE DEF c
<1>3. /\ stack' = Append(stack, c)
      /\ UNCHANGED <<status, why, spent, completions, lost>>
  BY <1>2 DEF Enter, disturbances
<1>4. IsMemory(state') /\ state'.completed = state.completed /\ checkpoints' = checkpoints
  BY DEF InShape
<1>5. Enters(c)
  BY <1>1, <1>3, <1>4 DEF Enters, Compiled
<1> QED BY <1>5 DEF Acts

\* An element of a list.
LEMMA ElementOf ==
    ASSUME NEW s, Listed(s), NEW i \in Nat, i < Len(s)
    PROVE  s[i + 1] \in Range(s)
<1>1. i + 1 \in 1 .. Len(s) /\ DOMAIN s = 1 .. Len(s)
  BY ListedFacts
<1> QED BY <1>1 DEF Range

\* SequenceStep.
LEMMA SequenceStepActs ==
    ASSUME NEW D, Programs(D), InShape(D), SequenceStep
    PROVE  Acts
<1> DEFINE n == Top.node.steps[Top.at + 1]
<1>1. stack # <<>> /\ Top.node.kind = "sequence" /\ Top.at < Len(Top.node.steps)
  BY DEF SequenceStep, Driven, InShape
<1>2. Top.at \in Nat /\ Listed(Top.node.steps)
  BY <1>1, TopFacts DEF IsFrame, IsTree, Listed
<1>3. n \in Range(Top.node.steps)
  BY <1>1, <1>2, ElementOf
<1>4. n \in Children(Top.node)
  BY <1>1, <1>3, ChildrenOf
<1>5. Enter(Child(Top, n, StepId(n), Top.current)) /\ UNCHANGED <<state, checkpoints>>
  BY DEF SequenceStep
<1> HIDE DEF n
<1> QED BY <1>1, <1>4, <1>5, ChildEntered

\* Route.
LEMMA RouteActs ==
    ASSUME NEW D, Programs(D), InShape(D), Route
    PROVE  Acts
<1> DEFINE key    == Decide(Top.input)
           known  == key \in DOMAIN Top.node.routes
           target == IF known THEN Top.node.routes[key] ELSE Top.node.default
<1>1. stack # <<>> /\ Top.node.kind = "router" /\ IsMemory(state)
  BY DEF Route, Driven, InShape
<1>2. IF target = None
      THEN Raise(Top, state, "route") /\ UNCHANGED <<execution, spent, disturbances>>
      ELSE /\ Enter(Child(Top, target, RouteId(Top.node, key), None))
           /\ UNCHANGED <<state, checkpoints>>
  BY DEF Route
<1>3. target # None => target \in Children(Top.node)
  BY <1>1, ChildrenOf
<1> HIDE DEF key, target
<1>4. CASE target = None
  <2>1. Raise(Top, state, "route") /\ spent' = spent /\ lost' = lost
    BY <1>2, <1>4 DEF disturbances
  <2>2. Used(Top)
    BY <1>1, <2>1, NothingUsed
  <2>3. Raised(Top, state, "route")
    BY <1>1, <2>1, <2>2 DEF Raised
  <2> QED BY <2>3 DEF Acts
<1>5. CASE target # None
  <2>1. /\ Enter(Child(Top, target, RouteId(Top.node, key), None))
        /\ UNCHANGED <<state, checkpoints>>
    BY <1>2, <1>5
  <2>2. target \in Children(Top.node)
    BY <1>3, <1>5
  <2>3. Top.node.kind # "workflow"
    BY <1>1
  <2> QED BY <1>1, <2>1, <2>2, <2>3, ChildEntered
<1> QED BY <1>4, <1>5

\* LoopRound.
LEMMA LoopRoundActs ==
    ASSUME NEW D, Programs(D), InShape(D), LoopRound
    PROVE  Acts
<1> DEFINE n == Top.node.body
           i == RoundId(Top.node, Top.at + 1)
<1>1. stack # <<>> /\ Top.node.kind = "loop"
  BY DEF LoopRound, Driven, InShape
<1>2. n \in Children(Top.node) /\ Top.node.kind # "workflow"
  BY <1>1, ChildrenOf
<1>3. Enter(Child(Top, n, i, Top.current)) /\ UNCHANGED <<state, checkpoints>>
  BY DEF LoopRound
<1> HIDE DEF n, i
<1> QED BY <1>1, <1>2, <1>3, ChildEntered

\* Refuse.
LEMMA RefuseActs ==
    ASSUME NEW D, Programs(D), InShape(D), Refuse
    PROVE  Acts
<1>1. stack # <<>> /\ IsMemory(state)
  BY DEF Refuse, Working, Driven, InShape
<1>2. Raise(Top, state, "definition") /\ spent' = spent /\ lost' = lost
  BY DEF Refuse, disturbances
<1>3. Used(Top)
  BY <1>1, <1>2, NothingUsed
<1>4. Raised(Top, state, "definition")
  BY <1>1, <1>2, <1>3 DEF Raised
<1> QED BY <1>4 DEF Acts

\* The hashes of the definitions are kept beside what is done.
LEMMA HashedIs ==
    ASSUME IsMemory(state)
    PROVE  IsMemory(Hashed) /\ Hashed.completed = state.completed
<1> DEFINE v == Put(state.hash, Top.node.name, Signature(Top.node))
<1>1. Hashed = [state EXCEPT !.hash = v]
  BY DEF Hashed
<1> HIDE DEF v
<1> QED BY <1>1, Remembered

\* SkipNode.
LEMMA SkipNodeActs ==
    ASSUME NEW D, Programs(D), InShape(D), SkipNode
    PROVE  Acts
<1> DEFINE v == SkippedOutput(Top)
           f == [Top EXCEPT !.current = v, !.at = @ + 1]
<1>1. stack # <<>> /\ IsMemory(state) /\ Admitted
  BY DEF SkipNode, Working, Driven, InShape
<1>2. IsFrame(f) /\ f.node = Top.node /\ f.id = Top.id /\ f.calls = Top.calls
  <2>1. IsFrame(Top)
    BY <1>1, TopFacts
  <2> HIDE DEF v
  <2> QED BY <2>1, GoneOn
<1>3. stack' = Append(Below, f) /\ state' = Hashed
  BY DEF SkipNode
<1>4. UNCHANGED <<checkpoints, status, why, spent, completions, lost>>
  BY DEF SkipNode, disturbances
<1>5. Top.node.kind = "workflow" /\ Key(Top) \in DOMAIN state.completed /\ Compiled
  BY <1>1 DEF SkipNode, Working, Admitted, Compiled
<1> HIDE DEF f
<1>6. IsMemory(state') /\ state'.completed = state.completed
  BY <1>1, <1>3, HashedIs
<1>7. Skips(f)
  BY <1>2, <1>3, <1>4, <1>5, <1>6 DEF Skips
<1> QED BY <1>7 DEF Acts

\* StartNode.
LEMMA StartNodeActs ==
    ASSUME NEW D, Programs(D), InShape(D), StartNode
    PROVE  Acts
<1> DEFINE n == Top.node.nodes[Top.at + 1]
           i == NodeId(Top.node, Top.at + 1)
           c == Child(Top, n, i, Top.current)
<1>1. /\ stack # <<>> /\ IsMemory(state) /\ Admitted
      /\ Top.node.kind = "workflow" /\ Top.at < Len(Top.node.nodes)
  BY DEF StartNode, Working, Driven, InShape
<1>2. IsFrame(Top) /\ Top.at \in Nat /\ Listed(Top.node.nodes)
  BY <1>1, TopFacts DEF IsFrame, IsTree, Listed
<1>3. n \in Range(Top.node.nodes)
  BY <1>1, <1>2, ElementOf
<1>4. n \in Children(Top.node)
  BY <1>1, <1>3, ChildrenOf
<1>5. IsFrame(c) /\ c.node = n /\ c.id = i /\ c.calls = Top.calls
  <2> HIDE DEF n, i
  <2> QED BY <1>2, ChildIs
<1>6. Enter(c) /\ state' = Hashed /\ Save(Top, Hashed)
  BY DEF StartNode
<1> HIDE DEF c
<1>7. /\ stack' = Append(stack, c)
      /\ UNCHANGED <<status, why, spent, completions, lost>>
  BY <1>6 DEF Enter, disturbances
<1>8. Key(Top) \notin DOMAIN state.completed /\ Compiled
  BY <1>1 DEF StartNode, Admitted, Compiled
<1>9. IsMemory(state') /\ state'.completed = state.completed
  BY <1>1, <1>6, HashedIs
<1>10. checkpoints' = Append(checkpoints, Snapshot(Top, state'))
  BY <1>6 DEF Save
<1>11. c.node \in Children(Top.node) /\ c.id = NodeId(Top.node, Top.at + 1)
  BY <1>4, <1>5
<1> HIDE DEF n, i
<1>12. Enters(c)
  BY <1>5, <1>7, <1>8, <1>9, <1>10, <1>11 DEF Enters
<1> QED BY <1>12 DEF Acts

\* ReturnCurrent.
LEMMA ReturnCurrentActs ==
    ASSUME NEW D, Programs(D), InShape(D), ReturnCurrent
    PROVE  Acts
<1>1. stack # <<>> /\ IsMemory(state)
  BY DEF ReturnCurrent, Driven, InShape
<1>2. Return(Top, Top.current, state) /\ spent' = spent /\ lost' = lost
  BY DEF ReturnCurrent, disturbances
<1>3. Used(Top)
  BY <1>1, <1>2, NothingUsed
<1>4. Returns(Top, Top.current, state)
  BY <1>1, <1>2, <1>3 DEF Returns
<1> QED BY <1>4 DEF Acts

\* Every step of the innermost call is one of the four, on what stays the same
\* program and the same models.
LEMMA DriveActs ==
    ASSUME NEW D, Programs(D), InShape(D), Drive
    PROVE  /\ stack # <<>> /\ status = "running" /\ Acts
           /\ UNCHANGED <<def, registry, changed>>
<1>1. Acts
  BY TransformActs, CallAgentActs, SequenceStepActs, RouteActs, LoopRoundActs,
     RefuseActs, SkipNodeActs, StartNodeActs, ReturnCurrentActs DEF Drive
<1>2. status = "running" /\ UNCHANGED execution
  <2>1. CASE Transform BY <2>1 DEF Transform, Driven
  <2>2. CASE CallAgent BY <2>2 DEF CallAgent, Driven
  <2>3. CASE SequenceStep BY <2>3 DEF SequenceStep, Driven, Enter
  <2>4. CASE Route
    <3>1. status = "running"
      BY <2>4 DEF Route, Driven
    <3>2. UNCHANGED execution
      BY <2>4 DEF Route, Enter
    <3> QED BY <3>1, <3>2
  <2>5. CASE LoopRound BY <2>5 DEF LoopRound, Driven, Enter
  <2>6. CASE Refuse BY <2>6 DEF Refuse, Working, Driven
  <2>7. CASE SkipNode BY <2>7 DEF SkipNode, Working, Driven
  <2>8. CASE StartNode BY <2>8 DEF StartNode, Working, Driven, Enter
  <2>9. CASE ReturnCurrent BY <2>9 DEF ReturnCurrent, Driven
  <2> QED BY <2>1, <2>2, <2>3, <2>4, <2>5, <2>6, <2>7, <2>8, <2>9 DEF Drive
<1>3. stack # <<>>
  BY <1>2 DEF InShape
<1> QED BY <1>1, <1>2, <1>3 DEF execution

-----------------------------------------------------------------------------
(* the stack, the memory and the checkpoints keep their shape *)

\* The outermost call returns and the execution is completed.
Finishes(c) ==
    /\ Used(c) /\ Len(stack) = 1 /\ stack' = <<>> /\ status' = "completed"
    /\ IsMemory(state') /\ state'.completed = state.completed
    /\ checkpoints' = Append(checkpoints, Snapshot(c, state'))
    /\ UNCHANGED <<why, completions, lost>>

\* The caller f takes up what c has returned, and records it when it is a workflow.
GoesOn(c, f) ==
    /\ Used(c) /\ Len(stack) # 1 /\ stack' = Append(Front(Below), f)
    /\ IsFrame(f) /\ f.node = Last(Below).node /\ f.id = Last(Below).id
    /\ f.at = Last(Below).at + 1
    /\ f.calls = IF Last(Below).calls <= c.calls THEN c.calls ELSE Last(Below).calls
    /\ IsMemory(state')
    /\ \/ /\ Last(Below).node.kind = "workflow"
          /\ DOMAIN state'.completed = DOMAIN state.completed \cup {Key(Last(Below))}
          /\ checkpoints' = Append(checkpoints, Snapshot(f, state'))
          /\ completions' = completions (+) SetToBag({Key(Last(Below))})
       \/ /\ Last(Below).node.kind # "workflow"
          /\ state'.completed = state.completed
          /\ UNCHANGED <<checkpoints, completions>>
    /\ UNCHANGED <<status, why, lost>>

\* The calls that enclose the innermost one.
LEMMA BelowFacts ==
    ASSUME NEW D, Programs(D), InShape(D), stack # <<>>
    PROVE  /\ Nested(Below, def) /\ Len(Below) = Len(stack) - 1
           /\ \A i \in 1 .. Len(stack) - 1 : Below[i] = stack[i]
           /\ Below = <<>> <=> Len(stack) = 1
           /\ Len(stack) # 1 =>
                  /\ Last(Below) = stack[Len(stack) - 1] /\ IsFrame(Last(Below))
                  /\ Len(stack) - 1 \in 1 .. Len(stack) - 1
<1>1. Nested(stack, def)
  BY DEF InShape
<1>2. /\ Len(stack) \in Nat /\ Len(stack) # 0 /\ Len(Below) = Len(stack) - 1
      /\ \A i \in 1 .. Len(stack) - 1 : Below[i] = stack[i]
      /\ Below = <<>> <=> Len(stack) = 1
  BY <1>1, Shortened DEF Nested, Below
<1>3. Nested(Below, def)
  BY <1>1, NestedBelow DEF Below
<1>4. ASSUME Len(stack) # 1
      PROVE  /\ Last(Below) = stack[Len(stack) - 1] /\ IsFrame(Last(Below))
             /\ Len(stack) - 1 \in 1 .. Len(stack) - 1
  <2>1. Len(stack) - 1 \in 1 .. Len(stack) - 1 /\ Len(stack) - 1 \in 1 .. Len(stack)
    BY <1>2, <1>4
  <2>2. Last(Below) = Below[Len(stack) - 1]
    BY <1>2 DEF Last
  <2>3. Last(Below) = stack[Len(stack) - 1]
    BY <1>2, <2>1, <2>2
  <2>4. IsFrame(stack[Len(stack) - 1])
    BY <1>1, <2>1 DEF Nested
  <2> QED BY <2>1, <2>3, <2>4
<1> QED BY <1>2, <1>3, <1>4

\* A call that returns ends the execution or hands over to its caller.
LEMMA Returned ==
    ASSUME NEW D, Programs(D), InShape(D), stack # <<>>,
           NEW c, NEW v, NEW m, Returns(c, v, m)
    PROVE  Finishes(c) \/ \E f : GoesOn(c, f)
<1>1. Below = <<>> <=> Len(stack) = 1
  BY BelowFacts
<1>2. /\ Return(c, v, m) /\ Used(c) /\ IsMemory(m) /\ m.completed = state.completed
      /\ lost' = lost
  BY DEF Returns
<1>3. CASE Below = <<>>
  <2>1. /\ stack' = <<>> /\ status' = "completed" /\ state' = m /\ Save(c, m)
        /\ UNCHANGED <<why, completions>>
    BY <1>2, <1>3 DEF Return
  <2>2. Finishes(c)
    BY <1>1, <1>2, <1>3, <2>1 DEF Finishes, Save
  <2> QED BY <2>2
<1>4. CASE Below # <<>>
  <2> DEFINE b == Last(Below)
             g == Merged(b, c)
             f == [g EXCEPT !.current = v, !.at = @ + 1]
             done == <<f.node.name, c.id>>
             w == Put(m.completed, done, v)
             told == [m EXCEPT !.completed = Put(@, done, v)]
  <2>1. /\ stack' = Append(Front(Below), f)
        /\ IF f.node.kind = "workflow"
           THEN /\ state' = told /\ Save(f, told)
                /\ completions' = completions (+) SetToBag({done})
           ELSE state' = m /\ UNCHANGED <<checkpoints, completions>>
        /\ UNCHANGED <<status, why>>
    BY <1>2, <1>4 DEF Return
  <2>2. IsFrame(b) /\ b = stack[Len(stack) - 1] /\ Len(stack) - 1 \in 1 .. Len(stack) - 1 /\ Len(stack) # 1
    BY <1>1, <1>4, BelowFacts
  <2>3. /\ IsFrame(g) /\ g.node = b.node /\ g.id = b.id /\ g.at = b.at
        /\ g.calls = IF b.calls <= c.calls THEN c.calls ELSE b.calls
    <3>1. IsFrame(c)
      BY <1>2 DEF Used
    <3> HIDE DEF b
    <3> QED BY <2>2, <3>1, MergedFacts
  <2> HIDE DEF g
  <2>4. IsFrame(f) /\ f.node = g.node /\ f.id = g.id /\ f.at = g.at + 1 /\ f.calls = g.calls
    BY <2>3, GoneOn
  <2>5. told = [m EXCEPT !.completed = w]
    OBVIOUS
  <2>6. IsMemory(told) /\ told.completed = w
    <3> HIDE DEF told, w
    <3> QED BY <1>2, <2>5, Remembered
  <2>7. DOMAIN w = DOMAIN state.completed \cup {done}
    <3> HIDE DEF done
    <3> QED BY <1>2 DEF Put
  <2> HIDE DEF b, f, told, w
  <2>8. b.node.kind = "workflow" => done = Key(b)
    <3>1. HAVE b.node.kind = "workflow"
    <3>2. Nested(stack, def) /\ Len(stack) \in Nat /\ c.id = Top.id /\ Top = stack[Len(stack)]
      BY <1>2, TopFacts DEF InShape, Used
    <3> DEFINE i == Len(stack) - 1
    <3>3. i \in 1 .. Len(stack) - 1 /\ b = stack[i] /\ i + 1 = Len(stack)
      BY <2>2, <3>2
    <3> HIDE DEF i
    <3>4. stack[i + 1].id = NodeId(b.node, b.at + 1)
      BY <3>1, <3>2, <3>3 DEF Nested
    <3>5. c.id = NodeId(b.node, b.at + 1)
      BY <3>2, <3>3, <3>4
    <3> QED BY <2>3, <2>4, <3>5 DEF Key
  <2>9. CASE b.node.kind = "workflow"
    <3>1. /\ state' = told /\ Save(f, told)
          /\ completions' = completions (+) SetToBag({Key(b)})
      <4>1. f.node.kind = "workflow"
        BY <2>3, <2>4, <2>9
      <4> HIDE DEF done
      <4> QED BY <2>1, <2>8, <2>9, <4>1
    <3>2. DOMAIN state'.completed = DOMAIN state.completed \cup {Key(b)}
      <4> HIDE DEF done
      <4> QED BY <2>6, <2>7, <2>8, <2>9, <3>1
    <3>3. checkpoints' = Append(checkpoints, Snapshot(f, state'))
      BY <3>1 DEF Save
    <3> HIDE DEF done
    <3>4. GoesOn(c, f)
      BY <1>2, <2>1, <2>2, <2>3, <2>4, <2>6, <2>9, <3>1, <3>2, <3>3 DEF GoesOn, b
    <3> QED BY <3>4
  <2>10. CASE b.node.kind # "workflow"
    <3>1. f.node.kind # "workflow"
      BY <2>3, <2>4, <2>10
    <3> HIDE DEF done
    <3>2. state' = m /\ UNCHANGED <<checkpoints, completions>>
      BY <2>1, <3>1
    <3>3. GoesOn(c, f)
      BY <1>2, <2>1, <2>2, <2>3, <2>4, <2>10, <3>2 DEF GoesOn, b
    <3> QED BY <3>3
  <2> QED BY <2>9, <2>10
<1> QED BY <1>3, <1>4

\* The root context of a call that raises.
LEMMA RaisedFacts ==
    ASSUME NEW D, Programs(D), InShape(D), stack # <<>>, NEW c, NEW m, NEW reason,
           Raised(c, m, reason)
    PROVE  LET r == Unwound(Append(Below, c))
           IN /\ IsFrame(r)
              /\ (\A i \in 1 .. Len(stack) - 1 :
                      stack[i].node.kind = "workflow" /\ stack[i].calls <= c.calls)
                    => r.calls = c.calls
<1> DEFINE s == Append(Below, c)
           L == Len(stack)
<1>1. IsFrame(c) /\ c.node = Top.node /\ c.id = Top.id
  BY DEF Raised, Used
<1>2. Nested(stack, def) /\ L \in Nat /\ L # 0 /\ Top = Last(stack)
  BY TopFacts DEF InShape, Top
<1>3. Nested(s, def) /\ Len(s) = L /\ s[L] = c /\ \A i \in 1 .. L - 1 : s[i] = stack[i]
  BY <1>1, <1>2, NestedOn DEF Below
<1> HIDE DEF s
<1>4. Listed(s) /\ s # <<>> /\ \A i \in 1 .. Len(s) : IsFrame(s[i])
  <2>1. 1 \in 1 .. Len(s)
    BY <1>2, <1>3
  <2> QED BY <1>3, <2>1, NestedWithin DEF Nested
<1>5. /\ IsFrame(Unwound(s))
      /\ (\A i \in 1 .. Len(s) - 1 :
               s[i].node.kind = "workflow" /\ s[i].calls <= s[Len(s)].calls)
             => Unwound(s).calls = s[Len(s)].calls
  BY <1>4, UnwoundFacts
<1>6. ASSUME \A i \in 1 .. L - 1 :
                 stack[i].node.kind = "workflow" /\ stack[i].calls <= c.calls
      PROVE  Unwound(s).calls = c.calls
  BY <1>3, <1>5, <1>6
<1> QED BY <1>5, <1>6 DEF s, L

\* A checkpoint is saved.
LEMMA Saved ==
    ASSUME NEW s, Listed(s), \A i \in 1 .. Len(s) : IsSnapshot(s[i]),
           NEW f, IsFrame(f), NEW m, IsMemory(m)
    PROVE  LET t == Append(s, Snapshot(f, m))
           IN /\ Listed(t) /\ t # <<>> /\ \A i \in 1 .. Len(t) : IsSnapshot(t[i])
              /\ Last(t).calls = f.calls /\ Last(t).state = m
<1> DEFINE c == Snapshot(f, m)
           t == Append(s, c)
<1>1. IsSnapshot(c) /\ c.calls = f.calls /\ c.state = m
  BY SnapshotIs
<1> HIDE DEF c
<1>2. /\ Listed(t) /\ t # <<>> /\ Len(t) = Len(s) + 1 /\ t[Len(s) + 1] = c
      /\ \A i \in 1 .. Len(s) : t[i] = s[i]
      /\ Last(t) = c
  BY Appended
<1> HIDE DEF t
<1>3. Len(s) \in Nat
  BY ListedFacts
<1>4. \A i \in 1 .. Len(t) : IsSnapshot(t[i])
  <2> TAKE i \in 1 .. Len(t)
  <2>1. i \in 1 .. Len(s) \/ i = Len(s) + 1
    BY <1>2, <1>3
  <2> QED BY <1>1, <1>2, <2>1
<1> QED BY <1>1, <1>2, <1>4 DEF c, t

\* The last checkpoint.
LEMMA LastSnapshot ==
    ASSUME NEW s, Listed(s), s # <<>>, \A i \in 1 .. Len(s) : IsSnapshot(s[i])
    PROVE  IsSnapshot(Last(s))
<1>1. Len(s) \in 1 .. Len(s) /\ Last(s) = s[Len(s)]
  <2>1. Len(s) \in Nat /\ Len(s) # 0 /\ Last(s) = s[Len(s)]
    BY Shortened
  <2> QED BY <2>1
<1> QED BY <1>1

\* No step of the innermost call spoils the shape.
LEMMA ActsShape ==
    ASSUME NEW D, Programs(D), InShape(D), stack # <<>>, Acts, UNCHANGED def
    PROVE  InShape(D)'
<1>1. /\ def \in D /\ Nested(stack, def) /\ IsMemory(state)
      /\ Listed(checkpoints) /\ \A i \in 1 .. Len(checkpoints) : IsSnapshot(checkpoints[i])
      /\ spent \in Nat /\ lost \in Int
      /\ status = "running"
  BY DEF InShape
<1>2. IsFrame(Top) /\ IsTree(def) /\ Top = Last(stack)
  BY TopFacts DEF Top
<1>3. ASSUME NEW c, Enters(c) PROVE InShape(D)'
  <2>1. /\ stack' = Append(stack, c) /\ IsFrame(c) /\ c.node \in Children(Top.node)
        /\ Top.node.kind = "workflow" => c.id = NodeId(Top.node, Top.at + 1)
        /\ IsMemory(state')
        /\ checkpoints' = checkpoints \/ checkpoints' = Append(checkpoints, Snapshot(Top, state'))
        /\ UNCHANGED <<status, spent, lost>>
    BY <1>3 DEF Enters
  <2>2. Nested(stack', def')
    BY <1>1, <1>2, <2>1, NestedEnter
  <2>3. stack' # <<>>
    BY <1>1, <2>1, Appended DEF Nested
  <2>4. Listed(checkpoints') /\ \A i \in 1 .. Len(checkpoints') : IsSnapshot(checkpoints'[i])
    <3>1. CASE checkpoints' = checkpoints
      BY <1>1, <3>1
    <3>2. CASE checkpoints' = Append(checkpoints, Snapshot(Top, state'))
      BY <1>1, <1>2, <2>1, <3>2, Saved
    <3> QED BY <2>1, <3>1, <3>2
  <2> QED BY <1>1, <2>1, <2>2, <2>3, <2>4 DEF InShape
<1>4. ASSUME NEW f, Skips(f) PROVE InShape(D)'
  <2>1. /\ stack' = Append(Below, f) /\ IsFrame(f) /\ f.node = Top.node /\ f.id = Top.id
        /\ IsMemory(state')
        /\ UNCHANGED <<checkpoints, status, spent, lost>>
    BY <1>4 DEF Skips
  <2>2. Nested(stack', def') /\ Len(stack') = Len(stack)
    BY <1>1, <1>2, <2>1, NestedOn DEF Below
  <2>3. stack' # <<>>
    BY <2>2, TopFacts, NothingListed
  <2> QED BY <1>1, <2>1, <2>2, <2>3 DEF InShape
<1>5. ASSUME NEW c, Used(c) PROVE IsFrame(c) /\ spent' \in Nat
  BY <1>1, <1>5 DEF Used
<1>6. ASSUME NEW c, Finishes(c) PROVE InShape(D)'
  <2>1. /\ Used(c) /\ stack' = <<>> /\ status' = "completed" /\ IsMemory(state')
        /\ checkpoints' = Append(checkpoints, Snapshot(c, state')) /\ UNCHANGED lost
    BY <1>6 DEF Finishes
  <2>2. Nested(stack', def')
    BY <2>1, NestedNone
  <2>3. Listed(checkpoints') /\ \A i \in 1 .. Len(checkpoints') : IsSnapshot(checkpoints'[i])
    BY <1>1, <1>5, <2>1, Saved
  <2> QED BY <1>1, <1>5, <2>1, <2>2, <2>3 DEF InShape
<1>7. ASSUME NEW c, NEW f, GoesOn(c, f) PROVE InShape(D)'
  <2>1. /\ Used(c) /\ Len(stack) # 1 /\ stack' = Append(Front(Below), f)
        /\ IsFrame(f) /\ f.node = Last(Below).node /\ f.id = Last(Below).id
        /\ IsMemory(state')
        /\ checkpoints' = checkpoints \/ checkpoints' = Append(checkpoints, Snapshot(f, state'))
        /\ UNCHANGED <<status, lost>>
    BY <1>7 DEF GoesOn
  <2>2. Nested(Below, def) /\ Below # <<>>
    BY <2>1, BelowFacts
  <2>3. Nested(stack', def') /\ Len(stack') = Len(Below)
    BY <2>1, <2>2, NestedOn
  <2>4. Len(Below) # 0
    BY <2>2, ListedFacts DEF Nested
  <2>5. stack' # <<>>
    BY <2>3, <2>4, NothingListed
  <2>6. Listed(checkpoints') /\ \A i \in 1 .. Len(checkpoints') : IsSnapshot(checkpoints'[i])
    <3>1. CASE checkpoints' = checkpoints
      BY <1>1, <3>1
    <3>2. CASE checkpoints' = Append(checkpoints, Snapshot(f, state'))
      BY <1>1, <2>1, <3>2, Saved
    <3> QED BY <2>1, <3>1, <3>2
  <2> QED BY <1>1, <1>5, <2>1, <2>3, <2>5, <2>6 DEF InShape
<1>8. ASSUME NEW c, NEW m, NEW reason, Raised(c, m, reason) PROVE InShape(D)'
  <2>1. /\ Used(c) /\ stack' = <<>> /\ status' = "failed" /\ state' = m /\ IsMemory(m)
        /\ checkpoints' = Append(checkpoints, Snapshot(Unwound(Append(Below, c)), m))
        /\ UNCHANGED lost
    BY <1>8 DEF Raised, Raise, Save
  <2>2. Nested(stack', def')
    BY <2>1, NestedNone
  <2>3. IsFrame(Unwound(Append(Below, c)))
    BY <1>8, RaisedFacts
  <2>4. Listed(checkpoints') /\ \A i \in 1 .. Len(checkpoints') : IsSnapshot(checkpoints'[i])
    BY <1>1, <2>1, <2>3, Saved
  <2> QED BY <1>1, <1>5, <2>1, <2>2, <2>4 DEF InShape
<1>9. ASSUME NEW c, NEW v, NEW m, Returns(c, v, m) PROVE InShape(D)'
  <2>1. Finishes(c) \/ \E f : GoesOn(c, f)
    BY <1>9, Returned
  <2> QED BY <1>6, <1>7, <2>1
<1>10. ASSUME NEW f, Continues(f) PROVE InShape(D)'
  <2>1. /\ stack' = Append(Below, f) /\ Used(f) /\ f.node = Top.node /\ f.id = Top.id
        /\ IsMemory(state') /\ UNCHANGED <<checkpoints, status, lost>>
    BY <1>10 DEF Continues, Used
  <2>2. IsFrame(f) /\ spent' \in Nat
    BY <1>5, <2>1
  <2>3. Nested(stack', def') /\ Len(stack') = Len(stack)
    BY <1>1, <1>2, <2>1, <2>2, NestedOn DEF Below
  <2>4. stack' # <<>>
    BY <2>3, TopFacts, NothingListed
  <2> QED BY <1>1, <2>1, <2>2, <2>3, <2>4 DEF InShape
<1> QED BY <1>3, <1>4, <1>8, <1>9, <1>10 DEF Acts

\* An agent has a caller.
LEMMA CalledAgent ==
    ASSUME NEW D, Programs(D), InShape(D), stack # <<>>, Top.node.kind = "agent"
    PROVE  Len(stack) # 1 /\ Last(Below) = stack[Len(stack) - 1] /\ IsFrame(Last(Below))
<1>1. /\ Len(stack) \in Nat /\ Len(stack) # 0 /\ Top = stack[Len(stack)]
      /\ def.kind = "workflow" /\ stack[1].node = def
  BY TopFacts DEF InShape, Nested
<1>2. Len(stack) # 1
  BY <1>1
<1> QED BY <1>2, BelowFacts

\* Crash.
LEMMA CrashFacts ==
    ASSUME NEW D, Programs(D), InShape(D), Crash
    PROVE  /\ InShape(D)'
           /\ stack # <<>> /\ stack' = <<>> /\ status' = "down"
           /\ lost' = lost + Unmerged + (spent' - spent) /\ Unmerged \in Int
           /\ UNCHANGED <<def, registry, changed, why, state, checkpoints, completions>>
<1>1. /\ stack' = <<>> /\ status' = "down" /\ lost' = lost + Unmerged + (spent' - spent)
      /\ UNCHANGED <<execution, why, state, checkpoints, completions>>
  BY DEF Crash
<1>2. spent' \in {spent, spent + 1}
  BY DEF Crash
<1>3. Nested(stack', def')
  BY <1>1, NestedNone
<1>4. stack # <<>>
  BY DEF Crash, Driven, InShape
<1>5. Unmerged \in Int
  <2>1. IsFrame(Top)
    BY <1>4, TopFacts
  <2>2. CASE Top.node.kind = "agent"
    <3>1. IsFrame(Last(Below))
      BY <1>4, <2>2, CalledAgent
    <3> QED BY <2>1, <2>2, <3>1 DEF Unmerged, IsFrame
  <2>3. CASE Top.node.kind # "agent"
    BY <2>3 DEF Unmerged
  <2> QED BY <2>2, <2>3
<1>6. spent' \in Nat /\ lost' \in Int
  BY <1>1, <1>2, <1>5 DEF InShape
<1> QED BY <1>1, <1>2, <1>3, <1>4, <1>5, <1>6 DEF InShape, execution

\* Resume goes on from the last checkpoint.
LEMMA ResumeFacts ==
    ASSUME NEW D, Programs(D), InShape(D), Resume
    PROVE  /\ InShape(D)'
           /\ status' = "running" /\ checkpoints # <<>>
           /\ \E f : /\ stack' = <<f>> /\ IsFrame(f) /\ f.at = 0 /\ f.node = def'
                     /\ f.calls = Last(checkpoints).calls
           /\ state' = Last(checkpoints).state
           /\ def' \in {def} \cup Revised(def)
           /\ UNCHANGED <<registry, changed, why, checkpoints, spent, completions, lost>>
<1> DEFINE c == LatestCheckpoint(checkpoints)
           f == Root(def', input, c)
<1>1. /\ checkpoints # <<>> /\ stack' = <<f>> /\ state' = c.state
      /\ def' \in {def} \cup Revised(def) /\ status' = "running"
      /\ UNCHANGED <<registry, changed, why, checkpoints, spent, completions, lost>>
  BY DEF Resume
<1>2. c = Last(checkpoints) /\ IsSnapshot(c)
  BY <1>1, LastSnapshot DEF InShape, LatestCheckpoint
<1> HIDE DEF c
<1>3. IsFrame(f) /\ f.at = 0 /\ f.node = def' /\ f.calls = c.calls
  BY <1>2, RootIs DEF IsSnapshot
<1>4. def' \in D
  BY <1>1 DEF InShape, Programs, Variants
<1> HIDE DEF f
<1>5. Nested(stack', def') /\ stack' # <<>>
  BY <1>1, <1>3, NestedRoot, Alone
<1>6. IsMemory(state')
  BY <1>1, <1>2 DEF IsSnapshot
<1>7. InShape(D)'
  BY <1>1, <1>4, <1>5, <1>6 DEF InShape
<1> QED BY <1>1, <1>2, <1>3, <1>7

\* Fork starts another execution with the memory of a checkpoint.
LEMMA ForkFacts ==
    ASSUME NEW D, Programs(D), InShape(D), NEW step, NEW given \in Overrides, Fork(step, given)
    PROVE  /\ InShape(D)'
           /\ status' = "running"
           /\ \E f : stack' = <<f>> /\ IsFrame(f) /\ f.at = 0 /\ f.node = def' /\ f.calls = 0
           /\ def' \in {def} \cup Variants(def)
           /\ checkpoints' = <<>> /\ spent' = 0 /\ lost' = 0 /\ completions' = EmptyBag
           /\ UNCHANGED <<registry, changed, why>>
<1> DEFINE candidates == AtStep(checkpoints, step)
           kept == IF candidates = {} THEN Fresh ELSE checkpoints[Max(candidates)].state
           target == IF given.model = None THEN def ELSE RebindModel(def, given.model)
           value == IF given.input = None THEN input ELSE given.input
           f == Root(target, value, Start)
           responses == given.responses
<1>1. /\ state' = [kept EXCEPT !.hash = <<>>, !.recorded = responses]
      /\ def' = target /\ stack' = <<f>> /\ status' = "running"
      /\ checkpoints' = <<>> /\ spent' = 0 /\ lost' = 0 /\ completions' = EmptyBag
      /\ UNCHANGED <<registry, changed, why>>
  BY DEF Fork
<1>2. target \in {def} \cup Variants(def)
  BY DEF Variants
<1>3. IsMemory(kept)
  <2>1. candidates \subseteq DOMAIN checkpoints
    BY DEF AtStep
  <2>2. Len(checkpoints) \in Nat /\ DOMAIN checkpoints = 1 .. Len(checkpoints)
    BY ListedFacts DEF InShape
  <2> HIDE DEF candidates
  <2>3. candidates # {} => Max(candidates) \in 1 .. Len(checkpoints)
    BY <2>1, <2>2, LastOf
  <2>4. candidates # {} => IsMemory(checkpoints[Max(candidates)].state)
    BY <2>3 DEF InShape, IsSnapshot
  <2> QED BY <2>4, FreshIs
<1> HIDE DEF kept, target, value, responses
<1>4. IsMemory(state')
  BY <1>1, <1>3, ForkedMemory
<1>5. IsFrame(f) /\ f.at = 0 /\ f.node = def' /\ f.calls = 0
  BY <1>1, RootIs, StartIs
<1>6. def' \in D
  BY <1>1, <1>2 DEF InShape, Programs
<1> HIDE DEF f
<1>7. Nested(stack', def') /\ stack' # <<>>
  BY <1>1, <1>5, NestedRoot, Alone
<1>8. Listed(checkpoints') /\ \A i \in 1 .. Len(checkpoints') : IsSnapshot(checkpoints'[i])
  BY <1>1, NothingListed
<1>9. InShape(D)'
  BY <1>1, <1>4, <1>6, <1>7, <1>8 DEF InShape
<1> QED BY <1>1, <1>2, <1>5, <1>9

\* The models change and nothing else does.
LEMMA ChangeRegistryFacts ==
    ASSUME NEW D, InShape(D), ChangeRegistry
    PROVE  /\ InShape(D)' /\ changed' = TRUE
           /\ UNCHANGED <<def, status, why, stack, state, checkpoints, spent, completions, lost>>
<1>1. /\ changed' = TRUE
      /\ UNCHANGED <<def, status, why, stack, state, checkpoints, spent, completions, disturbances>>
  BY DEF ChangeRegistry
<1>2. UNCHANGED <<def, status, why, stack, state, checkpoints, spent, completions, lost>>
  BY <1>1 DEF disturbances
<1>3. InShape(D)'
  BY <1>2 DEF InShape
<1> QED BY <1>1, <1>2, <1>3

\* An execution begins in shape.
LEMMA InitShape ==
    ASSUME NEW D, Programs(D), Init
    PROVE  /\ InShape(D)
           /\ \E f : stack = <<f>> /\ IsFrame(f) /\ f.at = 0 /\ f.node = def /\ f.calls = 0
<1> DEFINE f == Root(def, input, Start)
<1>1. /\ def \in D /\ status = "running" /\ stack = <<f>> /\ state = Fresh /\ checkpoints = <<>>
      /\ spent = 0 /\ lost = 0
  BY DEF Init, Programs
<1>2. IsFrame(f) /\ f.at = 0 /\ f.node = def /\ f.calls = 0
  BY RootIs, StartIs
<1> HIDE DEF f
<1>3. Nested(stack, def) /\ stack # <<>>
  BY <1>1, <1>2, NestedRoot, Alone
<1>4. Listed(checkpoints) /\ \A i \in 1 .. Len(checkpoints) : IsSnapshot(checkpoints[i])
  BY <1>1, NothingListed
<1>5. InShape(D)
  BY <1>1, <1>3, <1>4, FreshIs DEF InShape
<1> QED BY <1>1, <1>2, <1>5

\* Nothing happens.
LEMMA StutterShape ==
    ASSUME NEW D, InShape(D), UNCHANGED vars
    PROVE  InShape(D)'
  BY DEF InShape, vars, execution, disturbances

\* Every step keeps the shape.
LEMMA NextShape ==
    ASSUME NEW D, Programs(D), InShape(D), [Next]_vars
    PROVE  InShape(D)'
<1>1. CASE Drive
  BY <1>1, DriveActs, ActsShape
<1>2. CASE Crash
  BY <1>2, CrashFacts
<1>3. CASE Resume
  BY <1>3, ResumeFacts
<1>4. CASE ChangeRegistry
  BY <1>4, ChangeRegistryFacts
<1>5. CASE \E step \in Steps, given \in Overrides : Fork(step, given)
  BY <1>5, ForkFacts
<1>6. CASE UNCHANGED vars
  BY <1>6, StutterShape
<1> QED BY <1>1, <1>2, <1>3, <1>4, <1>5, <1>6 DEF Next

\* workflow.py, node.py: the contexts of the calls under way run down the tree of
\* the definition, and every checkpoint and memory is one.
THEOREM TypeCorrect ==
    ASSUME NEW D, Programs(D)
    PROVE  Spec => []InShape(D)
<1>1. Init => InShape(D)
  BY InitShape
<1>2. InShape(D) /\ [Next]_vars => InShape(D)'
  BY NextShape
<1> QED BY <1>1, <1>2, PTL DEF Spec

-----------------------------------------------------------------------------
(* a completed node is completed once *)

\* What is recorded as completed is remembered, also by the last checkpoint,
\* and no node that is under way is among it.
Recorded ==
    /\ \A done \in DOMAIN completions : completions[done] = 1
    /\ DOMAIN completions \subseteq DOMAIN state.completed
    /\ DOMAIN completions # {} =>
           /\ checkpoints # <<>>
           /\ DOMAIN completions \subseteq DOMAIN Last(checkpoints).state.completed
    /\ \A i \in 1 .. Len(stack) - 1 : stack[i].node.kind = "workflow" =>
           Key(stack[i]) \notin DOMAIN state.completed

\* Of two workflows on the stack the inner one has another name.
LEMMA OtherName ==
    ASSUME NEW s, NEW d, Nested(s, d), NamesApart(d),
           NEW i \in 1 .. Len(s), NEW j \in 1 .. Len(s), i < j,
           s[i].node.kind = "workflow", s[j].node.kind = "workflow"
    PROVE  s[j].node.name # s[i].node.name
<1> DEFINE n == j - i - 1
           x == s[i].node
           y == s[j].node
<1>1. n \in Nat /\ j - i = n + 1 /\ n + 1 <= MaxDepth /\ n \in 0 .. MaxDepth
  <2>1. j - 1 \in 0 .. MaxDepth
    BY NestedWithin
  <2> QED BY <2>1, CompilerAssumption
<1>2. y \in Levels(x)[j - i]
  BY DEF Nested
<1>3. x \in Within(d)
  BY NestedWithin
<1> HIDE DEF n
<1>4. y \in Levels(x)[n + 1]
  BY <1>1, <1>2
<1> HIDE DEF x, y
<1>5. PICK child \in Children(x) : y \in Levels(child)[n]
  BY <1>1, <1>4, ThroughAChild
<1>6. y \in Within(child)
  BY <1>1, <1>5 DEF Within
<1>7. y \in UNION {Within(z) : z \in Children(x)}
  BY <1>5, <1>6
<1>8. x.kind = "workflow" /\ y.kind = "workflow"
  BY DEF x, y
<1>9. y.name # x.name
  BY <1>3, <1>7, <1>8 DEF NamesApart
<1> QED BY <1>9 DEF x, y

\* c has one of k, besides what b has one of.
OneMore(b, k, c) ==
    /\ DOMAIN c = DOMAIN b \cup {k} /\ c[k] = 1
    /\ \A x \in DOMAIN b : b[x] = 1 => c[x] = 1

\* One more completion.
LEMMA Counted ==
    ASSUME NEW b, NEW k, k \notin DOMAIN b
    PROVE  OneMore(b, k, b (+) SetToBag({k}))
<1> DEFINE o == SetToBag({k})
           c == b (+) o
           F(x) == (IF x \in DOMAIN b THEN b[x] ELSE 0) + (IF x \in DOMAIN o THEN o[x] ELSE 0)
<1>1. DOMAIN o = {k} /\ o[k] = 1
  BY DEF SetToBag
<1>2. c = [x \in DOMAIN b \cup DOMAIN o |-> F(x)]
  BY DEF (+)
<1> HIDE DEF o, c
<1>3. DOMAIN c = DOMAIN b \cup {k} /\ \A x \in DOMAIN b \cup {k} : c[x] = F(x)
  <2> HIDE DEF F
  <2> QED BY <1>1, <1>2
<1>4. F(k) = 1
  BY <1>1
<1>5. \A x \in DOMAIN b : b[x] = 1 => F(x) = 1
  BY <1>1
<1> HIDE DEF F
<1>6. OneMore(b, k, c)
  BY <1>3, <1>4, <1>5 DEF OneMore
<1> QED BY <1>6 DEF c, o

\* Nothing completed.
LEMMA NothingCompleted == DOMAIN EmptyBag = {}
  BY DEF EmptyBag, SetToBag

\* A step that completes no node of a workflow.
LEMMA RecordedOn ==
    ASSUME NEW D, InShape(D), Recorded,
           completions' = completions, state'.completed = state.completed, IsMemory(state'),
           checkpoints' = checkpoints
               \/ \E f : IsFrame(f) /\ checkpoints' = Append(checkpoints, Snapshot(f, state')),
           \A i \in 1 .. Len(stack') - 1 : stack'[i].node.kind = "workflow" =>
               Key(stack'[i]) \notin DOMAIN state.completed
    PROVE  Recorded'
<1>1. /\ \A done \in DOMAIN completions' : completions'[done] = 1
      /\ DOMAIN completions' \subseteq DOMAIN state'.completed
      /\ DOMAIN completions \subseteq DOMAIN state.completed
  BY DEF Recorded
<1>2. DOMAIN completions' # {} =>
          /\ checkpoints' # <<>>
          /\ DOMAIN completions' \subseteq DOMAIN Last(checkpoints').state.completed
  <2>1. CASE checkpoints' = checkpoints
    BY <2>1 DEF Recorded
  <2>2. ASSUME NEW f, IsFrame(f), checkpoints' = Append(checkpoints, Snapshot(f, state'))
        PROVE  checkpoints' # <<>> /\ Last(checkpoints').state = state'
    <3>1. Listed(checkpoints) /\ \A i \in 1 .. Len(checkpoints) : IsSnapshot(checkpoints[i])
      BY DEF InShape
    <3> QED BY <2>2, <3>1, Saved
  <2> QED BY <1>1, <2>1, <2>2
<1>3. \A i \in 1 .. Len(stack') - 1 : stack'[i].node.kind = "workflow" =>
          Key(stack'[i]) \notin DOMAIN state'.completed
  OBVIOUS
<1> QED BY <1>1, <1>2, <1>3 DEF Recorded

\* The caller records what has returned; it had not been recorded before.
LEMMA CallerRecords ==
    ASSUME NEW D, Programs(D), \A d \in D : NamesApart(d),
           InShape(D), Recorded, stack # <<>>, NEW c, NEW f, GoesOn(c, f)
    PROVE  Recorded'
<1> DEFINE n == Len(stack) - 1
           b == Last(Below)
           k == Key(b)
<1>1. /\ Len(stack) # 1 /\ stack' = Append(Front(Below), f)
      /\ IsFrame(f) /\ f.node = b.node /\ f.id = b.id /\ IsMemory(state')
  BY DEF GoesOn
<1>2. Nested(stack, def) /\ NamesApart(def)
  BY DEF InShape
<1>3. /\ Nested(Below, def) /\ Below # <<>> /\ Len(Below) = n /\ Len(stack) \in Nat
      /\ \A i \in 1 .. n : Below[i] = stack[i]
      /\ b = stack[n] /\ n \in 1 .. n
  BY <1>1, BelowFacts, TopFacts
<1>4. Len(stack') = n /\ \A i \in 1 .. n - 1 : stack'[i] = Below[i]
  <2> HIDE DEF n, b
  <2>1. f.node = Last(Below).node /\ f.id = Last(Below).id
    BY <1>1 DEF b
  <2>2. Nested(Below, def) /\ Below # <<>> /\ IsFrame(f)
    BY <1>1, <1>3
  <2>3. /\ Len(stack') = Len(Below)
        /\ \A i \in 1 .. Len(Below) - 1 : stack'[i] = Below[i]
    <3> DEFINE t == Append(Front(Below), f)
    <3>1. Len(t) = Len(Below) /\ \A i \in 1 .. Len(Below) - 1 : t[i] = Below[i]
      BY <2>1, <2>2, NestedOn
    <3>2. stack' = t
      BY <1>1
    <3> HIDE DEF t
    <3> QED BY <3>1, <3>2
  <2> QED BY <1>3, <2>3
<1>5. /\ n \in 1 .. Len(stack) /\ n \in 1 .. Len(stack) - 1
      /\ \A i \in 1 .. n - 1 : i \in 1 .. Len(stack) /\ i < n /\ i \in 1 .. n
            /\ i \in 1 .. Len(stack) - 1
  BY <1>3
<1> HIDE DEF n, b
<1>6. \A i \in 1 .. Len(stack') - 1 :
          /\ i \in 1 .. n - 1 /\ stack'[i] = stack[i]
          /\ stack[i].node.kind = "workflow" => Key(stack[i]) \notin DOMAIN state.completed
  <2> TAKE i \in 1 .. Len(stack') - 1
  <2>1. i \in 1 .. n - 1
    BY <1>4
  <2>2. stack'[i] = stack[i]
    BY <1>3, <1>4, <1>5, <2>1
  <2>3. stack[i].node.kind = "workflow" => Key(stack[i]) \notin DOMAIN state.completed
    BY <1>5, <2>1 DEF Recorded
  <2> QED BY <2>1, <2>2, <2>3
<1>7. CASE b.node.kind = "workflow"
  <2>1. /\ DOMAIN state'.completed = DOMAIN state.completed \cup {k}
        /\ checkpoints' = Append(checkpoints, Snapshot(f, state'))
        /\ completions' = completions (+) SetToBag({k})
    BY <1>7 DEF GoesOn, b
  <2>2. k \notin DOMAIN state.completed
    <3>1. stack[n].node.kind = "workflow"
      BY <1>3, <1>7
    <3>2. Key(stack[n]) \notin DOMAIN state.completed
      BY <1>5, <3>1 DEF Recorded
    <3> QED BY <1>3, <3>2
  <2> HIDE DEF k
  <2>3. /\ \A done \in DOMAIN completions : completions[done] = 1
        /\ DOMAIN completions \subseteq DOMAIN state.completed
    BY DEF Recorded
  <2>4. k \notin DOMAIN completions
    BY <2>2, <2>3
  <2>5. /\ DOMAIN completions' = DOMAIN completions \cup {k} /\ completions'[k] = 1
        /\ \A x \in DOMAIN completions : completions[x] = 1 => completions'[x] = 1
    <3>1. OneMore(completions, k, completions')
      BY <2>1, <2>4, Counted
    <3> QED BY <3>1 DEF OneMore
  <2>6. \A done \in DOMAIN completions' : completions'[done] = 1
    BY <2>3, <2>5
  <2>7. DOMAIN completions' \subseteq DOMAIN state'.completed
    BY <2>1, <2>3, <2>5
  <2>8. checkpoints' # <<>> /\ Last(checkpoints').state = state'
    <3>1. Listed(checkpoints) /\ \A i \in 1 .. Len(checkpoints) : IsSnapshot(checkpoints[i])
      BY DEF InShape
    <3> QED BY <1>1, <2>1, <3>1, Saved
  <2>9. \A i \in 1 .. Len(stack') - 1 : stack'[i].node.kind = "workflow" =>
            Key(stack'[i]) \notin DOMAIN state'.completed
    <3> TAKE i \in 1 .. Len(stack') - 1
    <3>1. HAVE stack'[i].node.kind = "workflow"
    <3>2. /\ i \in 1 .. n - 1 /\ stack'[i] = stack[i]
          /\ Key(stack[i]) \notin DOMAIN state.completed
      BY <1>6, <3>1
    <3>3. stack[n].node.name # stack[i].node.name
      BY <1>2, <1>3, <1>5, <1>7, <3>1, <3>2, OtherName
    <3>4. Key(stack[i]) # Key(stack[n])
      BY <3>3 DEF Key
    <3>5. Key(stack[i]) # k
      BY <1>3, <3>4 DEF k
    <3> QED BY <2>1, <3>2, <3>5
  <2> QED BY <2>6, <2>7, <2>8, <2>9 DEF Recorded
<1>8. CASE b.node.kind # "workflow"
  <2>1. state'.completed = state.completed /\ UNCHANGED <<checkpoints, completions>>
    BY <1>8 DEF GoesOn, b
  <2>2. \A i \in 1 .. Len(stack') - 1 : stack'[i].node.kind = "workflow" =>
            Key(stack'[i]) \notin DOMAIN state.completed
    BY <1>6
  <2> QED BY <1>1, <2>1, <2>2, RecordedOn
<1> QED BY <1>7, <1>8

\* No step of the innermost call repeats a completion.
LEMMA ActsRecorded ==
    ASSUME NEW D, Programs(D), \A d \in D : NamesApart(d),
           InShape(D), Recorded, stack # <<>>, Acts
    PROVE  Recorded'
<1>1. /\ Nested(stack, def) /\ Len(stack) \in Nat /\ Len(stack) # 0
      /\ Top = stack[Len(stack)] /\ Top = Last(stack) /\ IsFrame(Top)
  BY TopFacts DEF InShape, Top
<1>2. \A i \in 1 .. Len(stack) - 1 : stack[i].node.kind = "workflow" =>
          Key(stack[i]) \notin DOMAIN state.completed
  BY DEF Recorded
<1>3. ASSUME stack' = <<>>
      PROVE  \A i \in 1 .. Len(stack') - 1 : stack'[i].node.kind = "workflow" =>
                 Key(stack'[i]) \notin DOMAIN state.completed
  <2>1. Len(stack') = 0
    BY <1>3, NothingListed
  <2> QED BY <2>1
<1>4. ASSUME NEW c, Enters(c) PROVE Recorded'
  <2>1. /\ stack' = Append(stack, c)
        /\ Top.node.kind = "workflow" => Key(Top) \notin DOMAIN state.completed
        /\ IsMemory(state') /\ state'.completed = state.completed
        /\ checkpoints' = checkpoints \/ checkpoints' = Append(checkpoints, Snapshot(Top, state'))
        /\ completions' = completions
    BY <1>4 DEF Enters
  <2>2. Len(stack') = Len(stack) + 1 /\ \A i \in 1 .. Len(stack) : stack'[i] = stack[i]
    BY <1>1, <2>1, Appended DEF Nested
  <2>3. \A i \in 1 .. Len(stack') - 1 : stack'[i].node.kind = "workflow" =>
            Key(stack'[i]) \notin DOMAIN state.completed
    <3> TAKE i \in 1 .. Len(stack') - 1
    <3>1. i \in 1 .. Len(stack)
      BY <1>1, <2>2
    <3>2. i \in 1 .. Len(stack) - 1 \/ i = Len(stack)
      BY <1>1, <3>1
    <3> QED BY <1>1, <1>2, <2>1, <2>2, <3>1, <3>2
  <2> QED BY <1>1, <2>1, <2>3, RecordedOn
<1>5. ASSUME NEW f, Skips(f) PROVE Recorded'
  <2>1. /\ stack' = Append(Below, f) /\ IsFrame(f) /\ f.node = Top.node /\ f.id = Top.id
        /\ IsMemory(state') /\ state'.completed = state.completed
        /\ UNCHANGED <<checkpoints, completions>>
    BY <1>5 DEF Skips
  <2>2. Len(stack') = Len(stack) /\ \A i \in 1 .. Len(stack) - 1 : stack'[i] = stack[i]
    BY <1>1, <2>1, NestedOn DEF Below
  <2>3. \A i \in 1 .. Len(stack') - 1 : stack'[i].node.kind = "workflow" =>
            Key(stack'[i]) \notin DOMAIN state.completed
    BY <1>2, <2>2
  <2> QED BY <2>1, <2>3, RecordedOn
<1>6. ASSUME NEW c, Finishes(c) PROVE Recorded'
  <2>1. /\ IsFrame(c) /\ stack' = <<>> /\ IsMemory(state') /\ state'.completed = state.completed
        /\ checkpoints' = Append(checkpoints, Snapshot(c, state')) /\ completions' = completions
    BY <1>6 DEF Finishes, Used
  <2> QED BY <1>3, <2>1, RecordedOn
<1>7. ASSUME NEW c, NEW m, NEW reason, Raised(c, m, reason) PROVE Recorded'
  <2>1. /\ stack' = <<>> /\ state' = m /\ IsMemory(m) /\ m.completed = state.completed
        /\ checkpoints' = Append(checkpoints, Snapshot(Unwound(Append(Below, c)), m))
        /\ completions' = completions
    BY <1>7 DEF Raised, Raise, Save
  <2>2. IsFrame(Unwound(Append(Below, c)))
    BY <1>7, RaisedFacts
  <2> QED BY <1>3, <2>1, <2>2, RecordedOn
<1>8. ASSUME NEW c, NEW v, NEW m, Returns(c, v, m) PROVE Recorded'
  <2>1. Finishes(c) \/ \E f : GoesOn(c, f)
    BY <1>8, Returned
  <2> QED BY <1>6, <2>1, CallerRecords
<1>9. ASSUME NEW f, Continues(f) PROVE Recorded'
  <2>1. /\ stack' = Append(Below, f) /\ IsFrame(f) /\ f.node = Top.node /\ f.id = Top.id
        /\ IsMemory(state') /\ state'.completed = state.completed
        /\ UNCHANGED <<checkpoints, completions>>
    BY <1>9 DEF Continues, Used
  <2>2. Len(stack') = Len(stack) /\ \A i \in 1 .. Len(stack) - 1 : stack'[i] = stack[i]
    BY <1>1, <2>1, NestedOn DEF Below
  <2>3. \A i \in 1 .. Len(stack') - 1 : stack'[i].node.kind = "workflow" =>
            Key(stack'[i]) \notin DOMAIN state.completed
    BY <1>2, <2>2
  <2> QED BY <2>1, <2>3, RecordedOn
<1> QED BY <1>4, <1>5, <1>7, <1>8, <1>9 DEF Acts

\* Every step keeps the record.
LEMMA NextRecorded ==
    ASSUME NEW D, Programs(D), \A d \in D : NamesApart(d),
           InShape(D), Recorded, [Next]_vars
    PROVE  Recorded'
<1>1. CASE Drive
  BY <1>1, DriveActs, ActsRecorded
<1>2. CASE Crash
  <2>1. stack' = <<>> /\ UNCHANGED <<state, checkpoints, completions>>
    BY <1>2, CrashFacts
  <2>2. Len(stack') = 0 /\ IsMemory(state')
    BY <2>1, NothingListed DEF InShape
  <2>3. \A i \in 1 .. Len(stack') - 1 : stack'[i].node.kind = "workflow" =>
            Key(stack'[i]) \notin DOMAIN state.completed
    BY <2>2
  <2> QED BY <2>1, <2>2, <2>3, RecordedOn
<1>3. CASE Resume
  <2>1. /\ checkpoints # <<>> /\ state' = Last(checkpoints).state
        /\ UNCHANGED <<checkpoints, completions>>
    BY <1>3, ResumeFacts
  <2>2. PICK f : stack' = <<f>>
    BY <1>3, ResumeFacts
  <2>3. Len(stack') = 1
    BY <2>2, Alone
  <2>4. \A i \in 1 .. Len(stack') - 1 : FALSE
    BY <2>3
  <2>5. /\ \A done \in DOMAIN completions' : completions'[done] = 1
        /\ DOMAIN completions' # {} =>
               /\ checkpoints' # <<>>
               /\ DOMAIN completions' \subseteq DOMAIN Last(checkpoints').state.completed
    BY <2>1 DEF Recorded
  <2>6. DOMAIN completions' \subseteq DOMAIN state'.completed
    BY <2>1, <2>5
  <2> QED BY <2>4, <2>5, <2>6 DEF Recorded
<1>4. CASE ChangeRegistry
  <2>1. UNCHANGED <<stack, state, checkpoints, completions>>
    BY <1>4, ChangeRegistryFacts
  <2> QED BY <2>1 DEF Recorded
<1>5. ASSUME NEW step \in Steps, NEW given \in Overrides, Fork(step, given) PROVE Recorded'
  <2>1. completions' = EmptyBag
    BY <1>5, ForkFacts
  <2>2. PICK f : stack' = <<f>>
    BY <1>5, ForkFacts
  <2>3. Len(stack') = 1 /\ DOMAIN completions' = {}
    BY <2>1, <2>2, Alone, NothingCompleted
  <2>4. \A i \in 1 .. Len(stack') - 1 : FALSE
    BY <2>3
  <2> QED BY <2>3, <2>4 DEF Recorded
<1>6. CASE UNCHANGED vars
  <2>1. UNCHANGED <<stack, state, checkpoints, completions>>
    BY <1>6 DEF vars
  <2> QED BY <2>1 DEF Recorded
<1> QED BY <1>1, <1>2, <1>3, <1>4, <1>5, <1>6 DEF Next

\* At first nothing is recorded.
LEMMA InitRecorded ==
    ASSUME NEW D, Programs(D), Init
    PROVE  Recorded
<1>1. PICK f : stack = <<f>>
  BY InitShape
<1>2. Len(stack) = 1 /\ DOMAIN completions = {}
  BY <1>1, Alone, NothingCompleted DEF Init
<1>3. \A i \in 1 .. Len(stack) - 1 : FALSE
  BY <1>2
<1> QED BY <1>2, <1>3 DEF Recorded

\* workflow.py:202: as long as no workflow lies within one of its own name, no
\* node of any workflow is completed twice by an execution, whatever fails,
\* crashes and is resumed, and however often an enclosing node runs again.
THEOREM WorkflowNodesComplete ==
    ASSUME NEW D, Programs(D), \A d \in D : NamesApart(d)
    PROVE  Spec => []CompletedOnce
<1> DEFINE Inv == InShape(D) /\ Recorded
<1>1. Init => Inv
  BY InitShape, InitRecorded
<1>2. Inv /\ [Next]_vars => Inv'
  BY NextShape, NextRecorded
<1>3. Inv => CompletedOnce
  BY DEF Recorded, CompletedOnce, BagToSet
<1> QED BY <1>1, <1>2, <1>3, PTL DEF Spec

-----------------------------------------------------------------------------
(* what was compiled finds its model *)

\* What has got past the first node has compiled with the models there are, or
\* with others since changed.
Admission ==
    /\ changed \in BOOLEAN
    /\ ~changed => registry \in Registries
    /\ stack # <<>> /\ (Len(stack) # 1 \/ stack[1].at # 0) => changed \/ Compiles(def, registry)
    /\ CompiledFindsModel

\* An agent of a definition that compiles gets a model, if there are any.
LEMMA CompiledResolves ==
    ASSUME NEW r \in Registries, NEW d, Compiles(d, r),
           NEW x \in Within(d), x.kind = "agent", Resolve(r, x) = None
    PROVE  r.models = <<>>
<1>1. x \in Agents(d)
  BY ChildrenOf DEF Agents, Leaves
<1>2. ValidModel(r, x)
  BY <1>1 DEF Compiles
<1>3. CASE x.model # None
  <2>1. /\ x.model \in Registered(r)
        /\ x.needs \subseteq Model(r, x.model).capabilities
    BY <1>2, <1>3 DEF ValidModel
  <2>2. Resolve(r, x) = x.model
    BY <1>3, <2>1 DEF Resolve
  <2> QED BY <1>3, <2>2
<1>4. CASE x.model = None /\ x.needs # {}
  <2>1. Select(r, x.needs) # None
    BY <1>2, <1>4 DEF ValidModel
  <2>2. Resolve(r, x) = Select(r, x.needs)
    BY <1>4 DEF Resolve
  <2> QED BY <2>1, <2>2
<1>5. CASE x.model = None /\ x.needs = {}
  <2>1. r.default = None
    BY <1>5 DEF Resolve
  <2> QED BY <2>1, CompositionAssumption
<1> QED BY <1>3, <1>4, <1>5

\* The first node is started or skipped only by what has compiled.
LEMMA AdmittedFirst ==
    ASSUME NEW D, Programs(D), InShape(D), Admission, stack # <<>>, Compiled
    PROVE  changed \/ Compiles(def, registry)
<1>1. CASE Len(stack) # 1 \/ stack[1].at # 0
  BY <1>1 DEF Admission
<1>2. CASE Len(stack) = 1 /\ stack[1].at = 0
  <2>1. Top = stack[1] /\ def.kind = "workflow"
    BY <1>2, TopFacts
  <2>2. Top.node = def /\ Top.at = 0
    BY <1>2, <2>1 DEF InShape, Nested
  <2> QED BY <2>1, <2>2 DEF Compiled
<1> QED BY <1>1, <1>2

\* A call that raises for want of a model had none to find.
LEMMA RaisedAdmission ==
    ASSUME NEW D, Programs(D), InShape(D), Admission, stack # <<>>,
           NEW c, NEW m, NEW reason, Raised(c, m, reason)
    PROVE  why' = "model" => changed \/ registry.models = <<>>
<1> SUFFICES ASSUME why' = "model", ~changed PROVE registry.models = <<>>
  OBVIOUS
<1>1. Top.node.kind = "agent" /\ Resolve(registry, Top.node) = None
  <2>1. why' = reason
    BY DEF Raised, Raise
  <2> QED BY <2>1 DEF Raised
<1>2. /\ Len(stack) \in Nat /\ Len(stack) # 0 /\ Top = stack[Len(stack)]
      /\ Top.node \in Within(def) /\ def.kind = "workflow"
  BY TopFacts
<1>3. Len(stack) # 1
  <2>1. stack[1].node = def
    BY DEF InShape, Nested
  <2> QED BY <1>1, <1>2, <2>1
<1>4. registry \in Registries /\ Compiles(def, registry)
  BY <1>3 DEF Admission
<1> QED BY <1>1, <1>2, <1>4, CompiledResolves

\* No step of the innermost call gets around compiling.
LEMMA ActsAdmission ==
    ASSUME NEW D, Programs(D), InShape(D), Admission, stack # <<>>, Acts,
           UNCHANGED <<def, registry, changed>>
    PROVE  Admission'
<1>1. /\ changed' \in BOOLEAN /\ (~changed' => registry' \in Registries)
      /\ CompiledFindsModel
  BY DEF Admission
<1>2. ASSUME why' = why PROVE CompiledFindsModel'
  BY <1>1, <1>2 DEF CompiledFindsModel
<1>3. ASSUME stack' = <<>>, CompiledFindsModel' PROVE Admission'
  BY <1>1, <1>3 DEF Admission
<1>4. ASSUME why' = why, changed \/ Compiles(def, registry) PROVE Admission'
  BY <1>1, <1>2, <1>4 DEF Admission
<1>5. ASSUME NEW c, Enters(c) PROVE Admission'
  BY <1>4, <1>5, AdmittedFirst DEF Enters
<1>6. ASSUME NEW f, Skips(f) PROVE Admission'
  BY <1>4, <1>6, AdmittedFirst DEF Skips
<1>7. ASSUME NEW c, Finishes(c) PROVE Admission'
  BY <1>2, <1>3, <1>7 DEF Finishes
<1>8. ASSUME NEW c, NEW f, GoesOn(c, f) PROVE Admission'
  <2>1. Len(stack) # 1 /\ why' = why
    BY <1>8 DEF GoesOn
  <2>2. changed \/ Compiles(def, registry)
    BY <2>1 DEF Admission
  <2> QED BY <1>4, <2>1, <2>2
<1>9. ASSUME NEW c, NEW m, NEW reason, Raised(c, m, reason) PROVE Admission'
  <2>1. why' = "model" => changed \/ registry.models = <<>>
    BY <1>9, RaisedAdmission
  <2>2. CompiledFindsModel'
    BY <2>1 DEF CompiledFindsModel
  <2>3. stack' = <<>>
    BY <1>9 DEF Raised, Raise
  <2> QED BY <1>3, <2>2, <2>3
<1>10. ASSUME NEW c, NEW v, NEW m, Returns(c, v, m) PROVE Admission'
  <2>1. Finishes(c) \/ \E f : GoesOn(c, f)
    BY <1>10, Returned
  <2> QED BY <1>7, <1>8, <2>1
<1>11. ASSUME NEW f, Continues(f) PROVE Admission'
  <2>1. Compiled /\ why' = why
    BY <1>11 DEF Continues, Compiled
  <2> QED BY <1>4, <2>1, AdmittedFirst
<1> QED BY <1>5, <1>6, <1>9, <1>10, <1>11 DEF Acts

\* A call of execute begins at its first node.
LEMMA RootAdmission ==
    ASSUME NEW f, stack' = <<f>>, f.at = 0, Admission,
           UNCHANGED <<registry, changed, why>>
    PROVE  Admission'
<1>1. Len(stack') = 1 /\ stack'[1] = f
  BY Alone
<1>2. CompiledFindsModel'
  BY DEF Admission, CompiledFindsModel
<1> QED BY <1>1, <1>2 DEF Admission

\* Every step.
LEMMA NextAdmission ==
    ASSUME NEW D, Programs(D), InShape(D), Admission, [Next]_vars
    PROVE  Admission'
<1>1. CASE Drive
  <2>1. stack # <<>> /\ Acts /\ UNCHANGED <<def, registry, changed>>
    BY <1>1, DriveActs
  <2> QED BY <2>1, ActsAdmission
<1>2. CASE Crash
  <2>1. stack' = <<>> /\ UNCHANGED <<def, registry, changed, why>>
    BY <1>2, CrashFacts
  <2> QED BY <2>1 DEF Admission, CompiledFindsModel
<1>3. CASE Resume
  <2>1. UNCHANGED <<registry, changed, why>>
    BY <1>3, ResumeFacts
  <2>2. PICK f : stack' = <<f>> /\ f.at = 0
    BY <1>3, ResumeFacts
  <2> QED BY <2>1, <2>2, RootAdmission
<1>4. CASE ChangeRegistry
  <2>1. changed' = TRUE
    BY <1>4, ChangeRegistryFacts
  <2> QED BY <2>1 DEF Admission, CompiledFindsModel
<1>5. ASSUME NEW step \in Steps, NEW given \in Overrides, Fork(step, given) PROVE Admission'
  <2>1. UNCHANGED <<registry, changed, why>>
    BY <1>5, ForkFacts
  <2>2. PICK f : stack' = <<f>> /\ f.at = 0
    BY <1>5, ForkFacts
  <2> QED BY <2>1, <2>2, RootAdmission
<1>6. CASE UNCHANGED vars
  <2>1. UNCHANGED <<def, registry, changed, why, stack>>
    BY <1>6 DEF vars, execution
  <2> QED BY <2>1 DEF Admission, CompiledFindsModel
<1> QED BY <1>1, <1>2, <1>3, <1>4, <1>5, <1>6 DEF Next

\* An execution has not failed when it begins.
LEMMA InitAdmission ==
    ASSUME NEW D, Programs(D), Init
    PROVE  Admission
<1>1. PICK f : stack = <<f>> /\ f.at = 0
  BY InitShape
<1>2. Len(stack) = 1 /\ stack[1] = f
  BY <1>1, Alone
<1>3. changed = FALSE /\ registry \in Registries /\ why = None
  BY DEF Init
<1> QED BY <1>1, <1>2, <1>3, CompositionAssumption DEF Admission, CompiledFindsModel

\* compiler.py:3: every agent of what compile lets pass finds a model, however
\* deep in the definition and also after a resume, unless the models have
\* changed since or there never was one.
THEOREM CompiledAgentsFindModels ==
    ASSUME NEW D, Programs(D)
    PROVE  Spec => []CompiledFindsModel
<1> DEFINE Inv == InShape(D) /\ Admission
<1>1. Init => Inv
  BY InitShape, InitAdmission
<1>2. Inv /\ [Next]_vars => Inv'
  BY NextShape, NextAdmission
<1>3. Inv => CompiledFindsModel
  BY DEF Admission
<1> QED BY <1>1, <1>2, <1>3, PTL DEF Spec

-----------------------------------------------------------------------------
(* usage is kept *)

\* Every model call but those of the agents a crash has cut off.
Counts(n) == n = spent - lost

\* The innermost context counts them all, and no other counts more.  So does the
\* last checkpoint, apart from what an agent that is under way has not merged.
Kept ==
    /\ stack # <<>> => Counts(Last(stack).calls)
    /\ \A i \in 1 .. Len(stack) : stack[i].calls <= Last(stack).calls
    /\ checkpoints # <<>> =>
           Last(checkpoints).calls =
               IF stack = <<>> THEN spent - lost
               ELSE IF Last(stack).node.kind = "agent" THEN stack[Len(stack) - 1].calls
               ELSE Last(stack).calls
    /\ status \in {"failed", "completed"} => checkpoints # <<>>

\* Only a workflow encloses a call.
LEMMA WorkflowsEnclose ==
    ASSUME NEW s, NEW d, Nested(s, d), OnlyWorkflows(d), NEW i \in 1 .. Len(s) - 1
    PROVE  s[i].node.kind = "workflow"
<1>1. Listed(s) /\ Len(s) <= MaxDepth + 1 /\ Len(s) \in Nat
  BY ListedFacts DEF Nested
<1> DEFINE L == Len(s)
           k == i + 1
<1>2. i \in 1 .. L /\ k \in 1 .. L /\ k - i = 1 /\ i <= k /\ 0 + 1 = 1 /\ 1 <= MaxDepth
  <2>1. i \in Nat /\ 1 <= i /\ i <= L - 1
    BY <1>1
  <2> HIDE DEF L
  <2> QED BY <1>1, <2>1, CompilerAssumption DEF L
<1> HIDE DEF L, k
<1>3. s[k].node \in Levels(s[i].node)[0 + 1]
  BY <1>2 DEF Nested, L
<1>4. Children(s[i].node) # {}
  BY <1>2, <1>3, ThroughAChild
<1>5. s[i].node \in Within(d)
  BY <1>2, NestedWithin DEF L
<1>6. s[i].node.kind \in {"agent", "transform", "mute", "workflow"}
  BY <1>5 DEF OnlyWorkflows
<1> QED BY <1>4, <1>6, ChildrenOf

\* What the innermost call has used in this step is counted.
LEMMA UsedCounts ==
    ASSUME NEW D, Programs(D), InShape(D), Kept, stack # <<>>, NEW c, Used(c), lost' = lost
    PROVE  /\ c.calls \in Nat /\ Counts(c.calls)'
           /\ \A i \in 1 .. Len(stack) : stack[i].calls <= c.calls
<1>1. Top.calls \in Nat /\ Counts(Top.calls) /\ \A i \in 1 .. Len(stack) : stack[i].calls <= Top.calls
  BY TopFacts DEF Kept, Top, IsFrame
<1>2. spent \in Nat /\ lost \in Int
  BY DEF InShape
<1>3. \A i \in 1 .. Len(stack) : stack[i].calls \in Nat
  BY DEF InShape, Nested, IsFrame
<1>4. CASE c.calls = Top.calls /\ spent' = spent
  BY <1>1, <1>4 DEF Counts
<1>5. CASE c.calls = Top.calls + 1 /\ spent' = spent + 1
  <2>1. Counts(c.calls)' /\ c.calls \in Nat
    BY <1>1, <1>2, <1>5 DEF Counts
  <2>2. \A i \in 1 .. Len(stack) : stack[i].calls <= c.calls
    BY <1>1, <1>3, <1>5
  <2> QED BY <2>1, <2>2
<1> QED BY <1>4, <1>5 DEF Used

\* What a crash adds to the calls lost is what it takes from those that count.
LEMMA Balance ==
    ASSUME spent \in Int, spent' \in Int, lost \in Int, Unmerged \in Int,
           lost' = lost + Unmerged + (spent' - spent)
    PROVE  (spent - lost) - Unmerged = spent' - lost'
<1>1. PICK made \in Int, gone \in Int, under \in Int, now \in Int :
          made = spent /\ gone = lost /\ under = Unmerged /\ now = spent'
  OBVIOUS
<1>2. (made - gone) - under = now - (gone + under + (now - made))
  OBVIOUS
<1> QED BY <1>1, <1>2

\* A checkpoint counts what its context does.
LEMMA CheckpointCounts ==
    ASSUME NEW D, InShape(D), NEW f, IsFrame(f), IsMemory(state'),
           checkpoints' = Append(checkpoints, Snapshot(f, state'))
    PROVE  checkpoints' # <<>> /\ Last(checkpoints').calls = f.calls
<1>1. Listed(checkpoints) /\ \A i \in 1 .. Len(checkpoints) : IsSnapshot(checkpoints[i])
  BY DEF InShape
<1> QED BY <1>1, Saved

\* The execution stops, with a checkpoint that counts everything.
LEMMA StopsKept ==
    ASSUME stack' = <<>>, checkpoints' # <<>>, NEW f, Last(checkpoints').calls = f.calls,
           Counts(f.calls)'
    PROVE  Kept'
<1>1. Len(stack') = 0
  BY NothingListed
<1>2. Last(checkpoints').calls = spent' - lost'
  BY DEF Counts
<1> QED BY <1>1, <1>2 DEF Kept

\* The innermost call goes on with a context that counts everything.
LEMMA GoesKept ==
    ASSUME NEW f, stack' # <<>>, Last(stack') = f, Counts(f.calls)',
           \A i \in 1 .. Len(stack') : stack'[i].calls <= f.calls,
           status' = "running",
           checkpoints' # <<>> =>
               Last(checkpoints').calls =
                   IF f.node.kind = "agent" THEN stack'[Len(stack') - 1].calls ELSE f.calls
    PROVE  Kept'
  BY DEF Kept

\* No step of the innermost call loses a model call.
LEMMA ActsKept ==
    ASSUME NEW D, Programs(D), InShape(D), OnlyWorkflows(def), Kept, stack # <<>>, Acts
    PROVE  Kept'
<1>1. /\ Nested(stack, def) /\ Len(stack) \in Nat /\ Len(stack) # 0 /\ status = "running"
      /\ Top = stack[Len(stack)] /\ Top = Last(stack) /\ IsFrame(Top) /\ IsTree(def)
      /\ Top.node \in Within(def)
  BY TopFacts DEF InShape, Top
<1>2. \A i \in 1 .. Len(stack) - 1 : stack[i].node.kind = "workflow"
  BY <1>1, WorkflowsEnclose
<1>3. /\ Counts(Top.calls) /\ Top.calls \in Nat
      /\ \A i \in 1 .. Len(stack) : stack[i].calls <= Top.calls
  BY <1>1 DEF Kept, IsFrame
<1>5. ASSUME NEW c, Enters(c) PROVE Kept'
  <2>1. /\ stack' = Append(stack, c) /\ IsFrame(c) /\ c.calls = Top.calls /\ IsMemory(state')
        /\ checkpoints' = checkpoints \/ checkpoints' = Append(checkpoints, Snapshot(Top, state'))
        /\ UNCHANGED <<status, spent, lost>>
    BY <1>5 DEF Enters
  <2>2. /\ Len(stack') = Len(stack) + 1 /\ stack'[Len(stack) + 1] = c /\ Last(stack') = c
        /\ \A i \in 1 .. Len(stack) : stack'[i] = stack[i]
    BY <1>1, <2>1, Appended DEF Nested
  <2>3. \A i \in 1 .. Len(stack') : stack'[i].calls <= c.calls
    <3> TAKE i \in 1 .. Len(stack')
    <3>1. i \in 1 .. Len(stack) \/ i = Len(stack) + 1
      BY <1>1, <2>2
    <3> QED BY <1>3, <2>1, <2>2, <3>1
  <2>4. Counts(c.calls)'
    BY <1>3, <2>1 DEF Counts
  <2>5. Top.node.kind = "workflow"
    <3>1. Top.node.kind \in {"agent", "transform", "mute", "workflow"}
      BY <1>1 DEF OnlyWorkflows
    <3>2. Children(Top.node) # {}
      BY <1>5 DEF Enters
    <3> QED BY <3>1, <3>2, ChildrenOf
  <2>6. checkpoints' # <<>> => Last(checkpoints').calls = Top.calls
    <3>1. CASE checkpoints' = checkpoints
      BY <1>1, <2>5, <3>1 DEF Kept
    <3>2. CASE checkpoints' = Append(checkpoints, Snapshot(Top, state'))
      BY <1>1, <2>1, <3>2, CheckpointCounts
    <3> QED BY <2>1, <3>1, <3>2
  <2>7. stack' # <<>> /\ Len(stack') - 1 = Len(stack) /\ Len(stack) \in 1 .. Len(stack)
    BY <1>1, <2>1, <2>2, Appended DEF Nested
  <2>8. stack'[Len(stack') - 1].calls = Top.calls
    BY <1>1, <2>2, <2>7
  <2> QED BY <1>1, <2>1, <2>2, <2>3, <2>4, <2>6, <2>7, <2>8, GoesKept
<1>6. ASSUME NEW f, Skips(f) PROVE Kept'
  <2>1. /\ stack' = Append(Below, f) /\ IsFrame(f) /\ f.node = Top.node /\ f.id = Top.id
        /\ f.calls = Top.calls /\ Top.node.kind = "workflow"
        /\ UNCHANGED <<checkpoints, status, spent, lost>>
    BY <1>6 DEF Skips
  <2>2. /\ Len(stack') = Len(stack) /\ stack'[Len(stack)] = f
        /\ \A i \in 1 .. Len(stack) - 1 : stack'[i] = stack[i]
    BY <1>1, <2>1, NestedOn DEF Below
  <2>3. \A i \in 1 .. Len(stack') : stack'[i].calls <= f.calls
    <3> TAKE i \in 1 .. Len(stack')
    <3>1. (i \in 1 .. Len(stack) - 1 /\ i \in 1 .. Len(stack)) \/ i = Len(stack)
      BY <1>1, <2>2
    <3> QED BY <1>3, <2>1, <2>2, <3>1
  <2>4. Last(stack') = f
    BY <2>2 DEF Last
  <2>5. Counts(f.calls)'
    BY <1>3, <2>1 DEF Counts
  <2>6. checkpoints' # <<>> => Last(checkpoints').calls = f.calls
    BY <1>1, <2>1 DEF Kept
  <2>7. stack' # <<>>
    BY <1>1, <2>2, NothingListed
  <2>8. f.node.kind # "agent"
    BY <2>1
  <2> QED BY <1>1, <2>1, <2>3, <2>4, <2>5, <2>6, <2>7, <2>8, GoesKept
<1>7. ASSUME NEW c, Finishes(c) PROVE Kept'
  <2>1. /\ Used(c) /\ IsFrame(c) /\ lost' = lost /\ stack' = <<>> /\ IsMemory(state')
        /\ checkpoints' = Append(checkpoints, Snapshot(c, state'))
    BY <1>7 DEF Finishes, Used
  <2>2. Counts(c.calls)'
    BY <2>1, UsedCounts
  <2>3. checkpoints' # <<>> /\ Last(checkpoints').calls = c.calls
    BY <2>1, CheckpointCounts
  <2> QED BY <2>1, <2>2, <2>3, StopsKept
<1>8. ASSUME NEW c, NEW f, GoesOn(c, f) PROVE Kept'
  <2> DEFINE n == Len(stack) - 1
             b == Last(Below)
  <2>1. /\ Used(c) /\ lost' = lost /\ Len(stack) # 1 /\ stack' = Append(Front(Below), f)
        /\ IsFrame(f) /\ f.node = b.node /\ f.id = b.id
        /\ f.calls = IF b.calls <= c.calls THEN c.calls ELSE b.calls
        /\ IsMemory(state') /\ status' = status
    BY <1>8 DEF GoesOn
  <2>2. /\ Nested(Below, def) /\ Below # <<>> /\ Len(Below) = n
        /\ \A i \in 1 .. n : Below[i] = stack[i]
        /\ b = stack[n] /\ n \in 1 .. n
    BY <2>1, BelowFacts
  <2>3. Counts(c.calls)' /\ c.calls \in Nat /\ \A i \in 1 .. Len(stack) : stack[i].calls <= c.calls
    BY <2>1, UsedCounts
  <2>4. n \in 1 .. Len(stack) /\ n \in 1 .. Len(stack) - 1 /\ n \in Nat /\ n < Len(stack)
    BY <1>1, <2>2
  <2>5. /\ Len(stack') = n /\ stack'[n] = f
        /\ \A i \in 1 .. n - 1 : stack'[i] = Below[i]
    <3> DEFINE t == Append(Front(Below), f)
    <3>1. /\ Len(t) = Len(Below) /\ t[Len(Below)] = f
          /\ \A i \in 1 .. Len(Below) - 1 : t[i] = Below[i]
      <4>1. f.node = Last(Below).node /\ f.id = Last(Below).id /\ IsFrame(f)
        BY <2>1
      <4>2. Nested(Below, def) /\ Below # <<>>
        BY <2>2
      <4> QED BY <4>1, <4>2, NestedOn
    <3>2. stack' = t
      BY <2>1
    <3> HIDE DEF t, n
    <3> QED BY <2>2, <3>1, <3>2
  <2> HIDE DEF n
  <2>6. b.node.kind = "workflow" /\ b.calls <= c.calls
    BY <1>2, <2>2, <2>3, <2>4
  <2>7. f.calls = c.calls
    BY <2>1, <2>6
  <2>8. checkpoints' = Append(checkpoints, Snapshot(f, state'))
    BY <1>8, <2>6 DEF GoesOn
  <2> HIDE DEF b
  <2>9. Counts(f.calls)'
    BY <2>3, <2>7 DEF Counts
  <2>10. \A i \in 1 .. Len(stack') : stack'[i].calls <= f.calls
    <3> TAKE i \in 1 .. Len(stack')
    <3>1. (i \in 1 .. n - 1 /\ i \in 1 .. n /\ i \in 1 .. Len(stack)) \/ i = n
      BY <2>4, <2>5
    <3>2. CASE i = n
      BY <2>3, <2>5, <2>7, <3>2
    <3>3. CASE i \in 1 .. n - 1 /\ i \in 1 .. n /\ i \in 1 .. Len(stack)
      BY <2>2, <2>3, <2>5, <2>7, <3>3
    <3> QED BY <3>1, <3>2, <3>3
  <2>11. Last(stack') = f
    BY <2>5 DEF Last
  <2>12. checkpoints' # <<>> /\ Last(checkpoints').calls = f.calls
    BY <2>1, <2>8, CheckpointCounts
  <2>13. stack' # <<>>
    BY <2>4, <2>5, NothingListed
  <2>14. f.node.kind # "agent"
    <3>1. f.node.kind = "workflow"
      BY <2>1, <2>6 DEF b
    <3> QED BY <3>1
  <2> QED BY <1>1, <2>1, <2>9, <2>10, <2>11, <2>12, <2>13, <2>14, GoesKept
<1>9. ASSUME NEW c, NEW m, NEW reason, Raised(c, m, reason) PROVE Kept'
  <2> DEFINE r == Unwound(Append(Below, c))
  <2>1. /\ Used(c) /\ lost' = lost /\ stack' = <<>> /\ state' = m /\ IsMemory(m)
        /\ checkpoints' = Append(checkpoints, Snapshot(r, state'))
    BY <1>9 DEF Raised, Raise, Save
  <2>2. Counts(c.calls)' /\ \A i \in 1 .. Len(stack) : stack[i].calls <= c.calls
    BY <2>1, UsedCounts
  <2>3. \A i \in 1 .. Len(stack) - 1 : i \in 1 .. Len(stack)
    BY <1>1
  <2>4. \A i \in 1 .. Len(stack) - 1 : stack[i].node.kind = "workflow" /\ stack[i].calls <= c.calls
    BY <1>2, <2>2, <2>3
  <2>5. IsFrame(r) /\ r.calls = c.calls
    BY <1>9, <2>4, RaisedFacts
  <2>6. PICK q : q = r
    OBVIOUS
  <2> HIDE DEF r
  <2>7. Counts(q.calls)'
    BY <2>2, <2>5, <2>6 DEF Counts
  <2>8. checkpoints' # <<>> /\ Last(checkpoints').calls = q.calls
    <3>1. IsFrame(q) /\ IsMemory(state') /\ checkpoints' = Append(checkpoints, Snapshot(q, state'))
      BY <2>1, <2>5, <2>6
    <3> QED BY <3>1, CheckpointCounts
  <2> QED BY <2>1, <2>7, <2>8, StopsKept
<1>10. ASSUME NEW c, NEW v, NEW m, Returns(c, v, m) PROVE Kept'
  <2>1. Finishes(c) \/ \E f : GoesOn(c, f)
    BY <1>10, Returned
  <2> QED BY <1>7, <1>8, <2>1
<1>11. ASSUME NEW f, Continues(f) PROVE Kept'
  <2> DEFINE n == Len(stack) - 1
  <2>1. /\ stack' = Append(Below, f) /\ Used(f) /\ IsFrame(f) /\ f.node = Top.node /\ f.id = Top.id
        /\ Top.node.kind = "agent" /\ UNCHANGED <<checkpoints, status, lost>>
    BY <1>11 DEF Continues, Used
  <2>2. /\ Len(stack') = Len(stack) /\ stack'[Len(stack)] = f
        /\ \A i \in 1 .. n : stack'[i] = stack[i]
    BY <1>1, <2>1, NestedOn DEF Below
  <2>3. Counts(f.calls)' /\ f.calls \in Nat /\ \A i \in 1 .. Len(stack) : stack[i].calls <= f.calls
    BY <2>1, UsedCounts
  <2>4. \A i \in 1 .. Len(stack') : stack'[i].calls <= f.calls
    <3> TAKE i \in 1 .. Len(stack')
    <3>1. (i \in 1 .. n /\ i \in 1 .. Len(stack)) \/ i = Len(stack)
      BY <1>1, <2>2
    <3> QED BY <2>2, <2>3, <3>1
  <2>5. Last(stack') = f
    BY <2>2 DEF Last
  <2>6. n \in 1 .. n
    <3>1. Len(stack) # 1
      BY <1>1, <2>1, CalledAgent
    <3>2. \A k \in Nat : k # 0 /\ k # 1 => k - 1 \in 1 .. (k - 1)
      OBVIOUS
    <3>3. Len(stack) \in Nat /\ Len(stack) # 0
      BY <1>1
    <3> QED BY <3>1, <3>2, <3>3
  <2>7. stack'[n] = stack[n]
    BY <2>2, <2>6
  <2>8. checkpoints' # <<>> => Last(checkpoints').calls = stack'[n].calls
    BY <1>1, <2>1, <2>7 DEF Kept
  <2>9. stack' # <<>>
    BY <1>1, <2>2, NothingListed
  <2>10. stack'[Len(stack') - 1].calls = stack'[n].calls
    BY <2>2
  <2> HIDE DEF n
  <2> QED BY <1>1, <2>1, <2>3, <2>4, <2>5, <2>8, <2>9, <2>10, GoesKept
<1> QED BY <1>5, <1>6, <1>9, <1>10, <1>11 DEF Acts

\* A call of execute begins with what the last checkpoint counts, or with nothing.
LEMMA RootKept ==
    ASSUME NEW f, stack' = <<f>>, IsFrame(f), f.node.kind = "workflow", Counts(f.calls)',
           status' = "running",
           checkpoints' # <<>> => Last(checkpoints').calls = f.calls
    PROVE  Kept'
<1>1. Len(stack') = 1 /\ stack'[1] = f /\ stack' # <<>>
  BY Alone
<1>2. Last(stack') = f
  BY <1>1 DEF Last
<1>3. \A i \in 1 .. Len(stack') : stack'[i].calls <= f.calls
  <2>1. \A i \in 1 .. Len(stack') : i = 1
    BY <1>1
  <2>2. f.calls <= f.calls
    BY DEF IsFrame
  <2> QED BY <1>1, <2>1, <2>2
<1>4. f.node.kind # "agent"
  OBVIOUS
<1> QED BY <1>1, <1>2, <1>3, <1>4, GoesKept

\* Every step of a definition of workflows and leaves only.
LEMMA NextKept ==
    ASSUME NEW D, Programs(D),
           \A d \in D : \A e \in Revised(d) : OnlyWorkflows(e) => OnlyWorkflows(d),
           InShape(D), OnlyWorkflows(def) => Kept, [Next]_vars
    PROVE  (OnlyWorkflows(def) => Kept)'
<1>1. CASE Drive
  <2>1. stack # <<>> /\ Acts /\ def' = def
    BY <1>1, DriveActs
  <2>2. OnlyWorkflows(def) => Kept'
    BY <2>1, ActsKept
  <2> QED BY <2>1, <2>2
<1>2. CASE Crash
  <2>1. /\ stack # <<>> /\ stack' = <<>> /\ status' = "down"
        /\ lost' = lost + Unmerged + (spent' - spent) /\ Unmerged \in Int
        /\ UNCHANGED <<def, checkpoints>> /\ InShape(D)'
    BY <1>2, CrashFacts
  <2>2. ASSUME OnlyWorkflows(def), checkpoints # <<>>
        PROVE  Last(checkpoints').calls = spent' - lost'
    <3>1. spent \in Nat /\ lost \in Int /\ spent' \in Nat /\ Top = Last(stack) /\ IsFrame(Top)
      BY <2>1, TopFacts DEF InShape, Top
    <3>2. Top.calls = spent - lost /\ Top.calls \in Nat
      BY <2>1, <2>2, <3>1 DEF Kept, Counts, IsFrame
    <3>3. Last(checkpoints).calls = Top.calls - Unmerged
      <4>1. CASE Top.node.kind = "agent"
        <5>1. Last(Below) = stack[Len(stack) - 1] /\ Last(Below).calls \in Nat
          BY <2>1, <4>1, CalledAgent DEF IsFrame
        <5>2. Last(checkpoints).calls = Last(Below).calls
          BY <2>1, <2>2, <3>1, <4>1, <5>1 DEF Kept
        <5> QED BY <3>2, <4>1, <5>1, <5>2 DEF Unmerged
      <4>2. CASE Top.node.kind # "agent"
        <5>1. Last(checkpoints).calls = Top.calls
          BY <2>1, <2>2, <3>1, <4>2 DEF Kept
        <5> QED BY <3>2, <4>2, <5>1 DEF Unmerged
      <4> QED BY <4>1, <4>2
    <3>4. Last(checkpoints).calls = (spent - lost) - Unmerged
      BY <3>2, <3>3
    <3>5. (spent - lost) - Unmerged = spent' - lost'
      <4>1. spent \in Int /\ spent' \in Int /\ lost \in Int /\ Unmerged \in Int
        BY <2>1, <3>1
      <4>2. lost' = lost + Unmerged + (spent' - spent)
        BY <2>1
      <4> QED BY <4>1, <4>2, Balance
    <3>6. checkpoints' = checkpoints
      BY <2>1
    <3> QED BY <3>4, <3>5, <3>6
  <2>3. Len(stack') = 0
    BY <2>1, NothingListed
  <2> QED BY <2>1, <2>2, <2>3 DEF Kept
<1>3. CASE Resume
  <2>1. /\ status' = "running" /\ checkpoints # <<>> /\ def' \in {def} \cup Revised(def)
        /\ UNCHANGED <<checkpoints, spent, lost>>
    BY <1>3, ResumeFacts
  <2>2. PICK f : /\ stack' = <<f>> /\ IsFrame(f) /\ f.calls = Last(checkpoints).calls
                 /\ f.node = def'
    BY <1>3, ResumeFacts
  <2>3. OnlyWorkflows(def') => OnlyWorkflows(def)
    BY <2>1 DEF InShape
  <2>4. ASSUME OnlyWorkflows(def) PROVE Kept'
    <3>1. stack = <<>>
      BY <1>3 DEF Resume, InShape
    <3>2. Last(checkpoints).calls = spent - lost
      BY <2>1, <2>4, <3>1 DEF Kept
    <3>3. Counts(f.calls)'
      BY <2>1, <2>2, <3>2 DEF Counts
    <3>4. f.node.kind = "workflow"
      <4>1. def' \in D
        BY <2>1 DEF InShape, Programs, Variants
      <4> QED BY <2>2, <4>1 DEF Programs
    <3> QED BY <2>1, <2>2, <3>3, <3>4, RootKept
  <2> QED BY <2>3, <2>4
<1>4. CASE ChangeRegistry
  <2>1. UNCHANGED <<def, status, stack, checkpoints, spent, lost>>
    BY <1>4, ChangeRegistryFacts
  <2> QED BY <2>1 DEF Kept, Counts
<1>5. ASSUME NEW step \in Steps, NEW given \in Overrides, Fork(step, given) PROVE Kept'
  <2>1. status' = "running" /\ checkpoints' = <<>> /\ spent' = 0 /\ lost' = 0
    BY <1>5, ForkFacts
  <2>2. PICK f : stack' = <<f>> /\ IsFrame(f) /\ f.calls = 0 /\ f.node = def'
    BY <1>5, ForkFacts
  <2>3. Counts(f.calls)'
    BY <2>1, <2>2 DEF Counts
  <2>4. f.node.kind = "workflow"
    <3>1. InShape(D)'
      BY <1>5, ForkFacts
    <3> QED BY <2>2, <3>1 DEF InShape, Programs
  <2> QED BY <2>1, <2>2, <2>3, <2>4, RootKept
<1>6. CASE UNCHANGED vars
  <2>1. UNCHANGED <<def, status, stack, checkpoints, spent, lost>>
    BY <1>6 DEF vars, execution, disturbances
  <2> QED BY <2>1 DEF Kept, Counts
<1> QED BY <1>1, <1>2, <1>3, <1>4, <1>5, <1>6 DEF Next

\* An execution has called no model when it begins.
LEMMA InitKept ==
    ASSUME NEW D, Programs(D), Init
    PROVE  Kept
<1>1. PICK f : stack = <<f>> /\ IsFrame(f) /\ f.calls = 0
  BY InitShape
<1>2. status = "running" /\ checkpoints = <<>> /\ spent = 0 /\ lost = 0
  BY DEF Init
<1>3. Len(stack) = 1 /\ stack[1] = f
  BY <1>1, Alone
<1>4. Last(stack) = f
  BY <1>3 DEF Last
<1>5. \A i \in 1 .. Len(stack) : stack[i].calls <= f.calls
  <2>1. \A i \in 1 .. Len(stack) : i = 1
    BY <1>3
  <2> QED BY <1>1, <1>3, <2>1
<1>6. Counts(f.calls)
  BY <1>1, <1>2 DEF Counts
<1> QED BY <1>2, <1>3, <1>4, <1>5, <1>6 DEF Kept

\* workflow.py:213 and agent.py:212: where nothing but workflows encloses a
\* call, the last checkpoint counts every model call, in whichever iteration of
\* its agent and however deep it was made and however often the execution failed,
\* crashed and was resumed, but those of the agents that were under way in a
\* crash.  A revision may not make such a definition of another kind.
THEOREM NoUsageLost ==
    ASSUME NEW D, Programs(D),
           \A d \in D : \A e \in Revised(d) : OnlyWorkflows(e) => OnlyWorkflows(d)
    PROVE  Spec => []UsageKept
<1> DEFINE Inv == InShape(D) /\ (OnlyWorkflows(def) => Kept)
<1>1. Init => Inv
  BY InitShape, InitKept
<1>2. Inv /\ [Next]_vars => Inv'
  BY NextShape, NextKept
<1>3. Inv => UsageKept
  <2> SUFFICES ASSUME Inv, OnlyWorkflows(def), status \in {"failed", "completed"}
               PROVE  Last(checkpoints).calls = spent - lost
    BY DEF UsageKept
  <2>1. stack = <<>>
    BY DEF InShape
  <2> QED BY <2>1 DEF Kept
<1> QED BY <1>1, <1>2, <1>3, PTL DEF Spec

=============================================================================
