--------------------------- MODULE StreamsProofs ---------------------------
(***************************************************************************)
(* A stream gives the same response as a call that does not stream, and    *)
(* usage counts once: for any agents, adapters, answers and budgets, and   *)
(* any number of faults.  First the wire: reading the events of an answer  *)
(* leads to the whole answer, in fragments or not.  Then the loops over    *)
(* calls, and what the gateway makes of what it has.  Last the execution:  *)
(* what is still on the wire leads to the answer that was asked for, and   *)
(* the counters of the contexts follow.                                    *)
(***************************************************************************)
EXTENDS Streams, SequenceTheorems, WellFoundedInduction, TLAPS

\* A set of numbers has a least one.
LEMMA LeastOf ==
    ASSUME NEW S, S \subseteq Nat, S # {}
    PROVE  \E x \in S : \A y \in S : x <= y
<1>1. PICK x \in S : \A y \in S : <<y, x>> \notin OpToRel(<, Nat)
  BY NatLessThanWellFounded, WFMin
<1>2. \A y \in S : x <= y
  <2> TAKE y \in S
  <2>1. ~ (y < x)
    BY <1>1 DEF OpToRel
  <2> QED BY <2>1
<1> QED BY <1>2

\* The larger of two counters.
LEMMA LargerOf ==
    ASSUME NEW a \in Nat, NEW b \in Nat
    PROVE  Max({a, b}) = IF a >= b THEN a ELSE b
<1>1. CASE a >= b
  BY <1>1 DEF Max
<1>2. CASE ~(a >= b)
  BY <1>2 DEF Max
<1> QED BY <1>1, <1>2

-----------------------------------------------------------------------------
(* fragments are flattened into one wire *)

Flattens(g, seqs, n) ==
    g = [i \in 1 .. n |-> IF i = 1 THEN seqs[i] ELSE g[i - 1] \o seqs[i]]

\* What FlattenSeq looks for exists, whatever it flattens.
LEMMA FlattensExists == ASSUME NEW seqs, NEW n \in Nat PROVE \E g : Flattens(g, seqs, n)
<1> DEFINE T == {m \in Nat : ~ \E g : Flattens(g, seqs, m)}
<1> SUFFICES ASSUME T # {} PROVE FALSE
  OBVIOUS
<1>1. PICK m \in T : \A k \in T : m <= k
  <2>1. T \subseteq Nat
    OBVIOUS
  <2> HIDE DEF T
  <2> QED BY <2>1, LeastOf
<1>2. CASE m = 0
  <2>1. Flattens([i \in 1 .. 0 |-> 0], seqs, 0)
    BY DEF Flattens
  <2> QED BY <1>1, <1>2, <2>1
<1>3. CASE m # 0
  <2>1. m - 1 \in Nat /\ m \in Nat /\ m - 1 \notin T
    BY <1>1, <1>3
  <2>2. PICK g : Flattens(g, seqs, m - 1)
    BY <2>1
  <2> DEFINE h == [i \in 1 .. m |-> IF i = 1 THEN seqs[i] ELSE g[i - 1] \o seqs[i]]
  <2>3. ASSUME NEW i \in 1 .. m, i # 1 PROVE h[i - 1] = g[i - 1]
    <3>1. i - 1 \in 1 .. m - 1 /\ i - 1 \in 1 .. m
      BY <2>1, <2>3
    <3>2. g[i - 1] = IF i - 1 = 1 THEN seqs[i - 1] ELSE g[i - 1 - 1] \o seqs[i - 1]
      BY <2>2, <3>1 DEF Flattens
    <3> QED BY <3>1, <3>2
  <2>4. h = [i \in 1 .. m |-> IF i = 1 THEN seqs[i] ELSE h[i - 1] \o seqs[i]]
    <3> HIDE DEF h
    <3>1. h = [i \in 1 .. m |-> IF i = 1 THEN seqs[i] ELSE g[i - 1] \o seqs[i]]
      BY DEF h
    <3> QED BY <2>3, <3>1
  <2>5. Flattens(h, seqs, m)
    BY <2>4 DEF Flattens
  <2> QED BY <1>1, <2>5
<1> QED BY <1>2, <1>3

-----------------------------------------------------------------------------
(* reading *)

\* The provers do not know that a literal is a string.
Names == STRING \cup {NoName, Structured}
Calls == [name : Names, arguments : Seq(STRING)]
Replies == [text : Seq(STRING), calls : Seq(Calls), input : Nat, output : Nat]

TextEvents == [event : {"text"}, pieces : Seq(STRING)]
CallEvents == [event : {"start", "more"}, index : Nat, name : Names, arguments : Seq(STRING)]
UsageEvents ==
    [event : {"usage"}, told : [input : Nat] \cup [output : Nat] \cup [input : Nat, output : Nat]]
Pings == [event : {"ping"}]
Dones == [event : {"done"}, response : Replies]
Events == TextEvents \cup CallEvents \cup UsageEvents \cup Pings \cup Dones

\* What an event does to what the adapter and the gateway have put together.
Step(kind, s, e) ==
    [got |-> Read(s.got, e),
     heard |-> IF HasChunk(kind, e) THEN Accumulate(s.heard, e) ELSE s.heard]

\* The events of w lead from s to t.
Along(kind, R, s, w, t) ==
    /\ R[0] = s /\ R[Len(w)] = t
    /\ \A n \in 1 .. Len(w) : R[n] = Step(kind, R[n - 1], w[n])
Reads(kind, s, w, t) == \E R : Along(kind, R, s, w, t)

\* Nothing to read leaves all as it is.
LEMMA ReadsNothing ==
    ASSUME NEW kind, NEW s
    PROVE  /\ Reads(kind, s, <<>>, s)
           /\ \A t : Reads(kind, s, <<>>, t) => s = t
<1>1. Along(kind, [n \in 0 .. 0 |-> s], s, <<>>, s)
  BY DEF Along
<1>2. ASSUME NEW t, Reads(kind, s, <<>>, t) PROVE s = t
  <2>1. PICK R : Along(kind, R, s, <<>>, t)
    BY <1>2 DEF Reads
  <2>2. Len(<<>>) = 0
    OBVIOUS
  <2> QED BY <2>1, <2>2 DEF Along
<1> QED BY <1>1, <1>2 DEF Reads

\* One event.
LEMMA ReadsOne ==
    ASSUME NEW kind, NEW s, NEW e
    PROVE  Reads(kind, s, <<e>>, Step(kind, s, e))
<1> DEFINE R == [n \in 0 .. 1 |-> IF n = 0 THEN s ELSE Step(kind, s, e)]
<1>1. R[0] = s /\ R[1] = Step(kind, s, e)
  OBVIOUS
<1>2. Len(<<e>>) = 1 /\ <<e>>[1] = e
  OBVIOUS
<1> HIDE DEF R
<1>3. ASSUME NEW n \in 1 .. 1 PROVE R[n] = Step(kind, R[n - 1], <<e>>[n])
  <2>1. n = 1 /\ n - 1 = 0
    OBVIOUS
  <2> QED BY <1>1, <1>2, <2>1
<1>4. Along(kind, R, s, <<e>>, Step(kind, s, e))
  BY <1>1, <1>2, <1>3 DEF Along
<1> QED BY <1>4 DEF Reads

\* What has been read is gone from the wire.
LEMMA ReadsFirst ==
    ASSUME NEW kind, NEW s, NEW w \in Seq(Events), w # <<>>, NEW t, Reads(kind, s, w, t)
    PROVE  Reads(kind, Step(kind, s, Head(w)), Tail(w), t)
<1>1. PICK R : Along(kind, R, s, w, t)
  BY DEF Reads
<1> DEFINE v == Tail(w)
           Q == [n \in 0 .. Len(v) |-> R[n + 1]]
<1>2. Len(w) \in Nat /\ Len(w) # 0
  BY LenProperties, EmptySeq
<1>3. /\ Len(v) = Len(w) - 1 /\ Head(w) = w[1]
      /\ \A i \in 1 .. Len(v) : v[i] = w[i + 1]
  BY HeadTailProperties
<1> HIDE DEF v
<1>4. Q[0] = Step(kind, s, Head(w))
  <2>1. 1 \in 1 .. Len(w) /\ 0 \in 0 .. Len(v) /\ 1 - 1 = 0 /\ 0 + 1 = 1
    BY <1>2, <1>3
  <2>2. R[1] = Step(kind, R[1 - 1], w[1])
    BY <1>1, <2>1 DEF Along
  <2>3. Q[0] = R[0 + 1]
    BY <2>1
  <2> QED BY <1>1, <1>3, <2>1, <2>2, <2>3 DEF Along
<1>5. Q[Len(v)] = t
  <2>1. Len(v) \in 0 .. Len(v) /\ Len(v) + 1 = Len(w)
    BY <1>2, <1>3
  <2> QED BY <1>1, <2>1 DEF Along
<1>6. ASSUME NEW n \in 1 .. Len(v) PROVE Q[n] = Step(kind, Q[n - 1], v[n])
  <2>1. n \in 0 .. Len(v) /\ n - 1 \in 0 .. Len(v) /\ n + 1 \in 1 .. Len(w)
        /\ n - 1 + 1 = n + 1 - 1
    BY <1>2, <1>3
  <2>2. R[n + 1] = Step(kind, R[n + 1 - 1], w[n + 1])
    BY <1>1, <2>1 DEF Along
  <2>3. Q[n] = R[n + 1] /\ Q[n - 1] = R[n - 1 + 1]
    BY <2>1
  <2> QED BY <1>3, <2>1, <2>2, <2>3
<1> HIDE DEF Q
<1>7. Along(kind, Q, Step(kind, s, Head(w)), v, t)
  BY <1>4, <1>5, <1>6 DEF Along
<1> QED BY <1>7 DEF Reads, v

\* Two parts of a wire, one after the other.
LEMMA ReadsOn ==
    ASSUME NEW kind, NEW s, NEW t, NEW u, NEW a \in Seq(Events), NEW b \in Seq(Events),
           Reads(kind, s, a, t), Reads(kind, t, b, u)
    PROVE  a \o b \in Seq(Events) /\ Reads(kind, s, a \o b, u)
<1>1. PICK R : Along(kind, R, s, a, t)
  BY DEF Reads
<1>2. PICK Q : Along(kind, Q, t, b, u)
  BY DEF Reads
<1> DEFINE w == a \o b
           m == Len(a)
           H == [n \in 0 .. Len(w) |-> IF n <= m THEN R[n] ELSE Q[n - m]]
<1>3. /\ m \in Nat /\ Len(b) \in Nat /\ Len(w) = m + Len(b) /\ w \in Seq(Events)
      /\ \A i \in 1 .. Len(w) : w[i] = IF i <= m THEN a[i] ELSE b[i - m]
  BY LenProperties, ConcatProperties
<1>4. Q[0] = t /\ R[m] = t
  BY <1>1, <1>2 DEF Along
<1> HIDE DEF w, m
<1>5. H[0] = s
  <2>1. 0 \in 0 .. Len(w) /\ 0 <= m
    BY <1>3
  <2> QED BY <1>1, <2>1 DEF Along
<1>6. H[Len(w)] = u
  <2>1. Len(w) \in 0 .. Len(w)
    BY <1>3
  <2>2. CASE Len(b) = 0
    <3>1. Len(w) = m /\ Q[0] = u
      BY <1>2, <1>3, <2>2 DEF Along
    <3> QED BY <1>3, <1>4, <2>1, <3>1
  <2>3. CASE Len(b) # 0
    <3>1. ~(Len(w) <= m) /\ Len(w) - m = Len(b)
      BY <1>3, <2>3
    <3>2. Q[Len(b)] = u
      BY <1>2 DEF Along
    <3> QED BY <2>1, <3>1, <3>2
  <2> QED BY <2>2, <2>3
<1>7. ASSUME NEW n \in 1 .. Len(w) PROVE H[n] = Step(kind, H[n - 1], w[n])
  <2>1. n \in 0 .. Len(w) /\ n - 1 \in 0 .. Len(w)
    BY <1>3
  <2>2. /\ H[n] = IF n <= m THEN R[n] ELSE Q[n - m]
        /\ H[n - 1] = IF n - 1 <= m THEN R[n - 1] ELSE Q[n - 1 - m]
    BY <2>1
  <2> HIDE DEF H
  <2>3. CASE n <= m
    <3>1. n \in 1 .. Len(a) /\ n - 1 <= m
      BY <1>3, <2>3 DEF m
    <3>2. R[n] = Step(kind, R[n - 1], a[n])
      BY <1>1, <3>1 DEF Along
    <3> QED BY <1>3, <2>2, <2>3, <3>1, <3>2
  <2>4. CASE ~(n <= m)
    <3>1. n - m \in 1 .. Len(b) /\ n - 1 - m = n - m - 1
      BY <1>3, <2>4
    <3>2. Q[n - m] = Step(kind, Q[n - m - 1], b[n - m])
      BY <1>2, <3>1 DEF Along
    <3>3. H[n - 1] = Q[n - m - 1]
      <4>1. CASE n - 1 = m
        <5>1. n - 1 <= m /\ n - m - 1 = 0
          BY <1>3, <4>1
        <5> QED BY <1>4, <2>2, <4>1, <5>1
      <4>2. CASE n - 1 # m
        <5>1. ~(n - 1 <= m)
          BY <1>3, <2>4, <4>2
        <5> QED BY <2>2, <3>1, <5>1
      <4> QED BY <4>1, <4>2
    <3> QED BY <1>3, <2>2, <2>4, <3>2, <3>3
  <2> QED BY <2>3, <2>4
<1> HIDE DEF H
<1>8. Along(kind, H, s, w, u)
  BY <1>5, <1>6, <1>7 DEF Along
<1> QED BY <1>3, <1>8 DEF Reads, w

-----------------------------------------------------------------------------
(* what an answer's events lead to *)

\* The adapter has put together this much; the gateway has heard the same text
\* and, from adapters that do not hold them back, the same calls.
Made(kind, text, calls, input, output) ==
    [got |-> Answer(text, calls, input, output),
     heard |-> Answer(text, IF Holds(kind) THEN <<>> ELSE calls, 0, 0)]

\* Text is added to both.
LEMMA StepText ==
    ASSUME NEW kind, NEW t, NEW c, NEW i, NEW o, NEW p
    PROVE  Step(kind, Made(kind, t, c, i, o), TextEvent(p)) = Made(kind, t \o p, c, i, o)
<1> DEFINE e == TextEvent(p)
           s == Made(kind, t, c, i, o)
<1>1. e.event = "text" /\ e.pieces = p
  BY DEF TextEvent
<1>2. /\ s.got = Answer(t, c, i, o)
      /\ s.heard = Answer(t, IF Holds(kind) THEN <<>> ELSE c, 0, 0)
  BY DEF Made
<1> HIDE DEF e, s
<1>3. Read(s.got, e) = [s.got EXCEPT !.text = @ \o p]
  BY <1>1 DEF Read
<1> DEFINE q == t \o p
<1> HIDE DEF q
<1>4. Read(s.got, e) = Answer(q, c, i, o)
  <2>1. s.got.text = t
    BY <1>2 DEF Answer
  <2>2. Read(s.got, e) = [s.got EXCEPT !.text = q]
    BY <1>3, <2>1 DEF q
  <2> QED BY <1>2, <2>2 DEF Answer
<1>5. HasChunk(kind, e) /\ Accumulate(s.heard, e) = [s.heard EXCEPT !.text = @ \o p]
  BY <1>1 DEF HasChunk, Accumulate
<1>6. Accumulate(s.heard, e) = Answer(q, IF Holds(kind) THEN <<>> ELSE c, 0, 0)
  <2>1. s.heard.text = t
    BY <1>2 DEF Answer
  <2>2. Accumulate(s.heard, e) = [s.heard EXCEPT !.text = q]
    BY <1>5, <2>1 DEF q
  <2> QED BY <1>2, <2>2 DEF Answer
<1>7. Step(kind, s, e) = Made(kind, q, c, i, o)
  BY <1>4, <1>5, <1>6 DEF Step, Made
<1> QED BY <1>7 DEF e, s, q

\* A call, or more of one, is added to the adapter's and, where the gateway
\* hears it, to the gateway's.
LEMMA StepCall ==
    ASSUME NEW kind, NEW t, NEW c, NEW i, NEW o, NEW e, e.event \in {"start", "more"}
    PROVE  Step(kind, Made(kind, t, c, i, o), e) = Made(kind, t, AddCall(c, e), i, o)
<1> DEFINE s == Made(kind, t, c, i, o)
<1>1. /\ s.got = Answer(t, c, i, o)
      /\ s.heard = Answer(t, IF Holds(kind) THEN <<>> ELSE c, 0, 0)
  BY DEF Made
<1> HIDE DEF s
<1>2. Read(s.got, e) = [s.got EXCEPT !.calls = AddCall(@, e)]
  BY DEF Read
<1>3. Read(s.got, e) = Answer(t, AddCall(c, e), i, o)
  BY <1>1, <1>2 DEF Answer
<1>4. CASE Holds(kind)
  <2>1. ~HasChunk(kind, e)
    BY <1>4 DEF HasChunk
  <2>2. Step(kind, s, e) = [got |-> Read(s.got, e), heard |-> s.heard]
    BY <2>1 DEF Step
  <2> QED BY <1>1, <1>3, <1>4, <2>2 DEF Made, s
<1>5. CASE ~Holds(kind)
  <2>1. HasChunk(kind, e) /\ Accumulate(s.heard, e) = [s.heard EXCEPT !.calls = AddCall(@, e)]
    BY <1>5 DEF HasChunk, Accumulate
  <2>2. s.heard = Answer(t, c, 0, 0)
    BY <1>1, <1>5
  <2>3. Accumulate(s.heard, e) = Answer(t, AddCall(c, e), 0, 0)
    BY <2>1, <2>2 DEF Answer
  <2>4. Step(kind, s, e) = [got |-> Read(s.got, e), heard |-> Accumulate(s.heard, e)]
    BY <2>1 DEF Step
  <2> QED BY <1>3, <1>5, <2>3, <2>4 DEF Made, s
<1> QED BY <1>4, <1>5

\* Usage, pings and the closing response are no chunks.
LEMMA StepOther ==
    ASSUME NEW kind, NEW t, NEW c, NEW i, NEW o
    PROVE  /\ \A told : Step(kind, Made(kind, t, c, i, o), UsageEvent(told)) =
                           Made(kind, t, c, Told(told, "input", i), Told(told, "output", o))
           /\ Step(kind, Made(kind, t, c, i, o), Ping) = Made(kind, t, c, i, o)
           /\ \A n, m : Step(kind, Made(kind, t, c, i, o), Done(Answer(t, c, n, m))) =
                           Made(kind, t, c, n, m)
<1> DEFINE s == Made(kind, t, c, i, o)
<1>1. /\ s.got = Answer(t, c, i, o)
      /\ s.heard = Answer(t, IF Holds(kind) THEN <<>> ELSE c, 0, 0)
  BY DEF Made
<1> HIDE DEF s
<1>2. ASSUME NEW told
      PROVE  Step(kind, s, UsageEvent(told)) =
                Made(kind, t, c, Told(told, "input", i), Told(told, "output", o))
  <2> DEFINE e == UsageEvent(told)
  <2>1. e.event = "usage" /\ e.told = told
    BY DEF UsageEvent
  <2> HIDE DEF e
  <2>2. ~HasChunk(kind, e) /\ Read(s.got, e) = UsageTold(s.got, e)
    BY <2>1 DEF HasChunk, Read
  <2>3. Read(s.got, e) = [s.got EXCEPT !.input = Told(told, "input", @),
                                       !.output = Told(told, "output", @)]
    BY <2>1, <2>2 DEF UsageTold
  <2> DEFINE n == Told(told, "input", i)
             m == Told(told, "output", o)
  <2> HIDE DEF n, m
  <2>4. Read(s.got, e) = Answer(t, c, n, m)
    <3>1. s.got.input = i /\ s.got.output = o
      BY <1>1 DEF Answer
    <3>2. Read(s.got, e) = [s.got EXCEPT !.input = n, !.output = m]
      BY <2>3, <3>1 DEF n, m
    <3> DEFINE x == [s.got EXCEPT !.input = n]
    <3>3. x = Answer(t, c, n, o)
      BY <1>1 DEF Answer
    <3> HIDE DEF x
    <3>4. [x EXCEPT !.output = m] = Answer(t, c, n, m)
      BY <3>3 DEF Answer
    <3> QED BY <3>2, <3>4 DEF x
  <2>5. Step(kind, s, e) = [got |-> Read(s.got, e), heard |-> s.heard]
    BY <2>2 DEF Step
  <2> QED BY <1>1, <2>4, <2>5 DEF Made, e, n, m
<1>3. Step(kind, s, Ping) = s
  <2>1. Ping.event = "ping"
    BY DEF Ping
  <2>2. ~HasChunk(kind, Ping) /\ Read(s.got, Ping) = s.got
    BY <2>1 DEF HasChunk, Read, UsageTold
  <2>3. Step(kind, s, Ping) = [got |-> s.got, heard |-> s.heard]
    BY <2>2 DEF Step
  <2> QED BY <1>1, <2>3 DEF Made, s
<1>4. ASSUME NEW n, NEW m
      PROVE  Step(kind, s, Done(Answer(t, c, n, m))) = Made(kind, t, c, n, m)
  <2> DEFINE e == Done(Answer(t, c, n, m))
  <2>1. e.event = "done" /\ e.response = Answer(t, c, n, m)
    BY DEF Done
  <2> HIDE DEF e
  <2>2. ~HasChunk(kind, e) /\ Read(s.got, e) = Answer(t, c, n, m)
    BY <2>1 DEF HasChunk, Read
  <2>3. Step(kind, s, e) = [got |-> Read(s.got, e), heard |-> s.heard]
    BY <2>2 DEF Step
  <2> QED BY <1>1, <2>2, <2>3 DEF Made, e
<1> QED BY <1>2, <1>3, <1>4 DEF s

\* A sequence is its prefixes, one longer than the other.
LEMMA PrefixGrows ==
    ASSUME NEW S, NEW s \in Seq(S)
    PROVE  /\ SubSeq(s, 1, 0) = <<>>
           /\ SubSeq(s, 1, Len(s)) = s
           /\ \A n \in 0 .. Len(s) : /\ SubSeq(s, 1, n) \in Seq(S)
                                     /\ Len(SubSeq(s, 1, n)) = n
           /\ \A n \in 1 .. Len(s) : SubSeq(s, 1, n) = SubSeq(s, 1, n - 1) \o <<s[n]>>
<1>1. Len(s) \in Nat
  BY LenProperties
<1>2. SubSeq(s, 1, 0) = <<>>
  BY SubSeqEmpty
<1>3. SubSeq(s, 1, Len(s)) = s
  BY SubSeqFull
<1>4. ASSUME NEW n \in 0 .. Len(s)
      PROVE  SubSeq(s, 1, n) \in Seq(S) /\ Len(SubSeq(s, 1, n)) = n
  <2>1. \A i \in 1 .. n : s[i] \in S
    BY <1>1, ElementOfSeq
  <2>2. /\ SubSeq(s, 1, n) \in Seq(S)
        /\ Len(SubSeq(s, 1, n)) = IF 1 <= n THEN n - 1 + 1 ELSE 0
    BY <1>1, <2>1, SubSeqProperties
  <2> QED BY <1>1, <2>2
<1>5. ASSUME NEW n \in 1 .. Len(s)
      PROVE  SubSeq(s, 1, n) = SubSeq(s, 1, n - 1) \o <<s[n]>>
  <2>1. 1 \in 1 .. Len(s) /\ n \in 1 .. Len(s)
    BY <1>1
  <2> QED BY <2>1, SubSeqRecursiveSecond
<1> QED BY <1>2, <1>3, <1>4, <1>5

\* The domain of a sequence tells its length.
LEMMA LengthOf ==
    ASSUME NEW S, NEW w \in Seq(S), NEW n \in Nat, DOMAIN w = 1 .. n
    PROVE  Len(w) = n
<1> DEFINE m == Len(w)
<1>1. m \in Nat /\ 1 .. m = 1 .. n
  BY LenProperties
<1> HIDE DEF m
<1>2. n \in 1 .. n <=> n # 0
  OBVIOUS
<1>3. m \in 1 .. m <=> m # 0
  BY <1>1
<1>4. n # 0 => n <= m
  <2>1. n # 0 => n \in 1 .. m
    BY <1>1, <1>2
  <2> QED BY <1>1, <2>1
<1>5. m # 0 => m <= n
  <2>1. m # 0 => m \in 1 .. n
    BY <1>1, <1>3
  <2> QED BY <1>1, <2>1
<1>6. m = n
  BY <1>1, <1>4, <1>5
<1> QED BY <1>6 DEF m

\* Texts put the text together.
LEMMA ReadsTexts ==
    ASSUME NEW kind, NEW r \in Replies, NEW i \in Nat, NEW o \in Nat
    PROVE  /\ Texts(r) \in Seq(Events)
           /\ Reads(kind, Made(kind, <<>>, <<>>, i, o), Texts(r),
                    Made(kind, r.text, <<>>, i, o))
<1> DEFINE x == r.text
           R == [n \in 0 .. Len(x) |-> Made(kind, SubSeq(x, 1, n), <<>>, i, o)]
           w == Texts(r)
<1>1. x \in Seq(STRING)
  BY DEF Replies
<1>2. Len(x) \in Nat /\ DOMAIN x = 1 .. Len(x)
  BY <1>1, LenProperties
<1>3. w = [n \in 1 .. Len(x) |-> TextEvent(<<x[n]>>)]
  BY <1>2 DEF Texts
<1> HIDE DEF x, w
<1>4. ASSUME NEW n \in 1 .. Len(x) PROVE TextEvent(<<x[n]>>) \in Events
  <2>1. x[n] \in STRING
    BY <1>1, ElementOfSeq
  <2>2. <<x[n]>> \in Seq(STRING)
    BY <2>1
  <2> QED BY <2>2 DEF TextEvent, TextEvents, Events
<1>5. w \in Seq(Events) /\ Len(w) = Len(x)
  <2>1. w \in [1 .. Len(x) -> Events]
    BY <1>3, <1>4
  <2>2. w \in Seq(Events)
    BY <1>2, <2>1, SeqDef
  <2>3. DOMAIN w = 1 .. Len(x)
    BY <1>3
  <2> QED BY <1>2, <2>2, <2>3, LengthOf
<1>6. R[0] = Made(kind, <<>>, <<>>, i, o) /\ R[Len(x)] = Made(kind, x, <<>>, i, o)
  <2>1. 0 \in 0 .. Len(x) /\ Len(x) \in 0 .. Len(x)
    BY <1>2
  <2> QED BY <1>1, <2>1, PrefixGrows
<1>7. ASSUME NEW n \in 1 .. Len(x) PROVE R[n] = Step(kind, R[n - 1], w[n])
  <2>1. n \in 0 .. Len(x) /\ n - 1 \in 0 .. Len(x)
    BY <1>2
  <2>2. w[n] = TextEvent(<<x[n]>>)
    BY <1>3
  <2>3. SubSeq(x, 1, n) = SubSeq(x, 1, n - 1) \o <<x[n]>>
    BY <1>1, PrefixGrows
  <2>4. Step(kind, Made(kind, SubSeq(x, 1, n - 1), <<>>, i, o), TextEvent(<<x[n]>>))
           = Made(kind, SubSeq(x, 1, n - 1) \o <<x[n]>>, <<>>, i, o)
    BY StepText
  <2> QED BY <2>1, <2>2, <2>3, <2>4
<1> HIDE DEF R
<1>8. Along(kind, R, Made(kind, <<>>, <<>>, i, o), w, Made(kind, x, <<>>, i, o))
  BY <1>5, <1>6, <1>7 DEF Along
<1> QED BY <1>5, <1>8 DEF Reads, w, x

\* A call is begun behind those there are.
LEMMA CallBegun ==
    ASSUME NEW p \in Seq(Calls), NEW name \in Names, NEW args \in Seq(STRING)
    PROVE  AddCall(p, CallEvent("start", Len(p) + 1, name, args)) =
              p \o <<[name |-> name, arguments |-> args]>>
<1> DEFINE e == CallEvent("start", Len(p) + 1, name, args)
           c == [name |-> name, arguments |-> args]
<1>1. e.index = Len(p) + 1 /\ e.name = name /\ e.arguments = args
  BY DEF CallEvent
<1>2. Len(p) \in Nat /\ DOMAIN p = 1 .. Len(p)
  BY LenProperties
<1>3. c \in Calls
  BY DEF Calls
<1> HIDE DEF e
<1>4. e.index \notin DOMAIN p
  BY <1>1, <1>2
<1>5. AddCall(p, e) = Append(p, c)
  BY <1>1, <1>4 DEF AddCall, Call
<1> HIDE DEF c
<1>6. Append(p, c) = p \o <<c>>
  BY <1>3, AppendIsConcat
<1> QED BY <1>5, <1>6 DEF e, c

\* Arguments are added to the last call.
LEMMA CallGrows ==
    ASSUME NEW p \in Seq(Calls), NEW name \in Names, NEW args \in Seq(STRING),
           NEW more \in Seq(STRING)
    PROVE  AddCall(p \o <<[name |-> name, arguments |-> args]>>,
                   CallEvent("more", Len(p) + 1, NoName, more)) =
              p \o <<[name |-> name, arguments |-> args \o more]>>
<1> DEFINE c == [name |-> name, arguments |-> args]
           d == [name |-> name, arguments |-> args \o more]
           e == CallEvent("more", Len(p) + 1, NoName, more)
           i == Len(p) + 1
<1>1. c \in Calls /\ d \in Calls
  <2>1. args \o more \in Seq(STRING)
    BY ConcatProperties
  <2> QED BY <2>1 DEF Calls
<1>2. e.index = i /\ e.arguments = more
  BY DEF CallEvent
<1>3. [c EXCEPT !.arguments = @ \o more] = d
  <2> DEFINE x == args \o more
  <2>1. [c EXCEPT !.arguments = @ \o more] = [c EXCEPT !.arguments = x]
    OBVIOUS
  <2> HIDE DEF x
  <2>2. [c EXCEPT !.arguments = x] = [name |-> name, arguments |-> x]
    OBVIOUS
  <2> QED BY <2>1, <2>2 DEF x
<1> DEFINE q == p \o <<c>>
           r == p \o <<d>>
<1> HIDE DEF c, d, e
<1>4. Len(p) \in Nat
  BY LenProperties
<1>5. /\ q \in Seq(Calls) /\ Len(q) = i /\ q[i] = c
      /\ \A j \in 1 .. Len(p) : q[j] = p[j]
  BY <1>1, <1>4, ConcatProperties
<1>6. /\ r \in Seq(Calls) /\ Len(r) = i /\ r[i] = d
      /\ \A j \in 1 .. Len(p) : r[j] = p[j]
  BY <1>1, <1>4, ConcatProperties
<1> HIDE DEF q, r
<1>7. DOMAIN q = 1 .. i /\ DOMAIN r = 1 .. i /\ i \in 1 .. i
  BY <1>4, <1>5, <1>6, LenProperties
<1>8. AddCall(q, e) = [q EXCEPT ![i].arguments = @ \o more]
  BY <1>2, <1>7 DEF AddCall
<1>9. [q EXCEPT ![i].arguments = @ \o more] = [q EXCEPT ![i] = d]
  BY <1>3, <1>5
<1>10. [q EXCEPT ![i] = d] = r
  <2> DEFINE x == [q EXCEPT ![i] = d]
  <2>1. x \in Seq(Calls) /\ Len(x) = i
    BY <1>1, <1>5, <1>7, ExceptSeq
  <2>2. ASSUME NEW j \in 1 .. i PROVE x[j] = r[j]
    <3>1. CASE j = i
      BY <1>6, <1>7, <3>1
    <3>2. CASE j # i
      <4>1. j \in 1 .. Len(p)
        BY <1>4, <3>2
      <4> QED BY <1>5, <1>6, <1>7, <3>2, <4>1
    <3> QED BY <3>1, <3>2
  <2> HIDE DEF x
  <2>3. x = r
    BY <1>6, <2>1, <2>2, SeqEqual
  <2> QED BY <2>3 DEF x
<1>11. AddCall(q, e) = r
  BY <1>8, <1>9, <1>10
<1> QED BY <1>11 DEF q, r, c, d, e

\* A call that comes whole.
LEMMA ReadsCalls ==
    ASSUME NEW kind, NEW t, NEW r \in Replies, NEW i \in Nat, NEW o \in Nat
    PROVE  /\ WholeCalls(r) \in Seq(Events)
           /\ Reads(kind, Made(kind, t, <<>>, i, o), WholeCalls(r),
                    Made(kind, t, r.calls, i, o))
<1> DEFINE x == r.calls
           E(n) == CallEvent("start", n, x[n].name, x[n].arguments)
           R == [n \in 0 .. Len(x) |-> Made(kind, t, SubSeq(x, 1, n), i, o)]
           w == WholeCalls(r)
<1>1. x \in Seq(Calls)
  BY DEF Replies
<1>2. Len(x) \in Nat /\ DOMAIN x = 1 .. Len(x)
  BY <1>1, LenProperties
<1>3. w = [n \in 1 .. Len(x) |-> E(n)]
  BY <1>2 DEF WholeCalls
<1> HIDE DEF x, w
<1>4. ASSUME NEW n \in 1 .. Len(x)
      PROVE  /\ x[n].name \in Names /\ x[n].arguments \in Seq(STRING)
             /\ x[n] = [name |-> x[n].name, arguments |-> x[n].arguments]
             /\ E(n) \in Events
  <2>1. x[n] \in Calls
    BY <1>1, ElementOfSeq
  <2>2. /\ x[n].name \in Names /\ x[n].arguments \in Seq(STRING)
        /\ x[n] = [name |-> x[n].name, arguments |-> x[n].arguments]
    BY <2>1 DEF Calls
  <2> QED BY <1>2, <2>2 DEF CallEvent, CallEvents, Events
<1>5. w \in Seq(Events) /\ Len(w) = Len(x)
  <2> HIDE DEF E
  <2>1. w \in [1 .. Len(x) -> Events]
    BY <1>3, <1>4
  <2>2. w \in Seq(Events)
    BY <1>2, <2>1, SeqDef
  <2>3. DOMAIN w = 1 .. Len(x)
    BY <1>3
  <2> QED BY <1>2, <2>2, <2>3, LengthOf
<1>6. R[0] = Made(kind, t, <<>>, i, o) /\ R[Len(x)] = Made(kind, t, x, i, o)
  <2>1. 0 \in 0 .. Len(x) /\ Len(x) \in 0 .. Len(x)
    BY <1>2
  <2> QED BY <1>1, <2>1, PrefixGrows
<1>7. ASSUME NEW n \in 1 .. Len(x) PROVE R[n] = Step(kind, R[n - 1], w[n])
  <2> DEFINE p == SubSeq(x, 1, n - 1)
  <2>1. n \in 0 .. Len(x) /\ n - 1 \in 0 .. Len(x) /\ n - 1 + 1 = n
    BY <1>2
  <2>2. p \in Seq(Calls) /\ Len(p) + 1 = n /\ SubSeq(x, 1, n) = p \o <<x[n]>>
    BY <1>1, <2>1, PrefixGrows
  <2>3. R[n] = Made(kind, t, SubSeq(x, 1, n), i, o) /\ R[n - 1] = Made(kind, t, p, i, o)
    BY <2>1
  <2>4. w[n] = E(n) /\ E(n).event = "start"
    BY <1>3 DEF CallEvent
  <2> HIDE DEF R, p
  <2>5. AddCall(p, E(n)) = p \o <<x[n]>>
    BY <1>4, <2>2, CallBegun
  <2> HIDE DEF E
  <2>6. Step(kind, Made(kind, t, p, i, o), E(n)) = Made(kind, t, AddCall(p, E(n)), i, o)
    BY <2>4, StepCall
  <2> QED BY <2>2, <2>3, <2>4, <2>5, <2>6
<1> HIDE DEF R
<1>8. Along(kind, R, Made(kind, t, <<>>, i, o), w, Made(kind, t, x, i, o))
  BY <1>5, <1>6, <1>7 DEF Along
<1> QED BY <1>5, <1>8 DEF Reads, w, x

\* The fragments of one call.
InPieces(n, c) ==
    <<CallEvent("start", n, c.name, <<>>)>>
    \o [j \in DOMAIN c.arguments |-> CallEvent("more", n, NoName, <<c.arguments[j]>>)]

\* A call that comes in fragments.
LEMMA ReadsPieces ==
    ASSUME NEW kind, NEW t, NEW p \in Seq(Calls), NEW c \in Calls, NEW i, NEW o
    PROVE  /\ InPieces(Len(p) + 1, c) \in Seq(Events)
           /\ Reads(kind, Made(kind, t, p, i, o), InPieces(Len(p) + 1, c),
                    Made(kind, t, p \o <<c>>, i, o))
<1> DEFINE n == Len(p) + 1
           x == c.arguments
           C(a) == [name |-> c.name, arguments |-> a]
           F(j) == CallEvent("more", n, NoName, <<x[j]>>)
           w == [j \in DOMAIN x |-> F(j)]
           e == CallEvent("start", n, c.name, <<>>)
           M(a) == Made(kind, t, p \o <<C(a)>>, i, o)
           R == [j \in 0 .. Len(x) |-> M(SubSeq(x, 1, j))]
<1>1. /\ c.name \in Names /\ x \in Seq(STRING) /\ c = C(x) /\ n \in Nat
      /\ <<>> \in Seq(STRING) /\ NoName \in Names
  BY LenProperties DEF Calls, Names
<1>2. Len(x) \in Nat /\ DOMAIN x = 1 .. Len(x)
  BY <1>1, LenProperties
<1>3. e \in Events /\ e.event = "start"
  BY <1>1 DEF CallEvent, CallEvents, Events
<1>4. w = [j \in 1 .. Len(x) |-> F(j)]
  BY <1>2
<1>5. InPieces(n, c) = <<e>> \o w
  BY DEF InPieces
<1> HIDE DEF w, x
<1>6. ASSUME NEW j \in 1 .. Len(x)
      PROVE  /\ <<x[j]>> \in Seq(STRING) /\ F(j) \in Events /\ F(j).event = "more"
  <2>1. x[j] \in STRING
    BY <1>1, ElementOfSeq
  <2>2. <<x[j]>> \in Seq(STRING)
    BY <2>1
  <2> HIDE DEF n
  <2> QED BY <1>1, <2>2 DEF CallEvent, CallEvents, Events
<1>7. w \in Seq(Events) /\ Len(w) = Len(x)
  <2> HIDE DEF F
  <2>1. w \in [1 .. Len(x) -> Events]
    BY <1>4, <1>6
  <2>2. w \in Seq(Events)
    BY <1>2, <2>1, SeqDef
  <2>3. DOMAIN w = 1 .. Len(x)
    BY <1>4
  <2> QED BY <1>2, <2>2, <2>3, LengthOf
<1>8. Reads(kind, Made(kind, t, p, i, o), <<e>>, M(<<>>))
  <2>1. AddCall(p, e) = p \o <<C(<<>>)>>
    BY <1>1, CallBegun
  <2> HIDE DEF e
  <2>2. Step(kind, Made(kind, t, p, i, o), e) = M(<<>>)
    <3>1. Step(kind, Made(kind, t, p, i, o), e) = Made(kind, t, AddCall(p, e), i, o)
      <4>1. e.event \in {"start", "more"}
        BY <1>3
      <4> QED BY <4>1, StepCall
    <3> QED BY <2>1, <3>1
  <2>3. Reads(kind, Made(kind, t, p, i, o), <<e>>, Step(kind, Made(kind, t, p, i, o), e))
    BY ReadsOne
  <2> QED BY <2>2, <2>3
<1>9. R[0] = M(<<>>) /\ R[Len(x)] = M(x)
  <2>1. 0 \in 0 .. Len(x) /\ Len(x) \in 0 .. Len(x)
    BY <1>2
  <2> HIDE DEF M
  <2> QED BY <1>1, <2>1, PrefixGrows
<1>10. ASSUME NEW j \in 1 .. Len(x) PROVE R[j] = Step(kind, R[j - 1], w[j])
  <2> DEFINE a == SubSeq(x, 1, j - 1)
  <2>1. j \in 0 .. Len(x) /\ j - 1 \in 0 .. Len(x)
    BY <1>2
  <2>2. a \in Seq(STRING) /\ SubSeq(x, 1, j) = a \o <<x[j]>>
    BY <1>1, <2>1, PrefixGrows
  <2>3. R[j] = M(SubSeq(x, 1, j)) /\ R[j - 1] = M(a)
    <3> HIDE DEF M
    <3> QED BY <2>1
  <2>4. w[j] = F(j)
    BY <1>4
  <2> HIDE DEF R, a
  <2>5. AddCall(p \o <<C(a)>>, F(j)) = p \o <<C(a \o <<x[j]>>)>>
    BY <1>1, <1>6, <2>2, CallGrows
  <2>6. Step(kind, M(a), F(j)) = Made(kind, t, AddCall(p \o <<C(a)>>, F(j)), i, o)
    <3> HIDE DEF F, C
    <3> QED BY <1>6, StepCall
  <2> QED BY <2>2, <2>3, <2>4, <2>5, <2>6
<1> HIDE DEF R
<1>11. Reads(kind, M(<<>>), w, M(x))
  <2>1. Along(kind, R, M(<<>>), w, M(x))
    BY <1>7, <1>9, <1>10 DEF Along
  <2> QED BY <2>1 DEF Reads
<1>12. <<e>> \in Seq(Events)
  BY <1>3
<1> HIDE DEF e, M
<1>13. <<e>> \o w \in Seq(Events) /\ Reads(kind, Made(kind, t, p, i, o), <<e>> \o w, M(x))
  BY <1>7, <1>8, <1>11, <1>12, ReadsOn
<1>14. M(x) = Made(kind, t, p \o <<c>>, i, o)
  BY <1>1 DEF M
<1> QED BY <1>5, <1>13, <1>14

\* All calls in fragments, one after the other.
LEMMA ReadsFragments ==
    ASSUME NEW kind, NEW t, NEW r \in Replies, NEW i \in Nat, NEW o \in Nat
    PROVE  /\ Fragments(r) \in Seq(Events)
           /\ Reads(kind, Made(kind, t, <<>>, i, o), Fragments(r),
                    Made(kind, t, r.calls, i, o))
<1> DEFINE x == r.calls
           n == Len(x)
           All == [m \in DOMAIN x |-> InPieces(m, x[m])]
           H == CHOOSE g : Flattens(g, All, n)
           M(c) == Made(kind, t, c, i, o)
<1>1. x \in Seq(Calls)
  BY DEF Replies
<1>2. n \in Nat /\ DOMAIN x = 1 .. n
  BY <1>1, LenProperties
<1>3. Fragments(r) = FlattenSeq(All)
  BY DEF Fragments, InPieces
<1> HIDE DEF x
<1>4. ASSUME NEW m \in 1 .. n
      PROVE  /\ SubSeq(x, 1, m - 1) \in Seq(Calls)
             /\ SubSeq(x, 1, m) = SubSeq(x, 1, m - 1) \o <<x[m]>>
             /\ All[m] \in Seq(Events)
             /\ Reads(kind, M(SubSeq(x, 1, m - 1)), All[m], M(SubSeq(x, 1, m)))
  <2> DEFINE p == SubSeq(x, 1, m - 1)
             c == x[m]
  <2>1. m \in 1 .. Len(x) /\ m - 1 \in 0 .. Len(x)
    BY <1>2
  <2>2. p \in Seq(Calls) /\ Len(p) = m - 1 /\ SubSeq(x, 1, m) = p \o <<c>> /\ c \in Calls
    BY <1>1, <2>1, PrefixGrows, ElementOfSeq
  <2>3. All[m] = InPieces(m, c)
    BY <1>2
  <2>4. m = Len(p) + 1
    <3> HIDE DEF p
    <3> QED BY <1>2, <2>2
  <2> HIDE DEF p, c, All
  <2>5. /\ InPieces(Len(p) + 1, c) \in Seq(Events)
        /\ Reads(kind, Made(kind, t, p, i, o), InPieces(Len(p) + 1, c),
                 Made(kind, t, p \o <<c>>, i, o))
    BY <2>2, ReadsPieces
  <2>6. All[m] \in Seq(Events) /\ Reads(kind, M(p), All[m], M(p \o <<c>>))
    BY <2>3, <2>4, <2>5
  <2> QED BY <2>2, <2>6 DEF p, c
<1>5. All \in Seq(Seq(Events)) /\ Len(All) = n
  <2>1. DOMAIN All = 1 .. n /\ All = [m \in 1 .. n |-> All[m]]
    BY <1>2
  <2> HIDE DEF All, n, M
  <2>2. All \in [1 .. n -> Seq(Events)]
    BY <1>4, <2>1
  <2>3. All \in Seq(Seq(Events))
    BY <1>2, <2>2, SeqDef
  <2> QED BY <1>2, <2>1, <2>3, LengthOf
<1> HIDE DEF All
<1>6. CASE n = 0
  <2>1. x = <<>> /\ All = <<>>
    BY <1>1, <1>5, <1>6, EmptySeq
  <2>2. Fragments(r) = <<>>
    BY <1>3, <2>1 DEF FlattenSeq
  <2>3. Reads(kind, M(<<>>), <<>>, M(<<>>)) /\ <<>> \in Seq(Events)
    BY ReadsNothing
  <2>4. r.calls = <<>>
    BY <2>1 DEF x
  <2> HIDE DEF H
  <2> QED BY <2>2, <2>3, <2>4
<1>7. CASE n # 0
  <2>1. FlattenSeq(All) = H[n]
    BY <1>5, <1>7 DEF FlattenSeq, Flattens
  <2>2. Flattens(H, All, n)
    <3> HIDE DEF n
    <3> QED BY <1>2, FlattensExists
  <2> HIDE DEF H, n, M
  <2> DEFINE Q(m) == /\ H[m] \in Seq(Events)
                     /\ Reads(kind, M(<<>>), H[m], M(SubSeq(x, 1, m)))
             T == {m \in 1 .. n : ~Q(m)}
  <2>3. ASSUME T # {} PROVE FALSE
    <3>1. T \subseteq Nat
      BY <1>2
    <3>2. PICK m \in T : \A k \in T : m <= k
      <4> HIDE DEF T
      <4> QED BY <2>3, <3>1, LeastOf
    <3>3. m \in 1 .. n /\ ~Q(m)
      BY <3>2
    <3>4. H[m] = IF m = 1 THEN All[m] ELSE H[m - 1] \o All[m]
      BY <2>2, <3>3 DEF Flattens
    <3>5. CASE m = 1
      <4>1. SubSeq(x, 1, m - 1) = <<>>
        BY <1>1, <3>5, PrefixGrows
      <4> QED BY <1>4, <3>3, <3>4, <3>5, <4>1
    <3>6. CASE m # 1
      <4>1. m - 1 \in 1 .. n /\ m - 1 < m
        BY <1>2, <3>3, <3>6
      <4>2. Q(m - 1)
        <5> HIDE DEF Q
        <5> QED BY <1>2, <3>2, <4>1
      <4>3. All[m] \in Seq(Events)
            /\ Reads(kind, M(SubSeq(x, 1, m - 1)), All[m], M(SubSeq(x, 1, m)))
        BY <1>4, <3>3
      <4>4. /\ H[m - 1] \o All[m] \in Seq(Events)
            /\ Reads(kind, M(<<>>), H[m - 1] \o All[m], M(SubSeq(x, 1, m)))
        BY <4>2, <4>3, ReadsOn
      <4> QED BY <3>3, <3>4, <3>6, <4>4
    <3> QED BY <3>5, <3>6
  <2>4. n \in 1 .. n
    BY <1>2, <1>7
  <2>5. Q(n)
    BY <2>3, <2>4
  <2>6. SubSeq(x, 1, n) = x
    BY <1>1, PrefixGrows DEF n
  <2> QED BY <1>3, <2>1, <2>5, <2>6 DEF M, x
<1> QED BY <1>6, <1>7

\* What reading the wire of an answer leads to: the whole answer, but for the
\* tokens of a stream that does not tell them.
Whole(kind, r) ==
    IF kind = "bare" THEN Made(kind, r.text, r.calls, 0, 0)
    ELSE Made(kind, r.text, r.calls, r.input, r.output)

\* The wire of an answer leads to it, whichever adapter reads it.
LEMMA WireLeads ==
    ASSUME NEW kind \in Kinds, NEW r \in Replies
    PROVE  /\ Wire(kind, r) \in Seq(Events)
           /\ Reads(kind, Made(kind, <<>>, <<>>, 0, 0), Wire(kind, r), Whole(kind, r))
<1> DEFINE T == Texts(r)
           F == Fragments(r)
           C == WholeCalls(r)
           in == <<UsageEvent([input |-> r.input])>>
           out == <<UsageEvent([output |-> r.output])>>
           zero == <<UsageEvent([input |-> r.input, output |-> 0])>>
           both == <<UsageEvent([input |-> r.input, output |-> r.output])>>
           ping == <<Ping>>
           M(t, c, i, o) == Made(kind, t, c, i, o)
<1>1. /\ T \in Seq(Events) /\ F \in Seq(Events) /\ C \in Seq(Events)
      /\ \A i, o \in Nat : /\ Reads(kind, M(<<>>, <<>>, i, o), T, M(r.text, <<>>, i, o))
                           /\ Reads(kind, M(r.text, <<>>, i, o), F, M(r.text, r.calls, i, o))
                           /\ Reads(kind, M(r.text, <<>>, i, o), C, M(r.text, r.calls, i, o))
  <2>1. 0 \in Nat
    OBVIOUS
  <2> HIDE DEF T, F, C, M
  <2>2. /\ T \in Seq(Events) /\ F \in Seq(Events) /\ C \in Seq(Events)
    BY <2>1, ReadsTexts, ReadsFragments, ReadsCalls DEF T, F, C
  <2> QED BY <2>2, ReadsTexts, ReadsFragments, ReadsCalls DEF T, F, C, M
<1>2. r.input \in Nat /\ r.output \in Nat /\ r.text \in Seq(STRING) /\ r.calls \in Seq(Calls)
      /\ r = Answer(r.text, r.calls, r.input, r.output)
  BY DEF Replies, Answer
<1>3. /\ UsageEvent([input |-> r.input]) \in Events
      /\ UsageEvent([output |-> r.output]) \in Events
      /\ UsageEvent([input |-> r.input, output |-> 0]) \in Events
      /\ UsageEvent([input |-> r.input, output |-> r.output]) \in Events
      /\ Ping \in Events
  BY <1>2 DEF UsageEvent, UsageEvents, Ping, Pings, Events
<1>4. /\ in \in Seq(Events) /\ out \in Seq(Events) /\ zero \in Seq(Events)
      /\ both \in Seq(Events) /\ ping \in Seq(Events)
  BY <1>3
<1>5. \A t, c, i, o :
         /\ Reads(kind, M(t, c, i, o), in, M(t, c, r.input, o))
         /\ Reads(kind, M(t, c, i, o), out, M(t, c, i, r.output))
         /\ Reads(kind, M(t, c, i, o), zero, M(t, c, r.input, 0))
         /\ Reads(kind, M(t, c, i, o), both, M(t, c, r.input, r.output))
         /\ Reads(kind, M(t, c, i, o), ping, M(t, c, i, o))
  <2> TAKE t, c, i, o
  <2> DEFINE s == M(t, c, i, o)
  <2>1. \A told : Reads(kind, s, <<UsageEvent(told)>>,
                        M(t, c, Told(told, "input", i), Told(told, "output", o)))
    <3> TAKE told
    <3> DEFINE e == UsageEvent(told)
    <3>1. Step(kind, s, e) = M(t, c, Told(told, "input", i), Told(told, "output", o))
      BY StepOther
    <3> HIDE DEF s, e
    <3>2. Reads(kind, s, <<e>>, Step(kind, s, e))
      BY ReadsOne
    <3> QED BY <3>1, <3>2 DEF e
  <2>2. Reads(kind, s, <<Ping>>, s)
    <3>1. Step(kind, s, Ping) = s
      BY StepOther
    <3> HIDE DEF s
    <3> QED BY <3>1, ReadsOne
  <2> HIDE DEF s, M
  <2>3. Reads(kind, s, in, M(t, c, r.input, o))
    <3> DEFINE told == [input |-> r.input]
    <3>1. Told(told, "input", i) = r.input /\ Told(told, "output", o) = o
      BY DEF Told
    <3> HIDE DEF told
    <3> QED BY <2>1, <3>1 DEF told
  <2>4. Reads(kind, s, out, M(t, c, i, r.output))
    <3> DEFINE told == [output |-> r.output]
    <3>1. Told(told, "input", i) = i /\ Told(told, "output", o) = r.output
      BY DEF Told
    <3> HIDE DEF told
    <3> QED BY <2>1, <3>1 DEF told
  <2>5. Reads(kind, s, zero, M(t, c, r.input, 0))
    <3> DEFINE told == [input |-> r.input, output |-> 0]
    <3>1. Told(told, "input", i) = r.input /\ Told(told, "output", o) = 0
      BY DEF Told
    <3> HIDE DEF told
    <3> QED BY <2>1, <3>1 DEF told
  <2>6. Reads(kind, s, both, M(t, c, r.input, r.output))
    <3> DEFINE told == [input |-> r.input, output |-> r.output]
    <3>1. Told(told, "input", i) = r.input /\ Told(told, "output", o) = r.output
      BY DEF Told
    <3> HIDE DEF told
    <3> QED BY <2>1, <3>1 DEF told
  <2> QED BY <2>2, <2>3, <2>4, <2>5, <2>6 DEF s
<1>6. 0 \in Nat
  OBVIOUS
<1> HIDE DEF T, F, C, in, out, zero, both, ping
<1> DEFINE s == M(<<>>, <<>>, 0, 0)
<1>7. CASE kind \in {"openai", "bedrock"}
  <2> DEFINE w1 == T \o F
             w2 == w1 \o both
  <2>1. Wire(kind, r) = w2
    BY <1>7 DEF Wire, T, F, both
  <2>2. Whole(kind, r) = M(r.text, r.calls, r.input, r.output)
    BY <1>7 DEF Whole
  <2> HIDE DEF M
  <2>3. w1 \in Seq(Events) /\ Reads(kind, s, w1, M(r.text, r.calls, 0, 0))
    BY <1>1, <1>6, ReadsOn
  <2> HIDE DEF w1
  <2>4. w2 \in Seq(Events) /\ Reads(kind, s, w2, M(r.text, r.calls, r.input, r.output))
    BY <1>4, <1>5, <2>3, ReadsOn
  <2> HIDE DEF w2
  <2> QED BY <2>1, <2>2, <2>4 DEF M
<1>8. CASE kind = "anthropic"
  <2> DEFINE w1 == in \o ping
             w2 == w1 \o T
             w3 == w2 \o F
             w4 == w3 \o out
  <2>1. Wire(kind, r) = w4
    <3>1. <<UsageEvent([input |-> r.input]), Ping>> =
             <<UsageEvent([input |-> r.input])>> \o <<Ping>>
      OBVIOUS
    <3> QED BY <1>8, <3>1 DEF Wire, T, F, in, out, ping
  <2>2. Whole(kind, r) = M(r.text, r.calls, r.input, r.output)
    BY <1>8 DEF Whole
  <2> HIDE DEF M
  <2>3. w1 \in Seq(Events) /\ Reads(kind, s, w1, M(<<>>, <<>>, r.input, 0))
    BY <1>4, <1>5, ReadsOn
  <2> HIDE DEF w1
  <2>4. w2 \in Seq(Events) /\ Reads(kind, s, w2, M(r.text, <<>>, r.input, 0))
    BY <1>1, <1>2, <1>6, <2>3, ReadsOn
  <2> HIDE DEF w2
  <2>5. w3 \in Seq(Events) /\ Reads(kind, s, w3, M(r.text, r.calls, r.input, 0))
    BY <1>1, <1>2, <1>6, <2>4, ReadsOn
  <2> HIDE DEF w3
  <2>6. w4 \in Seq(Events) /\ Reads(kind, s, w4, M(r.text, r.calls, r.input, r.output))
    BY <1>4, <1>5, <2>5, ReadsOn
  <2> HIDE DEF w4
  <2> QED BY <2>1, <2>2, <2>6 DEF M
<1>9. CASE kind = "gemini"
  <2> DEFINE w1 == zero \o T
             w2 == w1 \o C
             w3 == w2 \o both
             w4 == w3 \o ping
  <2>1. Wire(kind, r) = w4
    BY <1>9 DEF Wire, T, C, zero, both, ping
  <2>2. Whole(kind, r) = M(r.text, r.calls, r.input, r.output)
    BY <1>9 DEF Whole
  <2> HIDE DEF M
  <2>3. w1 \in Seq(Events) /\ Reads(kind, s, w1, M(r.text, <<>>, r.input, 0))
    BY <1>1, <1>2, <1>4, <1>5, <1>6, ReadsOn
  <2> HIDE DEF w1
  <2>4. w2 \in Seq(Events) /\ Reads(kind, s, w2, M(r.text, r.calls, r.input, 0))
    BY <1>1, <1>2, <1>6, <2>3, ReadsOn
  <2> HIDE DEF w2
  <2>5. w3 \in Seq(Events) /\ Reads(kind, s, w3, M(r.text, r.calls, r.input, r.output))
    BY <1>4, <1>5, <2>4, ReadsOn
  <2> HIDE DEF w3
  <2>6. w4 \in Seq(Events) /\ Reads(kind, s, w4, M(r.text, r.calls, r.input, r.output))
    BY <1>4, <1>5, <2>5, ReadsOn
  <2> HIDE DEF w4
  <2> QED BY <2>1, <2>2, <2>6 DEF M
<1>10. CASE kind = "emulated"
  <2> DEFINE X == IF r.text = <<>> THEN <<>> ELSE <<TextEvent(r.text)>>
             d == Done(r)
  <2>1. Wire(kind, r) = (X \o C) \o <<d>>
    BY <1>10 DEF Wire, C
  <2>2. Whole(kind, r) = M(r.text, r.calls, r.input, r.output)
    BY <1>10 DEF Whole
  <2>3. X \in Seq(Events) /\ Reads(kind, s, X, M(r.text, <<>>, 0, 0))
    <3>1. CASE r.text = <<>>
      <4>1. X = <<>> /\ <<>> \in Seq(Events)
        BY <3>1
      <4> QED BY <3>1, <4>1, ReadsNothing
    <3>2. CASE r.text # <<>>
      <4> DEFINE e == TextEvent(r.text)
      <4>1. X = <<e>>
        BY <3>2
      <4>2. e \in Events
        BY <1>2 DEF TextEvent, TextEvents, Events
      <4>3. <<>> \o r.text = r.text
        BY <1>2, ConcatEmptySeq
      <4>4. \A t, c, n, p :
               Step(kind, Made(kind, t, c, n, n), TextEvent(p)) = Made(kind, t \o p, c, n, n)
        BY StepText
      <4> DEFINE z == <<>>
      <4> HIDE DEF z
      <4>5. Step(kind, Made(kind, z, z, 0, 0), e) = Made(kind, z \o r.text, z, 0, 0)
        BY <4>4
      <4>6. z \o r.text = r.text /\ z = <<>>
        BY <4>3 DEF z
      <4>7. Step(kind, s, e) = M(r.text, <<>>, 0, 0)
        BY <4>5, <4>6
      <4> HIDE DEF e, s, X
      <4>8. Reads(kind, s, <<e>>, Step(kind, s, e))
        BY ReadsOne
      <4> QED BY <4>1, <4>2, <4>7, <4>8
    <3> QED BY <3>1, <3>2
  <2>4. <<d>> \in Seq(Events)
    <3>1. d \in Events
      BY DEF Done, Dones, Events
    <3> HIDE DEF d
    <3> QED BY <3>1
  <2>5. Reads(kind, M(r.text, r.calls, 0, 0), <<d>>, M(r.text, r.calls, r.input, r.output))
    <3> DEFINE u == M(r.text, r.calls, 0, 0)
    <3>1. Step(kind, u, Done(Answer(r.text, r.calls, r.input, r.output)))
             = M(r.text, r.calls, r.input, r.output)
      BY StepOther
    <3>2. Step(kind, u, d) = M(r.text, r.calls, r.input, r.output)
      BY <1>2, <3>1
    <3> HIDE DEF u, d
    <3>3. Reads(kind, u, <<d>>, Step(kind, u, d))
      BY ReadsOne
    <3> QED BY <3>2, <3>3 DEF u
  <2> HIDE DEF M, X, d
  <2> DEFINE w == X \o C
  <2>6. w \in Seq(Events) /\ Reads(kind, s, w, M(r.text, r.calls, 0, 0))
    BY <1>1, <1>6, <2>3, ReadsOn
  <2> HIDE DEF w
  <2>7. /\ w \o <<d>> \in Seq(Events)
        /\ Reads(kind, s, w \o <<d>>, M(r.text, r.calls, r.input, r.output))
    BY <2>4, <2>5, <2>6, ReadsOn
  <2> QED BY <2>1, <2>2, <2>7 DEF M, w
<1>11. CASE kind = "bare"
  <2>1. Wire(kind, r) = T \o F
    BY <1>11 DEF Wire, T, F
  <2>2. Whole(kind, r) = M(r.text, r.calls, 0, 0)
    BY <1>11 DEF Whole
  <2> HIDE DEF M
  <2>3. T \o F \in Seq(Events) /\ Reads(kind, s, T \o F, M(r.text, r.calls, 0, 0))
    BY <1>1, <1>6, ReadsOn
  <2> QED BY <2>1, <2>2, <2>3 DEF M
<1> QED BY <1>7, <1>8, <1>9, <1>10, <1>11 DEF Kinds

-----------------------------------------------------------------------------
(* folds *)

\* The two loops over the calls of an answer: the gateway's over the chunks it
\* is given, the adapter's over the calls that remain.
Add(which, x, e) == IF which = "chunks" THEN Accumulate(x, e) ELSE Remaining(x, e)

\* What each of them makes of a sequence.
HeardOf(base, w) == FoldLeft(Accumulate, base, w)
RemainingOf(w) == FoldLeft(Remaining, <<>>, w)

\* h folds the elements of every set of places among the first n: FoldLeft takes
\* the last place first.
Folding(h, which, base, w, n) ==
    h = [s \in SUBSET (1 .. n) |->
            IF s = {} THEN base ELSE Add(which, h[s \ {Max(s)}], w[Max(s)])]

\* There is such a function, for any number of elements.
LEMMA FoldingExists ==
    ASSUME NEW which, NEW base, NEW w, NEW n \in Nat
    PROVE  \E h : Folding(h, which, base, w, n)
<1> DEFINE T == {k \in 0 .. n : ~ \E h : Folding(h, which, base, w, k)}
<1> SUFFICES ASSUME T # {} PROVE FALSE
  OBVIOUS
<1>1. PICK k \in T : \A j \in T : k <= j
  <2>1. T \subseteq Nat
    OBVIOUS
  <2> HIDE DEF T
  <2> QED BY <2>1, LeastOf
<1>2. CASE k = 0
  <2> DEFINE h == [s \in SUBSET (1 .. 0) |-> base]
             F(s) == IF s = {} THEN base ELSE Add(which, h[s \ {Max(s)}], w[Max(s)])
  <2>1. \A s \in SUBSET (1 .. 0) : F(s) = base
    OBVIOUS
  <2>2. h = [s \in SUBSET (1 .. 0) |-> F(s)]
    <3> HIDE DEF F
    <3> QED BY <2>1
  <2>3. Folding(h, which, base, w, 0)
    BY <2>2 DEF Folding
  <2> HIDE DEF h
  <2> QED BY <1>1, <1>2, <2>3
<1>3. CASE k # 0
  <2>1. k \in Nat /\ k - 1 \in 0 .. n /\ k - 1 < k
    BY <1>1, <1>3
  <2>2. k - 1 \notin T
    BY <1>1, <2>1
  <2>3. PICK g : Folding(g, which, base, w, k - 1)
    BY <2>1, <2>2
  <2> DEFINE G(s) == IF s = {} THEN base ELSE Add(which, g[s \ {Max(s)}], w[Max(s)])
             E(s) == IF k \in s THEN Add(which, g[s \ {k}], w[k]) ELSE g[s]
             h == [s \in SUBSET (1 .. k) |-> E(s)]
             F(s) == IF s = {} THEN base ELSE Add(which, h[s \ {Max(s)}], w[Max(s)])
  <2>4. \A s \in SUBSET (1 .. k - 1) : g[s] = G(s)
    <3>1. g = [s \in SUBSET (1 .. k - 1) |-> G(s)]
      BY <2>3 DEF Folding
    <3> HIDE DEF G
    <3> QED BY <3>1
  <2>5. ASSUME NEW s \in SUBSET (1 .. k) PROVE s \ {k} \in SUBSET (1 .. k - 1)
    BY <2>1
  <2>6. ASSUME NEW s \in SUBSET (1 .. k), k \in s PROVE Max(s) = k
    <3>1. \A y \in s : k >= y
      BY <2>1
    <3>2. \A x \in s : (\A y \in s : x >= y) => x = k
      <4> TAKE x \in s
      <4> HAVE \A y \in s : x >= y
      <4>1. x >= k /\ x \in 1 .. k
        BY <2>6
      <4> QED BY <2>1, <4>1
    <3> QED BY <2>6, <3>1, <3>2 DEF Max
  <2>7. ASSUME NEW s \in SUBSET (1 .. k), k \notin s PROVE h[s] = g[s]
    BY <2>7
  <2>8. ASSUME NEW s \in SUBSET (1 .. k) PROVE E(s) = F(s)
    <3>1. CASE k \in s
      <4>1. h[s \ {k}] = g[s \ {k}]
        BY <2>7
      <4>2. E(s) = Add(which, g[s \ {k}], w[k])
        BY <3>1
      <4>3. F(s) = Add(which, h[s \ {k}], w[k])
        <5> HIDE DEF h
        <5> QED BY <2>6, <3>1
      <4> QED BY <4>1, <4>2, <4>3
    <3>2. CASE k \notin s
      <4>1. E(s) = g[s] /\ g[s] = G(s)
        <5>1. s \ {k} = s
          BY <3>2
        <5> HIDE DEF G
        <5> QED BY <2>4, <2>5, <3>2, <5>1
      <4>2. h[s \ {Max(s)}] = g[s \ {Max(s)}]
        <5>1. s \ {Max(s)} \in SUBSET (1 .. k) /\ k \notin s \ {Max(s)}
          BY <3>2
        <5> QED BY <2>7, <5>1
      <4> HIDE DEF h
      <4> QED BY <4>1, <4>2
    <3> QED BY <3>1, <3>2
  <2>9. h = [s \in SUBSET (1 .. k) |-> F(s)]
    <3> HIDE DEF E, F
    <3> QED BY <2>8
  <2>10. Folding(h, which, base, w, k)
    <3> HIDE DEF E
    <3> QED BY <2>9 DEF Folding
  <2> HIDE DEF h
  <2> QED BY <1>1, <2>10
<1> QED BY <1>2, <1>3

\* The fold of n elements adds the last one to that of the others.
LEMMA FoldingAt ==
    ASSUME NEW h, NEW which, NEW base, NEW w, NEW n \in Nat, Folding(h, which, base, w, n)
    PROVE  /\ h[1 .. 0] = base
           /\ \A k \in 1 .. n : h[1 .. k] = Add(which, h[1 .. k - 1], w[k])
<1> DEFINE F(s) == IF s = {} THEN base ELSE Add(which, h[s \ {Max(s)}], w[Max(s)])
<1>1. \A s \in SUBSET (1 .. n) : h[s] = F(s)
  <2>1. h = [s \in SUBSET (1 .. n) |-> F(s)]
    BY DEF Folding
  <2> HIDE DEF F
  <2> QED BY <2>1
<1>2. h[1 .. 0] = base
  <2>1. 1 .. 0 = {}
    OBVIOUS
  <2> QED BY <1>1, <2>1
<1>3. ASSUME NEW k \in 1 .. n PROVE h[1 .. k] = Add(which, h[1 .. k - 1], w[k])
  <2>1. 1 .. k \in SUBSET (1 .. n) /\ k \in 1 .. k /\ 1 .. k # {}
    OBVIOUS
  <2>2. Max(1 .. k) = k
    <3>1. \A y \in 1 .. k : k >= y
      OBVIOUS
    <3>2. \A x \in 1 .. k : (\A y \in 1 .. k : x >= y) => x = k
      <4> TAKE x \in 1 .. k
      <4> HAVE \A y \in 1 .. k : x >= y
      <4>1. x >= k
        BY <2>1
      <4> QED BY <4>1
    <3> QED BY <2>1, <3>1, <3>2 DEF Max
  <2>3. (1 .. k) \ {k} = 1 .. k - 1
    OBVIOUS
  <2> QED BY <1>1, <2>1, <2>2, <2>3
<1> QED BY <1>2, <1>3

\* FoldLeft is the fold of all elements: for the chunks.
LEMMA FoldedChunks ==
    ASSUME NEW base, NEW w, NEW n \in Nat, DOMAIN w = 1 .. n
    PROVE  \E h : /\ Folding(h, "chunks", base, w, n)
                  /\ HeardOf(base, w) = h[1 .. n]
<1> DEFINE P(h) == h = [s \in SUBSET (1 .. n) |->
                           IF s = {} THEN base ELSE Accumulate(h[s \ {Max(s)}], w[Max(s)])]
           H == CHOOSE h : P(h)
<1>1. HeardOf(base, w) = H[1 .. n]
  BY DEF HeardOf, FoldLeft, MapThenFoldSet
<1>2. \A h : P(h) <=> Folding(h, "chunks", base, w, n)
  BY DEF Folding, Add
<1> HIDE DEF P
<1>3. \E h : P(h)
  BY <1>2, FoldingExists
<1>4. P(H)
  BY <1>3
<1> HIDE DEF H
<1> QED BY <1>1, <1>2, <1>4

\* And for the calls that remain.
LEMMA FoldedCalls ==
    ASSUME NEW w, NEW n \in Nat, DOMAIN w = 1 .. n
    PROVE  \E h : /\ Folding(h, "calls", <<>>, w, n)
                  /\ RemainingOf(w) = h[1 .. n]
<1> DEFINE P(h) == h = [s \in SUBSET (1 .. n) |->
                           IF s = {} THEN <<>> ELSE Remaining(h[s \ {Max(s)}], w[Max(s)])]
           H == CHOOSE h : P(h)
<1>1. RemainingOf(w) = H[1 .. n]
  BY DEF RemainingOf, FoldLeft, MapThenFoldSet
<1>2. \A h : P(h) <=> Folding(h, "calls", <<>>, w, n)
  BY DEF Folding, Add
<1> HIDE DEF P
<1>3. \E h : P(h)
  BY <1>2, FoldingExists
<1>4. P(H)
  BY <1>3
<1> HIDE DEF H
<1> QED BY <1>1, <1>2, <1>4
\* What remains of the calls are calls.
LEMMA CallsRemain ==
    ASSUME NEW w \in Seq(Calls)
    PROVE  RemainingOf(w) \in Seq(Calls)
<1> DEFINE n == Len(w)
<1>1. n \in Nat /\ DOMAIN w = 1 .. n /\ \A k \in 1 .. n : w[k] \in Calls
  BY LenProperties, ElementOfSeq
<1> HIDE DEF n
<1>2. PICK h : /\ Folding(h, "calls", <<>>, w, n)
               /\ RemainingOf(w) = h[1 .. n]
  BY <1>1, FoldedCalls
<1>3. /\ h[1 .. 0] = <<>>
      /\ \A k \in 1 .. n : h[1 .. k] = Add("calls", h[1 .. k - 1], w[k])
  BY <1>1, <1>2, FoldingAt
<1> DEFINE T == {k \in 0 .. n : h[1 .. k] \notin Seq(Calls)}
<1>4. ASSUME T # {} PROVE FALSE
  <2>1. T \subseteq Nat
    OBVIOUS
  <2>2. PICK k \in T : \A j \in T : k <= j
    <3> HIDE DEF T
    <3> QED BY <1>4, <2>1, LeastOf
  <2>3. k # 0
    <3>1. <<>> \in Seq(Calls)
      OBVIOUS
    <3> QED BY <1>3, <2>2, <3>1
  <2>4. k \in 1 .. n /\ k - 1 \in 0 .. n /\ k - 1 < k
    BY <1>1, <2>2, <2>3
  <2> DEFINE x == h[1 .. k - 1]
             c == w[k]
  <2>5. x \in Seq(Calls) /\ c \in Calls
    BY <1>1, <2>2, <2>4
  <2>6. h[1 .. k] = IF c.name = Structured THEN x ELSE Append(x, c)
    BY <1>3, <2>4 DEF Add, Remaining
  <2>7. h[1 .. k] \notin Seq(Calls)
    BY <2>2
  <2> HIDE DEF x, c
  <2> QED BY <2>5, <2>6, <2>7, AppendProperties
<1>5. n \in 0 .. n
  BY <1>1
<1> QED BY <1>2, <1>4, <1>5

\* Chunks of calls leave the text that was heard, and no chunks all of it.
LEMMA ChunksKeepText ==
    ASSUME NEW t, NEW c, NEW w, NEW n \in Nat, DOMAIN w = 1 .. n,
           \A k \in 1 .. n : w[k].event = "start"
    PROVE  \E d : /\ HeardOf(Answer(t, c, 0, 0), w) = Answer(t, d, 0, 0)
                  /\ n = 0 => d = c
<1> DEFINE base == Answer(t, c, 0, 0)
<1> HIDE DEF base
<1>1. PICK h : /\ Folding(h, "chunks", base, w, n)
               /\ HeardOf(base, w) = h[1 .. n]
  BY FoldedChunks
<1>2. /\ h[1 .. 0] = base
      /\ \A k \in 1 .. n : h[1 .. k] = Add("chunks", h[1 .. k - 1], w[k])
  BY <1>1, FoldingAt
<1> DEFINE P(k) == \E d : h[1 .. k] = Answer(t, d, 0, 0)
           T == {k \in 0 .. n : ~P(k)}
<1>3. ASSUME T # {} PROVE FALSE
  <2>1. T \subseteq Nat
    OBVIOUS
  <2>2. PICK k \in T : \A j \in T : k <= j
    <3> HIDE DEF T
    <3> QED BY <1>3, <2>1, LeastOf
  <2>3. k # 0
    BY <1>2, <2>2 DEF base
  <2>4. k \in 1 .. n /\ k - 1 \in 0 .. n /\ k - 1 < k
    BY <2>2, <2>3
  <2>5. P(k - 1)
    BY <2>2, <2>4
  <2>6. PICK d : h[1 .. k - 1] = Answer(t, d, 0, 0)
    BY <2>5
  <2>7. h[1 .. k] = Accumulate(Answer(t, d, 0, 0), w[k])
    BY <1>2, <2>4, <2>6 DEF Add
  <2> DEFINE a == Answer(t, d, 0, 0)
             q == AddCall(d, w[k])
  <2>8. Accumulate(a, w[k]) = [a EXCEPT !.calls = q]
    BY <2>4 DEF Accumulate, Answer
  <2> HIDE DEF q
  <2>9. [a EXCEPT !.calls = q] = Answer(t, q, 0, 0)
    BY DEF Answer
  <2>10. P(k)
    BY <2>7, <2>8, <2>9
  <2> QED BY <2>2, <2>10
<1>4. P(n)
  BY <1>3
<1>5. CASE n = 0
  BY <1>1, <1>2, <1>5 DEF base
<1>6. CASE n # 0
  BY <1>1, <1>4, <1>6 DEF base
<1> QED BY <1>5, <1>6

-----------------------------------------------------------------------------
(* the response *)

\* Asking for a structured output changes what the service answers, not what
\* it costs.
LEMMA AskedCosts ==
    ASSUME NEW kind, NEW schema, NEW answer \in Responses
    PROVE  /\ Asked(kind, schema, answer) \in Replies
           /\ Asked(kind, schema, answer).input = answer.input
           /\ Asked(kind, schema, answer).output = answer.output
           /\ ForcesTool(kind, schema) => Asked(kind, schema, answer).text = <<>>
<1>1. /\ answer.text \in Seq(STRING) /\ answer.input \in Nat /\ answer.output \in Nat
      /\ answer.calls \in Seq([name : STRING, arguments : Seq(STRING)])
      /\ answer = [text |-> answer.text, calls |-> answer.calls,
                   input |-> answer.input, output |-> answer.output]
  BY DEF Responses
<1>2. answer.calls \in Seq(Calls)
  <2>1. [name : STRING, arguments : Seq(STRING)] \subseteq Calls
    BY DEF Calls, Names
  <2> QED BY <1>1, <2>1, SeqMonotonic
<1>3. answer \in Replies
  BY <1>1, <1>2 DEF Replies
<1>4. CASE ForcesTool(kind, schema)
  <2> DEFINE c == Call(Structured, answer.text)
             more == Append(answer.calls, c)
  <2>1. c \in Calls
    BY <1>1 DEF Call, Calls, Names
  <2>2. more \in Seq(Calls)
    <3> HIDE DEF c
    <3> QED BY <1>2, <2>1, AppendProperties
  <2> HIDE DEF more
  <2>3. Asked(kind, schema, answer) = [answer EXCEPT !.text = <<>>, !.calls = more]
    BY <1>4 DEF Asked, more
  <2>4. <<>> \in Seq(STRING)
    OBVIOUS
  <2>5. [answer EXCEPT !.text = <<>>, !.calls = more] =
           [text |-> <<>>, calls |-> more, input |-> answer.input, output |-> answer.output]
    <3> DEFINE x == [answer EXCEPT !.text = <<>>]
    <3>1. x = [text |-> <<>>, calls |-> answer.calls, input |-> answer.input,
               output |-> answer.output]
      BY <1>1
    <3> HIDE DEF x
    <3>2. [x EXCEPT !.calls = more] =
             [text |-> <<>>, calls |-> more, input |-> answer.input, output |-> answer.output]
      BY <3>1
    <3> QED BY <3>2 DEF x
  <2> QED BY <1>1, <2>2, <2>3, <2>4, <2>5 DEF Replies
<1>5. CASE ~ForcesTool(kind, schema)
  <2>1. Asked(kind, schema, answer) = answer
    BY <1>5 DEF Asked
  <2> QED BY <1>3, <1>5, <2>1
<1> QED BY <1>4, <1>5

\* Unwrapping a response leaves its tokens, and its calls are calls.
LEMMA UnwrapKeeps ==
    ASSUME NEW kind, NEW schema, NEW t, NEW c, NEW i, NEW o
    PROVE  \E u, d : /\ Unwrap(kind, schema, Answer(t, c, i, o)) = Answer(u, d, i, o)
                     /\ c \in Seq(Calls) => d \in Seq(Calls)
                     /\ ~ForcesTool(kind, schema) => u = t /\ d = c
<1> DEFINE r == Answer(t, c, i, o)
           forced == SelectInSeq(r.calls, LAMBDA x : x.name = Structured)
           u == IF forced = 0 THEN t ELSE r.calls[forced].arguments
           d == RemainingOf(c)
<1>1. r.text = t /\ r.calls = c
  BY DEF Answer
<1>2. CASE ForcesTool(kind, schema)
  <2>1. Unwrap(kind, schema, r) = [r EXCEPT !.calls = d, !.text = u]
    BY <1>1, <1>2 DEF Unwrap, RemainingOf
  <2>2. c \in Seq(Calls) => d \in Seq(Calls)
    BY CallsRemain
  <2> HIDE DEF u, d
  <2>3. [r EXCEPT !.calls = d, !.text = u] = Answer(u, d, i, o)
    <3> DEFINE x == [r EXCEPT !.calls = d]
    <3>1. x = Answer(t, d, i, o)
      BY DEF Answer
    <3> HIDE DEF x
    <3>2. [x EXCEPT !.text = u] = Answer(u, d, i, o)
      BY <3>1 DEF Answer
    <3> QED BY <3>2 DEF x
  <2> QED BY <1>2, <2>1, <2>2, <2>3
<1>3. CASE ~ForcesTool(kind, schema)
  BY <1>3 DEF Unwrap
<1> QED BY <1>2, <1>3
\* An answer with numbers for its tokens.
Measured(r) ==
    /\ r = Answer(r.text, r.calls, r.input, r.output)
    /\ r.input \in Nat /\ r.output \in Nat

\* An event keeps the tokens numbers.
LEMMA ReadMeasured ==
    ASSUME NEW r, Measured(r), NEW e \in Events
    PROVE  Measured(Read(r, e))
<1>1. CASE e \in TextEvents
  <2>1. e.event = "text"
    BY <1>1 DEF TextEvents
  <2>2. Read(r, e) = [r EXCEPT !.text = @ \o e.pieces]
    BY <2>1 DEF Read
  <2> QED BY <2>2 DEF Measured, Answer
<1>2. CASE e \in CallEvents
  <2>1. e.event \in {"start", "more"}
    BY <1>2 DEF CallEvents
  <2>2. Read(r, e) = [r EXCEPT !.calls = AddCall(@, e)]
    BY <2>1 DEF Read
  <2> QED BY <2>2 DEF Measured, Answer
<1>3. CASE e \in UsageEvents
  <2>1. /\ e.event = "usage"
        /\ e.told \in [input : Nat] \cup [output : Nat] \cup [input : Nat, output : Nat]
    BY <1>3 DEF UsageEvents
  <2>2. Read(r, e) = UsageTold(r, e)
    BY <2>1 DEF Read
  <2>3. Read(r, e) = [r EXCEPT !.input = Told(e.told, "input", @),
                               !.output = Told(e.told, "output", @)]
    BY <2>1, <2>2 DEF UsageTold
  <2>4. /\ Told(e.told, "input", r.input) \in Nat
        /\ Told(e.told, "output", r.output) \in Nat
    BY <2>1 DEF Told, Measured
  <2> QED BY <2>3, <2>4 DEF Measured, Answer
<1>4. CASE e \in Pings
  <2>1. e.event = "ping"
    BY <1>4 DEF Pings
  <2>2. Read(r, e) = r
    BY <2>1 DEF Read, UsageTold
  <2> QED BY <2>2
<1>5. CASE e \in Dones
  <2>1. e.event = "done" /\ e.response \in Replies
    BY <1>5 DEF Dones
  <2>2. Read(r, e) = e.response
    BY <2>1 DEF Read
  <2> QED BY <2>1, <2>2 DEF Replies, Measured, Answer
<1> QED BY <1>1, <1>2, <1>3, <1>4, <1>5 DEF Events

\* The adapter's chunks for the calls it has held back leave the text that was
\* heard, and all of it where nothing is held back.
LEMMA HeldBackKeepsText ==
    ASSUME NEW kind, NEW schema, NEW r, NEW h,
           r = Answer(r.text, r.calls, r.input, r.output), r.calls \in Seq(Calls),
           h = Answer(h.text, h.calls, 0, 0)
    PROVE  LET after == HeardOf(h, HeldBack(kind, schema, r))
           IN after.text = h.text /\ (~Holds(kind) => after.calls = h.calls)
<1> DEFINE w == HeldBack(kind, schema, r)
<1>1. CASE Holds(kind)
  <2>1. PICK u, d : /\ Unwrap(kind, schema, Answer(r.text, r.calls, r.input, r.output))
                          = Answer(u, d, r.input, r.output)
                    /\ r.calls \in Seq(Calls) => d \in Seq(Calls)
    BY UnwrapKeeps
  <2>2. w = WholeCalls(Answer(u, d, r.input, r.output))
    BY <1>1, <2>1 DEF HeldBack
  <2>3. w = [k \in DOMAIN d |-> CallEvent("start", k, d[k].name, d[k].arguments)]
    BY <2>2 DEF WholeCalls, Answer
  <2> DEFINE n == Len(d)
  <2>4. n \in Nat /\ DOMAIN d = 1 .. n
    BY <2>1, LenProperties
  <2> HIDE DEF w, n
  <2>5. DOMAIN w = 1 .. n /\ \A k \in 1 .. n : w[k].event = "start"
    BY <2>3, <2>4 DEF CallEvent
  <2>6. PICK e : HeardOf(Answer(h.text, h.calls, 0, 0), w) = Answer(h.text, e, 0, 0)
    <3> DEFINE t == h.text
               c == h.calls
    <3>1. n \in Nat /\ DOMAIN w = 1 .. n /\ \A k \in 1 .. n : w[k].event = "start"
      BY ONLY <2>4, <2>5
    <3> HIDE DEF t, c
    <3>2. \E e : /\ HeardOf(Answer(t, c, 0, 0), w) = Answer(t, e, 0, 0)
                 /\ n = 0 => e = c
      BY ONLY <3>1, ChunksKeepText
    <3> QED BY ONLY <3>2 DEF t, c
  <2>7. HeardOf(h, w) = Answer(h.text, e, 0, 0)
    BY <2>6
  <2> DEFINE after == HeardOf(h, w)
  <2>8. after.text = h.text
    <3> HIDE DEF after
    <3>1. after = Answer(h.text, e, 0, 0)
      BY <2>7 DEF after
    <3> QED BY <3>1 DEF Answer
  <2> QED BY ONLY <1>1, <2>8 DEF w
<1>2. CASE ~Holds(kind)
  <2>1. w = <<>>
    BY <1>2 DEF HeldBack
  <2>2. DOMAIN w = 1 .. 0 /\ \A k \in 1 .. 0 : w[k].event = "start"
    BY <2>1
  <2> HIDE DEF w
  <2>3. HeardOf(Answer(h.text, h.calls, 0, 0), w) = Answer(h.text, h.calls, 0, 0)
    <3>1. 0 \in Nat
      OBVIOUS
    <3> QED BY <2>2, <3>1, ChunksKeepText
  <2>4. HeardOf(h, w) = h
    BY <2>3
  <2> QED BY <2>4 DEF w
<1> QED BY <1>1, <1>2

\* Of a whole answer and what was heard of it the gateway makes the response
\* of a call that does not stream; a bare stream tells no tokens.
LEMMA ResponseIsWhole ==
    ASSUME NEW kind \in Kinds, NEW schema, NEW answer \in Responses, NEW mine, NEW told,
           mine = Whole(kind, Asked(kind, schema, answer)).got,
           told.text = Asked(kind, schema, answer).text,
           ~Holds(kind) => told.calls = Asked(kind, schema, answer).calls
    PROVE  LET whole == Parsed(kind, schema, Asked(kind, schema, answer))
               R == Response(kind, schema, mine, told)
           IN /\ R.text = whole.text /\ R.calls = whole.calls
              /\ kind # "bare" => /\ R = whole
                                  /\ R.input = answer.input /\ R.output = answer.output
              /\ ~ForcesTool(kind, schema) => told.text = whole.text
<1> DEFINE r == Asked(kind, schema, answer)
           whole == Parsed(kind, schema, r)
           R == Response(kind, schema, mine, told)
<1>1. /\ r \in Replies /\ r.input = answer.input /\ r.output = answer.output
      /\ ForcesTool(kind, schema) => r.text = <<>>
  BY AskedCosts
<1>2. mine = Whole(kind, r).got /\ told.text = r.text /\ (~Holds(kind) => told.calls = r.calls)
  OBVIOUS
<1> HIDE DEF r
<1>3. r = Answer(r.text, r.calls, r.input, r.output)
  BY <1>1 DEF Replies, Answer
<1>4. PICK u, d : /\ Unwrap(kind, schema, Answer(r.text, r.calls, r.input, r.output))
                        = Answer(u, d, r.input, r.output)
                  /\ ~ForcesTool(kind, schema) => u = r.text /\ d = r.calls
  <2> DEFINE t == r.text
             c == r.calls
             i == r.input
             o == r.output
  <2> HIDE DEF t, c, i, o
  <2>1. \E u, d : /\ Unwrap(kind, schema, Answer(t, c, i, o)) = Answer(u, d, i, o)
                  /\ ~ForcesTool(kind, schema) => u = t /\ d = c
    BY UnwrapKeeps
  <2> QED BY <2>1 DEF t, c, i, o
<1>5. whole = Answer(u, d, r.input, r.output)
  BY <1>3, <1>4 DEF Parsed
<1>6. CASE kind = "bare"
  <2>1. ~ForcesTool(kind, schema) /\ ~Holds(kind)
    BY <1>6 DEF ForcesTool, Holds
  <2>2. R = Answer(told.text, told.calls, 0, 0)
    BY <1>6 DEF Response
  <2>3. R.text = r.text /\ R.calls = r.calls
    BY <1>2, <2>1, <2>2 DEF Answer
  <2>4. whole.text = r.text /\ whole.calls = r.calls
    BY <1>4, <1>5, <2>1 DEF Answer
  <2> QED BY <1>2, <1>6, <2>3, <2>4 DEF r
<1>7. CASE kind # "bare"
  <2>1. mine = r
    BY <1>2, <1>3, <1>7 DEF Whole, Made
  <2>2. Unwrap(kind, schema, mine) = whole
    BY <2>1 DEF Parsed
  <2>3. R = [whole EXCEPT !.text = IF @ = <<>> THEN told.text ELSE @]
    BY <1>7, <2>2 DEF Response
  <2>4. whole.text = u /\ whole.calls = d /\ whole.input = r.input /\ whole.output = r.output
    BY <1>5 DEF Answer
  <2> HIDE DEF R, whole
  <2>5. u = <<>> => told.text = u
    BY <1>1, <1>2, <1>4
  <2>6. R = [whole EXCEPT !.text = u]
    BY <2>3, <2>4, <2>5
  <2>7. R = whole
    <3>1. [Answer(u, d, r.input, r.output) EXCEPT !.text = u] = Answer(u, d, r.input, r.output)
      BY DEF Answer
    <3> QED BY <1>5, <2>6, <3>1
  <2>8. ~ForcesTool(kind, schema) => told.text = whole.text
    BY <1>2, <1>4, <2>4
  <2> QED BY <1>1, <2>4, <2>7, <2>8 DEF R, whole, r
<1> QED BY <1>6, <1>7

\* Whatever has been read, the tokens of the response are numbers.
LEMMA ResponseCosts ==
    ASSUME NEW kind, NEW schema, NEW r, Measured(r), NEW h
    PROVE  Response(kind, schema, r, h).input \in Nat /\ Response(kind, schema, r, h).output \in Nat
<1>1. CASE kind = "bare"
  BY <1>1 DEF Response, Answer
<1>2. CASE kind # "bare"
  <2>1. PICK u, d : Unwrap(kind, schema, Answer(r.text, r.calls, r.input, r.output))
                       = Answer(u, d, r.input, r.output)
    BY UnwrapKeeps
  <2> DEFINE own == Answer(u, d, r.input, r.output)
  <2>2. Response(kind, schema, r, h) = [own EXCEPT !.text = IF @ = <<>> THEN h.text ELSE @]
    BY <1>2, <2>1 DEF Response, Measured
  <2> QED BY <2>2 DEF Measured, Answer
<1> QED BY <1>1, <1>2

-----------------------------------------------------------------------------
(* the stream and the counters *)

Usage == [calls : Nat, tokens : Nat]

Typed ==
    /\ setting \in Settings
    /\ ctx \in Usage /\ owed \in Usage /\ root \in Usage
    /\ wire \in Seq(Events)
    /\ Measured(got)
    /\ asked \in Responses

Streaming == pc \in {"reading", "held", "calls", "accounting"}

\* What the service answers, and what reading all of it makes of it.
Reply == Asked(setting.kind, setting.schema, asked)
Goal == Whole(setting.kind, Reply)

\* As long as the stream is not cut, the events still to come lead from what
\* the adapter and the gateway have put together to the whole answer; when
\* they are over the adapter has it, and the gateway its text and the calls
\* that were not held back.
Fed ==
    /\ pc \in {"reading", "held"} /\ ~cut =>
           Reads(setting.kind, [got |-> got, heard |-> heard], wire, Goal)
    /\ pc \in {"calls", "accounting"} /\ ~cut =>
           /\ got = Goal.got /\ heard.text = Reply.text
           /\ ~Holds(setting.kind) => heard.calls = Reply.calls

Ending ==
    {"completeSave", "completeCheckpoint", "final", "failCheckpoint", "failSave", "over"}

\* The agent's context has what its answers cost; the execution's has nothing
\* until the agent is done, and a completed one all of it, before a store hears
\* that it is completed.
Settled ==
    /\ ctx = owed
    /\ pc \notin Ending => root = NoUsage /\ ~completed
    /\ completed => root = owed
    /\ record = "completed" \/ pc = "completeSave" => completed
    /\ verdict # "completed"

\* The budget was looked at before each call.
Affordable ==
    /\ owed.calls <= setting.max_calls
    /\ Streaming => ctx.calls < setting.max_calls

Inv == Typed /\ Fed /\ SameResponse /\ Settled /\ Affordable

\* Counters stay numbers, and an execution that used nothing takes over what
\* its agent used.
LEMMA UsageAdds ==
    /\ NoUsage \in Usage
    /\ \A a, b \in Usage : Merged(a, b) \in Usage
    /\ \A b \in Usage : Merged(NoUsage, b) = b
    /\ \A u \in Usage : \A r : r.input \in Nat /\ r.output \in Nat =>
           /\ Used(u, r) \in Usage
           /\ Used(u, r).calls = u.calls + 1
<1>1. NoUsage \in Usage
  BY DEF NoUsage, Usage
<1>2. ASSUME NEW a \in Usage, NEW b \in Usage PROVE Merged(a, b) \in Usage
  <2>1. a.calls \in Nat /\ b.calls \in Nat /\ a.tokens \in Nat /\ b.tokens \in Nat
    BY DEF Usage
  <2>2. Max({a.calls, b.calls}) \in Nat /\ Max({a.tokens, b.tokens}) \in Nat
    BY <2>1, LargerOf
  <2> QED BY <2>2 DEF Merged, Usage
<1>3. ASSUME NEW b \in Usage PROVE Merged(NoUsage, b) = b
  <2>1. b.calls \in Nat /\ b.tokens \in Nat /\ b = [calls |-> b.calls, tokens |-> b.tokens]
    BY DEF Usage
  <2>2. /\ Max({0, b.calls}) = IF 0 >= b.calls THEN 0 ELSE b.calls
        /\ Max({0, b.tokens}) = IF 0 >= b.tokens THEN 0 ELSE b.tokens
    BY <2>1, LargerOf
  <2>3. Max({0, b.calls}) = b.calls /\ Max({0, b.tokens}) = b.tokens
    BY <2>1, <2>2
  <2>4. NoUsage.calls = 0 /\ NoUsage.tokens = 0
    BY DEF NoUsage
  <2> QED BY <2>1, <2>3, <2>4 DEF Merged
<1>4. ASSUME NEW u \in Usage, NEW r, r.input \in Nat, r.output \in Nat
      PROVE  Used(u, r) \in Usage /\ Used(u, r).calls = u.calls + 1
  BY <1>4 DEF Used, Usage
<1> QED BY <1>1, <1>2, <1>3, <1>4

\* What an answer is said to be depends on the stream alone.
LEMMA StreamKeeps ==
    ASSUME Inv, UNCHANGED <<setting, stream>>,
           pc' \in {"reading", "held"} => pc \in {"reading", "held"},
           pc' \in {"calls", "accounting"} => pc \in {"calls", "accounting"},
           pc' = "answered" => pc = "answered"
    PROVE  Fed' /\ SameResponse'
<1>1. UNCHANGED <<setting, wire, got, heard, response, asked, cut>>
  BY DEF stream
<1>2. Reply' = Reply /\ Goal' = Goal
  BY <1>1 DEF Reply, Goal
<1>3. Fed'
  BY <1>1, <1>2 DEF Inv, Fed
<1>4. SameResponse'
  BY <1>1 DEF Inv, SameResponse
<1> QED BY <1>3, <1>4

\* Nothing has been asked, heard or used.
LEMMA InitInv == Init => Inv
<1> SUFFICES ASSUME Init PROVE Inv
  OBVIOUS
<1>1. Measured(Nothing)
  BY DEF Nothing, Answer, Measured
<1>2. <<>> \in Seq(Events)
  OBVIOUS
<1>3. Typed
  <2>1. Nothing \in Responses
    <3>1. <<>> \in Seq(STRING) /\ <<>> \in Seq([name : STRING, arguments : Seq(STRING)])
      OBVIOUS
    <3> QED BY <3>1 DEF Nothing, Answer, Responses
  <2> QED BY <1>1, <1>2, <2>1, UsageAdds DEF Init, Typed
<1>4. Fed /\ SameResponse
  BY DEF Init, Fed, SameResponse
<1>5. Settled
  BY StreamsAssumption DEF Init, Settled
<1>6. setting.max_calls \in Nat
  BY StreamsAssumption DEF Init
<1>7. Affordable
  BY <1>6 DEF Init, Affordable, Streaming, NoUsage
<1> QED BY <1>3, <1>4, <1>5, <1>7 DEF Inv

\* Nothing is stored as completed that is not.
LEMMA WriteKeeps ==
    ASSUME Inv, Write \/ UNCHANGED <<record, checkpoint>>
    PROVE  record' = "completed" => completed
BY DEF Inv, Settled, Write

\* An exception ends an execution that is not completed.
LEMMA RaiseKeeps ==
    ASSUME Inv, NEW usage \in Usage, NEW status, status # "completed", pc \notin Ending,
           End("raised", status, usage)
    PROVE  Inv'
<1> USE DEF loop, stream
<1>1. /\ root' = usage /\ pc' \in {"failCheckpoint", "over"}
      /\ verdict' \in {verdict, status}
      /\ UNCHANGED <<setting, ctx, owed, record, completed, wire, got, asked, cut>>
  BY DEF End
<1>3. Typed'
  BY <1>1 DEF Inv, Typed, Measured, Answer
<1>4. Fed' /\ SameResponse'
  BY <1>1 DEF Fed, SameResponse
<1>5. Settled'
  <2>1. ~completed /\ record # "completed" /\ ctx = owed /\ verdict # "completed"
    BY DEF Inv, Settled
  <2>2. pc' \in Ending /\ pc' # "completeSave"
    BY <1>1 DEF Ending
  <2> QED BY <1>1, <2>1, <2>2 DEF Settled
<1>6. Affordable'
  BY <1>1 DEF Inv, Affordable, Streaming
<1> QED BY <1>3, <1>4, <1>5, <1>6 DEF Inv

\* What neither touches the counters nor the stream, and ends nothing.
LEMMA RestKeeps ==
    ASSUME Inv, UNCHANGED <<setting, usages, stream, kept>>,
           pc \notin Ending, pc' \notin Ending,
           record' # "completed",
           pc' \in {"reading", "held"} => pc \in {"reading", "held"},
           pc' \in {"calls", "accounting"} => pc \in {"calls", "accounting"},
           pc' # "answered"
    PROVE  Inv'
<1>1. UNCHANGED <<setting, root, ctx, owed, completed, verdict, wire, got, asked, cut>>
  BY DEF usages, stream, kept
<1>2. Typed'
  BY <1>1 DEF Inv, Typed, Measured, Answer
<1>3. Fed' /\ SameResponse'
  BY StreamKeeps
<1>4. Settled'
  BY <1>1 DEF Inv, Settled, Ending
<1>5. Affordable'
  BY <1>1 DEF Inv, Affordable, Streaming
<1> QED BY <1>2, <1>3, <1>4, <1>5 DEF Inv

\* While the agent works its execution is not completed.
LEMMA Working == ASSUME Inv, pc \notin Ending PROVE record # "completed"
BY DEF Inv, Settled

\* A call is made within the budget, and its wire is that of what was asked.
LEMMA CallKeeps == ASSUME Inv, CallModel PROVE Inv'
<1>1. pc = "request"
  BY DEF CallModel
<1>2. CASE OverBudget /\ Raise(root)
  BY <1>1, <1>2, RaiseKeeps DEF Inv, Typed, Raise, Ending
<1>3. CASE ~(OverBudget /\ Raise(root))
  <2>1. /\ ~OverBudget
        /\ \E answer \in Answers :
              /\ asked' = answer
              /\ wire' = Wire(setting.kind, Asked(setting.kind, setting.schema, answer))
        /\ got' = Nothing /\ heard' = Nothing /\ cut' = FALSE /\ pc' = "reading"
        /\ UNCHANGED <<setting, usages, stored, loop, response>>
    BY <1>3 DEF CallModel
  <2>2. UNCHANGED <<setting, root, ctx, owed, record, completed, verdict>>
    BY <2>1 DEF usages, stored, kept
  <2>3. PICK answer \in Answers :
              /\ asked' = answer
              /\ wire' = Wire(setting.kind, Asked(setting.kind, setting.schema, answer))
    BY <2>1
  <2>4. answer \in Responses /\ setting \in Settings /\ setting.kind \in Kinds
        /\ setting.max_calls \in Nat
    BY StreamsAssumption DEF Inv, Typed
  <2>5. Reply' = Asked(setting.kind, setting.schema, answer) /\ setting' = setting
    BY <2>2, <2>3 DEF Reply
  <2>6. Reply' \in Replies /\ wire' = Wire(setting.kind, Reply')
    BY <2>3, <2>4, <2>5, AskedCosts
  <2>7. Typed'
    <3>1. wire' \in Seq(Events)
      BY <2>4, <2>6, WireLeads
    <3>2. Measured(got')
      BY <2>1 DEF Measured, Nothing, Answer
    <3> QED BY <2>2, <2>3, <2>4, <3>1, <3>2 DEF Inv, Typed, Measured, Answer
  <2>8. Fed' /\ SameResponse'
    <3>1. Reads(setting.kind, Made(setting.kind, <<>>, <<>>, 0, 0), wire', Goal')
      BY <2>4, <2>5, <2>6, WireLeads DEF Goal
    <3>2. [got |-> got', heard |-> heard'] = Made(setting.kind, <<>>, <<>>, 0, 0)
      BY <2>1 DEF Made, Nothing
    <3> QED BY <2>1, <2>5, <3>1, <3>2 DEF Fed, SameResponse
  <2>9. Settled'
    BY <1>1, <2>1, <2>2 DEF Inv, Settled, Ending
  <2>10. Affordable'
    <3>1. ~(ctx.calls >= setting.max_calls)
      BY <2>1 DEF OverBudget
    <3>2. ctx.calls \in Nat
      BY DEF Inv, Typed, Usage
    <3>3. ctx.calls < setting.max_calls
      BY <2>4, <3>1, <3>2
    <3> QED BY <2>2, <3>3 DEF Inv, Affordable
  <2> QED BY <2>7, <2>8, <2>9, <2>10 DEF Inv
<1> QED BY <1>2, <1>3

\* The rest of the wire leads on to where all of it led.
LEMMA ReadKeeps == ASSUME Inv, ReadEvent PROVE Inv'
<1>1. /\ pc = "reading" /\ wire # <<>> /\ wire \in Seq(Events)
      /\ got' = Read(got, Head(wire)) /\ wire' = Tail(wire)
      /\ UNCHANGED <<setting, usages, stored, loop, response, asked, cut>>
  BY DEF ReadEvent, Inv, Typed
<1>2. pc' \in {"reading", "held"}
  BY DEF ReadEvent, Deliver
<1>3. UNCHANGED <<setting, root, ctx, owed, record, completed, verdict, asked, cut>>
  BY <1>1 DEF usages, stored, kept
<1>4. Head(wire) \in Events /\ Tail(wire) \in Seq(Events)
  BY <1>1, HeadTailProperties
<1>5. Measured(Read(got, Head(wire)))
  BY <1>4, ReadMeasured DEF Inv, Typed
<1>6. Typed'
  <2>1. Measured(got')
    BY <1>1, <1>5
  <2> QED BY <1>1, <1>3, <1>4, <2>1 DEF Inv, Typed, Measured, Answer
<1>7. Fed' /\ SameResponse'
  <2> DEFINE s == [got |-> got, heard |-> heard]
             e == Head(wire)
             kind == setting.kind
  <2>1. [got |-> got', heard |-> heard'] = Step(kind, s, e)
    <3>1. heard' = IF HasChunk(kind, e) THEN Accumulate(heard, e) ELSE heard
      BY DEF ReadEvent
    <3> QED BY <1>1, <3>1 DEF Step
  <2>2. Reply' = Reply /\ Goal' = Goal
    BY <1>3 DEF Reply, Goal
  <2>3. ~cut => Reads(kind, s, wire, Goal)
    BY <1>1 DEF Inv, Fed
  <2> HIDE DEF s
  <2>4. ~cut => Reads(kind, Step(kind, s, e), Tail(wire), Goal)
    BY <1>1, <2>3, ReadsFirst
  <2> QED BY <1>1, <1>2, <1>3, <2>1, <2>2, <2>4 DEF Fed, SameResponse
<1>8. Settled'
  BY <1>1, <1>2, <1>3 DEF Inv, Settled, Ending
<1>9. Affordable'
  BY <1>1, <1>2, <1>3 DEF Inv, Affordable, Streaming
<1> QED BY <1>6, <1>7, <1>8, <1>9 DEF Inv

\* With nothing left to read the adapter has all of the answer, and the calls
\* it held back add no text.
LEMMA WireEndKeeps == ASSUME Inv, EndOfWire PROVE Inv'
<1> DEFINE kind == setting.kind
           schema == setting.schema
<1>1. /\ pc = "reading" /\ wire = <<>> /\ pc' \in {"accounting", "calls"}
      /\ heard' = HeardOf(heard, HeldBack(kind, schema, got))
      /\ UNCHANGED <<setting, usages, stored, wire, got, asked, cut>>
  BY DEF EndOfWire, HeardOf
<1>2. UNCHANGED <<setting, root, ctx, owed, record, completed, verdict, wire, got, asked, cut>>
  BY <1>1 DEF usages, stored, kept
<1>3. Typed'
  BY <1>2 DEF Inv, Typed, Measured, Answer
<1>4. Reply' = Reply /\ Goal' = Goal
  BY <1>2 DEF Reply, Goal
<1>5. ASSUME ~cut
      PROVE  /\ got = Goal.got /\ heard'.text = Reply.text
             /\ ~Holds(kind) => heard'.calls = Reply.calls
  <2>1. Reads(kind, [got |-> got, heard |-> heard], <<>>, Goal)
    BY <1>1, <1>5 DEF Inv, Fed
  <2>2. got = Goal.got /\ heard = Goal.heard
    <3> DEFINE s == [got |-> got, heard |-> heard]
    <3>1. s.got = got /\ s.heard = heard
      OBVIOUS
    <3> HIDE DEF s
    <3>2. s = Goal
      BY <2>1, ReadsNothing DEF s
    <3> QED BY <3>1, <3>2
  <2>3. Reply \in Replies
    BY AskedCosts DEF Inv, Typed, Reply
  <2>4. PICK i, o : Goal = Made(kind, Reply.text, Reply.calls, i, o)
    BY DEF Goal, Whole
  <2> DEFINE c == IF Holds(kind) THEN <<>> ELSE Reply.calls
  <2>5. got = Answer(Reply.text, Reply.calls, i, o) /\ heard = Answer(Reply.text, c, 0, 0)
    BY <2>2, <2>4 DEF Made
  <2>6. got.calls \in Seq(Calls)
    BY <2>3, <2>5 DEF Answer, Replies
  <2>7. got = Answer(got.text, got.calls, got.input, got.output)
    BY DEF Inv, Typed, Measured
  <2>8. heard = Answer(heard.text, heard.calls, 0, 0) /\ heard.text = Reply.text
        /\ (~Holds(kind) => heard.calls = Reply.calls)
    BY <2>5 DEF Answer
  <2>9. heard'.text = heard.text /\ (~Holds(kind) => heard'.calls = heard.calls)
    BY <1>1, <2>6, <2>7, <2>8, HeldBackKeepsText
  <2> QED BY <2>2, <2>8, <2>9
<1>6. Fed' /\ SameResponse'
  BY <1>1, <1>2, <1>4, <1>5 DEF Fed, SameResponse
<1>7. Settled'
  BY <1>1, <1>2 DEF Inv, Settled, Ending
<1>8. Affordable'
  BY <1>1, <1>2 DEF Inv, Affordable, Streaming
<1> QED BY <1>3, <1>6, <1>7, <1>8 DEF Inv

\* The agent pays for the answer what the answer costs.
LEMMA AccountKeeps == ASSUME Inv, AccountResponse PROVE Inv'
<1> DEFINE R == Response(setting.kind, setting.schema, got, heard)
           O == IF cut \/ setting.kind = "bare" THEN R ELSE asked
<1>1. /\ pc = "accounting" /\ pc' = "answered"
      /\ ctx' = Used(ctx, R) /\ owed' = Used(owed, O)
      /\ response' = R
      /\ UNCHANGED <<setting, root, stored, wire, got, heard, asked, cut>>
  BY DEF AccountResponse, Account
<1>2. UNCHANGED <<setting, root, record, completed, verdict, wire, got, heard, asked, cut>>
  BY <1>1 DEF stored, kept
<1>3. setting.kind \in Kinds /\ asked \in Responses
  BY StreamsAssumption DEF Inv, Typed
<1>4. ~cut => LET whole == Parsed(setting.kind, setting.schema, Reply)
              IN /\ R.text = whole.text /\ R.calls = whole.calls
                 /\ setting.kind # "bare" => /\ R = whole
                                            /\ R.input = asked.input /\ R.output = asked.output
                 /\ ~ForcesTool(setting.kind, setting.schema) => heard.text = whole.text
  <2> SUFFICES ASSUME ~cut
               PROVE  LET whole == Parsed(setting.kind, setting.schema, Reply)
                      IN /\ R.text = whole.text /\ R.calls = whole.calls
                         /\ setting.kind # "bare" => /\ R = whole
                                /\ R.input = asked.input /\ R.output = asked.output
                         /\ ~ForcesTool(setting.kind, setting.schema) => heard.text = whole.text
    OBVIOUS
  <2>1. /\ got = Goal.got /\ heard.text = Reply.text
        /\ ~Holds(setting.kind) => heard.calls = Reply.calls
    BY <1>1 DEF Inv, Fed
  <2> QED BY <1>3, <2>1, ResponseIsWhole DEF Goal, Reply
<1>5. R.input \in Nat /\ R.output \in Nat
  BY ResponseCosts DEF Inv, Typed
<1>6. SameResponse'
  BY <1>1, <1>2, <1>4 DEF SameResponse, Reply
<1> HIDE DEF R
<1>7. R.input = O.input /\ R.output = O.output
  BY <1>4
<1> HIDE DEF O
<1>8. Used(ctx, R) = Used(ctx, O)
  BY <1>7 DEF Used
<1>9. ctx = owed /\ ctx \in Usage
  BY DEF Inv, Settled, Typed
<1>10. ctx' = owed' /\ ctx' \in Usage /\ ctx'.calls = ctx.calls + 1
  BY <1>1, <1>5, <1>8, <1>9, UsageAdds
<1>11. Typed'
  BY <1>2, <1>10 DEF Inv, Typed, Measured, Answer
<1>12. Fed'
  BY <1>1 DEF Fed
<1>13. Settled'
  BY <1>1, <1>2, <1>10 DEF Inv, Settled, Ending
<1>14. Affordable'
  <2>1. ctx.calls < setting.max_calls /\ setting \in Settings
    BY <1>1 DEF Inv, Affordable, Streaming, Typed
  <2>2. ctx.calls \in Nat /\ setting.max_calls \in Nat
    BY <1>9, <2>1, StreamsAssumption DEF Usage
  <2>3. owed'.calls <= setting.max_calls
    BY <1>10, <2>1, <2>2
  <2> QED BY <1>1, <1>2, <2>3 DEF Affordable, Streaming
<1> QED BY <1>6, <1>11, <1>12, <1>13, <1>14 DEF Inv

\* The execution takes over what its agent used.
LEMMA CompleteKeeps == ASSUME Inv, Complete PROVE Inv'
<1>1. /\ pc = "finalise" /\ pc' = "completeSave" /\ root' = Merged(root, ctx) /\ completed'
      /\ UNCHANGED <<setting, ctx, owed, verdict, stream>>
  BY DEF Complete
<1>2. UNCHANGED <<setting, ctx, owed, wire, got, asked, cut>>
  BY <1>1 DEF stream
<1>3. root = NoUsage /\ ctx = owed /\ ctx \in Usage
  BY <1>1 DEF Inv, Settled, Ending, Typed
<1>4. root' = owed /\ root' \in Usage
  BY <1>1, <1>3, UsageAdds
<1>5. Typed'
  BY <1>2, <1>4 DEF Inv, Typed, Measured, Answer
<1>6. Fed' /\ SameResponse'
  BY <1>1 DEF Fed, SameResponse
<1>7. Settled'
  BY <1>1, <1>2, <1>3, <1>4 DEF Inv, Settled, Ending
<1>8. Affordable'
  BY <1>1, <1>2 DEF Inv, Affordable, Streaming
<1> QED BY <1>5, <1>6, <1>7, <1>8 DEF Inv

\* An end that leaves the counters leaves what the record promises of them.
LEMMA EndKeeps ==
    ASSUME Inv, UNCHANGED <<setting, usages, stream, completed>>,
           verdict' # "completed",
           pc' = pc \/ pc' \in Ending \ {"completeSave"},
           record' = "completed" => completed
    PROVE  Inv'
<1>1. UNCHANGED <<setting, root, ctx, owed, completed, wire, got, asked, cut>>
  BY DEF usages, stream
<1>2. Typed'
  BY <1>1 DEF Inv, Typed, Measured, Answer
<1>3. Fed' /\ SameResponse'
  BY StreamKeeps DEF Ending
<1>4. Settled'
  BY <1>1 DEF Inv, Settled, Ending
<1>5. Affordable'
  BY <1>1 DEF Inv, Affordable, Streaming, Ending
<1> QED BY <1>2, <1>3, <1>4, <1>5 DEF Inv

\* The requests of _complete and _fail, and what breaks them off.
LEMMA StoringKeeps ==
    ASSUME Inv,
           \/ CompleteSave \/ CompleteCheckpoint \/ FailCheckpoint \/ FailSave
           \/ StoreFails \/ BreakOff
    PROVE  Inv'
<1>1. Write \/ UNCHANGED <<record, checkpoint>>
  BY DEF CompleteSave, CompleteCheckpoint, FailCheckpoint, FailSave, StoreFails, BreakOff
<1>2. /\ UNCHANGED <<setting, usages, stream, completed>>
      /\ verdict' \in {verdict, "failed"}
      /\ pc' \in {"completeCheckpoint", "final", "failCheckpoint", "failSave", "over"}
  BY DEF CompleteSave, CompleteCheckpoint, FailCheckpoint, FailSave, StoreFails, BreakOff, kept
<1>3. verdict' # "completed"
  BY <1>2 DEF Inv, Settled
<1>4. pc' \in Ending \ {"completeSave"}
  BY <1>2 DEF Ending
<1>5. record' = "completed" => completed
  BY <1>1, WriteKeeps
<1> QED BY <1>2, <1>3, <1>4, <1>5, EndKeeps

\* Every step keeps the invariant.
LEMMA NextKeeps == ASSUME Inv, Next PROVE Inv'
<1>1. CASE Create
  <2>1. pc = "create" /\ pc' = "start" /\ record' = "created"
    BY <1>1 DEF Create, Write
  <2> QED BY <1>1, <2>1, RestKeeps DEF Create, Ending
<1>2. CASE Start
  <2>1. pc = "start" /\ pc' = "announce" /\ record' = "running"
    BY <1>2 DEF Start, Write
  <2> QED BY <1>2, <2>1, RestKeeps DEF Start, Ending
<1>3. CASE Announce
  <2>1. pc = "announce" /\ pc' = "next" /\ record' = record /\ UNCHANGED kept
    BY <1>3 DEF Announce, stored
  <2> QED BY <1>3, <2>1, RestKeeps, Working DEF Announce, Ending
<1>4. CASE LastRound
  <2>1. Merged(root, ctx) \in Usage
    BY UsageAdds DEF Inv, Typed
  <2> QED BY <1>4, <2>1, RaiseKeeps DEF LastRound, Raise, Ending
<1>5. CASE NextRound
  <2>1. CASE Raise(root)
    BY <1>5, <2>1, RaiseKeeps DEF NextRound, Inv, Typed, Raise, Ending
  <2>2. CASE ~Raise(root)
    <3>1. pc = "next" /\ pc' = "building" /\ UNCHANGED <<setting, usages, record, kept, stream>>
      BY <1>5, <2>2 DEF NextRound, stored
    <3> QED BY <3>1, RestKeeps, Working DEF Ending
  <2> QED BY <2>1, <2>2
<1>6. CASE ShrinkSections
  <2>1. pc = "building" /\ UNCHANGED <<setting, usages, record, kept, stream, pc>>
    BY <1>6 DEF ShrinkSections, stored
  <2> QED BY <2>1, RestKeeps, Working DEF Ending
<1>7. CASE Request
  <2>1. pc = "building" /\ pc' = "request" /\ UNCHANGED <<setting, usages, record, kept, stream>>
    BY <1>7 DEF Request, stored
  <2> QED BY <2>1, RestKeeps, Working DEF Ending
<1>8. CASE CallModel
  BY <1>8, CallKeeps
<1>9. CASE ReadEvent
  BY <1>9, ReadKeeps
<1>10. CASE EndOfWire
  BY <1>10, WireEndKeeps
<1>11. CASE AccountResponse
  BY <1>11, AccountKeeps
<1>12. CASE TakeAnswer
  <2>1. /\ pc = "answered" /\ pc' \in {"tools", "finalise"}
        /\ UNCHANGED <<setting, usages, record, kept, stream>>
    BY <1>12 DEF TakeAnswer, stored
  <2> QED BY <2>1, RestKeeps, Working DEF Ending
<1>13. CASE RunTools
  <2>1. pc = "tools" /\ pc' = "next" /\ UNCHANGED <<setting, usages, record, kept, stream>>
    BY <1>13 DEF RunTools, stored
  <2> QED BY <2>1, RestKeeps, Working DEF Ending
<1>14. CASE Repair
  <2>1. CASE Raise(root)
    BY <1>14, <2>1, RaiseKeeps DEF Repair, Inv, Typed, Raise, Ending
  <2>2. CASE ~Raise(root)
    <3>1. pc = "finalise" /\ pc' = "next" /\ UNCHANGED <<setting, usages, record, kept, stream>>
      BY <1>14, <2>2 DEF Repair, stored
    <3> QED BY <3>1, RestKeeps, Working DEF Ending
  <2> QED BY <2>1, <2>2
<1>15. CASE Complete
  BY <1>15, CompleteKeeps
<1>16. CASE CompleteSave \/ CompleteCheckpoint \/ FailCheckpoint \/ FailSave
  BY <1>16, StoringKeeps
<1>17. CASE TakeChunk
  <2>1. /\ UNCHANGED <<setting, usages, record, kept, stream>>
        /\ \/ pc = "held" /\ pc' = "reading"
           \/ pc = "calls" /\ pc' = "accounting"
           \/ pc = "final" /\ pc' = "over"
    BY <1>17 DEF TakeChunk
  <2>2. CASE pc = "final"
    <3>1. UNCHANGED <<completed, verdict>> /\ pc' = "over"
      BY <2>1, <2>2 DEF kept
    <3>2. verdict # "completed" /\ (record = "completed" => completed)
      BY DEF Inv, Settled
    <3> QED BY <2>1, <3>1, <3>2, EndKeeps DEF Ending
  <2>3. CASE pc # "final"
    BY <2>1, <2>3, RestKeeps, Working DEF Ending
  <2> QED BY <2>2, <2>3
<1>18. CASE Close
  <2>1. /\ pc' \in {"failCheckpoint", "over"} /\ root' = root /\ verdict' \in {verdict, "failed"}
        /\ UNCHANGED <<setting, ctx, owed, record, completed, stream>>
    BY <1>18 DEF Close, End
  <2>2. verdict # "completed" /\ (record = "completed" => completed)
    BY DEF Inv, Settled
  <2> QED BY <2>1, <2>2, EndKeeps DEF usages, Ending
<1>19. CASE ProviderFails
  BY <1>19, RaiseKeeps DEF ProviderFails, Inv, Typed, Raise, Ending
<1>20. CASE EndEarly
  <2>1. /\ pc = "reading" /\ pc' = pc /\ wire' = <<>> /\ cut' = TRUE
        /\ UNCHANGED <<setting, usages, stored, got, asked>>
    BY <1>20 DEF EndEarly
  <2>2. UNCHANGED <<setting, root, ctx, owed, record, completed, verdict, got, asked>>
    BY <2>1 DEF usages, stored, kept
  <2>3. <<>> \in Seq(Events)
    OBVIOUS
  <2>4. Typed'
    BY <2>1, <2>2, <2>3 DEF Inv, Typed, Measured, Answer
  <2>5. Fed' /\ SameResponse'
    BY <2>1 DEF Fed, SameResponse
  <2>6. Settled'
    BY <2>1, <2>2 DEF Inv, Settled, Ending
  <2>7. Affordable'
    BY <2>1, <2>2 DEF Inv, Affordable, Streaming
  <2> QED BY <2>4, <2>5, <2>6, <2>7 DEF Inv
<1>21. CASE ToolsFail
  BY <1>21, RaiseKeeps DEF ToolsFail, Inv, Typed, Raise, Ending
<1>22. CASE BreakOff \/ StoreFails
  BY <1>22, StoringKeeps
<1>23. CASE Expire
  <2>1. /\ pc \in {"next", "request", "reading", "accounting", "tools"}
        /\ \E status \in {"failed", "timed_out"} : End("raised", status, root)
    BY <1>23 DEF Expire
  <2>2. PICK status \in {"failed", "timed_out"} : End("raised", status, root)
    BY <2>1
  <2> QED BY <2>1, <2>2, RaiseKeeps DEF Inv, Typed, Ending
<1>24. CASE EmitFails
  <2>1. /\ pc \in {"next", "request", "answered", "finalise"}
        /\ Raise(root) \/ Raise(Merged(root, ctx))
    BY <1>24 DEF EmitFails
  <2>2. root \in Usage /\ Merged(root, ctx) \in Usage
    BY UsageAdds DEF Inv, Typed
  <2> QED BY <2>1, <2>2, RaiseKeeps DEF Raise, Ending
<1>25. CASE CancelExecution
  <2>1. /\ pc' = pc /\ record' = "cancelled" /\ UNCHANGED <<setting, usages, stream, kept>>
    BY <1>25 DEF CancelExecution
  <2>2. UNCHANGED <<completed, verdict>> /\ verdict # "completed"
    BY <2>1 DEF kept, Inv, Settled
  <2> QED BY <2>1, <2>2, EndKeeps
<1> QED BY <1>1, <1>2, <1>3, <1>4, <1>5, <1>6, <1>7, <1>8, <1>9, <1>10, <1>11, <1>12, <1>13,
           <1>14, <1>15, <1>16, <1>17, <1>18, <1>19, <1>20, <1>21, <1>22, <1>23, <1>24, <1>25
        DEF Next, Generate, Consume, Disturb

\* The invariant of a streamed execution.
LEMMA Inductive == Spec => []Inv
<1>1. ASSUME Inv, UNCHANGED vars PROVE Inv'
  <2>1. verdict # "completed" /\ (record = "completed" => completed)
    BY <1>1 DEF Inv, Settled
  <2> QED BY <1>1, <2>1, EndKeeps DEF vars, stored, kept
<1> QED BY <1>1, InitInv, NextKeeps, PTL DEF Spec

\* models/streaming.py:56 ("the same response object it would have received from
\* a non-streaming call"): for any adapter and any answer in any fragments, a
\* stream that is not cut short gives the text and the calls of the whole
\* answer, and what the consumer heard is its text.
THEOREM SameAsWhole == Spec => []SameResponse
<1>1. Inv => SameResponse
  BY DEF Inv
<1> QED BY <1>1, Inductive, PTL

\* models/gateway.py:125: what a completed execution says it used is what its
\* answers used, whichever adapters told it and in however many events; and no
\* call is made with the budget for calls used up.
THEOREM UsageCountedOnce == Spec => []UsageOnce
<1>1. Inv => UsageOnce
  BY DEF Inv, Settled, Affordable, UsageOnce
<1> QED BY <1>1, Inductive, PTL
=============================================================================
