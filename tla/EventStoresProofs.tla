-------------------------- MODULE EventStoresProofs --------------------------
(***************************************************************************)
(* The five event stores, for any number of publishers, processes,         *)
(* subscribers and faults.  The first part is about the operators: what    *)
(* the next subscriber is and what a row that is put between others        *)
(* leaves of them.  Then come what subscribers hear, how numbers are found *)
(* and why every store is a log, and what a replay tells of it.            *)
(***************************************************************************)
EXTENDS EventStores, FiniteSetTheorems, SequenceTheorems, WellFoundedInduction, TLAPS

\* Publish calls its subscribers by their number: there always is a least one.
LEMMA MinOfNat ==
    ASSUME NEW S, S \subseteq Nat, S # {}
    PROVE  Min(S) \in S /\ \A y \in S : Min(S) <= y
<1>1. PICK x \in S : \A y \in S : <<y, x>> \notin OpToRel(<, Nat)
  BY NatLessThanWellFounded, WFMin
<1>2. \A y \in S : x <= y
  <2> TAKE y \in S
  <2>1. ~ (y < x)
    BY <1>1 DEF OpToRel
  <2> QED BY <2>1
<1>3. \E z \in S : \A y \in S : z =< y
  BY <1>2
<1> QED BY <1>3 DEF Min

\* A row put in the log at a place (INSERT, rpush or another line) moves the
\* ones behind it and leaves all others.
LEMMA Inserted ==
    ASSUME NEW S, NEW s \in Seq(S), NEW e \in S, NEW at \in 1 .. Len(s) + 1
    PROVE  /\ InsertAt(s, at, e) \in Seq(S)
           /\ Len(InsertAt(s, at, e)) = Len(s) + 1
           /\ InsertAt(s, at, e)[at] = e
           /\ \A i \in 1 .. at - 1 : InsertAt(s, at, e)[i] = s[i]
           /\ \A i \in at + 1 .. Len(s) + 1 : InsertAt(s, at, e)[i] = s[i - 1]
<1> DEFINE a == SubSeq(s, 1, at - 1)
           b == SubSeq(s, at, Len(s))
<1>1. /\ a \in Seq(S) /\ Len(a) = at - 1
      /\ \A i \in 1 .. at - 1 : a[i] = s[i]
  <2>1. \A i \in 1 .. at - 1 : s[i] \in S
    BY ElementOfSeq
  <2>2. Len(s) \in Nat
    BY LenProperties
  <2>3. 1 \in Int /\ at - 1 \in Int
    BY <2>2
  <2>4. /\ SubSeq(s, 1, at - 1) \in Seq(S)
        /\ Len(SubSeq(s, 1, at - 1)) = IF 1 <= at - 1 THEN at - 1 - 1 + 1 ELSE 0
        /\ \A i \in 1 .. at - 1 - 1 + 1 : SubSeq(s, 1, at - 1)[i] = s[1 + i - 1]
    BY <2>1, <2>3, SubSeqProperties
  <2> QED BY <2>2, <2>4
<1>2. /\ b \in Seq(S) /\ Len(b) = Len(s) - at + 1
      /\ \A i \in 1 .. Len(s) - at + 1 : b[i] = s[at + i - 1]
  <2>1. \A i \in at .. Len(s) : s[i] \in S
    BY ElementOfSeq
  <2>2. Len(s) \in Nat
    BY LenProperties
  <2>3. at \in Int /\ Len(s) \in Int
    BY <2>2
  <2>4. /\ SubSeq(s, at, Len(s)) \in Seq(S)
        /\ Len(SubSeq(s, at, Len(s))) = IF at <= Len(s) THEN Len(s) - at + 1 ELSE 0
        /\ \A i \in 1 .. Len(s) - at + 1 : SubSeq(s, at, Len(s))[i] = s[at + i - 1]
    BY <2>1, <2>3, SubSeqProperties
  <2> QED BY <2>2, <2>4
<1> HIDE DEF a, b
<1>3. Len(s) \in Nat
  BY LenProperties
<1> DEFINE c == a \o <<e>>
<1>4. /\ c \in Seq(S) /\ Len(c) = at /\ c[at] = e
      /\ \A i \in 1 .. at - 1 : c[i] = a[i]
  <2>1. c = Append(a, e)
    BY <1>1
  <2>2. /\ Append(a, e) \in Seq(S) /\ Len(Append(a, e)) = at - 1 + 1
        /\ Append(a, e)[at - 1 + 1] = e
        /\ \A i \in 1 .. at - 1 : Append(a, e)[i] = a[i]
    BY <1>1, AppendProperties
  <2>3. at - 1 + 1 = at
    BY <1>3
  <2> QED BY ONLY <2>1, <2>2, <2>3
<1> HIDE DEF c
<1>5. /\ c \o b \in Seq(S) /\ Len(c \o b) = Len(s) + 1
      /\ \A i \in 1 .. at : (c \o b)[i] = c[i]
      /\ \A i \in at + 1 .. Len(s) + 1 : (c \o b)[i] = b[i - at]
  <2>1. /\ c \o b \in Seq(S) /\ Len(c \o b) = at + Len(b)
        /\ \A i \in 1 .. at + Len(b) : (c \o b)[i] = IF i <= at THEN c[i] ELSE b[i - at]
    BY ONLY <1>2, <1>4, ConcatProperties
  <2> QED BY <1>2, <1>3, <2>1
<1>6. InsertAt(s, at, e) = c \o b
  BY DEF InsertAt, a, b, c
<1>7. \A i \in 1 .. at - 1 : (c \o b)[i] = s[i]
  BY <1>1, <1>3, <1>4, <1>5
<1>8. \A i \in at + 1 .. Len(s) + 1 : (c \o b)[i] = s[i - 1]
  <2> TAKE i \in at + 1 .. Len(s) + 1
  <2>1. (c \o b)[i] = b[i - at]
    BY <1>5
  <2>2. i - at \in 1 .. Len(s) - at + 1 /\ at + (i - at) - 1 = i - 1
    BY <1>3
  <2>3. b[i - at] = s[at + (i - at) - 1]
    BY <1>2, <2>2
  <2> QED BY <2>1, <2>2, <2>3
<1> QED BY <1>3, <1>4, <1>5, <1>6, <1>7, <1>8

\* A sequence contains what is in its range.
LEMMA ContainsRange ==
    ASSUME NEW S, NEW s \in Seq(S), NEW e
    PROVE  Contains(s, e) <=> e \in Range(s)
<1>1. DOMAIN s = 1 .. Len(s)
  BY LenProperties
<1> QED BY <1>1 DEF Contains, Range

\* One call more: a subscriber has heard of one event more, and of none twice
\* if it had not heard of that one.
LEMMA AppendRange ==
    ASSUME NEW S, NEW s \in Seq(S), NEW e \in S
    PROVE  /\ Append(s, e) \in Seq(S)
           /\ Range(Append(s, e)) = Range(s) \cup {e}
           /\ IsInjective(s) /\ e \notin Range(s) => IsInjective(Append(s, e))
<1>1. /\ Append(s, e) \in Seq(S) /\ Len(s) \in Nat
      /\ Len(Append(s, e)) = Len(s) + 1
      /\ DOMAIN s = 1 .. Len(s) /\ DOMAIN Append(s, e) = 1 .. Len(s) + 1
      /\ \A i \in 1 .. Len(s) : Append(s, e)[i] = s[i]
      /\ Append(s, e)[Len(s) + 1] = e
  BY LenProperties
<1> DEFINE t == Append(s, e)
<1> HIDE DEF t
<1>2. /\ DOMAIN t = 1 .. Len(s) + 1 /\ t[Len(s) + 1] = e
      /\ \A i \in 1 .. Len(s) : t[i] = s[i]
  BY <1>1 DEF t
<1>3. Range(t) = Range(s) \cup {e}
  <2>1. ASSUME NEW x \in Range(t) PROVE x \in Range(s) \cup {e}
    <3>1. PICK i \in 1 .. Len(s) + 1 : t[i] = x
      BY <1>2 DEF Range
    <3>2. i = Len(s) + 1 \/ i \in 1 .. Len(s)
      BY <1>1
    <3> QED BY <1>1, <1>2, <3>1, <3>2 DEF Range
  <2>2. ASSUME NEW x \in Range(s) PROVE x \in Range(t)
    <3>1. PICK i \in 1 .. Len(s) : s[i] = x
      BY <1>1 DEF Range
    <3>2. i \in 1 .. Len(s) + 1
      BY <1>1
    <3> QED BY <1>2, <3>1, <3>2 DEF Range
  <2>3. e \in Range(t)
    <3>1. Len(s) + 1 \in 1 .. Len(s) + 1
      BY <1>1
    <3> QED BY <1>2, <3>1 DEF Range
  <2> QED BY <2>1, <2>2, <2>3
<1>4. ASSUME IsInjective(s), e \notin Range(s) PROVE IsInjective(t)
  <2> SUFFICES ASSUME NEW i \in DOMAIN t, NEW j \in DOMAIN t, t[i] = t[j] PROVE i = j
    BY DEF IsInjective
  <2>1. /\ i = Len(s) + 1 \/ i \in 1 .. Len(s)
        /\ j = Len(s) + 1 \/ j \in 1 .. Len(s)
    BY <1>1, <1>2
  <2>2. \A k \in 1 .. Len(s) : s[k] # e
    BY <1>1, <1>4 DEF Range
  <2> QED BY <1>1, <1>2, <1>4, <2>1, <2>2 DEF IsInjective
<1> QED BY <1>1, <1>3, <1>4 DEF t

-----------------------------------------------------------------------------
(* The states of a store, its publishers and its subscribers *)

Event == Publishers \X (1 .. MaxEvents)

StoredRow == [event : Event, number : Nat]

Typed ==
    /\ kind \in {"memory", "jsonl", "sqlite", "postgres", "redis"}
    /\ together \in BOOLEAN /\ cancels \in BOOLEAN
    /\ kind = "memory" => together
    /\ kind \in {"memory", "jsonl"} => ~cancels
    /\ rows \in Seq(StoredRow) /\ counter \in Nat
    /\ holder \in [Publishers -> Publishers \cup {None}]
    /\ pc \in [Publishers -> {"idle", "store", "list", "calling", "thread"} \cup Ended]
    /\ count \in [Publishers -> 0 .. MaxEvents]
    /\ number \in [Publishers -> Nat]
    /\ todo \in [Publishers -> SUBSET Subscribers]
    /\ subscribed \in SUBSET Subscribers
    /\ heard \in [Subscribers -> Seq(Event)]

\* Where a publisher is tells how many events it has begun.
Walking ==
    \A p \in Publishers :
        /\ pc[p] = "idle" => count[p] < MaxEvents
        /\ pc[p] \notin {"idle", "broken"} => count[p] > 0
        /\ pc[p] = "calling" => todo[p] # {}
        /\ pc[p] = "list" => kind = "redis"
        /\ pc[p] = "thread" => kind = "sqlite" /\ cancels

\* An event is in the store when its append is over, and not before its last
\* request.
Storing ==
    /\ \A e \in Log!Written :
           /\ e[2] <= count[e[1]]
           /\ e[2] = count[e[1]] => pc[e[1]] \notin {"store", "thread"}
    /\ \A p \in Publishers : pc[p] \in {"list", "calling"} => Current(p) \in Log!Written

\* What a subscriber has heard of is behind the publisher; what it has still
\* to hear of is before it.
HeardOnce ==
    \A s \in Subscribers :
        /\ IsInjective(heard[s])
        /\ \A e \in Range(heard[s]) :
               /\ Hears(s, e) /\ e \in Log!Written /\ e[2] <= count[e[1]]
               /\ e[2] = count[e[1]] =>
                      /\ pc[e[1]] \notin {"store", "list"}
                      /\ pc[e[1]] = "calling" => s \notin todo[e[1]]
        /\ \A p \in Publishers : pc[p] = "calling" /\ s \in todo[p] => Hears(s, Current(p))

HeardAll ==
    \A s \in subscribed : \A p \in Publishers :
        /\ \A e \in Finished(p) : Hears(s, e) => e \in Range(heard[s])
        /\ pc[p] = "calling" /\ Hears(s, Current(p)) =>
               s \in todo[p] \/ Current(p) \in Range(heard[s])

Listing ==
    kind = "redis" => \A p \in Publishers : Finished(p) # {} \/ pc[p] = "calling" => listed

PublishInv == Typed /\ Walking /\ Storing /\ HeardOnce /\ HeardAll /\ Listing

-----------------------------------------------------------------------------
(* The numbers *)

\* Who is about to store holds the lock of its process, where there is one.
Locking == Locked => \A p \in Publishers : pc[p] = "store" => holder[Home(p)] = p

\* A store that keeps its promise of dense numbers has them, and whoever is
\* about to store has the very next one: under a lock always, on PostgreSQL
\* one that is not ahead.
Numbered ==
    Promise = "dense" =>
        /\ \A i \in DOMAIN rows : rows[i].number = i
        /\ \A p \in Publishers : pc[p] = "store" =>
               /\ number[p] \in 1 .. Len(rows) + 1
               /\ Locked => number[p] = Len(rows) + 1

\* What incr has given out is below the counter and nobody else's.
Counted ==
    kind = "redis" =>
        /\ \A i \in DOMAIN rows : rows[i].number <= counter
        /\ \A p \in Publishers : pc[p] = "store" =>
               /\ number[p] <= counter
               /\ \A i \in DOMAIN rows : rows[i].number # number[p]
               /\ \A q \in Publishers \ {p} : pc[q] = "store" => number[q] # number[p]

\* The sqlite store reads by number, and a publisher's own numbers grow: it
\* has selected a maximum that its own rows were in.
Sorted ==
    kind = "sqlite" =>
        /\ \A i, j \in DOMAIN rows : i < j => rows[i].number <= rows[j].number
        /\ \A p \in Publishers : pc[p] \in {"store", "thread"} =>
               \A i \in DOMAIN rows : rows[i].event[1] = p => rows[i].number < number[p]

Inv == PublishInv /\ Locking /\ Numbered /\ Counted /\ Sorted

\* The bound on a publisher's events is a positive number.
LEMMA SomeEvents == MaxEvents \in Nat /\ MaxEvents > 0
  BY EventStoresAssumption

-----------------------------------------------------------------------------
(* What a write does *)

\* ORDER BY sequence: in front of a row's place no number is higher, at it one
\* is; a list has the row at its end.
LEMMA PlaceFacts ==
    ASSUME Typed, NEW n \in Nat
    PROVE  /\ PlaceOf(n) \in 1 .. Len(rows) + 1
           /\ kind \notin {"sqlite", "postgres"} => PlaceOf(n) = Len(rows) + 1
           /\ \A i \in DOMAIN rows :
                  kind \in {"sqlite", "postgres"} /\ i < PlaceOf(n) => ~ (rows[i].number > n)
           /\ PlaceOf(n) <= Len(rows) => rows[PlaceOf(n)].number > n
<1> DEFINE S == {i \in DOMAIN rows : kind \in {"sqlite", "postgres"} /\ rows[i].number > n}
           T == {Len(rows) + 1} \cup S
<1>1. Len(rows) \in Nat /\ DOMAIN rows = 1 .. Len(rows)
  BY LenProperties DEF Typed
<1>2. T \subseteq 1 .. Len(rows) + 1 /\ Len(rows) + 1 \in T
  BY <1>1
<1>3. Min(T) \in T /\ \A i \in T : Min(T) <= i
  <2>1. T \subseteq Nat /\ T # {}
    BY <1>1, <1>2
  <2> HIDE DEF T
  <2> QED BY <2>1, MinOfNat
<1>4. PlaceOf(n) = Min(T)
  BY DEF PlaceOf
<1> DEFINE at == Min(T)
<1> HIDE DEF at
<1>5. at \in T /\ \A i \in T : at <= i
  BY <1>3 DEF at
<1>6. \A i \in DOMAIN rows : kind \in {"sqlite", "postgres"} /\ i < at => ~ (rows[i].number > n)
  <2> TAKE i \in DOMAIN rows
  <2> HAVE kind \in {"sqlite", "postgres"} /\ i < at
  <2>1. i \notin T
    <3>1. i \in Nat /\ at \in Nat
      BY <1>1, <1>2, <1>5
    <3> HIDE DEF T
    <3> QED BY <1>5, <3>1
  <2> QED BY <2>1
<1>7. at <= Len(rows) => rows[at].number > n
  BY <1>1, <1>5
<1>8. kind \notin {"sqlite", "postgres"} => at = Len(rows) + 1
  BY <1>5
<1> QED BY <1>2, <1>4, <1>5, <1>6, <1>7, <1>8 DEF at

\* A write adds the publisher's event to what is stored and takes back none.
LEMMA Wrote ==
    ASSUME Typed, NEW p \in Publishers, count[p] > 0, Write(p)
    PROVE  LET at == PlaceOf(number[p])
           IN /\ rows' \in Seq(StoredRow) /\ Len(rows') = Len(rows) + 1
              /\ Row(p) \in StoredRow /\ Len(rows) \in Nat
              /\ DOMAIN rows = 1 .. Len(rows) /\ DOMAIN rows' = 1 .. Len(rows) + 1
              /\ at \in 1 .. Len(rows) + 1 /\ rows'[at] = Row(p)
              /\ \A i \in 1 .. at - 1 : rows'[i] = rows[i]
              /\ \A i \in at + 1 .. Len(rows) + 1 : rows'[i] = rows[i - 1]
<1> DEFINE at == PlaceOf(number[p])
<1>1. number[p] \in Nat /\ rows \in Seq(StoredRow)
  BY DEF Typed
<1>2. at \in 1 .. Len(rows) + 1
  BY <1>1, PlaceFacts
<1>3. Row(p) \in StoredRow
  <2>1. count[p] \in 1 .. MaxEvents
    BY DEF Typed
  <2> QED BY <1>1, <2>1 DEF Row, Current, StoredRow, Event
<1>4. rows' = InsertAt(rows, at, Row(p))
  BY DEF Write
<1> HIDE DEF at
<1>5. /\ rows' \in Seq(StoredRow) /\ Len(rows') = Len(rows) + 1
      /\ rows'[at] = Row(p)
      /\ \A i \in 1 .. at - 1 : rows'[i] = rows[i]
      /\ \A i \in at + 1 .. Len(rows) + 1 : rows'[i] = rows[i - 1]
  <2> DEFINE new == Row(p)
  <2>1. new \in StoredRow
    BY <1>3
  <2> HIDE DEF new
  <2>2. /\ InsertAt(rows, at, new) \in Seq(StoredRow)
        /\ Len(InsertAt(rows, at, new)) = Len(rows) + 1
        /\ InsertAt(rows, at, new)[at] = new
        /\ \A i \in 1 .. at - 1 : InsertAt(rows, at, new)[i] = rows[i]
        /\ \A i \in at + 1 .. Len(rows) + 1 : InsertAt(rows, at, new)[i] = rows[i - 1]
    BY <1>1, <1>2, <2>1, Inserted
  <2>3. rows' = InsertAt(rows, at, new)
    BY <1>4 DEF new
  <2> QED BY <2>2, <2>3 DEF new
<1>6. /\ DOMAIN rows = 1 .. Len(rows) /\ DOMAIN rows' = 1 .. Len(rows')
      /\ Len(rows) \in Nat
  BY <1>1, <1>5, LenProperties
<1> QED BY <1>2, <1>3, <1>5, <1>6 DEF at

\* Every row is a row there was, or the new one; and every row there was is
\* still there.
LEMMA WroteRows ==
    ASSUME Typed, NEW p \in Publishers, count[p] > 0, Write(p)
    PROVE  /\ \A j \in DOMAIN rows' :
                  rows'[j] = Row(p) \/ \E i \in DOMAIN rows : rows'[j] = rows[i]
           /\ \A i \in DOMAIN rows : \E j \in DOMAIN rows' : rows'[j] = rows[i]
           /\ \E j \in DOMAIN rows' : rows'[j] = Row(p)
<1> DEFINE at == PlaceOf(number[p])
<1>1. /\ Len(rows) \in Nat
      /\ DOMAIN rows = 1 .. Len(rows) /\ DOMAIN rows' = 1 .. Len(rows) + 1
      /\ at \in 1 .. Len(rows) + 1 /\ rows'[at] = Row(p)
      /\ \A i \in 1 .. at - 1 : rows'[i] = rows[i]
      /\ \A i \in at + 1 .. Len(rows) + 1 : rows'[i] = rows[i - 1]
  BY Wrote
<1> HIDE DEF at
<1>2. ASSUME NEW j \in DOMAIN rows'
      PROVE  rows'[j] = Row(p) \/ \E i \in DOMAIN rows : rows'[j] = rows[i]
  <2>1. CASE j = at
    BY <1>1, <2>1
  <2>2. CASE j < at
    <3>1. j \in 1 .. at - 1 /\ j \in DOMAIN rows
      BY <1>1, <1>2, <2>2
    <3> QED BY <1>1, <3>1
  <2>3. CASE j > at
    <3>1. j \in at + 1 .. Len(rows) + 1 /\ j - 1 \in DOMAIN rows
      BY <1>1, <1>2, <2>3
    <3> QED BY <1>1, <3>1
  <2>4. j \in Nat /\ at \in Nat
    BY <1>1, <1>2
  <2> QED BY <2>1, <2>2, <2>3, <2>4
<1>3. ASSUME NEW i \in DOMAIN rows PROVE \E j \in DOMAIN rows' : rows'[j] = rows[i]
  <2>1. CASE i < at
    <3>1. i \in 1 .. at - 1 /\ i \in DOMAIN rows'
      BY <1>1, <1>3, <2>1
    <3> QED BY <1>1, <3>1
  <2>2. CASE ~ (i < at)
    <3>1. i + 1 \in at + 1 .. Len(rows) + 1 /\ i + 1 \in DOMAIN rows' /\ (i + 1) - 1 = i
      BY <1>1, <1>3, <2>2
    <3>2. rows'[i + 1] = rows[(i + 1) - 1]
      BY <1>1, <3>1
    <3> QED BY <3>1, <3>2
  <2> QED BY <2>1, <2>2
<1> QED BY <1>1, <1>2, <1>3

\* The events in the store are those there were and the publisher's.
LEMMA WroteEvents ==
    ASSUME Typed, NEW p \in Publishers, count[p] > 0, Write(p)
    PROVE  Log!Written' = Log!Written \cup {Current(p)}
<1>1. Row(p).event = Current(p)
  BY DEF Row
<1> QED BY <1>1, WroteRows DEF Log!Written

-----------------------------------------------------------------------------
(* Types, and where the publishers are *)

\* A process is named by one of the publishers in it.
LEMMA HomeType == ASSUME NEW p \in Publishers PROVE Home(p) \in Publishers
<1>1. \E q \in Publishers : TRUE
  OBVIOUS
<1>2. (CHOOSE q \in Publishers : TRUE) \in Publishers
  BY <1>1
<1> QED BY <1>2 DEF Home

\* A number that is taken is a number.
LEMMA NextNumberType == ASSUME Typed PROVE NextNumber \in Nat
<1>1. Len(rows) \in Nat /\ rows \in [1 .. Len(rows) -> StoredRow]
  BY LenProperties DEF Typed
<1>2. HighestRow \in Nat
  <2>1. CASE rows = <<>>
    BY <2>1 DEF HighestRow
  <2>2. CASE rows # <<>>
    <3>1. Len(rows) \in 1 .. Len(rows)
      BY <1>1, <2>2 DEF Typed
    <3>2. rows[Len(rows)] \in StoredRow
      BY <1>1, <3>1
    <3> QED BY <2>2, <3>2 DEF HighestRow, StoredRow
  <2> QED BY <2>1, <2>2
<1>3. counter \in Nat
  BY DEF Typed
<1> QED BY <1>1, <1>2, <1>3 DEF NextNumber, Typed

\* A task that ends gives back the lock it has and no other.
LEMMA UnlockType ==
    ASSUME Typed, NEW p \in Publishers
    PROVE  Unlock(p) \in [Publishers -> Publishers \cup {None}]
  BY HomeType DEF Unlock, Typed

\* The subscriber called next is one of those to call.
LEMMA NextSubscriber ==
    ASSUME Typed, NEW p \in Publishers, todo[p] # {}
    PROVE  Min(todo[p]) \in todo[p] /\ Min(todo[p]) \in Subscribers
<1>1. todo[p] \subseteq Subscribers
  BY DEF Typed
<1>2. todo[p] \subseteq Nat
  BY <1>1, EventStoresAssumption DEF EventStoresAssumption
<1> QED BY <1>1, <1>2, MinOfNat

\* Every store: a step leaves every variable in its type and every publisher
\* where its number of events allows it to be.
LEMMA TypedStep == Typed /\ Walking /\ [Next]_vars => Typed' /\ Walking'
<1> SUFFICES ASSUME Typed, Walking, [Next]_vars PROVE Typed' /\ Walking'
  OBVIOUS
<1> USE DEF Ended
<1>1. ASSUME NEW p \in Publishers, TakeNumber(p) PROVE Typed' /\ Walking'
  <2>1. NextNumber \in Nat
    BY NextNumberType
  <2>2. count[p] + 1 \in 1 .. MaxEvents
    <3>1. count[p] \in 0 .. MaxEvents
      BY DEF Typed
    <3>2. count[p] < MaxEvents
      BY <1>1 DEF TakeNumber, Walking
    <3> QED BY <3>1, <3>2, SomeEvents
  <2>3. Home(p) \in Publishers
    BY HomeType
  <2>4. holder' \in [Publishers -> Publishers \cup {None}]
    BY <1>1, <2>3 DEF TakeNumber, Typed
  <2>5. /\ count' \in [Publishers -> 0 .. MaxEvents] /\ number' \in [Publishers -> Nat]
        /\ counter' \in Nat
        /\ pc' = [pc EXCEPT ![p] = "store"] /\ count' = [count EXCEPT ![p] = @ + 1]
    BY <1>1, <2>1, <2>2 DEF TakeNumber, Typed
  <2>6. UNCHANGED <<fixed, rows, todo, subscribed, heard>>
    BY <1>1 DEF TakeNumber
  <2>7. Typed'
    BY <2>4, <2>5, <2>6 DEF Typed, fixed
  <2>8. Walking'
    BY <2>2, <2>5, <2>6 DEF Typed, Walking, fixed
  <2> QED BY <2>7, <2>8
<1>2. ASSUME NEW p \in Publishers, BeginFanOut(p), pc[p] \in {"store", "list"},
             UNCHANGED <<fixed, counter, count, number, subscribed, heard>>,
             rows' \in Seq(StoredRow),
             holder' \in [Publishers -> Publishers \cup {None}]
      PROVE  Typed' /\ Walking'
  <2> DEFINE those == {s \in subscribed : Hears(s, Current(p))}
  <2>1. /\ todo' = [todo EXCEPT ![p] = those]
        /\ pc' = [pc EXCEPT ![p] = AfterCalls(p, those)]
    BY <1>2 DEF BeginFanOut
  <2>2. those \subseteq Subscribers
    BY DEF Typed
  <2>3. count[p] > 0 /\ count[p] \in 0 .. MaxEvents
    BY <1>2 DEF Typed, Walking
  <2> HIDE DEF those
  <2>4. /\ AfterCalls(p, those) \in {"calling", "idle", "done"}
        /\ AfterCalls(p, those) = "calling" => those # {}
        /\ AfterCalls(p, those) = "idle" => count[p] < MaxEvents
    BY <2>3, SomeEvents DEF AfterCalls
  <2>5. Typed'
    BY <1>2, <2>1, <2>2, <2>4 DEF Typed, fixed
  <2>6. Walking'
    BY <1>2, <2>1, <2>3, <2>4 DEF Typed, Walking, fixed
  <2> QED BY <2>5, <2>6
<1>3. ASSUME NEW p \in Publishers, StoreEvent(p) PROVE Typed' /\ Walking'
  <2>1. rows' \in Seq(StoredRow)
    BY <1>3, Wrote DEF StoreEvent, Walking
  <2>2. holder' \in [Publishers -> Publishers \cup {None}]
    BY <1>3, UnlockType DEF StoreEvent
  <2>3. UNCHANGED <<fixed, counter, count, number, subscribed, heard>> /\ pc[p] = "store"
    BY <1>3 DEF StoreEvent
  <2>4. CASE kind = "redis"
    <3>1. pc' = [pc EXCEPT ![p] = "list"] /\ UNCHANGED todo
      BY <1>3, <2>4 DEF StoreEvent
    <3>2. Typed'
      BY <2>1, <2>2, <2>3, <3>1 DEF Typed, fixed
    <3>3. Walking'
      BY <2>3, <2>4, <3>1 DEF Typed, Walking, fixed
    <3> QED BY <3>2, <3>3
  <2>5. CASE kind # "redis"
    <3>1. BeginFanOut(p)
      BY <1>3, <2>5 DEF StoreEvent
    <3> QED BY <1>2, <2>1, <2>2, <2>3, <3>1
  <2> QED BY <2>4, <2>5
<1>4. ASSUME NEW p \in Publishers, ListExecution(p) PROVE Typed' /\ Walking'
  <2>1. /\ UNCHANGED <<fixed, rows, counter, holder, count, number, subscribed, heard>>
        /\ pc[p] = "list" /\ BeginFanOut(p)
    BY <1>4 DEF ListExecution
  <2>2. rows' \in Seq(StoredRow) /\ holder' \in [Publishers -> Publishers \cup {None}]
    BY <2>1 DEF Typed
  <2> QED BY <1>2, <2>1, <2>2
<1>5. ASSUME NEW p \in Publishers, CallSubscriber(p) PROVE Typed' /\ Walking'
  <2>1. PICK left \in SUBSET todo[p] :
           /\ todo' = [todo EXCEPT ![p] = left]
           /\ pc' = [pc EXCEPT ![p] = AfterCalls(p, left)]
    BY <1>5 DEF CallSubscriber, StillToCall
  <2>2. pc[p] = "calling" /\ todo[p] # {} /\ count[p] \in 1 .. MaxEvents
    <3>1. pc[p] = "calling"
      BY <1>5 DEF CallSubscriber
    <3>2. todo[p] # {} /\ count[p] > 0
      BY <3>1 DEF Walking
    <3>3. count[p] \in 0 .. MaxEvents
      BY DEF Typed
    <3> QED BY <3>1, <3>2, <3>3
  <2> DEFINE s == Min(todo[p])
  <2>3. s \in Subscribers
    BY <2>2, NextSubscriber
  <2>4. /\ heard' = [heard EXCEPT ![s] = Append(@, Current(p))]
        /\ UNCHANGED <<fixed, store, holder, count, number, subscribed>>
    BY <1>5 DEF CallSubscriber
  <2> HIDE DEF s
  <2>5. Current(p) \in Event /\ heard[s] \in Seq(Event)
    BY <2>2, <2>3 DEF Current, Event, Typed
  <2>6. heard' \in [Subscribers -> Seq(Event)]
    <3>1. Append(heard[s], Current(p)) \in Seq(Event)
      BY <2>5, AppendRange
    <3> QED BY <2>4, <3>1 DEF Typed
  <2>7. /\ AfterCalls(p, left) \in {"calling", "idle", "done"}
        /\ AfterCalls(p, left) = "calling" => left # {}
        /\ AfterCalls(p, left) = "idle" => count[p] < MaxEvents
    BY <2>2, SomeEvents DEF AfterCalls
  <2>8. Typed'
    BY <2>1, <2>4, <2>6, <2>7 DEF Typed, fixed, store
  <2>9. Walking'
    BY <2>1, <2>2, <2>4, <2>7 DEF Typed, Walking, fixed, store
  <2> QED BY <2>8, <2>9
<1>6. ASSUME NEW p \in Publishers, Collide(p) PROVE Typed' /\ Walking'
  <2>1. /\ pc[p] = "store" /\ pc' = [pc EXCEPT ![p] = "collided"]
        /\ UNCHANGED <<fixed, store, holder, count, number, todo, subscribed, heard>>
    BY <1>6 DEF Collide
  <2> QED BY <2>1 DEF Typed, Walking, fixed, store
<1>7. ASSUME NEW p \in Publishers, RequestFails(p) PROVE Typed' /\ Walking'
  <2>1. /\ pc[p] \in {"store", "list"} /\ pc' = [pc EXCEPT ![p] = "broken"]
        /\ UNCHANGED <<fixed, counter, count, number, todo, subscribed, heard>>
    BY <1>7 DEF RequestFails
  <2>2. rows' \in Seq(StoredRow)
    <3>1. CASE UNCHANGED rows
      BY <3>1 DEF Typed
    <3>2. CASE Write(p)
      BY <2>1, <3>2, Wrote DEF Walking
    <3> QED BY <1>7, <3>1, <3>2 DEF RequestFails
  <2>3. holder' \in [Publishers -> Publishers \cup {None}]
    BY <1>7, UnlockType DEF RequestFails, AfterFailure
  <2>4. Typed'
    BY <2>1, <2>2, <2>3 DEF Typed, fixed
  <2>5. Walking'
    BY <2>1 DEF Typed, Walking, fixed
  <2> QED BY <2>4, <2>5
<1>8. ASSUME NEW p \in Publishers, CancelTask(p) PROVE Typed' /\ Walking'
  <2>1. PICK to \in {"thread", "broken"} :
           /\ pc' = [pc EXCEPT ![p] = to]
           /\ to = "thread" => kind = "sqlite" /\ pc[p] = "store" /\ cancels
    BY <1>8 DEF CancelTask
  <2>2. holder' \in [Publishers -> Publishers \cup {None}]
    BY <1>8, UnlockType DEF CancelTask
  <2>3. /\ pc[p] \in {"store", "list", "calling"}
        /\ UNCHANGED <<fixed, store, count, number, todo, subscribed, heard>>
    BY <1>8 DEF CancelTask
  <2>4. Typed'
    BY <2>1, <2>2, <2>3 DEF Typed, fixed, store
  <2>5. Walking'
    BY <2>1, <2>3 DEF Typed, Walking, fixed
  <2> QED BY <2>4, <2>5
<1>9. ASSUME NEW p \in Publishers, ThreadStores(p) PROVE Typed' /\ Walking'
  <2>1. /\ pc[p] = "thread" /\ pc' = [pc EXCEPT ![p] = "broken"]
        /\ UNCHANGED <<fixed, counter, holder, count, number, todo, subscribed, heard>>
    BY <1>9 DEF ThreadStores
  <2>2. rows' \in Seq(StoredRow)
    BY <1>9, <2>1, Wrote DEF ThreadStores, Walking
  <2>3. Typed'
    BY <2>1, <2>2 DEF Typed, fixed
  <2>4. Walking'
    BY <2>1 DEF Typed, Walking, fixed
  <2> QED BY <2>3, <2>4
<1>10. ASSUME NEW x \in Publishers, Crash(x) PROVE Typed' /\ Walking'
  <2>1. /\ holder' = [holder EXCEPT ![x] = None]
        /\ pc' = [p \in Publishers |->
                    IF Home(p) = x /\ pc[p] \notin Ended THEN "broken" ELSE pc[p]]
        /\ UNCHANGED <<fixed, store, count, number, todo, subscribed, heard>>
    BY <1>10 DEF Crash
  <2>2. Typed'
    BY <2>1 DEF Typed, fixed, store
  <2>3. Walking'
    BY <2>1 DEF Typed, Walking, fixed
  <2> QED BY <2>2, <2>3
<1>11. ASSUME NEW s \in Subscribers, Unsubscribe(s) PROVE Typed' /\ Walking'
  <2>1. /\ subscribed' = subscribed \ {s}
        /\ UNCHANGED <<fixed, store, holder, pc, count, number, todo, heard>>
    BY <1>11 DEF Unsubscribe
  <2> QED BY <2>1 DEF Typed, Walking, fixed, store
<1>12. CASE UNCHANGED vars
  BY <1>12 DEF vars, store, Typed, Walking, fixed
<1> QED BY <1>1, <1>3, <1>4, <1>5, <1>6, <1>7, <1>8, <1>9, <1>10, <1>11, <1>12
    DEF Next, Step, Disturb, Processes

-----------------------------------------------------------------------------
(* What is stored, and who has heard of it *)

\* What is stored are events of the publishers.
LEMMA WrittenType ==
    ASSUME Typed, NEW e \in Log!Written
    PROVE  e[1] \in Publishers /\ e[2] \in 1 .. MaxEvents
<1>1. rows \in [1 .. Len(rows) -> StoredRow]
  BY LenProperties DEF Typed
<1> QED BY <1>1 DEF Log!Written, StoredRow, Event

\* Nothing is written: who has come further has not come to store.
LEMMA StoringUnwritten ==
    ASSUME Typed, Storing, UNCHANGED count, Log!Written' = Log!Written,
           \A p \in Publishers :
               \/ pc'[p] = pc[p]
               \/ pc'[p] = "thread" /\ pc[p] = "store"
               \/ /\ pc'[p] \notin {"store", "thread"}
                  /\ pc'[p] \in {"list", "calling"} => pc[p] \in {"list", "calling"}
    PROVE  Storing'
<1>1. \A e \in Log!Written : e[1] \in Publishers
  BY WrittenType
<1>2. \A p \in Publishers : Current(p)' = Current(p)
  BY DEF Current
<1> QED BY <1>1, <1>2 DEF Storing

\* A publisher's write, with which it leaves the append.
LEMMA StoringWritten ==
    ASSUME Typed, Storing, UNCHANGED count, NEW p \in Publishers,
           Log!Written' = Log!Written \cup {Current(p)},
           \A q \in Publishers \ {p} : pc'[q] = pc[q],
           pc'[p] \notin {"store", "thread"}
    PROVE  Storing'
<1>1. \A e \in Log!Written : e[1] \in Publishers
  BY WrittenType
<1>2. \A q \in Publishers : Current(q)' = Current(q)
  BY DEF Current
<1>3. Current(p)[1] = p /\ Current(p)[2] = count[p] /\ count[p] <= count[p]
  <2>1. count[p] \in 0 .. MaxEvents
    BY DEF Typed
  <2> QED BY <2>1 DEF Current
<1> QED BY <1>1, <1>2, <1>3 DEF Storing

\* Where the steps of a publish leave its publisher.
LEMMA FanOutMoves ==
    ASSUME Typed, NEW p \in Publishers, BeginFanOut(p)
    PROVE  /\ \A q \in Publishers \ {p} : pc'[q] = pc[q] /\ todo'[q] = todo[q]
           /\ todo'[p] = {s \in subscribed : Hears(s, Current(p))}
           /\ pc'[p] \in {"calling", "idle", "done"}
           /\ pc'[p] = "calling" <=> todo'[p] # {}
<1> DEFINE those == {s \in subscribed : Hears(s, Current(p))}
<1>1. /\ todo' = [todo EXCEPT ![p] = those]
      /\ pc' = [pc EXCEPT ![p] = AfterCalls(p, those)]
  BY DEF BeginFanOut
<1> HIDE DEF those
<1>2. AfterCalls(p, those) \in {"calling", "idle", "done"}
  BY DEF AfterCalls
<1>3. AfterCalls(p, those) = "calling" <=> those # {}
  BY DEF AfterCalls
<1>4. pc'[p] = AfterCalls(p, those) /\ todo'[p] = those
  BY <1>1 DEF Typed
<1> QED BY <1>1, <1>2, <1>3, <1>4 DEF Typed, those

\* Every store: an event is stored by its last request and by nothing else.
LEMMA StoringStep == Typed /\ Walking /\ Storing /\ [Next]_vars => Storing'
<1> SUFFICES ASSUME Typed, Walking, Storing, [Next]_vars PROVE Storing'
  OBVIOUS
<1> USE DEF Ended
<1>1. ASSUME NEW p \in Publishers, TakeNumber(p) PROVE Storing'
  <2>1. /\ pc' = [pc EXCEPT ![p] = "store"] /\ UNCHANGED rows
        /\ count' = [count EXCEPT ![p] = @ + 1]
    BY <1>1 DEF TakeNumber
  <2>2. count \in [Publishers -> 0 .. MaxEvents] /\ pc \in [Publishers -> {"idle", "store", "list", "calling", "thread"} \cup Ended]
    BY DEF Typed
  <2>3. Log!Written' = Log!Written
    BY <2>1 DEF Log!Written
  <2>4. ASSUME NEW e \in Log!Written'
        PROVE  /\ e[2] <= count'[e[1]]
               /\ e[2] = count'[e[1]] => pc'[e[1]] \notin {"store", "thread"}
    <3>1. e[1] \in Publishers /\ e[2] \in 1 .. MaxEvents
      BY <2>3, <2>4, WrittenType
    <3>2. e[2] <= count[e[1]] /\ (e[2] = count[e[1]] => pc[e[1]] \notin {"store", "thread"})
      BY <2>3, <2>4 DEF Storing
    <3> QED BY <2>1, <2>2, <3>1, <3>2
  <2>5. ASSUME NEW q \in Publishers, pc'[q] \in {"list", "calling"}
        PROVE  Current(q)' \in Log!Written'
    <3>1. q # p /\ pc'[q] = pc[q] /\ count'[q] = count[q]
      BY <2>1, <2>2, <2>5
    <3> QED BY <2>3, <2>5, <3>1 DEF Storing, Current
  <2> QED BY <2>4, <2>5 DEF Storing
<1>2. ASSUME NEW p \in Publishers, StoreEvent(p) PROVE Storing'
  <2>1. UNCHANGED count /\ pc[p] = "store" /\ Write(p) /\ count[p] > 0
    BY <1>2 DEF StoreEvent, Walking
  <2>2. Log!Written' = Log!Written \cup {Current(p)}
    BY <2>1, WroteEvents
  <2>3. pc'[p] \notin {"store", "thread"} /\ \A q \in Publishers \ {p} : pc'[q] = pc[q]
    <3>1. CASE kind = "redis"
      <4>1. pc' = [pc EXCEPT ![p] = "list"]
        BY <1>2, <3>1 DEF StoreEvent
      <4> QED BY <4>1 DEF Typed
    <3>2. CASE kind # "redis"
      <4>1. BeginFanOut(p)
        BY <1>2, <3>2 DEF StoreEvent
      <4> QED BY <4>1, FanOutMoves
    <3> QED BY <3>1, <3>2
  <2> QED BY <2>1, <2>2, <2>3, StoringWritten
<1>3. ASSUME NEW p \in Publishers, ListExecution(p) PROVE Storing'
  <2>1. UNCHANGED <<count, rows>> /\ pc[p] = "list" /\ BeginFanOut(p)
    BY <1>3 DEF ListExecution
  <2>2. Log!Written' = Log!Written
    BY <2>1 DEF Log!Written
  <2> QED BY <2>1, <2>2, FanOutMoves, StoringUnwritten
<1>4. ASSUME NEW p \in Publishers, CallSubscriber(p) PROVE Storing'
  <2>1. /\ UNCHANGED <<count, rows>> /\ pc[p] = "calling"
        /\ \E to \in {"calling", "idle", "done"} : pc' = [pc EXCEPT ![p] = to]
    BY <1>4 DEF CallSubscriber, store, AfterCalls
  <2>2. Log!Written' = Log!Written
    BY <2>1 DEF Log!Written
  <2> QED BY <2>1, <2>2, StoringUnwritten DEF Typed
<1>5. ASSUME NEW p \in Publishers, Collide(p) PROVE Storing'
  <2>1. UNCHANGED <<count, rows>> /\ pc' = [pc EXCEPT ![p] = "collided"]
    BY <1>5 DEF Collide, store
  <2>2. Log!Written' = Log!Written
    BY <2>1 DEF Log!Written
  <2> QED BY <2>1, <2>2, StoringUnwritten DEF Typed
<1>6. ASSUME NEW p \in Publishers, RequestFails(p) PROVE Storing'
  <2>1. /\ UNCHANGED count /\ pc[p] \in {"store", "list"} /\ count[p] > 0
        /\ pc' = [pc EXCEPT ![p] = "broken"]
    BY <1>6 DEF RequestFails, Walking
  <2>2. CASE UNCHANGED rows
    <3>1. Log!Written' = Log!Written
      BY <2>2 DEF Log!Written
    <3> QED BY <2>1, <3>1, StoringUnwritten DEF Typed
  <2>3. CASE Write(p)
    <3>1. Log!Written' = Log!Written \cup {Current(p)}
      BY <2>1, <2>3, WroteEvents
    <3>2. pc'[p] = "broken" /\ \A q \in Publishers \ {p} : pc'[q] = pc[q]
      BY <2>1 DEF Typed
    <3> QED BY <2>1, <3>1, <3>2, StoringWritten
  <2> QED BY <1>6, <2>2, <2>3 DEF RequestFails
<1>7. ASSUME NEW p \in Publishers, CancelTask(p) PROVE Storing'
  <2>1. PICK to \in {"thread", "broken"} :
           pc' = [pc EXCEPT ![p] = to] /\ (to = "thread" => pc[p] = "store")
    BY <1>7 DEF CancelTask
  <2>2. UNCHANGED <<count, rows>>
    BY <1>7 DEF CancelTask, store
  <2>3. Log!Written' = Log!Written
    BY <2>2 DEF Log!Written
  <2> QED BY <2>1, <2>2, <2>3, StoringUnwritten DEF Typed
<1>8. ASSUME NEW p \in Publishers, ThreadStores(p) PROVE Storing'
  <2>1. /\ UNCHANGED count /\ pc[p] = "thread" /\ Write(p) /\ count[p] > 0
        /\ pc' = [pc EXCEPT ![p] = "broken"]
    BY <1>8 DEF ThreadStores, Walking
  <2>2. Log!Written' = Log!Written \cup {Current(p)}
    BY <2>1, WroteEvents
  <2>3. pc'[p] = "broken" /\ \A q \in Publishers \ {p} : pc'[q] = pc[q]
    BY <2>1 DEF Typed
  <2> QED BY <2>1, <2>2, <2>3, StoringWritten
<1>9. ASSUME NEW x \in Publishers, Crash(x) PROVE Storing'
  <2>1. /\ UNCHANGED <<count, rows>>
        /\ pc' = [p \in Publishers |->
                    IF Home(p) = x /\ pc[p] \notin Ended THEN "broken" ELSE pc[p]]
    BY <1>9 DEF Crash, store
  <2>2. Log!Written' = Log!Written
    BY <2>1 DEF Log!Written
  <2> QED BY <2>1, <2>2, StoringUnwritten
<1>10. ASSUME NEW s \in Subscribers, Unsubscribe(s) PROVE Storing'
  <2>1. UNCHANGED <<count, rows, pc>>
    BY <1>10 DEF Unsubscribe, store
  <2>2. Log!Written' = Log!Written
    BY <2>1 DEF Log!Written
  <2> QED BY <2>1, <2>2, StoringUnwritten
<1>11. CASE UNCHANGED vars
  <2>1. UNCHANGED <<count, rows, pc>>
    BY <1>11 DEF vars, store
  <2>2. Log!Written' = Log!Written
    BY <2>1 DEF Log!Written
  <2> QED BY <2>1, <2>2, StoringUnwritten
<1> QED BY <1>1, <1>2, <1>3, <1>4, <1>5, <1>6, <1>7, <1>8, <1>9, <1>10, <1>11
    DEF Next, Step, Disturb, Processes

\* The events a publish has finished are its publisher's, up to the current.
LEMMA FinishedIs ==
    ASSUME Typed, NEW p \in Publishers, NEW e
    PROVE  e \in Finished(p) <=>
               \E k \in 1 .. MaxEvents : /\ e = <<p, k>> /\ k <= count[p]
                                         /\ k = count[p] => pc[p] \in {"idle", "done"}
<1> DEFINE n == IF pc[p] \in {"idle", "done"} THEN count[p] ELSE count[p] - 1
<1>1. count[p] \in 0 .. MaxEvents
  BY DEF Typed
<1>2. \A k : k \in 1 .. n
          <=> /\ k \in 1 .. MaxEvents /\ k <= count[p]
              /\ k = count[p] => pc[p] \in {"idle", "done"}
  BY <1>1, SomeEvents
<1>3. Finished(p) = {<<p, k>> : k \in 1 .. n}
  BY DEF Finished
<1> HIDE DEF n
<1> QED BY <1>2, <1>3

\* The same of the state after a step.
LEMMA FinishedIsNext ==
    ASSUME Typed', NEW p \in Publishers, NEW e
    PROVE  e \in Finished(p)' <=>
               \E k \in 1 .. MaxEvents : /\ e = <<p, k>> /\ k <= count'[p]
                                         /\ k = count'[p] => pc'[p] \in {"idle", "done"}
<1> DEFINE n == IF pc'[p] \in {"idle", "done"} THEN count'[p] ELSE count'[p] - 1
<1>1. count'[p] \in 0 .. MaxEvents
  BY DEF Typed
<1>2. \A k : k \in 1 .. n
          <=> /\ k \in 1 .. MaxEvents /\ k <= count'[p]
              /\ k = count'[p] => pc'[p] \in {"idle", "done"}
  BY <1>1, SomeEvents
<1>3. Finished(p)' = {<<p, k>> : k \in 1 .. n}
  BY DEF Finished
<1> HIDE DEF n
<1> QED BY <1>2, <1>3

\* Nobody is called and no publish comes further: appends that fail, collide or
\* go on to another request, crashes, and subscribers that leave.
LEMMA HearingQuiet ==
    ASSUME Typed, Typed', HeardOnce, HeardAll, Listing,
           UNCHANGED <<kind, wanted, count, todo, heard, listed>>,
           subscribed' \subseteq subscribed, Log!Written \subseteq Log!Written',
           \A p \in Publishers : \/ pc'[p] = pc[p]
                                 \/ pc'[p] \in {"thread", "broken", "collided"}
                                 \/ pc[p] = "store" /\ pc'[p] = "list"
    PROVE  HeardOnce' /\ HeardAll' /\ Listing'
<1>1. \A p \in Publishers : \A e \in Finished(p)' : e \in Finished(p)
  <2> TAKE p \in Publishers
  <2> TAKE e \in Finished(p)'
  <2>1. PICK k \in 1 .. MaxEvents : /\ e = <<p, k>> /\ k <= count'[p]
                                    /\ k = count'[p] => pc'[p] \in {"idle", "done"}
    BY FinishedIsNext
  <2>2. k = count[p] => pc[p] \in {"idle", "done"}
    BY <2>1
  <2> QED BY <2>1, <2>2, FinishedIs
<1>2. /\ \A s, e : Hears(s, e)' = Hears(s, e)
      /\ \A p \in Publishers : Current(p)' = Current(p)
  BY DEF Hears, Current
<1>3. HeardOnce'
  <2> SUFFICES ASSUME NEW s \in Subscribers
               PROVE  /\ IsInjective(heard[s])
                      /\ \A e \in Range(heard[s]) :
                             /\ Hears(s, e) /\ e \in Log!Written' /\ e[2] <= count[e[1]]
                             /\ e[2] = count[e[1]] =>
                                    /\ pc'[e[1]] \notin {"store", "list"}
                                    /\ pc'[e[1]] = "calling" => s \notin todo[e[1]]
                      /\ \A p \in Publishers : pc'[p] = "calling" /\ s \in todo[p] => Hears(s, Current(p))
    BY <1>2 DEF HeardOnce
  <2>1. IsInjective(heard[s])
    BY DEF HeardOnce
  <2>2. ASSUME NEW e \in Range(heard[s])
        PROVE  /\ Hears(s, e) /\ e \in Log!Written' /\ e[2] <= count[e[1]]
               /\ e[2] = count[e[1]] =>
                      /\ pc'[e[1]] \notin {"store", "list"}
                      /\ pc'[e[1]] = "calling" => s \notin todo[e[1]]
    <3>1. /\ Hears(s, e) /\ e \in Log!Written /\ e[2] <= count[e[1]]
          /\ e[2] = count[e[1]] => /\ pc[e[1]] \notin {"store", "list"}
                                   /\ pc[e[1]] = "calling" => s \notin todo[e[1]]
      BY <2>2 DEF HeardOnce
    <3>2. e[1] \in Publishers
      BY <3>1, WrittenType
    <3> QED BY <3>1, <3>2
  <2>3. \A p \in Publishers : pc'[p] = "calling" /\ s \in todo[p] => Hears(s, Current(p))
    BY DEF HeardOnce
  <2> QED BY <2>1, <2>2, <2>3
<1>4. HeardAll'
  BY <1>1, <1>2 DEF HeardAll
<1>5. Listing'
  BY <1>1 DEF Listing
<1> QED BY <1>3, <1>4, <1>5

\* A publisher begins its next event, of which nobody can have heard.
LEMMA HearingTake ==
    ASSUME Typed, Typed', HeardOnce, HeardAll, Listing,
           NEW p \in Publishers, TakeNumber(p)
    PROVE  HeardOnce' /\ HeardAll' /\ Listing'
<1>1. /\ UNCHANGED <<kind, wanted, rows, todo, heard, listed, subscribed>>
      /\ pc[p] = "idle" /\ pc' = [pc EXCEPT ![p] = "store"]
      /\ count' = [count EXCEPT ![p] = @ + 1]
  BY DEF TakeNumber, fixed
<1>2. /\ pc'[p] = "store" /\ count'[p] = count[p] + 1 /\ count[p] \in 0 .. MaxEvents
      /\ \A q \in Publishers \ {p} : pc'[q] = pc[q] /\ count'[q] = count[q]
  BY <1>1 DEF Typed
<1>3. \A q \in Publishers : \A e \in Finished(q)' : e \in Finished(q)
  <2> TAKE q \in Publishers
  <2> TAKE e \in Finished(q)'
  <2>1. PICK k \in 1 .. MaxEvents : /\ e = <<q, k>> /\ k <= count'[q]
                                    /\ k = count'[q] => pc'[q] \in {"idle", "done"}
    BY FinishedIsNext
  <2>2. k <= count[q] /\ (k = count[q] => pc[q] \in {"idle", "done"})
    BY <1>1, <1>2, <2>1
  <2> QED BY <2>1, <2>2, FinishedIs
<1>4. /\ Log!Written' = Log!Written /\ \A s, e : Hears(s, e)' = Hears(s, e)
      /\ \A q \in Publishers \ {p} : Current(q)' = Current(q)
  BY <1>1, <1>2 DEF Hears, Current, Log!Written
<1>5. HeardOnce'
  <2> SUFFICES ASSUME NEW s \in Subscribers
               PROVE  /\ IsInjective(heard[s])
                      /\ \A e \in Range(heard[s]) :
                             /\ Hears(s, e) /\ e \in Log!Written /\ e[2] <= count'[e[1]]
                             /\ e[2] = count'[e[1]] =>
                                    /\ pc'[e[1]] \notin {"store", "list"}
                                    /\ pc'[e[1]] = "calling" => s \notin todo[e[1]]
                      /\ \A q \in Publishers :
                             pc'[q] = "calling" /\ s \in todo[q] => Hears(s, Current(q)')
    BY <1>1, <1>4 DEF HeardOnce, Hears
  <2>1. IsInjective(heard[s])
    BY DEF HeardOnce
  <2>2. ASSUME NEW e \in Range(heard[s])
        PROVE  /\ Hears(s, e) /\ e \in Log!Written /\ e[2] <= count'[e[1]]
               /\ e[2] = count'[e[1]] =>
                      /\ pc'[e[1]] \notin {"store", "list"}
                      /\ pc'[e[1]] = "calling" => s \notin todo[e[1]]
    <3>1. /\ Hears(s, e) /\ e \in Log!Written /\ e[2] <= count[e[1]]
          /\ e[2] = count[e[1]] => /\ pc[e[1]] \notin {"store", "list"}
                                   /\ pc[e[1]] = "calling" => s \notin todo[e[1]]
      BY <2>2 DEF HeardOnce
    <3>2. e[1] \in Publishers /\ e[2] \in 1 .. MaxEvents
      BY <3>1, WrittenType
    <3>3. CASE e[1] = p
      BY <1>2, <3>1, <3>2, <3>3
    <3>4. CASE e[1] # p
      BY <1>2, <3>1, <3>2, <3>4
    <3> QED BY <3>3, <3>4
  <2>3. \A q \in Publishers : pc'[q] = "calling" /\ s \in todo[q] => Hears(s, Current(q)')
    BY <1>2, <1>4 DEF HeardOnce
  <2> QED BY <2>1, <2>2, <2>3
<1>6. HeardAll'
  <2> SUFFICES ASSUME NEW s \in subscribed, NEW q \in Publishers
               PROVE  /\ \A e \in Finished(q)' : Hears(s, e) => e \in Range(heard[s])
                      /\ pc'[q] = "calling" /\ Hears(s, Current(q)') =>
                             s \in todo[q] \/ Current(q)' \in Range(heard[s])
    BY <1>1, <1>4 DEF HeardAll, Hears
  <2>1. \A e \in Finished(q)' : Hears(s, e) => e \in Range(heard[s])
    BY <1>3 DEF HeardAll
  <2>2. ASSUME pc'[q] = "calling", Hears(s, Current(q)')
        PROVE  s \in todo[q] \/ Current(q)' \in Range(heard[s])
    <3>1. q # p /\ pc[q] = "calling" /\ Current(q)' = Current(q)
      BY <1>2, <1>4, <2>2
    <3> QED BY <2>2, <3>1 DEF HeardAll
  <2> QED BY <2>1, <2>2
<1>7. Listing'
  BY <1>1, <1>2, <1>3 DEF Listing
<1> QED BY <1>5, <1>6, <1>7

\* An append has returned: the subscribers there are have not heard of the
\* event, and those who want it are called.
LEMMA HearingFanOut ==
    ASSUME Typed, Typed', HeardOnce, HeardAll, Listing,
           NEW p \in Publishers, BeginFanOut(p), pc[p] \in {"store", "list"}, count[p] > 0,
           UNCHANGED <<kind, wanted, count, subscribed, heard>>,
           Log!Written \subseteq Log!Written',
           listed => listed', kind = "redis" => listed'
    PROVE  HeardOnce' /\ HeardAll' /\ Listing'
<1>1. /\ \A q \in Publishers \ {p} : pc'[q] = pc[q] /\ todo'[q] = todo[q]
      /\ todo'[p] = {s \in subscribed : Hears(s, Current(p))}
      /\ pc'[p] \in {"calling", "idle", "done"}
      /\ pc'[p] = "calling" <=> todo'[p] # {}
  BY FanOutMoves
<1>2. /\ \A s, e : Hears(s, e)' = Hears(s, e)
      /\ \A q \in Publishers : Current(q)' = Current(q)
  BY DEF Hears, Current
<1>3. ASSUME NEW q \in Publishers, NEW e \in Finished(q)'
      PROVE  e \in Finished(q) \/ (q = p /\ e = Current(p) /\ pc'[p] # "calling")
  <2>1. PICK k \in 1 .. MaxEvents : /\ e = <<q, k>> /\ k <= count'[q]
                                    /\ k = count'[q] => pc'[q] \in {"idle", "done"}
    BY <1>3, FinishedIsNext
  <2>2. CASE q = p /\ k = count[p]
    BY <2>1, <2>2 DEF Current
  <2>3. CASE ~ (q = p /\ k = count[p])
    <3>1. k <= count[q] /\ (k = count[q] => pc[q] \in {"idle", "done"})
      BY <1>1, <2>1, <2>3
    <3> QED BY <2>1, <3>1, FinishedIs
  <2> QED BY <2>2, <2>3
<1>4. HeardOnce'
  <2> SUFFICES ASSUME NEW s \in Subscribers
               PROVE  /\ IsInjective(heard[s])
                      /\ \A e \in Range(heard[s]) :
                             /\ Hears(s, e) /\ e \in Log!Written' /\ e[2] <= count[e[1]]
                             /\ e[2] = count[e[1]] =>
                                    /\ pc'[e[1]] \notin {"store", "list"}
                                    /\ pc'[e[1]] = "calling" => s \notin todo'[e[1]]
                      /\ \A q \in Publishers :
                             pc'[q] = "calling" /\ s \in todo'[q] => Hears(s, Current(q))
    BY <1>2 DEF HeardOnce, Hears
  <2>1. IsInjective(heard[s])
    BY DEF HeardOnce
  <2>2. ASSUME NEW e \in Range(heard[s])
        PROVE  /\ Hears(s, e) /\ e \in Log!Written' /\ e[2] <= count[e[1]]
               /\ e[2] = count[e[1]] =>
                      /\ pc'[e[1]] \notin {"store", "list"}
                      /\ pc'[e[1]] = "calling" => s \notin todo'[e[1]]
    <3>1. /\ Hears(s, e) /\ e \in Log!Written /\ e[2] <= count[e[1]]
          /\ e[2] = count[e[1]] => /\ pc[e[1]] \notin {"store", "list"}
                                   /\ pc[e[1]] = "calling" => s \notin todo[e[1]]
      BY <2>2 DEF HeardOnce
    <3>2. e[1] \in Publishers
      BY <3>1, WrittenType
    <3>3. e[2] = count[e[1]] => e[1] # p
      BY <3>1
    <3> QED BY <1>1, <3>1, <3>2, <3>3
  <2>3. ASSUME NEW q \in Publishers, pc'[q] = "calling", s \in todo'[q]
        PROVE  Hears(s, Current(q))
    <3>1. CASE q = p
      BY <1>1, <2>3, <3>1
    <3>2. CASE q # p
      BY <1>1, <2>3, <3>2 DEF HeardOnce
    <3> QED BY <3>1, <3>2
  <2> QED BY <2>1, <2>2, <2>3
<1>5. HeardAll'
  <2> SUFFICES ASSUME NEW s \in subscribed, NEW q \in Publishers
               PROVE  /\ \A e \in Finished(q)' : Hears(s, e) => e \in Range(heard[s])
                      /\ pc'[q] = "calling" /\ Hears(s, Current(q)) =>
                             s \in todo'[q] \/ Current(q) \in Range(heard[s])
    BY <1>2 DEF HeardAll, Hears
  <2>1. ASSUME NEW e \in Finished(q)', Hears(s, e) PROVE e \in Range(heard[s])
    <3>1. CASE e \in Finished(q)
      BY <2>1, <3>1 DEF HeardAll
    <3>2. CASE q = p /\ e = Current(p) /\ pc'[p] # "calling"
      BY <1>1, <2>1, <3>2
    <3> QED BY <1>3, <2>1, <3>1, <3>2
  <2>2. ASSUME pc'[q] = "calling", Hears(s, Current(q))
        PROVE  s \in todo'[q] \/ Current(q) \in Range(heard[s])
    <3>1. CASE q = p
      BY <1>1, <2>2, <3>1
    <3>2. CASE q # p
      BY <1>1, <2>2, <3>2 DEF HeardAll
    <3> QED BY <3>1, <3>2
  <2> QED BY <2>1, <2>2
<1>6. Listing'
  <2> SUFFICES ASSUME kind # "redis", kind' = "redis" PROVE FALSE
    BY DEF Listing
  <2> QED OBVIOUS
<1> QED BY <1>4, <1>5, <1>6

\* The next subscriber is called: it has not heard of the event before.
LEMMA HearingCall ==
    ASSUME Typed, Typed', Walking, Storing, HeardOnce, HeardAll, Listing,
           NEW p \in Publishers, CallSubscriber(p)
    PROVE  HeardOnce' /\ HeardAll' /\ Listing'
<1> DEFINE s == Min(todo[p])
<1>1. pc[p] = "calling" /\ todo[p] # {} /\ s \in todo[p] /\ s \in Subscribers
  <2>1. pc[p] = "calling"
    BY DEF CallSubscriber
  <2>2. todo[p] # {}
    BY <2>1 DEF Walking
  <2> QED BY <2>1, <2>2, NextSubscriber
<1>2. /\ UNCHANGED <<kind, wanted, rows, listed, count, subscribed>>
      /\ heard' = [heard EXCEPT ![s] = Append(@, Current(p))]
      /\ todo' = [todo EXCEPT ![p] = todo[p] \ {s}]
      /\ pc' = [pc EXCEPT ![p] = AfterCalls(p, todo[p] \ {s})]
  BY DEF CallSubscriber, StillToCall, fixed, store
<1> HIDE DEF s
<1>3. /\ \A q \in Publishers \ {p} : pc'[q] = pc[q] /\ todo'[q] = todo[q]
      /\ todo'[p] = todo[p] \ {s}
      /\ pc'[p] = "calling" => todo[p] \ {s} # {}
      /\ pc'[p] # "calling" => todo[p] = {s}
      /\ pc'[p] \in {"calling", "idle", "done"}
  <2>1. /\ AfterCalls(p, todo[p] \ {s}) \in {"calling", "idle", "done"}
        /\ AfterCalls(p, todo[p] \ {s}) = "calling" <=> todo[p] \ {s} # {}
    BY DEF AfterCalls
  <2>2. /\ pc'[p] = AfterCalls(p, todo[p] \ {s}) /\ todo'[p] = todo[p] \ {s}
        /\ \A q \in Publishers \ {p} : pc'[q] = pc[q] /\ todo'[q] = todo[q]
    BY <1>2 DEF Typed
  <2> QED BY <1>1, <2>1, <2>2
<1>4. /\ Log!Written' = Log!Written /\ \A t, e : Hears(t, e)' = Hears(t, e)
      /\ \A q \in Publishers : Current(q)' = Current(q)
  BY <1>2 DEF Hears, Current, Log!Written
<1>5. /\ Current(p) \in Log!Written /\ Current(p)[1] = p /\ Current(p)[2] = count[p]
      /\ Current(p) \in Event /\ count[p] \in 1 .. MaxEvents
  <2>1. count[p] \in 1 .. MaxEvents
    <3>1. count[p] \in 0 .. MaxEvents
      BY DEF Typed
    <3> QED BY <1>1, <3>1 DEF Walking
  <2> QED BY <1>1, <2>1 DEF Current, Storing, Event
<1>6. Current(p) \notin Range(heard[s])
  BY <1>1, <1>5 DEF HeardOnce
<1>7. /\ \A t \in Subscribers \ {s} : heard'[t] = heard[t]
      /\ heard'[s] = Append(heard[s], Current(p))
      /\ Range(heard'[s]) = Range(heard[s]) \cup {Current(p)}
      /\ IsInjective(heard[s]) => IsInjective(heard'[s])
  <2>1. heard \in [Subscribers -> Seq(Event)]
    BY DEF Typed
  <2>2. /\ \A t \in Subscribers \ {s} : heard'[t] = heard[t]
        /\ heard'[s] = Append(heard[s], Current(p)) /\ heard[s] \in Seq(Event)
    BY <1>1, <1>2, <2>1
  <2>3. /\ Range(Append(heard[s], Current(p))) = Range(heard[s]) \cup {Current(p)}
        /\ IsInjective(heard[s]) => IsInjective(Append(heard[s], Current(p)))
    BY <1>5, <1>6, <2>2, AppendRange
  <2> QED BY <2>2, <2>3
<1>8. ASSUME NEW q \in Publishers, NEW e \in Finished(q)'
      PROVE  e \in Finished(q) \/ (q = p /\ e = Current(p) /\ pc'[p] # "calling")
  <2>1. PICK k \in 1 .. MaxEvents : /\ e = <<q, k>> /\ k <= count'[q]
                                    /\ k = count'[q] => pc'[q] \in {"idle", "done"}
    BY <1>8, FinishedIsNext
  <2>2. CASE q = p /\ k = count[p]
    BY <1>2, <2>1, <2>2 DEF Current
  <2>3. CASE ~ (q = p /\ k = count[p])
    <3>1. k <= count[q] /\ (k = count[q] => pc[q] \in {"idle", "done"})
      BY <1>2, <1>3, <2>1, <2>3
    <3> QED BY <2>1, <3>1, FinishedIs
  <2> QED BY <2>2, <2>3
<1>9. HeardOnce'
  <2> SUFFICES ASSUME NEW t \in Subscribers
               PROVE  /\ IsInjective(heard'[t])
                      /\ \A e \in Range(heard'[t]) :
                             /\ Hears(t, e) /\ e \in Log!Written /\ e[2] <= count[e[1]]
                             /\ e[2] = count[e[1]] =>
                                    /\ pc'[e[1]] \notin {"store", "list"}
                                    /\ pc'[e[1]] = "calling" => t \notin todo'[e[1]]
                      /\ \A q \in Publishers :
                             pc'[q] = "calling" /\ t \in todo'[q] => Hears(t, Current(q))
    BY <1>2, <1>4 DEF HeardOnce, Hears
  <2>1. IsInjective(heard'[t])
    BY <1>7 DEF HeardOnce
  <2>2. ASSUME NEW e \in Range(heard'[t])
        PROVE  /\ Hears(t, e) /\ e \in Log!Written /\ e[2] <= count[e[1]]
               /\ e[2] = count[e[1]] =>
                      /\ pc'[e[1]] \notin {"store", "list"}
                      /\ pc'[e[1]] = "calling" => t \notin todo'[e[1]]
    <3>1. CASE e \in Range(heard[t])
      <4>1. /\ Hears(t, e) /\ e \in Log!Written /\ e[2] <= count[e[1]]
            /\ e[2] = count[e[1]] => /\ pc[e[1]] \notin {"store", "list"}
                                     /\ pc[e[1]] = "calling" => t \notin todo[e[1]]
        BY <3>1 DEF HeardOnce
      <4>2. e[1] \in Publishers
        BY <4>1, WrittenType
      <4> QED BY <1>1, <1>3, <4>1, <4>2
    <3>2. CASE t = s /\ e = Current(p)
      <4>1. Hears(s, Current(p))
        BY <1>1 DEF HeardOnce
      <4> QED BY <1>3, <1>5, <3>2, <4>1
    <3> QED BY <1>7, <2>2, <3>1, <3>2
  <2>3. ASSUME NEW q \in Publishers, pc'[q] = "calling", t \in todo'[q]
        PROVE  Hears(t, Current(q))
    <3>1. pc[q] = "calling" /\ t \in todo[q]
      BY <1>1, <1>3, <2>3
    <3> QED BY <3>1 DEF HeardOnce
  <2>4. \A e \in Range(heard'[t]) :
            /\ Hears(t, e) /\ e \in Log!Written /\ e[2] <= count[e[1]]
            /\ e[2] = count[e[1]] => /\ pc'[e[1]] \notin {"store", "list"}
                                     /\ pc'[e[1]] = "calling" => t \notin todo'[e[1]]
    BY ONLY <2>2
  <2>5. \A q \in Publishers : pc'[q] = "calling" /\ t \in todo'[q] => Hears(t, Current(q))
    BY ONLY <2>3
  <2> QED BY ONLY <2>1, <2>4, <2>5
<1>10. HeardAll'
  <2>0. /\ wanted' = wanted /\ subscribed' = subscribed
        /\ \A q \in Publishers : Current(q)' = Current(q)
    BY ONLY <1>2, <1>4
  <2> SUFFICES ASSUME NEW t \in subscribed, NEW q \in Publishers
               PROVE  /\ \A e \in Finished(q)' : Hears(t, e) => e \in Range(heard'[t])
                      /\ pc'[q] = "calling" /\ Hears(t, Current(q)) =>
                             t \in todo'[q] \/ Current(q) \in Range(heard'[t])
    BY <2>0 DEF HeardAll, Hears
  <2>1. t \in Subscribers /\ Range(heard[t]) \subseteq Range(heard'[t])
    BY <1>7 DEF Typed
  <2>2. Hears(t, Current(p)) => t \in todo[p] \/ Current(p) \in Range(heard[t])
    BY <1>1 DEF HeardAll
  <2>3. ASSUME NEW e \in Finished(q)', Hears(t, e) PROVE e \in Range(heard'[t])
    <3>1. CASE e \in Finished(q)
      BY <2>1, <2>3, <3>1 DEF HeardAll
    <3>2. CASE q = p /\ e = Current(p) /\ pc'[p] # "calling"
      BY <1>3, <1>7, <2>1, <2>2, <2>3, <3>2
    <3> QED BY <1>8, <2>3, <3>1, <3>2
  <2>4. ASSUME pc'[q] = "calling", Hears(t, Current(q))
        PROVE  t \in todo'[q] \/ Current(q) \in Range(heard'[t])
    <3>1. CASE q = p
      BY <1>3, <1>7, <2>1, <2>2, <2>4, <3>1
    <3>2. CASE q # p
      <4>1. t \in todo[q] \/ Current(q) \in Range(heard[t])
        BY <1>3, <2>4, <3>2 DEF HeardAll
      <4> QED BY <1>3, <2>1, <3>2, <4>1
    <3> QED BY <3>1, <3>2
  <2> QED BY <2>3, <2>4
<1>11. Listing'
  BY <1>1, <1>2, <1>3, <1>8 DEF Listing
<1> QED BY <1>9, <1>10, <1>11

\* Every store: each step of a publish leaves every subscriber with what it
\* wants of the finished events, once.
LEMMA HearingStep ==
    /\ Typed /\ Walking /\ Storing /\ HeardOnce /\ HeardAll /\ Listing
    /\ Typed' /\ [Next]_vars
    => HeardOnce' /\ HeardAll' /\ Listing'
<1> SUFFICES ASSUME Typed, Walking, Storing, HeardOnce, HeardAll, Listing, Typed', [Next]_vars
             PROVE  HeardOnce' /\ HeardAll' /\ Listing'
  OBVIOUS
<1> USE DEF Ended
<1>1. ASSUME NEW p \in Publishers, TakeNumber(p) PROVE HeardOnce' /\ HeardAll' /\ Listing'
  BY <1>1, HearingTake
<1>2. ASSUME NEW p \in Publishers, StoreEvent(p) PROVE HeardOnce' /\ HeardAll' /\ Listing'
  <2>1. /\ UNCHANGED <<kind, wanted, listed, count, subscribed, heard>>
        /\ pc[p] = "store" /\ count[p] > 0 /\ Write(p)
    BY <1>2 DEF StoreEvent, fixed, Walking
  <2>2. Log!Written \subseteq Log!Written'
    BY <2>1, WroteEvents
  <2>3. CASE kind = "redis"
    <3>1. UNCHANGED todo /\ pc' = [pc EXCEPT ![p] = "list"]
      BY <1>2, <2>3 DEF StoreEvent
    <3>2. \A q \in Publishers : pc'[q] = pc[q] \/ (pc[q] = "store" /\ pc'[q] = "list")
      BY <2>1, <3>1 DEF Typed
    <3> QED BY <2>1, <2>2, <3>1, <3>2, HearingQuiet
  <2>4. CASE kind # "redis"
    <3>1. BeginFanOut(p)
      BY <1>2, <2>4 DEF StoreEvent
    <3> QED BY <2>1, <2>2, <2>4, <3>1, HearingFanOut
  <2> QED BY <2>3, <2>4
<1>3. ASSUME NEW p \in Publishers, ListExecution(p) PROVE HeardOnce' /\ HeardAll' /\ Listing'
  <2>1. /\ UNCHANGED <<kind, wanted, rows, count, subscribed, heard>>
        /\ pc[p] = "list" /\ count[p] > 0 /\ BeginFanOut(p) /\ listed'
    BY <1>3 DEF ListExecution, fixed, Walking
  <2>2. Log!Written \subseteq Log!Written'
    BY <2>1 DEF Log!Written
  <2> QED BY <2>1, <2>2, HearingFanOut
<1>4. ASSUME NEW p \in Publishers, CallSubscriber(p) PROVE HeardOnce' /\ HeardAll' /\ Listing'
  BY <1>4, HearingCall
<1>5. ASSUME UNCHANGED <<kind, wanted, listed, rows, count, todo, heard>>,
             subscribed' \subseteq subscribed,
             \A p \in Publishers : pc'[p] = pc[p] \/ pc'[p] \in {"thread", "broken", "collided"}
      PROVE  HeardOnce' /\ HeardAll' /\ Listing'
  <2>1. Log!Written \subseteq Log!Written'
    BY <1>5 DEF Log!Written
  <2> QED BY <1>5, <2>1, HearingQuiet
<1>6. ASSUME NEW p \in Publishers, Collide(p) PROVE HeardOnce' /\ HeardAll' /\ Listing'
  <2>1. /\ UNCHANGED <<kind, wanted, listed, rows, count, todo, heard, subscribed>>
        /\ pc' = [pc EXCEPT ![p] = "collided"]
    BY <1>6 DEF Collide, fixed, store
  <2>2. \A q \in Publishers : pc'[q] = pc[q] \/ pc'[q] = "collided"
    BY <2>1 DEF Typed
  <2> QED BY <1>5, <2>1, <2>2
<1>7. ASSUME NEW p \in Publishers, RequestFails(p) PROVE HeardOnce' /\ HeardAll' /\ Listing'
  <2>1. /\ UNCHANGED <<kind, wanted, listed, count, todo, heard, subscribed>>
        /\ pc' = [pc EXCEPT ![p] = "broken"] /\ pc[p] \in {"store", "list"} /\ count[p] > 0
    BY <1>7 DEF RequestFails, fixed, Walking
  <2>2. \A q \in Publishers : pc'[q] = pc[q] \/ pc'[q] = "broken"
    BY <2>1 DEF Typed
  <2>3. Log!Written \subseteq Log!Written'
    <3>1. CASE UNCHANGED rows
      BY <3>1 DEF Log!Written
    <3>2. CASE Write(p)
      BY <2>1, <3>2, WroteEvents
    <3> QED BY <1>7, <3>1, <3>2 DEF RequestFails
  <2> QED BY <2>1, <2>2, <2>3, HearingQuiet
<1>8. ASSUME NEW p \in Publishers, CancelTask(p) PROVE HeardOnce' /\ HeardAll' /\ Listing'
  <2>1. PICK to \in {"thread", "broken"} : pc' = [pc EXCEPT ![p] = to]
    BY <1>8 DEF CancelTask
  <2>2. UNCHANGED <<kind, wanted, listed, rows, count, todo, heard, subscribed>>
    BY <1>8 DEF CancelTask, fixed, store
  <2>3. \A q \in Publishers : pc'[q] = pc[q] \/ pc'[q] \in {"thread", "broken"}
    BY <2>1 DEF Typed
  <2> QED BY <1>5, <2>2, <2>3
<1>9. ASSUME NEW p \in Publishers, ThreadStores(p) PROVE HeardOnce' /\ HeardAll' /\ Listing'
  <2>1. /\ UNCHANGED <<kind, wanted, listed, count, todo, heard, subscribed>>
        /\ pc' = [pc EXCEPT ![p] = "broken"] /\ Write(p) /\ pc[p] = "thread" /\ count[p] > 0
    BY <1>9 DEF ThreadStores, fixed, Walking
  <2>2. \A q \in Publishers : pc'[q] = pc[q] \/ pc'[q] = "broken"
    BY <2>1 DEF Typed
  <2>3. Log!Written \subseteq Log!Written'
    BY <2>1, WroteEvents
  <2> QED BY <2>1, <2>2, <2>3, HearingQuiet
<1>10. ASSUME NEW x \in Publishers, Crash(x) PROVE HeardOnce' /\ HeardAll' /\ Listing'
  <2>1. /\ UNCHANGED <<kind, wanted, listed, rows, count, todo, heard, subscribed>>
        /\ pc' = [p \in Publishers |->
                    IF Home(p) = x /\ pc[p] \notin Ended THEN "broken" ELSE pc[p]]
    BY <1>10 DEF Crash, fixed, store
  <2> QED BY <1>5, <2>1
<1>11. ASSUME NEW s \in Subscribers, Unsubscribe(s) PROVE HeardOnce' /\ HeardAll' /\ Listing'
  <2>1. /\ UNCHANGED <<kind, wanted, listed, rows, count, todo, heard, pc>>
        /\ subscribed' = subscribed \ {s}
    BY <1>11 DEF Unsubscribe, fixed, store
  <2> QED BY <1>5, <2>1
<1>12. CASE UNCHANGED vars
  <2>1. UNCHANGED <<kind, wanted, listed, rows, count, todo, heard, subscribed, pc>>
    BY <1>12 DEF vars, fixed, store
  <2> QED BY <1>5, <2>1
<1> QED BY <1>1, <1>2, <1>3, <1>4, <1>6, <1>7, <1>8, <1>9, <1>10, <1>11, <1>12
    DEF Next, Step, Disturb, Processes

\* Nothing has been published at the start.
LEMMA PublishInit == Init => PublishInv
<1> SUFFICES ASSUME Init PROVE PublishInv
  OBVIOUS
<1> USE DEF Ended
<1>1. /\ rows = <<>> /\ counter = 0 /\ listed = FALSE /\ subscribed = Subscribers
      /\ pc = [p \in Publishers |-> "idle"] /\ count = [p \in Publishers |-> 0]
      /\ number = [p \in Publishers |-> 0] /\ todo = [p \in Publishers |-> {}]
      /\ heard = [s \in Subscribers |-> <<>>]
      /\ holder = [x \in Publishers |-> None]
      /\ together \in BOOLEAN /\ cancels \in BOOLEAN
      /\ kind = "memory" => together
      /\ kind \in {"memory", "jsonl"} => ~cancels
  BY DEF Init, Processes
<1>2. kind \in {"memory", "jsonl", "sqlite", "postgres", "redis"}
  BY EventStoresAssumption DEF Init, EventStoresAssumption
<1>3. Typed
  <2>1. rows \in Seq(StoredRow)
    BY <1>1
  <2>2. heard \in [Subscribers -> Seq(Event)]
    BY <1>1
  <2> QED BY <1>1, <1>2, <2>1, <2>2, SomeEvents DEF Typed
<1>4. Walking
  BY <1>1, SomeEvents DEF Walking
<1>5. Log!Written = {} /\ \A s \in Subscribers : Range(heard[s]) = {} /\ IsInjective(heard[s])
  BY <1>1 DEF Log!Written, Range, IsInjective
<1>6. \A p \in Publishers : Finished(p) = {}
  BY <1>1 DEF Finished
<1>7. Storing
  BY <1>1, <1>5 DEF Storing
<1>8. HeardOnce
  BY <1>1, <1>5 DEF HeardOnce
<1>9. HeardAll
  BY <1>1, <1>6 DEF HeardAll
<1>10. Listing
  BY <1>1, <1>6 DEF Listing
<1> QED BY <1>3, <1>4, <1>7, <1>8, <1>9, <1>10 DEF PublishInv

\* The invariant of publish holds of every store, whatever fails.
LEMMA PublishInvariant == Spec => []PublishInv
<1>1. PublishInv /\ [Next]_vars => PublishInv'
  BY TypedStep, StoringStep, HearingStep DEF PublishInv
<1> QED BY PublishInit, <1>1, PTL DEF Spec

\* The variables have their types (events/event.py:51, publisher.py:24): rows
\* are events of the publishers with a number, locks are held by publishers,
\* and what is still to be called are subscribers.
THEOREM TypeCorrect == Spec => []Typed
<1>1. PublishInv => Typed
  BY DEF PublishInv
<1> QED BY PublishInvariant, <1>1, PTL

\* publish (publisher.py:34), on any store, with any number of publishers,
\* processes, subscribers, failing requests, cancellations and crashes: a
\* subscriber that stays hears once of each event it wants, and only of stored
\* ones.
THEOREM SubscribersHear == Spec => []EveryoneHears
<1>1. PublishInv => EveryoneHears
  <2> SUFFICES ASSUME PublishInv PROVE EveryoneHears
    OBVIOUS
  <2>1. kind = "redis" /\ (\E p \in Publishers : Finished(p) # {}) => listed
    BY DEF PublishInv, Listing
  <2>2. ASSUME NEW s \in Subscribers
        PROVE  /\ IsInjective(heard[s])
               /\ \A e \in Range(heard[s]) : Hears(s, e) /\ e \in Log!Written
    BY DEF PublishInv, HeardOnce
  <2>3. ASSUME NEW s \in Subscribers, s \in subscribed, NEW p \in Publishers,
               NEW e \in Finished(p), Hears(s, e)
        PROVE  Contains(heard[s], e)
    <3>1. e \in Range(heard[s])
      BY <2>3 DEF PublishInv, HeardAll
    <3>2. heard[s] \in Seq(Event)
      BY DEF PublishInv, Typed
    <3> QED BY <3>1, <3>2, ContainsRange
  <2> QED BY <2>1, <2>2, <2>3 DEF EveryoneHears
<1> QED BY PublishInvariant, <1>1, PTL

-----------------------------------------------------------------------------
(* Every store is a log *)

\* A publisher's event is written: by its request, by one that fails after it
\* has taken effect, or by the thread of a cancelled task.
Writes(p) ==
    /\ pc[p] \in {"store", "thread"} /\ count[p] > 0 /\ MayInsert(p) /\ Write(p)
    /\ pc'[p] \notin {"store", "thread"}
    /\ \A q \in Publishers \ {p} : pc'[q] = pc[q]
    /\ UNCHANGED <<fixed, counter, count, number>>

\* Nothing is written and no number taken; who goes on has its event stored.
Rests ==
    /\ UNCHANGED <<fixed, rows, counter, count, number>>
    /\ \A q \in Publishers :
           \/ pc'[q] = pc[q]
           \/ pc'[q] = "thread" /\ pc[q] = "store"
           \/ /\ pc'[q] \notin {"store", "thread"}
              /\ pc'[q] = "idle" => pc[q] \in {"list", "calling"}

\* A step takes a number, writes an event or does neither.
LEMMA Steps ==
    ASSUME Typed, Walking, [Next]_vars
    PROVE  \/ \E p \in Publishers : TakeNumber(p) \/ Writes(p)
           \/ Rests
<1> USE DEF Ended
<1>1. ASSUME NEW p \in Publishers, NEW to, pc' = [pc EXCEPT ![p] = to],
             to \notin {"store", "thread"}, to = "idle" => pc[p] \in {"list", "calling"},
             UNCHANGED <<fixed, rows, counter, count, number>>
      PROVE  Rests
  BY <1>1 DEF Rests, Typed
<1>2. ASSUME NEW p \in Publishers, NEW to, pc' = [pc EXCEPT ![p] = to],
             to \notin {"store", "thread"}, UNCHANGED <<fixed, counter, count, number>>,
             pc[p] \in {"store", "thread"}, MayInsert(p), Write(p)
      PROVE  Writes(p)
  <2>1. pc'[p] = to /\ \A q \in Publishers \ {p} : pc'[q] = pc[q]
    BY <1>2 DEF Typed
  <2>2. count[p] > 0
    BY <1>2 DEF Walking
  <2> QED BY <1>2, <2>1, <2>2 DEF Writes
<1>3. ASSUME NEW p \in Publishers, BeginFanOut(p)
      PROVE  \E to \in {"calling", "idle", "done"} : pc' = [pc EXCEPT ![p] = to]
  BY <1>3 DEF BeginFanOut, AfterCalls
<1>4. ASSUME NEW p \in Publishers, StoreEvent(p) PROVE Writes(p)
  <2>1. /\ pc[p] = "store" /\ MayInsert(p) /\ Write(p)
        /\ UNCHANGED <<fixed, counter, count, number>>
        /\ pc' = [pc EXCEPT ![p] = "list"] \/ BeginFanOut(p)
    BY <1>4 DEF StoreEvent
  <2>2. PICK to \in {"list", "calling", "idle", "done"} : pc' = [pc EXCEPT ![p] = to]
    BY <1>3, <2>1
  <2> QED BY <1>2, <2>1, <2>2
<1>5. ASSUME NEW p \in Publishers, ListExecution(p) PROVE Rests
  <2>1. UNCHANGED <<fixed, rows, counter, count, number>> /\ BeginFanOut(p) /\ pc[p] = "list"
    BY <1>5 DEF ListExecution
  <2>2. PICK to \in {"calling", "idle", "done"} : pc' = [pc EXCEPT ![p] = to]
    BY <1>3, <2>1
  <2> QED BY <1>1, <2>1, <2>2
<1>6. ASSUME NEW p \in Publishers, CallSubscriber(p) PROVE Rests
  <2>1. UNCHANGED <<fixed, rows, counter, count, number>> /\ pc[p] = "calling"
    BY <1>6 DEF CallSubscriber, store
  <2>2. PICK to \in {"calling", "idle", "done"} : pc' = [pc EXCEPT ![p] = to]
    BY <1>6 DEF CallSubscriber, AfterCalls
  <2> QED BY <1>1, <2>1, <2>2
<1>7. ASSUME NEW p \in Publishers, Collide(p) PROVE Rests
  BY <1>1, <1>7 DEF Collide, store
<1>8. ASSUME NEW p \in Publishers, RequestFails(p) PROVE Writes(p) \/ Rests
  <2>1. /\ pc' = [pc EXCEPT ![p] = "broken"] /\ UNCHANGED <<fixed, counter, count, number>>
        /\ UNCHANGED rows \/ (pc[p] = "store" /\ MayInsert(p) /\ Write(p))
    BY <1>8 DEF RequestFails
  <2>2. PICK to \in {"broken"} : pc' = [pc EXCEPT ![p] = to]
    BY <2>1
  <2>3. CASE UNCHANGED rows
    BY <1>1, <2>1, <2>2, <2>3
  <2>4. CASE pc[p] = "store" /\ MayInsert(p) /\ Write(p)
    BY <1>2, <2>1, <2>2, <2>4
  <2> QED BY <2>1, <2>3, <2>4
<1>9. ASSUME NEW p \in Publishers, CancelTask(p) PROVE Rests
  <2>1. UNCHANGED <<fixed, rows, counter, count, number>>
    BY <1>9 DEF CancelTask, store
  <2>2. PICK to \in {"thread", "broken"} :
           pc' = [pc EXCEPT ![p] = to] /\ (to = "thread" => pc[p] = "store")
    BY <1>9 DEF CancelTask
  <2>3. pc'[p] = to /\ \A q \in Publishers \ {p} : pc'[q] = pc[q]
    BY <2>2 DEF Typed
  <2> QED BY <2>1, <2>2, <2>3 DEF Rests
<1>10. ASSUME NEW p \in Publishers, ThreadStores(p) PROVE Writes(p)
  <2>1. /\ pc[p] = "thread" /\ Write(p) /\ pc' = [pc EXCEPT ![p] = "broken"]
        /\ UNCHANGED <<fixed, counter, count, number>>
    BY <1>10 DEF ThreadStores
  <2>2. MayInsert(p)
    BY <2>1 DEF Walking, MayInsert
  <2>3. PICK to \in {"broken"} : pc' = [pc EXCEPT ![p] = to]
    BY <2>1
  <2> QED BY <1>2, <2>1, <2>2, <2>3
<1>11. ASSUME NEW x \in Publishers, Crash(x) PROVE Rests
  <2>1. /\ UNCHANGED <<fixed, rows, counter, count, number>>
        /\ pc' = [p \in Publishers |->
                    IF Home(p) = x /\ pc[p] \notin Ended THEN "broken" ELSE pc[p]]
    BY <1>11 DEF Crash, store
  <2>2. \A q \in Publishers : pc'[q] = pc[q] \/ pc'[q] = "broken"
    BY <2>1
  <2> QED BY <2>1, <2>2 DEF Rests
<1>12. ASSUME NEW s \in Subscribers, Unsubscribe(s) PROVE Rests
  BY <1>12 DEF Unsubscribe, store, Rests
<1>13. CASE UNCHANGED vars
  BY <1>13 DEF vars, store, Rests
<1> QED BY <1>4, <1>5, <1>6, <1>7, <1>8, <1>9, <1>10, <1>11, <1>12, <1>13
    DEF Next, Step, Disturb, Processes

\* The choices that are made once: with them what the store promises.
LEMMA PromiseKept ==
    ASSUME UNCHANGED fixed
    PROVE  Promise' = Promise /\ Locked' = Locked /\ \A p : Home(p)' = Home(p)
  BY DEF fixed, Promise, Locked, Home

\* asyncio.Lock (store.py:48, sqlite.py:32): one task of a process holds the
\* lock from its first request to its last, whatever ends it.
LEMMA LockingStep == Typed /\ Locking /\ [Next]_vars => Locking'
<1> SUFFICES ASSUME Typed, Locking, [Next]_vars, Locked',
                    NEW q \in Publishers, pc'[q] = "store"
             PROVE  holder'[Home(q)'] = q
  BY DEF Locking
<1> USE DEF Ended
<1>1. UNCHANGED fixed
  BY DEF Next, Step, Disturb, TakeNumber, StoreEvent, Collide, ListExecution, ThreadStores,
         CallSubscriber, RequestFails, CancelTask, Crash, Unsubscribe, vars
<1>2. Locked /\ Home(q)' = Home(q) /\ Home(q) \in Publishers
  BY <1>1, PromiseKept, HomeType
<1>3. pc[q] = "store" => holder[Home(q)] = q
  BY <1>2 DEF Locking
<1>4. holder \in [Publishers -> Publishers \cup {None}] /\ None \notin Publishers
  BY EventStoresAssumption DEF Typed, EventStoresAssumption
<1>5. SUFFICES holder'[Home(q)] = q
  BY <1>2
<1>6. ASSUME NEW p \in Publishers, TakeNumber(p) PROVE holder'[Home(q)] = q
  <2>1. /\ pc' = [pc EXCEPT ![p] = "store"] /\ holder[Home(p)] = None
        /\ holder' = [holder EXCEPT ![Home(p)] = p] /\ Home(p) \in Publishers
    BY <1>2, <1>6, HomeType DEF TakeNumber, MayNumber
  <2>2. CASE q = p
    BY <1>4, <2>1, <2>2
  <2>3. CASE q # p
    <3>1. pc[q] = "store"
      BY <2>1, <2>3 DEF Typed
    <3> QED BY <1>2, <1>3, <1>4, <2>1, <3>1
  <2> QED BY <2>2, <2>3
<1>7. ASSUME NEW p \in Publishers, holder' = Unlock(p),
             pc'[p] # "store", \A r \in Publishers \ {p} : pc'[r] = pc[r]
      PROVE  holder'[Home(q)] = q
  <2>1. q # p /\ holder[Home(q)] = q
    BY <1>3, <1>7
  <2> QED BY <1>2, <1>4, <1>7, <2>1 DEF Unlock
<1>8. ASSUME NEW p \in Publishers, StoreEvent(p) PROVE holder'[Home(q)] = q
  <2>1. holder' = Unlock(p) /\ (kind # "redis" => BeginFanOut(p)) /\ kind # "redis"
    BY <1>2, <1>8 DEF StoreEvent, Locked
  <2> QED BY <1>7, <2>1, FanOutMoves
<1>9. ASSUME NEW p \in Publishers, RequestFails(p) PROVE holder'[Home(q)] = q
  <2>1. holder' = Unlock(p) /\ pc' = [pc EXCEPT ![p] = "broken"]
    BY <1>9 DEF RequestFails, AfterFailure
  <2>2. pc'[p] # "store" /\ \A r \in Publishers \ {p} : pc'[r] = pc[r]
    BY <2>1 DEF Typed
  <2> QED BY <1>7, <2>1, <2>2
<1>10. ASSUME NEW p \in Publishers, CancelTask(p) PROVE holder'[Home(q)] = q
  <2>1. PICK to \in {"thread", "broken"} : pc' = [pc EXCEPT ![p] = to]
    BY <1>10 DEF CancelTask
  <2>2. pc'[p] # "store" /\ \A r \in Publishers \ {p} : pc'[r] = pc[r]
    BY <2>1 DEF Typed
  <2>3. holder' = Unlock(p)
    BY <1>10 DEF CancelTask
  <2> QED BY <1>7, <2>2, <2>3
<1>11. ASSUME NEW x \in Publishers, Crash(x) PROVE holder'[Home(q)] = q
  <2>1. /\ holder' = [holder EXCEPT ![x] = None]
        /\ pc' = [p \in Publishers |->
                    IF Home(p) = x /\ pc[p] \notin Ended THEN "broken" ELSE pc[p]]
    BY <1>11 DEF Crash
  <2>2. Home(q) # x /\ pc[q] = "store"
    BY <2>1
  <2> QED BY <1>2, <1>3, <1>4, <2>1, <2>2
<1>12. ASSUME UNCHANGED holder, pc'[q] = pc[q] PROVE holder'[Home(q)] = q
  BY <1>3, <1>12
<1>13. ASSUME NEW p \in Publishers,
              ListExecution(p) \/ CallSubscriber(p) \/ Collide(p) \/ ThreadStores(p)
       PROVE  holder'[Home(q)] = q
  <2>1. \E to \in {"calling", "idle", "done", "collided", "broken"} : pc' = [pc EXCEPT ![p] = to]
    BY <1>13 DEF ListExecution, BeginFanOut, AfterCalls, CallSubscriber, Collide, ThreadStores
  <2>2. UNCHANGED holder
    BY <1>13 DEF ListExecution, CallSubscriber, Collide, ThreadStores
  <2>3. pc'[q] = pc[q]
    BY <2>1 DEF Typed
  <2> QED BY <1>12, <2>2, <2>3
<1>14. ASSUME NEW s \in Subscribers, Unsubscribe(s) PROVE holder'[Home(q)] = q
  BY <1>12, <1>14 DEF Unsubscribe
<1>15. CASE UNCHANGED vars
  BY <1>12, <1>15 DEF vars
<1> QED BY <1>6, <1>8, <1>9, <1>10, <1>11, <1>13, <1>14, <1>15
    DEF Next, Step, Disturb, Processes

\* What there is to know of a step that takes a number.
LEMMA TakeFacts ==
    ASSUME Typed, NEW p \in Publishers, TakeNumber(p)
    PROVE  /\ UNCHANGED <<fixed, rows>> /\ MayNumber(p)
           /\ counter' = IF kind = "redis" THEN counter + 1 ELSE counter
           /\ number'[p] = NextNumber /\ pc'[p] = "store"
           /\ \A q \in Publishers \ {p} : number'[q] = number[q] /\ pc'[q] = pc[q]
           /\ Len(rows) \in Nat /\ DOMAIN rows = 1 .. Len(rows)
           /\ rows \in [1 .. Len(rows) -> StoredRow]
<1>1. /\ UNCHANGED <<fixed, rows>> /\ MayNumber(p)
      /\ counter' = IF kind = "redis" THEN counter + 1 ELSE counter
      /\ number' = [number EXCEPT ![p] = NextNumber]
      /\ pc' = [pc EXCEPT ![p] = "store"]
  BY DEF TakeNumber
<1>2. /\ number'[p] = NextNumber /\ pc'[p] = "store"
      /\ \A q \in Publishers \ {p} : number'[q] = number[q] /\ pc'[q] = pc[q]
  BY <1>1 DEF Typed
<1>3. Len(rows) \in Nat /\ DOMAIN rows = 1 .. Len(rows) /\ rows \in [1 .. Len(rows) -> StoredRow]
  BY LenProperties DEF Typed
<1> QED BY <1>1, <1>2, <1>3

\* A dense log: the row's place is its end and its number the next, whoever
\* else is about to store.
LEMMA DensePlace ==
    ASSUME Typed, Walking, Locking, Numbered, Promise = "dense",
           NEW p \in Publishers, Writes(p)
    PROVE  /\ pc[p] = "store" /\ number[p] = Len(rows) + 1
           /\ PlaceOf(number[p]) = Len(rows) + 1
<1>1. Len(rows) \in Nat /\ DOMAIN rows = 1 .. Len(rows)
  BY LenProperties DEF Typed
<1>2. pc[p] = "store"
  BY DEF Writes, Walking, Promise
<1>3. number[p] = Len(rows) + 1
  <2>1. number[p] \in 1 .. Len(rows) + 1 /\ \A i \in DOMAIN rows : rows[i].number = i
    BY <1>2 DEF Numbered
  <2>2. CASE Locked
    BY <1>2, <2>2 DEF Numbered
  <2>3. CASE ~ Locked
    <3>1. kind = "postgres"
      BY <2>3 DEF Locked, Promise, Typed
    <3>2. \A i \in DOMAIN rows : rows[i].number # number[p]
      BY <3>1 DEF Writes, MayInsert
    <3> QED BY <1>1, <2>1, <3>2
  <2> QED BY <2>2, <2>3
<1> DEFINE at == PlaceOf(number[p])
<1>4. at \in 1 .. Len(rows) + 1 /\ (at <= Len(rows) => rows[at].number > number[p])
  <2>1. number[p] \in Nat
    BY DEF Typed
  <2> QED BY <2>1, PlaceFacts
<1> HIDE DEF at
<1>5. at <= Len(rows) => rows[at].number = at
  BY <1>1, <1>4 DEF Numbered
<1>6. at = Len(rows) + 1
  BY <1>1, <1>3, <1>4, <1>5
<1> QED BY <1>2, <1>3, <1>6 DEF at

\* memory, jsonl, sqlite in one process and postgres: len + 1, MAX + 1 and the
\* UNIQUE constraint leave no gap and no double.
LEMMA NumberedStep ==
    Typed /\ Walking /\ Locking /\ Numbered /\ [Next]_vars => Numbered'
<1> SUFFICES ASSUME Typed, Walking, Locking, Numbered, [Next]_vars, Promise' = "dense"
             PROVE  /\ \A i \in DOMAIN rows' : rows'[i].number = i
                    /\ \A p \in Publishers : pc'[p] = "store" =>
                           /\ number'[p] \in 1 .. Len(rows') + 1
                           /\ Locked' => number'[p] = Len(rows') + 1
  BY DEF Numbered
<1>1. Len(rows) \in Nat /\ DOMAIN rows = 1 .. Len(rows)
  BY LenProperties DEF Typed
<1>2. CASE Rests
  <2>1. Promise = "dense" /\ Locked' = Locked /\ UNCHANGED <<rows, number>>
    BY <1>2, PromiseKept DEF Rests
  <2>2. \A p \in Publishers : pc'[p] = "store" => pc[p] = "store"
    BY <1>2 DEF Rests
  <2> QED BY <2>1, <2>2 DEF Numbered
<1>3. ASSUME NEW p \in Publishers, TakeNumber(p)
      PROVE  /\ \A i \in DOMAIN rows' : rows'[i].number = i
             /\ \A q \in Publishers : pc'[q] = "store" =>
                    /\ number'[q] \in 1 .. Len(rows') + 1
                    /\ Locked' => number'[q] = Len(rows') + 1
  <2>1. /\ UNCHANGED <<fixed, rows>> /\ number'[p] = NextNumber
        /\ \A q \in Publishers \ {p} : number'[q] = number[q] /\ pc'[q] = pc[q]
    BY <1>3, TakeFacts
  <2>2. Promise = "dense" /\ Locked' = Locked
    BY <2>1, PromiseKept
  <2>3. \A i \in DOMAIN rows : rows[i].number = i
    BY <2>2 DEF Numbered
  <2>4. NextNumber = Len(rows) + 1
    <3>1. HighestRow = Len(rows)
      <4>1. CASE rows = <<>>
        BY <4>1 DEF HighestRow
      <4>2. CASE rows # <<>>
        <5>1. Len(rows) \in DOMAIN rows
          BY <1>1, <4>2 DEF Typed
        <5> QED BY <2>3, <4>2, <5>1 DEF HighestRow
      <4> QED BY <4>1, <4>2
    <3>2. kind # "redis"
      BY <2>2 DEF Promise
    <3> QED BY <3>1, <3>2 DEF NextNumber, Typed
  <2> QED BY <1>1, <2>1, <2>2, <2>3, <2>4 DEF Numbered
<1>4. ASSUME NEW p \in Publishers, Writes(p)
      PROVE  /\ \A i \in DOMAIN rows' : rows'[i].number = i
             /\ \A q \in Publishers : pc'[q] = "store" =>
                    /\ number'[q] \in 1 .. Len(rows') + 1
                    /\ Locked' => number'[q] = Len(rows') + 1
  <2>1. Promise = "dense" /\ Locked' = Locked /\ UNCHANGED number
    BY <1>4, PromiseKept DEF Writes
  <2>2. pc[p] = "store" /\ number[p] = Len(rows) + 1 /\ PlaceOf(number[p]) = Len(rows) + 1
    BY <1>4, <2>1, DensePlace
  <2> DEFINE at == PlaceOf(number[p])
  <2>3. /\ Len(rows') = Len(rows) + 1 /\ DOMAIN rows' = 1 .. Len(rows) + 1
        /\ rows'[at] = Row(p) /\ \A i \in 1 .. at - 1 : rows'[i] = rows[i]
    BY <1>4, Wrote DEF Writes
  <2>4. rows'[Len(rows) + 1].number = Len(rows) + 1
    BY <2>2, <2>3 DEF Row
  <2>5. ASSUME NEW i \in DOMAIN rows' PROVE rows'[i].number = i
    <3>1. i = Len(rows) + 1 \/ (i \in DOMAIN rows /\ i \in 1 .. Len(rows))
      BY <1>1, <2>3, <2>5
    <3>2. i \in 1 .. Len(rows) => rows'[i] = rows[i]
      <4>1. Len(rows) = at - 1
        BY <1>1, <2>2
      <4> QED BY <2>3, <4>1
    <3>3. \A j \in DOMAIN rows : rows[j].number = j
      BY <2>1 DEF Numbered
    <3> QED BY <2>4, <3>1, <3>2, <3>3
  <2>6. ASSUME NEW q \in Publishers, pc'[q] = "store"
        PROVE  /\ number'[q] \in 1 .. Len(rows') + 1
               /\ Locked' => number'[q] = Len(rows') + 1
    <3>1. q # p /\ pc[q] = "store"
      BY <1>4, <2>6 DEF Writes
    <3>2. ~ Locked
      <4> SUFFICES ASSUME Locked PROVE FALSE
        OBVIOUS
      <4>1. holder[Home(p)] = p /\ holder[Home(q)] = q
        BY <2>2, <3>1 DEF Locking
      <4>2. together
        BY <2>1 DEF Promise, Locked, Typed
      <4>3. Home(p) = Home(q)
        BY <4>2 DEF Home
      <4> QED BY <3>1, <4>1, <4>3
    <3>3. number[q] \in 1 .. Len(rows) + 1
      BY <2>1, <3>1 DEF Numbered
    <3> QED BY <1>1, <2>1, <2>3, <3>2, <3>3
  <2> QED BY <2>5, <2>6
<1> QED BY <1>2, <1>3, <1>4, Steps

\* redis: incr gives each number once.
LEMMA CountedStep == Typed /\ Walking /\ Counted /\ [Next]_vars => Counted'
<1> SUFFICES ASSUME Typed, Walking, Counted, [Next]_vars, kind' = "redis"
             PROVE  /\ \A i \in DOMAIN rows' : rows'[i].number <= counter'
                    /\ \A p \in Publishers : pc'[p] = "store" =>
                           /\ number'[p] <= counter'
                           /\ \A i \in DOMAIN rows' : rows'[i].number # number'[p]
                           /\ \A q \in Publishers \ {p} : pc'[q] = "store" => number'[q] # number'[p]
  BY DEF Counted
<1> DEFINE Fine ==
        /\ \A i \in DOMAIN rows : rows[i].number <= counter
        /\ \A p \in Publishers : pc[p] = "store" =>
               /\ number[p] <= counter
               /\ \A i \in DOMAIN rows : rows[i].number # number[p]
               /\ \A q \in Publishers \ {p} : pc[q] = "store" => number[q] # number[p]
<1>1. kind = "redis" => Fine
  BY DEF Counted
<1>2. ASSUME Rests PROVE Fine'
  <2>1. kind = "redis" /\ UNCHANGED <<rows, counter, number>>
    BY <1>2 DEF Rests, fixed
  <2>2. \A p \in Publishers : pc'[p] = "store" => pc[p] = "store"
    BY <1>2 DEF Rests
  <2> QED BY <1>1, <2>1, <2>2
<1>3. ASSUME NEW p \in Publishers, TakeNumber(p) PROVE Fine'
  <2>1. /\ kind = "redis" /\ UNCHANGED rows /\ counter' = counter + 1
        /\ number'[p] = counter + 1
        /\ \A q \in Publishers \ {p} : number'[q] = number[q] /\ pc'[q] = pc[q]
        /\ DOMAIN rows = 1 .. Len(rows) /\ rows \in [1 .. Len(rows) -> StoredRow]
    BY <1>3, TakeFacts DEF fixed, NextNumber
  <2>2. /\ counter \in Nat /\ \A q \in Publishers : number[q] \in Nat
    BY DEF Typed
  <2>3. \A i \in DOMAIN rows : rows[i].number \in Nat
    BY <2>1 DEF StoredRow
  <2>4. \A i \in DOMAIN rows' : rows'[i].number <= counter'
    BY <1>1, <2>1, <2>2, <2>3
  <2>5. ASSUME NEW q \in Publishers, pc'[q] = "store"
        PROVE  /\ number'[q] <= counter'
               /\ \A i \in DOMAIN rows' : rows'[i].number # number'[q]
               /\ \A r \in Publishers \ {q} : pc'[r] = "store" => number'[r] # number'[q]
    <3>1. \A r \in Publishers \ {p} : pc'[r] = "store" => pc[r] = "store" /\ number'[r] <= counter
      BY <1>1, <2>1
    <3>2. CASE q = p
      BY <1>1, <2>1, <2>2, <2>3, <3>1, <3>2
    <3>3. CASE q # p
      <4>1. pc[q] = "store" /\ number'[q] = number[q] /\ number[q] <= counter
        BY <2>1, <2>5, <3>1, <3>3
      <4>2. \A i \in DOMAIN rows' : rows'[i].number # number'[q]
        BY <1>1, <2>1, <4>1
      <4>3. ASSUME NEW r \in Publishers \ {q}, pc'[r] = "store" PROVE number'[r] # number'[q]
        <5>1. CASE r = p
          BY <2>1, <2>2, <4>1, <5>1
        <5>2. CASE r # p
          <6>1. pc[r] = "store" /\ number'[r] = number[r]
            BY <2>1, <4>3, <5>2
          <6> QED BY <1>1, <2>1, <4>1, <4>3, <6>1
        <5> QED BY <5>1, <5>2
      <4> QED BY <2>1, <2>2, <4>1, <4>2, <4>3
    <3> QED BY <3>2, <3>3
  <2> QED BY <2>4, <2>5
<1>4. ASSUME NEW p \in Publishers, Writes(p) PROVE Fine'
  <2>1. /\ kind = "redis" /\ UNCHANGED <<counter, number>> /\ pc[p] \in {"store", "thread"}
        /\ pc'[p] # "store" /\ \A q \in Publishers \ {p} : pc'[q] = pc[q]
    BY <1>4 DEF Writes, fixed
  <2>2. pc[p] = "store" /\ Fine
    BY <1>1, <2>1 DEF Walking
  <2>3. \A j \in DOMAIN rows' : rows'[j].number = number[p] \/ \E i \in DOMAIN rows : rows'[j] = rows[i]
    <3>1. \A j \in DOMAIN rows' : rows'[j] = Row(p) \/ \E i \in DOMAIN rows : rows'[j] = rows[i]
      BY <1>4, WroteRows DEF Writes
    <3> QED BY <3>1 DEF Row
  <2>4. \A j \in DOMAIN rows' : rows'[j].number <= counter'
    BY <2>1, <2>2, <2>3
  <2>5. ASSUME NEW q \in Publishers, pc'[q] = "store"
        PROVE  /\ number'[q] <= counter'
               /\ \A i \in DOMAIN rows' : rows'[i].number # number'[q]
               /\ \A r \in Publishers \ {q} : pc'[r] = "store" => number'[r] # number'[q]
    <3>1. q # p /\ pc[q] = "store"
      BY <2>1, <2>5
    <3>2. \A r \in Publishers \ {q} : pc'[r] = "store" => pc[r] = "store"
      BY <2>1
    <3> QED BY <2>1, <2>2, <2>3, <3>1, <3>2
  <2> QED BY <2>4, <2>5
<1> HIDE DEF Fine
<1>5. Fine'
  BY <1>2, <1>3, <1>4, Steps
<1> QED BY <1>5 DEF Fine

\* sqlite: a row's place leaves the log in order, and the maximum a publisher
\* selects is no less than the numbers of its own rows.
LEMMA SortedStep == Typed /\ Walking /\ Sorted /\ [Next]_vars => Sorted'
<1> SUFFICES ASSUME Typed, Walking, Sorted, [Next]_vars, kind' = "sqlite"
             PROVE  /\ \A i, j \in DOMAIN rows' : i < j => rows'[i].number <= rows'[j].number
                    /\ \A p \in Publishers : pc'[p] \in {"store", "thread"} =>
                           \A i \in DOMAIN rows' :
                               rows'[i].event[1] = p => rows'[i].number < number'[p]
  BY DEF Sorted
<1> DEFINE Ordered == \A i, j \in DOMAIN rows : i < j => rows[i].number <= rows[j].number
           Ahead == \A p \in Publishers : pc[p] \in {"store", "thread"} =>
                        \A i \in DOMAIN rows : rows[i].event[1] = p => rows[i].number < number[p]
<1>1. kind = "sqlite" => Ordered /\ Ahead
  BY DEF Sorted
<1>2. /\ Len(rows) \in Nat /\ DOMAIN rows = 1 .. Len(rows)
      /\ \A i \in DOMAIN rows : rows[i] \in StoredRow /\ rows[i].number \in Nat
  <2>1. Len(rows) \in Nat /\ rows \in [1 .. Len(rows) -> StoredRow]
    BY LenProperties DEF Typed
  <2> QED BY <2>1 DEF StoredRow
<1>3. ASSUME Rests PROVE Ordered' /\ Ahead'
  <2>1. kind = "sqlite" /\ UNCHANGED <<rows, number>>
    BY <1>3 DEF Rests, fixed
  <2>2. \A p \in Publishers : pc'[p] \in {"store", "thread"} => pc[p] \in {"store", "thread"}
    BY <1>3 DEF Rests
  <2>3. Ordered'
    BY <1>1, <2>1
  <2>4. Ahead'
    BY <1>1, <2>1, <2>2
  <2> QED BY <2>3, <2>4
<1>4. ASSUME NEW p \in Publishers, TakeNumber(p) PROVE Ordered' /\ Ahead'
  <2>1. /\ kind = "sqlite" /\ UNCHANGED rows /\ number'[p] = NextNumber
        /\ \A q \in Publishers \ {p} : number'[q] = number[q] /\ pc'[q] = pc[q]
    BY <1>4, TakeFacts DEF fixed
  <2>2. \A i \in DOMAIN rows : rows[i].number < NextNumber
    <3> TAKE i \in DOMAIN rows
    <3>1. rows # <<>> /\ Len(rows) \in DOMAIN rows
      BY <1>2
    <3>2. i < Len(rows) \/ i = Len(rows)
      BY <1>2
    <3>3. rows[i].number <= rows[Len(rows)].number
      BY <1>1, <1>2, <2>1, <3>1, <3>2
    <3>4. NextNumber = rows[Len(rows)].number + 1
      BY <2>1, <3>1 DEF NextNumber, HighestRow
    <3> QED BY <1>2, <3>1, <3>3, <3>4
  <2>3. Ordered'
    BY <1>1, <2>1
  <2>4. Ahead'
    BY <1>1, <2>1, <2>2
  <2> QED BY <2>3, <2>4
<1>5. ASSUME NEW p \in Publishers, Writes(p) PROVE Ordered' /\ Ahead'
  <2>1. /\ kind = "sqlite" /\ UNCHANGED number /\ Write(p) /\ count[p] > 0
        /\ pc'[p] \notin {"store", "thread"}
        /\ \A q \in Publishers \ {p} : pc'[q] = pc[q]
    BY <1>5 DEF Writes, fixed
  <2> DEFINE at == PlaceOf(number[p])
  <2>2. /\ DOMAIN rows' = 1 .. Len(rows) + 1
        /\ at \in 1 .. Len(rows) + 1 /\ rows'[at] = Row(p)
        /\ \A i \in 1 .. at - 1 : rows'[i] = rows[i]
        /\ \A i \in at + 1 .. Len(rows) + 1 : rows'[i] = rows[i - 1]
    BY <2>1, Wrote
  <2>3. number[p] \in Nat
    BY DEF Typed
  <2>4. /\ \A i \in DOMAIN rows : i < at => ~ (rows[i].number > number[p])
        /\ at <= Len(rows) => rows[at].number > number[p]
    BY <2>1, <2>3, PlaceFacts
  <2> HIDE DEF at
  <2>5. \A i \in DOMAIN rows : at <= i => rows[i].number > number[p]
    <3> TAKE i \in DOMAIN rows
    <3> HAVE at <= i
    <3>1. at \in DOMAIN rows /\ (at < i \/ at = i) /\ at <= Len(rows)
      BY <1>2, <2>2
    <3>2. rows[at].number <= rows[i].number
      BY <1>1, <1>2, <2>1, <3>1
    <3> QED BY <1>2, <2>3, <2>4, <3>1, <3>2
  <2>6. Row(p).number = number[p] /\ Row(p).event[1] = p
    BY DEF Row, Current
  <2>7. Ordered'
    <3> SUFFICES ASSUME NEW i \in DOMAIN rows', NEW j \in DOMAIN rows', i < j
                 PROVE  rows'[i].number <= rows'[j].number
      OBVIOUS
    <3>1. i \in Nat /\ j \in Nat /\ at \in Nat
      BY <1>2, <2>2
    <3>2. CASE j < at
      <4>1. i \in 1 .. at - 1 /\ j \in 1 .. at - 1 /\ i \in DOMAIN rows /\ j \in DOMAIN rows
        BY <1>2, <2>2, <3>1, <3>2
      <4> QED BY <1>1, <2>1, <2>2, <4>1
    <3>3. CASE j = at
      <4>1. i \in 1 .. at - 1 /\ i \in DOMAIN rows /\ i < at
        BY <1>2, <2>2, <3>1, <3>3
      <4>2. rows'[i] = rows[i] /\ ~ (rows[i].number > number[p]) /\ rows[i].number \in Nat
        BY <1>2, <2>2, <2>4, <4>1
      <4> QED BY <2>2, <2>3, <2>6, <3>3, <4>2
    <3>4. CASE at < j
      <4>1. j \in at + 1 .. Len(rows) + 1 /\ j - 1 \in DOMAIN rows /\ at <= j - 1
        BY <1>2, <2>2, <3>1, <3>4
      <4>2. rows'[j] = rows[j - 1] /\ rows[j - 1].number > number[p] /\ rows[j - 1].number \in Nat
        BY <1>2, <2>2, <2>5, <4>1
      <4>3. CASE i < at
        <5>1. i \in 1 .. at - 1 /\ i \in DOMAIN rows /\ i < j - 1
          BY <1>2, <2>2, <3>1, <4>1, <4>3
        <5> QED BY <1>1, <2>1, <2>2, <4>1, <4>2, <5>1
      <4>4. CASE i = at
        BY <2>2, <2>3, <2>6, <4>2, <4>4
      <4>5. CASE at < i
        <5>1. i \in at + 1 .. Len(rows) + 1 /\ i - 1 \in DOMAIN rows /\ i - 1 < j - 1
          BY <1>2, <2>2, <3>1, <4>1, <4>5
        <5> QED BY <1>1, <2>1, <2>2, <4>1, <4>2, <5>1
      <4> QED BY <3>1, <4>3, <4>4, <4>5
    <3> QED BY <3>1, <3>2, <3>3, <3>4
  <2>8. Ahead'
    <3> SUFFICES ASSUME NEW q \in Publishers, pc'[q] \in {"store", "thread"},
                        NEW j \in DOMAIN rows', rows'[j].event[1] = q
                 PROVE  rows'[j].number < number[q]
      BY <2>1
    <3>1. q # p /\ pc[q] \in {"store", "thread"}
      BY <2>1
    <3>2. rows'[j] = Row(p) \/ \E i \in DOMAIN rows : rows'[j] = rows[i]
      BY <2>1, WroteRows
    <3>3. PICK i \in DOMAIN rows : rows'[j] = rows[i]
      BY <2>6, <3>1, <3>2
    <3> QED BY <1>1, <2>1, <3>1, <3>3
  <2> QED BY <2>7, <2>8
<1> HIDE DEF Ordered, Ahead
<1>6. Ordered' /\ Ahead'
  BY <1>3, <1>4, <1>5, Steps
<1> QED BY <1>6 DEF Ordered, Ahead

\* The invariant of the stores.
LEMMA Invariant == Spec => []Inv
<1>1. Init => Inv
  <2> SUFFICES ASSUME Init PROVE Inv
    OBVIOUS
  <2>1. PublishInv
    BY PublishInit
  <2>2. /\ rows = <<>> /\ DOMAIN rows = {} /\ \A p \in Publishers : pc[p] = "idle"
    BY DEF Init
  <2> QED BY <2>1, <2>2 DEF Inv, Locking, Numbered, Counted, Sorted
<1>2. Inv /\ [Next]_vars => Inv'
  <2>1. PublishInv /\ [Next]_vars => PublishInv'
    BY TypedStep, StoringStep, HearingStep DEF PublishInv
  <2> QED BY <2>1, LockingStep, NumberedStep, CountedStep, SortedStep DEF Inv, PublishInv
<1> QED BY <1>1, <1>2, PTL DEF Spec

\* Where a row is put, none of its publisher's are behind it.
LEMMA OwnBefore ==
    ASSUME Inv, NEW p \in Publishers, Writes(p),
           NEW i \in DOMAIN rows, PlaceOf(number[p]) <= i
    PROVE  rows[i].event[1] # p
<1>1. Typed /\ Walking /\ Locking /\ Numbered /\ Sorted /\ number[p] \in Nat
  BY DEF Inv, PublishInv, Typed
<1>2. /\ Len(rows) \in Nat /\ DOMAIN rows = 1 .. Len(rows)
      /\ \A j \in DOMAIN rows : rows[j].number \in Nat
  <2>1. Len(rows) \in Nat /\ rows \in [1 .. Len(rows) -> StoredRow]
    BY <1>1, LenProperties DEF Typed
  <2> QED BY <2>1 DEF StoredRow
<1> DEFINE at == PlaceOf(number[p])
<1>3. /\ at \in 1 .. Len(rows) + 1
      /\ kind \notin {"sqlite", "postgres"} => at = Len(rows) + 1
      /\ at <= Len(rows) => rows[at].number > number[p]
  BY <1>1, PlaceFacts
<1>4. Promise = "dense" => at = Len(rows) + 1
  BY <1>1, DensePlace
<1> HIDE DEF at
<1>5. at <= i /\ i <= Len(rows) /\ at <= Len(rows)
  BY <1>2, <1>3 DEF at
<1>6. kind = "sqlite"
  <2>1. kind \in {"sqlite", "postgres"}
    BY <1>2, <1>3, <1>5
  <2>2. kind = "postgres" => Promise = "dense"
    BY DEF Promise
  <2> QED BY <1>2, <1>4, <1>5, <2>1, <2>2
<1>7. rows[at].number <= rows[i].number
  <2>1. at \in DOMAIN rows /\ (at < i \/ at = i)
    BY <1>2, <1>3, <1>5
  <2> QED BY <1>1, <1>2, <1>6, <2>1 DEF Sorted
<1>8. rows[i].event[1] = p => rows[i].number < number[p]
  BY <1>1, <1>6 DEF Sorted, Writes
<1>9. rows[at].number \in Nat /\ rows[i].number \in Nat
  BY <1>2, <1>3, <1>5
<1> QED BY <1>1, <1>3, <1>5, <1>7, <1>8, <1>9

\* What is written is a step of the log.
LEMMA WriteIsLogged ==
    ASSUME Inv, NEW p \in Publishers, Writes(p)
    PROVE  Log!Next
<1>1. /\ Typed /\ Walking /\ Storing /\ Locking /\ Numbered /\ Counted
      /\ Write(p) /\ count[p] > 0 /\ pc[p] \in {"store", "thread"} /\ UNCHANGED fixed
  BY DEF Inv, PublishInv, Writes
<1> DEFINE at == PlaceOf(number[p])
<1>2. /\ Row(p) \in StoredRow /\ Len(rows) \in Nat /\ Len(rows') = Len(rows) + 1
      /\ DOMAIN rows = 1 .. Len(rows)
      /\ at \in 1 .. Len(rows) + 1 /\ rows'[at] = Row(p)
  BY <1>1, Wrote
<1>3. rows' = InsertAt(rows, at, Row(p))
  BY <1>1 DEF Write
<1>4. /\ Row(p).event = Current(p) /\ Row(p).number = number[p]
      /\ Current(p)[1] = p /\ Current(p)[2] = count[p] /\ count[p] \in 0 .. MaxEvents
  BY <1>1 DEF Row, Current, Typed
<1>5. Row(p) \in [event : Publishers \X (1 .. MaxEvents), number : Nat]
  BY <1>2 DEF StoredRow, Event
<1>6. Row(p).event \notin Log!Written
  BY <1>1, <1>4 DEF Storing
<1>7. \A i \in DOMAIN rows : rows[i].event[1] = p => rows[i].event[2] < Row(p).event[2]
  <2> TAKE i \in DOMAIN rows
  <2> HAVE rows[i].event[1] = p
  <2>1. rows[i].event \in Log!Written
    BY DEF Log!Written
  <2>2. rows[i].event[2] <= count[p] /\ rows[i].event[2] # count[p] /\ rows[i].event[2] \in 1 .. MaxEvents
    BY <1>1, <2>1, WrittenType DEF Storing
  <2> QED BY <1>4, <2>2
<1>8. \A i \in at .. Len(rows) : rows[i].event[1] # p
  <2> TAKE i \in at .. Len(rows)
  <2>1. i \in DOMAIN rows /\ at <= i
    BY <1>2
  <2> QED BY <2>1, OwnBefore
<1>9. Log!Place(number[p], at)
  <2>1. CASE Promise = "dense"
    BY <1>1, <2>1, DensePlace DEF Log!Place
  <2>2. CASE Promise = "unique"
    <3>1. kind = "redis" /\ number[p] \in Nat
      BY <1>1, <2>2 DEF Promise, Typed
    <3>2. at = Len(rows) + 1
      BY <1>1, <3>1, PlaceFacts
    <3>3. pc[p] = "store"
      BY <1>1, <3>1 DEF Walking
    <3> QED BY <1>1, <2>2, <3>1, <3>2, <3>3 DEF Counted, Log!Place
  <2>3. CASE Promise = "any"
    BY <2>3 DEF Log!Place
  <2>4. Promise \in {"dense", "unique", "any"}
    BY <1>1 DEF Promise, Typed
  <2> QED BY <2>1, <2>2, <2>3, <2>4
<1> HIDE DEF at
<1>10. Log!Write(at)
  <2> DEFINE new == rows'[at]
  <2>1. /\ new = Row(p) /\ new.event = Current(p) /\ new.number = number[p]
        /\ new.event[1] = p
    BY <1>2, <1>4
  <2>2. rows' = Log!InsertAt(rows, at, new)
    BY <1>3, <2>1 DEF InsertAt, Log!InsertAt
  <2>3. new \in [event : Publishers \X (1 .. MaxEvents), number : Nat]
    BY <1>5, <2>1
  <2>4. new.event \notin Log!Written /\ Log!Place(new.number, at)
    BY <1>4, <1>6, <1>9, <2>1
  <2>5. \A i \in at .. Len(rows) : rows[i].event[1] # new.event[1]
    BY <1>8, <2>1
  <2>6. \A i \in DOMAIN rows : rows[i].event[1] = new.event[1] => rows[i].event[2] < new.event[2]
    BY <1>4, <1>7, <2>1
  <2> QED BY <2>2, <2>3, <2>4, <2>5, <2>6 DEF Log!Write
<1>11. UNCHANGED Promise
  BY <1>1, PromiseKept
<1> QED BY <1>2, <1>10, <1>11 DEF Log!Next

\* A step of a store is one of the log, or none.
LEMMA StepIsLogged ==
    ASSUME Inv, [Next]_vars
    PROVE  \/ UNCHANGED <<Promise, rows>>
           \/ \E p \in Publishers : Writes(p) /\ Log!Next
<1>1. Typed /\ Walking
  BY DEF Inv, PublishInv
<1>2. CASE Rests
  BY <1>2, PromiseKept DEF Rests
<1>3. ASSUME NEW p \in Publishers, TakeNumber(p) PROVE UNCHANGED <<Promise, rows>>
  BY <1>3, PromiseKept DEF TakeNumber
<1>4. ASSUME NEW p \in Publishers, Writes(p) PROVE Writes(p) /\ Log!Next
  BY <1>4, WriteIsLogged
<1> QED BY <1>1, <1>2, <1>3, <1>4, Steps

\* Each of the five stores, with whatever requests of other publishers,
\* failures, cancellations and crashes come between those of an append
\* (store.py:26, sqlite.py:117, postgres.py:98, redis.py:64), is an append-only
\* log of the kind it promises: dense, unique or in the publishers' order.
THEOREM StoresAreLogs == Spec => ImplementsLog
<1>1. Init => Log!Init
  BY DEF Init, Log!Init
<1>2. Inv /\ [Next]_vars => [Log!Next]_<<Promise, rows>>
  BY StepIsLogged
<1> QED BY <1>1, <1>2, Invariant, PTL DEF Spec, ImplementsLog, Log!Spec

-----------------------------------------------------------------------------
(* What a replay tells *)

\* A publisher's events are read in the order it published them.
InOrder ==
    \A i, j \in DOMAIN rows :
        i < j /\ rows[i].event[1] = rows[j].event[1] => rows[i].event[2] < rows[j].event[2]

\* g has at i what the first i steps of a trace tell one after another.
Tells(g, steps) ==
    g = [i \in 1 .. Len(steps) |-> IF i = 1 THEN steps[i] ELSE g[i - 1] \o steps[i]]

\* Its value at one step.
LEMMA TellsAt ==
    ASSUME NEW g, NEW steps, Tells(g, steps), NEW i \in 1 .. Len(steps)
    PROVE  g[i] = IF i = 1 THEN steps[i] ELSE g[i - 1] \o steps[i]
<1>1. g = [j \in 1 .. Len(steps) |-> IF j = 1 THEN steps[j] ELSE g[j - 1] \o steps[j]]
  BY DEF Tells
<1> QED BY <1>1

\* What is told are events.
LEMMA TellsType ==
    ASSUME NEW steps \in Seq(Seq(Event)), NEW g, Tells(g, steps)
    PROVE  \A i \in 1 .. Len(steps) : g[i] \in Seq(Event)
<1> DEFINE T == {i \in 1 .. Len(steps) : g[i] \notin Seq(Event)}
<1> SUFFICES ASSUME T # {} PROVE FALSE
  OBVIOUS
<1>1. Len(steps) \in Nat /\ \A i \in 1 .. Len(steps) : steps[i] \in Seq(Event)
  BY LenProperties
<1>2. T \subseteq Nat
  BY <1>1
<1> DEFINE i == Min(T)
<1>3. i \in T /\ \A j \in T : i <= j
  <2> HIDE DEF T
  <2> QED BY <1>2, MinOfNat
<1> HIDE DEF i
<1>4. g[i] = IF i = 1 THEN steps[i] ELSE g[i - 1] \o steps[i]
  BY <1>3, TellsAt
<1>5. CASE i = 1
  BY <1>1, <1>3, <1>4, <1>5
<1>6. CASE i # 1
  <2>1. i - 1 \in 1 .. Len(steps) /\ i - 1 < i
    BY <1>1, <1>3, <1>6
  <2>2. i - 1 \notin T
    BY <1>2, <1>3, <2>1
  <2>3. g[i - 1] \in Seq(Event) /\ steps[i] \in Seq(Event)
    BY <1>1, <1>3, <2>1, <2>2
  <2> DEFINE a == g[i - 1]
             b == steps[i]
  <2>4. a \in Seq(Event) /\ b \in Seq(Event) /\ g[i] = a \o b
    BY <1>4, <1>6, <2>3
  <2> HIDE DEF a, b
  <2>5. a \o b \in Seq(Event)
    BY <2>4, ConcatProperties
  <2>6. g[i] \in Seq(Event)
    BY <2>4, <2>5
  <2> QED BY <1>3, <2>6
<1> QED BY <1>5, <1>6

\* FlattenSeq is what all steps tell.
LEMMA FlattenIs ==
    ASSUME NEW steps \in Seq(Seq(Event)), steps # <<>>, NEW g, Tells(g, steps)
    PROVE  FlattenSeq(steps) = g[Len(steps)]
<1> DEFINE H == CHOOSE h : Tells(h, steps)
<1>1. Len(steps) \in Nat /\ Len(steps) # 0
  BY LenProperties, EmptySeq
<1>2. FlattenSeq(steps) = H[Len(steps)]
  BY <1>1 DEF FlattenSeq, Tells
<1>3. Tells(H, steps)
  OBVIOUS
<1> HIDE DEF H
<1> DEFINE T == {i \in 1 .. Len(steps) : g[i] # H[i]}
<1>4. ASSUME T # {} PROVE FALSE
  <2>1. T \subseteq Nat
    BY <1>1
  <2> DEFINE i == Min(T)
  <2>2. i \in T /\ \A j \in T : i <= j
    <3> HIDE DEF T
    <3> QED BY <1>4, <2>1, MinOfNat
  <2> HIDE DEF i
  <2>3. /\ g[i] = IF i = 1 THEN steps[i] ELSE g[i - 1] \o steps[i]
        /\ H[i] = IF i = 1 THEN steps[i] ELSE H[i - 1] \o steps[i]
    BY <1>3, <2>2, TellsAt
  <2>4. i # 1
    BY <2>2, <2>3
  <2>5. i - 1 \in 1 .. Len(steps) /\ i - 1 < i
    BY <1>1, <2>2, <2>4
  <2>6. g[i - 1] = H[i - 1]
    BY <1>1, <2>2, <2>5
  <2> QED BY <2>2, <2>3, <2>6
<1>5. Len(steps) \in 1 .. Len(steps)
  BY <1>1
<1> QED BY <1>2, <1>4, <1>5

\* A step more tells its event after all others.
LEMMA TellsAppend ==
    ASSUME NEW steps \in Seq(Seq(Event)), steps # <<>>, NEW g, Tells(g, steps),
           NEW e \in Event
    PROVE  \E h : /\ Tells(h, Append(steps, <<e>>))
                  /\ h[Len(steps) + 1] = Append(g[Len(steps)], e)
<1> DEFINE n == Len(steps)
           more == Append(steps, <<e>>)
           h == [i \in 1 .. n + 1 |-> IF i = n + 1 THEN g[n] \o <<e>> ELSE g[i]]
           F(i) == IF i = 1 THEN more[i] ELSE h[i - 1] \o more[i]
<1>1. n \in Nat /\ n # 0
  BY LenProperties, EmptySeq
<1>2. <<e>> \in Seq(Event)
  OBVIOUS
<1>3. Len(more) = n + 1 /\ more[n + 1] = <<e>> /\ \A i \in 1 .. n : more[i] = steps[i]
  BY <1>2, AppendProperties
<1>4. \A i \in 1 .. n : g[i] = IF i = 1 THEN steps[i] ELSE g[i - 1] \o steps[i]
  BY TellsAt
<1> HIDE DEF n, more
<1>5. ASSUME NEW i \in 1 .. n + 1
      PROVE  (IF i = n + 1 THEN g[n] \o <<e>> ELSE g[i]) = F(i)
  <2>1. CASE i = n + 1
    <3>1. n \in 1 .. n + 1 /\ n # n + 1 /\ n + 1 - 1 = n /\ n + 1 # 1
      BY <1>1
    <3>2. h[n] = g[n]
      BY <3>1
    <3>3. h[i - 1] = g[n] /\ more[i] = <<e>> /\ i # 1
      BY <1>3, <2>1, <3>1, <3>2
    <3> HIDE DEF h
    <3> QED BY <2>1, <3>3
  <2>2. CASE i # n + 1 /\ i = 1
    BY <1>1, <1>3, <1>4, <2>2
  <2>3. CASE i # n + 1 /\ i # 1
    <3>1. i \in 1 .. n /\ i - 1 \in 1 .. n + 1 /\ i - 1 # n + 1
      BY <1>1, <2>3
    <3>2. h[i - 1] = g[i - 1]
      BY <3>1
    <3>3. g[i] = g[i - 1] \o steps[i]
      BY <1>4, <2>3, <3>1
    <3>4. more[i] = steps[i]
      BY <1>3, <3>1
    <3> HIDE DEF h
    <3>5. F(i) = g[i - 1] \o steps[i]
      BY <2>3, <3>2, <3>4
    <3> QED BY <2>3, <3>3, <3>5
  <2> QED BY <2>1, <2>2, <2>3
<1>6. Tells(h, more)
  <2>1. h = [i \in 1 .. n + 1 |-> F(i)]
    <3> HIDE DEF F
    <3> QED BY <1>5
  <2> HIDE DEF h
  <2>2. h = [i \in 1 .. Len(more) |-> IF i = 1 THEN more[i] ELSE h[i - 1] \o more[i]]
    BY ONLY <1>3, <2>1
  <2> QED BY ONLY <2>2 DEF Tells
<1>7. g[n] \in Seq(Event)
  BY <1>1, TellsType DEF n
<1>8. h[n + 1] = Append(g[n], e)
  BY <1>1, <1>7
<1> QED BY <1>6, <1>8 DEF n, more

\* An event more in the last step does as well.
LEMMA TellsExtend ==
    ASSUME NEW steps \in Seq(Seq(Event)), steps # <<>>, NEW g, Tells(g, steps),
           NEW e \in Event
    PROVE  \E h : /\ Tells(h, [steps EXCEPT ![Len(steps)] = Append(@, e)])
                  /\ h[Len(steps)] = Append(g[Len(steps)], e)
<1> DEFINE n == Len(steps)
           more == [steps EXCEPT ![n] = Append(@, e)]
           h == [i \in 1 .. n |-> IF i = n THEN Append(g[n], e) ELSE g[i]]
           F(i) == IF i = 1 THEN more[i] ELSE h[i - 1] \o more[i]
<1>1. /\ n \in Nat /\ n # 0 /\ DOMAIN steps = 1 .. n
      /\ \A i \in 1 .. n : steps[i] \in Seq(Event)
  BY LenProperties, EmptySeq
<1>2. /\ more \in Seq(Seq(Event)) /\ Len(more) = n
      /\ more[n] = Append(steps[n], e) /\ \A i \in 1 .. n : i # n => more[i] = steps[i]
  <2>1. Append(steps[n], e) \in Seq(Event)
    BY <1>1, AppendProperties
  <2>2. more \in Seq(Seq(Event)) /\ Len(more) = n
    BY <1>1, <2>1, ExceptSeq
  <2>3. more[n] = Append(steps[n], e)
    <3>1. n \in DOMAIN steps
      BY <1>1
    <3> HIDE DEF n
    <3> QED BY <3>1
  <2>4. \A i \in 1 .. n : i # n => more[i] = steps[i]
    <3> HIDE DEF n
    <3> QED BY <1>1
  <2> QED BY <2>2, <2>3, <2>4
<1>3. \A i \in 1 .. n : g[i] = IF i = 1 THEN steps[i] ELSE g[i - 1] \o steps[i]
  BY TellsAt
<1>4. \A i \in 1 .. n : g[i] \in Seq(Event)
  BY TellsType
<1> HIDE DEF n, more
<1>5. ASSUME NEW i \in 1 .. n
      PROVE  (IF i = n THEN Append(g[n], e) ELSE g[i]) = F(i)
  <2>1. CASE i = n /\ i = 1
    BY <1>1, <1>2, <1>3, <2>1
  <2>2. CASE i = n /\ i # 1
    <3>1. i - 1 \in 1 .. n /\ i - 1 # n
      BY <1>1, <2>2
    <3>2. h[i - 1] = g[i - 1] /\ g[i - 1] \in Seq(Event) /\ steps[n] \in Seq(Event)
      BY <1>1, <1>4, <3>1
    <3>3. g[n] = g[n - 1] \o steps[n]
      BY <1>1, <1>3, <2>2
    <3>4. g[n - 1] \in Seq(Event) /\ steps[n] \in Seq(Event)
      BY <2>2, <3>2
    <3>5. Append(g[n - 1] \o steps[n], e) = g[n - 1] \o Append(steps[n], e)
      <4> DEFINE a == g[n - 1]
                 b == steps[n]
      <4>1. a \in Seq(Event) /\ b \in Seq(Event) /\ <<e>> \in Seq(Event)
        BY <3>4
      <4> HIDE DEF a, b
      <4>2. a \o b \in Seq(Event)
        BY <4>1, ConcatProperties
      <4>3. Append(a \o b, e) = (a \o b) \o <<e>>
        BY <4>2, AppendIsConcat
      <4>4. Append(b, e) = b \o <<e>>
        BY <4>1, AppendIsConcat
      <4>5. (a \o b) \o <<e>> = a \o (b \o <<e>>)
        BY <4>1, ConcatAssociative
      <4>6. Append(a \o b, e) = a \o Append(b, e)
        BY <4>3, <4>4, <4>5
      <4> QED BY <4>6 DEF a, b
    <3> QED BY <1>2, <2>2, <3>2, <3>3, <3>5
  <2>3. CASE i # n /\ i = 1
    BY <1>1, <1>2, <1>3, <2>3
  <2>4. CASE i # n /\ i # 1
    <3>1. i - 1 \in 1 .. n /\ i - 1 # n
      BY <1>1, <2>4
    <3>2. h[i - 1] = g[i - 1]
      BY <3>1
    <3> HIDE DEF h
    <3> QED BY <1>2, <1>3, <2>4, <3>2
  <2> QED BY <2>1, <2>2, <2>3, <2>4
<1>6. Tells(h, more)
  BY <1>2, <1>5 DEF Tells
<1>7. h[n] = Append(g[n], e)
  BY <1>1
<1> QED BY <1>6, <1>7 DEF n, more

\* h replays the rows of every set of places among the first n: FoldLeft takes
\* the last place first.
Replays(h, n) ==
    h = [s \in SUBSET (1 .. n) |->
            IF s = {} THEN <<>> ELSE AddToTrace(h[s \ {Max(s)}], rows[Max(s)].event)]

\* There is such a function, for any number of rows.
LEMMA ReplayExists == ASSUME NEW n \in Nat PROVE \E h : Replays(h, n)
<1> DEFINE T == {k \in 0 .. n : ~ \E h : Replays(h, k)}
<1> SUFFICES ASSUME T # {} PROVE FALSE
  OBVIOUS
<1> DEFINE k == Min(T)
<1>1. k \in T /\ \A j \in T : k <= j
  <2>1. T \subseteq Nat
    OBVIOUS
  <2> HIDE DEF T
  <2> QED BY <2>1, MinOfNat
<1> HIDE DEF k
<1>2. CASE k = 0
  <2> DEFINE h == [s \in SUBSET (1 .. 0) |-> <<>>]
             F(s) == IF s = {} THEN <<>>
                     ELSE AddToTrace(h[s \ {Max(s)}], rows[Max(s)].event)
  <2>1. \A s \in SUBSET (1 .. 0) : F(s) = <<>>
    OBVIOUS
  <2>2. h = [s \in SUBSET (1 .. 0) |-> F(s)]
    <3> HIDE DEF F
    <3> QED BY <2>1
  <2>3. Replays(h, 0)
    BY <2>2 DEF Replays
  <2> HIDE DEF h
  <2> QED BY <1>1, <1>2, <2>3
<1>3. CASE k # 0
  <2>1. k \in Nat /\ k - 1 \in 0 .. n /\ k - 1 < k
    BY <1>1, <1>3
  <2>2. k - 1 \notin T
    BY <1>1, <2>1
  <2>3. PICK g : Replays(g, k - 1)
    BY <2>1, <2>2
  <2> DEFINE G(s) == IF s = {} THEN <<>> ELSE AddToTrace(g[s \ {Max(s)}], rows[Max(s)].event)
             E(s) == IF k \in s THEN AddToTrace(g[s \ {k}], rows[k].event) ELSE g[s]
             h == [s \in SUBSET (1 .. k) |-> E(s)]
             F(s) == IF s = {} THEN <<>> ELSE AddToTrace(h[s \ {Max(s)}], rows[Max(s)].event)
  <2>4. \A s \in SUBSET (1 .. k - 1) : g[s] = G(s)
    <3>1. g = [s \in SUBSET (1 .. k - 1) |-> G(s)]
      BY <2>3 DEF Replays
    <3> HIDE DEF G
    <3> QED BY <3>1
  <2>5. ASSUME NEW s \in SUBSET (1 .. k) PROVE s \ {k} \in SUBSET (1 .. k - 1)
    BY <2>1
  <2>6. ASSUME NEW s \in SUBSET (1 .. k), k \in s PROVE Max(s) = k
    <3>1. \A y \in s : k >= y
      BY <2>1
    <3>2. \A x \in s : (\A y \in s : x >= y) => x = k
      <4> TAKE x \in s
      <4> HAVE \A y \in s : x >= y
      <4>1. x >= k /\ x \in 1 .. k
        BY <2>6
      <4> QED BY <2>1, <4>1
    <3> QED BY <2>6, <3>1, <3>2 DEF Max
  <2>7. ASSUME NEW s \in SUBSET (1 .. k), k \notin s PROVE h[s] = g[s]
    BY <2>7
  <2>8. ASSUME NEW s \in SUBSET (1 .. k) PROVE E(s) = F(s)
    <3>1. CASE k \in s
      <4>1. h[s \ {k}] = g[s \ {k}]
        BY <2>7
      <4>2. E(s) = AddToTrace(g[s \ {k}], rows[k].event)
        BY <3>1
      <4>3. F(s) = AddToTrace(h[s \ {k}], rows[k].event)
        <5> HIDE DEF h
        <5> QED BY <2>6, <3>1
      <4> QED BY <4>1, <4>2, <4>3
    <3>2. CASE k \notin s
      <4>1. E(s) = g[s] /\ g[s] = G(s)
        <5>1. s \ {k} = s
          BY <3>2
        <5> HIDE DEF G
        <5> QED BY <2>4, <2>5, <3>2, <5>1
      <4>2. h[s \ {Max(s)}] = g[s \ {Max(s)}]
        <5>1. s \ {Max(s)} \in SUBSET (1 .. k) /\ k \notin s \ {Max(s)}
          BY <3>2
        <5> QED BY <2>7, <5>1
      <4> HIDE DEF h
      <4> QED BY <4>1, <4>2
    <3> QED BY <3>1, <3>2
  <2>9. h = [s \in SUBSET (1 .. k) |-> F(s)]
    <3> HIDE DEF E, F
    <3> QED BY <2>8
  <2>10. Replays(h, k)
    <3> HIDE DEF E
    <3> QED BY <2>9 DEF Replays
  <2> HIDE DEF h
  <2> QED BY <1>1, <2>10
<1> QED BY <1>2, <1>3

\* Trace is the replay of all rows.
LEMMA TraceReplays ==
    ASSUME Typed
    PROVE  \E h : Replays(h, Len(rows)) /\ Trace = h[1 .. Len(rows)]
<1> DEFINE H == CHOOSE h : Replays(h, Len(rows))
<1>1. DOMAIN rows = 1 .. Len(rows) /\ Len(rows) \in Nat
  BY LenProperties DEF Typed
<1>2. Trace = H[1 .. Len(rows)]
  BY <1>1 DEF Trace, FoldLeft, MapThenFoldSet, Replays
<1>3. Replays(H, Len(rows))
  BY <1>1, ReplayExists
<1> HIDE DEF H
<1> QED BY <1>2, <1>3

\* The replay of n rows adds the last one to that of the others.
LEMMA ReplayAt ==
    ASSUME NEW h, NEW n \in Nat, Replays(h, n)
    PROVE  /\ h[{}] = <<>>
           /\ \A k \in 1 .. n : h[1 .. k] = AddToTrace(h[1 .. k - 1], rows[k].event)
<1> DEFINE F(s) == IF s = {} THEN <<>> ELSE AddToTrace(h[s \ {Max(s)}], rows[Max(s)].event)
<1>1. \A s \in SUBSET (1 .. n) : h[s] = F(s)
  <2>1. h = [s \in SUBSET (1 .. n) |-> F(s)]
    BY DEF Replays
  <2> HIDE DEF F
  <2> QED BY <2>1
<1>2. h[{}] = <<>>
  BY <1>1
<1>3. ASSUME NEW k \in 1 .. n PROVE h[1 .. k] = AddToTrace(h[1 .. k - 1], rows[k].event)
  <2>1. 1 .. k \in SUBSET (1 .. n) /\ k \in 1 .. k /\ 1 .. k # {}
    OBVIOUS
  <2>2. Max(1 .. k) = k
    <3>1. \A y \in 1 .. k : k >= y
      OBVIOUS
    <3>2. \A x \in 1 .. k : (\A y \in 1 .. k : x >= y) => x = k
      <4> TAKE x \in 1 .. k
      <4> HAVE \A y \in 1 .. k : x >= y
      <4>1. x >= k
        BY <2>1
      <4> QED BY <4>1
    <3> QED BY <2>1, <3>1, <3>2 DEF Max
  <2>3. (1 .. k) \ {k} = 1 .. k - 1
    OBVIOUS
  <2> QED BY <1>1, <2>1, <2>2, <2>3
<1> QED BY <1>2, <1>3

\* The starts among the first n rows.
Started(n) == {rows[i].event : i \in {j \in 1 .. n : Type(rows[j].event) = "start"}}

\* The first start, where there is one, and the rows from f to n.
Opens(f) ==
    /\ f \in DOMAIN rows /\ Type(rows[f].event) = "start"
    /\ \A i \in 1 .. f - 1 : Type(rows[i].event) # "start"

From(f, n) == [i \in 1 .. n + 1 - f |-> rows[f + i - 1].event]

\* steps is what a replay of the first n rows should be.
Told(steps, n) ==
    /\ steps \in Seq(Seq(Event))
    /\ \A i \in DOMAIN steps : steps[i] # <<>> /\ Type(steps[i][1]) = "start"
    /\ IsFiniteSet(Started(n)) /\ Len(steps) = Cardinality(Started(n))
    /\ steps = <<>> => \A i \in 1 .. n : Type(rows[i].event) # "start"
    /\ steps # <<>> => \E f, g : /\ f \in 1 .. n /\ Opens(f) /\ Tells(g, steps)
                                 /\ g[Len(steps)] = From(f, n)

\* One row more.
LEMMA FromOn ==
    ASSUME Typed, NEW n \in 1 .. Len(rows), NEW f \in 1 .. n - 1
    PROVE  Append(From(f, n - 1), rows[n].event) = From(f, n)
<1> DEFINE e == rows[n].event
           k == n - f
<1>1. /\ Len(rows) \in Nat /\ n \in Nat /\ f \in Nat /\ k \in Nat /\ k > 0
      /\ e \in Event /\ \A i \in 1 .. n : rows[i].event \in Event
  <2>1. Len(rows) \in Nat /\ rows \in [1 .. Len(rows) -> StoredRow]
    BY LenProperties DEF Typed
  <2>2. \A i \in 1 .. Len(rows) : rows[i].event \in Event
    BY <2>1 DEF StoredRow
  <2> QED BY <2>1, <2>2
<1>2. n - 1 + 1 - f = k /\ n + 1 - f = k + 1 /\ f + (k + 1) - 1 = n
  BY <1>1
<1>3. From(f, n - 1) \in Seq(Event) /\ Len(From(f, n - 1)) = k
  <2>1. From(f, n - 1) \in [1 .. k -> Event]
    <3>1. \A i \in 1 .. k : f + i - 1 \in 1 .. n
      BY <1>1
    <3> QED BY <1>1, <1>2, <3>1 DEF From
  <2> QED BY <1>1, <2>1, LenProperties, SeqDef
<1>4. From(f, n) \in Seq(Event) /\ Len(From(f, n)) = k + 1
  <2>1. From(f, n) \in [1 .. k + 1 -> Event]
    <3>1. \A i \in 1 .. k + 1 : f + i - 1 \in 1 .. n
      BY <1>1
    <3> QED BY <1>1, <1>2, <3>1 DEF From
  <2> QED BY <1>1, <2>1, LenProperties, SeqDef
<1>5. /\ Append(From(f, n - 1), e) \in Seq(Event)
      /\ Len(Append(From(f, n - 1), e)) = k + 1
      /\ \A i \in 1 .. k : Append(From(f, n - 1), e)[i] = From(f, n - 1)[i]
      /\ Append(From(f, n - 1), e)[k + 1] = e
  <2> HIDE DEF e, k
  <2> QED BY <1>1, <1>3, AppendProperties
<1>6. \A i \in 1 .. k + 1 : Append(From(f, n - 1), e)[i] = From(f, n)[i]
  <2> TAKE i \in 1 .. k + 1
  <2>1. i = k + 1 \/ i \in 1 .. k
    BY <1>1
  <2>2. \A j \in 1 .. k : From(f, n - 1)[j] = From(f, n)[j]
    BY <1>1, <1>2 DEF From
  <2>3. From(f, n)[k + 1] = e
    BY <1>1, <1>2 DEF From
  <2> HIDE DEF e, k
  <2> QED BY <1>5, <2>1, <2>2, <2>3
<1> HIDE DEF e, k
<1>7. Append(From(f, n - 1), e) = From(f, n)
  BY <1>1, <1>4, <1>5, <1>6, SeqEqual
<1> QED BY <1>7 DEF e

\* After some start.
LEMMA ToldIs ==
    ASSUME NEW steps \in Seq(Seq(Event)), steps # <<>>, NEW n \in Nat,
           \A i \in 1 .. Len(steps) : steps[i] # <<>> /\ Type(steps[i][1]) = "start",
           IsFiniteSet(Started(n)), Len(steps) = Cardinality(Started(n)),
           NEW f \in 1 .. n, Opens(f),
           NEW g, Tells(g, steps), g[Len(steps)] = From(f, n)
    PROVE  Told(steps, n)
<1>1. \A i \in DOMAIN steps : steps[i] # <<>> /\ Type(steps[i][1]) = "start"
  BY LenProperties
<1>2. \E d, h : d \in 1 .. n /\ Opens(d) /\ Tells(h, steps) /\ h[Len(steps)] = From(d, n)
  OBVIOUS
<1> QED BY <1>1, <1>2, Zenon DEF Told

\* A start opens a step, another event goes to the one before, where there is
\* one, and nothing is left out.
LEMMA ToldOn ==
    ASSUME Typed, InOrder, NEW n \in 1 .. Len(rows), NEW steps, Told(steps, n - 1)
    PROVE  Told(AddToTrace(steps, rows[n].event), n)
<1> DEFINE e == rows[n].event
           m == Len(steps)
<1>1. /\ Len(rows) \in Nat /\ n \in Nat /\ n > 0 /\ n - 1 \in Nat
      /\ DOMAIN rows = 1 .. Len(rows) /\ e \in Event
      /\ \A i \in 1 .. n : rows[i].event \in Event
  <2>1. Len(rows) \in Nat /\ rows \in [1 .. Len(rows) -> StoredRow]
    BY LenProperties DEF Typed
  <2>2. \A i \in 1 .. Len(rows) : rows[i].event \in Event
    BY <2>1 DEF StoredRow
  <2> QED BY <2>1, <2>2
<1>2. /\ steps \in Seq(Seq(Event)) /\ m \in Nat /\ DOMAIN steps = 1 .. m
      /\ IsFiniteSet(Started(n - 1)) /\ m = Cardinality(Started(n - 1))
      /\ \A i \in 1 .. m : steps[i] \in Seq(Event) /\ steps[i] # <<>> /\ Type(steps[i][1]) = "start"
  <2>1. steps \in Seq(Seq(Event))
    BY DEF Told
  <2> QED BY <2>1, LenProperties DEF Told
<1>3. /\ 1 .. n - 1 \subseteq 1 .. n /\ n \in 1 .. n /\ n \in DOMAIN rows
      /\ \A i \in 1 .. n : i = n \/ i \in 1 .. n - 1
  BY <1>1
<1>4. ASSUME steps # <<>>
      PROVE  /\ m \in 1 .. m
             /\ \E f, g : /\ f \in 1 .. n - 1 /\ Opens(f) /\ Tells(g, steps)
                          /\ g[m] = From(f, n - 1)
  <2>1. m # 0
    BY <1>2, <1>4, EmptySeq
  <2>2. m \in 1 .. m
    <3>1. m \in Nat
      BY <1>2
    <3> HIDE DEF m
    <3> QED BY <2>1, <3>1
  <2> QED BY <1>4, <2>2 DEF Told
<1>6. CASE Type(e) = "start"
  <2>1. AddToTrace(steps, e) = Append(steps, <<e>>)
    BY <1>6 DEF AddToTrace
  <2>2. <<e>> \in Seq(Event) /\ <<e>> # <<>> /\ <<e>>[1] = e
    BY <1>1
  <2> DEFINE more == Append(steps, <<e>>)
  <2>3. /\ more \in Seq(Seq(Event)) /\ more # <<>> /\ Len(more) = m + 1 /\ DOMAIN more = 1 .. m + 1
        /\ more[m + 1] = <<e>> /\ \A i \in 1 .. m : more[i] = steps[i]
    <3> HIDE DEF e
    <3> QED BY <1>2, <2>2, AppendProperties, LenProperties
  <2> HIDE DEF more
  <2>4. \A i \in 1 .. m + 1 : more[i] # <<>> /\ Type(more[i][1]) = "start"
    <3> TAKE i \in 1 .. m + 1
    <3>1. i = m + 1 \/ i \in 1 .. m
      <4>1. m \in Nat
        BY <1>2
      <4> HIDE DEF m
      <4> QED BY <4>1
    <3> QED BY <1>2, <1>6, <2>2, <2>3, <3>1
  <2>5. Started(n) = Started(n - 1) \cup {e} /\ e \notin Started(n - 1)
    <3>1. Started(n) = Started(n - 1) \cup {e}
      <4>1. \A i \in 1 .. n : i = n \/ i \in 1 .. n - 1
        BY <1>1
      <4>2. n \in 1 .. n /\ 1 .. n - 1 \subseteq 1 .. n
        BY <1>1
      <4> QED BY <1>6, <4>1, <4>2 DEF Started
    <3>2. ASSUME NEW i \in 1 .. n - 1, rows[i].event = e PROVE FALSE
      <4>1. i \in DOMAIN rows /\ n \in DOMAIN rows /\ i < n
        BY <1>1
      <4>2. e[2] < e[2] /\ e[2] \in 1 .. MaxEvents
        BY <1>1, <3>2, <4>1 DEF InOrder, Event
      <4> QED BY <4>2
    <3> QED BY <3>1, <3>2 DEF Started
  <2>6. IsFiniteSet(Started(n)) /\ Cardinality(Started(n)) = m + 1
    <3> HIDE DEF e
    <3> QED BY <1>2, <2>5, FS_AddElement
  <2>7. \E f, g : f \in 1 .. n /\ Opens(f) /\ Tells(g, more) /\ g[m + 1] = From(f, n)
    <3>1. CASE steps = <<>>
      <4>1. m = 0 /\ \A i \in 1 .. n - 1 : Type(rows[i].event) # "start"
        BY <3>1 DEF Told
      <4>2. Opens(n)
        BY <1>3, <1>6, <4>1 DEF Opens
      <4>3. From(n, n) = <<e>>
        BY <1>1 DEF From
      <4> DEFINE g == [i \in 1 .. 1 |-> <<e>>]
      <4>4. Tells(g, more) /\ g[1] = <<e>>
        <5>1. Len(more) = 1 /\ more[1] = <<e>>
          BY <2>3, <4>1
        <5> QED BY <5>1 DEF Tells
      <4> HIDE DEF g
      <4> QED BY <1>3, <4>1, <4>2, <4>3, <4>4
    <3>2. CASE steps # <<>>
      <4>1. PICK f, g : /\ f \in 1 .. n - 1 /\ Opens(f) /\ Tells(g, steps)
                        /\ g[m] = From(f, n - 1)
        BY <1>4, <3>2
      <4>2. PICK h : Tells(h, more) /\ h[m + 1] = Append(g[m], e)
        <5>1. m \in 1 .. m
          BY <1>4, <3>2
        <5> HIDE DEF e
        <5> QED BY <1>1, <1>2, <3>2, <4>1, <5>1, TellsAppend DEF more
      <4>3. h[m + 1] = From(f, n)
        BY <4>1, <4>2, FromOn
      <4> QED BY <1>3, <4>1, <4>2, <4>3
    <3> QED BY <3>1, <3>2
  <2>8. Told(more, n)
    <3>1. PICK f, g : f \in 1 .. n /\ Opens(f) /\ Tells(g, more) /\ g[m + 1] = From(f, n)
      BY <2>7
    <3> HIDE DEF m
    <3> QED BY <1>1, <2>3, <2>4, <2>6, <3>1, ToldIs
  <2> QED BY <2>1, <2>8 DEF more
<1>7. Type(e) # "start" => Started(n) = Started(n - 1)
  BY <1>3 DEF Started
<1>8. CASE Type(e) # "start" /\ steps = <<>>
  <2>1. AddToTrace(steps, e) = steps
    BY <1>8 DEF AddToTrace
  <2>2. \A i \in 1 .. n : Type(rows[i].event) # "start"
    BY <1>3, <1>8 DEF Told
  <2>3. Told(steps, n)
    BY <1>2, <1>7, <1>8, <2>2 DEF Told
  <2> QED BY <2>1, <2>3
<1>9. CASE Type(e) # "start" /\ steps # <<>>
  <2>2. m \in 1 .. m /\ AddToTrace(steps, e) = [steps EXCEPT ![m] = Append(@, e)]
    BY <1>4, <1>9 DEF AddToTrace
  <2> DEFINE more == [steps EXCEPT ![m] = Append(@, e)]
  <2>3. /\ Append(steps[m], e) \in Seq(Event) /\ Append(steps[m], e) # <<>>
        /\ Append(steps[m], e)[1] = steps[m][1]
    <3>1. steps[m] \in Seq(Event) /\ steps[m] # <<>>
      BY <1>2, <2>2
    <3>2. Len(steps[m]) \in Nat /\ Len(steps[m]) # 0
      BY <3>1, LenProperties, EmptySeq
    <3> HIDE DEF e, m
    <3> QED BY <1>1, <3>1, <3>2, AppendProperties
  <2>4. /\ more \in Seq(Seq(Event)) /\ Len(more) = m /\ DOMAIN more = 1 .. m
        /\ more[m] = Append(steps[m], e) /\ \A i \in 1 .. m : i # m => more[i] = steps[i]
    <3>1. more \in Seq(Seq(Event)) /\ Len(more) = m
      <4> HIDE DEF e
      <4> QED BY <1>2, <2>2, <2>3, ExceptSeq
    <3> HIDE DEF e, m
    <3> QED BY <1>2, <2>2, <3>1, LenProperties
  <2> HIDE DEF more
  <2>5. \A i \in 1 .. m : more[i] # <<>> /\ Type(more[i][1]) = "start"
    BY <1>2, <2>2, <2>3, <2>4
  <2>7. \E f, g : f \in 1 .. n /\ Opens(f) /\ Tells(g, more) /\ g[m] = From(f, n)
    <3>1. PICK f, g : /\ f \in 1 .. n - 1 /\ Opens(f) /\ Tells(g, steps)
                      /\ g[m] = From(f, n - 1)
      BY <1>4, <1>9
    <3>2. PICK h : Tells(h, more) /\ h[m] = Append(g[m], e)
      <4> HIDE DEF e
      <4> QED BY <1>1, <1>2, <1>9, <2>2, <3>1, TellsExtend DEF more
    <3>3. h[m] = From(f, n)
      BY <3>1, <3>2, FromOn
    <3> QED BY <1>3, <3>1, <3>2, <3>3
  <2>8. more # <<>>
    <3>1. DOMAIN more # {}
      BY <2>2, <2>4
    <3> QED BY <3>1
  <2>9. Told(more, n)
    <3>1. PICK f, g : f \in 1 .. n /\ Opens(f) /\ Tells(g, more) /\ g[m] = From(f, n)
      BY <2>7
    <3>2. IsFiniteSet(Started(n)) /\ Len(more) = Cardinality(Started(n))
      BY <1>2, <1>7, <1>9, <2>4
    <3> HIDE DEF m
    <3> QED BY <1>1, <2>4, <2>5, <2>8, <3>1, <3>2, ToldIs
  <2> QED BY <2>2, <2>9 DEF more
<1> QED BY <1>6, <1>8, <1>9

\* So the trace of all rows is as it should be.
LEMMA TraceTold ==
    ASSUME Typed, InOrder
    PROVE  Told(Trace, Len(rows))
<1>1. Len(rows) \in Nat
  BY LenProperties DEF Typed
<1>2. PICK h : Replays(h, Len(rows)) /\ Trace = h[1 .. Len(rows)]
  BY TraceReplays
<1> DEFINE T == {n \in 0 .. Len(rows) : ~ Told(h[1 .. n], n)}
<1>3. ASSUME T # {} PROVE FALSE
  <2> DEFINE n == Min(T)
  <2>1. n \in T /\ \A j \in T : n <= j
    <3>1. T \subseteq Nat
      BY <1>1
    <3> HIDE DEF T
    <3> QED BY <1>3, <3>1, MinOfNat
  <2> HIDE DEF n
  <2>2. CASE n = 0
    <3>1. 1 .. 0 = {} /\ Started(0) = {}
      BY DEF Started
    <3>2. h[1 .. 0] = <<>>
      BY <1>1, <1>2, <3>1, ReplayAt
    <3>3. Told(<<>>, 0)
      BY <3>1, FS_EmptySet DEF Told
    <3> QED BY <2>1, <2>2, <3>2, <3>3
  <2>3. CASE n # 0
    <3>1. n \in 1 .. Len(rows) /\ n - 1 \in 0 .. Len(rows) /\ n - 1 < n
      BY <1>1, <2>1, <2>3
    <3>2. n - 1 \notin T
      BY <1>1, <2>1, <3>1
    <3>3. Told(h[1 .. n - 1], n - 1)
      BY <3>1, <3>2
    <3>4. h[1 .. n] = AddToTrace(h[1 .. n - 1], rows[n].event)
      BY <1>1, <1>2, <3>1, ReplayAt
    <3>5. Told(h[1 .. n], n)
      <4> HIDE DEF T
      <4> QED BY <3>1, <3>3, <3>4, ToldOn
    <3> QED BY <2>1, <3>5
  <2> QED BY <2>2, <2>3
<1>4. Len(rows) \in 0 .. Len(rows)
  BY <1>1
<1>5. Told(h[1 .. Len(rows)], Len(rows))
  BY <1>3, <1>4
<1> QED BY <1>2, <1>5

\* A row more stays in order, and takes nothing away.
LEMMA InOrderKept ==
    ASSUME Typed, InOrder, Log!Next
    PROVE  InOrder'
<1>1. PICK at \in 1 .. Len(rows) + 1 : Log!Write(at)
  BY DEF Log!Next
<1> DEFINE new == rows'[at]
<1>2. /\ rows' = Log!InsertAt(rows, at, new)
      /\ new \in StoredRow
      /\ \A i \in at .. Len(rows) : rows[i].event[1] # new.event[1]
      /\ \A i \in DOMAIN rows : rows[i].event[1] = new.event[1] => rows[i].event[2] < new.event[2]
  BY <1>1 DEF Log!Write, StoredRow, Event
<1> HIDE DEF new
<1>3. rows' = InsertAt(rows, at, new)
  BY <1>2 DEF InsertAt, Log!InsertAt
<1>4. Len(rows) \in Nat /\ DOMAIN rows = 1 .. Len(rows) /\ rows \in Seq(StoredRow)
  BY LenProperties DEF Typed
<1>5. /\ Len(rows') = Len(rows) + 1 /\ DOMAIN rows' = 1 .. Len(rows) + 1
      /\ rows'[at] = new
      /\ \A i \in 1 .. at - 1 : rows'[i] = rows[i]
      /\ \A i \in at + 1 .. Len(rows) + 1 : rows'[i] = rows[i - 1]
  <2>1. rows' \in Seq(StoredRow)
    BY <1>2, <1>3, <1>4, Inserted
  <2>2. DOMAIN rows' = 1 .. Len(rows')
    BY <2>1, LenProperties
  <2> DEFINE longer == InsertAt(rows, at, new)
  <2>3. /\ Len(longer) = Len(rows) + 1 /\ longer[at] = new
        /\ \A i \in 1 .. at - 1 : longer[i] = rows[i]
        /\ \A i \in at + 1 .. Len(rows) + 1 : longer[i] = rows[i - 1]
    BY <1>2, <1>4, Inserted
  <2> HIDE DEF longer
  <2>4. rows' = longer
    BY <1>3 DEF longer
  <2> QED BY <2>2, <2>3, <2>4
<1> SUFFICES ASSUME NEW i \in DOMAIN rows', NEW j \in DOMAIN rows', i < j,
                    rows'[i].event[1] = rows'[j].event[1]
             PROVE  rows'[i].event[2] < rows'[j].event[2]
  BY DEF InOrder
<1> DEFINE Old(k) == IF k < at THEN k ELSE k - 1
<1>6. ASSUME NEW k \in DOMAIN rows', k # at
      PROVE  rows'[k] = rows[Old(k)] /\ Old(k) \in DOMAIN rows
  <2>1. CASE k < at
    BY <1>4, <1>5, <2>1
  <2>2. CASE k > at
    BY <1>4, <1>5, <2>2
  <2> QED BY <1>4, <1>5, <1>6, <2>1, <2>2
<1>7. CASE i = at
  <2>1. j # at /\ Old(j) \in at .. Len(rows)
    BY <1>4, <1>5, <1>7
  <2> HIDE DEF Old
  <2> QED BY <1>2, <1>5, <1>6, <1>7, <2>1
<1>8. CASE j = at
  <2>1. i # at
    BY <1>4, <1>5, <1>8
  <2> HIDE DEF Old
  <2> QED BY <1>2, <1>5, <1>6, <1>8, <2>1
<1>9. CASE i # at /\ j # at
  <2>1. Old(i) < Old(j)
    BY <1>4, <1>5, <1>9
  <2> HIDE DEF Old
  <2> QED BY <1>6, <1>9, <2>1 DEF InOrder
<1> QED BY <1>7, <1>8, <1>9

\* A log with a start has a first one.
LEMMA FirstFacts ==
    ASSUME Typed
    PROVE  /\ \A f : Opens(f) => FirstStart = f
           /\ (\A i \in 1 .. Len(rows) : Type(rows[i].event) # "start")
                => FirstStart = Len(rows) + 1
<1> DEFINE S == {Len(rows) + 1} \cup {i \in DOMAIN rows : Type(rows[i].event) = "start"}
<1>1. Len(rows) \in Nat /\ DOMAIN rows = 1 .. Len(rows)
  BY LenProperties DEF Typed
<1>2. FirstStart \in S /\ \A i \in S : FirstStart <= i
  <2>1. S \subseteq Nat /\ S # {}
    BY <1>1
  <2>2. FirstStart = Min(S)
    BY DEF FirstStart
  <2> HIDE DEF S
  <2> QED BY <2>1, <2>2, MinOfNat
<1>3. ASSUME NEW f, Opens(f) PROVE FirstStart = f
  <2>1. f \in S /\ f \in 1 .. Len(rows) /\ \A i \in 1 .. f - 1 : i \notin S
    BY <1>1, <1>3 DEF Opens
  <2>2. FirstStart \in Nat /\ FirstStart >= 1 /\ FirstStart <= f
    BY <1>1, <1>2, <2>1
  <2>3. FirstStart \notin 1 .. f - 1
    BY <1>2, <2>1
  <2> HIDE DEF S
  <2> QED BY <2>1, <2>2, <2>3
<1>4. ASSUME \A i \in 1 .. Len(rows) : Type(rows[i].event) # "start"
      PROVE  FirstStart = Len(rows) + 1
  BY <1>1, <1>2, <1>4
<1> QED BY <1>3, <1>4

\* ReplayTrace.from_events (replay.py:59): from whatever store, and after
\* whatever happened to its publishers, the replay has a step for every start,
\* each begins with it, and together they tell every event from the first
\* start on once and in the order of the log.
THEOREM ReplayTellsAll == Spec => []TraceTellsAll
<1>1. Init => InOrder
  BY DEF Init, InOrder
<1>2. Inv /\ Inv' /\ InOrder /\ [Next]_vars => InOrder'
  <2> SUFFICES ASSUME Inv, InOrder, [Next]_vars PROVE InOrder'
    OBVIOUS
  <2>1. Typed
    BY DEF Inv, PublishInv
  <2>2. UNCHANGED <<Promise, rows>> => InOrder'
    BY DEF InOrder
  <2> QED BY <2>1, <2>2, StepIsLogged, InOrderKept
<1>4. Inv /\ InOrder => TraceTellsAll
  <2> SUFFICES ASSUME Inv, InOrder PROVE TraceTellsAll
    OBVIOUS
  <2>1. /\ Typed /\ Len(rows) \in Nat /\ DOMAIN rows = 1 .. Len(rows)
        /\ Told(Trace, Len(rows))
    BY TraceTold, LenProperties DEF Inv, PublishInv, Typed
  <2> DEFINE steps == Trace
  <2> HIDE DEF steps
  <2>2. Told(steps, Len(rows))
    BY <2>1 DEF steps
  <2>3. Started(Len(rows)) = {e \in Log!Written : Type(e) = "start"}
    BY <2>1 DEF Started, Log!Written
  <2>4. FlattenSeq(steps) = From(FirstStart, Len(rows))
    <3>1. CASE steps = <<>>
      <4>1. FirstStart = Len(rows) + 1
        BY <2>1, <2>2, <3>1, FirstFacts DEF Told
      <4>2. From(Len(rows) + 1, Len(rows)) = <<>>
        <5>1. 1 .. Len(rows) + 1 - (Len(rows) + 1) = {}
          BY <2>1
        <5> QED BY <5>1 DEF From
      <4>3. FlattenSeq(<<>>) = <<>>
        BY DEF FlattenSeq
      <4> QED BY <3>1, <4>1, <4>2, <4>3
    <3>2. CASE steps # <<>>
      <4>1. PICK f, g : /\ f \in 1 .. Len(rows) /\ Opens(f) /\ Tells(g, steps)
                        /\ g[Len(steps)] = From(f, Len(rows))
        BY <2>2, <3>2 DEF Told
      <4>2. FirstStart = f /\ steps \in Seq(Seq(Event))
        BY <2>1, <2>2, <4>1, FirstFacts DEF Told
      <4> QED BY <2>1, <3>2, <4>1, <4>2, FlattenIs
    <3> QED BY <3>1, <3>2
  <2>5. /\ \A i \in DOMAIN steps : Type(steps[i][1]) = "start"
        /\ Len(steps) = Cardinality({e \in Log!Written : Type(e) = "start"})
    BY <2>2, <2>3 DEF Told
  <2> QED BY <2>4, <2>5 DEF TraceTellsAll, From, steps
<1> QED BY <1>1, <1>2, <1>4, Invariant, PTL DEF Spec

=============================================================================
