-------------------------- MODULE MeteringTheorems --------------------------
(***************************************************************************)
(* Theorems about Cost and Metering, for every rate, request and answer    *)
(* and for integers of any width: what rounding and clamping promise, that *)
(* no product the code leaves unchecked can wrap around, and that a report *)
(* is the last of each number an answer says, however many events it has   *)
(* and wherever it is cut.                                                 *)
(***************************************************************************)
EXTENDS Metering, TotalsTheorems, SequenceTheorems, TLAPS

-----------------------------------------------------------------------------
(* Reading a piece of an answer *)

\* The buffers of the counter are this short.
LEMMA ShortSequences ==
    ASSUME NEW x, NEW y
    PROVE  /\ Append(<<>>, x) = <<x>> /\ Append(<<x>>, y) = <<x, y>>
           /\ <<>> \o <<x>> = <<x>> /\ <<x>> \o <<y>> = <<x, y>>
           /\ <<>> \o <<x, y>> = <<x, y>>
           /\ <<>> \o <<>> = <<>> /\ <<x>> \o <<>> = <<x>> /\ <<x, y>> \o <<>> = <<x, y>>
           /\ <<x>> # <<>> /\ <<x, y>> # <<>> /\ <<x, y>> # <<x>>
           /\ Len(<<x>>) = 1 /\ Len(<<x, y>>) = 2 /\ Len(<<>>) = 0
<1> DEFINE S == {x, y}
           s == Append(<<x>>, y)
           t == <<x>> \o <<y>>
<1>1. <<x>> \in Seq(S) /\ <<y>> \in Seq(S) /\ <<x, y>> \in Seq(S) /\ y \in S
  OBVIOUS
<1>2. s \in Seq(S) /\ Len(s) = 2 /\ s[1] = x /\ s[2] = y
  BY <1>1, AppendProperties
<1>3. t \in Seq(S) /\ Len(t) = 2 /\ t[1] = x /\ t[2] = y
  BY <1>1, ConcatProperties
<1> HIDE DEF s, t, S
<1>4. s = <<x, y>>
  <2>1. Len(s) = Len(<<x, y>>) /\ \A i \in 1 .. Len(s) : s[i] = <<x, y>>[i]
    BY <1>2
  <2> QED
    BY <1>1, <1>2, <2>1, SeqEqual
<1>5. t = <<x, y>>
  <2>1. Len(t) = Len(<<x, y>>) /\ \A i \in 1 .. Len(t) : t[i] = <<x, y>>[i]
    BY <1>3
  <2> QED
    BY <1>1, <1>3, <2>1, SeqEqual
<1>6. Append(<<>>, x) = <<x>>
  OBVIOUS
<1>7. <<>> \o <<x>> = <<x>> /\ <<>> \o <<x, y>> = <<x, y>> /\ <<>> \o <<>> = <<>>
  OBVIOUS
<1>8. <<x>> \o <<>> = <<x>> /\ <<x, y>> \o <<>> = <<x, y>>
  BY <1>1, ConcatEmptySeq
<1>9. /\ <<x>> # <<>> /\ <<x, y>> # <<>> /\ <<x, y>> # <<x>>
      /\ Len(<<x>>) = 1 /\ Len(<<x, y>>) = 2 /\ Len(<<>>) = 0
  OBVIOUS
<1> QED
  BY <1>4, <1>5, <1>6, <1>7, <1>8, <1>9 DEF s, t

LEMMA PieceFacts ==
    ASSUME NEW e \in Nat
    PROVE  /\ <<e, 1>> \in Pieces /\ <<e, 2>> \in Pieces /\ Newline \in Pieces
           /\ <<e, 1>> # Newline /\ <<e, 2>> # Newline /\ <<e, 1>> # <<e, 2>>
  BY DEF Pieces, Newline

LEMMA EventFacts ==
    ASSUME NEW events \in Seq(Events)
    PROVE  /\ Len(events) \in Nat /\ DOMAIN events = 1 .. Len(events)
           /\ \A e \in DOMAIN events :
                 /\ e \in Nat /\ e > 0 /\ e <= Len(events)
                 /\ events[e].out \in Nat /\ events[e].in \in Nat /\ events[e].cost \in Nat
                 /\ events[e].text \in Nat /\ events[e].early \in BOOLEAN
<1>1. Len(events) \in Nat /\ DOMAIN events = 1 .. Len(events)
  OBVIOUS
<1>2. ASSUME NEW e \in DOMAIN events PROVE events[e] \in Events
  BY <1>1, ElementOfSeq
<1> QED
  BY <1>1, <1>2 DEF Events

\* Only the whole of an event, or the first half of one that reports early, is
\* read as a report, and only the whole of it as text.
LEMMA Readings ==
    ASSUME NEW events \in Seq(Events), NEW e \in DOMAIN events
    PROVE  LET said == [out |-> events[e].out, in |-> events[e].in, cost |-> events[e].cost]
           IN  /\ UsageIn(events, <<<<e, 1>>, <<e, 2>>>>) = said
               /\ TextIn(events, <<<<e, 1>>, <<e, 2>>>>) = events[e].text
               /\ UsageIn(events, <<<<e, 1>>>>) = IF events[e].early THEN said ELSE NoUsage
               /\ TextIn(events, <<<<e, 1>>>>) = 0
<1> DEFINE both == <<<<e, 1>>, <<e, 2>>>>
           one == <<<<e, 1>>>>
<1>1. \A d \in DOMAIN events : (Whole(both, d) <=> d = e) /\ ~Cut(both, d)
  BY DEF Whole, Cut
<1>2. \A d \in DOMAIN events : (Cut(one, d) <=> d = e) /\ ~Whole(one, d)
  BY DEF Whole, Cut
<1>0. events[e].early \in BOOLEAN
  BY EventFacts
<1> HIDE DEF both, one
<1>3. Legible(events, both) = {e}
  BY <1>1 DEF Legible
<1>4. Legible(events, one) = IF events[e].early THEN {e} ELSE {}
  BY <1>0, <1>2 DEF Legible
<1>5. (CHOOSE d \in {e} : TRUE) = e
  OBVIOUS
<1>6. UsageIn(events, both) =
          [out |-> events[e].out, in |-> events[e].in, cost |-> events[e].cost]
  BY <1>3, <1>5 DEF UsageIn
<1>7. UsageIn(events, one) =
        IF events[e].early
        THEN [out |-> events[e].out, in |-> events[e].in, cost |-> events[e].cost] ELSE NoUsage
  BY <1>4, <1>5 DEF UsageIn
<1>8. TextIn(events, both) = events[e].text
  <2>1. (CHOOSE d \in DOMAIN events : Whole(both, d)) = e
    BY <1>1
  <2> QED
    BY <1>1, <2>1 DEF TextIn
<1>9. TextIn(events, one) = 0
  BY <1>2 DEF TextIn
<1> QED
  BY <1>6, <1>7, <1>8, <1>9 DEF both, one

LEMMA ReadingNothing ==
    ASSUME NEW events
    PROVE  UsageIn(events, <<>>) = NoUsage /\ TextIn(events, <<>>) = 0
<1>1. \A d \in DOMAIN events : ~Whole(<<>>, d) /\ ~Cut(<<>>, d)
  BY DEF Whole, Cut
<1>2. Legible(events, <<>>) = {}
  BY <1>1 DEF Legible
<1> QED
  BY <1>1, <1>2 DEF UsageIn, TextIn

-----------------------------------------------------------------------------
(* A stream *)

LEMMA LinesFacts ==
    ASSUME NEW e
    PROVE  /\ Len(Lines(e, FALSE)) = 4 /\ Len(Lines(e, TRUE)) = 5
           /\ Lines(e, FALSE)[1] = <<e, 1>> /\ Lines(e, FALSE)[2] = <<e, 2>>
           /\ Lines(e, FALSE)[3] = Newline /\ Lines(e, FALSE)[4] = Newline
           /\ Lines(e, TRUE)[1] = <<e, 1>> /\ Lines(e, TRUE)[2] = Newline
           /\ Lines(e, TRUE)[3] = <<e, 2>>
           /\ Lines(e, TRUE)[4] = Newline /\ Lines(e, TRUE)[5] = Newline
  BY DEF Lines

LEMMA LinesIf ==
    ASSUME NEW e, NEW split \in BOOLEAN
    PROVE  /\ ~split => /\ Lines(e, split)[1] = <<e, 1>> /\ Lines(e, split)[2] = <<e, 2>>
                        /\ Lines(e, split)[3] = Newline /\ Lines(e, split)[4] = Newline
           /\ split => /\ Lines(e, split)[1] = <<e, 1>> /\ Lines(e, split)[2] = Newline
                       /\ Lines(e, split)[3] = <<e, 2>>
                       /\ Lines(e, split)[4] = Newline /\ Lines(e, split)[5] = Newline
<1>1. CASE split = TRUE
  BY <1>1, LinesFacts
<1>2. CASE split = FALSE
  BY <1>2, LinesFacts
<1> QED
  BY <1>1, <1>2

PeriodIf(split) == IF split THEN 5 ELSE 4

LEMMA Positions ==
    ASSUME NEW i \in Nat, i > 0, NEW p \in {4, 5}
    PROVE  LET m == (i - 1) \div p
               j == (i - 1) % p
           IN  /\ m \in Nat /\ j \in 0 .. p - 1 /\ i = p * m + j + 1
               /\ \A k \in Nat, l \in 0 .. p - 1 : i = p * k + l + 1 => k = m /\ l = j
<1>1. CASE p = 4
  BY <1>1
<1>2. CASE p = 5
  BY <1>2
<1> QED
  BY <1>1, <1>2

\* The stream is event after event, PeriodIf pieces each.
LEMMA StreamFacts ==
    ASSUME NEW a \in Answers
    PROVE  LET p == PeriodIf(a.split)
               size == Len(a.events)
           IN  /\ size \in Nat /\ DOMAIN Stream(a) = 1 .. p * size
               /\ Stream(a) \in Seq(Pieces) /\ Len(Stream(a)) = p * size
               /\ \A m \in Nat, j \in 0 .. p - 1 : m < size =>
                     /\ p * m + j + 1 \in 1 .. p * size
                     /\ Stream(a)[p * m + j + 1] = Lines(m + 1, a.split)[j + 1]
               /\ \A i \in 1 .. p * size : \E m \in Nat, j \in 0 .. p - 1 :
                     m < size /\ i = p * m + j + 1
<1> DEFINE p == PeriodIf(a.split)
           size == Len(a.events)
<1>1. a.split \in BOOLEAN /\ size \in Nat
  BY AnswersAssumption
<1>2. p \in {4, 5} /\ Period(a) = p
  BY <1>1, LinesFacts DEF Period, PeriodIf
<1>3. DOMAIN Stream(a) = 1 .. p * size
  BY <1>2 DEF Stream
<1>4. p * size \in Nat
  BY <1>1, <1>2
<1>5. ASSUME NEW i \in 1 .. p * size
      PROVE  \E m \in Nat, j \in 0 .. p - 1 : m < size /\ i = p * m + j + 1
  <2>1. i \in Nat /\ i > 0 /\ i <= p * size
    BY <1>4
  <2> DEFINE m == (i - 1) \div p
             j == (i - 1) % p
  <2>2. m \in Nat /\ j \in 0 .. p - 1 /\ i = p * m + j + 1
    BY <1>2, <2>1, Positions
  <2> HIDE DEF m, j
  <2>3. m < size
    BY <1>1, <1>2, <2>1, <2>2
  <2> QED
    BY <2>2, <2>3
<1>6. ASSUME NEW m \in Nat, NEW j \in 0 .. p - 1, m < size
      PROVE  /\ p * m + j + 1 \in 1 .. p * size
             /\ Stream(a)[p * m + j + 1] = Lines(m + 1, a.split)[j + 1]
  <2> DEFINE i == p * m + j + 1
  <2>1. i \in Nat /\ i > 0 /\ i \in 1 .. p * size
    BY <1>1, <1>2, <1>6
  <2>2. m = (i - 1) \div p /\ j = (i - 1) % p
    BY <1>2, <2>1, Positions
  <2>3. Stream(a)[i] = Lines(1 + ((i - 1) \div p), a.split)[1 + ((i - 1) % p)]
    BY <1>2, <2>1 DEF Stream
  <2> HIDE DEF i
  <2>4. Stream(a)[i] = Lines(1 + m, a.split)[1 + j]
    BY <2>2, <2>3
  <2>5. 1 + m = m + 1 /\ 1 + j = j + 1
    BY <1>2
  <2>6. Stream(a)[i] = Lines(m + 1, a.split)[j + 1]
    BY <2>4, <2>5
  <2> QED
    BY <2>1, <2>6 DEF i
<1>7. ASSUME NEW i \in 1 .. p * size PROVE Stream(a)[i] \in Pieces
  <2>1. PICK m \in Nat, j \in 0 .. p - 1 : m < size /\ i = p * m + j + 1
    BY <1>5
  <2>2. Stream(a)[i] = Lines(m + 1, a.split)[j + 1]
    BY <1>6, <2>1
  <2>3. m + 1 \in Nat
    OBVIOUS
  <2> DEFINE e == m + 1
             k == j + 1
  <2>4. Lines(e, a.split)[k] \in {<<e, 1>>, <<e, 2>>, Newline}
    <3>1. CASE a.split
      <4>1. /\ a.split = TRUE
            /\ k \in {1, 2, 3, 4, 5}
        BY <3>1 DEF PeriodIf
      <4> HIDE DEF e, k
      <4> QED
        BY <4>1, LinesFacts
    <3>2. CASE ~a.split
      <4>1. /\ a.split = FALSE
            /\ k \in {1, 2, 3, 4}
        BY <1>1, <3>2 DEF PeriodIf
      <4> HIDE DEF e, k
      <4> QED
        BY <4>1, LinesFacts
    <3> QED
      BY <3>1, <3>2
  <2> QED
    BY <2>2, <2>3, <2>4, PieceFacts
<1>8. Stream(a) \in Seq(Pieces) /\ Len(Stream(a)) = p * size
  <2>1. Stream(a) \in [1 .. p * size -> Pieces]
    BY <1>2, <1>7 DEF Stream
  <2> QED
    BY <1>4, <2>1
<1> QED
  BY <1>1, <1>3, <1>5, <1>6, <1>8

-----------------------------------------------------------------------------
(* What has been read so far *)

\* Of the first n events, this is the last that reports the field (0: none).
Newest(events, field, n, last) ==
    /\ last \in 0 .. n
    /\ last > 0 => events[last][field] > 0
    /\ \A e \in last + 1 .. n : events[e][field] = 0
ValueAt(events, field, last) == IF last = 0 THEN 0 ELSE events[last][field]
TextBetween(events, last, n) ==
    [e \in DOMAIN events |-> IF e > last /\ e <= n THEN events[e].text ELSE 0]

\* c is the reports of the first r events and the text of the first t.
Tally(events, c, t, r) ==
    /\ \E last \in Nat :
          Newest(events, "in", r, last) /\ c.in = ValueAt(events, "in", last)
    /\ \E last \in Nat :
          Newest(events, "cost", r, last) /\ c.cost = ValueAt(events, "cost", last)
    /\ \E last \in Nat :
          /\ Newest(events, "out", r, last)
          /\ c.out = ValueAt(events, "out", last) + Total(TextBetween(events, last, t))

LEMMA TextTotals ==
    ASSUME NEW events \in Seq(Events), NEW last \in Nat, NEW n \in Nat
    PROVE  /\ Total(TextBetween(events, last, n)) \in Nat
           /\ n <= last => Total(TextBetween(events, last, n)) = 0
           /\ last <= n /\ n < Len(events) =>
                 Total(TextBetween(events, last, n + 1)) =
                     Total(TextBetween(events, last, n)) + events[n + 1].text
<1> DEFINE f == TextBetween(events, last, n)
           g == TextBetween(events, last, n + 1)
<1>1. Len(events) \in Nat /\ DOMAIN events = 1 .. Len(events)
  BY EventFacts
<1>2. IsFiniteSet(DOMAIN events)
  BY <1>1, FS_Interval
<1>3. f \in [DOMAIN events -> Nat]
  BY EventFacts DEF TextBetween
<1>4. Total(f) \in Nat
  BY <1>2, <1>3, TotalType
<1>5. ASSUME n <= last PROVE Total(f) = 0
  <2>1. f = [e \in DOMAIN events |-> 0]
    BY <1>1, <1>5 DEF TextBetween
  <2> QED
    BY <2>1, TotalZero
<1>6. ASSUME last <= n, n < Len(events)
      PROVE  Total(g) = Total(f) + events[n + 1].text
  <2> DEFINE e == n + 1
  <2>1. e \in DOMAIN events /\ events[e].text \in Nat
    BY <1>1, <1>6, EventFacts
  <2>2. f[e] = 0
    BY <2>1 DEF TextBetween
  <2>3. g = [f EXCEPT ![e] = events[e].text]
    <3>1. ASSUME NEW d \in DOMAIN events PROVE g[d] = [f EXCEPT ![e] = events[e].text][d]
      <4>1. d \in Nat
        BY <1>1
      <4>2. CASE d = e
        BY <4>2, <1>3, <1>6 DEF TextBetween
      <4>3. CASE d # e
        BY <4>1, <4>3, <1>3, <1>6 DEF TextBetween
      <4> QED
        BY <4>2, <4>3
    <3>2. g \in [DOMAIN events -> Nat] /\ [f EXCEPT ![e] = events[e].text] \in [DOMAIN events -> Nat]
      BY <1>3, <2>1, EventFacts DEF TextBetween
    <3> HIDE DEF f, g, e
    <3> QED
      BY <3>1, <3>2
  <2> HIDE DEF f, g, e
  <2>4. Total([f EXCEPT ![e] = events[e].text]) = Total(f) - f[e] + events[e].text
    BY <1>2, <1>3, <2>1, TotalUpdate
  <2>5. Total(g) = Total(f) + events[e].text
    BY <1>4, <2>1, <2>2, <2>3, <2>4
  <2> QED
    BY <2>5 DEF e
<1> QED
  BY <1>4, <1>5, <1>6

LEMMA NewestStep ==
    ASSUME NEW events \in Seq(Events), NEW field \in {"in", "cost", "out"},
           NEW n \in Nat, n < Len(events), NEW last \in Nat, Newest(events, field, n, last)
    PROVE  LET e == n + 1
               new == IF events[e][field] > 0 THEN e ELSE last
           IN  /\ new \in Nat /\ Newest(events, field, e, new)
               /\ ValueAt(events, field, new) =
                     Latest(events[e][field], ValueAt(events, field, last))
<1> DEFINE e == n + 1
<1>1. e \in DOMAIN events /\ e \in Nat /\ e > 0
  BY EventFacts
<1>2. events[e][field] \in Nat
  BY <1>1, EventFacts
<1>3. CASE events[e][field] > 0
  <2>1. e + 1 .. e = {}
    OBVIOUS
  <2>2. Newest(events, field, e, e) /\ ValueAt(events, field, e) = events[e][field]
    BY <1>1, <1>3, <2>1 DEF Newest, ValueAt
  <2> QED
    BY <1>1, <1>3, <2>2 DEF Latest
<1>4. CASE ~(events[e][field] > 0)
  <2>1. events[e][field] = 0
    BY <1>2, <1>4
  <2>2. last + 1 .. e = (last + 1 .. n) \cup {e}
    BY DEF Newest
  <2>3. Newest(events, field, e, last)
    <3>1. last \in 0 .. e
      BY DEF Newest
    <3>2. \A d \in last + 1 .. e : events[d][field] = 0
      BY <2>1, <2>2 DEF Newest
    <3> QED
      BY <3>1, <3>2 DEF Newest
  <2> QED
    BY <1>4, <2>3 DEF Latest
<1> QED
  BY <1>3, <1>4

\* The next event is read as a report, and as text unless it is cut.
LEMMA TallyStep ==
    ASSUME NEW events \in Seq(Events), NEW m \in Nat, m < Len(events),
           NEW c, Tally(events, c, m, m), NEW t \in {m, m + 1}, NEW d,
           d.in = Latest(events[m + 1].in, c.in), d.cost = Latest(events[m + 1].cost, c.cost),
           d.out = IF events[m + 1].out > 0 THEN events[m + 1].out
                   ELSE c.out + IF t = m THEN 0 ELSE events[m + 1].text
    PROVE  Tally(events, d, t, m + 1)
<1> DEFINE e == m + 1
<1>0. e \in DOMAIN events /\ e \in Nat /\ t \in Nat /\ t <= e
      /\ events[e].out \in Nat /\ events[e].text \in Nat
  BY EventFacts
<1>1. \E last \in Nat : Newest(events, "in", e, last) /\ d.in = ValueAt(events, "in", last)
  <2>1. PICK last \in Nat : Newest(events, "in", m, last) /\ c.in = ValueAt(events, "in", last)
    BY DEF Tally
  <2> DEFINE new == IF events[e]["in"] > 0 THEN e ELSE last
  <2>2. /\ new \in Nat /\ Newest(events, "in", e, new)
        /\ ValueAt(events, "in", new) = Latest(events[e]["in"], ValueAt(events, "in", last))
    BY <2>1, NewestStep
  <2> QED
    BY <2>1, <2>2
<1>2. \E last \in Nat : Newest(events, "cost", e, last) /\ d.cost = ValueAt(events, "cost", last)
  <2>1. PICK last \in Nat :
            Newest(events, "cost", m, last) /\ c.cost = ValueAt(events, "cost", last)
    BY DEF Tally
  <2> DEFINE new == IF events[e]["cost"] > 0 THEN e ELSE last
  <2>2. /\ new \in Nat /\ Newest(events, "cost", e, new)
        /\ ValueAt(events, "cost", new) = Latest(events[e]["cost"], ValueAt(events, "cost", last))
    BY <2>1, NewestStep
  <2> QED
    BY <2>1, <2>2
<1>3. \E last \in Nat :
          /\ Newest(events, "out", e, last)
          /\ d.out = ValueAt(events, "out", last) + Total(TextBetween(events, last, t))
  <2>1. PICK last \in Nat :
          /\ Newest(events, "out", m, last)
          /\ c.out = ValueAt(events, "out", last) + Total(TextBetween(events, last, m))
    BY DEF Tally
  <2> DEFINE new == IF events[e]["out"] > 0 THEN e ELSE last
             v == ValueAt(events, "out", last)
             s == Total(TextBetween(events, last, m))
  <2>2. /\ new \in Nat /\ Newest(events, "out", e, new)
        /\ ValueAt(events, "out", new) = Latest(events[e]["out"], v)
    BY <2>1, NewestStep
  <2>3. CASE events[e].out > 0
    <3>1. Total(TextBetween(events, e, t)) = 0
      BY <1>0, TextTotals
    <3>2. new = e /\ ValueAt(events, "out", e) = events[e].out
      BY <2>2, <2>3 DEF Latest
    <3>3. d.out = events[e].out
      BY <2>3
    <3>4. d.out = ValueAt(events, "out", e) + Total(TextBetween(events, e, t))
      BY <1>0, <3>1, <3>2, <3>3
    <3> QED
      BY <1>0, <2>2, <3>2, <3>4
  <2>4. CASE ~(events[e].out > 0)
    <3>1. last <= m /\ new = last
      BY <2>1, <2>4 DEF Newest
    <3>2. Newest(events, "out", e, last)
      BY <2>2, <3>1
    <3>3. s \in Nat /\ v \in Nat
      <4>1. s \in Nat
        BY TextTotals
      <4>2. last = 0 \/ last \in DOMAIN events
        BY <2>1, <3>1, EventFacts
      <4>3. v \in Nat
        BY <4>2, EventFacts DEF ValueAt
      <4> QED
        BY <4>1, <4>3
    <3>4. Total(TextBetween(events, last, t)) = s + IF t = m THEN 0 ELSE events[e].text
      <4>1. CASE t = m
        BY <3>3, <4>1
      <4>2. CASE t # m
        <5>1. t = m + 1
          BY <4>2
        <5>2. Total(TextBetween(events, last, m + 1)) = s + events[m + 1].text
          BY <3>1, TextTotals
        <5> QED
          BY <4>2, <5>1, <5>2
      <4> QED
        BY <4>1, <4>2
    <3>5. d.out = v + s + IF t = m THEN 0 ELSE events[e].text
      BY <2>1, <2>4
    <3> HIDE DEF v, s
    <3>6. d.out = v + Total(TextBetween(events, last, t))
      BY <1>0, <3>3, <3>4, <3>5
    <3> QED
      BY <3>2, <3>6 DEF v
  <2> QED
    BY <2>3, <2>4
<1> QED
  BY <1>1, <1>2, <1>3 DEF Tally

-----------------------------------------------------------------------------
(* The counter *)

Counters == [line : Seq(Pieces), data : Seq(Pieces), json : Seq(Pieces), streamed : BOOLEAN,
             out : Nat, in : Nat, cost : Nat]

LEMMA TallySame ==
    ASSUME NEW events, NEW c, NEW t, NEW r, Tally(events, c, t, r),
           NEW d, d.in = c.in, d.cost = c.cost, d.out = c.out
    PROVE  Tally(events, d, t, r)
  BY DEF Tally

LEMMA LatestFacts ==
    ASSUME NEW new \in Nat, NEW old \in Nat
    PROVE  /\ Latest(new, old) \in Nat /\ (new > 0 => Latest(new, old) = new)
           /\ Latest(0, old) = old /\ Latest(new, 0) = new
  BY DEF Latest

LEMMA TakeFields ==
    ASSUME NEW c \in Counters, NEW u \in Usages
    PROVE  LET t == Take(c, u)
           IN  /\ t \in Counters
               /\ t.line = c.line /\ t.data = c.data /\ t.json = c.json /\ t.streamed = c.streamed
               /\ t.out = Latest(u.out, c.out) /\ t.in = Latest(u.in, c.in)
               /\ t.cost = Latest(u.cost, c.cost)
<1>1. u.out \in Nat /\ u.in \in Nat /\ u.cost \in Nat
  BY DEF Usages
<1>2. c.out \in Nat /\ c.in \in Nat /\ c.cost \in Nat
  BY DEF Counters
<1>3. Latest(u.out, c.out) \in Nat /\ Latest(u.in, c.in) \in Nat /\ Latest(u.cost, c.cost) \in Nat
  BY <1>1, <1>2, LatestFacts
<1> QED
  BY <1>3 DEF Counters, Take

LEMMA TakeNothing ==
    ASSUME NEW c \in Counters
    PROVE  /\ NoUsage \in Usages /\ Take(c, NoUsage) \in Counters
           /\ Take(c, NoUsage).out = c.out /\ Take(c, NoUsage).in = c.in
           /\ Take(c, NoUsage).cost = c.cost
           /\ Take(c, NoUsage).json = c.json /\ Take(c, NoUsage).streamed = c.streamed
<1>1. NoUsage \in Usages /\ NoUsage.out = 0 /\ NoUsage.in = 0 /\ NoUsage.cost = 0
  BY DEF NoUsage, Usages
<1>2. c.out \in Nat /\ c.in \in Nat /\ c.cost \in Nat
  BY DEF Counters
<1>3. /\ Latest(NoUsage.out, c.out) = c.out /\ Latest(NoUsage.in, c.in) = c.in
      /\ Latest(NoUsage.cost, c.cost) = c.cost
  BY <1>1, <1>2, LatestFacts
<1> QED
  BY <1>1, <1>3, TakeFields

LEMMA ProcessFields ==
    ASSUME NEW c \in Counters,
           NEW u \in Usages, u = UsageIn(answer.events, c.data),
           NEW text \in Nat, text = TextIn(answer.events, c.data)
    PROVE  LET d == ProcessEvent(c)
           IN  /\ d \in Counters
               /\ d.line = c.line /\ d.data = <<>> /\ d.json = c.json /\ d.streamed = c.streamed
               /\ d.in = Latest(u.in, c.in) /\ d.cost = Latest(u.cost, c.cost)
               /\ d.out = IF u.out > 0 THEN u.out ELSE c.out + text
<1> DEFINE t == Take(c, u)
<1>1. /\ t \in Counters
      /\ t.line = c.line /\ t.data = c.data /\ t.json = c.json /\ t.streamed = c.streamed
      /\ t.out = Latest(u.out, c.out) /\ t.in = Latest(u.in, c.in)
      /\ t.cost = Latest(u.cost, c.cost)
  BY TakeFields
<1>2. ProcessEvent(c) = [t EXCEPT !.data = <<>>, !.out = IF u.out > 0 THEN @ ELSE @ + text]
  BY DEF ProcessEvent
<1>3. u.out \in Nat /\ c.out \in Nat
  BY DEF Usages, Counters
<1>4. t.out = IF u.out > 0 THEN u.out ELSE c.out
  BY <1>1, <1>3 DEF Latest
<1>5. <<>> \in Seq(Pieces)
  OBVIOUS
<1> DEFINE n == IF u.out > 0 THEN u.out ELSE c.out + text
<1>6. n \in Nat
  BY <1>3
<1> HIDE DEF t
<1>7. ProcessEvent(c) = [t EXCEPT !.data = <<>>, !.out = n]
  BY <1>2, <1>4
<1> HIDE DEF n
<1>8. /\ ProcessEvent(c) \in Counters
      /\ ProcessEvent(c).line = t.line /\ ProcessEvent(c).data = <<>>
      /\ ProcessEvent(c).json = t.json /\ ProcessEvent(c).streamed = t.streamed
      /\ ProcessEvent(c).in = t.in /\ ProcessEvent(c).cost = t.cost
      /\ ProcessEvent(c).out = n
  BY <1>1, <1>5, <1>6, <1>7 DEF Counters
<1> QED
  BY <1>1, <1>8 DEF n

\* An empty line after the whole of the next event counts it, ...
LEMMA ProcessWhole ==
    ASSUME NEW c \in Counters, NEW events \in Seq(Events), answer.events = events,
           NEW m \in Nat, m < Len(events), Tally(events, c, m, m),
           c.data = <<<<m + 1, 1>>, <<m + 1, 2>>>>
    PROVE  LET d == ProcessEvent(c)
           IN  /\ d \in Counters /\ Tally(events, d, m + 1, m + 1)
               /\ d.line = c.line /\ d.data = <<>> /\ d.json = c.json /\ d.streamed = c.streamed
<1> DEFINE e == m + 1
           u == [out |-> events[e].out, in |-> events[e].in, cost |-> events[e].cost]
<1>1. e \in DOMAIN events /\ e # m
  BY EventFacts
<1>2. u \in Usages /\ events[e].text \in Nat
  BY <1>1, EventFacts DEF Usages
<1>3. u = UsageIn(answer.events, c.data) /\ events[e].text = TextIn(answer.events, c.data)
  BY <1>1, Readings
<1>4. /\ ProcessEvent(c) \in Counters
      /\ ProcessEvent(c).line = c.line /\ ProcessEvent(c).data = <<>>
      /\ ProcessEvent(c).json = c.json /\ ProcessEvent(c).streamed = c.streamed
      /\ ProcessEvent(c).in = Latest(u.in, c.in) /\ ProcessEvent(c).cost = Latest(u.cost, c.cost)
      /\ ProcessEvent(c).out = IF u.out > 0 THEN u.out ELSE c.out + events[e].text
  BY <1>2, <1>3, ProcessFields
<1>5. u.in = events[e].in /\ u.cost = events[e].cost /\ u.out = events[e].out
  OBVIOUS
<1>6. Tally(events, ProcessEvent(c), e, e)
  BY <1>1, <1>4, <1>5, TallyStep
<1> QED
  BY <1>4, <1>6

\* ... and the end of the stream after its first half the report in that half.
LEMMA ProcessHalf ==
    ASSUME NEW c \in Counters, NEW events \in Seq(Events), answer.events = events,
           NEW m \in Nat, m < Len(events), Tally(events, c, m, m),
           c.data = <<<<m + 1, 1>>>>
    PROVE  LET d == ProcessEvent(c)
           IN  /\ d \in Counters
               /\ Tally(events, d, m, IF events[m + 1].early THEN m + 1 ELSE m)
               /\ d.line = c.line /\ d.data = <<>> /\ d.json = c.json /\ d.streamed = c.streamed
<1> DEFINE e == m + 1
           said == [out |-> events[e].out, in |-> events[e].in, cost |-> events[e].cost]
           u == IF events[e].early THEN said ELSE NoUsage
<1>1. e \in DOMAIN events /\ e # m
  BY EventFacts
<1>2. u \in Usages
  BY <1>1, EventFacts DEF Usages, NoUsage
<1>3. u = UsageIn(answer.events, c.data) /\ 0 = TextIn(answer.events, c.data)
  <2>1. UsageIn(events, <<<<e, 1>>>>) = u /\ TextIn(events, <<<<e, 1>>>>) = 0
    BY <1>1, Readings
  <2> QED
    BY <2>1
<1>4. /\ ProcessEvent(c) \in Counters
      /\ ProcessEvent(c).line = c.line /\ ProcessEvent(c).data = <<>>
      /\ ProcessEvent(c).json = c.json /\ ProcessEvent(c).streamed = c.streamed
      /\ ProcessEvent(c).in = Latest(u.in, c.in) /\ ProcessEvent(c).cost = Latest(u.cost, c.cost)
      /\ ProcessEvent(c).out = IF u.out > 0 THEN u.out ELSE c.out + 0
  BY <1>2, <1>3, ProcessFields
<1>5. CASE events[e].early
  <2>1. u.in = events[e].in /\ u.cost = events[e].cost /\ u.out = events[e].out
    BY <1>5
  <2>2. Tally(events, ProcessEvent(c), m, e)
    BY <1>1, <1>4, <2>1, TallyStep
  <2> QED
    BY <1>4, <1>5, <2>2
<1>6. CASE ~events[e].early
  <2>1. u.in = 0 /\ u.cost = 0 /\ u.out = 0
    BY <1>6 DEF NoUsage
  <2>2. c.in \in Nat /\ c.cost \in Nat /\ c.out \in Nat
    BY DEF Counters
  <2>3. /\ ProcessEvent(c).in = c.in /\ ProcessEvent(c).cost = c.cost
        /\ ProcessEvent(c).out = c.out
    BY <1>4, <2>1, <2>2 DEF Latest
  <2>4. Tally(events, ProcessEvent(c), m, m)
    BY <2>3, TallySame
  <2> QED
    BY <1>4, <1>6, <2>4
<1> QED
  BY <1>5, <1>6

\* What the counter's buffers have of event e after its first j pieces.
LineOf(split, e, j) ==
    IF j = 1 THEN <<<<e, 1>>>>
    ELSE IF ~split /\ j = 2 THEN <<<<e, 1>>, <<e, 2>>>>
    ELSE IF split /\ j = 3 THEN <<<<e, 2>>>> ELSE <<>>
DataOf(split, e, j) ==
    IF j < 2 \/ (~split /\ j < 3) THEN <<>>
    ELSE IF split /\ j < 4 THEN <<<<e, 1>>>> ELSE <<<<e, 1>>, <<e, 2>>>>
Buffered(split, c, e, j) == c.line = LineOf(split, e, j) /\ c.data = DataOf(split, e, j)

LEMMA BufferFacts ==
    ASSUME NEW e, NEW split \in BOOLEAN
    PROVE  LET one == <<e, 1>>
               two == <<e, 2>>
           IN  /\ LineOf(split, e, 0) = <<>> /\ DataOf(split, e, 0) = <<>>
               /\ LineOf(split, e, 1) = <<one>> /\ DataOf(split, e, 1) = <<>>
               /\ ~split => /\ LineOf(split, e, 2) = <<one, two>> /\ DataOf(split, e, 2) = <<>>
                            /\ LineOf(split, e, 3) = <<>> /\ DataOf(split, e, 3) = <<one, two>>
               /\ split => /\ LineOf(split, e, 2) = <<>> /\ DataOf(split, e, 2) = <<one>>
                           /\ LineOf(split, e, 3) = <<two>> /\ DataOf(split, e, 3) = <<one>>
                           /\ LineOf(split, e, 4) = <<>> /\ DataOf(split, e, 4) = <<one, two>>
  BY DEF LineOf, DataOf

LEMMA AppendToLine ==
    ASSUME NEW c \in Counters, NEW e \in Nat, NEW h \in {1, 2}
    PROVE  LET d == CounterWrite(c, <<e, h>>)
           IN  /\ d \in Counters /\ d.line = Append(c.line, <<e, h>>) /\ d.data = c.data
               /\ d.json = c.json /\ d.streamed = c.streamed
               /\ d.in = c.in /\ d.cost = c.cost /\ d.out = c.out
<1>1. <<e, h>> \in Pieces /\ <<e, h>> # Newline
  BY PieceFacts
<1>2. Append(c.line, <<e, h>>) \in Seq(Pieces)
  BY <1>1 DEF Counters
<1> QED
  BY <1>1, <1>2 DEF CounterWrite, Counters

LEMMA EndOfLine ==
    ASSUME NEW c \in Counters, c.line # <<>>
    PROVE  LET d == ProcessLine(c)
           IN  /\ d \in Counters /\ d.line = <<>> /\ d.data = c.data \o c.line
               /\ d.json = c.json /\ d.streamed = c.streamed
               /\ d.in = c.in /\ d.cost = c.cost /\ d.out = c.out
<1>1. c.data \o c.line \in Seq(Pieces) /\ <<>> \in Seq(Pieces)
  BY DEF Counters
<1> QED
  BY <1>1 DEF ProcessLine, Counters

LEMMA EmptyLine ==
    ASSUME NEW c, c.line = <<>>
    PROVE  ProcessLine(c) = ProcessEvent(c)
  BY DEF ProcessLine

\* What the counter keeps of the next piece.
LEMMA WriteStep ==
    ASSUME NEW c \in Counters, NEW events \in Seq(Events), answer.events = events,
           NEW m \in Nat, m < Len(events), NEW split \in BOOLEAN,
           NEW j \in 0 .. PeriodIf(split) - 1,
           Buffered(split, c, m + 1, j), Tally(events, c, m, m)
    PROVE  LET d == CounterWrite(c, Lines(m + 1, split)[j + 1])
           IN  /\ d \in Counters /\ d.json = c.json
               /\ IF j = PeriodIf(split) - 1
                  THEN Buffered(split, d, m + 2, 0) /\ Tally(events, d, m + 1, m + 1)
                  ELSE Buffered(split, d, m + 1, j + 1) /\ Tally(events, d, m, m)
<1> DEFINE e == m + 1
           one == <<e, 1>>
           two == <<e, 2>>
           k == j + 1
           d == CounterWrite(c, Lines(e, split)[k])
           kept == /\ d \in Counters /\ d.json = c.json
                   /\ IF j = PeriodIf(split) - 1
                      THEN Buffered(split, d, e + 1, 0) /\ Tally(events, d, e, e)
                      ELSE Buffered(split, d, e, k) /\ Tally(events, d, m, m)
<1>1. e \in Nat
  OBVIOUS
<1>2. /\ <<>> \o <<one>> = <<one>> /\ <<one>> \o <<two>> = <<one, two>>
      /\ <<>> \o <<one, two>> = <<one, two>>
      /\ Append(<<>>, one) = <<one>> /\ Append(<<>>, two) = <<two>>
      /\ Append(<<one>>, two) = <<one, two>>
      /\ <<one>> # <<>> /\ <<two>> # <<>> /\ <<one, two>> # <<>>
  BY ShortSequences
\* A half of the event, ...
<1>3. ASSUME NEW half \in {one, two}, Lines(e, split)[k] = half
      PROVE  /\ d \in Counters /\ d.line = Append(c.line, half) /\ d.data = c.data
             /\ d.json = c.json /\ Tally(events, d, m, m)
  <2>1. PICK h \in {1, 2} : half = <<e, h>> /\ d = CounterWrite(c, <<e, h>>)
    BY <1>3
  <2> HIDE DEF d, e, k
  <2> QED
    BY <1>1, <2>1, AppendToLine, TallySame
\* ... the end of a line with one in it, ...
<1>4. ASSUME Lines(e, split)[k] = Newline, c.line # <<>>
      PROVE  /\ d \in Counters /\ d.line = <<>> /\ d.data = c.data \o c.line
             /\ d.json = c.json /\ Tally(events, d, m, m)
  <2>1. d = ProcessLine(c)
    BY <1>4 DEF CounterWrite
  <2> HIDE DEF d, e, k
  <2> QED
    BY <1>4, <2>1, EndOfLine, TallySame
\* ... or an empty line, after the whole event.
<1>5. ASSUME Lines(e, split)[k] = Newline, c.line = <<>>, c.data = <<one, two>>
      PROVE  /\ d \in Counters /\ d.line = <<>> /\ d.data = <<>>
             /\ d.json = c.json /\ Tally(events, d, e, e)
  <2>1. d = ProcessEvent(c)
    BY <1>5, EmptyLine DEF CounterWrite
  <2> HIDE DEF d
  <2> QED
    BY <1>5, <2>1, ProcessWhole
<1>8. /\ ~split => /\ Lines(e, split)[1] = one /\ Lines(e, split)[2] = two
                    /\ Lines(e, split)[3] = Newline /\ Lines(e, split)[4] = Newline
      /\ split => /\ Lines(e, split)[1] = one /\ Lines(e, split)[2] = Newline
                  /\ Lines(e, split)[3] = two
                  /\ Lines(e, split)[4] = Newline /\ Lines(e, split)[5] = Newline
  BY LinesIf
<1>9. /\ LineOf(split, e, 0) = <<>> /\ DataOf(split, e, 0) = <<>>
      /\ LineOf(split, e + 1, 0) = <<>> /\ DataOf(split, e + 1, 0) = <<>>
      /\ LineOf(split, e, 1) = <<one>> /\ DataOf(split, e, 1) = <<>>
      /\ ~split => /\ LineOf(split, e, 2) = <<one, two>> /\ DataOf(split, e, 2) = <<>>
                   /\ LineOf(split, e, 3) = <<>> /\ DataOf(split, e, 3) = <<one, two>>
      /\ split => /\ LineOf(split, e, 2) = <<>> /\ DataOf(split, e, 2) = <<one>>
                  /\ LineOf(split, e, 3) = <<two>> /\ DataOf(split, e, 3) = <<one>>
                  /\ LineOf(split, e, 4) = <<>> /\ DataOf(split, e, 4) = <<one, two>>
  BY BufferFacts
<1>10. k = j + 1 /\ e + 1 = m + 2 /\ Buffered(split, c, e, j)
  OBVIOUS
<1>6. ASSUME ~split PROVE kept
  <2>0. PeriodIf(split) = 4 /\ j \in {0, 1, 2, 3}
    BY <1>6 DEF PeriodIf
  <2> HIDE DEF d, k, e, one, two
  <2>1. ASSUME j = 0, k = 1 PROVE kept
    <3>1. Lines(e, split)[k] = one
      BY <1>8, <1>6, <2>1
    <3>2. c.line = LineOf(split, e, 0) /\ c.data = DataOf(split, e, 0)
      BY <1>10, <2>0, <2>1 DEF Buffered
    <3>3. /\ d \in Counters /\ d.json = c.json /\ Tally(events, d, m, m)
          /\ d.line = LineOf(split, e, 1) /\ d.data = DataOf(split, e, 1)
      BY <1>2, <1>3, <1>9, <1>6, <3>1, <3>2
    <3> QED
      BY <2>0, <2>1, <3>3 DEF Buffered
  <2>2. ASSUME j = 1, k = 2 PROVE kept
    <3>1. Lines(e, split)[k] = two
      BY <1>8, <1>6, <2>2
    <3>2. c.line = LineOf(split, e, 1) /\ c.data = DataOf(split, e, 1)
      BY <1>10, <2>0, <2>2 DEF Buffered
    <3>3. /\ d \in Counters /\ d.json = c.json /\ Tally(events, d, m, m)
          /\ d.line = LineOf(split, e, 2) /\ d.data = DataOf(split, e, 2)
      BY <1>2, <1>3, <1>9, <1>6, <3>1, <3>2
    <3> QED
      BY <2>0, <2>2, <3>3 DEF Buffered
  <2>3. ASSUME j = 2, k = 3 PROVE kept
    <3>1. Lines(e, split)[k] = Newline
      BY <1>8, <1>6, <2>3
    <3>2. c.line = LineOf(split, e, 2) /\ c.data = DataOf(split, e, 2)
      BY <1>10, <2>0, <2>3 DEF Buffered
    <3>3. /\ d \in Counters /\ d.json = c.json /\ Tally(events, d, m, m)
          /\ d.line = LineOf(split, e, 3) /\ d.data = DataOf(split, e, 3)
      BY <1>2, <1>4, <1>9, <1>6, <3>1, <3>2
    <3> QED
      BY <2>0, <2>3, <3>3 DEF Buffered
  <2>4. ASSUME j = 3, k = 4 PROVE kept
    <3>1. Lines(e, split)[k] = Newline
      BY <1>8, <1>6, <2>4
    <3>2. c.line = LineOf(split, e, 3) /\ c.data = DataOf(split, e, 3)
      BY <1>10, <2>0, <2>4 DEF Buffered
    <3>3. /\ d \in Counters /\ d.json = c.json /\ Tally(events, d, e, e)
          /\ d.line = LineOf(split, e + 1, 0) /\ d.data = DataOf(split, e + 1, 0)
      BY <1>2, <1>5, <1>9, <1>6, <3>1, <3>2
    <3> QED
      BY <2>0, <2>4, <3>3 DEF Buffered
  <2> QED
    BY <1>10, <2>0, <2>1, <2>2, <2>3, <2>4
<1>7. ASSUME split PROVE kept
  <2>0. PeriodIf(split) = 5 /\ j \in {0, 1, 2, 3, 4}
    BY <1>7 DEF PeriodIf
  <2> HIDE DEF d, k, e, one, two
  <2>1. ASSUME j = 0, k = 1 PROVE kept
    <3>1. Lines(e, split)[k] = one
      BY <1>8, <1>7, <2>1
    <3>2. c.line = LineOf(split, e, 0) /\ c.data = DataOf(split, e, 0)
      BY <1>10, <2>0, <2>1 DEF Buffered
    <3>3. /\ d \in Counters /\ d.json = c.json /\ Tally(events, d, m, m)
          /\ d.line = LineOf(split, e, 1) /\ d.data = DataOf(split, e, 1)
      BY <1>2, <1>3, <1>9, <1>7, <3>1, <3>2
    <3> QED
      BY <2>0, <2>1, <3>3 DEF Buffered
  <2>2. ASSUME j = 1, k = 2 PROVE kept
    <3>1. Lines(e, split)[k] = Newline
      BY <1>8, <1>7, <2>2
    <3>2. c.line = LineOf(split, e, 1) /\ c.data = DataOf(split, e, 1)
      BY <1>10, <2>0, <2>2 DEF Buffered
    <3>3. /\ d \in Counters /\ d.json = c.json /\ Tally(events, d, m, m)
          /\ d.line = LineOf(split, e, 2) /\ d.data = DataOf(split, e, 2)
      BY <1>2, <1>4, <1>9, <1>7, <3>1, <3>2
    <3> QED
      BY <2>0, <2>2, <3>3 DEF Buffered
  <2>3. ASSUME j = 2, k = 3 PROVE kept
    <3>1. Lines(e, split)[k] = two
      BY <1>8, <1>7, <2>3
    <3>2. c.line = LineOf(split, e, 2) /\ c.data = DataOf(split, e, 2)
      BY <1>10, <2>0, <2>3 DEF Buffered
    <3>3. /\ d \in Counters /\ d.json = c.json /\ Tally(events, d, m, m)
          /\ d.line = LineOf(split, e, 3) /\ d.data = DataOf(split, e, 3)
      BY <1>2, <1>3, <1>9, <1>7, <3>1, <3>2
    <3> QED
      BY <2>0, <2>3, <3>3 DEF Buffered
  <2>4. ASSUME j = 3, k = 4 PROVE kept
    <3>1. Lines(e, split)[k] = Newline
      BY <1>8, <1>7, <2>4
    <3>2. c.line = LineOf(split, e, 3) /\ c.data = DataOf(split, e, 3)
      BY <1>10, <2>0, <2>4 DEF Buffered
    <3>3. /\ d \in Counters /\ d.json = c.json /\ Tally(events, d, m, m)
          /\ d.line = LineOf(split, e, 4) /\ d.data = DataOf(split, e, 4)
      BY <1>2, <1>4, <1>9, <1>7, <3>1, <3>2
    <3> QED
      BY <2>0, <2>4, <3>3 DEF Buffered
  <2>5. ASSUME j = 4, k = 5 PROVE kept
    <3>1. Lines(e, split)[k] = Newline
      BY <1>8, <1>7, <2>5
    <3>2. c.line = LineOf(split, e, 4) /\ c.data = DataOf(split, e, 4)
      BY <1>10, <2>0, <2>5 DEF Buffered
    <3>3. /\ d \in Counters /\ d.json = c.json /\ Tally(events, d, e, e)
          /\ d.line = LineOf(split, e + 1, 0) /\ d.data = DataOf(split, e + 1, 0)
      BY <1>2, <1>5, <1>9, <1>7, <3>1, <3>2
    <3> QED
      BY <2>0, <2>5, <3>3 DEF Buffered
  <2> QED
    BY <1>10, <2>0, <2>1, <2>2, <2>3, <2>4, <2>5
<1>11. kept
  BY <1>6, <1>7
<1> QED
  BY <1>10, <1>11

\* Of m events and j pieces, these have come whole, and these have reported.
ToldBy(split, m, j) == IF j > (IF split THEN 2 ELSE 1) THEN m + 1 ELSE m
HeardBy(events, split, m, j) ==
    IF j > 0 /\ (ToldBy(split, m, j) = m + 1 \/ events[m + 1].early) THEN m + 1 ELSE m

\* The end of the stream is the end of the line and of the event.
LEMMA FinishStep ==
    ASSUME NEW c \in Counters, c.json = <<>>, NEW events \in Seq(Events), answer.events = events,
           NEW m \in Nat, NEW split \in BOOLEAN, NEW j \in 0 .. PeriodIf(split) - 1,
           m < Len(events) \/ j = 0,
           Buffered(split, c, m + 1, j), Tally(events, c, m, m)
    PROVE  LET d == CounterFinish(c)
           IN  /\ d \in Counters
               /\ Tally(events, d, ToldBy(split, m, j), HeardBy(events, split, m, j))
<1> DEFINE e == m + 1
           one == <<e, 1>>
           two == <<e, 2>>
           t == ToldBy(split, m, j)
           r == HeardBy(events, split, m, j)
           flushed == IF c.line = <<>> THEN c ELSE ProcessLine(c)
           event == IF flushed.data = <<>> THEN flushed ELSE ProcessEvent(flushed)
           usage == Take(event, NoUsage)
           d == CounterFinish(c)
<1>1. c.line \in Seq(Pieces) /\ c.data \in Seq(Pieces)
  BY DEF Counters
<1>2. /\ flushed \in Counters /\ flushed.data = c.data \o c.line
      /\ flushed.json = <<>>
      /\ flushed.in = c.in /\ flushed.cost = c.cost /\ flushed.out = c.out
  <2>1. CASE c.line = <<>>
    BY <1>1, <2>1, ConcatEmptySeq
  <2>2. CASE c.line # <<>>
    BY <2>2, EndOfLine
  <2> QED
    BY <2>1, <2>2
<1> HIDE DEF flushed
<1>3. Tally(events, flushed, m, m)
  BY <1>2, TallySame
<1>4. /\ LineOf(split, e, 0) = <<>> /\ DataOf(split, e, 0) = <<>>
      /\ LineOf(split, e, 1) = <<one>> /\ DataOf(split, e, 1) = <<>>
      /\ ~split => /\ LineOf(split, e, 2) = <<one, two>> /\ DataOf(split, e, 2) = <<>>
                   /\ LineOf(split, e, 3) = <<>> /\ DataOf(split, e, 3) = <<one, two>>
      /\ split => /\ LineOf(split, e, 2) = <<>> /\ DataOf(split, e, 2) = <<one>>
                  /\ LineOf(split, e, 3) = <<two>> /\ DataOf(split, e, 3) = <<one>>
                  /\ LineOf(split, e, 4) = <<>> /\ DataOf(split, e, 4) = <<one, two>>
  BY BufferFacts
<1>5. c.line = LineOf(split, e, j) /\ c.data = DataOf(split, e, j)
  BY DEF Buffered
<1>6. /\ <<>> \o <<one>> = <<one>> /\ <<one>> \o <<two>> = <<one, two>>
      /\ <<>> \o <<one, two>> = <<one, two>>
      /\ <<>> \o <<>> = <<>> /\ <<one>> \o <<>> = <<one>> /\ <<one, two>> \o <<>> = <<one, two>>
      /\ <<one>> # <<>> /\ <<one, two>> # <<>>
  BY ShortSequences
<1>7. j \in {0, 1, 2, 3} \/ (split /\ j = 4)
  BY DEF PeriodIf
\* Nothing, the first half of the next event, or both halves are left.
<1>8. IF j = 0 THEN flushed.data = <<>>
      ELSE IF j > (IF split THEN 2 ELSE 1) THEN flushed.data = <<one, two>>
      ELSE flushed.data = <<one>>
  <2> HIDE DEF e, one, two
  <2>1. CASE j = 0
    BY <1>2, <1>4, <1>5, <1>6, <2>1
  <2>2. CASE j = 1
    <3>1. c.line = <<one>> /\ c.data = <<>>
      BY <1>4, <1>5, <2>2
    <3>2. flushed.data = <<one>>
      BY <1>2, <1>6, <3>1
    <3> QED
      BY <2>2, <3>2
  <2>3. CASE ~split /\ j = 2
    <3>1. c.line = <<one, two>> /\ c.data = <<>>
      BY <1>4, <1>5, <2>3
    <3>2. flushed.data = <<one, two>>
      BY <1>2, <1>6, <3>1
    <3> QED
      BY <2>3, <3>2
  <2>4. CASE ~split /\ j = 3
    <3>1. c.line = <<>> /\ c.data = <<one, two>>
      BY <1>4, <1>5, <2>4
    <3>2. flushed.data = <<one, two>>
      BY <1>2, <1>6, <3>1
    <3> QED
      BY <2>4, <3>2
  <2>5. CASE split /\ j = 2
    <3>1. c.line = <<>> /\ c.data = <<one>>
      BY <1>4, <1>5, <2>5
    <3>2. flushed.data = <<one>>
      BY <1>2, <1>6, <3>1
    <3> QED
      BY <2>5, <3>2
  <2>6. CASE split /\ j = 3
    <3>1. c.line = <<two>> /\ c.data = <<one>>
      BY <1>4, <1>5, <2>6
    <3>2. flushed.data = <<one, two>>
      BY <1>2, <1>6, <3>1
    <3> QED
      BY <2>6, <3>2
  <2>7. CASE split /\ j = 4
    <3>1. c.line = <<>> /\ c.data = <<one, two>>
      BY <1>4, <1>5, <2>7
    <3>2. flushed.data = <<one, two>>
      BY <1>2, <1>6, <3>1
    <3> QED
      BY <2>7, <3>2
  <2> QED
    BY <1>7, <2>1, <2>2, <2>3, <2>4, <2>5, <2>6, <2>7
<1>9. event \in Counters /\ Tally(events, event, t, r) /\ event.json = <<>>
  <2>1. CASE j = 0
    <3>1. t = m /\ r = m /\ event = flushed
      BY <1>8, <2>1 DEF ToldBy, HeardBy
    <3> HIDE DEF event, t, r
    <3> QED
      BY <1>2, <1>3, <3>1
  <2>2. CASE j # 0 /\ j > (IF split THEN 2 ELSE 1)
    <3>1. t = e /\ r = e /\ flushed.data = <<one, two>> /\ m < Len(events) /\ j > 0
      BY <1>8, <2>2 DEF ToldBy, HeardBy
    <3>2. event = ProcessEvent(flushed)
      BY <1>6, <3>1
    <3> HIDE DEF event, t, r
    <3> QED
      BY <1>2, <1>3, <3>1, <3>2, ProcessWhole
  <2>3. CASE j # 0 /\ ~(j > (IF split THEN 2 ELSE 1))
    <3>1. /\ t = m /\ r = IF events[e].early THEN e ELSE m
          /\ flushed.data = <<one>> /\ m < Len(events)
      BY <1>8, <2>3 DEF ToldBy, HeardBy
    <3>2. event = ProcessEvent(flushed)
      BY <1>6, <3>1
    <3> HIDE DEF event, t, r
    <3> QED
      BY <1>2, <1>3, <3>1, <3>2, ProcessHalf
  <2> QED
    BY <2>1, <2>2, <2>3
<1> HIDE DEF event, t, r
<1>10. /\ usage \in Counters /\ usage.json = <<>>
       /\ usage.in = event.in /\ usage.cost = event.cost /\ usage.out = event.out
  BY <1>9, TakeNothing
<1>11. /\ UsageIn(answer.events, event.json) = NoUsage
       /\ TextIn(answer.events, usage.json) = 0
  BY <1>9, <1>10, ReadingNothing
<1>12. d = IF usage.out = 0 /\ ~usage.streamed THEN [usage EXCEPT !.out = 0] ELSE usage
  BY <1>11 DEF CounterFinish, event, flushed
<1> HIDE DEF usage, d
<1>13. /\ d \in Counters
       /\ d.in = event.in /\ d.cost = event.cost /\ d.out = event.out
  BY <1>10, <1>12 DEF Counters
<1>14. Tally(events, d, t, r)
  BY <1>9, <1>13, TallySame
<1> QED
  BY <1>13, <1>14 DEF d, t, r

-----------------------------------------------------------------------------
(* The invariant of reading *)

Answered == stage \in {"answered", "billed"}

\* The counter is through with m events and j pieces of a stream.
InStream(m, j) ==
    /\ m \in Nat /\ j \in 0 .. PeriodIf(answer.split) - 1
    /\ m < Len(answer.events) \/ (m = Len(answer.events) /\ j = 0)
    /\ counted = PeriodIf(answer.split) * m + j
    /\ Buffered(answer.split, counter, m + 1, j)
    /\ Tally(answer.events, counter, m, m)

StreamInv ==
    Answered /\ answer.kind = "sse" =>
        /\ answer \in Answers /\ body = Stream(answer)
        /\ capture = NoUsage
        /\ counter \in Counters /\ counter.json = <<>>
        /\ sent \in 0 .. Len(body) /\ counted \in 0 .. sent
        /\ answer.ok => \E m, j \in Nat : InStream(m, j)
        /\ ~answer.ok => counter = NewCounter /\ counted = sent
        /\ stage = "billed" =>
              /\ counted = sent
              /\ answer.ok => \E m, j \in Nat :
                    /\ InStream(m, j)
                    /\ Tally(answer.events, report, ToldBy(answer.split, m, j),
                             HeardBy(answer.events, answer.split, m, j))

\* What there may be of a document.
DocumentBody(a, b) ==
    \/ b = <<>>
    \/ 1 \in DOMAIN a.events /\ b \in {<<<<1, 1>>>>, <<<<1, 1>>, <<1, 2>>>>}

\* The counter when it has only kept a document's pieces.
Collected(json) == [line |-> <<>>, data |-> <<>>, json |-> json, streamed |-> FALSE,
                    out |-> 0, in |-> 0, cost |-> 0]

DocumentInv ==
    Answered /\ answer.kind # "sse" =>
        /\ answer \in Answers /\ DocumentBody(answer, body)
        /\ sent \in 0 .. Len(body) /\ counted = sent
        /\ capture = UsageIn(answer.events, body)
        /\ counter = Collected(
              IF answer.ok /\ answer.kind = "json" THEN SubSeq(body, 1, sent) ELSE <<>>)
        /\ stage = "billed" =>
              /\ sent = Len(body)
              /\ report = [out |-> Latest(capture.out, TextIn(answer.events, counter.json)),
                           in |-> capture.in, cost |-> capture.cost]

UnansweredInv ==
    /\ ~Answered => /\ answer = NoAnswer /\ body = <<>> /\ sent = 0 /\ counted = 0
                    /\ counter = NewCounter /\ capture = NoUsage
    /\ stage # "billed" => report = NoUsage /\ bill = 0

RInv ==
    /\ stage \in {"asked", "refused", "held", "answered", "billed"}
    /\ report \in Usages
    /\ StreamInv /\ DocumentInv /\ UnansweredInv

LEMMA NewCounterFacts ==
    /\ NewCounter \in Counters /\ NewCounter.json = <<>> /\ NewCounter.line = <<>>
    /\ NewCounter.data = <<>> /\ NewCounter.streamed = FALSE
    /\ NewCounter.out = 0 /\ NewCounter.in = 0 /\ NewCounter.cost = 0
    /\ NoUsage \in Usages
<1>1. <<>> \in Seq(Pieces)
  OBVIOUS
<1> QED
  BY <1>1 DEF NewCounter, Counters, NoUsage, Usages

LEMMA TallyNothing ==
    ASSUME NEW events \in Seq(Events), NEW c, c.in = 0, c.cost = 0, c.out = 0
    PROVE  Tally(events, c, 0, 0)
<1>1. \A field : Newest(events, field, 0, 0) /\ ValueAt(events, field, 0) = 0
  <2>1. 0 + 1 .. 0 = {}
    OBVIOUS
  <2> QED
    BY <2>1 DEF Newest, ValueAt
<1>2. Total(TextBetween(events, 0, 0)) = 0
  BY TextTotals
<1> QED
  BY <1>1, <1>2 DEF Tally

LEMMA DocumentFacts ==
    ASSUME NEW a \in Answers, NEW n \in 0 .. Len(Document(a))
    PROVE  DocumentBody(a, SubSeq(Document(a), 1, n))
<1> DEFINE one == <<1, 1>>
           two == <<1, 2>>
<1>1. a.events \in Seq(Events)
  BY AnswersAssumption
<1>2. CASE a.events = <<>>
  <2>1. Document(a) = <<>> /\ n = 0
    BY <1>2 DEF Document
  <2>2. SubSeq(Document(a), 1, n) = <<>>
    BY <2>1
  <2> QED
    BY <2>2 DEF DocumentBody
<1>3. CASE a.events # <<>>
  <2>1. Document(a) = <<one, two>> /\ n \in {0, 1, 2}
    BY <1>3 DEF Document
  <2>2. 1 \in DOMAIN a.events
    BY <1>1, <1>3
  <2>3. SubSeq(<<one, two>>, 1, 0) = <<>> /\ SubSeq(<<one, two>>, 1, 1) = <<one>>
        /\ SubSeq(<<one, two>>, 1, 2) = <<one, two>>
    <3> DEFINE S == {one, two}
               s == SubSeq(<<one, two>>, 1, 1)
    <3>1. <<one, two>> \in Seq(S) /\ Len(<<one, two>>) = 2 /\ <<one>> \in Seq(S)
      OBVIOUS
    <3>2. s \in Seq(S) /\ Len(s) = 1 /\ s[1] = one
      <4>1. \A i \in 1 .. 1 : <<one, two>>[i] \in S
        OBVIOUS
      <4> HIDE DEF S
      <4> QED
        BY <4>1, SubSeqProperties
    <3> HIDE DEF S, s
    <3>3. s = <<one>>
      <4>1. Len(s) = Len(<<one>>) /\ \A i \in 1 .. Len(s) : s[i] = <<one>>[i]
        BY <3>2
      <4> QED
        BY <3>1, <3>2, <4>1, SeqEqual
    <3>4. SubSeq(<<one, two>>, 1, 2) = <<one, two>>
      BY <3>1, SubSeqFull
    <3>5. SubSeq(<<one, two>>, 1, 0) = <<>>
      BY SubSeqEmpty
    <3> QED
      BY <3>3, <3>4, <3>5 DEF s
  <2> HIDE DEF one, two
  <2>4. SubSeq(Document(a), 1, n) \in {<<>>, <<one>>, <<one, two>>}
    BY <2>1, <2>3
  <2> QED
    BY <2>2, <2>4 DEF DocumentBody, one, two
<1> QED
  BY <1>2, <1>3

LEMMA DocumentUsage ==
    ASSUME NEW a \in Answers, NEW b, DocumentBody(a, b)
    PROVE  /\ b \in Seq(Pieces)
           /\ UsageIn(a.events, b) \in Usages /\ TextIn(a.events, b) \in Nat
<1>1. a.events \in Seq(Events)
  BY AnswersAssumption
<1>2. CASE b = <<>>
  BY <1>2, ReadingNothing, NewCounterFacts
<1>3. CASE 1 \in DOMAIN a.events /\ b = <<<<1, 1>>>>
  <2>1. b \in Seq(Pieces)
    <3>1. <<1, 1>> \in Pieces
      BY PieceFacts
    <3> QED
      BY <1>3, <3>1
  <2>2. /\ UsageIn(a.events, b) = IF a.events[1].early
              THEN [out |-> a.events[1].out, in |-> a.events[1].in, cost |-> a.events[1].cost]
              ELSE NoUsage
        /\ TextIn(a.events, b) = 0
    BY <1>1, <1>3, Readings
  <2>3. UsageIn(a.events, b) \in Usages
    BY <1>1, <1>3, <2>2, EventFacts, NewCounterFacts DEF Usages
  <2> QED
    BY <2>1, <2>2, <2>3
<1>4. CASE 1 \in DOMAIN a.events /\ b = <<<<1, 1>>, <<1, 2>>>>
  <2>1. b \in Seq(Pieces)
    BY <1>4, PieceFacts
  <2>2. /\ UsageIn(a.events, b) =
              [out |-> a.events[1].out, in |-> a.events[1].in, cost |-> a.events[1].cost]
        /\ TextIn(a.events, b) = a.events[1].text
    BY <1>1, <1>4, Readings
  <2>3. UsageIn(a.events, b) \in Usages /\ TextIn(a.events, b) \in Nat
    BY <1>1, <1>4, <2>2, EventFacts DEF Usages
  <2> QED
    BY <2>1, <2>3
<1> QED
  BY <1>2, <1>3, <1>4 DEF DocumentBody

LEMMA TakeReports ==
    ASSUME NEW o, NEW i, NEW k, NEW u
    PROVE  Take([out |-> o, in |-> i, cost |-> k], u) =
              [out |-> Latest(u.out, o), in |-> Latest(u.in, i), cost |-> Latest(u.cost, k)]
<1> DEFINE r == [out |-> Latest(u.out, o), in |-> Latest(u.in, i), cost |-> Latest(u.cost, k)]
           t == Take([out |-> o, in |-> i, cost |-> k], u)
<1>1. DOMAIN t = {"out", "in", "cost"} /\ DOMAIN r = {"out", "in", "cost"}
  BY DEF Take
<1>2. r.out = Latest(u.out, o) /\ r.in = Latest(u.in, i) /\ r.cost = Latest(u.cost, k)
  OBVIOUS
<1>3. t.out = Latest(u.out, o) /\ t.in = Latest(u.in, i) /\ t.cost = Latest(u.cost, k)
  BY DEF Take
<1>4. t = [f \in DOMAIN t |-> t[f]] /\ r = [f \in DOMAIN r |-> r[f]]
  BY DEF Take
<1> HIDE DEF r, t
<1>5. \A f \in DOMAIN t : t[f] = r[f]
  BY <1>1, <1>2, <1>3
<1>6. t = r
  BY <1>1, <1>4, <1>5
<1> QED
  BY <1>6 DEF r, t

LEMMA RInvInit == MeteringInit => RInv
  BY NewCounterFacts DEF MeteringInit, RInv, StreamInv, DocumentInv, UnansweredInv, Answered

LEMMA RInvNext == RInv /\ [MeteringNext]_meteringVars => RInv'
<1> SUFFICES ASSUME RInv, [MeteringNext]_meteringVars PROVE RInv'
  OBVIOUS
<1> USE DEF RInv
<1>1. CASE Refuse \/ Hold \/ HoldClamped \/ RefuseClamped
  <2>1. /\ stage = "asked" /\ stage' \in {"refused", "held"}
        /\ UNCHANGED <<answer, body, sent, counted, counter, capture, report, bill>>
    BY <1>1 DEF Refuse, Hold, HoldClamped, RefuseClamped, ClampTried, askVars, billVars
  <2> QED
    BY <2>1 DEF StreamInv, DocumentInv, UnansweredInv, Answered
<1>2. CASE \E a \in Answers : AnswerStream(a)
  <2>1. PICK a \in Answers : AnswerStream(a)
    BY <1>2
  <2>2. /\ stage = "held" /\ stage' = "answered" /\ answer' = a /\ a.kind = "sse"
        /\ body' = Stream(a)
        /\ UNCHANGED <<sent, counted, counter, capture, report, bill>>
    BY <2>1 DEF AnswerStream, billVars
  <2>3. /\ sent' = 0 /\ counted' = 0 /\ counter' = NewCounter /\ capture' = NoUsage
        /\ report' = NoUsage /\ bill' = 0
    BY <2>2 DEF UnansweredInv, Answered
  <2>4. a.events \in Seq(Events) /\ a.split \in BOOLEAN /\ Len(a.events) \in Nat
    BY AnswersAssumption
  <2>5. InStream(0, 0)'
    <3>1. Buffered(a.split, NewCounter, 1, 0)
      BY <2>4, NewCounterFacts, BufferFacts DEF Buffered
    <3>2. Tally(a.events, NewCounter, 0, 0)
      BY <2>4, NewCounterFacts, TallyNothing
    <3>3. /\ 0 \in 0 .. PeriodIf(a.split) - 1 /\ PeriodIf(a.split) * 0 + 0 = 0
          /\ 0 + 1 = 1
          /\ 0 < Len(a.events) \/ (0 = Len(a.events) /\ 0 = 0)
      BY <2>4 DEF PeriodIf
    <3> QED
      BY <2>2, <2>3, <3>1, <3>2, <3>3 DEF InStream
  <2>6. Len(Stream(a)) \in Nat
    BY <2>4, StreamFacts DEF PeriodIf
  <2>7. StreamInv'
    BY <2>2, <2>3, <2>5, <2>6, NewCounterFacts DEF StreamInv
  <2> QED
    BY <2>2, <2>3, <2>7 DEF DocumentInv, UnansweredInv, Answered
<1>3. CASE \E a \in Answers : \E n \in 0 .. Len(Document(a)) : AnswerDocument(a, n)
  <2>1. PICK a \in Answers : \E n \in 0 .. Len(Document(a)) : AnswerDocument(a, n)
    BY <1>3
  <2>2. PICK n \in 0 .. Len(Document(a)) : AnswerDocument(a, n)
    BY <2>1
  <2> DEFINE b == SubSeq(Document(a), 1, n)
  <2>3. /\ stage = "held" /\ stage' = "answered" /\ answer' = a /\ a.kind # "sse"
        /\ body' = b /\ capture' = UsageIn(a.events, b)
        /\ UNCHANGED <<sent, counted, counter, report, bill>>
    BY <2>2 DEF AnswerDocument, billVars
  <2>4. /\ sent' = 0 /\ counted' = 0 /\ counter' = NewCounter
        /\ report' = NoUsage /\ bill' = 0
    BY <2>3 DEF UnansweredInv, Answered
  <2>5. DocumentBody(a, b)
    BY DocumentFacts
  <2>6. b \in Seq(Pieces)
    BY <2>5, DocumentUsage
  <2> HIDE DEF b
  <2>7. SubSeq(b, 1, 0) = <<>>
    BY SubSeqEmpty
  <2>8. NewCounter = Collected(<<>>)
    BY DEF NewCounter, Collected
  <2>9. Len(b) \in Nat
    BY <2>6
  <2>11. NewCounter = Collected(
            IF a.ok /\ a.kind = "json" THEN SubSeq(b, 1, 0) ELSE <<>>)
    BY <2>7, <2>8
  <2>10. DocumentInv'
    BY <2>3, <2>4, <2>5, <2>9, <2>11 DEF DocumentInv, Answered
  <2> QED
    BY <2>3, <2>4, <2>10 DEF StreamInv, UnansweredInv, Answered
<1>4. CASE \E n \in 1 .. Len(body) : Write(n)
  <2>1. PICK n \in 1 .. Len(body) : Write(n)
    BY <1>4
  <2> DEFINE seen == IF answer.ok /\ answer.kind = "json" THEN SubSeq(body, sent + 1, sent + n)
                     ELSE <<>>
  <2>2. /\ stage = "answered" /\ counted = sent /\ sent + n <= Len(body) /\ sent' = sent + n
        /\ counted' = IF Streaming THEN counted ELSE sent'
        /\ counter' = [counter EXCEPT !.json = @ \o seen, !.streamed = @ \/ Streaming]
        /\ UNCHANGED <<stage, answer, body, capture, report, bill>>
    BY <2>1 DEF Write, billVars
  <2>3. CASE answer.kind = "sse"
    <3>1. seen = <<>> /\ (Streaming <=> answer.ok)
      BY <2>3 DEF Streaming
    <3>2. /\ answer \in Answers /\ counter \in Counters /\ counter.json = <<>>
          /\ sent \in 0 .. Len(body) /\ body = Stream(answer)
      BY <2>2, <2>3 DEF StreamInv, Answered
    <3>3. <<>> \o <<>> = <<>> /\ <<>> \in Seq(Pieces)
      BY ShortSequences
    <3>4. answer.ok \in BOOLEAN /\ Streaming \in BOOLEAN
      BY <3>1, <3>2, AnswersAssumption DEF Streaming
    <3> HIDE DEF seen
    <3>5. /\ counter' \in Counters /\ counter'.json = <<>>
          /\ counter'.line = counter.line /\ counter'.data = counter.data
          /\ counter'.out = counter.out /\ counter'.in = counter.in /\ counter'.cost = counter.cost
      BY <2>2, <3>1, <3>2, <3>3, <3>4 DEF Counters
    <3>6. Len(body) \in Nat
      BY <3>2, StreamFacts DEF PeriodIf
    <3>7. sent' \in 0 .. Len(body') /\ counted' \in 0 .. sent'
      BY <2>2, <3>2, <3>6
    <3>8. ASSUME answer.ok PROVE \E m, j \in Nat : InStream(m, j)'
      <4>1. PICK m \in Nat, j \in Nat : InStream(m, j)
        BY <2>2, <2>3, <3>8 DEF StreamInv, Answered
      <4>2. Tally(answer.events, counter', m, m) /\ Buffered(answer.split, counter', m + 1, j)
        BY <3>5, <4>1, TallySame DEF InStream, Buffered
      <4>3. counted' = counted
        BY <2>2, <3>1, <3>8
      <4>4. InStream(m, j)'
        BY <2>2, <4>1, <4>2, <4>3 DEF InStream
      <4> QED
        BY <4>4
    <3>9. ASSUME ~answer.ok PROVE counter' = NewCounter /\ counted' = sent'
      <4>1. counter = NewCounter /\ Streaming = FALSE
        BY <2>2, <2>3, <3>1, <3>4, <3>9 DEF StreamInv, Answered
      <4>2. counter' = [NewCounter EXCEPT !.json = <<>>, !.streamed = FALSE]
        BY <2>2, <3>1, <3>3, <4>1, NewCounterFacts
      <4> QED
        BY <2>2, <4>1, <4>2 DEF NewCounter
    <3>10. StreamInv'
      BY <2>2, <2>3, <3>2, <3>5, <3>7, <3>8, <3>9 DEF StreamInv, Answered
    <3> QED
      BY <2>2, <2>3, <3>10 DEF DocumentInv, UnansweredInv, Answered
  <2>4. CASE answer.kind # "sse"
    <3>1. ~Streaming
      BY <2>4 DEF Streaming
    <3> DEFINE own == answer.ok /\ answer.kind = "json"
    <3>2. /\ answer \in Answers /\ DocumentBody(answer, body)
          /\ sent \in 0 .. Len(body)
          /\ counter = Collected(IF own THEN SubSeq(body, 1, sent) ELSE <<>>)
      BY <2>2, <2>4 DEF DocumentInv, Answered
    <3>3. body \in Seq(Pieces) /\ Len(body) \in Nat
      BY <3>2, DocumentUsage
    <3>4. SubSeq(body, 1, sent) \o SubSeq(body, sent + 1, sent + n) = SubSeq(body, 1, sent + n)
      <4>1. /\ 1 \in 1 .. Len(body) + 1 /\ sent \in 1 - 1 .. Len(body)
            /\ sent + n \in sent .. Len(body)
        BY <2>2, <3>2, <3>3
      <4> QED
        BY <3>3, <4>1, ConcatAdjacentSubSeq
    <3>5. (IF own THEN SubSeq(body, 1, sent) ELSE <<>>) \o seen =
              IF own THEN SubSeq(body, 1, sent + n) ELSE <<>>
      BY <3>4, ShortSequences
    <3> HIDE DEF seen, own
    <3>6. counter' = Collected(IF own THEN SubSeq(body, 1, sent + n) ELSE <<>>)
      <4> DEFINE old == IF own THEN SubSeq(body, 1, sent) ELSE <<>>
                 new == IF own THEN SubSeq(body, 1, sent + n) ELSE <<>>
      <4>1. Streaming = FALSE
        BY <3>1 DEF Streaming
      <4>2. counter' = [counter EXCEPT !.json = @ \o seen, !.streamed = @ \/ FALSE]
        BY <2>2, <4>1
      <4>3. counter = Collected(old) /\ counter.json = old /\ counter.streamed = FALSE
        BY <3>2 DEF Collected
      <4>4. counter' = [counter EXCEPT !.json = new, !.streamed = FALSE]
        BY <3>5, <4>2, <4>3
      <4> HIDE DEF old, new
      <4>5. counter' = Collected(new)
        BY <4>3, <4>4 DEF Collected
      <4> QED
        BY <4>5 DEF new
    <3>7. sent' \in 0 .. Len(body') /\ counted' = sent'
      BY <2>2, <3>1, <3>2, <3>3
    <3>8. DocumentInv'
      BY <2>2, <2>4, <3>2, <3>6, <3>7 DEF DocumentInv, Answered, own
    <3> QED
      BY <2>2, <2>4, <3>8 DEF StreamInv, UnansweredInv, Answered
  <2> QED
    BY <2>3, <2>4
<1>5. CASE Count
  <2>1. /\ stage = "answered" /\ counted < sent /\ counted' = counted + 1
        /\ counter' = CounterWrite(counter, body[counted + 1])
        /\ UNCHANGED <<stage, answer, body, sent, capture, report, bill>>
    BY <1>5 DEF Count, billVars
  <2>2. answer.kind = "sse"
    <3>1. answer.kind # "sse" => sent \in 0 .. Len(body) /\ counted = sent
      BY <2>1 DEF DocumentInv, Answered
    <3> QED
      BY <2>1, <3>1
  <2>3. /\ answer \in Answers /\ counter \in Counters /\ counter.json = <<>>
        /\ sent \in 0 .. Len(body) /\ counted \in 0 .. sent /\ body = Stream(answer)
        /\ answer.ok
    BY <2>1, <2>2 DEF StreamInv, Answered
  <2>4. PICK m \in Nat, j \in Nat : InStream(m, j)
    BY <2>1, <2>2, <2>3 DEF StreamInv, Answered
  <2> DEFINE p == PeriodIf(answer.split)
             size == Len(answer.events)
  <2>5. answer.events \in Seq(Events) /\ answer.split \in BOOLEAN /\ size \in Nat /\ p \in {4, 5}
    BY <2>3, AnswersAssumption DEF PeriodIf
  <2>6. /\ j \in 0 .. p - 1 /\ counted = p * m + j
        /\ m < size \/ (m = size /\ j = 0)
        /\ Buffered(answer.split, counter, m + 1, j) /\ Tally(answer.events, counter, m, m)
    BY <2>4 DEF InStream
  <2>7. Len(body) = p * size /\ p * size \in Nat
    BY <2>3, <2>5, StreamFacts
  <2>8. m < size
    BY <2>1, <2>3, <2>5, <2>6, <2>7
  <2>9. body[counted + 1] = Lines(m + 1, answer.split)[j + 1]
    <3>1. Stream(answer)[p * m + j + 1] = Lines(m + 1, answer.split)[j + 1]
      BY <2>3, <2>6, <2>8, StreamFacts
    <3> QED
      BY <2>3, <2>6, <3>1
  <2>10. /\ counter' \in Counters /\ counter'.json = counter.json
         /\ IF j = p - 1
            THEN /\ Buffered(answer.split, counter', m + 2, 0)
                 /\ Tally(answer.events, counter', m + 1, m + 1)
            ELSE /\ Buffered(answer.split, counter', m + 1, j + 1)
                 /\ Tally(answer.events, counter', m, m)
    BY <2>1, <2>3, <2>5, <2>6, <2>8, <2>9, WriteStep
  <2>11. \E n, i \in Nat : InStream(n, i)'
    <3>1. CASE j = p - 1
      <4>1. /\ 0 \in 0 .. p - 1 /\ m + 1 \in Nat /\ m + 1 + 1 = m + 2
            /\ m + 1 < size \/ (m + 1 = size /\ 0 = 0)
            /\ counted' = p * (m + 1) + 0
        BY <2>1, <2>5, <2>6, <2>8, <3>1
      <4>2. InStream(m + 1, 0)'
        BY <2>1, <2>10, <3>1, <4>1 DEF InStream
      <4> QED
        BY <4>1, <4>2
    <3>2. CASE j # p - 1
      <4>1. /\ j + 1 \in 0 .. p - 1 /\ j + 1 \in Nat /\ counted' = p * m + (j + 1)
        BY <2>1, <2>5, <2>6, <3>2
      <4>2. InStream(m, j + 1)'
        BY <2>1, <2>8, <2>10, <3>2, <4>1 DEF InStream
      <4> QED
        BY <4>1, <4>2
    <3> QED
      BY <3>1, <3>2
  <2>12. counted' \in 0 .. sent'
    BY <2>1, <2>3, <2>7
  <2>13. StreamInv'
    BY <2>1, <2>2, <2>3, <2>10, <2>11, <2>12 DEF StreamInv, Answered
  <2> QED
    BY <2>1, <2>2, <2>13 DEF DocumentInv, UnansweredInv, Answered
<1>6. CASE Finish
  <2> DEFINE c == CounterFinish(counter)
             total == Take([out |-> c.out, in |-> c.in, cost |-> c.cost], capture)
  <2>1. /\ stage = "answered" /\ counted = sent
        /\ answer.kind = "sse" \/ sent = Len(body)
        /\ report' = total /\ stage' = "billed"
        /\ UNCHANGED <<answer, body, sent, counted, counter, capture>>
    BY <1>6 DEF Finish
  <2>2. ASSUME c \in Counters, capture \in Usages
        PROVE  /\ total \in Usages /\ total.out = Latest(capture.out, c.out)
               /\ total.in = Latest(capture.in, c.in) /\ total.cost = Latest(capture.cost, c.cost)
    <3> HIDE DEF c
    <3>1. /\ c.out \in Nat /\ c.in \in Nat /\ c.cost \in Nat
          /\ capture.out \in Nat /\ capture.in \in Nat /\ capture.cost \in Nat
      BY <2>2 DEF Counters, Usages
    <3>2. total = [out |-> Latest(capture.out, c.out), in |-> Latest(capture.in, c.in),
                   cost |-> Latest(capture.cost, c.cost)]
      BY TakeReports
    <3>3. /\ Latest(capture.out, c.out) \in Nat /\ Latest(capture.in, c.in) \in Nat
          /\ Latest(capture.cost, c.cost) \in Nat
      BY <3>1, LatestFacts
    <3> HIDE DEF total
    <3> QED
      BY <3>2, <3>3 DEF Usages
  <2>3. CASE answer.kind = "sse"
    <3>1. /\ answer \in Answers /\ counter \in Counters /\ counter.json = <<>>
          /\ capture = NoUsage /\ body = Stream(answer)
          /\ sent \in 0 .. Len(body) /\ counted \in 0 .. sent
      BY <2>1, <2>3 DEF StreamInv, Answered
    <3>2. answer.events \in Seq(Events) /\ answer.split \in BOOLEAN
      BY <3>1, AnswersAssumption
    <3>3. ASSUME c \in Counters
          PROVE  /\ total \in Usages
                 /\ total.out = c.out /\ total.in = c.in /\ total.cost = c.cost
      <4>1. c.out \in Nat /\ c.in \in Nat /\ c.cost \in Nat
        BY <3>3 DEF Counters
      <4> HIDE DEF c
      <4>2. capture.out = 0 /\ capture.in = 0 /\ capture.cost = 0
        BY <3>1 DEF NoUsage
      <4>3. capture \in Usages
        BY <3>1, NewCounterFacts
      <4>4. /\ total \in Usages /\ total.out = Latest(0, c.out)
            /\ total.in = Latest(0, c.in) /\ total.cost = Latest(0, c.cost)
        BY <2>2, <3>3, <4>2, <4>3
      <4> QED
        BY <4>1, <4>4, LatestFacts
    <3>4. CASE answer.ok
      <4>1. PICK m \in Nat, j \in Nat : InStream(m, j)
        BY <2>1, <2>3, <3>4 DEF StreamInv, Answered
      <4>2. /\ j \in 0 .. PeriodIf(answer.split) - 1
            /\ m < Len(answer.events) \/ j = 0
            /\ Buffered(answer.split, counter, m + 1, j) /\ Tally(answer.events, counter, m, m)
        BY <4>1 DEF InStream
      <4> DEFINE t == ToldBy(answer.split, m, j)
                 r == HeardBy(answer.events, answer.split, m, j)
      <4>3. c \in Counters /\ Tally(answer.events, c, t, r)
        BY <3>1, <3>2, <4>2, FinishStep
      <4> HIDE DEF c, t, r
      <4>4. total \in Usages /\ Tally(answer.events, total, t, r)
        BY <3>3, <4>3, TallySame
      <4> HIDE DEF total
      <4>5. InStream(m, j)' /\ Tally(answer.events, total, t, r)
        BY <2>1, <4>1, <4>4 DEF InStream
      <4>6. StreamInv'
        BY <2>1, <3>1, <3>4, <4>5 DEF StreamInv, Answered, t, r
      <4> QED
        BY <2>1, <2>3, <4>4, <4>6 DEF DocumentInv, UnansweredInv, Answered
    <3>5. CASE ~answer.ok
      <4>1. counter = NewCounter
        BY <2>1, <2>3, <3>5 DEF StreamInv, Answered
      <4>2. c \in Counters
        <5>1. UsageIn(answer.events, <<>>) = NoUsage /\ TextIn(answer.events, <<>>) = 0
          BY ReadingNothing
        <5> DEFINE usage == Take(NewCounter, NoUsage)
        <5>2. usage \in Counters /\ usage.json = <<>>
          BY NewCounterFacts, TakeNothing
        <5>3. c = IF usage.out = 0 /\ ~usage.streamed THEN [usage EXCEPT !.out = 0] ELSE usage
          BY <4>1, <5>1, <5>2, NewCounterFacts DEF CounterFinish
        <5> HIDE DEF usage, c
        <5> QED
          BY <5>2, <5>3 DEF Counters
      <4> HIDE DEF c
      <4>3. total \in Usages
        BY <3>3, <4>2
      <4> HIDE DEF total
      <4>4. StreamInv'
        BY <2>1, <2>3, <3>1, <3>5 DEF StreamInv, Answered
      <4> QED
        BY <2>1, <2>3, <4>3, <4>4 DEF DocumentInv, UnansweredInv, Answered
    <3>6. answer.ok \in BOOLEAN
      BY <3>1, AnswersAssumption
    <3> QED
      BY <3>4, <3>5
  <2>4. CASE answer.kind # "sse"
    <3> DEFINE json == IF answer.ok /\ answer.kind = "json" THEN SubSeq(body, 1, sent) ELSE <<>>
               text == TextIn(answer.events, json)
    <3>1. /\ answer \in Answers /\ DocumentBody(answer, body)
          /\ capture = UsageIn(answer.events, body) /\ counter = Collected(json)
          /\ sent = Len(body) /\ counted = sent /\ sent \in 0 .. Len(body)
      BY <2>1, <2>4 DEF DocumentInv, Answered
    <3>2. /\ body \in Seq(Pieces) /\ capture \in Usages /\ TextIn(answer.events, body) \in Nat
      BY <3>1, DocumentUsage
    <3>3. json = body \/ json = <<>>
      BY <3>1, <3>2, SubSeqFull
    <3> HIDE DEF json
    <3>4. UsageIn(answer.events, json) \in {capture, NoUsage} /\ text \in Nat
      BY <3>1, <3>2, <3>3, ReadingNothing
    <3> DEFINE u == UsageIn(answer.events, json)
    <3>5. /\ counter \in Counters /\ counter.line = <<>> /\ counter.data = <<>>
          /\ counter.json = json /\ counter.streamed = FALSE
          /\ counter.out = 0 /\ counter.in = 0 /\ counter.cost = 0
      <4>1. json \in Seq(Pieces)
        <5>1. <<>> \in Seq(Pieces)
          OBVIOUS
        <5> QED
          BY <3>2, <3>3, <5>1
      <4> QED
        BY <3>1, <4>1, NewCounterFacts DEF Counters, Collected
    <3>6. /\ u \in Usages /\ u.out \in Nat /\ u.in \in Nat /\ u.cost \in Nat
      BY <3>2, <3>4, NewCounterFacts DEF Usages
    <3> HIDE DEF u, text
    <3> DEFINE usage == Take(counter, u)
    <3>7. /\ usage \in Counters /\ usage.json = json /\ usage.streamed = FALSE
          /\ usage.out = u.out /\ usage.in = u.in /\ usage.cost = u.cost
      BY <3>5, <3>6, TakeFields DEF Latest
    <3>8. c = IF usage.out = 0 THEN [usage EXCEPT !.out = text] ELSE usage
      BY <3>5, <3>7 DEF CounterFinish, u, text
    <3> HIDE DEF usage, c
    <3>9. /\ c \in Counters /\ c.in = u.in /\ c.cost = u.cost
          /\ c.out = IF u.out = 0 THEN text ELSE u.out
      BY <3>4, <3>7, <3>8 DEF Counters, text
    <3>10. /\ total \in Usages /\ total.out = Latest(capture.out, c.out)
           /\ total.in = Latest(capture.in, c.in) /\ total.cost = Latest(capture.cost, c.cost)
      BY <2>2, <3>2, <3>9
    <3> HIDE DEF total
    <3>11. /\ total.out = Latest(capture.out, text)
           /\ total.in = capture.in /\ total.cost = capture.cost
      <4>1. capture.out \in Nat /\ capture.in \in Nat /\ capture.cost \in Nat
        BY <3>2 DEF Usages
      <4>2. u = capture \/ (u.out = 0 /\ u.in = 0 /\ u.cost = 0)
        BY <3>4 DEF u, NoUsage
      <4> QED
        BY <3>6, <3>9, <3>10, <4>1, <4>2 DEF Latest
    <3>12. total = [out |-> Latest(capture.out, text), in |-> capture.in, cost |-> capture.cost]
      BY <3>10, <3>11 DEF Usages
    <3>13. DocumentInv'
      BY <2>1, <2>4, <3>1, <3>5, <3>12 DEF DocumentInv, Answered, json, text
    <3> QED
      BY <2>1, <2>4, <3>10, <3>13 DEF StreamInv, UnansweredInv, Answered
  <2> QED
    BY <2>3, <2>4
<1>7. CASE UNCHANGED meteringVars
  <2>1. UNCHANGED <<stage, answer, body, sent, counted, counter, capture, report, bill>>
    BY <1>7 DEF meteringVars, billVars
  <2>2. StreamInv'
    BY <2>1 DEF StreamInv, Answered, InStream
  <2> QED
    BY <2>1, <2>2 DEF DocumentInv, UnansweredInv, Answered
<1> QED
  BY <1>1, <1>2, <1>3, <1>4, <1>5, <1>6, <1>7 DEF MeteringNext

LEMMA RInvHolds == MeteringSpec => []RInv
  BY RInvInit, RInvNext, PTL DEF MeteringSpec

LEMMA ReadingTypes ==
    ASSUME RInv
    PROVE  /\ answer \in Answers \cup {NoAnswer} /\ body \in Seq(Pieces)
           /\ sent \in 0 .. Len(body) /\ counted \in 0 .. sent
           /\ capture \in Usages /\ counter \in Counters
           /\ Len(counter.line \o counter.data) <= 2
<1>0. <<>> \o <<>> = <<>> /\ Len(<<>>) = 0
  BY ShortSequences
<1>1. CASE ~Answered
  <2>1. /\ answer = NoAnswer /\ body = <<>> /\ sent = 0 /\ counted = 0
        /\ counter = NewCounter /\ capture = NoUsage
    BY <1>1 DEF RInv, UnansweredInv
  <2>2. <<>> \in Seq(Pieces)
    OBVIOUS
  <2> QED
    BY <1>0, <2>1, <2>2, NewCounterFacts
<1>2. CASE Answered /\ answer.kind = "sse"
  <2>1. /\ answer \in Answers /\ body = Stream(answer) /\ capture = NoUsage
        /\ counter \in Counters /\ sent \in 0 .. Len(body) /\ counted \in 0 .. sent
        /\ answer.ok => \E m, j \in Nat : InStream(m, j)
        /\ ~answer.ok => counter = NewCounter
    BY <1>2 DEF RInv, StreamInv
  <2>2. body \in Seq(Pieces) /\ capture \in Usages
    BY <2>1, StreamFacts, NewCounterFacts
  <2>3. Len(counter.line \o counter.data) <= 2
    <3>1. CASE answer.ok
      <4>1. PICK m \in Nat, j \in Nat : InStream(m, j)
        BY <2>1, <3>1
      <4> DEFINE e == m + 1
                 one == <<e, 1>>
                 two == <<e, 2>>
      <4>2. /\ answer.split \in BOOLEAN /\ j \in {0, 1, 2, 3, 4} /\ (j = 4 => answer.split)
            /\ counter.line = LineOf(answer.split, e, j)
            /\ counter.data = DataOf(answer.split, e, j)
        BY <2>1, <4>1, AnswersAssumption DEF InStream, Buffered, PeriodIf
      <4>3. <<counter.line, counter.data>> \in
                {<<<<>>, <<>>>>, <<<<one>>, <<>>>>, <<<<one, two>>, <<>>>>,
                 <<<<>>, <<one>>>>, <<<<>>, <<one, two>>>>, <<<<two>>, <<one>>>>}
        BY <4>2, BufferFacts
      <4>4. /\ Len(<<one>> \o <<>>) <= 2 /\ Len(<<one, two>> \o <<>>) <= 2
            /\ Len(<<>> \o <<one>>) <= 2 /\ Len(<<>> \o <<one, two>>) <= 2
            /\ Len(<<two>> \o <<one>>) <= 2 /\ Len(<<>> \o <<>>) <= 2
        BY ShortSequences
      <4> HIDE DEF one, two
      <4> QED
        BY <4>3, <4>4
    <3>2. CASE ~answer.ok
      <4>1. counter.line = <<>> /\ counter.data = <<>>
        BY <2>1, <3>2, NewCounterFacts
      <4> QED
        BY <1>0, <4>1
    <3> QED
      BY <3>1, <3>2
  <2> QED
    BY <2>1, <2>2, <2>3
<1>3. CASE Answered /\ answer.kind # "sse"
  <2> DEFINE json == IF answer.ok /\ answer.kind = "json" THEN SubSeq(body, 1, sent) ELSE <<>>
  <2>1. /\ answer \in Answers /\ DocumentBody(answer, body)
        /\ sent \in 0 .. Len(body) /\ counted = sent
        /\ capture = UsageIn(answer.events, body) /\ counter = Collected(json)
    BY <1>3 DEF RInv, DocumentInv
  <2>2. body \in Seq(Pieces) /\ capture \in Usages
    BY <2>1, DocumentUsage
  <2>3. json \in Seq(Pieces)
    <3>1. SubSeq(body, 1, sent) \in Seq(Pieces)
      <4>1. \A i \in 1 .. sent : body[i] \in Pieces
        BY <2>1, <2>2, ElementOfSeq
      <4> QED
        BY <2>1, <4>1, SubSeqProperties
    <3>2. <<>> \in Seq(Pieces)
      OBVIOUS
    <3> QED
      BY <3>1, <3>2
  <2> HIDE DEF json
  <2>4. counter \in Counters /\ counter.line = <<>> /\ counter.data = <<>>
    <3>1. <<>> \in Seq(Pieces)
      OBVIOUS
    <3> QED
      BY <2>1, <2>3, <3>1 DEF Collected, Counters
  <2>5. counted \in 0 .. sent
    BY <2>1, <2>2
  <2> QED
    BY <1>0, <2>1, <2>2, <2>4, <2>5
<1> QED
  BY <1>1, <1>2, <1>3

-----------------------------------------------------------------------------
(* What was said and what is charged *)

HalfAt(split, h) == IF h = 1 THEN 0 ELSE IF split THEN 2 ELSE 1

LEMMA HalfThere ==
    ASSUME NEW e, NEW h \in {1, 2}, NEW split \in BOOLEAN
    PROVE  /\ HalfAt(split, h) \in 0 .. PeriodIf(split) - 1
           /\ Lines(e, split)[HalfAt(split, h) + 1] = <<e, h>>
<1> DEFINE k == HalfAt(split, h) + 1
<1>1. HalfAt(split, h) \in 0 .. PeriodIf(split) - 1
  BY DEF HalfAt, PeriodIf
<1>2. /\ h = 1 => k = 1
      /\ h = 2 /\ split => k = 3
      /\ h = 2 /\ ~split => k = 2
  BY DEF HalfAt
<1> HIDE DEF k
<1>3. Lines(e, split)[k] = <<e, h>>
  <2>1. CASE h = 1
    BY <1>2, <2>1, LinesIf
  <2>2. CASE h = 2 /\ split
    BY <1>2, <2>2, LinesIf
  <2>3. CASE h = 2 /\ ~split
    BY <1>2, <2>3, LinesIf
  <2> QED
    BY <2>1, <2>2, <2>3
<1> QED
  BY <1>1, <1>3 DEF k

LEMMA HalfOnlyThere ==
    ASSUME NEW e \in Nat, NEW d \in Nat, NEW h \in {1, 2}, NEW split \in BOOLEAN,
           NEW j \in 0 .. PeriodIf(split) - 1, Lines(e, split)[j + 1] = <<d, h>>
    PROVE  d = e /\ j = HalfAt(split, h)
<1> DEFINE k == j + 1
<1>1. <<d, h>> # Newline /\ Lines(e, split)[k] = <<d, h>>
  BY PieceFacts
<1>2. (<<e, 1>> = <<d, h>> => d = e /\ h = 1) /\ (<<e, 2>> = <<d, h>> => d = e /\ h = 2)
  OBVIOUS
<1>3. CASE ~split
  <2>1. k \in {1, 2, 3, 4} /\ j = k - 1
    BY <1>3 DEF PeriodIf
  <2>2. HalfAt(split, h) = h - 1
    BY <1>3 DEF HalfAt
  <2> HIDE DEF k
  <2>3. Lines(e, split)[k] \in {<<e, k>>, Newline} /\ (k > 2 => Lines(e, split)[k] = Newline)
    BY <1>3, <2>1, LinesIf
  <2>4. Lines(e, split)[k] = <<e, k>> /\ k \in {1, 2}
    BY <1>1, <2>1, <2>3
  <2> QED
    BY <1>1, <1>2, <2>1, <2>2, <2>4
<1>4. CASE split
  <2>1. k \in {1, 2, 3, 4, 5} /\ j = k - 1
    BY <1>4 DEF PeriodIf
  <2>2. HalfAt(split, h) = 2 * h - 2
    BY <1>4 DEF HalfAt
  <2> HIDE DEF k
  <2>3. /\ k \in {2, 4, 5} => Lines(e, split)[k] = Newline
        /\ k = 1 => Lines(e, split)[k] = <<e, 1>>
        /\ k = 3 => Lines(e, split)[k] = <<e, 2>>
    BY <1>4, LinesIf
  <2>4. k = 1 \/ k = 3
    BY <1>1, <2>1, <2>3
  <2> QED
    BY <1>1, <1>2, <2>1, <2>2, <2>3, <2>4
<1> QED
  BY <1>3, <1>4

LEMMA Blocks ==
    ASSUME NEW p \in {4, 5}, NEW k \in Nat, NEW m \in Nat,
           NEW i \in 0 .. p - 1, NEW j \in 0 .. p - 1
    PROVE  /\ p * k + i + 1 \in Nat /\ p * k + i + 1 > 0
           /\ p * k + i + 1 <= p * m + j <=> k < m \/ (k = m /\ i < j)
<1>1. CASE p = 4
  BY <1>1
<1>2. CASE p = 5
  BY <1>2
<1> QED
  BY <1>1, <1>2

LEMMA CameOfStream ==
    ASSUME answer \in Answers, body = Stream(answer),
           NEW m \in Nat, NEW j \in 0 .. PeriodIf(answer.split) - 1,
           m < Len(answer.events) \/ (m = Len(answer.events) /\ j = 0),
           sent = PeriodIf(answer.split) * m + j,
           NEW e \in DOMAIN answer.events, NEW h \in {1, 2}
    PROVE  Came(<<e, h>>) <=> e <= m \/ (e = m + 1 /\ j > HalfAt(answer.split, h))
<1> DEFINE p == PeriodIf(answer.split)
           size == Len(answer.events)
           at == HalfAt(answer.split, h)
<1>1. /\ answer.events \in Seq(Events) /\ answer.split \in BOOLEAN /\ p \in {4, 5}
      /\ size \in Nat /\ e \in Nat /\ e > 0 /\ e <= size
  BY AnswersAssumption, EventFacts DEF PeriodIf
<1>2. at \in 0 .. p - 1
  BY <1>1, HalfThere
<1>3. ASSUME Came(<<e, h>>) PROVE e <= m \/ (e = m + 1 /\ j > at)
  <2>1. PICK n \in 1 .. sent : body[n] = <<e, h>>
    BY <1>3 DEF Came
  <2>2. n \in 1 .. p * size
    BY <1>1, <2>1
  <2>3. PICK k \in Nat, l \in 0 .. p - 1 : k < size /\ n = p * k + l + 1
    BY <2>2, StreamFacts
  <2>4. Stream(answer)[n] = Lines(k + 1, answer.split)[l + 1]
    BY <2>3, StreamFacts
  <2>5. k + 1 = e /\ l = at
    <3>1. Lines(k + 1, answer.split)[l + 1] = <<e, h>> /\ k + 1 \in Nat
      BY <2>1, <2>4
    <3> QED
      BY <1>1, <3>1, HalfOnlyThere
  <2> HIDE DEF at, p
  <2>6. p * k + at + 1 <= p * m + j
    BY <1>1, <2>1, <2>3, <2>5 DEF p
  <2>7. k < m \/ (k = m /\ at < j)
    BY <1>1, <1>2, <2>6, Blocks DEF p
  <2> QED
    BY <1>1, <1>2, <2>5, <2>7
<1>4. ASSUME e <= m \/ (e = m + 1 /\ j > at) PROVE Came(<<e, h>>)
  <2> DEFINE k == e - 1
             n == p * k + at + 1
  <2>1. k \in Nat /\ k < size /\ k + 1 = e
    BY <1>1
  <2>2. Stream(answer)[n] = Lines(k + 1, answer.split)[at + 1]
    BY <1>2, <2>1, StreamFacts
  <2>3. Lines(k + 1, answer.split)[at + 1] = <<e, h>>
    <3>1. Lines(e, answer.split)[at + 1] = <<e, h>>
      BY <1>1, <1>2, HalfThere
    <3> QED
      BY <2>1, <3>1
  <2>4. n \in 1 .. sent
    <3>1. k < m \/ (k = m /\ at < j)
      BY <1>1, <1>2, <1>4, <2>1
    <3> HIDE DEF at, k
    <3>2. n \in Nat /\ n > 0 /\ n <= p * m + j
      BY <1>1, <1>2, <2>1, <3>1, Blocks
    <3>3. sent = p * m + j /\ sent \in Nat
      BY <1>1
    <3> QED
      BY <3>2, <3>3
  <2> QED
    BY <2>2, <2>3, <2>4 DEF Came
<1> QED
  BY <1>3, <1>4

\* The last report in the properties is the last report in the invariant, ...
LEMMA LastOfIs ==
    ASSUME answer.events \in Seq(Events), NEW r \in Nat, Reported = 1 .. r,
           r <= Len(answer.events), NEW field \in {"in", "cost", "out"},
           NEW last \in Nat, Newest(answer.events, field, r, last)
    PROVE  /\ LastOf(field) = [at |-> last, value |-> ValueAt(answer.events, field, last)]
           /\ ValueAt(answer.events, field, last) \in Nat
<1> DEFINE those == {e \in Reported : Event(e)[field] > 0}
<1>1. last \in 0 .. r /\ (last > 0 => answer.events[last][field] > 0)
      /\ \A e \in last + 1 .. r : answer.events[e][field] = 0
  BY DEF Newest
<1>2. \A e \in 1 .. r : answer.events[e][field] \in Nat
  BY EventFacts
<1>3. CASE last = 0
  <2>1. those = {}
    BY <1>1, <1>2, <1>3 DEF Event
  <2> QED
    BY <1>3, <2>1 DEF LastOf, ValueAt
<1>4. CASE last # 0
  <2>1. last \in those /\ \A e \in those : last >= e
    BY <1>1, <1>2, <1>4 DEF Event
  <2>2. those \subseteq Nat
    OBVIOUS
  <2> HIDE DEF those
  <2>3. Max(those) = last
    <3>1. \A e \in those : (\A d \in those : e >= d) => e = last
      BY <2>1, <2>2
    <3>2. (CHOOSE e \in those : \A d \in those : e >= d) = last
      BY <2>1, <3>1
    <3> QED
      BY <3>2 DEF Max
  <2> QED
    BY <1>1, <1>2, <1>4, <2>1, <2>3 DEF LastOf, ValueAt, Event, those
<1> QED
  BY <1>3, <1>4

\* ... and so is the text after it.
LEMMA TextAfterIs ==
    ASSUME NEW t \in Nat, Told = 1 .. t, NEW last \in Nat, answer.events \in Seq(Events)
    PROVE  TextAfter(last) = Total(TextBetween(answer.events, last, t))
<1>1. \A e \in DOMAIN answer.events : (e \in Told /\ e > last) <=> (e > last /\ e <= t)
  BY EventFacts
<1>2. [e \in DOMAIN answer.events |-> IF e \in Told /\ e > last THEN Event(e).text ELSE 0]
          = TextBetween(answer.events, last, t)
  BY <1>1 DEF TextBetween, Event
<1> QED
  BY <1>2 DEF TextAfter

\* A tally of what was said is what the property asks for.
LEMMA TallyIsExact ==
    ASSUME answer.events \in Seq(Events), NEW t \in Nat, NEW r \in Nat, r <= Len(answer.events),
           Told = 1 .. t, Reported = 1 .. r, NEW c, Tally(answer.events, c, t, r)
    PROVE  LET out == LastOf("out")
           IN  /\ c.in = LastOf("in").value /\ c.cost = LastOf("cost").value
               /\ c.out = out.value + TextAfter(out.at)
               /\ LastOf("in").value \in Nat /\ LastOf("cost").value \in Nat
               /\ out.value \in Nat /\ TextAfter(out.at) \in Nat
<1>1. c.in = LastOf("in").value /\ LastOf("in").value \in Nat
  <2>1. PICK last \in Nat :
          /\ Newest(answer.events, "in", r, last) /\ c.in = ValueAt(answer.events, "in", last)
    BY DEF Tally
  <2> QED
    BY <2>1, LastOfIs
<1>2. c.cost = LastOf("cost").value /\ LastOf("cost").value \in Nat
  <2>1. PICK last \in Nat :
          /\ Newest(answer.events, "cost", r, last)
          /\ c.cost = ValueAt(answer.events, "cost", last)
    BY DEF Tally
  <2> QED
    BY <2>1, LastOfIs
<1>3. /\ c.out = LastOf("out").value + TextAfter(LastOf("out").at)
      /\ LastOf("out").value \in Nat /\ TextAfter(LastOf("out").at) \in Nat
  <2>1. PICK last \in Nat :
          /\ Newest(answer.events, "out", r, last)
          /\ c.out = ValueAt(answer.events, "out", last)
                     + Total(TextBetween(answer.events, last, t))
    BY DEF Tally
  <2>2. /\ LastOf("out") = [at |-> last, value |-> ValueAt(answer.events, "out", last)]
        /\ ValueAt(answer.events, "out", last) \in Nat
    BY <2>1, LastOfIs
  <2>3. TextAfter(last) = Total(TextBetween(answer.events, last, t))
    BY TextAfterIs
  <2>4. Total(TextBetween(answer.events, last, t)) \in Nat
    BY TextTotals
  <2> QED
    BY <2>1, <2>2, <2>3, <2>4
<1> QED
  BY <1>1, <1>2, <1>3

\* All that the report is made of, in terms of what was said.
Exact ==
    LET out == LastOf("out")
    IN  /\ report.in = LastOf("in").value /\ report.cost = LastOf("cost").value
        /\ report.out = out.value + IF answer.kind = "other" THEN 0 ELSE TextAfter(out.at)
        /\ out.value \in Nat /\ TextAfter(out.at) \in Nat

LEMMA StreamReportIsExact ==
    ASSUME RInv, stage = "billed", answer.ok, answer.kind = "sse"
    PROVE  Exact
<1>1. /\ answer \in Answers /\ body = Stream(answer) /\ counted = sent
      /\ \E m, j \in Nat :
            /\ InStream(m, j)
            /\ Tally(answer.events, report, ToldBy(answer.split, m, j),
                     HeardBy(answer.events, answer.split, m, j))
  BY DEF RInv, StreamInv, Answered
<1>2. PICK m \in Nat, j \in Nat :
            /\ InStream(m, j)
            /\ Tally(answer.events, report, ToldBy(answer.split, m, j),
                     HeardBy(answer.events, answer.split, m, j))
  BY <1>1
<1> DEFINE t == ToldBy(answer.split, m, j)
           r == HeardBy(answer.events, answer.split, m, j)
           size == Len(answer.events)
<1>3. /\ j \in 0 .. PeriodIf(answer.split) - 1
      /\ m < size \/ (m = size /\ j = 0)
      /\ sent = PeriodIf(answer.split) * m + j
  BY <1>1, <1>2 DEF InStream
<1>4. answer.events \in Seq(Events) /\ answer.split \in BOOLEAN /\ size \in Nat
  BY <1>1, AnswersAssumption, EventFacts
<1>5. \A e \in DOMAIN answer.events : e \in Nat /\ e > 0 /\ e <= size
  BY <1>4, EventFacts
<1>6. \A e \in DOMAIN answer.events, h \in {1, 2} :
          Came(<<e, h>>) <=> e <= m \/ (e = m + 1 /\ j > HalfAt(answer.split, h))
  BY <1>1, <1>3, CameOfStream
<1>7. \A e \in DOMAIN answer.events :
          /\ Came(<<e, 1>>) <=> e <= m \/ (e = m + 1 /\ j > 0)
          /\ Came(<<e, 2>>) <=> e <= m \/ (e = m + 1 /\ t = m + 1)
  <2>1. HalfAt(answer.split, 1) = 0 /\ HalfAt(answer.split, 2) = IF answer.split THEN 2 ELSE 1
    BY DEF HalfAt
  <2>2. j > HalfAt(answer.split, 2) <=> t = m + 1
    BY <2>1 DEF ToldBy
  <2> HIDE DEF t
  <2> QED
    BY <1>6, <2>1, <2>2
<1>8. t = m \/ (t = m + 1 /\ m < size)
  BY <1>3, <1>4 DEF ToldBy, PeriodIf
<1>9. Told = 1 .. t
  <2> HIDE DEF t
  <2>1. \A e \in DOMAIN answer.events : Came(<<e, 2>>) <=> e <= t
    <3> SUFFICES ASSUME NEW e \in DOMAIN answer.events PROVE Came(<<e, 2>>) <=> e <= t
      OBVIOUS
    <3>1. e \in Nat /\ (Came(<<e, 2>>) <=> e <= m \/ (e = m + 1 /\ t = m + 1))
      BY <1>5, <1>7
    <3> QED
      BY <1>8, <3>1
  <2>2. Told = {e \in DOMAIN answer.events : e <= t}
    BY <2>1 DEF Told
  <2>3. DOMAIN answer.events = 1 .. size /\ t <= size /\ t \in Nat
    BY <1>3, <1>4, <1>8, EventFacts
  <2> HIDE DEF size
  <2> QED
    BY <1>4, <2>2, <2>3
<1>10. r = m \/ (r = m + 1 /\ m < size)
  BY <1>3, <1>4 DEF HeardBy
<1>11. Reported = 1 .. r
  <2>1. t = m + 1 => j > 0
    BY <1>3 DEF ToldBy
  <2>2. r = IF j > 0 /\ (t = m + 1 \/ answer.events[m + 1].early) THEN m + 1 ELSE m
    BY DEF HeardBy
  <2> HIDE DEF t, r
  <2>3. ASSUME NEW e \in DOMAIN answer.events
        PROVE  e \in Told \/ (Came(<<e, 1>>) /\ Event(e).early) <=> e <= r
    <3>1. e \in Told <=> e <= t
      BY <1>5, <1>8, <1>9
    <3>2. e \in Nat /\ (Came(<<e, 1>>) <=> e <= m \/ (e = m + 1 /\ j > 0))
      BY <1>5, <1>7
    <3>3. CASE e <= m
      BY <1>8, <1>10, <3>1, <3>2, <3>3
    <3>4. CASE e = m + 1
      BY <1>3, <1>8, <1>10, <2>1, <2>2, <3>1, <3>2, <3>4 DEF Event
    <3>5. CASE e > m + 1
      BY <1>8, <1>10, <3>1, <3>2, <3>5
    <3> QED
      BY <3>2, <3>3, <3>4, <3>5
  <2>4. Reported = {e \in DOMAIN answer.events : e <= r}
    <3>1. Told \subseteq DOMAIN answer.events
      BY DEF Told
    <3> QED
      BY <2>3, <3>1 DEF Reported
  <2>5. DOMAIN answer.events = 1 .. size /\ r <= size /\ r \in Nat
    BY <1>3, <1>4, <1>10, EventFacts
  <2> HIDE DEF size
  <2> QED
    BY <1>4, <2>4, <2>5
<1>12. r <= size /\ r \in Nat /\ t \in Nat
  BY <1>3, <1>4, <1>8, <1>10
<1> HIDE DEF t, r
<1>13. Tally(answer.events, report, t, r)
  BY <1>2 DEF t, r
<1> QED
  BY <1>4, <1>9, <1>11, <1>12, <1>13, TallyIsExact DEF Exact

LEMMA DocumentReportIsExact ==
    ASSUME RInv, stage = "billed", answer.ok, answer.kind # "sse"
    PROVE  Exact
<1> DEFINE events == answer.events
           one == <<1, 1>>
           two == <<1, 2>>
           u == UsageIn(events, body)
           text == TextIn(events, body)
           said == IF answer.kind = "json" THEN text ELSE 0
<1>1. /\ answer \in Answers /\ DocumentBody(answer, body) /\ sent = Len(body)
      /\ counter = Collected(IF answer.kind = "json" THEN SubSeq(body, 1, sent) ELSE <<>>)
      /\ report = [out |-> Latest(u.out, TextIn(events, counter.json)),
                   in |-> u.in, cost |-> u.cost]
  BY DEF RInv, DocumentInv, Answered
<1>2. /\ events \in Seq(Events) /\ answer.kind \in {"json", "other"}
      /\ body \in Seq(Pieces) /\ u \in Usages /\ text \in Nat
  BY <1>1, AnswersAssumption, DocumentUsage
<1>3. TextIn(events, counter.json) = said
  <2>1. counter.json = IF answer.kind = "json" THEN body ELSE <<>>
    BY <1>1, <1>2, SubSeqFull DEF Collected
  <2> QED
    BY <2>1, ReadingNothing
<1>4. report = [out |-> Latest(u.out, said), in |-> u.in, cost |-> u.cost]
  BY <1>1, <1>3
<1>5. \A e \in DOMAIN events : e \in Nat /\ e > 0
  BY <1>2, EventFacts
<1>6. ASSUME NEW t \in {0, 1}, NEW r \in {0, 1}, r <= Len(events),
             Told = 1 .. t, Reported = 1 .. r,
             r = 0 => u.out = 0 /\ u.in = 0 /\ u.cost = 0,
             r = 1 => u.out = events[1].out /\ u.in = events[1].in /\ u.cost = events[1].cost,
             t = 1 => r = 1,
             text = IF t = 1 THEN events[1].text ELSE 0
      PROVE  Exact
  <2> DEFINE c == [out |-> IF u.out > 0 THEN u.out ELSE text, in |-> u.in, cost |-> u.cost]
             zero == [out |-> 0, in |-> 0, cost |-> 0]
  <2>1. /\ c.out = (IF u.out > 0 THEN u.out ELSE text) /\ c.in = u.in /\ c.cost = u.cost
        /\ zero.out = 0 /\ zero.in = 0 /\ zero.cost = 0
        /\ u.out \in Nat /\ u.in \in Nat /\ u.cost \in Nat
    BY <1>2 DEF Usages
  <2>2. Tally(events, zero, 0, 0)
    BY <1>2, TallyNothing
  <2> HIDE DEF c, zero, u, text
  <2>3. Tally(events, c, t, r)
    <3>1. CASE r = 0
      <4>1. t = 0 /\ c.out = zero.out /\ c.in = zero.in /\ c.cost = zero.cost
        BY <1>6, <2>1, <3>1
      <4> QED
        BY <2>2, <3>1, <4>1, TallySame
    <3>2. CASE r = 1
      <4>1. /\ t \in {0, 0 + 1} /\ 0 < Len(events) /\ r = 0 + 1
            /\ c.in = Latest(events[0 + 1].in, zero.in)
            /\ c.cost = Latest(events[0 + 1].cost, zero.cost)
            /\ c.out = IF events[0 + 1].out > 0 THEN events[0 + 1].out
                       ELSE zero.out + IF t = 0 THEN 0 ELSE events[0 + 1].text
        BY <1>2, <1>6, <2>1, <3>2 DEF Latest
      <4>2. Tally(events, c, t, 0 + 1)
        BY <1>2, <2>2, <4>1, TallyStep
      <4> QED
        BY <3>2, <4>2
    <3> QED
      BY <3>1, <3>2
  <2>4. LET out == LastOf("out")
        IN  /\ c.in = LastOf("in").value /\ c.cost = LastOf("cost").value
            /\ c.out = out.value + TextAfter(out.at)
            /\ out.value \in Nat /\ TextAfter(out.at) \in Nat
    BY <1>2, <1>6, <2>3, TallyIsExact
  <2>5. report.in = c.in /\ report.cost = c.cost
    BY <1>4, <2>1
  <2>6. CASE answer.kind = "json"
    <3>1. report.out = c.out
      BY <1>4, <2>1, <2>6 DEF Latest
    <3> QED
      BY <2>4, <2>5, <2>6, <3>1 DEF Exact
  <2>7. CASE answer.kind = "other"
    <3>1. report.out = u.out
      BY <1>4, <2>1, <2>7 DEF Latest
    <3>2. LastOf("out").value = u.out
      <4>1. PICK last \in Nat : Newest(events, "out", r, last)
        BY <2>3 DEF Tally
      <4>2. LastOf("out").value = ValueAt(events, "out", last)
        BY <1>2, <1>6, <4>1, LastOfIs
      <4>3. CASE last = 0
        <5>1. r = 0 \/ events[1].out = 0
          BY <4>1, <4>3 DEF Newest
        <5> QED
          BY <1>6, <4>2, <4>3, <5>1 DEF ValueAt
      <4>4. CASE last # 0
        <5>1. last = 1 /\ r = 1
          BY <4>1, <4>4 DEF Newest
        <5> QED
          BY <1>6, <4>2, <5>1 DEF ValueAt
      <4> QED
        BY <4>3, <4>4
    <3> QED
      BY <2>4, <2>5, <2>7, <3>1, <3>2 DEF Exact
  <2> QED
    BY <1>2, <2>6, <2>7
<1>7. one # two
  OBVIOUS
<1>8. CASE body = <<>>
  <2>1. \A p : ~Came(p)
    BY <1>1, <1>8 DEF Came
  <2>2. Told = 1 .. 0 /\ Reported = 1 .. 0
    BY <2>1 DEF Told, Reported
  <2>3. u = NoUsage /\ text = 0
    BY <1>8, ReadingNothing
  <2>4. u.out = 0 /\ u.in = 0 /\ u.cost = 0
    BY <2>3 DEF NoUsage
  <2>5. Len(events) \in Nat
    BY <1>2
  <2> QED
    BY <1>6, <2>2, <2>3, <2>4, <2>5
<1>9. CASE 1 \in DOMAIN events /\ body = <<one>>
  <2>1. \A p : Came(p) <=> p = one
    <3>1. sent = 1 /\ body[1] = one
      BY <1>1, <1>9
    <3> QED
      BY <3>1 DEF Came
  <2>2. Told = 1 .. 0
    BY <1>7, <2>1 DEF Told
  <2>3. Reported = IF events[1].early THEN 1 .. 1 ELSE 1 .. 0
    <3>1. \A e \in DOMAIN events : Came(<<e, 1>>) <=> e = 1
      BY <2>1
    <3> QED
      BY <1>9, <2>2, <3>1 DEF Reported, Event
  <2>4. /\ u = IF events[1].early
               THEN [out |-> events[1].out, in |-> events[1].in, cost |-> events[1].cost]
               ELSE NoUsage
        /\ text = 0
    BY <1>2, <1>9, Readings
  <2>5. Len(events) >= 1 /\ Len(events) \in Nat
    BY <1>2, <1>9, EventFacts
  <2>6. CASE events[1].early
    <3>1. u.out = events[1].out /\ u.in = events[1].in /\ u.cost = events[1].cost
      BY <2>4, <2>6
    <3> QED
      BY <1>6, <2>2, <2>3, <2>4, <2>5, <2>6, <3>1
  <2>7. CASE ~events[1].early
    <3>1. u.out = 0 /\ u.in = 0 /\ u.cost = 0
      BY <2>4, <2>7 DEF NoUsage
    <3> QED
      BY <1>6, <2>2, <2>3, <2>4, <2>5, <2>7, <3>1
  <2> QED
    BY <2>6, <2>7
<1>10. CASE 1 \in DOMAIN events /\ body = <<one, two>>
  <2>1. \A p : Came(p) <=> p = one \/ p = two
    <3>1. sent = 2 /\ body[1] = one /\ body[2] = two
      BY <1>1, <1>10
    <3> QED
      BY <3>1 DEF Came
  <2>2. Told = 1 .. 1 /\ Reported = 1 .. 1
    <3>1. \A e \in DOMAIN events : (Came(<<e, 2>>) <=> e = 1) /\ (Came(<<e, 1>>) <=> e = 1)
      BY <2>1
    <3>2. Told = {1}
      BY <1>10, <3>1 DEF Told
    <3>3. Reported = {1}
      BY <1>10, <3>1, <3>2 DEF Reported
    <3> QED
      BY <3>2, <3>3
  <2>3. /\ u = [out |-> events[1].out, in |-> events[1].in, cost |-> events[1].cost]
        /\ text = events[1].text
    BY <1>2, <1>10, Readings
  <2>4. u.out = events[1].out /\ u.in = events[1].in /\ u.cost = events[1].cost
    BY <2>3
  <2>5. Len(events) >= 1 /\ Len(events) \in Nat
    BY <1>2, <1>10, EventFacts
  <2> QED
    BY <1>6, <2>2, <2>3, <2>4, <2>5
<1> QED
  BY <1>1, <1>8, <1>9, <1>10 DEF DocumentBody

LEMMA ReportIsExact ==
    ASSUME RInv, stage = "billed", answer.ok
    PROVE  Exact
  BY StreamReportIsExact, DocumentReportIsExact

-----------------------------------------------------------------------------
(* Money *)

USE MaxIntAssumption DEF Amount

-----------------------------------------------------------------------------
(* Rounding *)

\* ceilDiv by 1000 is the least number that pays for n thousandths.
LEMMA CeilDivIsLeast ==
    ASSUME NEW n \in Nat
    PROVE  /\ CeilDiv(n, PerUnit) \in Nat
           /\ n <= CeilDiv(n, PerUnit) * PerUnit
           /\ CeilDiv(n, PerUnit) * PerUnit < n + PerUnit
<1>1. CASE n = 0
  BY <1>1 DEF CeilDiv, PerUnit
<1>2. CASE n # 0
  <2> DEFINE q == (n - 1) \div 1000
  <2>1. n - 1 \in Nat
    BY <1>2
  <2>2. q \in Nat /\ q * 1000 <= n - 1 /\ n - 1 < q * 1000 + 1000
    BY <2>1
  <2>3. CeilDiv(n, PerUnit) = 1 + q
    BY <1>2 DEF CeilDiv, PerUnit
  <2> HIDE DEF q
  <2> QED
    BY <2>2, <2>3 DEF PerUnit
<1> QED
  BY <1>1, <1>2

LEMMA Products ==
    ASSUME NEW a \in Nat, NEW b \in Nat, NEW p \in Nat
    PROVE  /\ a * p \in Nat
           /\ a <= b => a * p <= b * p
           /\ a = 0 \/ p = 0 => a * p = 0
           /\ (a + 1) * p = a * p + p
  OBVIOUS

\* costMicroUSD rounds the exact cost up, by less than a micro-USD.
LEMMA CostRoundsUp ==
    ASSUME NEW tokens \in Nat, NEW price \in Nat
    PROVE  /\ CostMicroUSD(tokens, price) \in Nat
           /\ tokens * price <= CostMicroUSD(tokens, price) * PerUnit
           /\ CostMicroUSD(tokens, price) * PerUnit < tokens * price + PerUnit
<1>1. tokens * price \in Nat /\ (tokens = 0 \/ price = 0 => tokens * price = 0)
  BY Products
<1>2. CASE tokens = 0 \/ price = 0
  BY <1>1, <1>2 DEF CostMicroUSD, PerUnit
<1>3. CASE ~(tokens = 0 \/ price = 0)
  <2>1. CostMicroUSD(tokens, price) = CeilDiv(tokens * price, PerUnit)
    BY <1>3 DEF CostMicroUSD
  <2> QED
    BY <1>1, <2>1, CeilDivIsLeast
<1> QED
  BY <1>2, <1>3

\* More tokens never cost less.
LEMMA CostIsMonotone ==
    ASSUME NEW few \in Nat, NEW many \in Nat, NEW price \in Nat, few <= many
    PROVE  CostMicroUSD(few, price) <= CostMicroUSD(many, price)
<1> DEFINE f == CostMicroUSD(few, price)
           m == CostMicroUSD(many, price)
           x == few * price
           y == many * price
<1>1. f \in Nat /\ x <= f * PerUnit /\ f * PerUnit < x + PerUnit
  BY CostRoundsUp
<1>2. m \in Nat /\ y <= m * PerUnit /\ m * PerUnit < y + PerUnit
  BY CostRoundsUp
<1>3. x \in Nat /\ y \in Nat /\ x <= y
  BY Products
<1> HIDE DEF f, m, x, y
<1>4. f <= m
  BY <1>1, <1>2, <1>3 DEF PerUnit
<1> QED
  BY <1>4 DEF f, m

LEMMA Division ==
    ASSUME NEW n \in Nat, NEW d \in Nat, d > 0
    PROVE  /\ n \div d \in Nat
           /\ (n \div d) * d <= n
           /\ n < (n \div d) * d + d
  OBVIOUS

\* costMicroUSD's check is the right one: a product that passes is an int64.
LEMMA FittingProduct ==
    ASSUME NEW tokens \in Nat, NEW price \in Nat, Fits(tokens, price)
    PROVE  tokens * price <= MaxInt
<1>1. CASE tokens = 0 \/ price = 0
  BY <1>1, Products
<1>2. CASE ~(tokens = 0 \/ price = 0)
  <2> DEFINE q == MaxInt \div price
  <2>1. q \in Nat /\ q * price <= MaxInt
    BY <1>2, Division
  <2>2. tokens <= q
    BY <1>2 DEF Fits
  <2> HIDE DEF q
  <2>3. tokens * price \in Nat /\ q * price \in Nat /\ tokens * price <= q * price
    BY <2>1, <2>2, Products
  <2> QED
    BY <2>1, <2>3
<1> QED
  BY <1>1, <1>2

-----------------------------------------------------------------------------
(* Clamping *)

LEMMA EstimateParts ==
    ASSUME NEW rate \in Rates, NEW in \in Nat, NEW out \in Nat
    PROVE  /\ CostMicroUSD(in, rate.in) \in Nat
           /\ CostMicroUSD(out, rate.out) \in Nat
           /\ Estimate(rate, in, out) = CostMicroUSD(in, rate.in) + CostMicroUSD(out, rate.out)
           /\ Estimate(rate, in, out) \in Nat
<1>1. rate.in \in Nat /\ rate.out \in Nat
  BY DEF Rates
<1>2. CostMicroUSD(in, rate.in) \in Nat
  BY <1>1, CostRoundsUp
<1>3. CostMicroUSD(out, rate.out) \in Nat
  BY <1>1, CostRoundsUp
<1> QED
  BY <1>2, <1>3 DEF Estimate

LEMMA EstimateIsMonotone ==
    ASSUME NEW rate \in Rates, NEW in1 \in Nat, NEW in2 \in Nat, in1 <= in2,
           NEW out1 \in Nat, NEW out2 \in Nat, out1 <= out2
    PROVE  Estimate(rate, in1, out1) <= Estimate(rate, in2, out2)
<1>1. rate.in \in Nat /\ rate.out \in Nat
  BY DEF Rates
<1>2. CostMicroUSD(in1, rate.in) <= CostMicroUSD(in2, rate.in)
  BY <1>1, CostIsMonotone
<1>3. CostMicroUSD(out1, rate.out) <= CostMicroUSD(out2, rate.out)
  BY <1>1, CostIsMonotone
<1> QED
  BY <1>2, <1>3, EstimateParts

\* Fewer tokens can be estimated, if more can.
LEMMA FewerAreEstimable ==
    ASSUME NEW rate \in Rates, NEW in \in Nat, NEW few \in Nat, NEW many \in Nat, few <= many,
           Estimable(rate, in, many)
    PROVE  Estimable(rate, in, few)
<1>1. rate.in \in Nat /\ rate.out \in Nat
  BY DEF Rates
<1>2. Fits(few, rate.out)
  <2>1. CASE rate.out = 0 \/ few = 0
    BY <2>1 DEF Fits
  <2>2. CASE rate.out # 0 /\ few # 0
    <3>1. MaxInt \div rate.out \in Nat /\ many # 0
      BY <1>1, <2>2, Division
    <3>2. many <= MaxInt \div rate.out
      BY <3>1, <2>2 DEF Estimable, Fits
    <3>3. few <= MaxInt \div rate.out
      BY <3>1, <3>2
    <3> QED
      BY <3>3 DEF Fits
  <2> QED
    BY <2>1, <2>2
<1>3. CostMicroUSD(few, rate.out) <= CostMicroUSD(many, rate.out)
  BY <1>1, CostIsMonotone
<1>4. /\ CostMicroUSD(in, rate.in) \in Nat
      /\ CostMicroUSD(few, rate.out) \in Nat
      /\ CostMicroUSD(many, rate.out) \in Nat
  BY EstimateParts
<1>5. Fits(in, rate.in) /\ CostMicroUSD(in, rate.in) <= MaxInt - CostMicroUSD(many, rate.out)
  BY DEF Estimable
<1>6. CostMicroUSD(in, rate.in) <= MaxInt - CostMicroUSD(few, rate.out)
  BY <1>3, <1>4, <1>5
<1> QED
  BY <1>2, <1>5, <1>6 DEF Estimable

\* What clampEstimateToBudget is called with: an estimate there is, of more
\* than what is available, whose input alone is affordable.
ClampCase(rate, in, max, available) ==
    /\ rate \in Rates /\ in \in Nat /\ max \in Nat /\ available \in Nat
    /\ Estimable(rate, in, max)
    /\ Estimate(rate, in, max) > available
    /\ CostMicroUSD(in, rate.in) <= available

\* guard.go:326 multiplies the room by 1000 unchecked.  It need not be: the
\* room is less than the output's cost, whose product was checked.
LEMMA RoomFits ==
    ASSUME NEW rate, NEW in, NEW max, NEW available, ClampCase(rate, in, max, available)
    PROVE  LET room == available - CostMicroUSD(in, rate.in)
           IN  room \in Nat /\ room * PerUnit <= MaxInt
<1> DEFINE c == CostMicroUSD(in, rate.in)
           o == CostMicroUSD(max, rate.out)
           x == max * rate.out
<1>1. /\ rate \in Rates /\ in \in Nat /\ max \in Nat /\ available \in Nat
      /\ rate.in \in Nat /\ rate.out \in Nat
      /\ Fits(max, rate.out)
  BY DEF ClampCase, Rates, Estimable
<1>2. c \in Nat /\ o \in Nat /\ c <= available /\ c + o > available
  BY <1>1, EstimateParts DEF ClampCase
<1>3. x \in Nat /\ x <= MaxInt
  BY <1>1, Products, FittingProduct
<1>4. o * PerUnit < x + PerUnit
  BY <1>1, CostRoundsUp
<1> HIDE DEF c, o, x
<1>5. available - c \in Nat /\ (available - c) * PerUnit <= MaxInt
  BY <1>1, <1>2, <1>3, <1>4 DEF PerUnit
<1> QED
  BY <1>5 DEF c

LEMMA NoWrap ==
    ASSUME NEW x \in Nat, x <= MaxInt
    PROVE  Wrap(x) = x
<1>1. x + MaxInt + 1 \in Nat /\ x + MaxInt + 1 < 2 * MaxInt + 2
  OBVIOUS
<1>2. \A n \in Nat, d \in Nat : n < d => n % d = n
  OBVIOUS
<1>3. (x + MaxInt + 1) % (2 * MaxInt + 2) = x + MaxInt + 1
  BY <1>1, <1>2
<1> QED
  BY <1>3 DEF Wrap

\* The tokens the room pays for are the most it pays for.
LEMMA AffordableIsMost ==
    ASSUME NEW rate, NEW in, NEW max, NEW available, ClampCase(rate, in, max, available),
           rate.out > 0
    PROVE  LET room == available - CostMicroUSD(in, rate.in)
               most == Affordable(rate, in, available)
           IN  /\ most \in Nat
               /\ CostMicroUSD(most, rate.out) <= room
               /\ CostMicroUSD(most + 1, rate.out) > room
<1> DEFINE room == available - CostMicroUSD(in, rate.in)
           most == Affordable(rate, in, available)
           p == rate.out
           x == most * p
           c == CostMicroUSD(most, p)
           d == CostMicroUSD(most + 1, p)
<1>1. room \in Nat /\ room * PerUnit \in Nat /\ room * PerUnit <= MaxInt
  BY RoomFits DEF PerUnit
<1>2. p \in Nat /\ p > 0
  BY DEF ClampCase, Rates
<1>3. most = (room * PerUnit) \div p
  BY <1>1, NoWrap DEF Affordable, Quotient
<1>4. most \in Nat /\ x <= room * PerUnit /\ room * PerUnit < x + p
  BY <1>1, <1>2, <1>3, Division
<1>5. c \in Nat /\ c * PerUnit < x + PerUnit
  BY <1>2, <1>4, CostRoundsUp
<1>6. d \in Nat /\ x + p <= d * PerUnit
  <2>1. (most + 1) * p = x + p
    BY <1>2, <1>4, Products
  <2>2. most + 1 \in Nat
    BY <1>4
  <2>3. d \in Nat /\ (most + 1) * p <= d * PerUnit
    BY <1>2, <2>2, CostRoundsUp
  <2> QED
    BY <2>1, <2>3
<1>7. x \in Nat
  BY <1>2, <1>4, Products
<1> HIDE DEF room, most, p, x, c, d
<1>8. c <= room /\ d > room
  BY <1>1, <1>2, <1>4, <1>5, <1>6, <1>7 DEF PerUnit
<1> QED
  BY <1>4, <1>8 DEF room, most, p, c, d

\* clampEstimateToBudget: what it lowers the cap to is the best there is.
LEMMA ClampLemma ==
    ASSUME NEW rate, NEW in, NEW max, NEW available, ClampCase(rate, in, max, available)
    PROVE  LET clamped == ClampedTokens(rate, in, max, available)
           IN  /\ clamped \in Nat /\ clamped < max
               /\ Estimable(rate, in, clamped)
               /\ Estimate(rate, in, clamped) <= available
               /\ Estimate(rate, in, clamped + 1) > available
<1> DEFINE clamped == ClampedTokens(rate, in, max, available)
           most == Affordable(rate, in, available)
           c == CostMicroUSD(in, rate.in)
<1>1. /\ rate \in Rates /\ in \in Nat /\ max \in Nat /\ available \in Nat
      /\ rate.in \in Nat /\ rate.out \in Nat
      /\ Estimable(rate, in, max)
      /\ c \in Nat /\ c <= available
      /\ Estimate(rate, in, max) > available
  BY CostRoundsUp DEF ClampCase, Rates
<1>2. rate.out > 0
  <2>1. ASSUME rate.out = 0 PROVE FALSE
    <3>1. CostMicroUSD(max, rate.out) = 0
      BY <2>1 DEF CostMicroUSD
    <3>2. Estimate(rate, in, max) = c
      BY <1>1, <3>1 DEF Estimate
    <3> QED
      BY <1>1, <3>2
  <2> QED
    BY <1>1, <2>1
<1>3. /\ most \in Nat
      /\ CostMicroUSD(most, rate.out) <= available - c
      /\ CostMicroUSD(most + 1, rate.out) > available - c
  BY <1>2, AffordableIsMost
<1>4. Estimate(rate, in, most) <= available /\ Estimate(rate, in, most + 1) > available
  <2>1. /\ Estimate(rate, in, most) = c + CostMicroUSD(most, rate.out)
        /\ Estimate(rate, in, most + 1) = c + CostMicroUSD(most + 1, rate.out)
    BY DEF Estimate
  <2>2. most + 1 \in Nat
    BY <1>3
  <2>3. CostMicroUSD(most, rate.out) \in Nat /\ CostMicroUSD(most + 1, rate.out) \in Nat
    BY <1>1, <1>3, <2>2, CostRoundsUp
  <2> HIDE DEF most, c
  <2> QED
    BY <1>1, <1>3, <2>1, <2>3
<1>5. most < max
  <2>1. ASSUME max <= most PROVE FALSE
    BY <1>1, <1>3, <1>4, <2>1, EstimateIsMonotone, EstimateParts
  <2> QED
    BY <1>1, <1>3, <2>1
<1>6. clamped = most
  BY <1>2, <1>3, <1>5 DEF ClampedTokens
<1>7. Estimable(rate, in, most)
  BY <1>1, <1>3, <1>5, FewerAreEstimable
<1> QED
  BY <1>1, <1>3, <1>4, <1>5, <1>6, <1>7

-----------------------------------------------------------------------------
(* The behaviours *)

\* What holds of a request from the moment it is decided on.
HInv ==
    /\ request \in Requests /\ IsCaps(forwarded)
    /\ stage \in {"asked", "refused"} => hold = 0 /\ reserved = 0
    /\ stage \in {"held", "answered", "billed"} =>
          /\ reserved \in Nat
          /\ IF reserved < MaxOutput THEN \A f \in DOMAIN forwarded : forwarded[f] = reserved
             ELSE reserved = MaxOutput /\ forwarded = request.caps
          /\ quoted \in Rates
          /\ hold = Estimate(quoted, request.input, reserved)
    /\ quoted \in Rates \cup {NoRate}
    /\ stage = "asked" => quoted = request.rate
    /\ ClampIsBest

LEMMA QueryParts ==
    ASSUME NEW r \in Requests
    PROVE  /\ r.rate \in Rates /\ r.input \in Nat /\ r.available \in Amount
           /\ AskedTokens(r.caps) \in Amount /\ IsCaps(r.caps)
           /\ DOMAIN r.caps # {} => \E f \in DOMAIN r.caps : r.caps[f] = AskedTokens(r.caps)
<1>1. IsQuery(r) /\ DefaultMax \in Amount
  BY RequestsAssumption
<1>2. r.rate \in Rates /\ r.input \in Nat /\ r.available \in Amount /\ IsCaps(r.caps)
  BY <1>1 DEF IsQuery
<1>3. DOMAIN r.caps \subseteq CapFields /\ \A f \in DOMAIN r.caps : r.caps[f] \in Amount
  BY <1>1 DEF IsQuery, IsCaps
<1>4. AskedTokens(r.caps) \in Amount
  BY <1>1, <1>3 DEF AskedTokens
<1>5. ASSUME NEW g \in DOMAIN r.caps
      PROVE  \E f \in DOMAIN r.caps : r.caps[f] = AskedTokens(r.caps)
  BY <1>3, <1>5 DEF AskedTokens, CapFields
<1> QED
  BY <1>2, <1>4, <1>5

LEMMA HInvInit == MeteringInit => HInv
  BY QueryParts DEF MeteringInit, HInv, ClampIsBest

\* Whatever a look-up finds is a rate, or nothing.
LEMMA PriceFacts ==
    ASSUME request \in Requests
    PROVE  /\ PricesNow \subseteq Rates \cup {NoRate} /\ NoRate \notin Rates
           /\ request.rate \in PricesNow
<1>1. request.rate \in Rates
  BY QueryParts
<1> QED
  BY <1>1, RepricedAssumption DEF PricesNow

LEMMA HInvNext == HInv /\ [MeteringNext]_meteringVars => HInv'
<1> SUFFICES ASSUME HInv, [MeteringNext]_meteringVars PROVE HInv'
  OBVIOUS
<1> DEFINE r == request.rate
           in == request.input
<1>1. /\ r \in Rates /\ in \in Nat /\ MaxOutput \in Nat /\ request.available \in Nat
      /\ request \in Requests
  BY QueryParts DEF HInv, MaxOutput
<1>0. UNCHANGED request => UNCHANGED MaxOutput
  BY DEF MaxOutput
<1>2. CASE Refuse
  <2>1. UNCHANGED <<request, quoted, hold, reserved, forwarded>>
        /\ stage = "asked" /\ stage' = "refused"
    BY <1>2 DEF Refuse, askVars
  <2>2. CASE ~Estimable(r, in, MaxOutput) \/ request.available <= 0
    BY <1>0, <1>1, <2>1, <2>2 DEF HInv, ClampIsBest
  <2>3. CASE ~(~Estimable(r, in, MaxOutput) \/ request.available <= 0)
    <3> DEFINE n == IF MaxOutput = 0 THEN 0 ELSE 1
    <3>1. AsAsked > request.available /\ ~Clampable(r, in, MaxOutput, request.available)
      BY <1>2, <2>3 DEF Refuse
    <3>2. CASE CostMicroUSD(in, r.in) <= request.available
      <4>1. ClampCase(r, in, MaxOutput, request.available)
        BY <1>1, <2>3, <3>1, <3>2 DEF ClampCase, AsAsked
      <4>2. /\ ClampedTokens(r, in, MaxOutput, request.available) = 0 /\ MaxOutput # 0
            /\ ClampedTokens(r, in, MaxOutput, request.available) \in Nat
        BY <1>1, <3>1, <3>2, <4>1, ClampLemma DEF Clampable
      <4>3. Estimate(r, in, n) > request.available
        BY <4>1, <4>2, ClampLemma
      <4> QED
        BY <1>0, <1>1, <2>1, <4>3 DEF HInv, ClampIsBest
    <3>3. CASE ~(CostMicroUSD(in, r.in) <= request.available)
      <4>1. n \in Nat
        OBVIOUS
      <4>2. /\ CostMicroUSD(in, r.in) \in Nat /\ CostMicroUSD(n, r.out) \in Nat
            /\ Estimate(r, in, n) = CostMicroUSD(in, r.in) + CostMicroUSD(n, r.out)
        BY <1>1, <4>1, EstimateParts
      <4>3. Estimate(r, in, n) > request.available
        BY <1>1, <3>3, <4>2
      <4> QED
        BY <1>0, <1>1, <2>1, <4>3 DEF HInv, ClampIsBest
    <3> QED
      BY <3>2, <3>3
  <2> QED
    BY <2>2, <2>3
<1>3. CASE Hold
  <2>1. /\ UNCHANGED <<request, quoted>> /\ stage' = "held" /\ reserved' = MaxOutput
        /\ hold' = Estimate(r, in, MaxOutput) /\ quoted = r
        /\ Estimate(r, in, MaxOutput) <= request.available
        /\ forwarded' = request.caps
    BY <1>3 DEF Hold, AsAsked, HInv
  <2>2. IsCaps(forwarded')
    BY <1>1, <2>1, QueryParts
  <2> QED
    BY <1>0, <1>1, <2>1, <2>2 DEF HInv, ClampIsBest
<1>6. ASSUME ClampTried
      PROVE  /\ Clamped \in Nat /\ Clamped < MaxOutput
             /\ Estimable(r, in, Clamped)
             /\ Estimate(r, in, Clamped) <= request.available
             /\ Estimate(r, in, Clamped + 1) > request.available
  <2>1. ClampCase(r, in, MaxOutput, request.available)
    BY <1>1, <1>6 DEF ClampTried, ClampCase, Clampable, AsAsked
  <2> QED
    BY <2>1, ClampLemma DEF Clamped
<1>4. CASE HoldClamped
  <2>1. PICK p \in PricesNow : /\ StillFits(p) /\ quoted' = p
                               /\ hold' = Estimate(p, in, Clamped)
    BY <1>4 DEF HoldClamped
  <2>2. /\ ClampTried /\ UNCHANGED request /\ stage' = "held" /\ reserved' = Clamped
        /\ forwarded' = Rewritten(request.caps, Clamped)
    BY <1>4 DEF HoldClamped
  <2>3. quoted' \in Rates /\ hold' = Estimate(quoted', in, Clamped)
        /\ hold' <= request.available
    BY <1>1, <2>1, PriceFacts DEF StillFits
  <2>4. /\ \A f \in DOMAIN forwarded' : forwarded'[f] = Clamped
        /\ IsCaps(forwarded')
    <3>1. Clamped \in Amount /\ DOMAIN request.caps \subseteq CapFields
      BY <1>1, <1>6, <2>2, QueryParts DEF MaxOutput, IsCaps
    <3>2. "max_tokens" \in CapFields
      BY DEF CapFields
    <3> HIDE DEF Amount
    <3> QED
      BY <2>2, <3>1, <3>2 DEF Rewritten, IsCaps
  <2> QED
    BY <1>0, <1>1, <1>6, <2>2, <2>3, <2>4 DEF HInv, ClampIsBest
<1>7. CASE RefuseClamped
  <2>1. PICK p \in PricesNow : ~StillFits(p) /\ quoted' = p
    BY <1>7 DEF RefuseClamped
  <2>2. /\ ClampTried /\ stage = "asked" /\ stage' = "refused"
        /\ UNCHANGED <<request, hold, reserved, forwarded>>
    BY <1>7 DEF RefuseClamped, ClampTried
  <2>3. StillFits(r)
    BY <1>1, <1>6, <2>2, PriceFacts DEF StillFits
  <2>4. quoted' # request.rate /\ ~StillFits(quoted)' /\ quoted' \in Rates \cup {NoRate}
    BY <1>1, <2>1, <2>2, <2>3, PriceFacts DEF StillFits, Clamped, MaxOutput
  <2> QED
    BY <1>0, <1>1, <2>2, <2>4 DEF HInv, ClampIsBest
<1>5. CASE ~(Refuse \/ Hold \/ HoldClamped \/ RefuseClamped)
  <2>1. /\ UNCHANGED askVars
        /\ \/ UNCHANGED stage
           \/ stage = "held" /\ stage' = "answered"
           \/ stage = "answered" /\ stage' = "billed"
    BY <1>5 DEF MeteringNext, meteringVars, AnswerStream, AnswerDocument, Write, Count, Finish
  <2>2. UNCHANGED <<request, quoted, hold, reserved, forwarded>>
    BY <2>1 DEF askVars
  <2>3. \A p : StillFits(p)' <=> StillFits(p)
    BY <2>2 DEF StillFits, Clamped, MaxOutput
  <2> QED
    BY <1>0, <2>1, <2>2, <2>3 DEF HInv, ClampIsBest
<1> QED
  BY <1>2, <1>3, <1>4, <1>5, <1>7

LEMMA HInvHolds == MeteringSpec => []HInv
  BY HInvInit, HInvNext, PTL DEF MeteringSpec

\* The hold fits what is available, one more output token would not, and
\* nothing is refused that would fit, for every rate and request.
THEOREM ClampsAreBest == MeteringSpec => []ClampIsBest
<1>1. HInv => ClampIsBest
  BY DEF HInv
<1> QED
  BY <1>1, HInvHolds, PTL

\* A hold never falls short of the exact cost, and rounds up by less than two
\* micro-USD.
THEOREM HoldsRoundUp == MeteringSpec => []HoldRoundsUp
<1>1. ASSUME HInv PROVE HoldRoundsUp
  <2> SUFFICES ASSUME stage \in {"held", "answered", "billed"}
               PROVE  LET exact == request.input * quoted.in + reserved * quoted.out
                      IN  exact <= hold * PerUnit /\ hold * PerUnit < exact + 2 * PerUnit
    BY DEF HoldRoundsUp
  <2> DEFINE x == request.input * quoted.in
             y == reserved * quoted.out
             c == CostMicroUSD(request.input, quoted.in)
             o == CostMicroUSD(reserved, quoted.out)
  <2>1. /\ quoted \in Rates /\ request.input \in Nat /\ reserved \in Nat
        /\ quoted.in \in Nat /\ quoted.out \in Nat
        /\ hold = Estimate(quoted, request.input, reserved)
    BY <1>1, QueryParts DEF HInv, Rates
  <2>2. x \in Nat /\ y \in Nat
    BY <2>1, Products
  <2>3. c \in Nat /\ x <= c * PerUnit /\ c * PerUnit < x + PerUnit
    BY <2>1, CostRoundsUp
  <2>4. o \in Nat /\ y <= o * PerUnit /\ o * PerUnit < y + PerUnit
    BY <2>1, CostRoundsUp
  <2>5. hold = c + o
    BY <2>1 DEF Estimate
  <2> HIDE DEF x, y, c, o
  <2>6. x + y <= hold * PerUnit /\ hold * PerUnit < x + y + 2 * PerUnit
    BY <2>2, <2>3, <2>4, <2>5 DEF PerUnit
  <2> QED
    BY <2>6 DEF x, y
<1> QED
  BY <1>1, HInvHolds, PTL

\* What is billed is what the report is charged at some price, or without one.
BInv ==
    /\ charged \in Rates \cup {NoRate}
    /\ stage = "billed" => bill = Charge(report, charged)

LEMMA BInvHolds == MeteringSpec => []BInv
<1>1. MeteringInit => BInv
  BY DEF MeteringInit, BInv
<1>2. HInv /\ BInv /\ [MeteringNext]_meteringVars => BInv'
  <2> SUFFICES ASSUME HInv, BInv, [MeteringNext]_meteringVars PROVE BInv'
    OBVIOUS
  <2>1. CASE Finish
    <3>1. /\ charged' \in PricesNow /\ bill' = Charge(report', charged')
          /\ UNCHANGED <<request, hold, answer>>
      BY <2>1 DEF Finish, askVars
    <3>2. charged' \in Rates \cup {NoRate}
      BY <3>1, PriceFacts DEF HInv
    <3> QED
      BY <3>1, <3>2 DEF BInv, Charge
  <2>2. CASE UNCHANGED meteringVars
    BY <2>2 DEF meteringVars, askVars, billVars, BInv, Charge
  <2>3. CASE MeteringNext /\ ~Finish
    <3>1. UNCHANGED charged /\ stage' # "billed"
      BY <2>3 DEF MeteringNext, Refuse, Hold, HoldClamped, RefuseClamped, AnswerStream,
                 AnswerDocument, Write, Count, billVars
    <3> QED
      BY <3>1 DEF BInv
  <2> QED
    BY <2>1, <2>2, <2>3
<1> QED
  BY <1>1, <1>2, HInvHolds, PTL DEF MeteringSpec

\* What is known of a request that is billed: its report is of numbers of tokens.
LEMMA ChargeFacts ==
    ASSUME HInv, BInv, RInv, stage = "billed"
    PROVE  LET in == Latest(report.in, request.input)
           IN  /\ report.in \in Nat /\ report.out \in Nat /\ report.cost \in Nat
               /\ in \in Nat /\ in >= report.in
               /\ quoted \in Rates /\ request.input \in Nat /\ reserved \in Nat
               /\ hold = Estimate(quoted, request.input, reserved) /\ hold \in Nat
               /\ ~answer.ok => bill = 0
               /\ answer.ok /\ report.cost > 0 => bill = report.cost
               /\ answer.ok /\ report.cost = 0 =>
                     \/ bill = hold
                     \/ /\ charged \in Rates /\ charged # NoRate
                        /\ bill = Estimate(charged, in, report.out) /\ bill \in Nat
<1>1. report.in \in Nat /\ report.out \in Nat /\ report.cost \in Nat
  BY DEF RInv, Usages
<1>2. /\ quoted \in Rates /\ request.input \in Nat /\ reserved \in Nat
      /\ hold = Estimate(quoted, request.input, reserved)
  BY QueryParts DEF HInv
<1>3. hold \in Nat
  BY <1>2, EstimateParts
<1> DEFINE in == Latest(report.in, request.input)
<1>4. in \in Nat /\ in >= report.in
  BY <1>1, <1>2 DEF Latest
<1>5. bill = Charge(report, charged) /\ charged \in Rates \cup {NoRate}
  BY DEF BInv
<1> HIDE DEF in
<1>6. /\ ~answer.ok => bill = 0
      /\ answer.ok /\ report.cost > 0 => bill = report.cost
      /\ answer.ok /\ report.cost = 0 =>
            bill = hold \/ (charged # NoRate /\ bill = Estimate(charged, in, report.out))
  BY <1>1, <1>5 DEF Charge, in
<1>7. charged \in Rates => Estimate(charged, in, report.out) \in Nat
  BY <1>1, <1>4, EstimateParts
<1> QED
  BY <1>1, <1>2, <1>3, <1>4, <1>5, <1>6, <1>7 DEF in

\* At lower prices tokens never cost more.
LEMMA CheaperCostsLess ==
    ASSUME NEW low \in Rates, NEW high \in Rates, low.in <= high.in, low.out <= high.out,
           NEW in \in Nat, NEW out \in Nat
    PROVE  Estimate(low, in, out) <= Estimate(high, in, out)
<1>1. low.in \in Nat /\ low.out \in Nat /\ high.in \in Nat /\ high.out \in Nat
  BY DEF Rates
<1>2. ASSUME NEW n \in Nat, NEW p \in Nat, NEW q \in Nat, p <= q
      PROVE  CostMicroUSD(n, p) <= CostMicroUSD(n, q)
  <2>1. CostMicroUSD(n, p) = CostMicroUSD(p, n) /\ CostMicroUSD(n, q) = CostMicroUSD(q, n)
    <3>1. n * p = p * n /\ n * q = q * n
      OBVIOUS
    <3> QED
      BY <3>1 DEF CostMicroUSD
  <2> QED
    BY <1>2, <2>1, CostIsMonotone
<1>3. CostMicroUSD(in, low.in) <= CostMicroUSD(in, high.in)
  BY <1>1, <1>2
<1>4. CostMicroUSD(out, low.out) <= CostMicroUSD(out, high.out)
  BY <1>1, <1>2
<1> QED
  BY <1>3, <1>4, EstimateParts

\* Whatever the prices become between the estimate and the settlement, a
\* provider that keeps to the caps it was sent is charged no more than the hold,
\* or, if the model was made dearer, what the held tokens cost then.
THEOREM BillsAreCovered == MeteringSpec => []HoldCoversBill
<1>1. ASSUME HInv, BInv, RInv PROVE HoldCoversBill
  <2> SUFFICES ASSUME stage = "billed", report.in <= request.input,
                      KeptToCaps, report.cost = 0
               PROVE  \/ bill <= hold
                      \/ Raised /\ bill <= Estimate(charged, request.input, reserved)
    BY DEF HoldCoversBill
  <2> DEFINE in == Latest(report.in, request.input)
             held == Estimate(charged, request.input, reserved)
  <2>1. /\ report.in \in Nat /\ report.out \in Nat /\ in \in Nat
        /\ quoted \in Rates /\ request.input \in Nat /\ reserved \in Nat
        /\ hold = Estimate(quoted, request.input, reserved) /\ hold \in Nat
        /\ \/ bill = 0 \/ bill = hold
           \/ /\ charged \in Rates /\ charged # NoRate
              /\ bill = Estimate(charged, in, report.out) /\ bill \in Nat
    BY <1>1, ChargeFacts
  <2>2. report.out <= reserved
    <3>1. CASE reserved < MaxOutput
      BY <1>1, <3>1 DEF HInv, KeptToCaps
    <3>2. CASE ~(reserved < MaxOutput)
      <4>1. /\ reserved = AskedTokens(request.caps) /\ forwarded = request.caps
            /\ DOMAIN forwarded # {} /\ \A f \in DOMAIN forwarded : report.out <= forwarded[f]
        BY <1>1, <3>2 DEF HInv, KeptToCaps, MaxOutput
      <4>2. \E f \in DOMAIN request.caps : request.caps[f] = reserved
        BY <1>1, <4>1, QueryParts DEF HInv
      <4> QED
        BY <4>1, <4>2
    <3> QED
      BY <3>1, <3>2
  <2>3. in <= request.input
    BY <2>1 DEF Latest
  <2>4. CASE bill = 0 \/ bill = hold
    BY <2>1, <2>4
  <2>5. CASE ~(bill = 0 \/ bill = hold)
    <3>1. /\ charged \in Rates /\ charged # NoRate
          /\ bill = Estimate(charged, in, report.out) /\ bill \in Nat
      BY <2>1, <2>5
    <3> HIDE DEF in
    <3>2. bill <= held /\ held \in Nat
      BY <2>1, <2>2, <2>3, <3>1, EstimateIsMonotone, EstimateParts
    <3>3. CASE Raised
      BY <3>2, <3>3
    <3>4. CASE ~Raised
      <4>1. charged.in <= quoted.in /\ charged.out <= quoted.out
        BY <2>1, <3>1, <3>4 DEF Raised, Rates
      <4>2. held <= hold
        BY <2>1, <3>1, <4>1, CheaperCostsLess
      <4> QED
        BY <2>1, <3>1, <3>2, <4>2
    <3> QED
      BY <3>3, <3>4
  <2> QED
    BY <2>4, <2>5
<1> QED
  BY <1>1, HInvHolds, BInvHolds, RInvHolds, PTL

\* Whatever a provider answers, and however its answer is cut into pieces,
\* writes and lines, the report is the last number of each kind in it, and the
\* text of the events after the last report of output.
THEOREM ReportsAreExact == MeteringSpec => []ReportIsOfAnswer
<1>1. ASSUME RInv PROVE ReportIsOfAnswer
  <2>1. ASSUME stage = "billed", answer.ok PROVE Exact
    BY <1>1, <2>1, ReportIsExact
  <2> QED
    BY <2>1 DEF Exact, ReportIsOfAnswer
<1> QED
  BY <1>1, RInvHolds, PTL

\* An error is free, a price of the provider's own is charged as it is, and
\* otherwise nothing less than what the last reports cost at the price of the
\* settlement, or the hold.
THEOREM ChargesAreReports == MeteringSpec => []ChargedAsReported
<1>1. ASSUME HInv, BInv, RInv PROVE ChargedAsReported
  <2> SUFFICES ASSUME stage = "billed"
               PROVE  LET in == LastOf("in").value
                          out == LastOf("out").value
                          cost == LastOf("cost").value
                      IN  /\ ~answer.ok => bill = 0
                          /\ answer.ok /\ cost > 0 => bill = cost
                          /\ answer.ok /\ cost = 0 =>
                                \/ charged # NoRate /\ bill >= Estimate(charged, in, out)
                                \/ bill = hold
    BY DEF ChargedAsReported
  <2> DEFINE in == Latest(report.in, request.input)
             last == LastOf("out").value
  <2>1. /\ report.in \in Nat /\ report.out \in Nat /\ report.cost \in Nat
        /\ in \in Nat /\ report.in <= in
        /\ ~answer.ok => bill = 0
        /\ answer.ok /\ report.cost > 0 => bill = report.cost
        /\ answer.ok /\ report.cost = 0 =>
              \/ bill = hold
              \/ /\ charged \in Rates /\ charged # NoRate
                 /\ bill = Estimate(charged, in, report.out) /\ bill \in Nat
    BY <1>1, ChargeFacts
  <2>2. CASE ~answer.ok
    BY <2>1, <2>2
  <2>3. CASE answer.ok
    <3>1. /\ report.in = LastOf("in").value /\ report.cost = LastOf("cost").value
          /\ report.out = last + IF answer.kind = "other" THEN 0 ELSE TextAfter(LastOf("out").at)
          /\ last \in Nat /\ TextAfter(LastOf("out").at) \in Nat
      BY <1>1, <2>3, ReportIsExact DEF Exact
    <3> HIDE DEF last, in
    <3>2. last <= report.out
      BY <3>1
    <3>3. charged \in Rates =>
             /\ Estimate(charged, report.in, last) <= Estimate(charged, in, report.out)
             /\ Estimate(charged, report.in, last) \in Nat
      BY <2>1, <3>1, <3>2, EstimateIsMonotone, EstimateParts
    <3> QED
      BY <2>1, <2>3, <3>1, <3>3 DEF last
  <2> QED
    BY <2>2, <2>3
<1> QED
  BY <1>1, HInvHolds, BInvHolds, RInvHolds, PTL

\* Every variable stays within its type, and no answer makes the counter keep
\* more than two pieces of a line and of an event.
THEOREM MeteringTypes == MeteringSpec => []MeteringTypeOK
<1>1. ASSUME HInv, BInv, RInv PROVE MeteringTypeOK
  <2>1. /\ request.available \in Amount /\ MaxOutput \in Amount /\ request.rate \in Rates
        /\ request.input \in Nat
    BY <1>1, QueryParts DEF HInv, MaxOutput
  <2>2. stage \in {"asked", "refused", "held", "answered", "billed"}
    BY <1>1 DEF RInv
  <2>3. hold \in Amount /\ reserved \in Amount
    <3>1. CASE stage \in {"asked", "refused"}
      BY <1>1, <3>1 DEF HInv
    <3>2. CASE stage \in {"held", "answered", "billed"}
      <4>1. reserved \in Nat /\ reserved <= MaxOutput /\ hold <= request.available
        BY <1>1, <2>1, <3>2 DEF HInv, ClampIsBest
      <4>2. quoted \in Rates /\ hold = Estimate(quoted, request.input, reserved)
        BY <1>1, <3>2 DEF HInv
      <4>3. hold \in Nat
        BY <2>1, <4>1, <4>2, EstimateParts
      <4> QED
        BY <2>1, <4>1, <4>3
    <3> QED
      BY <2>2, <3>1, <3>2
  <2>4. bill \in Nat
    <3>1. CASE stage = "billed"
      BY <1>1, <3>1, ChargeFacts
    <3>2. CASE stage # "billed"
      BY <1>1, <3>2 DEF RInv, UnansweredInv
    <3> QED
      BY <3>1, <3>2
  <2>5. /\ answer \in Answers \cup {NoAnswer} /\ body \in Seq(Pieces)
        /\ sent \in 0 .. Len(body) /\ counted \in 0 .. sent
        /\ capture \in Usages /\ counter \in Counters
        /\ Len(counter.line \o counter.data) <= 2
    BY <1>1, ReadingTypes
  <2>6. /\ counter.json \in Seq(Pieces)
        /\ [out |-> counter.out, in |-> counter.in, cost |-> counter.cost] \in Usages
    BY <2>5 DEF Counters, Usages
  <2>7. request \in Requests /\ IsCaps(forwarded) /\ report \in Usages
    BY <1>1 DEF HInv, RInv
  <2>8. quoted \in Rates \cup {NoRate} /\ charged \in Rates \cup {NoRate}
    BY <1>1 DEF HInv, BInv
  <2> QED
    BY <2>2, <2>3, <2>4, <2>5, <2>6, <2>7, <2>8 DEF MeteringTypeOK
<1> QED
  BY <1>1, HInvHolds, BInvHolds, RInvHolds, PTL
=============================================================================
