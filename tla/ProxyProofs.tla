----------------------------- MODULE ProxyProofs -----------------------------
(***************************************************************************)
(* Proofs about SSE and Proxy: what a client parses, alone and through the *)
(* host, for every stream of any length, any texts and any Envelope, and   *)
(* wherever the stream stops.                                              *)
(*                                                                         *)
(* SSE's reference counts positions where the parser appends to sequences, *)
(* so the first lemmas are about counting: what InOrder lists of a set of  *)
(* positions, and what it lists when a later position joins the set.  For  *)
(* the client the host is an agent, so what holds of a client of any peer  *)
(* (Arrives) holds of a client of the host; what is left is the copy.      *)
(***************************************************************************)
EXTENDS Proxy, FiniteSetTheorems, SequenceTheorems, TLAPS

\* Positions are finitely many, as they are bounded.
LEMMA FinitePositions ==
  ASSUME NEW n \in Nat, NEW P \in SUBSET (1 .. n)
  PROVE  IsFiniteSet(P) /\ Cardinality(P) \in Nat
<1>1. IsFiniteSet(1 .. n)
  BY FS_Interval
<1> QED
  BY <1>1, FS_Subset, FS_CardinalityType

\* No rank is left out: every place of the list has a position.
LEMMA InOrderListsAll ==
  ASSUME NEW n \in Nat, NEW P \in SUBSET (1 .. n), NEW k \in 1 .. Cardinality(P)
  PROVE  InOrder(P)[k] \in P
<1> DEFINE UpTo(i) == {j \in P : j <= i}
           c == Cardinality(P)
           rank == [i \in P |-> Cardinality(UpTo(i))]
<1>1. IsFiniteSet(P) /\ c \in Nat
  BY FinitePositions
<1>2. \A i \in P : IsFiniteSet(UpTo(i)) /\ Cardinality(UpTo(i)) \in Nat
  BY FinitePositions
<1>3. \A i \in P : rank[i] \in 1 .. c
  <2> SUFFICES ASSUME NEW i \in P PROVE rank[i] \in 1 .. c
    OBVIOUS
  <2>1. Cardinality(UpTo(i)) <= c
    BY <1>1, FS_Subset
  <2>2. UpTo(i) # {}
    OBVIOUS
  <2>3. Cardinality(UpTo(i)) # 0
    BY <1>2, <2>2, FS_EmptySet
  <2> QED
    BY <1>1, <1>2, <2>1, <2>3
<1>4. ASSUME NEW i \in P, NEW j \in P, i < j PROVE rank[i] < rank[j]
  <2>1. UpTo(i) \in SUBSET UpTo(j) /\ j \notin UpTo(i) /\ j \in UpTo(j)
    <3>1. \A x \in P : x \in Nat /\ (x <= i => x <= j)
      BY <1>4
    <3>2. \A x \in UpTo(i) : x \in UpTo(j)
      BY <3>1
    <3>3. ~(j <= i) /\ j <= j
      BY <1>4
    <3> QED
      BY <3>2, <3>3
  <2>2. Cardinality(UpTo(i)) <= Cardinality(UpTo(j)) /\ Cardinality(UpTo(i)) # Cardinality(UpTo(j))
    BY <1>2, <2>1, FS_Subset
  <2>3. rank[i] = Cardinality(UpTo(i)) /\ rank[j] = Cardinality(UpTo(j))
    OBVIOUS
  <2> HIDE DEF rank, UpTo
  <2> QED
    BY <1>2, <2>2, <2>3
<1>5. rank \in Injection(P, 1 .. c)
  <2>1. \A i, j \in P : rank[i] = rank[j] => i = j
    BY <1>3, <1>4
  <2> QED
    BY <1>3, <2>1 DEF Injection, IsInjective
<1>6. rank \in Surjection(P, 1 .. c)
  <2>1. IsFiniteSet(1 .. c) /\ Cardinality(1 .. c) = c
    BY <1>1, FS_Interval
  <2> QED
    BY <1>5, <2>1, FS_Injection
<1>7. PICK i \in P : rank[i] = k
  BY <1>6 DEF Surjection
<1>8. i \in Ranked(P, k)
  BY <1>7 DEF Ranked
<1>9. InOrder(P)[k] = CHOOSE x \in Ranked(P, k) : TRUE
  BY DEF InOrder
<1> QED
  BY <1>8, <1>9 DEF Ranked

\* A position behind all others is listed behind them.
LEMMA InOrderAppends ==
  ASSUME NEW n \in Nat, NEW P \in SUBSET (1 .. n), NEW m \in Nat, m > n
  PROVE  /\ Cardinality(P \cup {m}) = Cardinality(P) + 1
         /\ \A k \in 1 .. Cardinality(P) : InOrder(P \cup {m})[k] = InOrder(P)[k]
         /\ InOrder(P \cup {m})[Cardinality(P) + 1] = m
<1> DEFINE Q == P \cup {m}
           c == Cardinality(P)
<1>1. IsFiniteSet(P) /\ c \in Nat
  BY FinitePositions
<1>2. Cardinality(Q) = c + 1
  BY <1>1, FS_AddElement
<1>3. \A i \in P : i \in Nat /\ i < m
  OBVIOUS
<1>4. /\ \A i \in P : {j \in Q : j <= i} = {j \in P : j <= i}
      /\ {j \in Q : j <= m} = Q
  <2>1. ASSUME NEW i \in P PROVE {j \in Q : j <= i} = {j \in P : j <= i}
    <3>1. ~(m <= i)
      BY <1>3
    <3> QED
      BY <3>1
  <2>2. \A j \in Q : j <= m
    BY <1>3
  <2>3. {j \in Q : j <= m} = Q
    BY <2>2
  <2> QED
    BY <2>1, <2>3
<1>5. \A i \in P : Cardinality({j \in P : j <= i}) \in Nat /\ Cardinality({j \in P : j <= i}) <= c
  BY <1>1, FS_Subset, FinitePositions
<1>6. ASSUME NEW k \in 1 .. c PROVE InOrder(Q)[k] = InOrder(P)[k]
  <2>1. ASSUME NEW i PROVE i \in Ranked(Q, k) <=> i \in Ranked(P, k)
    <3>1. m \notin Ranked(Q, k) /\ m \notin P
      BY <1>1, <1>2, <1>3, <1>4 DEF Ranked
    <3>2. i \in P => (i \in Ranked(Q, k) <=> i \in Ranked(P, k))
      BY <1>4 DEF Ranked
    <3> QED
      BY <3>1, <3>2 DEF Ranked
  <2>2. Ranked(Q, k) = Ranked(P, k)
    BY <2>1
  <2>3. InOrder(Q)[k] = CHOOSE i \in Ranked(Q, k) : TRUE
    <3>1. k \in 1 .. Cardinality(Q)
      BY <1>1, <1>2
    <3> HIDE DEF Q
    <3> QED
      BY <3>1 DEF InOrder
  <2>4. InOrder(P)[k] = CHOOSE i \in Ranked(P, k) : TRUE
    BY DEF InOrder
  <2> QED
    BY <2>2, <2>3, <2>4
<1>7. InOrder(Q)[c + 1] = m
  <2>1. m \in Ranked(Q, c + 1)
    BY <1>2, <1>4 DEF Ranked
  <2>2. ASSUME NEW i \in P PROVE i \notin Ranked(Q, c + 1)
    <3>1. Cardinality({j \in Q : j <= i}) # c + 1
      BY <1>1, <1>4, <1>5
    <3> QED
      BY <3>1 DEF Ranked
  <2>3. Ranked(Q, c + 1) = {m}
    BY <2>1, <2>2 DEF Ranked
  <2>4. InOrder(Q)[c + 1] = CHOOSE i \in Ranked(Q, c + 1) : TRUE
    <3>1. c + 1 \in 1 .. Cardinality(Q)
      BY <1>1, <1>2
    <3> HIDE DEF Q
    <3> QED
      BY <3>1 DEF InOrder
  <2> QED
    BY <2>3, <2>4
<1> QED
  BY <1>2, <1>6, <1>7

-----------------------------------------------------------------------------
(* The reference, as the lines come *)

\* A line with a text where the agent's lines have one.
WellFormed == {line \in Line : line.text # NoText <=> line.kind = "data"}

(***************************************************************************)
(* The reference for the first n lines looks at no other line: it stays    *)
(* what it is when lines come after them.                                  *)
(***************************************************************************)
LEMMA SameLines ==
  ASSUME NEW s, NEW t, NEW n \in Nat, \A k \in 1 .. n : s[k] = t[k]
  PROVE  /\ \A i \in 1 .. (n + 1) : Gathered(s, i) = Gathered(t, i)
         /\ EventsOf(s, n) = EventsOf(t, n)
<1>1. ASSUME NEW i \in 1 .. (n + 1) PROVE Gathered(s, i) = Gathered(t, i)
  <2> DEFINE L == DataLines(s, i)
  <2>1. i - 1 \in Nat /\ L \in SUBSET (1 .. (i - 1))
    BY DEF DataLines
  <2>2. \A k \in 1 .. (i - 1) : s[k] = t[k]
    OBVIOUS
  <2>3. L = DataLines(t, i)
    BY <2>1, <2>2 DEF DataLines
  <2>4. \A k \in 1 .. Cardinality(L) : InOrder(L)[k] \in 1 .. (i - 1)
    BY <2>1, InOrderListsAll
  <2> HIDE DEF L
  <2>5. Gathered(s, i) = [k \in 1 .. Cardinality(L) |-> s[InOrder(L)[k]].text]
    BY DEF Gathered, L
  <2>6. Gathered(t, i) = [k \in 1 .. Cardinality(L) |-> t[InOrder(L)[k]].text]
    BY <2>3 DEF Gathered
  <2> QED
    BY <2>2, <2>4, <2>5, <2>6
<1>2. Ends(s, n) = Ends(t, n)
  BY <1>1 DEF Ends
<1>3. Ends(s, n) \in SUBSET (1 .. n)
  BY DEF Ends
<1>4. \A k \in 1 .. Cardinality(Ends(s, n)) : InOrder(Ends(s, n))[k] \in 1 .. n
  BY <1>3, InOrderListsAll
<1>5. \A k \in 1 .. Cardinality(Ends(s, n)) :
         Gathered(s, InOrder(Ends(s, n))[k]) = Gathered(t, InOrder(Ends(s, n))[k])
  BY <1>1, <1>4
<1> DEFINE ends == Ends(s, n)
           lines(r, k) == Gathered(r, InOrder(ends)[k])
<1>6. EventsOf(s, n) = [k \in 1 .. Cardinality(ends) |-> Envelope[lines(s, k)]]
  BY DEF EventsOf
<1>7. EventsOf(t, n) = [k \in 1 .. Cardinality(ends) |-> Envelope[lines(t, k)]]
  BY <1>2 DEF EventsOf
<1>8. \A k \in 1 .. Cardinality(ends) : lines(s, k) = lines(t, k)
  BY <1>5
<1>9. EventsOf(s, n) = EventsOf(t, n)
  <2> HIDE DEF ends, lines
  <2> QED
    BY <1>6, <1>7, <1>8
<1> QED
  BY <1>1, <1>9

\* A sequence that goes on with one more element is that sequence, appended to.
LEMMA OneMore ==
  ASSUME NEW S, NEW c \in Nat, NEW f, NEW g, NEW x,
         f = [k \in 1 .. c |-> f[k]], g = [k \in 1 .. (c + 1) |-> g[k]],
         \A k \in 1 .. c : g[k] = f[k] /\ f[k] \in S, g[c + 1] = x
  PROVE  f \in Seq(S) /\ g = Append(f, x)
<1> DEFINE T == S \cup {x}
<1>1. f \in [1 .. c -> S] /\ S \subseteq T
  OBVIOUS
<1>2. f \in Seq(S) /\ f \in Seq(T) /\ Len(f) = c
  <2>1. f \in Seq(S)
    <3>1. \A F : F \in [1 .. c -> S] => F \in Seq(S)
      BY SeqDef
    <3> QED
      BY <1>1, <3>1
  <2>2. Len(f) = c
    BY <1>1, <2>1
  <2> HIDE DEF T
  <2> QED
    BY <1>1, <2>1, <2>2, SeqMonotonic
<1>3. \A k \in 1 .. (c + 1) : k \in 1 .. c \/ k = c + 1
  OBVIOUS
<1>4. \A k \in 1 .. (c + 1) : g[k] \in T
  BY <1>3
<1>5. g \in [1 .. (c + 1) -> T]
  BY <1>4
<1>6. c + 1 \in Nat
  OBVIOUS
<1>7. g \in Seq(T) /\ Len(g) = c + 1
  BY <1>5, <1>6, SeqDef
<1>8. x \in T
  OBVIOUS
<1> HIDE DEF T
<1>9. /\ Append(f, x) \in Seq(T) /\ Len(Append(f, x)) = c + 1
      /\ \A k \in 1 .. c : Append(f, x)[k] = f[k]
      /\ Append(f, x)[c + 1] = x
  BY <1>2, <1>8
<1>10. \A k \in 1 .. Len(g) : g[k] = Append(f, x)[k]
  BY <1>3, <1>7, <1>9
<1> QED
  BY <1>2, <1>7, <1>9, <1>10, SeqEqual

(***************************************************************************)
(* The n-th line is a data line that adds its text to what is gathered, a  *)
(* blank one after which nothing is, or one that changes nothing.          *)
(***************************************************************************)
LEMMA GatheredNext ==
  ASSUME NEW s \in Seq(WellFormed), NEW n \in 1 .. Len(s)
  PROVE  /\ Gathered(s, n) \in Seq(Texts)
         /\ s[n].kind = "data" => Gathered(s, n + 1) = Append(Gathered(s, n), s[n].text)
         /\ s[n].kind = "blank" => Gathered(s, n + 1) = <<>>
         /\ s[n].kind \notin {"data", "blank"} => Gathered(s, n + 1) = Gathered(s, n)
<1> DEFINE L == DataLines(s, n)
           M == DataLines(s, n + 1)
           c == Cardinality(L)
<1>1. n - 1 \in Nat /\ n > n - 1 /\ (n + 1) - 1 = n /\ L \in SUBSET (1 .. (n - 1)) /\ n \in Nat
  BY DEF DataLines
<1>2. c \in Nat
  BY <1>1, FinitePositions
<1>3. \A j \in L : s[j].text \in Texts
  BY <1>1 DEF DataLines, WellFormed, Line
<1>4. \A k \in 1 .. c : InOrder(L)[k] \in L
  BY <1>1, InOrderListsAll
<1>5. Gathered(s, n) = [k \in 1 .. c |-> s[InOrder(L)[k]].text]
  BY DEF Gathered
<1>6. Gathered(s, n + 1) = [k \in 1 .. Cardinality(M) |-> s[InOrder(M)[k]].text]
  BY DEF Gathered
<1>7. Gathered(s, n) \in Seq(Texts)
  <2> HIDE DEF L, c
  <2> QED
    BY <1>2, <1>3, <1>4, <1>5, SeqDef
<1>8. s[n].kind # "blank" => M = IF s[n].kind = "data" THEN L \cup {n} ELSE L
  BY <1>1 DEF DataLines
<1>9. CASE s[n].kind = "data"
  <2>1. M = L \cup {n}
    BY <1>8, <1>9
  <2>2. /\ Cardinality(M) = c + 1
        /\ \A k \in 1 .. c : InOrder(M)[k] = InOrder(L)[k]
        /\ InOrder(M)[c + 1] = n
    <3>1. c = Cardinality(L)
      OBVIOUS
    <3> HIDE DEF L, M, c
    <3> QED
      BY <1>1, <2>1, <3>1, InOrderAppends
  <2> HIDE DEF L, M, c
  <2>3. /\ \A k \in 1 .. c : Gathered(s, n + 1)[k] = Gathered(s, n)[k] /\ Gathered(s, n)[k] \in Texts
        /\ Gathered(s, n + 1)[c + 1] = s[n].text
    <3>1. c + 1 \in 1 .. (c + 1) /\ \A k \in 1 .. c : k \in 1 .. (c + 1)
      BY <1>2
    <3>2. \A k \in 1 .. (c + 1) : Gathered(s, n + 1)[k] = s[InOrder(M)[k]].text
      BY <1>6, <2>2
    <3>3. \A k \in 1 .. c : Gathered(s, n)[k] = s[InOrder(L)[k]].text
      BY <1>5
    <3> QED
      BY <1>3, <1>4, <2>2, <3>1, <3>2, <3>3
  <2>4. Gathered(s, n + 1) = Append(Gathered(s, n), s[n].text)
    BY <1>2, <1>5, <1>6, <2>2, <2>3, OneMore
  <2> QED
    BY <1>7, <1>9, <2>4
<1>10. CASE s[n].kind = "blank"
  <2>1. M = {}
    BY <1>1, <1>10 DEF DataLines
  <2>2. Cardinality(M) = 0
    BY <2>1, FS_EmptySet
  <2> HIDE DEF M
  <2> QED
    BY <1>6, <1>7, <1>10, <2>2
<1>11. CASE s[n].kind \notin {"data", "blank"}
  BY <1>5, <1>6, <1>7, <1>8, <1>11
<1> QED
  BY <1>9, <1>10, <1>11

(***************************************************************************)
(* A blank line adds the event of what is gathered, if it is one; no other *)
(* line adds an event.                                                     *)
(***************************************************************************)
LEMMA EventsNext ==
  ASSUME NEW s, NEW n \in Nat \ {0}
  PROVE  /\ EventsOf(s, n - 1) \in Seq(Event)
         /\ s[n].kind # "blank" => EventsOf(s, n) = EventsOf(s, n - 1)
         /\ s[n].kind = "blank" =>
              EventsOf(s, n) = EventsOf(s, n - 1) \o Decode(Gathered(s, n))
<1> DEFINE L == Ends(s, n - 1)
           M == Ends(s, n)
           c == Cardinality(L)
<1>1. n - 1 \in Nat /\ n > n - 1 /\ L \in SUBSET (1 .. (n - 1)) /\ n \in Nat
  BY DEF Ends
<1>2. c \in Nat
  BY <1>1, FinitePositions
<1>3. \A k \in 1 .. c : InOrder(L)[k] \in L
  BY <1>1, InOrderListsAll
<1>4. \A j \in L : Envelope[Gathered(s, j)] \in Event
  BY DEF Ends, Event
<1>5. /\ EventsOf(s, n - 1) = [k \in 1 .. c |-> Envelope[Gathered(s, InOrder(L)[k])]]
      /\ EventsOf(s, n) = [k \in 1 .. Cardinality(M) |-> Envelope[Gathered(s, InOrder(M)[k])]]
  BY DEF EventsOf
<1>6. EventsOf(s, n - 1) \in Seq(Event)
  <2> HIDE DEF L, c
  <2> QED
    BY <1>2, <1>3, <1>4, <1>5, SeqDef
<1>7. M = IF s[n].kind = "blank" /\ Gathered(s, n) \in DOMAIN Envelope THEN L \cup {n} ELSE L
  BY <1>1 DEF Ends
<1>8. CASE s[n].kind = "blank" /\ Gathered(s, n) \in DOMAIN Envelope
  <2>1. M = L \cup {n}
    BY <1>7, <1>8
  <2>2. /\ Cardinality(M) = c + 1
        /\ \A k \in 1 .. c : InOrder(M)[k] = InOrder(L)[k]
        /\ InOrder(M)[c + 1] = n
    <3>1. c = Cardinality(L)
      OBVIOUS
    <3> HIDE DEF L, M, c
    <3> QED
      BY <1>1, <2>1, <3>1, InOrderAppends
  <2> HIDE DEF L, M, c
  <2>3. /\ \A k \in 1 .. c : EventsOf(s, n)[k] = EventsOf(s, n - 1)[k] /\ EventsOf(s, n - 1)[k] \in Event
        /\ EventsOf(s, n)[c + 1] = Envelope[Gathered(s, n)]
    BY <1>2, <1>3, <1>4, <1>5, <2>2
  <2>4. EventsOf(s, n) = Append(EventsOf(s, n - 1), Envelope[Gathered(s, n)])
    BY <1>2, <1>5, <2>2, <2>3, OneMore
  <2>5. EventsOf(s, n) = EventsOf(s, n - 1) \o <<Envelope[Gathered(s, n)]>>
    BY <1>6, <2>4
  <2> QED
    BY <1>6, <1>8, <2>5 DEF Decode
<1>9. CASE ~(s[n].kind = "blank" /\ Gathered(s, n) \in DOMAIN Envelope)
  <2>1. EventsOf(s, n) = EventsOf(s, n - 1)
    BY <1>5, <1>7, <1>9
  <2>2. EventsOf(s, n - 1) \o <<>> = EventsOf(s, n - 1)
    BY <1>6
  <2> QED
    BY <1>6, <1>9, <2>1, <2>2 DEF Decode
<1> QED
  BY <1>8, <1>9

-----------------------------------------------------------------------------
(* The invariant *)

(***************************************************************************)
(* Parsed and Whole speak of the events only; the invariant adds what the  *)
(* parser has gathered of the next one, and that it returns without an     *)
(* error at the end of the lines only.                                     *)
(***************************************************************************)
StreamInv ==
  /\ TypeOK
  /\ wire \in Seq(WellFormed)
  /\ reply = "sse" =>
       /\ events = EventsOf(wire, pos)
       /\ dataLines = Gathered(wire, pos + 1)
       /\ result = "ok" => agent = "closed" /\ pos = Len(wire)

\* What the client may see of a peer, whoever it is: a line more, the end of
\* the body, or both; and nothing after the end.
Arrives ==
  /\ wire' = wire \/ \E line \in WellFormed : wire' = Append(wire, line)
  /\ Len(wire') <= MaxLines
  /\ agent' \in {"writing", "closed", "broken"}
  /\ agent # "writing" => UNCHANGED <<wire, agent>>
  /\ UNCHANGED <<reply, pos, dataLines, events, result>>

\* StreamInv says what the properties say.
LEMMA StreamInvImplies == StreamInv => TypeOK /\ Parsed /\ Whole
BY DEF StreamInv, TypeOK, Parsed, Whole

\* Nothing is parsed of nothing.
LEMMA StreamStarts == Init => StreamInv
<1> SUFFICES ASSUME Init PROVE StreamInv
  OBVIOUS
<1> USE DEF Init
<1>1. TypeOK
  BY SSEAssumption, EmptySeq DEF TypeOK
<1>2. Gathered(wire, 1) = <<>>
  <2>1. DataLines(wire, 1) = {}
    BY DEF DataLines
  <2>2. Cardinality(DataLines(wire, 1)) = 0
    BY <2>1, FS_EmptySet
  <2> QED
    BY <2>2 DEF Gathered
<1>3. EventsOf(wire, 0) = <<>>
  <2>1. Ends(wire, 0) = {}
    BY DEF Ends
  <2>2. Cardinality(Ends(wire, 0)) = 0
    BY <2>1, FS_EmptySet
  <2> QED
    BY <2>2 DEF EventsOf
<1> QED
  BY <1>1, <1>2, <1>3 DEF StreamInv

(***************************************************************************)
(* What comes after the lines that have been taken leaves the invariant    *)
(* alone.                                                                  *)
(***************************************************************************)
LEMMA ArrivesKeeps == StreamInv /\ Arrives => StreamInv'
<1> SUFFICES ASSUME StreamInv, Arrives PROVE StreamInv'
  OBVIOUS
<1> USE DEF Arrives
<1>1. wire \in Seq(WellFormed) /\ pos \in 0 .. Len(wire) /\ WellFormed \subseteq Line
  BY DEF StreamInv, TypeOK, WellFormed
<1>2. /\ wire' \in Seq(WellFormed)
      /\ Len(wire) <= Len(wire')
      /\ \A k \in 1 .. Len(wire) : wire[k] = wire'[k]
  BY <1>1
<1>3. wire' \in Seq(Line)
  BY <1>1, <1>2, SeqMonotonic
<1>4. TypeOK'
  BY <1>1, <1>2, <1>3 DEF StreamInv, TypeOK
<1>5. Gathered(wire, pos + 1) = Gathered(wire', pos + 1) /\ EventsOf(wire, pos) = EventsOf(wire', pos)
  <2>1. pos \in Nat /\ pos + 1 \in 1 .. (pos + 1) /\ \A k \in 1 .. pos : wire[k] = wire'[k]
    BY <1>1, <1>2
  <2> QED
    BY <2>1, SameLines
<1>6. reply' = "sse" => /\ events' = EventsOf(wire', pos')
                        /\ dataLines' = Gathered(wire', pos' + 1)
  BY <1>5 DEF StreamInv
<1>7. reply' = "sse" /\ result' = "ok" => agent' = "closed" /\ pos' = Len(wire')
  BY DEF StreamInv
<1> QED
  BY <1>2, <1>4, <1>6, <1>7 DEF StreamInv

\* A line the parser takes is one of the stream.
LEMMA TakesALine ==
  ASSUME StreamInv, NEW kind, Scans(kind)
  PROVE  /\ pos \in Nat /\ pos + 1 \in 1 .. Len(wire)
         /\ Scanned \in WellFormed /\ wire[pos + 1] = Scanned /\ Scanned.kind = kind
         /\ reply = "sse" /\ result = "reading" /\ pos' = pos + 1
BY DEF StreamInv, TypeOK, Scans, Scanned

(***************************************************************************)
(* The client keeps the invariant: it does with each line what the         *)
(* reference says of it.                                                   *)
(***************************************************************************)
LEMMA ClientKeeps == StreamInv /\ Client => StreamInv'
<1> SUFFICES ASSUME StreamInv, Client PROVE StreamInv'
  OBVIOUS
<1>0. TypeOK /\ wire \in Seq(WellFormed)
  BY DEF StreamInv
<1>1. ASSUME NEW kind, Scans(kind)
      PROVE  /\ Gathered(wire, pos + 1) \in Seq(Texts)
             /\ kind = "data" => /\ EventsOf(wire, pos') = EventsOf(wire, pos)
                                 /\ Gathered(wire, pos' + 1) = Append(Gathered(wire, pos + 1), Scanned.text)
             /\ kind = "blank" => /\ EventsOf(wire, pos') = EventsOf(wire, pos) \o Decode(Gathered(wire, pos + 1))
                                  /\ Gathered(wire, pos' + 1) = <<>>
             /\ kind \notin {"data", "blank"} => /\ EventsOf(wire, pos') = EventsOf(wire, pos)
                                                /\ Gathered(wire, pos' + 1) = Gathered(wire, pos + 1)
             /\ EventsOf(wire, pos') \in Seq(Event)
  <2>1. /\ pos \in Nat /\ pos + 1 \in 1 .. Len(wire) /\ pos + 1 \in Nat \ {0} /\ (pos + 1) - 1 = pos
        /\ wire[pos + 1].kind = kind /\ wire[pos + 1] = Scanned /\ pos' = pos + 1
    BY <1>1, TakesALine
  <2>2. /\ EventsOf(wire, pos) \in Seq(Event)
        /\ kind # "blank" => EventsOf(wire, pos') = EventsOf(wire, pos)
        /\ kind = "blank" => EventsOf(wire, pos') = EventsOf(wire, pos) \o Decode(Gathered(wire, pos + 1))
    BY <2>1, EventsNext
  <2>3. /\ Gathered(wire, pos + 1) \in Seq(Texts)
        /\ kind = "data" => Gathered(wire, pos' + 1) = Append(Gathered(wire, pos + 1), Scanned.text)
        /\ kind = "blank" => Gathered(wire, pos' + 1) = <<>>
        /\ kind \notin {"data", "blank"} => Gathered(wire, pos' + 1) = Gathered(wire, pos + 1)
    BY <1>0, <2>1, GatheredNext
  <2>4. Decode(Gathered(wire, pos + 1)) \in Seq(Event)
    <3>1. CASE Gathered(wire, pos + 1) \in DOMAIN Envelope
      <4>1. Envelope[Gathered(wire, pos + 1)] \in Event
        BY <3>1 DEF Event
      <4> QED
        BY <3>1, <4>1 DEF Decode
    <3>2. CASE Gathered(wire, pos + 1) \notin DOMAIN Envelope
      BY <3>2, EmptySeq DEF Decode
    <3> QED
      BY <3>1, <3>2
  <2>5. EventsOf(wire, pos') \in Seq(Event)
    BY <2>2, <2>4, ConcatProperties
  <2> QED
    BY <2>2, <2>3, <2>5
<1>2. CASE ScanData
  <2>1. Scans("data") /\ dataLines' = Append(dataLines, Scanned.text)
        /\ UNCHANGED <<reply, wire, agent, events, result>>
    BY <1>2 DEF ScanData
  <2>2. /\ pos \in Nat /\ pos + 1 \in 1 .. Len(wire) /\ pos' = pos + 1
        /\ Scanned \in WellFormed /\ Scanned.kind = "data" /\ result = "reading" /\ reply = "sse"
    BY <2>1, TakesALine
  <2>3. Scanned.text \in Texts
    BY <2>2 DEF WellFormed, Line
  <2>4. TypeOK'
    BY <1>0, <2>1, <2>2, <2>3 DEF TypeOK
  <2>5. events' = EventsOf(wire', pos') /\ dataLines' = Gathered(wire', pos' + 1)
    BY <1>1, <2>1, <2>2 DEF StreamInv
  <2> QED
    BY <1>0, <2>1, <2>2, <2>4, <2>5 DEF StreamInv
<1>3. CASE ScanBlank
  <2>1. Scans("blank") /\ events' = events \o Decode(dataLines) /\ dataLines' = <<>>
        /\ UNCHANGED <<reply, wire, agent, result>>
    BY <1>3 DEF ScanBlank
  <2>2. pos \in Nat /\ pos + 1 \in 1 .. Len(wire) /\ pos' = pos + 1 /\ result = "reading" /\ reply = "sse"
    BY <2>1, TakesALine
  <2>3. events' = EventsOf(wire', pos') /\ dataLines' = Gathered(wire', pos' + 1)
    BY <1>1, <2>1, <2>2 DEF StreamInv
  <2>4. events' \in Seq(Event)
    BY <1>1, <2>1, <2>3
  <2>5. TypeOK'
    BY <1>0, <2>1, <2>2, <2>4, EmptySeq DEF TypeOK
  <2> QED
    BY <1>0, <2>1, <2>2, <2>3, <2>5 DEF StreamInv
<1>4. CASE ScanOther \/ ScanTooLong
  <2>1. PICK kind \in {"other", "long"} :
          /\ Scans(kind) /\ result' \in {"reading", "error"}
          /\ UNCHANGED <<reply, wire, agent, dataLines, events>>
    BY <1>4 DEF ScanOther, ScanTooLong, Scans
  <2>2. pos \in Nat /\ pos + 1 \in 1 .. Len(wire) /\ pos' = pos + 1
    BY <2>1, TakesALine
  <2>3. TypeOK'
    BY <1>0, <2>1, <2>2 DEF TypeOK
  <2>4. reply = "sse" => events' = EventsOf(wire', pos') /\ dataLines' = Gathered(wire', pos' + 1)
    BY <1>1, <2>1, <2>2 DEF StreamInv
  <2> QED
    BY <1>0, <2>1, <2>3, <2>4 DEF StreamInv
<1>5. CASE ScanEnd
  <2>1. TypeOK'
    BY <1>0, <1>5 DEF ScanEnd, TypeOK
  <2> QED
    BY <1>0, <1>5, <2>1 DEF ScanEnd, StreamInv
<1>6. CASE Refused \/ GiveUp
  <2>1. TypeOK'
    BY <1>0, <1>6 DEF Refused, GiveUp, TypeOK
  <2> QED
    BY <1>0, <1>6, <2>1 DEF Refused, GiveUp, StreamInv
<1>7. CASE WrapBody
  <2>1. events' \in Seq(Event)
    <3>1. Body(agent = "closed") \in Event
      BY DEF Event, Body
    <3> QED
      BY <1>7, <3>1 DEF WrapBody
  <2>2. TypeOK'
    BY <1>0, <1>7, <2>1 DEF WrapBody, TypeOK
  <2> QED
    BY <1>0, <1>7, <2>2 DEF WrapBody, StreamInv
<1> QED
  BY <1>2, <1>3, <1>4, <1>5, <1>6, <1>7 DEF Client

\* An agent writes a line or ends the body.
LEMMA PeerArrives == StreamInv /\ Peer => Arrives
<1> SUFFICES ASSUME StreamInv, Peer PROVE Arrives
  OBVIOUS
<1>0. wire \in Seq(WellFormed) /\ Len(wire) <= MaxLines /\ MaxLines \in Nat
  BY SSEAssumption DEF StreamInv, TypeOK
<1>1. CASE \E line \in Line : (line.text # NoText <=> line.kind = "data") /\ Write(line)
  <2>1. PICK line \in WellFormed : Write(line)
    BY <1>1 DEF WellFormed
  <2>2. Len(wire') <= MaxLines
    BY <1>0, <2>1 DEF Write
  <2> QED
    BY <2>1, <2>2 DEF Write, Arrives
<1>2. CASE \E how \in {"closed", "broken"} : Finish(how)
  BY <1>0, <1>2 DEF Finish, Arrives
<1> QED
  BY <1>1, <1>2 DEF Peer

(***************************************************************************)
(* StreamInv holds in every state.                                         *)
(***************************************************************************)
LEMMA StreamInvHolds == Spec => []StreamInv
<1>1. StreamInv /\ [Next]_vars => StreamInv'
  <2> SUFFICES ASSUME StreamInv, [Next]_vars PROVE StreamInv'
    OBVIOUS
  <2>1. CASE Next
    BY <2>1, PeerArrives, ArrivesKeeps, ClientKeeps DEF Next
  <2>2. CASE UNCHANGED vars
    BY <2>2 DEF vars, StreamInv, TypeOK
  <2> QED
    BY <2>1, <2>2
<1> QED
  BY <1>1, StreamStarts, PTL DEF Spec

(***************************************************************************)
(* Every variable has its type, and the scanner does not pass the stream.  *)
(***************************************************************************)
THEOREM StreamTypeCorrect == Spec => []TypeOK
BY StreamInvHolds, StreamInvImplies, PTL

(***************************************************************************)
(* The parser has the events of the lines it has taken, whatever the lines *)
(* are, however many, and wherever they stop (sse.go:12-31).               *)
(***************************************************************************)
THEOREM ParsedCorrect == Spec => []Parsed
BY StreamInvHolds, StreamInvImplies, PTL

(***************************************************************************)
(* What is returned without an error is the whole stream                   *)
(* (client.go:77-79, sse.go:30).                                           *)
(***************************************************************************)
THEOREM WholeCorrect == Spec => []Whole
BY StreamInvHolds, StreamInvImplies, PTL

-----------------------------------------------------------------------------

(***************************************************************************)
(* Proxied speaks of a client that has its reply; the invariant says what  *)
(* the handler has copied, and what its return means.                      *)
(***************************************************************************)
CopyInv ==
  /\ handler \in {"lookup", "request", "copy", "done"}
  /\ source \in {"writing", "closed", "broken"}
  /\ sized \in BOOLEAN
  /\ upstream \in Seq(WellFormed) /\ Len(upstream) <= MaxLines
  /\ Len(wire) <= Len(upstream)
  /\ \A k \in 1 .. Len(wire) : wire[k] = upstream[k]
  /\ agent # "writing" <=> handler = "done"
  /\ handler = "done" /\ reply # "refused" =>
       /\ source # "writing"
       /\ Len(wire) = Len(upstream)
       /\ sized /\ agent = "closed" => source = "closed"

ProxyInv == StreamInv /\ CopyInv

\* ProxyInv says what the properties say.
LEMMA ProxyInvImplies == ProxyInv => ProxyTypeOK /\ Parsed /\ Whole /\ Proxied
<1> SUFFICES ASSUME ProxyInv PROVE ProxyTypeOK /\ Parsed /\ Whole /\ Proxied
  OBVIOUS
<1> USE DEF ProxyInv
<1>1. TypeOK /\ Parsed /\ Whole
  BY StreamInvImplies
<1>2. WellFormed \subseteq Line
  BY DEF WellFormed
<1>3. upstream \in Seq(Line)
  BY <1>2, SeqMonotonic DEF CopyInv
<1>4. ProxyTypeOK
  BY <1>1, <1>3 DEF CopyInv, ProxyTypeOK
<1>5. ASSUME reply = "sse", result = "ok"
      PROVE  /\ events = EventsOf(upstream, Len(upstream))
             /\ source # "writing"
             /\ sized => source = "closed"
  <2>1. agent = "closed" /\ events = EventsOf(wire, Len(wire))
    BY <1>1, <1>5 DEF Whole
  <2>2. handler = "done" /\ reply # "refused"
    BY <1>5, <2>1 DEF CopyInv
  <2>3. /\ wire \in Seq(WellFormed) /\ upstream \in Seq(WellFormed)
        /\ Len(wire) = Len(upstream)
        /\ \A k \in 1 .. Len(wire) : wire[k] = upstream[k]
    BY <2>2 DEF CopyInv, StreamInv
  <2>4. wire = upstream
    BY <2>3, SeqEqual
  <2> QED
    BY <2>1, <2>2, <2>4 DEF CopyInv
<1> QED
  BY <1>1, <1>4, <1>5 DEF Proxied

\* Nothing is copied of nothing.
LEMMA ProxyStarts == ProxyInit => ProxyInv
BY StreamStarts, SSEAssumption, EmptySeq DEF ProxyInit, Init, ProxyInv, CopyInv

\* The client writes to none of the variables the handler reads.
LEMMA ClientReads == Client => UNCHANGED <<reply, wire, agent>>
BY DEF Client, ScanData, ScanBlank, ScanOther, ScanTooLong, ScanEnd, Refused, GiveUp, WrapBody

(***************************************************************************)
(* What the agent does, the client does not see yet.                       *)
(***************************************************************************)
LEMMA AgentKeeps ==
  ASSUME ProxyInv,
         \/ \E line \in Line : (line.text # NoText <=> line.kind = "data") /\ AgentWrites(line)
         \/ \E how \in {"closed", "broken"} : AgentEnds(how)
  PROVE  ProxyInv'
<1> USE DEF ProxyInv
<1>1. handler = "copy" /\ UNCHANGED <<vars, handler, sized>>
  BY DEF AgentWrites, AgentEnds
<1>2. StreamInv'
  BY <1>1 DEF vars, StreamInv, TypeOK
<1>3. CASE \E line \in Line : (line.text # NoText <=> line.kind = "data") /\ AgentWrites(line)
  <2>1. PICK line \in WellFormed : AgentWrites(line)
    BY <1>3 DEF WellFormed
  <2>2. upstream \in Seq(WellFormed) /\ Len(upstream) < MaxLines /\ MaxLines \in Nat
        /\ upstream' = Append(upstream, line) /\ UNCHANGED <<vars, handler, source, sized>>
    BY <2>1, SSEAssumption DEF AgentWrites, CopyInv
  <2>3. /\ upstream' \in Seq(WellFormed) /\ Len(upstream') = Len(upstream) + 1
        /\ \A k \in 1 .. Len(upstream) : upstream'[k] = upstream[k]
    BY <2>2, AppendProperties
  <2>4. wire \in Seq(WellFormed)
    BY DEF StreamInv
  <2> QED
    BY <1>1, <1>2, <2>2, <2>3, <2>4 DEF CopyInv, vars
<1>4. CASE \E how \in {"closed", "broken"} : AgentEnds(how)
  BY <1>1, <1>2, <1>4 DEF AgentEnds, CopyInv, vars
<1> QED
  BY <1>3, <1>4

(***************************************************************************)
(* A read is written before its end is looked at, and the handler returns  *)
(* when the agent's body is over and copied.                               *)
(***************************************************************************)
LEMMA CopyKeeps ==
  ASSUME ProxyInv, NEW last \in BOOLEAN, Copy(last)
  PROVE  ProxyInv'
<1> USE DEF ProxyInv
<1> DEFINE line == upstream[Len(wire) + 1]
<1>1. /\ wire \in Seq(WellFormed) /\ upstream \in Seq(WellFormed)
      /\ Len(wire) < Len(upstream) /\ Len(upstream) <= MaxLines /\ MaxLines \in Nat
      /\ handler = "copy" /\ agent = "writing"
      /\ \A k \in 1 .. Len(wire) : wire[k] = upstream[k]
  BY SSEAssumption DEF Copy, Unread, CopyInv, StreamInv, TypeOK
<1>2. /\ wire' = Append(wire, line)
      /\ last => source # "writing" /\ Len(wire') = Len(upstream)
      /\ UNCHANGED <<reply, pos, dataLines, events, result, upstream, source, sized>>
  BY DEF Copy
<1>3. line \in WellFormed
  BY <1>1
<1>4. /\ wire' \in Seq(WellFormed) /\ Len(wire') = Len(wire) + 1
      /\ \A k \in 1 .. Len(wire) : wire'[k] = wire[k]
      /\ wire'[Len(wire) + 1] = line
  BY <1>1, <1>2, <1>3, AppendProperties
<1>5. \A k \in 1 .. Len(wire') : wire'[k] = upstream[k]
  <2>1. \A k \in 1 .. Len(wire') : k \in 1 .. Len(wire) \/ k = Len(wire) + 1
    BY <1>1, <1>4
  <2> QED
    BY <1>1, <1>4, <2>1
<1>6. Len(wire') <= Len(upstream) /\ Len(wire') <= MaxLines
  BY <1>1, <1>4
<1>7. /\ last => handler' = "done" /\ agent' = IF sized /\ source = "broken" THEN "broken" ELSE "closed"
      /\ ~last => UNCHANGED <<handler, agent>>
  BY DEF Copy, Return
<1>8. Arrives
  BY <1>1, <1>2, <1>3, <1>6, <1>7 DEF Arrives
<1>9. StreamInv'
  BY <1>8, ArrivesKeeps
<1>10. CopyInv'
  <2>1. agent' # "writing" <=> handler' = "done"
    BY <1>1, <1>7
  <2>2. handler' = "done" => last
    BY <1>1, <1>7
  <2>3. source \in {"writing", "closed", "broken"} /\ sized \in BOOLEAN
    BY DEF CopyInv
  <2>4. handler' = "done" => /\ source' # "writing"
                             /\ Len(wire') = Len(upstream')
                             /\ sized' /\ agent' = "closed" => source' = "closed"
    BY <1>2, <1>7, <2>2, <2>3
  <2>5. handler' \in {"lookup", "request", "copy", "done"}
    BY <1>1, <1>7
  <2> QED
    BY <1>1, <1>2, <1>5, <1>6, <2>1, <2>3, <2>4, <2>5 DEF CopyInv
<1> QED
  BY <1>9, <1>10

(***************************************************************************)
(* The other steps of the handler.                                         *)
(***************************************************************************)
LEMMA HandlerKeeps ==
  ASSUME ProxyInv, Reject \/ Lookup \/ Answer \/ CopyEnd
  PROVE  ProxyInv'
<1> USE DEF ProxyInv
<1>1. /\ wire \in Seq(WellFormed) /\ upstream \in Seq(WellFormed)
      /\ Len(wire) <= MaxLines /\ Len(wire) <= Len(upstream)
      /\ source \in {"writing", "closed", "broken"} /\ sized \in BOOLEAN
      /\ agent \in {"writing", "closed", "broken"}
      /\ handler # "done" /\ agent = "writing"
  BY DEF CopyInv, StreamInv, TypeOK, Reject, Lookup, Answer, CopyEnd
<1>2. /\ UNCHANGED <<wire, reply, pos, dataLines, events, result, upstream, source, sized>>
      /\ agent' \in {"writing", "closed", "broken"}
      /\ handler' \in {"lookup", "request", "copy", "done"}
      /\ agent' # "writing" <=> handler' = "done"
      /\ handler' = "done" /\ reply # "refused" =>
           /\ source # "writing"
           /\ Len(wire) = Len(upstream)
           /\ agent' = IF sized /\ source = "broken" THEN "broken" ELSE "closed"
  BY <1>1 DEF Reject, Finish, Lookup, Answer, CopyEnd, Return, Unread, vars
<1>3. Arrives
  BY <1>1, <1>2 DEF Arrives
<1>4. StreamInv'
  BY <1>3, ArrivesKeeps
<1>5. CopyInv'
  BY <1>1, <1>2 DEF CopyInv
<1> QED
  BY <1>4, <1>5

\* What the client does changes nothing the handler knows of.
LEMMA ReadsKeeps ==
  ASSUME ProxyInv, Reads
  PROVE  ProxyInv'
<1>1. StreamInv'
  BY ClientKeeps DEF ProxyInv, Reads
<1>2. UNCHANGED <<reply, wire, agent, handler, upstream, source, sized>>
  BY ClientReads DEF Reads
<1> QED
  BY <1>1, <1>2 DEF ProxyInv, CopyInv

(***************************************************************************)
(* ProxyInv holds in every state.                                          *)
(***************************************************************************)
LEMMA ProxyInvHolds == ProxySpec => []ProxyInv
<1>1. ProxyInv /\ [ProxyNext]_proxyVars => ProxyInv'
  <2> SUFFICES ASSUME ProxyInv, [ProxyNext]_proxyVars PROVE ProxyInv'
    OBVIOUS
  <2>1. CASE ProxyNext
    BY <2>1, AgentKeeps, HandlerKeeps, CopyKeeps, ReadsKeeps DEF ProxyNext, ProxyAgent
  <2>2. CASE UNCHANGED proxyVars
    BY <2>2 DEF proxyVars, vars, ProxyInv, StreamInv, TypeOK, CopyInv
  <2> QED
    BY <2>1, <2>2
<1> QED
  BY <1>1, ProxyStarts, PTL DEF ProxySpec

(***************************************************************************)
(* Every variable has its type.                                            *)
(***************************************************************************)
THEOREM ProxyTypeCorrect == ProxySpec => []ProxyTypeOK
BY ProxyInvHolds, ProxyInvImplies, PTL

(***************************************************************************)
(* Through the proxy the client parses what it gets, and takes only a      *)
(* stream the host has ended for a whole one (sse.go:12-31,                *)
(* client.go:77-79).                                                       *)
(***************************************************************************)
THEOREM ProxyParses == ProxySpec => []Parsed /\ []Whole
BY ProxyInvHolds, ProxyInvImplies, PTL

(***************************************************************************)
(* What the client gets as a whole stream is every event the agent wrote,  *)
(* to the end of its body (proxy.go:89-117).                               *)
(***************************************************************************)
THEOREM ProxiedCorrect == ProxySpec => []Proxied
BY ProxyInvHolds, ProxyInvImplies, PTL
=============================================================================
