--------------------------- MODULE EventStoreProofs ---------------------------
(***************************************************************************)
(* Theorems about the event log and the report on it, for any sessions,    *)
(* commands, limits and numbers of operations.                             *)
(*                                                                         *)
(* What compaction keeps of a log is a selection of its positions in their *)
(* order (Picks).  So whatever holds of the order of two events is kept,   *)
(* and of every event that is not in the log any more it is known when it  *)
(* was dropped, and why (Accounts).                                        *)
(***************************************************************************)
EXTENDS EventStore, SequenceTheorems, FiniteSetTheorems, TLAPS

IsSeq(s) == \E S : s \in Seq(S)

\* The same event, as it was recorded and as it stands in a log
Same(a, b) == a.by = b.by /\ a.nth = b.nth /\ a.seq = b.seq /\ a.type = b.type /\ a.session = b.session

\* t has the elements of s at the positions g, in their order
Ascends(g, n, m) == g \in [1..n -> 1..m] /\ \A i, j \in 1..n : i < j => g[i] < g[j]
Picks(t, s, g) == Ascends(g, Len(t), Len(s)) /\ \A i \in 1..Len(t) : Same(t[i], s[g[i]])

----------------------------------------------------------------------------
(* Sequences *)

LEMMA SeqFacts ==
  ASSUME NEW s, IsSeq(s)
  PROVE  Len(s) \in Nat /\ DOMAIN s = 1..Len(s) /\ (s = <<>> <=> Len(s) = 0)
  <1>1. PICK S : s \in Seq(S)
    BY DEF IsSeq
  <1> QED
    BY <1>1, LenProperties, EmptySeq

LEMMA AppendFacts ==
  ASSUME NEW s, IsSeq(s), NEW e
  PROVE  /\ IsSeq(Append(s, e)) /\ Len(Append(s, e)) = Len(s) + 1
         /\ \A i \in 1..Len(s) : Append(s, e)[i] = s[i]
         /\ Append(s, e)[Len(s) + 1] = e
  <1>1. PICK S : s \in Seq(S)
    BY DEF IsSeq
  <1> DEFINE T == S \cup {e}
  <1>2. s \in Seq(T) /\ e \in T
    BY <1>1, SeqMonotonic
  <1> HIDE DEF T
  <1>3. /\ Append(s, e) \in Seq(T) /\ Len(Append(s, e)) = Len(s) + 1
        /\ \A i \in 1..Len(s) : Append(s, e)[i] = s[i]
        /\ Append(s, e)[Len(s) + 1] = e
    BY <1>2, AppendProperties
  <1> QED
    BY <1>3 DEF IsSeq

LEMMA TailFacts ==
  ASSUME NEW s, IsSeq(s), s # <<>>
  PROVE  IsSeq(Tail(s)) /\ (Tail(s) # <<>> <=> Len(s) > 1)
  <1>1. PICK S : s \in Seq(S)
    BY DEF IsSeq
  <1>2. Tail(s) \in Seq(S) /\ Len(Tail(s)) = Len(s) - 1
    BY <1>1, HeadTailProperties
  <1>3. IsSeq(Tail(s))
    BY <1>2 DEF IsSeq
  <1>4. Len(Tail(s)) \in Nat /\ (Tail(s) = <<>> <=> Len(Tail(s)) = 0)
    BY <1>3, SeqFacts
  <1>5. Len(s) \in Nat
    BY SeqFacts
  <1> QED
    BY <1>2, <1>3, <1>4, <1>5

LEMMA ConcatFacts ==
  ASSUME NEW s, NEW t, IsSeq(s), IsSeq(t)
  PROVE  IsSeq(s \o t) /\ (t # <<>> => s \o t # <<>>)
  <1>1. PICK S : s \in Seq(S)
    BY DEF IsSeq
  <1>2. PICK T : t \in Seq(T)
    BY DEF IsSeq
  <1> DEFINE U == S \cup T
  <1>3. s \in Seq(U) /\ t \in Seq(U)
    BY <1>1, <1>2, SeqMonotonic
  <1> HIDE DEF U
  <1>4. s \o t \in Seq(U)
    BY <1>3, ConcatProperties
  <1>5. s \o t = <<>> => t = <<>>
    BY <1>3, ConcatEqualIffEmpty, ConcatEmptySeq, ConcatProperties, EmptySeq, LenProperties
  <1> QED
    BY <1>4, <1>5 DEF IsSeq

LEMMA ShortSeqs ==
  /\ IsSeq(<<>>)
  /\ \A a : IsSeq(<<a>>) /\ <<a>> # <<>>
  /\ \A a, b : IsSeq(<<a, b>>) /\ <<a, b>> # <<>>
  <1>1. IsSeq(<<>>)
    BY EmptySeq DEF IsSeq
  <1>2. ASSUME NEW a PROVE IsSeq(<<a>>) /\ <<a>> # <<>>
    <2>1. <<a>> \in Seq({a})
      OBVIOUS
    <2> QED
      BY <2>1 DEF IsSeq
  <1>3. ASSUME NEW a, NEW b PROVE IsSeq(<<a, b>>) /\ <<a, b>> # <<>>
    <2>1. <<a, b>> \in Seq({a, b})
      OBVIOUS
    <2> QED
      BY <2>1 DEF IsSeq
  <1> QED
    BY <1>1, <1>2, <1>3

\* The newest elements, at the end.
LEMMA NewestFacts ==
  ASSUME NEW s, IsSeq(s), NEW n \in Nat
  PROVE  /\ IsSeq(Newest(s, n))
         /\ Len(Newest(s, n)) = IF Len(s) > n THEN n ELSE Len(s)
         /\ \A i \in 1..Len(Newest(s, n)) :
               Newest(s, n)[i] = s[(Len(s) - Len(Newest(s, n))) + i]
  <1>1. PICK S : s \in Seq(S)
    BY DEF IsSeq
  <1>2. Len(s) \in Nat
    BY SeqFacts
  <1> DEFINE a == IF Len(s) > n THEN Len(s) - n + 1 ELSE 1
  <1>3. a \in 1..(Len(s) + 1) /\ (Len(s) - a) + 1 = IF Len(s) > n THEN n ELSE Len(s)
    BY <1>2
  <1>4. Newest(s, n) = SubSeq(s, a, Len(s))
    BY DEF Newest
  <1> HIDE DEF a
  <1>9. a \in Int /\ Len(s) \in Int /\ \A i \in a..Len(s) : s[i] \in S
    <2>1. \A i \in a..Len(s) : i \in 1..Len(s)
      BY <1>2, <1>3
    <2> QED
      BY <1>1, <1>2, <1>3, <2>1, ElementOfSeq
  <1>5. /\ SubSeq(s, a, Len(s)) \in Seq(S)
        /\ Len(SubSeq(s, a, Len(s))) = IF a <= Len(s) THEN (Len(s) - a) + 1 ELSE 0
        /\ \A i \in 1..((Len(s) - a) + 1) : SubSeq(s, a, Len(s))[i] = s[(a + i) - 1]
    BY <1>9, SubSeqProperties
  <1>6. Len(Newest(s, n)) = (Len(s) - a) + 1
    BY <1>2, <1>3, <1>4, <1>5
  <1>7. \A i \in 1..Len(Newest(s, n)) : (a + i) - 1 = (Len(s) - Len(Newest(s, n))) + i
    BY <1>2, <1>3, <1>6
  <1>8. IsSeq(Newest(s, n))
    BY <1>4, <1>5 DEF IsSeq
  <1> QED
    BY <1>3, <1>4, <1>5, <1>6, <1>7, <1>8

----------------------------------------------------------------------------
(* The events at some positions *)

\* How many of the positions come up to k, and the n-th of them
Upto(at, k) == {j \in at : j <= k}
Ordinal(at, k) == Cardinality(Upto(at, k))
Place(at, n) == CHOOSE k \in at : Cardinality({j \in at : j <= k}) = n

LEMMA RankFacts ==
  ASSUME NEW m \in Nat, NEW at \in SUBSET (1..m)
  PROVE  /\ IsFiniteSet(at) /\ Cardinality(at) \in Nat /\ Cardinality(at) <= m
         /\ \A k \in at : Ordinal(at, k) \in 1..Cardinality(at)
         /\ \A k, l \in at : k < l => Ordinal(at, k) < Ordinal(at, l)
  <1>1. IsFiniteSet(1..m) /\ Cardinality(1..m) = m
    BY FS_Interval
  <1>2. IsFiniteSet(at) /\ Cardinality(at) \in Nat /\ Cardinality(at) <= m
    BY <1>1, FS_Subset, FS_CardinalityType
  <1>3. \A S \in SUBSET at : IsFiniteSet(S) /\ Cardinality(S) \in Nat /\ Cardinality(S) <= Cardinality(at)
    BY <1>2, FS_Subset, FS_CardinalityType
  <1>4. \A k \in at : Upto(at, k) \in SUBSET at /\ k \in Upto(at, k)
    BY DEF Upto
  <1>5. ASSUME NEW k \in at PROVE Ordinal(at, k) \in 1..Cardinality(at)
    <2>1. IsFiniteSet(Upto(at, k)) /\ Ordinal(at, k) \in Nat /\ Ordinal(at, k) <= Cardinality(at)
      BY <1>3, <1>4 DEF Ordinal
    <2>2. Ordinal(at, k) # 0
      BY <1>4, <2>1, FS_EmptySet DEF Ordinal
    <2> QED
      BY <1>2, <2>1, <2>2
  <1>6. ASSUME NEW k \in at, NEW l \in at, k < l PROVE Ordinal(at, k) < Ordinal(at, l)
    <2> DEFINE Below == Upto(at, l) \ {l}
    <2>1. Upto(at, k) \in SUBSET Below
      <3>1. \A j \in at : j <= k => j <= l /\ j # l
        <4>1. k \in Nat /\ l \in Nat /\ \A j \in at : j \in Nat
          OBVIOUS
        <4> QED
          BY <1>6, <4>1
      <3> QED
        BY <3>1 DEF Upto
    <2>2. IsFiniteSet(Upto(at, l)) /\ l \in Upto(at, l) /\ Cardinality(Upto(at, l)) \in Nat
      BY <1>3, <1>4
    <2>3. IsFiniteSet(Below) /\ Cardinality(Below) = Cardinality(Upto(at, l)) - 1
      BY <2>2, FS_RemoveElement
    <2> HIDE DEF Below
    <2>4. Cardinality(Upto(at, k)) <= Cardinality(Below)
      BY <2>1, <2>3, FS_Subset
    <2>5. Cardinality(Upto(at, k)) \in Nat
      BY <1>3, <1>4
    <2> QED
      BY <2>2, <2>3, <2>4, <2>5 DEF Ordinal
  <1> QED
    BY <1>2, <1>5, <1>6

\* The ranks are all the numbers there are positions.
LEMMA PlaceFacts ==
  ASSUME NEW m \in Nat, NEW at \in SUBSET (1..m)
  PROVE  /\ \A n \in 1..Cardinality(at) : Place(at, n) \in at /\ Ordinal(at, Place(at, n)) = n
         /\ \A i, j \in 1..Cardinality(at) : i < j => Place(at, i) < Place(at, j)
         /\ \A k \in at : \E n \in 1..Cardinality(at) : Place(at, n) = k
  <1> DEFINE C == Cardinality(at)
  <1>1. /\ IsFiniteSet(at) /\ C \in Nat
        /\ \A k \in at : Ordinal(at, k) \in 1..C
        /\ \A k, l \in at : k < l => Ordinal(at, k) < Ordinal(at, l)
    BY RankFacts
  <1>2. \A k, l \in at : k # l => Ordinal(at, k) # Ordinal(at, l)
    <2> SUFFICES ASSUME NEW k \in at, NEW l \in at, k # l PROVE Ordinal(at, k) # Ordinal(at, l)
      OBVIOUS
    <2>1. Ordinal(at, k) \in Nat /\ Ordinal(at, l) \in Nat
      BY <1>1
    <2>2. k < l \/ l < k
      OBVIOUS
    <2> QED
      BY <1>1, <2>1, <2>2
  <1> DEFINE r == [k \in at |-> Ordinal(at, k)]
  <1>3. r \in Injection(at, 1..C)
    BY <1>1, <1>2 DEF Injection, IsInjective
  <1>4. IsFiniteSet(1..C) /\ Cardinality(1..C) = C
    BY <1>1, FS_Interval
  <1> HIDE DEF C, r
  <1>5. r \in Surjection(at, 1..C)
    BY <1>3, <1>4, FS_Injection DEF C
  <1>6. \A n \in 1..C : \E k \in at : Ordinal(at, k) = n
    BY <1>5 DEF r, Surjection
  <1>7. \A n \in 1..C : Place(at, n) \in at /\ Ordinal(at, Place(at, n)) = n
    BY <1>6 DEF Place, Ordinal, Upto
  <1>8. \A k \in at : Place(at, Ordinal(at, k)) = k
    BY <1>1, <1>2, <1>7
  <1>9. ASSUME NEW i \in 1..C, NEW j \in 1..C, i < j PROVE Place(at, i) < Place(at, j)
    <2>1. Place(at, i) \in at /\ Place(at, j) \in at
          /\ Ordinal(at, Place(at, i)) = i /\ Ordinal(at, Place(at, j)) = j
      BY <1>7
    <2>3. i \in Nat /\ j \in Nat /\ ~(j < i) /\ i # j
      BY <1>1, <1>9 DEF C
    <2>4. ~(Place(at, j) < Place(at, i)) /\ Place(at, i) # Place(at, j)
      BY <1>1, <2>1, <2>3
    <2>2. Place(at, i) \in 1..m /\ Place(at, j) \in 1..m
      BY <1>7
    <2> QED
      BY <2>2, <2>4
  <1> QED
    BY <1>1, <1>7, <1>8, <1>9 DEF C

LEMMA AmongFacts ==
  ASSUME NEW s, IsSeq(s), NEW at \in SUBSET (1..Len(s))
  PROVE  /\ IsSeq(Among(s, at)) /\ Len(Among(s, at)) = Cardinality(at)
         /\ Cardinality(at) \in Nat /\ Cardinality(at) <= Len(s)
         /\ \A n \in 1..Cardinality(at) : Among(s, at)[n] = s[Place(at, n)]
  <1>1. Len(s) \in Nat
    BY SeqFacts
  <1>2. Cardinality(at) \in Nat /\ Cardinality(at) <= Len(s)
    BY <1>1, RankFacts
  <1> DEFINE C == Cardinality(at)
             S == {s[Place(at, n)] : n \in 1..C}
  <1>3. Among(s, at) = [n \in 1..C |-> s[Place(at, n)]]
    BY DEF Among, Place
  <1> HIDE DEF C
  <1>4. Among(s, at) \in [1..C -> S]
    BY <1>3
  <1> HIDE DEF S
  <1>5. Among(s, at) \in Seq(S) /\ Len(Among(s, at)) = C
    <2>1. C \in Nat
      BY <1>2 DEF C
    <2>2. Among(s, at) \in Seq(S)
      BY <1>4, <2>1, SeqDef
    <2>3. DOMAIN Among(s, at) = 1..C
      BY <1>4
    <2> QED
      BY <2>1, <2>2, <2>3, LenProperties
  <1>6. IsSeq(Among(s, at))
    BY <1>5 DEF IsSeq
  <1> QED
    BY <1>2, <1>3, <1>5, <1>6 DEF C

----------------------------------------------------------------------------
(* Picking *)

LEMMA PicksAgain ==
  ASSUME NEW s, NEW t, NEW u, IsSeq(s), IsSeq(t), IsSeq(u),
         NEW g, NEW h, Picks(t, s, g), Picks(u, t, h)
  PROVE  /\ Picks(u, s, [i \in 1..Len(u) |-> g[h[i]]])
         /\ \A p \in 1..Len(s) :
               (\A i \in 1..Len(u) : [j \in 1..Len(u) |-> g[h[j]]][i] # p) =>
                  \/ \A n \in 1..Len(t) : g[n] # p
                  \/ \E n \in 1..Len(t) : g[n] = p /\ \A i \in 1..Len(u) : h[i] # n
  <1> DEFINE f == [i \in 1..Len(u) |-> g[h[i]]]
  <1>1. /\ g \in [1..Len(t) -> 1..Len(s)] /\ h \in [1..Len(u) -> 1..Len(t)]
        /\ \A i, j \in 1..Len(t) : i < j => g[i] < g[j]
        /\ \A i, j \in 1..Len(u) : i < j => h[i] < h[j]
    BY DEF Picks, Ascends
  <1>2. Ascends(f, Len(u), Len(s))
    BY <1>1 DEF Ascends
  <1>3. \A i \in 1..Len(u) : Same(u[i], t[h[i]]) /\ Same(t[h[i]], s[g[h[i]]])
    BY <1>1 DEF Picks
  <1>4. \A i \in 1..Len(u) : Same(u[i], s[f[i]])
    BY <1>3 DEF Same
  <1>5. Picks(u, s, f)
    BY <1>2, <1>4 DEF Picks
  <1> QED
    BY <1>1, <1>5

\* What is picked keeps its order.
Later(a, b) == a.seq < b.seq /\ (a.by = b.by => a.nth < b.nth)
LEMMA PicksKeepOrder ==
  ASSUME NEW s, NEW t, NEW g, Picks(t, s, g),
         \A i, j \in 1..Len(s) : i < j => Later(s[i], s[j])
  PROVE  \A i, j \in 1..Len(t) : i < j => Later(t[i], t[j])
  <1> SUFFICES ASSUME NEW i \in 1..Len(t), NEW j \in 1..Len(t), i < j
               PROVE  Later(t[i], t[j])
    OBVIOUS
  <1>1. g[i] \in 1..Len(s) /\ g[j] \in 1..Len(s) /\ g[i] < g[j]
    BY DEF Picks, Ascends
  <1>2. Later(s[g[i]], s[g[j]]) /\ Same(t[i], s[g[i]]) /\ Same(t[j], s[g[j]])
    BY <1>1 DEF Picks
  <1> QED
    BY <1>2 DEF Later, Same

\* The newest are picked, and what is not picked has as many as that after it.
LEMMA NewestPicks ==
  ASSUME NEW s, IsSeq(s), NEW n \in Nat
  PROVE  \E g : /\ Picks(Newest(s, n), s, g)
                /\ \A p \in 1..Len(s) :
                      (\A i \in 1..Len(Newest(s, n)) : g[i] # p) => p + n <= Len(s)
  <1> DEFINE t == Newest(s, n)
             d == Len(s) - Len(t)
             g == [i \in 1..Len(t) |-> d + i]
  <1>1. /\ IsSeq(t) /\ Len(t) = IF Len(s) > n THEN n ELSE Len(s)
        /\ \A i \in 1..Len(t) : t[i] = s[d + i]
    BY NewestFacts
  <1>2. Len(s) \in Nat
    BY SeqFacts
  <1> HIDE DEF t
  <1>3. Len(t) \in Nat /\ d \in Nat /\ d + Len(t) = Len(s)
    BY <1>1, <1>2
  <1>4. \A i \in 1..Len(t) : d + i \in 1..Len(s)
    BY <1>2, <1>3
  <1> HIDE DEF d
  <1>5. Ascends(g, Len(t), Len(s))
    BY <1>3, <1>4 DEF Ascends
  <1>6. Picks(t, s, g)
    BY <1>1, <1>5 DEF Picks, Same, d
  <1>7. ASSUME NEW p \in 1..Len(s), \A i \in 1..Len(t) : g[i] # p PROVE p + n <= Len(s)
    <2>1. p <= d
      <3> SUFFICES ASSUME p > d PROVE FALSE
        BY <1>2, <1>3
      <3>1. p - d \in 1..Len(t) /\ d + (p - d) = p
        BY <1>2, <1>3
      <3> QED
        BY <1>7, <3>1
    <2> QED
      BY <1>1, <1>2, <1>3, <2>1
  <1> QED
    BY <1>6, <1>7 DEF t

LEMMA AmongPicks ==
  ASSUME NEW s, IsSeq(s), NEW at \in SUBSET (1..Len(s))
  PROVE  \E g : /\ Picks(Among(s, at), s, g)
                /\ \A i \in 1..Len(Among(s, at)) : g[i] \in at
                /\ \A p \in at : \E i \in 1..Len(Among(s, at)) : g[i] = p
  <1> DEFINE t == Among(s, at)
             g == [n \in 1..Len(t) |-> Place(at, n)]
  <1>1. Len(s) \in Nat
    BY SeqFacts
  <1>2. Len(t) = Cardinality(at) /\ \A n \in 1..Cardinality(at) : t[n] = s[Place(at, n)]
    BY AmongFacts
  <1>3. /\ \A n \in 1..Cardinality(at) : Place(at, n) \in at
        /\ \A i, j \in 1..Cardinality(at) : i < j => Place(at, i) < Place(at, j)
        /\ \A k \in at : \E n \in 1..Cardinality(at) : Place(at, n) = k
    BY <1>1, PlaceFacts
  <1> HIDE DEF t
  <1>4. Ascends(g, Len(t), Len(s))
    BY <1>2, <1>3 DEF Ascends
  <1>5. Picks(t, s, g)
    BY <1>2, <1>4 DEF Picks, Same
  <1>6. (\A i \in 1..Len(t) : g[i] \in at) /\ \A p \in at : \E i \in 1..Len(t) : g[i] = p
    BY <1>2, <1>3
  <1> QED
    BY <1>5, <1>6 DEF t

----------------------------------------------------------------------------
(* Compaction *)

\* The events of a type, and that as many sessions as are retained were closed after the one of
\* the event p.
OfType(s, type) == {i \in 1..Len(s) : s[i].type = type}
ClosedAfter(s, k) == {l \in 1..Len(s) : l > k /\ s[l].type = "session_closed"}
Expired(s, p) ==
    \E k \in 1..Len(s) : /\ s[k].type = "session_closed" /\ s[k].session = s[p].session
                         /\ Retain <= Cardinality(ClosedAfter(s, k))

LEMMA ExpiredFacts ==
  ASSUME NEW s, IsSeq(s), NEW p \in 1..Len(s),
         s[p].session \in SessionsIn(With(s, "session_closed"))
                          \ SessionsIn(Newest(With(s, "session_closed"), Retain))
  PROVE  Expired(s, p)
  <1> DEFINE at == OfType(s, "session_closed")
             closed == With(s, "session_closed")
             newest == Newest(closed, Retain)
  <1>1. Len(s) \in Nat /\ DOMAIN s = 1..Len(s) /\ Retain \in Nat
    BY SeqFacts, StoreAssumption
  <1>2. closed = Among(s, at)
    BY <1>1 DEF With, OfType
  <1>3. at \in SUBSET (1..Len(s))
    BY DEF OfType
  <1>4. IsSeq(closed) /\ Len(closed) = Cardinality(at) /\ Cardinality(at) \in Nat
        /\ \A n \in 1..Len(closed) : closed[n] = s[Place(at, n)]
    BY <1>2, <1>3, AmongFacts
  <1>5. /\ \A n \in 1..Len(closed) : Place(at, n) \in at
        /\ \A i, j \in 1..Len(closed) : i < j => Place(at, i) < Place(at, j)
    BY <1>1, <1>3, <1>4, PlaceFacts
  <1> HIDE DEF closed
  <1>6. /\ IsSeq(newest) /\ Len(newest) = IF Len(closed) > Retain THEN Retain ELSE Len(closed)
        /\ \A i \in 1..Len(newest) : newest[i] = closed[(Len(closed) - Len(newest)) + i]
    BY <1>1, <1>4, NewestFacts
  <1>7. DOMAIN closed = 1..Len(closed) /\ DOMAIN newest = 1..Len(newest)
    BY <1>4, <1>6, SeqFacts
  <1> HIDE DEF newest
  <1>8. PICK n \in 1..Len(closed) : closed[n].session = s[p].session
    BY <1>7 DEF SessionsIn, closed, newest
  <1>9. \A i \in 1..Len(newest) : newest[i].session # s[p].session
    BY <1>7, <1>8 DEF SessionsIn, closed, newest
  <1>10. n + Retain <= Len(closed)
    <2> SUFFICES ASSUME n + Retain > Len(closed) PROVE FALSE
      BY <1>1, <1>4
    <2> DEFINE i == n - (Len(closed) - Len(newest))
    <2>1. i \in 1..Len(newest) /\ (Len(closed) - Len(newest)) + i = n
      BY <1>1, <1>4, <1>6
    <2> QED
      BY <1>6, <1>8, <1>9, <2>1
  <1> DEFINE k == Place(at, n)
             After == ClosedAfter(s, k)
             late == [i \in 1..Retain |-> Place(at, n + i)]
  <1>11. \A i \in 1..Retain : n + i \in 1..Len(closed) /\ n < n + i
    BY <1>1, <1>4, <1>10
  <1>12. \A i \in 1..Retain : Place(at, n + i) \in After
    BY <1>5, <1>11 DEF OfType, ClosedAfter
  <1>13. \A i, j \in 1..Retain : i # j => Place(at, n + i) # Place(at, n + j)
    <2>1. ASSUME NEW i \in 1..Retain, NEW j \in 1..Retain, i < j
          PROVE  Place(at, n + i) # Place(at, n + j)
      <3>1. n + i < n + j /\ n + i \in 1..Len(closed) /\ n + j \in 1..Len(closed)
        BY <1>11, <2>1
      <3>2. Place(at, n + i) < Place(at, n + j) /\ Place(at, n + i) \in at
        BY <1>5, <3>1
      <3>3. Place(at, n + i) \in Nat
        BY <1>3, <3>2
      <3> QED
        BY <3>2, <3>3
    <2>2. \A i, j \in 1..Retain : i # j => i < j \/ j < i
      OBVIOUS
    <2> QED
      BY <2>1, <2>2
  <1>14. k \in 1..Len(s) /\ s[k].type = "session_closed" /\ s[k].session = s[p].session
    BY <1>4, <1>5, <1>8 DEF OfType
  <1> HIDE DEF k, After
  <1>15. late \in Injection(1..Retain, After)
    BY <1>12, <1>13 DEF Injection, IsInjective
  <1>16. IsFiniteSet(After)
    <2>1. After \in SUBSET (1..Len(s)) /\ IsFiniteSet(1..Len(s))
      BY <1>1, FS_Interval DEF After, ClosedAfter
    <2> QED
      BY <2>1, FS_Subset
  <1> HIDE DEF late
  <1>17. Cardinality(1..Retain) <= Cardinality(After) /\ Cardinality(1..Retain) = Retain
    BY <1>1, <1>15, <1>16, FS_Injection, FS_Interval
  <1> QED
    BY <1>14, <1>17 DEF Expired, After

\* Compaction picks, and what it does not pick has expired.
LEMMA CompactPicks ==
  ASSUME NEW s, IsSeq(s), Len(s) <= Maximum
  PROVE  /\ IsSeq(Compact(s)) /\ Len(Compact(s)) <= Maximum
         /\ \E g : /\ Picks(Compact(s), s, g)
                   /\ \A p \in 1..Len(s) :
                         (\A i \in 1..Len(Compact(s)) : g[i] # p) => Expired(s, p)
  <1> DEFINE closed == With(s, "session_closed")
             expired == SessionsIn(closed) \ SessionsIn(Newest(closed, Retain))
             at == {i \in DOMAIN s : s[i].session \notin expired}
             found == Among(s, at)
             t == Compact(s)
  <1>1. Len(s) \in Nat /\ DOMAIN s = 1..Len(s) /\ Maximum \in Nat
    BY SeqFacts, StoreAssumption
  <1>2. t = Newest(found, Maximum)
    BY DEF Compact
  <1>3. \A p \in 1..Len(s) : p \notin at => Expired(s, p)
    <2> SUFFICES ASSUME NEW p \in 1..Len(s), p \notin at PROVE Expired(s, p)
      OBVIOUS
    <2>1. s[p].session \in expired
      BY <1>1
    <2> QED
      BY <2>1, ExpiredFacts
  <1>4. at \in SUBSET (1..Len(s))
    BY <1>1
  <1> HIDE DEF expired, closed, at
  <1>5. IsSeq(found) /\ Len(found) \in Nat /\ Len(found) <= Maximum
    <2>1. IsSeq(found) /\ Len(found) = Cardinality(at) /\ Cardinality(at) \in Nat
          /\ Cardinality(at) <= Len(s)
      BY <1>4, AmongFacts
    <2> QED
      BY <1>1, <2>1
  <1>6. PICK g : /\ Picks(found, s, g)
                 /\ \A p \in at : \E i \in 1..Len(found) : g[i] = p
    BY <1>4, AmongPicks
  <1> HIDE DEF found, t
  <1>7. IsSeq(t) /\ Len(t) = Len(found) /\ \A i \in 1..Len(t) : t[i] = found[i]
    <2>1. /\ IsSeq(t) /\ Len(t) = Len(found)
          /\ \A i \in 1..Len(t) : t[i] = found[(Len(found) - Len(t)) + i]
      BY <1>1, <1>2, <1>5, NewestFacts
    <2>2. \A i \in 1..Len(t) : (Len(found) - Len(t)) + i = i
      BY <1>5, <2>1
    <2> QED
      BY <2>1, <2>2
  <1>8. Picks(t, s, g)
    BY <1>6, <1>7 DEF Picks
  <1>9. \A p \in 1..Len(s) : (\A i \in 1..Len(t) : g[i] # p) => Expired(s, p)
    BY <1>3, <1>6, <1>7
  <1> QED
    BY <1>5, <1>7, <1>8, <1>9 DEF t

----------------------------------------------------------------------------
(* Events that are missing *)

\* As many events as the log holds came after the one at p, or its session has expired.
Dropped(s, p) == p + Maximum <= Len(s) \/ Expired(s, p)

\* t is what is left of s, and what is missing was dropped for a reason.
Accounts(t, s) ==
    \E g : /\ Picks(t, s, g)
           /\ \A p \in 1..Len(s) : (\A i \in 1..Len(t) : g[i] # p) => Dropped(s, p)

\* The reason does not pass: there are as many events after it in the sequence t was picked of.
LEMMA DroppedPicked ==
  ASSUME NEW s, NEW t, IsSeq(s), IsSeq(t), NEW g, Picks(t, s, g),
         NEW n \in 1..Len(t), Dropped(t, n)
  PROVE  Dropped(s, g[n])
  <1>1. Len(s) \in Nat /\ Len(t) \in Nat
    BY SeqFacts
  <1>2. /\ \A i \in 1..Len(t) : g[i] \in 1..Len(s) /\ Same(t[i], s[g[i]])
        /\ \A i, j \in 1..Len(t) : i < j => g[i] < g[j]
    BY DEF Picks, Ascends
  <1>3. \A i, j \in 1..Len(t) : i # j => g[i] # g[j]
    <2>1. \A i, j \in 1..Len(t) : i # j => i < j \/ j < i
      OBVIOUS
    <2>2. \A i \in 1..Len(t) : g[i] \in Nat
      BY <1>2
    <2>3. \A i, j \in 1..Len(t) : i < j => g[i] # g[j]
      BY <1>2, <2>2
    <2> QED
      BY <2>1, <2>3
  <1>4. CASE n + Maximum <= Len(t)
    <2> DEFINE A == (n + 1)..Len(t)
               B == (g[n] + 1)..Len(s)
               later == [i \in A |-> g[i]]
    <2>1. \A i \in A : i \in 1..Len(t) /\ n < i
      BY <1>1
    <2>2. \A i \in A : g[i] \in B
      BY <1>2, <2>1
    <2>3. later \in Injection(A, B)
      BY <1>3, <2>1, <2>2 DEF Injection, IsInjective
    <2>4. /\ IsFiniteSet(B) /\ Cardinality(A) = Len(t) - n
          /\ Cardinality(B) = Len(s) - g[n]
      <3>1. /\ n + 1 \in Int /\ Len(t) \in Int /\ g[n] + 1 \in Int /\ Len(s) \in Int
            /\ n + 1 <= Len(t) + 1 /\ g[n] + 1 <= Len(s) + 1
        BY <1>1, <1>2
      <3>2. IsFiniteSet(B) /\ Cardinality(B) = IF g[n] + 1 > Len(s) THEN 0 ELSE Len(s) - (g[n] + 1) + 1
        BY <3>1, FS_Interval
      <3>3. Cardinality(A) = IF n + 1 > Len(t) THEN 0 ELSE Len(t) - (n + 1) + 1
        BY <3>1, FS_Interval
      <3> QED
        BY <1>1, <1>2, <3>1, <3>2, <3>3
    <2> HIDE DEF A, B, later
    <2>5. Cardinality(A) <= Cardinality(B)
      BY <2>3, <2>4, FS_Injection
    <2>6. g[n] + Maximum <= Len(s)
      BY <1>1, <1>2, <1>4, <2>4, <2>5, StoreAssumption
    <2> QED
      BY <2>6 DEF Dropped
  <1>5. CASE Expired(t, n)
    <2>1. PICK k \in 1..Len(t) : /\ t[k].type = "session_closed" /\ t[k].session = t[n].session
                                 /\ Retain <= Cardinality(ClosedAfter(t, k))
      BY <1>5 DEF Expired
    <2>2. /\ g[k] \in 1..Len(s) /\ s[g[k]].type = "session_closed"
          /\ s[g[k]].session = s[g[n]].session
      BY <1>2, <2>1 DEF Same
    <2> DEFINE A == ClosedAfter(t, k)
               B == ClosedAfter(s, g[k])
               later == [i \in A |-> g[i]]
    <2>3. \A i \in A : i \in 1..Len(t) /\ k < i
      BY DEF ClosedAfter
    <2>4. \A i \in A : g[i] \in B
      BY <1>2, <2>3 DEF ClosedAfter, Same
    <2>5. later \in Injection(A, B)
      BY <1>3, <2>3, <2>4 DEF Injection, IsInjective
    <2>6. IsFiniteSet(B) /\ IsFiniteSet(A)
      <3>1. IsFiniteSet(1..Len(s)) /\ IsFiniteSet(1..Len(t))
        BY <1>1, FS_Interval
      <3>2. A \in SUBSET (1..Len(t)) /\ B \in SUBSET (1..Len(s))
        BY DEF ClosedAfter
      <3> HIDE DEF A, B
      <3> QED
        BY <3>1, <3>2, FS_Subset
    <2>7. Retain <= Cardinality(A)
      BY <2>1
    <2> HIDE DEF A, B, later
    <2>8. Cardinality(A) <= Cardinality(B) /\ Cardinality(A) \in Nat /\ Cardinality(B) \in Nat
      BY <2>5, <2>6, FS_Injection, FS_CardinalityType
    <2>9. Retain <= Cardinality(B)
      BY <2>7, <2>8, StoreAssumption
    <2>10. Expired(s, g[n])
      BY <2>2, <2>9 DEF Expired, B
    <2> QED
      BY <2>10 DEF Dropped
  <1> QED
    BY <1>4, <1>5 DEF Dropped

LEMMA AccountsAgain ==
  ASSUME NEW s, NEW t, NEW u, IsSeq(s), IsSeq(t), IsSeq(u), Accounts(t, s), Accounts(u, t)
  PROVE  Accounts(u, s)
  <1>1. PICK g : /\ Picks(t, s, g)
                 /\ \A p \in 1..Len(s) : (\A i \in 1..Len(t) : g[i] # p) => Dropped(s, p)
    BY DEF Accounts
  <1>2. PICK h : /\ Picks(u, t, h)
                 /\ \A p \in 1..Len(t) : (\A i \in 1..Len(u) : h[i] # p) => Dropped(t, p)
    BY DEF Accounts
  <1> DEFINE f == [i \in 1..Len(u) |-> g[h[i]]]
  <1>3. /\ Picks(u, s, f)
        /\ \A p \in 1..Len(s) : (\A i \in 1..Len(u) : f[i] # p) =>
              \/ \A n \in 1..Len(t) : g[n] # p
              \/ \E n \in 1..Len(t) : g[n] = p /\ \A i \in 1..Len(u) : h[i] # n
    BY <1>1, <1>2, PicksAgain
  <1> HIDE DEF f
  <1>4. ASSUME NEW p \in 1..Len(s), \A i \in 1..Len(u) : f[i] # p PROVE Dropped(s, p)
    <2>1. CASE \A n \in 1..Len(t) : g[n] # p
      BY <1>1, <2>1
    <2>2. ASSUME NEW n \in 1..Len(t), g[n] = p, \A i \in 1..Len(u) : h[i] # n
          PROVE  Dropped(s, p)
      <3>1. Dropped(t, n)
        BY <1>2, <2>2
      <3>2. Dropped(s, g[n])
        BY <1>1, <3>1, DroppedPicked
      <3> QED
        BY <2>2, <3>2
    <2> QED
      BY <1>3, <1>4, <2>1, <2>2
  <1> QED
    BY <1>3, <1>4 DEF Accounts

\* An event that is recorded is added to both.
LEMMA AccountsAppend ==
  ASSUME NEW s, NEW t, IsSeq(s), IsSeq(t), Accounts(t, s), NEW a, NEW b, Same(a, b)
  PROVE  Accounts(Append(t, a), Append(s, b))
  <1>1. PICK g : /\ Picks(t, s, g)
                 /\ \A p \in 1..Len(s) : (\A i \in 1..Len(t) : g[i] # p) => Dropped(s, p)
    BY DEF Accounts
  <1> DEFINE v == Append(t, a)
             w == Append(s, b)
             h == [i \in 1..(Len(t) + 1) |-> IF i = Len(t) + 1 THEN Len(s) + 1 ELSE g[i]]
  <1>2. Len(s) \in Nat /\ Len(t) \in Nat
    BY SeqFacts
  <1>3. /\ IsSeq(v) /\ Len(v) = Len(t) + 1 /\ v[Len(t) + 1] = a
        /\ \A i \in 1..Len(t) : v[i] = t[i]
    BY AppendFacts
  <1>4. /\ IsSeq(w) /\ Len(w) = Len(s) + 1 /\ w[Len(s) + 1] = b
        /\ \A i \in 1..Len(s) : w[i] = s[i]
    BY AppendFacts
  <1> HIDE DEF v, w
  <1>5. /\ \A i \in 1..Len(t) : g[i] \in 1..Len(s) /\ Same(t[i], s[g[i]])
        /\ \A i, j \in 1..Len(t) : i < j => g[i] < g[j]
    BY <1>1 DEF Picks, Ascends
  <1>6. \A i \in 1..Len(v) : i \in 1..Len(t) \/ i = Len(t) + 1
    BY <1>2, <1>3
  <1>7. /\ h[Len(t) + 1] = Len(s) + 1 /\ \A i \in 1..Len(t) : h[i] = g[i]
        /\ \A i \in 1..Len(t) : i \in 1..Len(v)
        /\ Len(t) + 1 \in 1..Len(v)
    BY <1>2, <1>3
  <1>8. h \in [1..Len(v) -> 1..Len(w)]
    BY <1>2, <1>3, <1>4, <1>5
  <1> HIDE DEF h
  <1>9. ASSUME NEW i \in 1..Len(v), NEW j \in 1..Len(v), i < j PROVE h[i] < h[j]
    <2>1. i \in 1..Len(t)
      BY <1>2, <1>3, <1>9
    <2>2. CASE j \in 1..Len(t)
      BY <1>5, <1>7, <1>9, <2>1, <2>2
    <2>3. CASE j = Len(t) + 1
      BY <1>2, <1>5, <1>7, <2>1, <2>3
    <2> QED
      BY <1>6, <2>2, <2>3
  <1>10. \A i \in 1..Len(v) : Same(v[i], w[h[i]])
    BY <1>3, <1>4, <1>5, <1>6, <1>7
  <1>11. Picks(v, w, h)
    BY <1>8, <1>9, <1>10 DEF Picks, Ascends
  <1>12. ASSUME NEW p \in 1..Len(w), \A i \in 1..Len(v) : h[i] # p PROVE Dropped(w, p)
    <2>1. p \in 1..Len(s) /\ \A i \in 1..Len(t) : g[i] # p
      BY <1>2, <1>4, <1>7, <1>12
    <2>2. Dropped(s, p)
      BY <1>1, <2>1
    <2> DEFINE id == [i \in 1..Len(s) |-> i]
    <2>3. Picks(s, w, id)
      BY <1>2, <1>4 DEF Picks, Ascends, Same
    <2>4. id[p] = p
      BY <2>1
    <2> HIDE DEF id
    <2>5. Dropped(w, id[p])
      BY <1>4, <2>1, <2>2, <2>3, DroppedPicked
    <2> QED
      BY <2>4, <2>5
  <1> QED
    BY <1>11, <1>12 DEF Accounts, v, w

\* What a write leaves of the events it has read and the one it adds.
LEMMA CompactAccounts ==
  ASSUME NEW s, IsSeq(s)
  PROVE  LET t == Compact(Newest(s, Maximum))
         IN IsSeq(t) /\ Len(t) <= Maximum /\ Accounts(t, s)
  <1> DEFINE r == Newest(s, Maximum)
             t == Compact(r)
  <1>1. Maximum \in Nat /\ Len(s) \in Nat
    BY StoreAssumption, SeqFacts
  <1>2. IsSeq(r) /\ Len(r) <= Maximum
    BY <1>1, NewestFacts
  <1>3. Accounts(r, s)
    <2>1. PICK g : /\ Picks(r, s, g)
                   /\ \A p \in 1..Len(s) : (\A i \in 1..Len(r) : g[i] # p) => p + Maximum <= Len(s)
      BY <1>1, NewestPicks
    <2> QED
      BY <2>1 DEF Accounts, Dropped
  <1> HIDE DEF r
  <1>4. IsSeq(t) /\ Len(t) <= Maximum
    BY <1>2, CompactPicks
  <1>5. Accounts(t, r)
    <2>1. PICK g : /\ Picks(t, r, g)
                   /\ \A p \in 1..Len(r) : (\A i \in 1..Len(t) : g[i] # p) => Expired(r, p)
      BY <1>2, CompactPicks
    <2> QED
      BY <2>1 DEF Accounts, Dropped
  <1> HIDE DEF t
  <1>6. Accounts(t, s)
    BY <1>2, <1>3, <1>4, <1>5, AccountsAgain
  <1> QED
    BY <1>4, <1>6 DEF t, r

----------------------------------------------------------------------------
(* The inductive invariant *)

\* A log, in the file or as a flow has read it: its numbers increase and stay below the next
\* one, and the events of each flow stand in the order it recorded them.
Sound(s) ==
    /\ IsSeq(s.events) /\ Len(s.events) <= Maximum /\ s.next \in Nat
    /\ \A i \in 1..Len(s.events) :
          /\ s.events[i].seq \in Nat /\ s.events[i].seq < s.next
          /\ s.events[i].by \in Flows /\ s.events[i].nth \in Nat
    /\ \A i, j \in 1..Len(s.events) : i < j => Later(s.events[i], s.events[j])

\* A flow has not yet recorded the event it is at.
Past(s) == \A i \in 1..Len(s.events) : s.events[i].nth < flow[s.events[i].by].nth

FlowType(r) ==
    /\ r = [pc |-> r.pc, phase |-> r.phase, todo |-> r.todo, seen |-> r.seen, mode |-> r.mode,
            nth |-> r.nth]
    /\ r.pc \in {"idle", "read", "check", "write"} /\ r.nth \in Nat
    /\ IsSeq(r.todo) /\ (r.pc = "idle" <=> r.todo = <<>>)
    /\ r.pc \in {"check", "write"} => Sound(r.seen)

LogType ==
    /\ turns \in BOOLEAN /\ store.kind \in {"none", "log", "corrupt"} /\ Sound(store)
    /\ flow = [f \in Flows |-> flow[f]] /\ \A f \in Flows : FlowType(flow[f])
    /\ IsSeq(recorded) /\ \A i \in 1..Len(recorded) : recorded[i].seq \in Nat
    /\ operations \in 0..(IF turns THEN MaxOperations ELSE MaxOverlapping)

AllPast ==
    Past(store) /\ \A f \in Flows : flow[f].pc \in {"check", "write"} => Past(flow[f].seen)

\* Where the flows take turns, what one has read is the file, and the file's next number is
\* above every number given, those of the events it has dropped included.
OneFlow == \A f, g \in Flows : flow[f].pc # "idle" /\ flow[g].pc # "idle" => f = g
ReadIsCurrent == \A f \in Flows : flow[f].pc \in {"check", "write"} => flow[f].seen = store
NextAbove == \A i \in 1..Len(recorded) : recorded[i].seq < store.next

EventsInv ==
    /\ LogType /\ AllPast /\ NumbersUnique
    /\ turns => OneFlow /\ ReadIsCurrent /\ NextAbove /\ Accounts(Log, recorded)

\* What a step that leaves the file alone has to show.
LEMMA QuietStep ==
  ASSUME EventsInv, NEW f \in Flows, UNCHANGED <<turns, store, recorded>>,
         operations' \in 0..(IF turns THEN MaxOperations ELSE MaxOverlapping),
         flow' = [g \in Flows |-> flow'[g]], \A g \in Flows \ {f} : flow'[g] = flow[g],
         FlowType(flow'[f]), flow[f].nth <= flow'[f].nth,
         flow'[f].pc \in {"check", "write"} => flow'[f].seen \in {flow[f].seen, store},
         flow'[f].pc = "write" => flow[f].pc = "check" /\ flow'[f].seen = flow[f].seen,
         flow'[f].pc = "check" => flow'[f].seen = store,
         turns /\ flow[f].pc = "idle" => \A g \in Flows : flow[g].pc = "idle"
  PROVE  EventsInv'
  <1>1. LogType /\ AllPast /\ NumbersUnique
    BY DEF EventsInv
  <1>2. \A g \in Flows : FlowType(flow[g]) /\ FlowType(flow'[g])
    BY <1>1 DEF LogType
  <1>3. LogType'
    <2>1. /\ turns' \in BOOLEAN /\ store'.kind \in {"none", "log", "corrupt"} /\ Sound(store)'
          /\ IsSeq(recorded') /\ \A i \in 1..Len(recorded') : recorded'[i].seq \in Nat
      BY <1>1 DEF LogType, Sound, Flows
    <2>2. \A g \in Flows : FlowType(flow[g])'
      BY <1>2 DEF FlowType, Sound, Flows
    <2> QED
      BY <2>1, <2>2 DEF LogType
  <1>4. \A g \in Flows : flow[g].nth \in Nat /\ flow'[g].nth \in Nat /\ flow[g].nth <= flow'[g].nth
    <2>1. \A g \in Flows : flow[g].nth \in Nat /\ flow'[g].nth \in Nat
      BY <1>2 DEF FlowType
    <2>2. \A g \in Flows \ {f} : flow[g].nth <= flow'[g].nth
      BY <2>1
    <2> QED
      BY <2>1, <2>2
  <1>5. ASSUME NEW s, Sound(s), Past(s)
        PROVE  \A i \in 1..Len(s.events) : s.events[i].nth < flow'[s.events[i].by].nth
    BY <1>4, <1>5 DEF Sound, Past
  <1>6. Past(store)'
    BY <1>1, <1>5 DEF LogType, AllPast, Past
  <1>7. ASSUME NEW g \in Flows, flow'[g].pc \in {"check", "write"}
        PROVE  Past(flow[g].seen)'
    <2>1. Sound(flow'[g].seen)
      BY <1>2, <1>7 DEF FlowType
    <2>2. Past(flow'[g].seen)
      BY <1>1, <1>7 DEF AllPast
    <2> QED
      BY <1>5, <2>1, <2>2 DEF Past
  <1>8. AllPast'
    BY <1>6, <1>7 DEF AllPast
  <1>9. ASSUME turns PROVE OneFlow' /\ ReadIsCurrent'
    <2>1. OneFlow /\ ReadIsCurrent
      BY <1>9 DEF EventsInv
    <2>2. \A g \in Flows \ {f} : flow[g].pc # "idle" => flow[f].pc = "idle"
      BY <2>1 DEF OneFlow
    <2>3. \A g \in Flows \ {f} : flow[g].pc # "idle" => flow'[f].pc = "idle"
      BY <1>9, <2>1, <2>2 DEF OneFlow
    <2>4. OneFlow'
      BY <2>1, <2>3 DEF OneFlow
    <2>5. flow'[f].pc \in {"check", "write"} => flow'[f].seen = store
      BY <2>1 DEF ReadIsCurrent
    <2>6. ReadIsCurrent'
      BY <2>1, <2>5 DEF ReadIsCurrent
    <2> QED
      BY <2>4, <2>6
  <1>10. NumbersUnique' /\ (turns' => NextAbove' /\ Accounts(Log, recorded)')
    <2>1. Log' = Log
      BY DEF Log
    <2>2. turns => NextAbove /\ Accounts(Log, recorded)
      BY DEF EventsInv
    <2>3. NumbersUnique' /\ (turns' => NextAbove')
      BY <1>1, <2>2 DEF NumbersUnique, NextAbove
    <2>4. turns' => Accounts(Log', recorded')
      BY <2>1, <2>2
    <2> QED
      BY <2>3, <2>4
  <1> QED
    BY <1>3, <1>8, <1>9, <1>10 DEF EventsInv

\* What an operation records is a sequence, and only a refused one records nothing.
LEMMA OperationTypes ==
  ASSUME NEW f, NEW todo \in Opens(f) \cup Works(f) \cup Resumes(f) \cup {<<>>} \cup Closes(f)
                   \cup {<<Plain(f, "session_detached")>>} \cup Loses(f) \cup Recovers(f)
                   \cup {Failure(f)}
  PROVE  IsSeq(todo)
  <1>1. \A a : IsSeq(<<a>>)
    BY ShortSeqs
  <1>2. \A a, b : IsSeq(<<a, b>>)
    BY ShortSeqs
  <1>3. CASE todo \in Opens(f)
    BY <1>1, <1>2, <1>3 DEF Opens
  <1>4. CASE todo \in Works(f)
    BY <1>1, <1>4 DEF Works, Checkpoints, Finishes
  <1>5. CASE todo \in Resumes(f)
    BY <1>2, <1>5 DEF Resumes
  <1>6. CASE todo \in Closes(f)
    <2>1. PICK report \in {<<>>, <<Plain(f, "progress_report_submitted")>>},
               checkpoint \in {<<>>, <<Plain(f, "checkpoint_created")>>,
                               <<Plain(f, "checkpoint_duplicate")>>} :
             todo = report \o checkpoint \o <<Plain(f, "session_closed")>>
      BY <1>6 DEF Closes
    <2>2. IsSeq(report) /\ IsSeq(checkpoint) /\ IsSeq(<<Plain(f, "session_closed")>>)
      BY ShortSeqs
    <2>3. IsSeq(report \o checkpoint)
      BY <2>2, ConcatFacts
    <2> QED
      BY <2>1, <2>2, <2>3, ConcatFacts
  <1>7. CASE todo \in Loses(f) \cup Recovers(f) \cup {Failure(f)}
    BY <1>1, <1>2, <1>7 DEF Loses, Recovers, Failure
  <1>8. CASE todo \in {<<>>, <<Plain(f, "session_detached")>>}
    BY <1>8, ShortSeqs
  <1> QED
    BY <1>3, <1>4, <1>5, <1>6, <1>7, <1>8

LEMMA EmptyLogs ==
  ASSUME NEW s \in {NoFile, Corrupt}
  PROVE  Sound(s) /\ s.events = <<>> /\ Len(s.events) = 0 /\ s.kind \in {"none", "log", "corrupt"}
  <1>1. s.events = <<>> /\ s.next = 1 /\ s.kind \in {"none", "log", "corrupt"}
    BY DEF NoFile, Corrupt
  <1>2. IsSeq(<<>>) /\ Len(<<>>) = 0
    BY ShortSeqs, SeqFacts
  <1>3. \A i \in 1..0 : FALSE
    OBVIOUS
  <1> QED
    BY <1>1, <1>2, <1>3, StoreAssumption DEF Sound

LEMMA InitEvents == Init => EventsInv
  <1> SUFFICES ASSUME Init PROVE EventsInv
    OBVIOUS
  <1>1. Sound(store) /\ Log = <<>> /\ Len(Log) = 0 /\ store.kind \in {"none", "log", "corrupt"}
    BY EmptyLogs DEF Init, Log
  <1>2. recorded = <<>> /\ IsSeq(recorded) /\ Len(recorded) = 0 /\ DOMAIN recorded = 1..0
    BY ShortSeqs, SeqFacts DEF Init
  <1>3. \A i \in 1..0 : FALSE
    OBVIOUS
  <1>4. \A f \in Flows : FlowType(flow[f]) /\ flow[f].pc = "idle"
    BY ShortSeqs DEF Init, FlowType
  <1>5. LogType
    BY <1>1, <1>2, <1>3, <1>4, StoreAssumption DEF Init, LogType
  <1>6. AllPast
    BY <1>1, <1>3, <1>4 DEF AllPast, Past, Log
  <1>7. Accounts(Log, recorded)
    <2> DEFINE g == [i \in 1..0 |-> i]
    <2>1. Picks(Log, recorded, g)
      BY <1>1, <1>2, <1>3 DEF Picks, Ascends
    <2> HIDE DEF g
    <2> QED
      BY <1>2, <1>3, <2>1 DEF Accounts
  <1>8. NumbersUnique /\ OneFlow /\ ReadIsCurrent /\ NextAbove
    BY <1>2, <1>3, <1>4 DEF NumbersUnique, OneFlow, ReadIsCurrent, NextAbove
  <1> QED
    BY <1>5, <1>6, <1>7, <1>8 DEF EventsInv

\* An operation begins.
LEMMA ObserveEvents ==
  ASSUME EventsInv, NEW f \in Flows, NEW from, NEW to, NEW inputs,
         \A todo \in inputs : IsSeq(todo), Observe(f, from, to, inputs)
  PROVE  EventsInv'
  <1>1. PICK todo \in inputs :
          flow' = [flow EXCEPT ![f].phase = to, ![f].todo = todo,
                               ![f].pc = IF todo = <<>> THEN "idle" ELSE "read"]
    BY DEF Observe
  <1>2. /\ UNCHANGED <<turns, store, recorded>> /\ LogType /\ FlowType(flow[f])
        /\ turns => \A g \in Flows : flow[g].pc = "idle"
        /\ operations < (IF turns THEN MaxOperations ELSE MaxOverlapping)
        /\ operations' = operations + 1
    BY DEF Observe, MayStart, EventsInv, LogType
  <1>3. operations' \in 0..(IF turns THEN MaxOperations ELSE MaxOverlapping)
    BY <1>2, StoreAssumption DEF LogType
  <1>4. /\ flow' = [g \in Flows |-> flow'[g]] /\ \A g \in Flows \ {f} : flow'[g] = flow[g]
        /\ flow'[f] = [flow[f] EXCEPT !.phase = to, !.todo = todo,
                                      !.pc = IF todo = <<>> THEN "idle" ELSE "read"]
    BY <1>1, <1>2 DEF LogType
  <1>5. FlowType(flow'[f]) /\ flow'[f].pc \in {"idle", "read"} /\ flow'[f].nth = flow[f].nth
    BY <1>2, <1>4 DEF FlowType
  <1>6. flow[f].nth <= flow'[f].nth
    BY <1>2, <1>5 DEF FlowType
  <1> QED
    BY <1>2, <1>3, <1>4, <1>5, <1>6, QuietStep

\* The flow goes on to its next event, or returns.
LEMMA LeaveTypes ==
  ASSUME LogType, NEW f \in Flows, flow[f].pc # "idle", flow' = Leave(f, flow[f].todo)
  PROVE  /\ flow' = [g \in Flows |-> flow'[g]] /\ \A g \in Flows \ {f} : flow'[g] = flow[g]
         /\ FlowType(flow'[f]) /\ flow'[f].pc \in {"idle", "read"}
         /\ flow'[f].nth = flow[f].nth + 1 /\ flow[f].nth \in Nat
  <1>1. FlowType(flow[f])
    BY DEF LogType
  <1> DEFINE todo == flow[f].todo
  <1>2. /\ flow' = [g \in Flows |-> flow'[g]] /\ \A g \in Flows \ {f} : flow'[g] = flow[g]
        /\ flow'[f] = [flow[f] EXCEPT !.pc = IF Len(todo) > 1 THEN "read" ELSE "idle",
                                      !.todo = Tail(todo), !.seen = NoFile, !.mode = "none",
                                      !.nth = @ + 1]
    BY DEF LogType, Leave
  <1>3. IsSeq(todo) /\ todo # <<>>
    BY <1>1 DEF FlowType
  <1>4. IsSeq(Tail(todo)) /\ (Tail(todo) # <<>> <=> Len(todo) > 1)
    BY <1>3, TailFacts
  <1> HIDE DEF todo
  <1>5. /\ flow'[f].pc = (IF Len(todo) > 1 THEN "read" ELSE "idle") /\ flow'[f].todo = Tail(todo)
        /\ flow'[f].nth = flow[f].nth + 1 /\ flow[f].nth \in Nat
        /\ flow'[f] = [pc |-> flow'[f].pc, phase |-> flow'[f].phase, todo |-> flow'[f].todo,
                       seen |-> flow'[f].seen, mode |-> flow'[f].mode, nth |-> flow'[f].nth]
    BY <1>1, <1>2 DEF FlowType
  <1>6. FlowType(flow'[f]) /\ flow'[f].pc \in {"idle", "read"}
    BY <1>4, <1>5 DEF FlowType
  <1> QED
    BY <1>2, <1>5, <1>6

LEMMA QuietEvents ==
  ASSUME EventsInv, NEW f \in Flows,
         ReadStore(f) \/ CheckExists(f) \/ WriteFails(f) \/ CreateRefused(f)
  PROVE  EventsInv'
  <1>1. /\ LogType /\ FlowType(flow[f]) /\ flow = [g \in Flows |-> flow[g]] /\ Sound(store)
        /\ UNCHANGED <<turns, store, recorded, operations>> /\ flow[f].pc # "idle"
        /\ flow[f].nth \in Nat /\ flow[f].todo # <<>>
        /\ operations' \in 0..(IF turns THEN MaxOperations ELSE MaxOverlapping)
    BY DEF EventsInv, LogType, FlowType, ReadStore, CheckExists, WriteFails, CreateRefused
  <1>2. CASE flow' = Leave(f, flow[f].todo)
    <2>1. /\ flow' = [g \in Flows |-> flow'[g]] /\ \A g \in Flows \ {f} : flow'[g] = flow[g]
          /\ FlowType(flow'[f]) /\ flow'[f].pc \in {"idle", "read"}
          /\ flow[f].nth <= flow'[f].nth
      BY <1>1, <1>2, LeaveTypes
    <2> QED
      BY <1>1, <2>1, QuietStep
  <1>3. CASE ReadStore(f) /\ store.kind # "corrupt"
    <2>1. flow' = [flow EXCEPT ![f].pc = "check", ![f].seen = store]
      BY <1>3 DEF ReadStore
    <2>2. /\ flow' = [g \in Flows |-> flow'[g]] /\ \A g \in Flows \ {f} : flow'[g] = flow[g]
          /\ flow'[f] = [flow[f] EXCEPT !.pc = "check", !.seen = store]
      BY <1>1, <2>1
    <2>4. /\ flow'[f].pc = "check" /\ flow'[f].todo = flow[f].todo
          /\ flow'[f].seen = store /\ flow'[f].nth = flow[f].nth
          /\ flow'[f] = [pc |-> flow'[f].pc, phase |-> flow'[f].phase, todo |-> flow'[f].todo,
                         seen |-> flow'[f].seen, mode |-> flow'[f].mode, nth |-> flow'[f].nth]
      BY <1>1, <2>2 DEF FlowType
    <2>3. FlowType(flow'[f]) /\ flow[f].nth <= flow'[f].nth
      BY <1>1, <2>4 DEF FlowType
    <2> QED
      BY <1>1, <2>2, <2>3, <2>4, QuietStep
  <1>4. CASE CheckExists(f)
    <2> DEFINE mode == IF store.kind = "none" THEN "create" ELSE "replace"
    <2>1. flow[f].pc = "check" /\ flow' = [flow EXCEPT ![f].pc = "write", ![f].mode = mode]
      BY <1>4 DEF CheckExists
    <2> HIDE DEF mode
    <2>2. /\ flow' = [g \in Flows |-> flow'[g]] /\ \A g \in Flows \ {f} : flow'[g] = flow[g]
          /\ flow'[f] = [flow[f] EXCEPT !.pc = "write", !.mode = mode]
      BY <1>1, <2>1
    <2>3. FlowType(flow'[f]) /\ flow'[f].pc = "write" /\ flow'[f].seen = flow[f].seen
          /\ flow[f].nth <= flow'[f].nth
      BY <1>1, <2>1, <2>2 DEF FlowType
    <2> QED
      BY <1>1, <2>1, <2>2, <2>3, QuietStep
  <1> QED
    BY <1>2, <1>3, <1>4 DEF ReadStore, CheckExists, WriteFails, CreateRefused

\* The log that a write leaves, of what it has read (seen) and its own event.
LEMMA WrittenLog ==
  ASSUME LogType, NEW f \in Flows, NEW seen, Sound(seen), Past(seen),
         NEW e, e.seq = seen.next, e.by = f, e.nth = flow[f].nth, flow[f].nth \in Nat,
         NEW log, log = Compact(Newest(Append(seen.events, e), Maximum)),
         NEW new, new.events = log, new.next = seen.next + 1
  PROVE  /\ Sound(new) /\ Accounts(log, Append(seen.events, e))
         /\ \A i \in 1..Len(log) : \/ log[i].nth < flow[log[i].by].nth
                                   \/ log[i].by = f /\ log[i].nth = flow[f].nth
  <1> DEFINE old == seen.events
             all == Append(old, e)
  <1>1. /\ IsSeq(old) /\ Len(old) \in Nat /\ seen.next \in Nat
        /\ \A i \in 1..Len(old) : /\ old[i].seq \in Nat /\ old[i].seq < seen.next
                                  /\ old[i].by \in Flows /\ old[i].nth \in Nat
                                  /\ old[i].nth < flow[old[i].by].nth
        /\ \A i, j \in 1..Len(old) : i < j => Later(old[i], old[j])
    BY SeqFacts DEF Sound, Past
  <1> HIDE DEF old
  <1>2. /\ IsSeq(all) /\ Len(all) = Len(old) + 1 /\ all[Len(old) + 1] = e
        /\ \A i \in 1..Len(old) : all[i] = old[i]
    BY <1>1, AppendFacts
  <1> HIDE DEF all
  <1>3. \A i \in 1..Len(all) : i \in 1..Len(old) \/ i = Len(old) + 1
    BY <1>1, <1>2
  <1>4. IsSeq(log) /\ Len(log) <= Maximum /\ Accounts(log, all)
    BY <1>2, CompactAccounts DEF all, old
  <1>5. ASSUME NEW i \in 1..Len(all), NEW j \in 1..Len(all), i < j PROVE Later(all[i], all[j])
    <2>1. i \in 1..Len(old)
      BY <1>1, <1>2, <1>5
    <2>2. CASE j \in 1..Len(old)
      BY <1>1, <1>2, <1>5, <2>1, <2>2
    <2>3. CASE j = Len(old) + 1
      BY <1>1, <1>2, <2>1, <2>3 DEF Later
    <2> QED
      BY <1>3, <2>2, <2>3
  <1>6. PICK g : Picks(log, all, g)
    BY <1>4 DEF Accounts
  <1>7. \A i, j \in 1..Len(log) : i < j => Later(log[i], log[j])
    BY <1>5, <1>6, PicksKeepOrder
  <1>8. \A i \in 1..Len(all) : /\ all[i].seq \in Nat /\ all[i].seq < seen.next + 1
                               /\ all[i].by \in Flows /\ all[i].nth \in Nat
                               /\ \/ all[i].nth < flow[all[i].by].nth
                                  \/ all[i].by = f /\ all[i].nth = flow[f].nth
    BY <1>1, <1>2, <1>3
  <1>9. \A i \in 1..Len(log) : g[i] \in 1..Len(all) /\ Same(log[i], all[g[i]])
    BY <1>6 DEF Picks, Ascends
  <1>10. \A i \in 1..Len(log) : /\ log[i].seq \in Nat /\ log[i].seq < seen.next + 1
                                /\ log[i].by \in Flows /\ log[i].nth \in Nat
                                /\ \/ log[i].nth < flow[log[i].by].nth
                                   \/ log[i].by = f /\ log[i].nth = flow[f].nth
    BY <1>8, <1>9 DEF Same
  <1>11. Sound(new)
    BY <1>1, <1>4, <1>7, <1>10 DEF Sound
  <1> QED
    BY <1>4, <1>10, <1>11 DEF all, old

\* The write that records an event gives it the number it has read as the next one.
LEMMA WriteEvents ==
  ASSUME EventsInv, NEW f \in Flows, WriteStore(f)
  PROVE  EventsInv'
  <1> DEFINE seen == flow[f].seen
             event == flow[f].todo[1]
             stamped == [type |-> event.type, task |-> event.task, fresh |-> event.fresh,
                         checked |-> event.checked, host |-> event.host, session |-> event.session,
                         seq |-> seen.next, by |-> f, nth |-> flow[f].nth]
             entry == [by |-> f, nth |-> flow[f].nth, session |-> event.session,
                       type |-> event.type, seq |-> seen.next]
             log == Compact(Newest(Append(seen.events, stamped), Maximum))
  <1>1. /\ flow[f].pc = "write" /\ recorded' = Append(recorded, entry)
        /\ flow' = Leave(f, flow[f].todo) /\ UNCHANGED <<turns, operations>>
        /\ store' = Extended(f, seen)
    BY DEF WriteStore
  <1>2. store'.kind = "log" /\ store'.next = seen.next + 1 /\ store'.events = log
    BY <1>1 DEF Extended
  <1>3. /\ LogType /\ FlowType(flow[f]) /\ Sound(seen) /\ Past(seen) /\ flow[f].nth \in Nat
        /\ IsSeq(recorded) /\ IsSeq(seen.events) /\ seen.next \in Nat
    BY <1>1 DEF EventsInv, AllPast, LogType, FlowType, Sound
  <1>4. /\ Same(stamped, entry) /\ stamped.seq = seen.next /\ stamped.by = f
        /\ stamped.nth = flow[f].nth /\ entry.seq = seen.next
    BY DEF Same
  <1>5. /\ flow' = [g \in Flows |-> flow'[g]] /\ \A g \in Flows \ {f} : flow'[g] = flow[g]
        /\ FlowType(flow'[f]) /\ flow'[f].pc \in {"idle", "read"}
        /\ flow'[f].nth = flow[f].nth + 1
    BY <1>1, <1>3, LeaveTypes
  <1> HIDE DEF stamped, entry, log
  <1>6. /\ Sound(store') /\ Accounts(log, Append(seen.events, stamped))
        /\ \A i \in 1..Len(log) : \/ log[i].nth < flow[log[i].by].nth
                                  \/ log[i].by = f /\ log[i].nth = flow[f].nth
    <2>1. log = Compact(Newest(Append(seen.events, stamped), Maximum))
      BY DEF log
    <2> HIDE DEF seen
    <2> QED
      BY <1>2, <1>3, <1>4, <2>1, WrittenLog
  <1>7. /\ IsSeq(recorded') /\ Len(recorded) \in Nat /\ Len(recorded') = Len(recorded) + 1
        /\ DOMAIN recorded = 1..Len(recorded) /\ DOMAIN recorded' = 1..Len(recorded')
        /\ \A i \in 1..Len(recorded) : recorded'[i] = recorded[i]
        /\ recorded'[Len(recorded) + 1] = entry
    <2>1. /\ IsSeq(recorded') /\ Len(recorded') = Len(recorded) + 1
          /\ \A i \in 1..Len(recorded) : recorded'[i] = recorded[i]
          /\ recorded'[Len(recorded) + 1] = entry
      BY <1>1, <1>3, AppendFacts
    <2>2. Len(recorded) \in Nat /\ DOMAIN recorded = 1..Len(recorded)
      BY <1>3, SeqFacts
    <2>3. DOMAIN recorded' = 1..Len(recorded')
      BY <2>1, SeqFacts
    <2> QED
      BY <2>1, <2>2, <2>3
  <1>8. \A i \in 1..Len(recorded') : i \in 1..Len(recorded) \/ i = Len(recorded) + 1
    BY <1>7
  <1>9. \A g \in Flows : FlowType(flow[g]) /\ flow[g].nth \in Nat
    BY <1>3 DEF LogType, FlowType
  <1>10. LogType'
    <2>1. \A g \in Flows : FlowType(flow'[g])
      BY <1>5, <1>9
    <2>2. \A g \in Flows : FlowType(flow[g])'
      BY <2>1 DEF FlowType, Sound, Flows
    <2>3. \A i \in 1..Len(recorded') : recorded'[i].seq \in Nat
      BY <1>3, <1>4, <1>7, <1>8 DEF LogType
    <2>4. Sound(store)'
      BY <1>6 DEF Sound, Flows
    <2>5. turns' \in BOOLEAN /\ operations' \in 0..(IF turns' THEN MaxOperations ELSE MaxOverlapping)
      BY <1>1, <1>3 DEF LogType
    <2> QED
      BY <1>2, <1>5, <1>7, <2>2, <2>3, <2>4, <2>5 DEF LogType
  <1>11. ASSUME NEW s, Sound(s), Past(s)
         PROVE  \A i \in 1..Len(s.events) : s.events[i].nth < flow'[s.events[i].by].nth
    <2>1. \A g \in Flows : flow[g].nth \in Nat /\ flow'[g].nth \in Nat /\ flow[g].nth <= flow'[g].nth
      BY <1>5, <1>9
    <2> QED
      BY <1>11, <2>1 DEF Sound, Past
  <1>12. AllPast'
    <2>1. ASSUME NEW i \in 1..Len(log) PROVE log[i].nth < flow'[log[i].by].nth
      <3>1. log[i].nth \in Nat /\ log[i].by \in Flows
        BY <1>2, <1>6 DEF Sound
      <3> QED
        BY <1>5, <1>6, <1>9, <3>1
    <2>2. Past(store)'
      BY <1>2, <2>1 DEF Past
    <2>3. ASSUME NEW g \in Flows, flow'[g].pc \in {"check", "write"} PROVE Past(flow[g].seen)'
      <3>1. g # f /\ flow'[g] = flow[g]
        BY <1>5, <2>3
      <3>2. Sound(flow[g].seen) /\ Past(flow[g].seen)
        BY <1>9, <2>3, <3>1 DEF EventsInv, AllPast, FlowType
      <3> QED
        BY <1>11, <3>1, <3>2 DEF Past
    <2> QED
      BY <2>2, <2>3 DEF AllPast
  <1>13. ASSUME turns PROVE OneFlow' /\ ReadIsCurrent'
    <2>1. \A g \in Flows : flow'[g].pc # "idle" => g = f /\ flow'[g].pc = "read"
      BY <1>1, <1>5, <1>13 DEF EventsInv, OneFlow
    <2> QED
      BY <2>1 DEF OneFlow, ReadIsCurrent
  <1>14. ASSUME turns
         PROVE  /\ seen = store
                /\ \A i \in 1..Len(recorded) : recorded[i].seq < entry.seq /\ recorded[i].seq \in Nat
                /\ \A i, j \in 1..Len(recorded) : i < j => recorded[i].seq < recorded[j].seq
    <2>1. seen = store
      BY <1>1, <1>14 DEF EventsInv, ReadIsCurrent
    <2>2. \A i \in 1..Len(recorded) : recorded[i].seq \in Nat /\ recorded[i].seq < store.next
      BY <1>3, <1>14 DEF EventsInv, NextAbove, LogType
    <2>3. \A i, j \in 1..Len(recorded) : i < j => recorded[i].seq < recorded[j].seq
      BY <1>7, <1>14 DEF EventsInv, NumbersUnique
    <2> QED
      BY <1>4, <2>1, <2>2, <2>3
  <1>15. turns => NextAbove'
    BY <1>2, <1>3, <1>4, <1>7, <1>8, <1>14 DEF NextAbove
  <1>16. NumbersUnique'
    BY <1>1, <1>7, <1>8, <1>14 DEF NumbersUnique
  <1>17. ASSUME turns PROVE Accounts(log, recorded')
    <2>1. Accounts(seen.events, recorded)
      BY <1>14, <1>17 DEF EventsInv, Log
    <2>2. Accounts(Append(seen.events, stamped), recorded')
      BY <1>1, <1>3, <1>4, <2>1, AccountsAppend
    <2>3. IsSeq(Append(seen.events, stamped)) /\ IsSeq(log)
      BY <1>2, <1>3, <1>6, AppendFacts DEF Sound
    <2> QED
      BY <1>6, <1>7, <2>2, <2>3, AccountsAgain
  <1>18. Log' = log
    BY <1>2 DEF Log
  <1> QED
    BY <1>1, <1>10, <1>12, <1>13, <1>15, <1>16, <1>17, <1>18 DEF EventsInv

LEMMA NextEvents ==
  ASSUME EventsInv, [Next]_vars
  PROVE  EventsInv'
  <1>1. CASE UNCHANGED vars
    <2>1. LogType' /\ AllPast' /\ NumbersUnique'
      BY <1>1 DEF vars, EventsInv, LogType, AllPast, NumbersUnique, FlowType, Sound, Past, Flows
    <2>2. turns' => OneFlow' /\ ReadIsCurrent' /\ NextAbove'
      BY <1>1 DEF vars, EventsInv, OneFlow, ReadIsCurrent, NextAbove
    <2>3. Log' = Log /\ recorded' = recorded /\ (turns' => turns)
      BY <1>1 DEF vars, Log
    <2>4. turns' => Accounts(Log', recorded')
      BY <2>3 DEF EventsInv
    <2> QED
      BY <2>1, <2>2, <2>4 DEF EventsInv
  <1>2. ASSUME NEW f \in Flows,
               \/ Open(f) \/ Work(f) \/ Resume(f) \/ Refused(f) \/ Close(f) \/ Detach(f) \/ Lose(f)
               \/ Recover(f) \/ FailRecovery(f) \/ Command(f)
        PROVE  EventsInv'
    <2>1. \E from, to, inputs : /\ Observe(f, from, to, inputs)
                                /\ \A todo \in inputs : IsSeq(todo)
      <3>1. \A todo \in Opens(f) \cup Works(f) \cup Resumes(f) \cup {<<>>} \cup Closes(f)
                   \cup {<<Plain(f, "session_detached")>>} \cup Loses(f) \cup Recovers(f)
                   \cup {Failure(f)} : IsSeq(todo)
        BY OperationTypes
      <3> QED
        BY <1>2, <3>1
           DEF Open, Work, Resume, Refused, Close, Detach, Lose, Recover, FailRecovery, Command
    <2> QED
      BY <2>1, ObserveEvents
  <1>3. ASSUME NEW f \in Flows, Record(f)
        PROVE  EventsInv'
    BY <1>3, QuietEvents, WriteEvents DEF Record
  <1> QED
    BY <1>1, <1>2, <1>3 DEF Next

LEMMA EventsInvariant == Spec => []EventsInv
  BY InitEvents, NextEvents, PTL DEF Spec

----------------------------------------------------------------------------
(* The properties of the log *)

\* The file always parses, whatever the writers overwrite: its numbers increase and stay below
\* nextSequence, and its length within the limit of its schema.
THEOREM EventStoreTypeCorrect == Spec => []TypeOK
  <1>1. EventsInv => TypeOK
    <2> SUFFICES ASSUME EventsInv PROVE TypeOK
      OBVIOUS
    <2>1. LogType /\ IsSeq(Log) /\ DOMAIN Log = 1..Len(Log) /\ Len(Log) \in Nat
      BY SeqFacts DEF EventsInv, LogType, Sound, Log
    <2>2. \A i, j \in DOMAIN store.events : i < j => store.events[i].seq < store.events[j].seq
      BY <2>1 DEF LogType, Sound, Later, Log
    <2>3. store.events # <<>> => store.next > Last(store.events).seq
      <3> SUFFICES ASSUME store.events # <<>> PROVE store.next > Last(store.events).seq
        OBVIOUS
      <3>1. Len(Log) # 0
        BY <2>1, SeqFacts DEF Log
      <3>2. Len(Log) \in 1..Len(Log)
        BY <2>1, <3>1
      <3> QED
        BY <2>1, <3>2 DEF LogType, Sound, Last, Log
    <2> QED
      BY <2>1, <2>2, <2>3 DEF TypeOK, Parses, LogType, Sound, Log, FlowType
  <1> QED
    BY <1>1, EventsInvariant, PTL

\* The events of one flow stand in the log in the order it recorded them, each once, whatever
\* the recorders that overlap overwrite or bring back.
THEOREM OwnOrderHolds == Spec => []OwnOrder
  <1>1. EventsInv => OwnOrder
    <2> SUFFICES ASSUME EventsInv PROVE OwnOrder
      OBVIOUS
    <2>1. IsSeq(Log) /\ DOMAIN Log = 1..Len(Log) /\ Sound(store)
      BY SeqFacts DEF EventsInv, LogType, Sound, Log
    <2> QED
      BY <2>1 DEF OwnOrder, Sound, Later, Log
  <1> QED
    BY <1>1, EventsInvariant, PTL

\* Where the flows take turns, the recorder gives no number twice: also not that of an event
\* the compaction has dropped.
THEOREM NumbersUniqueHolds == Spec => []NumbersUnique
  <1>1. EventsInv => NumbersUnique
    BY DEF EventsInv
  <1> QED
    BY <1>1, EventsInvariant, PTL

\* Where the flows take turns, an event is missing from the log only because as many as it
\* holds came after it, or as many sessions as are retained closed after its own.
THEOREM LostByRetentionOnlyHolds == Spec => []LostByRetentionOnly
  <1>1. EventsInv => LostByRetentionOnly
    <2> SUFFICES ASSUME EventsInv, turns, NEW p \in DOMAIN recorded
                 PROVE  \/ \E j \in DOMAIN Log : Log[j].by = recorded[p].by /\ Log[j].nth = recorded[p].nth
                        \/ Len(recorded) - p >= Maximum
                        \/ \E k \in DOMAIN recorded :
                             /\ recorded[k].type = "session_closed"
                             /\ recorded[k].session = recorded[p].session
                             /\ Cardinality({l \in DOMAIN recorded :
                                    l > k /\ recorded[l].type = "session_closed"}) >= Retain
      BY DEF LostByRetentionOnly
    <2>1. /\ IsSeq(Log) /\ DOMAIN Log = 1..Len(Log) /\ IsSeq(recorded)
          /\ DOMAIN recorded = 1..Len(recorded) /\ Len(recorded) \in Nat /\ Maximum \in Nat
      BY SeqFacts, StoreAssumption DEF EventsInv, LogType, Sound, Log
    <2>2. PICK g : /\ Picks(Log, recorded, g)
                   /\ \A q \in 1..Len(recorded) :
                         (\A i \in 1..Len(Log) : g[i] # q) => Dropped(recorded, q)
      BY DEF EventsInv, Accounts
    <2>3. CASE \E i \in 1..Len(Log) : g[i] = p
      BY <2>1, <2>2, <2>3 DEF Picks, Same
    <2>4. CASE \A i \in 1..Len(Log) : g[i] # p
      <3>1. Dropped(recorded, p)
        BY <2>1, <2>2, <2>4
      <3>2. CASE p + Maximum <= Len(recorded)
        BY <2>1, <3>2
      <3>3. CASE Expired(recorded, p)
        <4>1. PICK k \in 1..Len(recorded) :
                /\ recorded[k].type = "session_closed" /\ recorded[k].session = recorded[p].session
                /\ Retain <= Cardinality(ClosedAfter(recorded, k))
          BY <3>3 DEF Expired
        <4>2. ClosedAfter(recorded, k)
                = {l \in DOMAIN recorded : l > k /\ recorded[l].type = "session_closed"}
          BY <2>1 DEF ClosedAfter
        <4>3. Cardinality(ClosedAfter(recorded, k)) \in Nat /\ Retain \in Nat
          <5>1. IsFiniteSet(1..Len(recorded)) /\ ClosedAfter(recorded, k) \in SUBSET (1..Len(recorded))
            BY <2>1, FS_Interval DEF ClosedAfter
          <5> QED
            BY <5>1, FS_Subset, FS_CardinalityType, StoreAssumption
        <4> QED
          BY <2>1, <4>1, <4>2, <4>3
      <3> QED
        BY <3>1, <3>2, <3>3 DEF Dropped
    <2> QED
      BY <2>3, <2>4
  <1> QED
    BY <1>1, EventsInvariant, PTL

----------------------------------------------------------------------------
(* The rating *)

\* No warning about a single session is an error, or about a recovery or freshness.
LEMMA SessionWarningsOf ==
  ASSUME NEW events, NEW long
  PROVE  SessionWarnings(events, long) \subseteq {"W001", "W002", "W003", "W009"}
  BY DEF SessionWarnings

LEMMA WarningsOf ==
  ASSUME NEW events, NEW pending, NEW long
  PROVE  LET warnings == Warnings(events, pending, long)
         IN /\ "W004" \in warnings => "recovery_checkpoint_created" \in Types(events)
            /\ "W005" \in warnings => Freshness(events) = "reused"
            /\ "W006" \in warnings => Freshness(events) = "absent"
            /\ "W008" \in warnings => pending # {} /\ events # <<>>
  <1> DEFINE W == {w \in {"W004", "W005", "W006", "W007", "W008"} :
        CASE w = "W004" -> "recovery_checkpoint_created" \in Types(events)
          [] w = "W005" -> Freshness(events) = "reused"
          [] w = "W006" -> Freshness(events) = "absent"
          [] w = "W007" -> \E i \in DOMAIN events :
                                events[i].type = "task_finished" /\ ~events[i].checked
          [] w = "W008" -> pending # {} /\ events # <<>>}
  <1>1. Warnings(events, pending, long) = SessionWarnings(events, long) \cup W
    BY DEF Warnings
  <1>2. /\ "W004" \in W => "recovery_checkpoint_created" \in Types(events)
        /\ "W005" \in W => Freshness(events) = "reused"
        /\ "W006" \in W => Freshness(events) = "absent"
        /\ "W008" \in W => pending # {} /\ events # <<>>
    OBVIOUS
  <1> HIDE DEF W
  <1> QED
    BY <1>1, <1>2, SessionWarningsOf

\* The rating and the warnings of any events, with any sessions pending.
LEMMA RatingOfWarnings ==
  ASSUME NEW events, NEW pending, NEW long
  PROVE  LET warnings == Warnings(events, pending, long)
             rating == Quality(events, warnings, pending)
         IN /\ warnings \cap ErrorWarnings # {} => rating = "poor"
            /\ rating = "excellent" =>
                  warnings \cap {"W004", "W005", "W006", "W008"} = {}
  <1> DEFINE warnings == Warnings(events, pending, long)
  <1>1. /\ "W004" \in warnings => "recovery_checkpoint_created" \in Types(events)
        /\ "W005" \in warnings => Freshness(events) = "reused"
        /\ "W006" \in warnings => Freshness(events) = "absent"
        /\ "W008" \in warnings => pending # {} /\ events # <<>>
    BY WarningsOf
  <1> HIDE DEF warnings
  <1>2. warnings \cap ErrorWarnings # {} => Quality(events, warnings, pending) = "poor"
    BY <1>1 DEF ErrorWarnings, Quality
  <1>3. ASSUME Quality(events, warnings, pending) = "excellent"
        PROVE  /\ pending = {} /\ "recovery_checkpoint_created" \notin Types(events)
               /\ Freshness(events) \notin {"reused", "absent"}
    BY <1>3 DEF Quality
  <1> QED
    BY <1>1, <1>2, <1>3 DEF warnings

\* Whatever log the recorders leave, also after they have overwritten each other, and whatever
\* a report is asked for, its rating and its warnings agree, though the code computes them apart.
THEOREM RatingAgreesHolds == Spec => []RatingAgrees
  <1>1. RatingAgrees
    BY RatingOfWarnings DEF RatingAgrees
  <1> QED
    BY <1>1, PTL

\* The rating, with the warnings left out: the one error among them is that a session is pending.
LEMMA RatingCases ==
  ASSUME NEW events, NEW pending, NEW long, events # <<>>
  PROVE  RatingOf(events, pending, long) =
           IF \/ pending # {} \/ "recovery_checkpoint_failed" \in Types(events)
              \/ Freshness(events) = "absent" /\ ~HasCheckpoint(events)
           THEN "poor"
           ELSE IF \/ Types(events) \cap {"session_interrupted", "session_timed_out",
                                          "recovery_checkpoint_created"} # {}
                   \/ Freshness(events) \in {"reused", "absent"}
           THEN "degraded"
           ELSE IF /\ Completed(events) /\ Freshness(events) = "current" /\ HasCheckpoint(events)
                   /\ "progress_report_submitted" \in Types(events)
           THEN "excellent"
           ELSE IF HasCheckpoint(events) \/ Completed(events) THEN "good" ELSE "degraded"
  <1> DEFINE warnings == Warnings(events, pending, long)
  <1>1. "W008" \in warnings => pending # {}
    BY WarningsOf
  <1> HIDE DEF warnings
  <1>2. warnings \cap ErrorWarnings # {} => pending # {}
    BY <1>1 DEF ErrorWarnings
  <1>3. RatingOf(events, pending, long) = Quality(events, warnings, pending)
    BY DEF RatingOf, warnings
  <1> QED
    BY <1>2, <1>3 DEF Quality

\* One event more of ordinary work.
LEMMA OneMore ==
  ASSUME NEW before, NEW after, IsSeq(before), IsSeq(after), after # <<>>, Front(after) = before,
         Ordinary(Last(after))
  PROVE  /\ Types(after) = Types(before) \cup {Last(after).type}
         /\ Freshness(after) \in {"current", Freshness(before)}
  <1> DEFINE n == Len(before)
             e == Last(after)
  <1>1. /\ n \in Nat /\ Len(after) = n + 1 /\ DOMAIN before = 1..n /\ DOMAIN after = 1..(n + 1)
        /\ \A i \in 1..n : after[i] = before[i]
        /\ after[n + 1] = e
    <2>1. /\ Len(after) \in Nat /\ DOMAIN after = 1..Len(after) /\ Len(after) # 0
          /\ n \in Nat /\ DOMAIN before = 1..n
      BY SeqFacts
    <2>2. PICK S : after \in Seq(S)
      BY DEF IsSeq
    <2>3. \A i \in 1..(Len(after) - 1) : after[i] \in S
      BY <2>1, <2>2, ElementOfSeq
    <2>4. /\ Len(SubSeq(after, 1, Len(after) - 1))
               = IF 1 <= Len(after) - 1 THEN (Len(after) - 1) - 1 + 1 ELSE 0
          /\ \A i \in 1..((Len(after) - 1) - 1 + 1) :
                SubSeq(after, 1, Len(after) - 1)[i] = after[(1 + i) - 1]
      BY <2>1, <2>3, SubSeqProperties
    <2>5. before = SubSeq(after, 1, Len(after) - 1)
      BY DEF Front
    <2>6. n = Len(after) - 1 /\ \A i \in 1..n : before[i] = after[(1 + i) - 1]
      BY <2>1, <2>4, <2>5
    <2>7. \A i \in 1..n : (1 + i) - 1 = i
      OBVIOUS
    <2> QED
      BY <2>1, <2>6, <2>7 DEF Last
  <1> HIDE DEF n, e
  <1>2. \A i \in 1..(n + 1) : i \in 1..n \/ i = n + 1
    BY <1>1
  <1>3. n + 1 \in 1..(n + 1) /\ \A i \in 1..n : i \in 1..(n + 1)
    BY <1>1
  <1>4. Types(after) = Types(before) \cup {e.type}
    BY <1>1, <1>2, <1>3 DEF Types
  <1> DEFINE known == {i \in DOMAIN before : before[i].fresh # None}
             now == {i \in DOMAIN after : after[i].fresh # None}
  <1>5. Freshness(before) = (IF known = {} THEN "unknown" ELSE before[Max(known)].fresh)
        /\ Freshness(after) = (IF now = {} THEN "unknown" ELSE after[Max(now)].fresh)
    BY DEF Freshness
  <1>6. e.fresh \in {None, "current"}
    BY DEF Ordinary, e
  <1>7. CASE e.fresh # None
    <2>1. n + 1 \in now /\ \A i \in now : i \in Nat /\ n + 1 >= i
      BY <1>1, <1>3, <1>7
    <2>2. Max(now) = n + 1
      BY <1>1, <2>1 DEF Max
    <2>3. Freshness(after) = "current"
      BY <1>1, <1>5, <1>6, <1>7, <2>1, <2>2
    <2> QED
      BY <1>4, <2>3 DEF e
  <1>8. CASE e.fresh = None
    <2>1. now = known
      BY <1>1, <1>2, <1>3, <1>8
    <2>2. known # {} => Max(known) \in 1..n
      <3> SUFFICES ASSUME known # {} PROVE Max(known) \in known
        BY <1>1
      <3>1. known \in SUBSET (1..n)
        BY <1>1
      <3> HIDE DEF known
      <3>2. Cardinality(known) \in Nat /\ IsFiniteSet(known)
        BY <1>1, <3>1, RankFacts
      <3> DEFINE top == Place(known, Cardinality(known))
      <3>3. /\ \A i \in 1..Cardinality(known) : Place(known, i) \in known
            /\ \A i, j \in 1..Cardinality(known) : i < j => Place(known, i) < Place(known, j)
            /\ \A k \in known : \E i \in 1..Cardinality(known) : Place(known, i) = k
        BY <1>1, <3>1, PlaceFacts
      <3>4. Cardinality(known) \in 1..Cardinality(known)
        BY <3>2, FS_EmptySet
      <3>5. top \in known /\ \A k \in known : top >= k
        <4> SUFFICES ASSUME NEW k \in known PROVE top \in known /\ top >= k
          BY <3>3, <3>4
        <4>1. PICK i \in 1..Cardinality(known) : Place(known, i) = k
          BY <3>3
        <4>2. i = Cardinality(known) \/ i < Cardinality(known)
          BY <3>2
        <4>3. top \in known /\ (top = k \/ k < top)
          BY <3>3, <3>4, <4>1, <4>2
        <4>4. top \in Nat /\ k \in Nat
          <5>1. \A j \in 1..n : j \in Nat
            OBVIOUS
          <5> HIDE DEF top
          <5> QED
            BY <3>1, <4>3, <5>1
        <4> QED
          BY <4>3, <4>4
      <3> HIDE DEF top
      <3> QED
        BY <3>5 DEF Max
    <2>3. Freshness(after) = Freshness(before)
      BY <1>1, <1>5, <2>1, <2>2
    <2> QED
      BY <1>4, <2>3 DEF e
  <1> QED
    BY <1>7, <1>8

LEMMA RatingKept ==
  ASSUME NEW before, NEW after, IsSeq(before), IsSeq(after), after # <<>>, Front(after) = before,
         Ordinary(Last(after)), NEW pending
  PROVE  Rank[RatingOf(after, pending, {})] >= Rank[RatingOf(before, pending, {})]
  <1> DEFINE type == Last(after).type
             was == RatingOf(before, pending, {})
             is == RatingOf(after, pending, {})
  <1>1. Types(after) = Types(before) \cup {type} /\ Freshness(after) \in {"current", Freshness(before)}
    BY OneMore
  <1>2. type \notin {"recovery_checkpoint_failed", "session_interrupted", "session_timed_out",
                     "recovery_checkpoint_created"}
    BY DEF Ordinary, TaskActivity
  <1> HIDE DEF type
  <1>3. \A events : IsSeq(events) => (HasCheckpoint(events) <=>
          Types(events) \cap {"checkpoint_created", "recovery_checkpoint_created", "task_finished"} # {})
    BY DEF HasCheckpoint, Types
  <1>4. /\ HasCheckpoint(before) => HasCheckpoint(after)
        /\ Completed(before) => Completed(after)
    BY <1>1, <1>3 DEF Completed
  <1>5. is \in {"poor", "degraded", "good", "excellent"}
    BY RatingCases
  <1>6. CASE before = <<>>
    <2>1. was = "unknown"
      BY <1>6 DEF RatingOf, Quality
    <2> QED
      BY <1>5, <2>1 DEF Rank
  <1>7. CASE before # <<>>
    <2>1. was \in {"poor", "degraded", "good", "excellent"}
      BY <1>7, RatingCases
    <2>2. was # "poor" => is # "poor"
      <3> SUFFICES ASSUME was # "poor" PROVE is # "poor"
        OBVIOUS
      <3>1. /\ pending = {} /\ "recovery_checkpoint_failed" \notin Types(before)
            /\ ~(Freshness(before) = "absent" /\ ~HasCheckpoint(before))
        BY <1>7, RatingCases
      <3>2. /\ "recovery_checkpoint_failed" \notin Types(after)
            /\ ~(Freshness(after) = "absent" /\ ~HasCheckpoint(after))
        BY <1>1, <1>2, <1>4, <3>1
      <3> QED
        BY <3>1, <3>2, RatingCases
    <2>3. was \in {"good", "excellent"} => is \in {"good", "excellent"}
      <3> SUFFICES ASSUME was \in {"good", "excellent"} PROVE is \in {"good", "excellent"}
        OBVIOUS
      <3>1. /\ Types(before) \cap {"session_interrupted", "session_timed_out",
                                   "recovery_checkpoint_created"} = {}
            /\ Freshness(before) \notin {"reused", "absent"}
            /\ HasCheckpoint(before) \/ Completed(before)
        BY <1>7, RatingCases
      <3>2. /\ Types(after) \cap {"session_interrupted", "session_timed_out",
                                  "recovery_checkpoint_created"} = {}
            /\ Freshness(after) \notin {"reused", "absent"}
            /\ HasCheckpoint(after) \/ Completed(after)
        BY <1>1, <1>2, <1>4, <3>1
      <3>3. is # "poor"
        BY <2>2
      <3> QED
        BY <3>2, <3>3, RatingCases
    <2>4. was = "excellent" => is = "excellent"
      <3> SUFFICES ASSUME was = "excellent" PROVE is = "excellent"
        OBVIOUS
      <3>1. /\ Types(before) \cap {"session_interrupted", "session_timed_out",
                                   "recovery_checkpoint_created"} = {}
            /\ Completed(before) /\ Freshness(before) = "current" /\ HasCheckpoint(before)
            /\ "progress_report_submitted" \in Types(before)
        BY <1>7, RatingCases
      <3>2. /\ Types(after) \cap {"session_interrupted", "session_timed_out",
                                  "recovery_checkpoint_created"} = {}
            /\ Completed(after) /\ Freshness(after) = "current" /\ HasCheckpoint(after)
            /\ "progress_report_submitted" \in Types(after)
        BY <1>1, <1>2, <1>4, <3>1
      <3>3. is # "poor"
        BY <2>2
      <3> QED
        BY <3>2, <3>3, RatingCases
    <2> HIDE DEF was, is
    <2> QED
      BY <1>5, <2>1, <2>2, <2>3, <2>4 DEF Rank, was, is
  <1> QED
    BY <1>6, <1>7

\* What a report selects is a sequence.
LEMMA SelectedSeq ==
  ASSUME NEW s, IsSeq(s), NEW req, req.limit \in Nat
  PROVE  IsSeq(Selected(s, req))
  <1> DEFINE matching == {s[i].session : i \in {j \in DOMAIN s : s[j].task = req.task}}
             at == {j \in DOMAIN s :
                      /\ \/ req.task \in {None, s[j].task}
                         \/ s[j].session \in matching \ {None}
                      /\ req.session \in {None, s[j].session}
                      /\ req.host \in {None, s[j].host}}
             found == Among(s, at)
             from == Len(found) - req.limit + 1
             first == IF from < 1 THEN 1 ELSE from
  <1>1. Selected(s, req) = SubSeq(found, first, Len(found))
    BY DEF Selected
  <1>2. at \in SUBSET (1..Len(s))
    BY SeqFacts
  <1> HIDE DEF at
  <1>3. IsSeq(found)
    BY <1>2, AmongFacts
  <1> HIDE DEF found
  <1>4. PICK S : found \in Seq(S)
    BY <1>3 DEF IsSeq
  <1>5. first \in Int /\ first >= 1 /\ Len(found) \in Int
    BY <1>3, SeqFacts
  <1> HIDE DEF first
  <1>6. \A i \in first..Len(found) : found[i] \in S
    BY <1>4, <1>5, ElementOfSeq
  <1>7. SubSeq(found, first, Len(found)) \in Seq(S)
    BY <1>5, <1>6, SubSeqProperties
  <1> QED
    BY <1>1, <1>7 DEF IsSeq

\* No event of ordinary work, written by whatever recorder, lowers the rating of the history.
THEOREM WorkKeepsRatingHolds == Spec => WorkKeepsRating
  <1> DEFINE Step == LET before == Selected(Log, Everything)
                         after == Selected(store'.events, Everything)
                         pending == SelectedPending(Journal, Everything)
                     IN after # <<>> /\ Front(after) = before /\ Ordinary(Last(after)) =>
                          Rank[RatingOf(after, pending, {})] >= Rank[RatingOf(before, pending, {})]
  <1>1. EventsInv /\ EventsInv' => Step
    <2> SUFFICES ASSUME EventsInv, EventsInv' PROVE Step
      OBVIOUS
    <2>1. IsSeq(Log) /\ IsSeq(store'.events)
      BY DEF EventsInv, LogType, Sound, Log, IsSeq
    <2>2. Everything.limit \in Nat
      BY StoreAssumption DEF Everything
    <2>3. IsSeq(Selected(Log, Everything)) /\ IsSeq(Selected(store'.events, Everything))
      BY <2>1, <2>2, SelectedSeq
    <2> QED
      BY <2>3, RatingKept
  <1>2. EventsInv /\ EventsInv' => [Step]_store
    BY <1>1
  <1> HIDE DEF Step
  <1>3. Spec => [][Step]_store
    BY <1>2, EventsInvariant, PTL
  <1> QED
    BY <1>3 DEF Step, WorkKeepsRating
===============================================================================
