------------------------- MODULE TermHistoryProofs --------------------------
(***************************************************************************)
(* What the operators of TermHistory compute, for every history and LSN.   *)
(***************************************************************************)
EXTENDS TermHistory, FiniteSetTheorems, SequenceTheorems, TLAPS

-----------------------------------------------------------------------------
(* Facts about the operators of TermHistory, for every history and LSN.    *)
(* The definitions choose the end of a longest prefix with CHOOSE; that    *)
(* such an end exists is a maximum over a bounded set of naturals.         *)

(* Sets of naturals have a least element, bounded ones a greatest.         *)
LEMMA LeastNatural ==
    ASSUME NEW S \in SUBSET Nat, S # {}
    PROVE  \E m \in S : \A x \in S : m <= x
<1> DEFINE R == OpToRel(<, Nat)
<1>1. IsWellFoundedOn(R, Nat)
  BY NatLessThanWellFounded
<1>2. PICK m \in S : \A y \in S : <<y, m>> \notin R
  <2> HIDE DEF R
  <2> QED BY <1>1, WFMin
<1>3. \A y \in S : y \in Nat /\ m \in Nat /\ ~(y < m)
  BY <1>2 DEF OpToRel
<1> QED
  BY <1>3

(* A bounded set of naturals that is not empty has a greatest element.     *)
LEMMA GreatestNatural ==
    ASSUME NEW n \in Nat, NEW S \in SUBSET (0..n), S # {}
    PROVE  \E m \in S : \A x \in S : x <= m
<1> DEFINE D == {n - x : x \in S}
<1>1. \A x \in S : x \in 0..n
  OBVIOUS
<1>2. D \in SUBSET Nat /\ D # {}
  <2>1. \A x \in S : n - x \in Nat
    BY <1>1
  <2> QED BY <2>1
<1>3. PICK d \in D : \A y \in D : d <= y
  <2> HIDE DEF D
  <2> QED BY <1>2, LeastNatural
<1>4. PICK m \in S : d = n - m
  BY <1>3
<1>5. \A x \in S : n - m <= n - x
  BY <1>3, <1>4
<1> QED
  BY <1>1, <1>4, <1>5

-----------------------------------------------------------------------------
(* UpTo returns a prefix of the history, of entries that begin no later    *)
(* than the LSN, and the entry after the prefix begins later.              *)
LEMMA UpToIsPrefix ==
    ASSUME NEW E, \A e \in E : e.lsn \in Nat,
           NEW th \in Seq(E), NEW lsn \in Nat
    PROVE  \E n \in 0..Len(th) :
              /\ UpTo(th, lsn) = SubSeq(th, 1, n)
              /\ \A i \in 1..n : th[i].lsn <= lsn
              /\ n < Len(th) => th[n + 1].lsn > lsn
<1> DEFINE P(n) == \A i \in 1..n : th[i].lsn <= lsn
           S == {n \in 0..Len(th) : P(n)}
           Q(n) == P(n) /\ (n < Len(th) => th[n + 1].lsn > lsn)
<1>1. Len(th) \in Nat /\ \A i \in 1..Len(th) : th[i].lsn \in Nat
  OBVIOUS
<1>2. 0 \in S
  BY <1>1
<1>3. PICK m \in S : \A x \in S : x <= m
  <2>1. S \in SUBSET (0..Len(th)) /\ S # {}
    BY <1>2
  <2> HIDE DEF S
  <2> QED BY <1>1, <2>1, GreatestNatural
<1>4. m \in 0..Len(th) /\ P(m)
  OBVIOUS
<1>5. ASSUME m < Len(th), ~(th[m + 1].lsn > lsn)
      PROVE  FALSE
  <2>1. m + 1 \in 0..Len(th) /\ m + 1 \in 1..Len(th)
    BY <1>1, <1>4, <1>5
  <2>2. th[m + 1].lsn <= lsn
    BY <1>1, <1>5, <2>1
  <2>3. \A i \in 1..(m + 1) : i \in 1..m \/ i = m + 1
    BY <1>4
  <2>4. P(m + 1)
    BY <1>4, <2>2, <2>3
  <2>5. m + 1 \in S
    BY <2>1, <2>4
  <2> QED BY <1>3, <1>4, <2>5
<1>6. \E n \in 0..Len(th) : Q(n)
  BY <1>4, <1>5
<1>7. UpTo(th, lsn) = SubSeq(th, 1, CHOOSE n \in 0..Len(th) : Q(n))
  BY DEF UpTo
<1>8. Q(CHOOSE n \in 0..Len(th) : Q(n)) /\ (CHOOSE n \in 0..Len(th) : Q(n)) \in 0..Len(th)
  <2> HIDE DEF Q
  <2> QED BY <1>6
<1> QED
  BY <1>7, <1>8

(* What is used of UpTo: it is a history again, and if it is not empty the *)
(* LSN is not before the first term.                                       *)
LEMMA UpToType ==
    ASSUME NEW E, \A e \in E : e.lsn \in Nat,
           NEW th \in Seq(E), NEW lsn \in Nat
    PROVE  /\ UpTo(th, lsn) \in Seq(E)
           /\ UpTo(th, lsn) # <<>> => th # <<>> /\ th[1].lsn <= lsn
<1>1. PICK n \in 0..Len(th) : /\ UpTo(th, lsn) = SubSeq(th, 1, n)
                              /\ \A i \in 1..n : th[i].lsn <= lsn
  BY UpToIsPrefix
<1>2. SubSeq(th, 1, n) \in Seq(E) /\ (n = 0 => SubSeq(th, 1, n) = <<>>)
  OBVIOUS
<1> QED
  BY <1>1, <1>2

-----------------------------------------------------------------------------
(* The common part of two histories ends within both, where their terms    *)
(* first differ.                                                           *)
LEMMA LastCommonIdxType ==
    ASSUME NEW E, NEW a \in Seq(E), NEW b \in Seq(E)
    PROVE  /\ LastCommonIdx(a, b) \in 0..Len(a)
           /\ LastCommonIdx(a, b) \in 0..Len(b)
           /\ \A i \in 1..LastCommonIdx(a, b) : a[i].term = b[i].term
           /\ LastCommonIdx(a, b) < Len(a) /\ LastCommonIdx(a, b) < Len(b) =>
                a[LastCommonIdx(a, b) + 1].term # b[LastCommonIdx(a, b) + 1].term
<1> DEFINE N == Lower(Len(a), Len(b))
           P(n) == \A i \in 1..n : a[i].term = b[i].term
           S == {n \in 0..N : P(n)}
           Q(n) == P(n) /\ (n < N => a[n + 1].term # b[n + 1].term)
<1>1. N \in Nat /\ N <= Len(a) /\ N <= Len(b)
  BY DEF Lower
<1>2. 0 \in S
  BY <1>1
<1>3. PICK m \in S : \A x \in S : x <= m
  <2>1. S \in SUBSET (0..N) /\ S # {}
    BY <1>2
  <2> HIDE DEF S, N
  <2> QED BY <1>1, <2>1, GreatestNatural
<1>4. m \in 0..N /\ P(m)
  OBVIOUS
<1>5. ASSUME m < N, a[m + 1].term = b[m + 1].term
      PROVE  FALSE
  <2> HIDE DEF N
  <2>1. m + 1 \in 0..N
    BY <1>1, <1>4, <1>5
  <2>2. \A i \in 1..(m + 1) : i \in 1..m \/ i = m + 1
    BY <1>1, <1>4
  <2>3. P(m + 1)
    BY <1>4, <1>5, <2>2
  <2>4. m + 1 \in S
    BY <2>1, <2>3
  <2>5. m + 1 <= m
    BY <1>3, <2>4
  <2> QED BY <1>1, <1>4, <2>5
<1>6. \E n \in 0..N : Q(n)
  BY <1>4, <1>5
<1>7. LastCommonIdx(a, b) = CHOOSE n \in 0..N : Q(n)
  BY DEF LastCommonIdx
<1>8. Q(CHOOSE n \in 0..N : Q(n)) /\ (CHOOSE n \in 0..N : Q(n)) \in 0..N
  <2> HIDE DEF Q, N
  <2> QED BY <1>6
<1>9. /\ P(LastCommonIdx(a, b)) /\ LastCommonIdx(a, b) \in 0..N
      /\ LastCommonIdx(a, b) < N =>
           a[LastCommonIdx(a, b) + 1].term # b[LastCommonIdx(a, b) + 1].term
  BY <1>7, <1>8
<1>10. ASSUME LastCommonIdx(a, b) < Len(a), LastCommonIdx(a, b) < Len(b)
       PROVE  LastCommonIdx(a, b) < N
  BY <1>10 DEF Lower
<1> QED
  <2> HIDE DEF N
  <2> QED BY <1>1, <1>9, <1>10

(* The entries of a history are records with an LSN.                       *)
LEMMA EntriesType ==
    ASSUME NEW T, NEW L, NEW th \in Seq([term : T, lsn : L]), NEW i \in 1..Len(th)
    PROVE  th[i].term \in T /\ th[i].lsn \in L
<1> DEFINE E == [term : T, lsn : L]
<1>1. th[i] \in E
  <2> HIDE DEF E
  <2>1. th \in Seq(E)
    BY DEF E
  <2> QED BY <2>1, ElementOfSeq
<1> QED BY <1>1

(* The position to stream from is a valid LSN not above the highest one    *)
(* there is, for a proposer whose own term ends its history.               *)
LEMMA StartStreamingAtType ==
    ASSUME NEW T, NEW M \in Nat,
           NEW pth \in Seq([term : T, lsn : 1..M]), pth # <<>>,
           NEW pt, HighestTerm(pth) = pt,
           NEW th \in Seq([term : T, lsn : 1..M]),
           NEW flush \in 0..M, th # <<>> => flush >= 1
    PROVE  StartStreamingAt(pth, pt, th, flush) \in 1..M
<1> DEFINE idx == LastCommonIdx(pth, th)
<1>1. idx \in 0..Len(pth) /\ idx \in 0..Len(th)
  BY LastCommonIdxType
<1>2. Len(pth) \in Nat \ {0} /\ Len(th) \in Nat
  OBVIOUS
<1>3. pth[1].lsn \in 1..M
  <2>1. 1 \in 1..Len(pth)
    BY <1>2
  <2> QED BY <2>1, EntriesType
<1>4. CASE idx = 0
  BY <1>3, <1>4 DEF StartStreamingAt
<1>5. CASE idx # 0
  <2>1. flush \in 1..M
    BY <1>1, <1>2, <1>5
  <2>2. CASE pth[idx].term = pt
    BY <1>5, <2>1, <2>2 DEF StartStreamingAt
  <2>3. CASE pth[idx].term # pt
    <3>1. idx < Len(pth)
      BY <1>1, <1>2, <1>5, <2>3 DEF HighestTerm
    <3>2. idx + 1 \in 1..Len(pth)
      BY <1>1, <1>2, <3>1
    <3>3. pth[idx + 1].lsn \in 1..M
      BY <3>2, EntriesType
    <3>4. (IF idx < Len(th) THEN th[idx + 1].lsn ELSE flush) \in 1..M
      <4>1. CASE idx < Len(th)
        <5>1. idx + 1 \in 1..Len(th)
          BY <1>1, <1>2, <4>1
        <5> QED BY <4>1, <5>1, EntriesType
      <4>2. CASE ~(idx < Len(th))
        BY <2>1, <4>2
      <4> QED BY <4>1, <4>2
    <3> QED
      BY <1>5, <2>3, <3>3, <3>4 DEF StartStreamingAt, Lower
  <2> QED BY <2>2, <2>3
<1> QED BY <1>4, <1>5

-----------------------------------------------------------------------------
(* The search for the common point, for histories of any length.           *)

Entries == [term : Nat, lsn : Nat \ {0}]

(* Each term once, in order, at LSNs that never go back.                   *)
Ordered(th) ==
    /\ th \in Seq(Entries)
    /\ \A i \in 2..Len(th) : th[i - 1].term < th[i].term /\ th[i - 1].lsn <= th[i].lsn

(* The entries are numbers.                                                *)
LEMMA EntryNumbers ==
    ASSUME NEW th, Ordered(th), NEW i \in 1..Len(th)
    PROVE  th[i].term \in Nat /\ th[i].lsn \in Nat /\ th[i].lsn >= 1
<1>1. th[i].term \in Nat /\ th[i].lsn \in Nat \ {0}
  BY EntriesType DEF Ordered, Entries
<1> QED BY <1>1

(* The order holds between any two entries: otherwise take the first entry *)
(* that breaks it.                                                         *)
LEMMA OrderedAny ==
    ASSUME NEW th, Ordered(th), NEW i \in 1..Len(th), NEW j \in 1..Len(th), i < j
    PROVE  th[i].term < th[j].term /\ th[i].lsn <= th[j].lsn
<1> DEFINE Good(k) == th[i].term < th[k].term /\ th[i].lsn <= th[k].lsn
           S == {k \in 1..Len(th) : i < k /\ ~Good(k)}
<1>0. Len(th) \in Nat
  BY DEF Ordered
<1>1. SUFFICES ASSUME S # {} PROVE FALSE
  <2>1. j \notin S
    BY <1>1
  <2> QED BY <2>1
<1>2. S \in SUBSET Nat
  BY <1>0
<1>3. PICK k \in S : \A x \in S : k <= x
  <2> HIDE DEF S
  <2> QED BY <1>1, <1>2, LeastNatural
<1>4. k \in 1..Len(th) /\ i < k /\ ~Good(k)
  OBVIOUS
<1>5. k \in 2..Len(th) /\ k - 1 \in 1..Len(th) /\ k - 1 < k /\ i <= k - 1
  BY <1>0, <1>4
<1>6. th[k - 1].term < th[k].term /\ th[k - 1].lsn <= th[k].lsn
  BY <1>5 DEF Ordered
<1>7. /\ th[k].term \in Nat /\ th[k].lsn \in Nat /\ th[k - 1].term \in Nat
      /\ th[k - 1].lsn \in Nat /\ th[i].term \in Nat /\ th[i].lsn \in Nat
  BY <1>4, <1>5, EntryNumbers
<1>8. k - 1 \notin S
  <2> HIDE DEF S
  <2> QED BY <1>0, <1>3, <1>5
<1>9. CASE i = k - 1
  BY <1>4, <1>6, <1>7, <1>9
<1>10. CASE i # k - 1
  <2>1. i < k - 1
    BY <1>0, <1>5, <1>10
  <2>2. Good(k - 1)
    BY <1>5, <1>8, <2>1
  <2> QED BY <1>4, <1>6, <1>7, <2>2
<1> QED BY <1>9, <1>10

(* The term at an LSN that is not before the history is that of the last   *)
(* entry that begins no later.                                             *)
LEMMA TermAtIs ==
    ASSUME NEW th, Ordered(th), NEW l \in Nat, th # <<>>, th[1].lsn <= l
    PROVE  \E n \in 1..Len(th) :
              /\ TermAt(th, l) = th[n].term
              /\ \A i \in 1..n : th[i].lsn <= l
              /\ \A i \in 1..Len(th) : n < i => th[i].lsn > l
<1>0. th \in Seq(Entries) /\ Len(th) \in Nat /\ Len(th) >= 1
  BY DEF Ordered
<1>1. PICK n \in 0..Len(th) :
        /\ UpTo(th, l) = SubSeq(th, 1, n)
        /\ \A i \in 1..n : th[i].lsn <= l
        /\ n < Len(th) => th[n + 1].lsn > l
  <2>1. \A e \in Entries : e.lsn \in Nat
    BY DEF Entries
  <2> QED BY <1>0, <2>1, UpToIsPrefix
<1>2. n # 0
  <2>1. 1 \in 1..Len(th)
    BY <1>0
  <2>2. th[1].lsn \in Nat
    BY <2>1, EntryNumbers
  <2> QED BY <1>0, <1>1, <2>2
<1>3. n \in 1..Len(th)
  BY <1>0, <1>2
<1>4. TermAt(th, l) = th[n].term
  <2>1. Len(SubSeq(th, 1, n)) = n /\ SubSeq(th, 1, n)[n] = th[n] /\ SubSeq(th, 1, n) # <<>>
    BY <1>0, <1>3
  <2> QED BY <1>1, <2>1 DEF TermAt, HighestTerm
<1>5. ASSUME NEW i \in 1..Len(th), n < i
      PROVE  th[i].lsn > l
  <2>1. n + 1 \in 1..Len(th) /\ (n + 1 < i \/ n + 1 = i)
    BY <1>0, <1>3, <1>5
  <2>2. th[n + 1].lsn > l
    BY <1>0, <1>1, <1>3, <2>1
  <2>3. th[i].lsn \in Nat /\ th[n + 1].lsn \in Nat
    BY <2>1, EntryNumbers
  <2>4. CASE n + 1 = i
    BY <2>2, <2>4
  <2>5. CASE n + 1 < i
    BY <2>1, <2>2, <2>3, <2>5, OrderedAny
  <2> QED BY <2>1, <2>4, <2>5
<1> QED BY <1>1, <1>3, <1>4, <1>5

(* A history that is cut at an LSN keeps the entries that begin no later.  *)
LEMMA UpToOrdered ==
    ASSUME NEW th, Ordered(th), NEW l \in Nat
    PROVE  LET u == UpTo(th, l)
           IN  /\ u \in Seq(Entries) /\ Len(u) \in 0..Len(th)
               /\ \A i \in 1..Len(u) : u[i] = th[i] /\ th[i].lsn <= l
               /\ \A i \in 1..Len(th) : Len(u) < i => th[i].lsn > l
<1>0. th \in Seq(Entries) /\ Len(th) \in Nat
  BY DEF Ordered
<1>1. PICK n \in 0..Len(th) :
        /\ UpTo(th, l) = SubSeq(th, 1, n)
        /\ \A i \in 1..n : th[i].lsn <= l
        /\ n < Len(th) => th[n + 1].lsn > l
  <2>1. \A e \in Entries : e.lsn \in Nat
    BY DEF Entries
  <2> QED BY <1>0, <2>1, UpToIsPrefix
<1>2. /\ SubSeq(th, 1, n) \in Seq(Entries) /\ Len(SubSeq(th, 1, n)) = n
      /\ \A i \in 1..n : SubSeq(th, 1, n)[i] = th[i]
  BY <1>0
<1>3. ASSUME NEW i \in 1..Len(th), n < i
      PROVE  th[i].lsn > l
  <2>1. n + 1 \in 1..Len(th) /\ (n + 1 < i \/ n + 1 = i)
    BY <1>0, <1>3
  <2>2. th[n + 1].lsn > l
    BY <1>0, <1>1, <2>1
  <2>3. th[i].lsn \in Nat /\ th[n + 1].lsn \in Nat
    BY <2>1, EntryNumbers
  <2>4. CASE n + 1 = i
    BY <2>2, <2>4
  <2>5. CASE n + 1 < i
    BY <2>1, <2>2, <2>3, <2>5, OrderedAny
  <2> QED BY <2>1, <2>4, <2>5
<1> QED BY <1>0, <1>1, <1>2, <1>3

(* find_highest_common_point and SendProposerElected find the same.        *)
LEMMA SearchesAgree ==
    ASSUME NEW p, Ordered(p), p # <<>>, NEW s, Ordered(s), NEW end \in Nat,
           s # <<>> => s[1].lsn <= end
    PROVE  LET u == UpTo(s, end)
               point == FindHighestCommonPoint(p, u, end)
           IN  StartStreamingAt(p, HighestTerm(p), u, end) = IF point = 0 THEN p[1].lsn ELSE point
<1> DEFINE u == UpTo(s, end)
           idx == LastCommonIdx(p, u)
           skTermEnd == IF idx < Len(u) THEN u[idx + 1].lsn ELSE end
           point == FindHighestCommonPoint(p, u, end)
<1>0. p \in Seq(Entries) /\ Len(p) \in Nat /\ Len(p) >= 1
  BY DEF Ordered
<1>1. /\ u \in Seq(Entries) /\ Len(u) \in 0..Len(s) /\ Len(s) \in Nat
      /\ \A i \in 1..Len(u) : u[i] = s[i] /\ s[i].lsn <= end
  BY UpToOrdered DEF Ordered
<1> HIDE DEF u
<1>2. idx \in 0..Len(p) /\ idx \in 0..Len(u)
  BY <1>0, <1>1, LastCommonIdxType
<1>3. point = IF idx = 0 THEN 0 ELSE IF idx = Len(p) THEN end ELSE Lower(p[idx + 1].lsn, skTermEnd)
  BY DEF FindHighestCommonPoint
<1>4. StartStreamingAt(p, HighestTerm(p), u, end)
        = IF idx = 0 THEN p[1].lsn
          ELSE IF p[idx].term = p[Len(p)].term THEN end ELSE Lower(p[idx + 1].lsn, skTermEnd)
  BY <1>0 DEF StartStreamingAt, HighestTerm
<1> HIDE DEF idx, skTermEnd, point
<1>5. CASE idx = 0
  BY <1>3, <1>4, <1>5 DEF u, point
<1>6. CASE idx # 0
  <2>1. end >= 1
    <3>1. 1 \in 1..Len(u) /\ 1 \in 1..Len(s)
      BY <1>0, <1>1, <1>2, <1>6
    <3> QED BY <1>1, <3>1, EntryNumbers
  <2>2. CASE idx = Len(p)
    BY <1>3, <1>4, <1>6, <2>1, <2>2 DEF u, point
  <2>3. CASE idx # Len(p)
    <3>1. idx \in 1..Len(p) /\ idx + 1 \in 1..Len(p) /\ Len(p) \in 1..Len(p) /\ idx < Len(p)
      BY <1>0, <1>2, <1>6, <2>3
    <3>2. p[idx].term # p[Len(p)].term
      <4>1. p[idx].term < p[Len(p)].term /\ p[idx].term \in Nat
        BY <3>1, OrderedAny, EntryNumbers
      <4> QED BY <4>1
    <3>3. p[idx + 1].lsn \in Nat /\ p[idx + 1].lsn >= 1
      BY <3>1, EntryNumbers
    <3>4. skTermEnd \in Nat /\ skTermEnd >= 1
      <4>1. CASE idx < Len(u)
        <5>1. idx + 1 \in 1..Len(u) /\ idx + 1 \in 1..Len(s)
          BY <1>1, <1>2, <4>1
        <5> QED BY <1>1, <4>1, <5>1, EntryNumbers DEF skTermEnd
      <4>2. CASE ~(idx < Len(u))
        BY <2>1, <4>2 DEF skTermEnd
      <4> QED BY <4>1, <4>2
    <3> QED BY <1>3, <1>4, <1>6, <2>3, <3>2, <3>3, <3>4 DEF u, point, Lower
  <2> QED BY <2>2, <2>3
<1> QED BY <1>5, <1>6

(* A term has one history: two histories with a term in common agree up to *)
(* it.                                                                     *)
OneHistoryPerTerm(a, b) ==
    \A i \in 1..Len(a), j \in 1..Len(b) :
        a[i].term = b[j].term => i = j /\ \A k \in 1..i : a[k] = b[k]

(* The common point is where the WAL that the histories describe begins to *)
(* differ, or where the safekeeper's ends.                                 *)
LEMMA CommonPointIs ==
    ASSUME NEW p, Ordered(p), p # <<>>, NEW s, Ordered(s), s # <<>>,
           NEW end \in Nat, s[1].lsn <= end,
           OneHistoryPerTerm(p, s), p[1].term = s[1].term, HighestTerm(s) <= HighestTerm(p)
    PROVE  LET point == FindHighestCommonPoint(p, UpTo(s, end), end)
           IN  /\ point \in Nat /\ p[1].lsn <= point /\ point <= end /\ p[1].lsn = s[1].lsn
               /\ \A l \in Nat : p[1].lsn <= l /\ l < point => TermAt(p, l) = TermAt(s, l)
               /\ point < end => TermAt(p, point) # TermAt(s, point)
<1> DEFINE u == UpTo(s, end)
           idx == LastCommonIdx(p, u)
           skTermEnd == IF idx < Len(u) THEN u[idx + 1].lsn ELSE end
           point == FindHighestCommonPoint(p, u, end)
<1>0. /\ p \in Seq(Entries) /\ Len(p) \in Nat /\ Len(p) >= 1
      /\ s \in Seq(Entries) /\ Len(s) \in Nat /\ Len(s) >= 1
      /\ 1 \in 1..Len(p) /\ 1 \in 1..Len(s)
  BY DEF Ordered
<1>1. /\ u \in Seq(Entries) /\ Len(u) \in 0..Len(s)
      /\ \A i \in 1..Len(u) : u[i] = s[i] /\ s[i].lsn <= end
      /\ \A i \in 1..Len(s) : Len(u) < i => s[i].lsn > end
  BY UpToOrdered
<1> HIDE DEF u
<1>2. /\ idx \in 0..Len(p) /\ idx \in 0..Len(u)
      /\ \A i \in 1..idx : p[i].term = u[i].term
      /\ idx < Len(p) /\ idx < Len(u) => p[idx + 1].term # u[idx + 1].term
  BY <1>0, <1>1, LastCommonIdxType
<1>3. point = IF idx = 0 THEN 0 ELSE IF idx = Len(p) THEN end ELSE Lower(p[idx + 1].lsn, skTermEnd)
  BY DEF FindHighestCommonPoint
<1> HIDE DEF idx, skTermEnd, point
<1>4. 1 <= Len(u) /\ idx >= 1
  <2>1. s[1].lsn \in Nat
    BY <1>0, EntryNumbers
  <2>2. 1 <= Len(u)
    BY <1>0, <1>1, <2>1
  <2>3. idx # 0
    BY <1>0, <1>1, <1>2, <2>2
  <2> QED BY <1>2, <2>2, <2>3
<1>5. \A i \in 1..idx : p[i] = s[i]
  <2>1. idx \in 1..Len(p) /\ idx \in 1..Len(s) /\ idx \in 1..Len(u)
    BY <1>0, <1>1, <1>2, <1>4
  <2>2. p[idx].term = s[idx].term
    BY <1>1, <1>2, <1>4, <2>1
  <2> QED BY <2>1, <2>2 DEF OneHistoryPerTerm
<1>6. p[1] = s[1] /\ p[1].lsn \in Nat /\ p[1].lsn <= end
  BY <1>0, <1>2, <1>4, <1>5, EntryNumbers
(* Neither history has an entry before the point that the other has not.   *)
<1>7. /\ skTermEnd \in Nat /\ p[1].lsn <= skTermEnd /\ skTermEnd <= end
      /\ \A j \in 1..Len(s) : idx < j => skTermEnd <= s[j].lsn
      /\ skTermEnd < end => idx < Len(u) /\ idx + 1 \in 1..Len(s) /\ skTermEnd = s[idx + 1].lsn
  <2>1. CASE idx < Len(u)
    <3>1. idx + 1 \in 1..Len(u) /\ idx + 1 \in 1..Len(s) /\ 1 < idx + 1
      BY <1>0, <1>1, <1>2, <1>4, <2>1
    <3>2. skTermEnd = s[idx + 1].lsn /\ skTermEnd <= end
      BY <1>1, <2>1, <3>1 DEF skTermEnd
    <3>3. s[1].lsn <= s[idx + 1].lsn /\ s[idx + 1].lsn \in Nat
      BY <1>0, <3>1, OrderedAny, EntryNumbers
    <3>4. ASSUME NEW j \in 1..Len(s), idx < j
          PROVE  skTermEnd <= s[j].lsn
      <4>1. idx + 1 = j \/ idx + 1 < j
        BY <1>0, <1>2, <3>4
      <4> QED BY <3>1, <3>2, <3>3, <4>1, OrderedAny
    <3> QED BY <1>6, <2>1, <3>1, <3>2, <3>3, <3>4
  <2>2. CASE ~(idx < Len(u))
    <3>1. skTermEnd = end /\ idx = Len(u)
      BY <1>1, <1>2, <2>2 DEF skTermEnd
    <3>2. ASSUME NEW j \in 1..Len(s), idx < j
          PROVE  end <= s[j].lsn
      BY <1>1, <3>1, <3>2, EntryNumbers
    <3> QED BY <1>6, <3>1, <3>2
  <2> QED BY <2>1, <2>2
<1>8. idx = Len(p) => idx = Len(s)
  <2>1. SUFFICES ASSUME idx = Len(p), idx # Len(s) PROVE FALSE
    OBVIOUS
  <2>2. idx \in 1..Len(s) /\ Len(s) \in 1..Len(s) /\ idx < Len(s)
    BY <1>0, <1>1, <1>2, <1>4, <2>1
  <2>3. s[idx].term < s[Len(s)].term /\ s[idx].term \in Nat /\ s[Len(s)].term \in Nat
    BY <2>2, OrderedAny, EntryNumbers
  <2>4. s[idx].term = p[Len(p)].term
    BY <1>4, <1>5, <2>1, <2>2
  <2> QED BY <1>0, <2>3, <2>4 DEF HighestTerm
<1>9. /\ point \in Nat /\ p[1].lsn <= point /\ point <= skTermEnd
      /\ \A i \in 1..Len(p) : idx < i => point <= p[i].lsn
      /\ point < end => idx < Len(p) /\ (point = p[idx + 1].lsn \/ point = skTermEnd)
  <2>1. CASE idx = Len(p)
    <3>1. point = end /\ skTermEnd = end
      BY <1>1, <1>2, <1>3, <1>4, <1>8, <2>1 DEF skTermEnd
    <3> QED BY <1>0, <1>6, <2>1, <3>1
  <2>2. CASE idx # Len(p)
    <3>1. idx + 1 \in 1..Len(p) /\ 1 < idx + 1 /\ idx < Len(p)
      BY <1>0, <1>2, <1>4, <2>2
    <3>2. p[1].lsn <= p[idx + 1].lsn /\ p[idx + 1].lsn \in Nat
      BY <1>0, <3>1, OrderedAny, EntryNumbers
    <3>3. point = Lower(p[idx + 1].lsn, skTermEnd)
      BY <1>3, <1>4, <2>2
    <3>4. point \in {p[idx + 1].lsn, skTermEnd} /\ point <= p[idx + 1].lsn /\ point <= skTermEnd
      BY <1>7, <3>2, <3>3 DEF Lower
    <3>5. ASSUME NEW i \in 1..Len(p), idx < i
          PROVE  point <= p[i].lsn
      <4>1. idx + 1 = i \/ idx + 1 < i
        BY <1>0, <1>2, <3>5
      <4>2. p[idx + 1].lsn <= p[i].lsn /\ p[i].lsn \in Nat
        BY <3>1, <3>2, <4>1, OrderedAny, EntryNumbers
      <4> QED BY <1>7, <3>2, <3>4, <4>2
    <3> QED BY <1>6, <1>7, <3>1, <3>2, <3>4, <3>5
  <2> QED BY <2>1, <2>2
<1>10. ASSUME NEW l \in Nat, p[1].lsn <= l, l < point
       PROVE  TermAt(p, l) = TermAt(s, l)
  <2>1. PICK n \in 1..Len(p) : /\ TermAt(p, l) = p[n].term
                               /\ \A i \in 1..n : p[i].lsn <= l
                               /\ \A i \in 1..Len(p) : n < i => p[i].lsn > l
    BY <1>10, TermAtIs
  <2>2. PICK m \in 1..Len(s) : /\ TermAt(s, l) = s[m].term
                               /\ \A i \in 1..m : s[i].lsn <= l
                               /\ \A i \in 1..Len(s) : m < i => s[i].lsn > l
    BY <1>6, <1>10, TermAtIs
  <2>3. n \in 1..idx /\ m \in 1..idx
    <3>1. n \in Nat /\ m \in Nat /\ idx \in Nat /\ n >= 1 /\ m >= 1
      BY <1>0, <1>2
    <3>2. p[n].lsn \in Nat /\ s[m].lsn \in Nat /\ p[n].lsn <= l /\ s[m].lsn <= l
      BY <2>1, <2>2, EntryNumbers
    <3>3. ~(idx < n)
      BY <1>9, <1>10, <3>2
    <3>4. ~(idx < m)
      BY <1>7, <1>9, <1>10, <3>2
    <3> QED BY <3>1, <3>3, <3>4
  <2>4. ~(n < m)
    <3>1. SUFFICES ASSUME n < m PROVE FALSE
      OBVIOUS
    <3>2. p[m] = s[m] /\ m \in 1..Len(p) /\ s[m].lsn \in Nat
      BY <1>0, <1>2, <1>5, <2>3, EntryNumbers
    <3> QED BY <2>1, <2>2, <3>1, <3>2
  <2>5. ~(m < n)
    <3>1. SUFFICES ASSUME m < n PROVE FALSE
      OBVIOUS
    <3>2. p[n] = s[n] /\ n \in 1..Len(s) /\ p[n].lsn \in Nat
      BY <1>0, <1>1, <1>2, <1>5, <2>3, EntryNumbers
    <3> QED BY <2>1, <2>2, <3>1, <3>2
  <2>6. n = m
    BY <1>0, <2>4, <2>5
  <2> QED BY <1>5, <2>1, <2>2, <2>3, <2>6
<1>11. ASSUME point < end, TermAt(p, point) = TermAt(s, point)
       PROVE  FALSE
  <2>1. PICK n \in 1..Len(p) : /\ TermAt(p, point) = p[n].term
                               /\ \A i \in 1..n : p[i].lsn <= point
                               /\ \A i \in 1..Len(p) : n < i => p[i].lsn > point
    BY <1>9, TermAtIs
  <2>2. PICK m \in 1..Len(s) : /\ TermAt(s, point) = s[m].term
                               /\ \A i \in 1..m : s[i].lsn <= point
                               /\ \A i \in 1..Len(s) : m < i => s[i].lsn > point
    BY <1>6, <1>9, TermAtIs
  <2>3. n = m /\ \A k \in 1..n : p[k] = s[k]
    BY <1>11, <2>1, <2>2 DEF OneHistoryPerTerm
  <2>4. idx < n
    <3>1. CASE point = p[idx + 1].lsn
      <4>1. idx + 1 \in 1..Len(p)
        BY <1>0, <1>2, <1>9, <1>11
      <4>2. ~(n < idx + 1)
        BY <1>9, <2>1, <3>1, <4>1
      <4> QED BY <1>0, <1>2, <4>2
    <3>2. CASE point = skTermEnd
      <4>1. idx + 1 \in 1..Len(s) /\ point = s[idx + 1].lsn
        BY <1>7, <1>11, <3>2
      <4>2. ~(m < idx + 1)
        BY <1>9, <2>2, <4>1
      <4> QED BY <1>0, <1>2, <2>3, <4>2
    <3> QED BY <1>9, <1>11, <3>1, <3>2
  <2>5. idx + 1 \in 1..n /\ idx + 1 \in 1..Len(p) /\ idx + 1 \in 1..Len(s) /\ idx < Len(p)
    BY <1>0, <1>2, <2>3, <2>4
  <2>6. p[idx + 1] = s[idx + 1] /\ s[idx + 1].lsn <= point
    BY <2>2, <2>3, <2>5
  <2>7. s[idx + 1].lsn \in Nat
    BY <2>5, EntryNumbers
  <2>8. idx + 1 <= Len(u)
    <3>1. ~(Len(u) < idx + 1)
      BY <1>1, <1>9, <1>11, <2>5, <2>6, <2>7
    <3> QED BY <1>0, <1>1, <1>2, <3>1
  <2>9. idx < Len(u) /\ u[idx + 1] = s[idx + 1]
    BY <1>0, <1>1, <1>2, <2>5, <2>8
  <2> QED BY <1>2, <2>5, <2>6, <2>9
<1>12. point <= end
  BY <1>7, <1>9
<1> QED BY <1>6, <1>9, <1>10, <1>11, <1>12 DEF point, u

=============================================================================
