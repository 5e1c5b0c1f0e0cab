------------------------------ MODULE RegistryProofs ------------------------------
(***************************************************************************)
(* The map of class registry implements the registry that the core is      *)
(* modelled with, whatever the bounds of the priorities, the names and the *)
(* number of entries.                                                      *)
(***************************************************************************)
EXTENDS RegistryMap, SequenceTheorems, WellFoundedInduction, TLAPS

\* No two entries have the same priority, and the higher comes first.
Ordered(s) ==
  \A i, j \in 1..Len(s) : i < j => s[i].priority > s[j].priority

Has(s, e) == \E i \in 1..Len(s) : s[i] = e

MapInv == registrations \in Seq(Entry) /\ Ordered(registrations)

-------------------------------------------------------------------------------
(* Induction: a set of natural numbers that is not empty has a least one.  *)
LEMMA LeastNumber ==
  ASSUME NEW T, T \subseteq Nat, T # {}
  PROVE  \E x \in T : \A y \in T : x <= y
<1>1. PICK x \in T : \A y \in T : ~ (<<y, x>> \in OpToRel(<, Nat))
  BY WFMin, NatLessThanWellFounded
<1>2. \A y \in T : ~(y < x)
  BY <1>1 DEF OpToRel
<1> QED BY <1>2

LEMMA EntryType ==
  ASSUME NEW s \in Seq(Entry), NEW i \in 1..Len(s)
  PROVE  s[i].priority \in Priorities /\ s[i].name \in Names
<1>1. s[i] \in Entry
  BY ElementOfSeq
<1> QED BY <1>1 DEF Entry

(* What lower_bound finds.                                                 *)
LEMMA LowerBoundFinds ==
  ASSUME registrations \in Seq(Entry), NEW p \in Int
  PROVE  /\ LowerBound(p) \in 1..(Len(registrations) + 1)
         /\ \A i \in Indices : i < LowerBound(p) => registrations[i].priority > p
         /\ ~IsEnd(LowerBound(p)) => registrations[LowerBound(p)].priority <= p
<1> DEFINE reached == {i \in Indices : registrations[i].priority <= p}
<1>1. \A i \in Indices : registrations[i].priority \in Int
  BY EntryType DEF Indices, Priorities
<1>2. Len(registrations) \in Nat
  BY LenProperties
<1>3. CASE reached = {}
  BY <1>1, <1>2, <1>3 DEF LowerBound, IsEnd, Indices
<1>4. CASE reached # {}
  <2>1. PICK i \in reached : \A j \in reached : i <= j
    BY <1>2, <1>4, LeastNumber, reached \subseteq Nat DEF Indices
  <2>2. LowerBound(p) = CHOOSE k \in reached : \A j \in reached : k <= j
    BY <1>4 DEF LowerBound
  <2>3. LowerBound(p) \in reached /\ \A j \in reached : LowerBound(p) <= j
    BY <2>1, <2>2
  <2> QED
    BY <1>1, <1>2, <2>3 DEF Indices, IsEnd
<1> QED BY <1>3, <1>4

(* InsertAt moves the entries from the position on by one.                 *)
LEMMA InsertAtMoves ==
  ASSUME NEW S, NEW s \in Seq(S), NEW i \in 1..(Len(s) + 1), NEW e \in S
  PROVE  /\ InsertAt(s, i, e) \in Seq(S)
         /\ Len(InsertAt(s, i, e)) = Len(s) + 1
         /\ \A j \in 1..(Len(s) + 1) :
              InsertAt(s, i, e)[j] = IF j < i THEN s[j]
                                     ELSE IF j = i THEN e ELSE s[j - 1]
<1> DEFINE front == SubSeq(s, 1, i - 1)
           back == SubSeq(s, i, Len(s))
<1>1. Len(s) \in Nat /\ i \in Int
  BY LenProperties
<1>2. /\ front \in Seq(S) /\ Len(front) = i - 1
      /\ \A j \in 1..(i - 1) : front[j] = s[j]
  <2>1. \A j \in 1..(i - 1) : s[j] \in S
    BY <1>1, ElementOfSeq
  <2> QED BY <1>1, <2>1, SubSeqProperties
<1>3. /\ back \in Seq(S) /\ Len(back) = Len(s) - i + 1
      /\ \A j \in 1..(Len(s) - i + 1) : back[j] = s[i + j - 1]
  <2>1. \A j \in i..Len(s) : s[j] \in S
    BY <1>1, ElementOfSeq
  <2>2. /\ back \in Seq(S)
        /\ Len(back) = IF i <= Len(s) THEN Len(s) - i + 1 ELSE 0
        /\ \A j \in 1..(Len(s) - i + 1) : back[j] = s[i + j - 1]
    BY <1>1, <2>1, SubSeqProperties
  <2> QED BY <1>1, <2>2
<1> DEFINE start == front \o <<e>>
<1>4. /\ start \in Seq(S) /\ Len(start) = i
      /\ \A j \in 1..i : start[j] = IF j < i THEN s[j] ELSE e
  <2>1. <<e>> \in Seq(S) /\ Len(<<e>>) = 1 /\ <<e>>[1] = e
    OBVIOUS
  <2> HIDE DEF front
  <2>2. /\ start \in Seq(S) /\ Len(start) = Len(front) + 1
        /\ \A j \in 1..(Len(front) + 1) :
             start[j] = IF j <= Len(front) THEN front[j] ELSE <<e>>[j - Len(front)]
    BY <1>2, <2>1, ConcatProperties
  <2> HIDE DEF start
  <2>3. \A j \in 1..i : ~(j < i) => j - Len(front) = 1
    BY <1>1, <1>2
  <2> QED BY <1>1, <1>2, <2>1, <2>2, <2>3
<1>5. InsertAt(s, i, e) = start \o back
  BY DEF InsertAt
<1> HIDE DEF start, back
<1>6. /\ start \o back \in Seq(S)
      /\ Len(start \o back) = Len(start) + Len(back)
      /\ \A j \in 1..(Len(start) + Len(back)) :
           (start \o back)[j] = IF j <= Len(start) THEN start[j] ELSE back[j - Len(start)]
  BY <1>3, <1>4, ConcatProperties
<1>7. Len(start) + Len(back) = Len(s) + 1
  BY <1>1, <1>3, <1>4
<1>8. ASSUME NEW j \in 1..(Len(s) + 1)
      PROVE  (start \o back)[j] = IF j < i THEN s[j] ELSE IF j = i THEN e ELSE s[j - 1]
  <2>1. CASE j <= i
    BY <1>1, <1>4, <1>6, <1>7, <2>1
  <2>2. CASE ~(j <= i)
    <3>1. j - i \in 1..(Len(s) - i + 1) /\ i + (j - i) - 1 = j - 1
      BY <1>1, <2>2
    <3>2. back[j - i] = s[j - 1]
      BY <1>3, <3>1
    <3>3. (start \o back)[j] = back[j - i]
      BY <1>1, <1>4, <1>6, <1>7, <2>2
    <3> QED BY <1>1, <2>2, <3>2, <3>3
  <2> QED BY <1>1, <2>1, <2>2
<1> QED BY <1>5, <1>6, <1>7, <1>8

(* RemoveAt moves the entries behind the position by one.                  *)
LEMMA RemoveAtMoves ==
  ASSUME NEW S, NEW s \in Seq(S), NEW i \in 1..Len(s)
  PROVE  /\ RemoveAt(s, i) \in Seq(S)
         /\ Len(RemoveAt(s, i)) = Len(s) - 1
         /\ \A j \in 1..(Len(s) - 1) :
              RemoveAt(s, i)[j] = IF j < i THEN s[j] ELSE s[j + 1]
<1> DEFINE front == SubSeq(s, 1, i - 1)
           back == SubSeq(s, i + 1, Len(s))
<1>1. Len(s) \in Nat /\ i \in Int
  BY LenProperties
<1>2. /\ front \in Seq(S) /\ Len(front) = i - 1
      /\ \A j \in 1..(i - 1) : front[j] = s[j]
  <2>1. \A j \in 1..(i - 1) : s[j] \in S
    BY <1>1, ElementOfSeq
  <2> QED BY <1>1, <2>1, SubSeqProperties
<1>3. /\ back \in Seq(S) /\ Len(back) = Len(s) - i
      /\ \A j \in 1..(Len(s) - i) : back[j] = s[i + j]
  <2>1. \A j \in (i + 1)..Len(s) : s[j] \in S
    BY <1>1, ElementOfSeq
  <2>2. /\ back \in Seq(S)
        /\ Len(back) = IF i + 1 <= Len(s) THEN Len(s) - (i + 1) + 1 ELSE 0
        /\ \A j \in 1..(Len(s) - (i + 1) + 1) : back[j] = s[(i + 1) + j - 1]
    BY <1>1, <2>1, SubSeqProperties
  <2> QED BY <1>1, <2>2
<1>4. RemoveAt(s, i) = front \o back
  BY DEF RemoveAt
<1> HIDE DEF front, back
<1>5. /\ front \o back \in Seq(S)
      /\ Len(front \o back) = Len(front) + Len(back)
      /\ \A j \in 1..(Len(front) + Len(back)) :
           (front \o back)[j] = IF j <= Len(front) THEN front[j] ELSE back[j - Len(front)]
  BY <1>2, <1>3, ConcatProperties
<1>6. Len(front) + Len(back) = Len(s) - 1
  BY <1>1, <1>2, <1>3
<1> QED BY <1>1, <1>2, <1>3, <1>4, <1>5, <1>6

-------------------------------------------------------------------------------
(* The function of an ordered sequence of entries.                         *)
LEMMA FunctionOfEntries ==
  ASSUME NEW s \in Seq(Entry), Ordered(s)
  PROVE  /\ FunctionOf(s) \in Registries
         /\ \A i \in 1..Len(s) : FunctionOf(s)[s[i].priority] = s[i].name
         /\ \A p \in Priorities :
              FunctionOf(s)[p] # NoPlugin <=> \E i \in 1..Len(s) : s[i].priority = p
<1>1. \A i \in 1..Len(s) : s[i].priority \in Priorities /\ s[i].name \in Names
  BY EntryType
<1>2. \A p \in Priorities :
        FunctionOf(s)[p] = IF \E i \in 1..Len(s) : s[i].priority = p
                           THEN s[CHOOSE i \in 1..Len(s) : s[i].priority = p].name
                           ELSE NoPlugin
  BY DEF FunctionOf
<1>3. ASSUME NEW i \in 1..Len(s)
      PROVE  FunctionOf(s)[s[i].priority] = s[i].name
  <2>1. \A j \in 1..Len(s) : s[j].priority = s[i].priority => j = i
    BY <1>1 DEF Ordered, Priorities
  <2>2. (CHOOSE j \in 1..Len(s) : s[j].priority = s[i].priority) = i
    BY <2>1
  <2> QED BY <1>1, <1>2, <2>2
<1>4. ASSUME NEW p \in Priorities
      PROVE  /\ FunctionOf(s)[p] \in Names \cup {NoPlugin}
             /\ FunctionOf(s)[p] # NoPlugin <=> \E i \in 1..Len(s) : s[i].priority = p
  <2>1. CASE \E i \in 1..Len(s) : s[i].priority = p
    BY <1>1, <1>3, <2>1, RegistryAssumption
  <2>2. CASE ~\E i \in 1..Len(s) : s[i].priority = p
    BY <1>2, <2>2
  <2> QED BY <2>1, <2>2
<1>5. FunctionOf(s) = [p \in Priorities |-> FunctionOf(s)[p]]
  BY DEF FunctionOf
<1> QED BY <1>3, <1>4, <1>5 DEF Registries

(* The highest priority up to p is the one that get answers.               *)
LEMMA GetPriorityIs ==
  ASSUME NEW r \in Registries, NEW p, NEW q \in AtMost(r, p),
         \A t \in AtMost(r, p) : t <= q
  PROVE  GetPriority(r, p) = q
<1>1. AtMost(r, p) \subseteq Int
  BY RegistryAssumption DEF AtMost, RegisteredAt, Priorities
<1>2. IsNext(q, r, p) /\ \A t \in AtMost(r, p) : IsNext(t, r, p) => t = q
  BY <1>1 DEF IsNext
<1>3. GetPriority(r, p) = CHOOSE t \in AtMost(r, p) : IsNext(t, r, p)
  BY DEF GetPriority
<1> QED BY <1>2, <1>3

(* What lower_bound reaches is what the function answers.                  *)
LEMMA LowerBoundIsNext ==
  ASSUME MapInv, NEW p \in Int
  PROVE  GetPriority(AsFunction, p) =
           IF IsEnd(LowerBound(p)) THEN NoPriority
           ELSE registrations[LowerBound(p)].priority
<1> DEFINE r == AsFunction
<1>1. /\ r \in Registries
      /\ \A i \in Indices : r[registrations[i].priority] = registrations[i].name
      /\ \A t \in Priorities :
           r[t] # NoPlugin <=> \E i \in Indices : registrations[i].priority = t
  BY FunctionOfEntries DEF MapInv, AsFunction, Indices
<1>2. /\ LowerBound(p) \in 1..(Len(registrations) + 1)
      /\ \A i \in Indices : i < LowerBound(p) => registrations[i].priority > p
      /\ ~IsEnd(LowerBound(p)) => registrations[LowerBound(p)].priority <= p
  BY LowerBoundFinds DEF MapInv
<1>3. \A i \in Indices : registrations[i].priority \in Priorities
  BY EntryType DEF MapInv, Indices
<1>4. Len(registrations) \in Nat
  BY LenProperties DEF MapInv
<1>5. CASE IsEnd(LowerBound(p))
  <2>1. \A i \in Indices : registrations[i].priority > p
    BY <1>2, <1>4, <1>5 DEF IsEnd, Indices
  <2>2. AtMost(r, p) = {}
    BY <1>1, <1>3, <2>1 DEF AtMost, RegisteredAt, Priorities
  <2> QED BY <1>5, <2>2 DEF GetPriority
<1>6. CASE ~IsEnd(LowerBound(p))
  <2> DEFINE k == LowerBound(p)
  <2>1. k \in Indices /\ registrations[k].priority <= p
    BY <1>2, <1>4, <1>6 DEF IsEnd, Indices
  <2>2. registrations[k].priority \in AtMost(r, p)
    BY <1>1, <1>3, <2>1 DEF AtMost, RegisteredAt
  <2>3. ASSUME NEW t \in AtMost(r, p)
        PROVE  t <= registrations[k].priority
    <3>1. PICK i \in Indices : registrations[i].priority = t
      BY <1>1 DEF AtMost, RegisteredAt
    <3>2. t <= p /\ t \in Int
      BY RegistryAssumption DEF AtMost, RegisteredAt, Priorities
    <3>3. ~(i < k)
      BY <1>2, <3>1, <3>2
    <3>4. i = k \/ k < i
      BY <2>1, <3>3, <1>4 DEF Indices
    <3>5. k < i => registrations[k].priority > registrations[i].priority
      BY <2>1 DEF MapInv, Ordered, Indices
    <3> QED BY <3>1, <3>2, <3>4, <3>5, <2>1, <1>3, RegistryAssumption DEF Priorities
  <2>4. GetPriority(r, p) = registrations[k].priority
    BY <1>1, <2>2, <2>3, GetPriorityIs
  <2> QED BY <1>6, <2>4
<1> QED BY <1>5, <1>6

-------------------------------------------------------------------------------
(* The loop of removeall                                                   *)

LEMMA RoundsFollow ==
  ASSUME NEW s \in Seq(Entry), NEW n
  PROVE  /\ AfterRounds(s, n)[0] = s
         /\ \A k \in 1..Len(s) :
              AfterRounds(s, n)[k] = EraseFirst(AfterRounds(s, n)[k - 1], n)
<1> DEFINE Follows(f, m) ==
             f = [k \in 0..m |-> IF k = 0 THEN s ELSE EraseFirst(f[k - 1], n)]
           None == {m \in Nat : ~\E f : Follows(f, m)}
<1>1. None = {}
  <2> SUFFICES ASSUME None # {} PROVE FALSE
    OBVIOUS
  <2>1. PICK m \in None : \A k \in None : m <= k
    BY LeastNumber
  <2>2. CASE m = 0
    <3> DEFINE f == [k \in 0..0 |-> s]
    <3>1. Follows(f, 0)
      OBVIOUS
    <3> QED BY <2>1, <2>2, <3>1
  <2>3. CASE m # 0
    <3>1. m - 1 \in Nat /\ m - 1 \notin None
      BY <2>1, <2>3
    <3>2. PICK f : Follows(f, m - 1)
      BY <3>1
    <3> DEFINE g == [k \in 0..m |-> IF k = m THEN EraseFirst(f[m - 1], n) ELSE f[k]]
    <3>3. ASSUME NEW k \in 0..m
          PROVE  g[k] = IF k = 0 THEN s ELSE EraseFirst(g[k - 1], n)
      <4>1. k # 0 => k - 1 \in 0..(m - 1) /\ g[k - 1] = f[k - 1]
        BY <2>3
      <4>2. k # m => k \in 0..(m - 1)
        OBVIOUS
      <4> QED BY <3>2, <4>1, <4>2, <2>3
    <3>4. Follows(g, m)
      BY <3>3
    <3> QED BY <2>1, <3>4
  <2> QED BY <2>2, <2>3
<1>2. PICK f : Follows(f, Len(s))
  BY <1>1, LenProperties
<1>3. Follows(AfterRounds(s, n), Len(s))
  BY <1>2 DEF AfterRounds
<1> QED BY <1>3, LenProperties

(* One round takes an entry of this name away, if there is one.            *)
LEMMA OneRound ==
  ASSUME NEW s \in Seq(Entry), NEW n, Ordered(s)
  PROVE  /\ EraseFirst(s, n) \in Seq(Entry) /\ Ordered(EraseFirst(s, n))
         /\ \A e : e.name # n => (Has(EraseFirst(s, n), e) <=> Has(s, e))
         /\ \A e : Has(EraseFirst(s, n), e) => Has(s, e)
         /\ IF \E e : Has(s, e) /\ e.name = n
            THEN Len(EraseFirst(s, n)) = Len(s) - 1
            ELSE EraseFirst(s, n) = s
<1> DEFINE found == {i \in 1..Len(s) : s[i].name = n}
<1>0. Len(s) \in Nat
  BY LenProperties
<1>1. CASE found = {}
  BY <1>1 DEF EraseFirst, Has
<1>2. CASE found # {}
  <2>1. PICK i \in found : \A j \in found : i <= j
    BY <1>0, <1>2, LeastNumber, found \subseteq Nat
  <2> DEFINE first == CHOOSE k \in found : \A j \in found : k <= j
             t == RemoveAt(s, first)
  <2>2. first \in found
    BY <2>1
  <2>3. EraseFirst(s, n) = t
    BY <1>2 DEF EraseFirst
  <2> HIDE DEF first
  <2>4. /\ t \in Seq(Entry) /\ Len(t) = Len(s) - 1
        /\ \A j \in 1..(Len(s) - 1) : t[j] = IF j < first THEN s[j] ELSE s[j + 1]
    BY <2>2, RemoveAtMoves
  <2> HIDE DEF t
  <2>5. Ordered(t)
    <3> SUFFICES ASSUME NEW j \in 1..Len(t), NEW k \in 1..Len(t), j < k
                 PROVE  t[j].priority > t[k].priority
      BY DEF Ordered
    <3> DEFINE jj == IF j < first THEN j ELSE j + 1
               kk == IF k < first THEN k ELSE k + 1
    <3>1. jj \in 1..Len(s) /\ kk \in 1..Len(s) /\ jj < kk
      BY <1>0, <2>2, <2>4
    <3>2. t[j] = s[jj] /\ t[k] = s[kk]
      BY <1>0, <2>4
    <3> QED BY <3>1, <3>2 DEF Ordered
  <2>6. ASSUME NEW e, Has(t, e)
        PROVE  Has(s, e)
    <3>1. PICK j \in 1..Len(t) : t[j] = e
      BY <2>6 DEF Has
    <3>2. j \in 1..Len(s) /\ j + 1 \in 1..Len(s)
      BY <1>0, <2>4
    <3> QED BY <1>0, <2>4, <3>1, <3>2 DEF Has
  <2>7. ASSUME NEW e, Has(s, e), e.name # n
        PROVE  Has(t, e)
    <3>1. PICK j \in 1..Len(s) : s[j] = e
      BY <2>7 DEF Has
    <3>2. j # first
      BY <2>2, <2>7, <3>1
    <3>3. CASE j < first
      <4>1. j \in 1..Len(t) /\ t[j] = s[j]
        BY <1>0, <2>2, <2>4, <3>3
      <4> QED BY <3>1, <4>1 DEF Has
    <3>4. CASE j > first
      <4>1. j - 1 \in 1..Len(t) /\ t[j - 1] = s[j]
        BY <1>0, <2>2, <2>4, <3>4
      <4> QED BY <3>1, <4>1 DEF Has
    <3> QED BY <1>0, <2>2, <3>2, <3>3, <3>4
  <2>8. \E e : Has(s, e) /\ e.name = n
    BY <2>2 DEF Has
  <2> QED BY <2>3, <2>4, <2>5, <2>6, <2>7, <2>8
<1> QED BY <1>1, <1>2

(* So the loop ends with the entries of the other names, in their order.   *)
LEMMA RemoveallKeepsOthers ==
  ASSUME NEW s \in Seq(Entry), NEW n, Ordered(s)
  PROVE  LET t == AfterRounds(s, n)[Len(s)]
         IN  /\ t \in Seq(Entry) /\ Ordered(t)
             /\ \A e : Has(t, e) <=> Has(s, e) /\ e.name # n
<1> DEFINE r == AfterRounds(s, n)
           Good(k) ==
             /\ r[k] \in Seq(Entry) /\ Ordered(r[k])
             /\ \A e : e.name # n => (Has(r[k], e) <=> Has(s, e))
             /\ \A e : Has(r[k], e) => Has(s, e)
             /\ (\E e : Has(r[k], e) /\ e.name = n) => Len(r[k]) <= Len(s) - k
           Bad == {k \in 0..Len(s) : ~Good(k)}
<1>1. Len(s) \in Nat
  BY LenProperties
<1>2. Bad = {}
  <2> SUFFICES ASSUME Bad # {} PROVE FALSE
    OBVIOUS
  <2>1. PICK m \in Bad : \A k \in Bad : m <= k
    BY <1>1, LeastNumber, Bad \subseteq Nat
  <2>2. CASE m = 0
    <3>1. r[0] = s
      BY RoundsFollow
    <3>2. Good(0)
      BY <1>1, <3>1
    <3> QED BY <2>1, <2>2, <3>2
  <2>3. CASE m # 0
    <3>1. m - 1 \in 0..Len(s) /\ m - 1 \notin Bad
      BY <1>1, <2>1, <2>3
    <3>2. Good(m - 1)
      BY <3>1
    <3>3. r[m] = EraseFirst(r[m - 1], n)
      BY <1>1, <2>1, <2>3, RoundsFollow
    <3> DEFINE u == r[m - 1]
               v == r[m]
    <3>4. /\ v \in Seq(Entry) /\ Ordered(v)
          /\ \A e : e.name # n => (Has(v, e) <=> Has(u, e))
          /\ \A e : Has(v, e) => Has(u, e)
          /\ IF \E e : Has(u, e) /\ e.name = n THEN Len(v) = Len(u) - 1 ELSE v = u
      BY <3>2, <3>3, OneRound
    <3>5. u \in Seq(Entry) /\ Len(u) \in Nat
      BY <3>2, LenProperties
    <3> HIDE DEF u, v
    <3>6. (\E e : Has(v, e) /\ e.name = n) => Len(v) <= Len(s) - m
      BY <1>1, <2>1, <3>2, <3>4, <3>5 DEF u
    <3>7. Good(m)
      BY <3>2, <3>4, <3>6 DEF u, v
    <3> QED BY <2>1, <3>7
  <2> QED BY <2>2, <2>3
<1>3. Good(Len(s))
  BY <1>1, <1>2
<1>4. ASSUME NEW e, Has(r[Len(s)], e)
      PROVE  e.name # n
  <2>1. Len(r[Len(s)]) \in Nat /\ Len(r[Len(s)]) # 0
    BY <1>3, <1>4, LenProperties DEF Has
  <2> QED BY <1>1, <1>3, <1>4, <2>1
<1> QED BY <1>3, <1>4

-------------------------------------------------------------------------------
(* Every call keeps the entries in order and does what the function does.  *)

LEMMA AddStep ==
  ASSUME MapInv, NEW p \in NoPriority..InitialPriority, NEW n \in Names, add(p, n)
  PROVE  MapInv' /\ Service!AddEntry(p, n)
<1> DEFINE pos == LowerBound(p)
           s == registrations
           t == InsertAt(s, pos, [priority |-> p, name |-> n])
           taken == ~IsEnd(pos) /\ s[pos].priority = p
           fails == p > MaxPriority \/ p < MinPriority \/ taken
<1>0. p \in Int /\ Len(s) \in Nat
  BY RegistryAssumption, LenProperties DEF MapInv, NoPriority, InitialPriority
<1>1. /\ pos \in 1..(Len(s) + 1)
      /\ \A i \in 1..Len(s) : i < pos => s[i].priority > p
      /\ ~IsEnd(pos) => s[pos].priority <= p
  BY <1>0, LowerBoundFinds DEF MapInv, Indices
<1>2. p \in Priorities <=> ~(p > MaxPriority \/ p < MinPriority)
  BY <1>0, RegistryAssumption DEF Priorities
<1>3. \A i \in 1..Len(s) : s[i].priority \in Priorities
  BY EntryType DEF MapInv
<1>4. /\ AsFunction \in Registries
      /\ \A i \in 1..Len(s) : AsFunction[s[i].priority] = s[i].name
      /\ \A q \in Priorities :
           AsFunction[q] # NoPlugin <=> \E i \in 1..Len(s) : s[i].priority = q
  BY FunctionOfEntries DEF MapInv, AsFunction
<1>5. taken <=> \E i \in 1..Len(s) : s[i].priority = p
  <2>1. ASSUME NEW i \in 1..Len(s), s[i].priority = p
        PROVE  taken
    <3>1. ~(i < pos)
      BY <1>0, <1>1, <2>1
    <3>2. pos \in 1..Len(s) /\ ~IsEnd(pos)
      BY <1>0, <1>1, <3>1 DEF IsEnd
    <3>3. pos = i
      BY <1>0, <1>1, <1>3, <2>1, <3>1, <3>2, RegistryAssumption DEF MapInv, Ordered, Priorities
    <3> QED BY <2>1, <3>2, <3>3
  <2>2. taken => pos \in 1..Len(s)
    BY <1>0, <1>1 DEF IsEnd
  <2> QED BY <2>1, <2>2
<1>6. CanAdd(AsFunction, p) <=> ~fails
  BY <1>2, <1>4, <1>5 DEF CanAdd
<1>7. /\ s' = IF fails THEN s ELSE t
      /\ result' = <<"add", ~fails>>
  BY DEF add
<1>8. result' = <<"add", Service!CanAdd(AsFunction, p)>>
  <2>1. CanAdd(AsFunction, p) = ~fails
    BY <1>6 DEF CanAdd
  <2> QED BY <1>7, <2>1 DEF CanAdd, Service!CanAdd, Priorities, Service!Priorities
<1>9. CASE fails
  <2>1. AsFunction' = AsFunction /\ MapInv'
    BY <1>7, <1>9 DEF AsFunction, MapInv
  <2>2. Service!Add(AsFunction, p, n) = AsFunction
    BY <1>6, <1>9 DEF Service!Add, Service!CanAdd, CanAdd, Priorities, Service!Priorities
  <2> QED BY <1>8, <2>1, <2>2 DEF Service!AddEntry
<1>10. CASE ~fails
  <2> DEFINE e == [priority |-> p, name |-> n]
  <2>0. e \in Entry /\ e.priority = p /\ e.name = n /\ p \in Priorities
    BY <1>2, <1>10 DEF Entry
  <2>1. /\ t \in Seq(Entry) /\ Len(t) = Len(s) + 1
        /\ \A j \in 1..(Len(s) + 1) :
             t[j] = IF j < pos THEN s[j] ELSE IF j = pos THEN e ELSE s[j - 1]
    BY <1>1, <2>0, InsertAtMoves DEF MapInv
  <2>2. s' = t
    BY <1>7, <1>10
  <2> HIDE DEF t, e, pos
  <2>3. \A i \in 1..Len(s) : i >= pos => s[i].priority < p
    BY <1>0, <1>1, <1>3, <1>5, <1>10, RegistryAssumption
       DEF MapInv, Ordered, Priorities, IsEnd
  <2>4. Ordered(t)
    <3> SUFFICES ASSUME NEW j \in 1..Len(t), NEW k \in 1..Len(t), j < k
                 PROVE  t[j].priority > t[k].priority
      BY DEF Ordered
    <3>1. CASE k < pos
      <4>1. j \in 1..Len(s) /\ k \in 1..Len(s) /\ t[j] = s[j] /\ t[k] = s[k]
        BY <1>0, <1>1, <2>1, <3>1
      <4> QED BY <4>1 DEF MapInv, Ordered
    <3>2. CASE k = pos
      <4>1. j \in 1..Len(s) /\ t[j] = s[j] /\ t[k] = e
        BY <1>0, <1>1, <2>1, <3>2
      <4> QED BY <1>1, <2>0, <3>2, <4>1
    <3>3. CASE k > pos /\ j < pos
      <4>1. j \in 1..Len(s) /\ k - 1 \in 1..Len(s) /\ j < k - 1 /\ t[j] = s[j] /\ t[k] = s[k - 1]
        BY <1>0, <1>1, <2>1, <3>3
      <4> QED BY <4>1 DEF MapInv, Ordered
    <3>4. CASE k > pos /\ j = pos
      <4>1. k - 1 \in 1..Len(s) /\ k - 1 >= pos /\ t[j] = e /\ t[k] = s[k - 1]
        BY <1>0, <1>1, <2>1, <3>4
      <4>2. s[k - 1].priority < p
        BY <2>3, <4>1
      <4> QED BY <1>0, <1>3, <2>0, <4>1, <4>2, RegistryAssumption DEF Priorities
    <3>5. CASE k > pos /\ j > pos
      <4>1. /\ j - 1 \in 1..Len(s) /\ k - 1 \in 1..Len(s) /\ j - 1 < k - 1
            /\ t[j] = s[j - 1] /\ t[k] = s[k - 1]
        BY <1>0, <1>1, <2>1, <3>5
      <4> QED BY <4>1 DEF MapInv, Ordered
    <3> QED BY <1>1, <2>1, <3>1, <3>2, <3>3, <3>4, <3>5
  <2>5. MapInv'
    BY <2>1, <2>2, <2>4 DEF MapInv, Ordered
  <2>6. /\ FunctionOf(t) \in Registries
        /\ \A i \in 1..Len(t) : FunctionOf(t)[t[i].priority] = t[i].name
        /\ \A q \in Priorities :
             FunctionOf(t)[q] # NoPlugin <=> \E i \in 1..Len(t) : t[i].priority = q
    BY <2>1, <2>4, FunctionOfEntries
  <2>7. pos \in 1..Len(t) /\ t[pos] = e
    BY <1>0, <1>1, <2>1
  <2>8. ASSUME NEW q \in Priorities
        PROVE  FunctionOf(t)[q] = IF q = p THEN n ELSE AsFunction[q]
    <3>1. CASE q = p
      BY <2>0, <2>6, <2>7, <3>1
    <3>2. CASE q # p /\ \E i \in 1..Len(s) : s[i].priority = q
      <4>1. PICK i \in 1..Len(s) : s[i].priority = q
        BY <3>2
      <4>2. CASE i < pos
        <5>1. i \in 1..Len(t) /\ t[i] = s[i]
          BY <1>0, <1>1, <2>1, <4>2
        <5> QED BY <1>4, <2>6, <3>2, <4>1, <5>1
      <4>3. CASE i >= pos
        <5>1. i + 1 \in 1..Len(t) /\ t[i + 1] = s[i]
          BY <1>0, <1>1, <2>1, <4>3
        <5> QED BY <1>4, <2>6, <3>2, <4>1, <5>1
      <4> QED BY <1>0, <1>1, <4>2, <4>3
    <3>3. CASE q # p /\ ~\E i \in 1..Len(s) : s[i].priority = q
      <4>1. ASSUME NEW i \in 1..Len(t), t[i].priority = q
            PROVE  FALSE
        <5>1. i # pos
          BY <2>0, <2>7, <3>3, <4>1
        <5>2. i < pos => i \in 1..Len(s) /\ t[i] = s[i]
          BY <1>0, <1>1, <2>1
        <5>3. i > pos => i - 1 \in 1..Len(s) /\ t[i] = s[i - 1]
          BY <1>0, <1>1, <2>1
        <5> QED BY <1>1, <2>1, <3>3, <4>1, <5>1, <5>2, <5>3
      <4> QED BY <1>4, <2>6, <3>3, <4>1
    <3> QED BY <3>1, <3>2, <3>3
  <2>9. FunctionOf(t) = [AsFunction EXCEPT ![p] = n]
    BY <1>4, <2>6, <2>8 DEF Registries
  <2>10. AsFunction' = FunctionOf(t)
    BY <2>2 DEF AsFunction, FunctionOf
  <2>11. Service!Add(AsFunction, p, n) = [AsFunction EXCEPT ![p] = n]
    BY <1>6, <1>10 DEF Service!Add, Service!CanAdd, CanAdd, Priorities, Service!Priorities
  <2> QED BY <1>8, <2>5, <2>9, <2>10, <2>11 DEF Service!AddEntry
<1> QED BY <1>9, <1>10

LEMMA GetStep ==
  ASSUME MapInv, NEW p \in NoPriority..InitialPriority, get(p)
  PROVE  MapInv' /\ Service!Get(p)
<1> DEFINE k == LowerBound(p)
           q == GetPriority(AsFunction, p)
<1>0. p \in Int /\ Len(registrations) \in Nat
  BY RegistryAssumption, LenProperties DEF MapInv, NoPriority, InitialPriority
<1>1. q = IF IsEnd(k) THEN NoPriority ELSE registrations[k].priority
  BY <1>0, LowerBoundIsNext
<1>2. k \in 1..(Len(registrations) + 1)
  BY <1>0, LowerBoundFinds DEF MapInv
<1>3. ~IsEnd(k) => k \in 1..Len(registrations)
  BY <1>0, <1>2 DEF IsEnd
<1>4. ~IsEnd(k) => /\ registrations[k].priority \in Priorities
                   /\ AsFunction[registrations[k].priority] = registrations[k].name
  BY <1>3, EntryType, FunctionOfEntries DEF MapInv, AsFunction
<1>5. NoPriority \notin Priorities
  BY RegistryAssumption DEF NoPriority, Priorities
<1>6. result' = <<"get", q, IF q = NoPriority THEN NoPlugin ELSE AsFunction[q]>>
  BY <1>1, <1>4, <1>5 DEF get
<1>7. Service!GetPriority(AsFunction, p) = q
  BY DEF GetPriority, AtMost, IsNext, RegisteredAt, NoPriority, Priorities,
         Service!GetPriority, Service!AtMost, Service!IsNext, Service!RegisteredAt,
         Service!NoPriority, Service!Priorities
<1>8. result' = LET t == Service!GetPriority(AsFunction, p)
                IN  <<"get", t, IF t = Service!NoPriority THEN NoPlugin ELSE AsFunction[t]>>
  BY <1>6, <1>7 DEF NoPriority, Service!NoPriority
<1>9. registrations' = registrations
  BY DEF get
<1> QED BY <1>8, <1>9 DEF MapInv, AsFunction, Service!Get

LEMMA RemoveallStep ==
  ASSUME MapInv, NEW n \in Names, removeall(n)
  PROVE  MapInv' /\ Service!RemoveAllEntries(n)
<1> DEFINE s == registrations
           t == AfterRounds(s, n)[Len(s)]
<1>1. /\ t \in Seq(Entry) /\ Ordered(t)
      /\ \A e : Has(t, e) <=> Has(s, e) /\ e.name # n
  BY RemoveallKeepsOthers DEF MapInv
<1>2. s' = t /\ result' = <<"removeall">>
  BY DEF removeall
<1> HIDE DEF t
<1>3. /\ AsFunction \in Registries
      /\ \A i \in 1..Len(s) : AsFunction[s[i].priority] = s[i].name
      /\ \A q \in Priorities :
           AsFunction[q] # NoPlugin <=> \E i \in 1..Len(s) : s[i].priority = q
  BY FunctionOfEntries DEF MapInv, AsFunction
<1>4. /\ FunctionOf(t) \in Registries
      /\ \A i \in 1..Len(t) : FunctionOf(t)[t[i].priority] = t[i].name
      /\ \A q \in Priorities :
           FunctionOf(t)[q] # NoPlugin <=> \E i \in 1..Len(t) : t[i].priority = q
  BY <1>1, FunctionOfEntries
<1>5. ASSUME NEW q \in Priorities
      PROVE  FunctionOf(t)[q] = IF AsFunction[q] = n THEN NoPlugin ELSE AsFunction[q]
  <2>1. CASE \E i \in 1..Len(t) : t[i].priority = q
    <3>1. PICK i \in 1..Len(t) : t[i].priority = q
      BY <2>1
    <3>2. PICK j \in 1..Len(s) : s[j] = t[i]
      BY <1>1 DEF Has
    <3>3. t[i].name # n
      BY <1>1 DEF Has
    <3> QED BY <1>3, <1>4, <3>1, <3>2, <3>3
  <2>2. CASE ~\E i \in 1..Len(t) : t[i].priority = q
    <3>1. FunctionOf(t)[q] = NoPlugin
      BY <1>4, <2>2
    <3>2. ASSUME AsFunction[q] # NoPlugin, AsFunction[q] # n
          PROVE  FALSE
      <4>1. PICK i \in 1..Len(s) : s[i].priority = q
        BY <1>3, <3>2
      <4>2. s[i].name # n
        BY <1>3, <3>2, <4>1
      <4>3. Has(t, s[i])
        BY <1>1, <4>2 DEF Has
      <4> QED BY <2>2, <4>1, <4>3 DEF Has
    <3> QED BY <3>1, <3>2
  <2> QED BY <2>1, <2>2
<1>6. FunctionOf(t) = Service!RemoveAll(AsFunction, n)
  BY <1>4, <1>5 DEF Registries, Service!RemoveAll, Priorities, Service!Priorities
<1>7. AsFunction' = FunctionOf(t)
  BY <1>2 DEF AsFunction, FunctionOf
<1>8. MapInv'
  BY <1>1, <1>2 DEF MapInv, Ordered
<1> QED BY <1>2, <1>6, <1>7, <1>8 DEF Service!RemoveAllEntries

LEMMA EveryStep ==
  ASSUME MapInv, [Next]_vars
  PROVE  MapInv' /\ [Service!Next]_(Service!serviceVars)
<1>0. /\ Service!NoPriority = NoPriority /\ Service!InitialPriority = InitialPriority
  BY DEF NoPriority, InitialPriority, Service!NoPriority, Service!InitialPriority
<1>1. ASSUME NEW p \in NoPriority..InitialPriority, get(p)
      PROVE  MapInv' /\ Service!Next
  BY <1>0, <1>1, GetStep DEF Service!Next
<1>2. ASSUME NEW p \in NoPriority..InitialPriority, NEW n \in Names, add(p, n)
      PROVE  MapInv' /\ Service!Next
  BY <1>0, <1>2, AddStep DEF Service!Next
<1>3. ASSUME NEW n \in Names, removeall(n)
      PROVE  MapInv' /\ Service!Next
  BY <1>3, RemoveallStep DEF Service!Next
<1>4. CASE UNCHANGED vars
  BY <1>4 DEF vars, MapInv, AsFunction, Service!serviceVars
<1> QED BY <1>1, <1>2, <1>3, <1>4 DEF Next

LEMMA InitInv == Init => MapInv /\ Service!Init
<1> SUFFICES ASSUME Init PROVE MapInv /\ Service!Init
  OBVIOUS
<1>1. registrations = << >> /\ result = << >>
  BY DEF Init
<1>2. registrations \in Seq(Entry) /\ Len(registrations) = 0
  BY <1>1, EmptySeq
<1>3. MapInv
  BY <1>2 DEF MapInv, Ordered
<1>4. AsFunction = Service!EmptyRegistry
  BY <1>2 DEF AsFunction, FunctionOf, Service!EmptyRegistry, Priorities, Service!Priorities
<1> QED BY <1>1, <1>3, <1>4 DEF Service!Init

(* The entries are always in the map's order, one for each priority.       *)
THEOREM MapOrdered == Spec => []MapInv
<1>1. MapInv /\ [Next]_vars => MapInv'
  BY EveryStep
<1> QED BY <1>1, InitInv, PTL DEF Spec

(* The map of class registry implements the registry the core relies on:   *)
(* every call of add, get and removeall changes the function its entries   *)
(* stand for, and answers, as the registry does.                           *)
THEOREM MapImplementsService == Spec => ImplementsService
<1>1. MapInv /\ [Next]_vars => [Service!Next]_(Service!serviceVars)
  BY EveryStep
<1> QED BY <1>1, InitInv, MapOrdered, PTL DEF Spec, ImplementsService, Service!Spec

(* A chain of echoes visits every registered plugin once, highest first.   *)
THEOREM EchoesVisitAll == Spec => []EchoVisitsAll
<1>1. MapInv => EchoVisitsAll
  <2> SUFFICES ASSUME MapInv, NEW i \in 1..(Len(registrations) + 1)
               PROVE  LET asked == IF i = 1 THEN InitialPriority
                                   ELSE registrations[i - 1].priority - 1
                          answer == GetPriority(AsFunction, asked)
                      IN  IF IsEnd(i) THEN answer = NoPriority
                          ELSE /\ answer = registrations[i].priority
                               /\ AsFunction[answer] = registrations[i].name
    BY DEF EchoVisitsAll
  <2> DEFINE asked == IF i = 1 THEN InitialPriority ELSE registrations[i - 1].priority - 1
             k == LowerBound(asked)
  <2>0. Len(registrations) \in Nat
    BY LenProperties DEF MapInv
  <2>1. /\ \A j \in Indices : registrations[j].priority \in Priorities
        /\ \A j \in Indices : registrations[j].priority \in Int
    BY EntryType, RegistryAssumption DEF MapInv, Indices, Priorities
  <2>2. asked \in Int
    <3>1. i # 1 => i - 1 \in Indices
      BY <2>0 DEF Indices
    <3> QED BY <2>1, <3>1, RegistryAssumption DEF InitialPriority
  <2>3. /\ k \in 1..(Len(registrations) + 1)
        /\ \A j \in Indices : j < k => registrations[j].priority > asked
        /\ ~IsEnd(k) => registrations[k].priority <= asked
    BY <2>2, LowerBoundFinds DEF MapInv
  <2>4. GetPriority(AsFunction, asked) =
          IF IsEnd(k) THEN NoPriority ELSE registrations[k].priority
    BY <2>2, LowerBoundIsNext
  <2> HIDE DEF k
  <2>5. \A j \in Indices : registrations[j].priority <= asked <=> j >= i
    <3> SUFFICES ASSUME NEW j \in Indices
                 PROVE  registrations[j].priority <= asked <=> j >= i
      OBVIOUS
    <3>1. CASE i = 1
      BY <2>1, <3>1, RegistryAssumption DEF Indices, InitialPriority, Priorities
    <3>2. CASE i # 1
      <4>1. i - 1 \in Indices
        BY <2>0, <3>2 DEF Indices
      <4>2. j < i - 1 => registrations[j].priority > registrations[i - 1].priority
        BY <4>1 DEF MapInv, Ordered, Indices
      <4>3. j > i - 1 => registrations[i - 1].priority > registrations[j].priority
        BY <4>1 DEF MapInv, Ordered, Indices
      <4> QED BY <2>1, <3>2, <4>1, <4>2, <4>3 DEF Indices
    <3> QED BY <3>1, <3>2
  <2>6. k = i
    <3>1. ~(k < i)
      BY <2>0, <2>3, <2>5 DEF Indices, IsEnd
    <3>2. ~(i < k)
      BY <2>0, <2>1, <2>2, <2>3, <2>5 DEF Indices
    <3> QED BY <2>0, <2>3, <3>1, <3>2
  <2>7. CASE IsEnd(i)
    BY <2>4, <2>6, <2>7
  <2>8. CASE ~IsEnd(i)
    <3>1. i \in 1..Len(registrations)
      BY <2>0, <2>8 DEF IsEnd
    <3>2. AsFunction[registrations[i].priority] = registrations[i].name
      BY <3>1, FunctionOfEntries DEF MapInv, AsFunction
    <3>3. GetPriority(AsFunction, asked) = registrations[i].priority
      BY <2>4, <2>6, <2>8
    <3> QED BY <2>8, <3>2, <3>3
  <2> QED BY <2>7, <2>8
<1> QED BY <1>1, MapOrdered, PTL

===============================================================================
