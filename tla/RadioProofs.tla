---------------------------- MODULE RadioProofs ----------------------------
(***************************************************************************)
(* Proofs about the radio, for every duty cycle, depth of the queue and    *)
(* length of the frames.                                                   *)
(*                                                                         *)
(* The account of the duty cycle is what was sent in the window that ends  *)
(* now, and within the budget.  A window that ended earlier held what the  *)
(* account did then, so no window holds more.  The frames of the chip do   *)
(* not overlap, and so the time they hold the air in a window is at most   *)
(* what begins in it or in an earlier one.                                 *)
(***************************************************************************)
EXTENDS Radio, ProofFacts

-----------------------------------------------------------------------------
(* Airtime.                                                                *)

LEMMA TransmissionFacts ==
    ASSUME NEW x \in Transmission
    PROVE  x.nth \in Nat /\ x.id \in Nat /\ x.at \in Nat /\ x.airtime \in Nat
BY DEF Transmission

\* Any weights that are the airtimes will do.
LEMMA TotalIs ==
    ASSUME NEW S \in SUBSET Transmission, IsFiniteSet(S), NEW T \in SUBSET S
    PROVE  SumOver([x \in S |-> x.airtime], T) = Total(T) /\ IsFiniteSet(T)
<1>1. IsFiniteSet(T)
  BY FS_Subset
<1> DEFINE v == [x \in S |-> x.airtime]
           w == [x \in T |-> x.airtime]
<1>2. \A x \in T : w[x] \in Nat /\ v[x] = w[x]
  BY TransmissionFacts
<1>3. Total(T) = SumOver(w, T)
  BY DEF Total
<1> HIDE DEF v, w
<1>4. SumOver(v, T) = SumOver(w, T)
  BY <1>1, <1>2, SumSame
<1> QED
  BY <1>1, <1>3, <1>4 DEF v

LEMMA TotalFacts ==
    ASSUME NEW S \in SUBSET Transmission, IsFiniteSet(S)
    PROVE  /\ Total(S) \in Nat /\ (S = {} => Total(S) = 0)
           /\ \A T \in SUBSET S : /\ IsFiniteSet(T) /\ Total(T) \in Nat /\ Total(T) <= Total(S)
<1> DEFINE w == [x \in S |-> x.airtime]
<1>1. \A x \in S : w[x] \in Nat
  BY TransmissionFacts
<1>2. Total(S) = SumOver(w, S)
  BY DEF Total
<1>3. \A T \in SUBSET S : IsFiniteSet(T) /\ SumOver(w, T) = Total(T)
  BY TotalIs
<1> HIDE DEF w
<1>4. SumOver(w, S) \in Nat /\ (S = {} => SumOver(w, S) = 0)
  BY <1>1, SumFacts
<1>5. ASSUME NEW T \in SUBSET S PROVE SumOver(w, T) \in Nat /\ SumOver(w, T) <= SumOver(w, S)
  <2>1. IsFiniteSet(T) /\ \A x \in T : w[x] \in Nat /\ w[x] <= w[x]
    BY <1>1, <1>3
  <2> QED BY <1>1, <2>1, SumFacts, SumLess
<1> QED
  BY <1>2, <1>3, <1>4, <1>5

LEMMA TotalSplit ==
    ASSUME NEW A \in SUBSET Transmission, IsFiniteSet(A), NEW B \in SUBSET Transmission,
           IsFiniteSet(B), A \cap B = {}
    PROVE  Total(A \cup B) = Total(A) + Total(B) /\ IsFiniteSet(A \cup B)
<1> DEFINE S == A \cup B
           w == [x \in S |-> x.airtime]
<1>1. S \in SUBSET Transmission /\ A \in SUBSET S /\ B \in SUBSET S /\ S \in SUBSET S
  OBVIOUS
<1>2. IsFiniteSet(S)
  BY FS_Union
<1>3. \A x \in S : w[x] \in Nat
  BY <1>1, TransmissionFacts
<1> HIDE DEF S
<1>4. /\ SumOver(w, S) = Total(S) /\ SumOver(w, A) = Total(A) /\ SumOver(w, B) = Total(B)
  BY <1>1, <1>2, TotalIs
<1> HIDE DEF w
<1>5. SumOver(w, A \cup B) = SumOver(w, A) + SumOver(w, B)
  BY <1>3, SumSplit DEF S
<1> QED
  BY <1>2, <1>4, <1>5 DEF S

LEMMA BudgetNat == Budget \in Nat
<1>1. Window * Percent \in Nat
  <2>1. \A a, b \in Nat : a * b \in Nat
    OBVIOUS
  <2> QED BY <2>1, RadioAssumption
<1>2. \A a \in Nat : a \div 100 \in Nat
  OBVIOUS
<1> QED
  BY <1>1, <1>2 DEF Budget

-----------------------------------------------------------------------------
(* The account of the duty cycle.                                          *)

Live(t) == {x \in aired : x.at + Window > t}

AccountOK ==
    /\ now \in Nat
    /\ aired \subseteq Transmission /\ IsFiniteSet(aired) /\ \A x \in aired : x.at <= now
    /\ slots = Live(now)
    /\ used = Total(slots)
    /\ Percent < 100 => used <= Budget
    /\ DutyKept

\* What is left in the account at t, and what it comes to.
LEMMA UsedIs ==
    ASSUME AccountOK, NEW t \in Nat, now <= t
    PROVE  /\ slots \ Expired(t) = Live(t) /\ Used(t) = Total(Live(t))
           /\ IsFiniteSet(Live(t)) /\ Total(Live(t)) \in Nat /\ Total(Live(t)) <= used
           /\ Live(t) \subseteq aired
<1>1. /\ now \in Nat /\ aired \subseteq Transmission /\ IsFiniteSet(aired) /\ Window \in Nat
      /\ slots = Live(now) /\ used = Total(slots)
  BY RadioAssumption DEF AccountOK
<1>2. ASSUME NEW x \in aired
      PROVE  /\ x.at + Window > t => x.at + Window > now
             /\ x.at + Window <= t <=> ~(x.at + Window > t)
  <2>1. x.at \in Nat
    BY <1>1, TransmissionFacts
  <2> QED BY <1>1, <2>1
<1>3. Live(t) \subseteq slots /\ slots \subseteq aired /\ Live(t) \subseteq aired
  BY <1>1, <1>2 DEF Live
<1>4. Expired(t) = slots \ Live(t)
  BY <1>1, <1>2, <1>3 DEF Expired, Live
<1>5. IsFiniteSet(slots) /\ slots \subseteq Transmission
  BY <1>1, <1>3, FS_Subset
<1>6. /\ IsFiniteSet(Live(t)) /\ IsFiniteSet(Expired(t))
      /\ Total(Live(t)) \in Nat /\ Total(Expired(t)) \in Nat /\ Total(slots) \in Nat
      /\ Total(Live(t)) <= Total(slots)
  BY <1>3, <1>4, <1>5, TotalFacts
<1>7. Total(slots) = Total(Live(t)) + Total(Expired(t))
  <2>1. Live(t) \cup Expired(t) = slots /\ Live(t) \cap Expired(t) = {}
    BY <1>3, <1>4
  <2>2. Total(Live(t) \cup Expired(t)) = Total(Live(t)) + Total(Expired(t))
    BY <1>3, <1>4, <1>5, <1>6, <2>1, TotalSplit
  <2> QED BY <2>1, <2>2
<1>8. Used(t) = Total(Live(t))
  BY <1>1, <1>6, <1>7 DEF Used
<1> QED
  BY <1>1, <1>3, <1>4, <1>6, <1>8

\* Recording what the budget allows.
LEMMA RecordKeeps ==
    ASSUME AccountOK, NEW t \in Nat, now <= t, now' = t, NEW new, Record(t, new),
           IsFiniteSet(new), new \subseteq Transmission, \A x \in new : x.at = t,
           new \cap aired = {},
           Percent < 100 => new = {} \/ Used(t) + Total(new) <= Budget
    PROVE  AccountOK'
<1> DEFINE live == Live(t)
<1>1. /\ live \subseteq aired /\ IsFiniteSet(live) /\ Total(live) \in Nat /\ Total(live) <= used
      /\ Used(t) = Total(live) /\ slots \ Expired(t) = live
  BY UsedIs
<1>2. slots' = live \cup new /\ used' = Total(live) + Total(new) /\ aired' = aired \cup new
  BY <1>1 DEF Record
<1>3. /\ aired \subseteq Transmission /\ IsFiniteSet(aired) /\ now \in Nat /\ Window \in Nat \ {0}
      /\ \A x \in aired : x.at <= now
      /\ \A x \in aired \cup new : x.at \in Nat
  BY RadioAssumption, TransmissionFacts DEF AccountOK
<1>4. /\ aired' \subseteq Transmission /\ IsFiniteSet(aired')
      /\ \A x \in aired' : x.at <= t
  <2>1. IsFiniteSet(aired')
    BY <1>2, <1>3, FS_Union
  <2> QED BY <1>2, <1>3, <2>1
<1>5. slots' = {x \in aired' : x.at + Window > t}
  <2>1. \A x \in new : x.at + Window > t
    BY <1>3
  <2> QED BY <1>2, <2>1 DEF Live
<1>6. used' = Total(slots')
  <2> HIDE DEF live
  <2>1. live \subseteq Transmission /\ live \cap new = {}
    BY <1>1, <1>3
  <2> QED BY <1>1, <1>2, <2>1, TotalSplit
<1>7. Total(new) \in Nat /\ (new = {} => Total(new) = 0) /\ used' \in Nat
  <2>1. Total(new) \in Nat /\ (new = {} => Total(new) = 0)
    BY TotalFacts
  <2> HIDE DEF live
  <2> QED BY <1>1, <1>2, <2>1
<1>8. Percent < 100 => used' <= Budget
  <2>1. Percent < 100 => used <= Budget
    BY DEF AccountOK
  <2>2. used \in Nat
    BY <1>3, UsedIs, TotalFacts DEF AccountOK, Live
  <2> HIDE DEF live
  <2> QED BY <1>1, <1>2, <1>7, <2>1, <2>2, BudgetNat
<1> HIDE DEF live
<1>9. ASSUME Percent < 100, NEW start \in 0..t
      PROVE  Total({x \in aired' : x.at \in start..start + Window - 1}) <= Budget
  <2> DEFINE W == {x \in aired' : x.at \in start..start + Window - 1}
  <2>1. W \subseteq aired' /\ start \in Nat
    BY <1>3
  <2>2. CASE start + Window - 1 < t
    <3>1. \A x \in new : x \notin W
      BY <1>3, <2>1, <2>2
    <3>2. W = {x \in aired : x.at \in start..start + Window - 1}
      BY <1>2, <3>1
    <3>3. CASE start <= now
      <4>1. start \in 0..now
        BY <1>3, <2>1, <3>3
      <4> QED BY <1>9, <3>2, <4>1 DEF AccountOK, DutyKept
    <3>4. CASE ~(start <= now)
      <4>1. \A x \in aired : ~(x.at \in start..start + Window - 1)
        BY <1>3, <2>1, <3>4
      <4>2. W = {}
        BY <3>2, <4>1
      <4>3. Total(W) = 0
        <5>1. W \in SUBSET Transmission /\ IsFiniteSet(W)
          BY <4>2, FS_EmptySet
        <5> HIDE DEF W
        <5> QED BY <4>2, <5>1, TotalFacts
      <4> QED BY <4>3, BudgetNat
    <3> QED BY <3>3, <3>4
  <2>3. CASE ~(start + Window - 1 < t)
    <3>1. \A x \in aired' : x.at \in start..start + Window - 1 => x.at + Window > t
      BY <1>2, <1>3, <2>1, <2>3
    <3>2. W \subseteq slots'
      BY <1>5, <3>1
    <3>3. slots' \subseteq Transmission /\ IsFiniteSet(slots')
      BY <1>4, <1>5, FS_Subset
    <3> HIDE DEF W
    <3>4. Total(W) \in Nat /\ Total(W) <= Total(slots')
      BY <3>2, <3>3, TotalFacts
    <3>5. Total(W) <= Budget
      BY <1>6, <1>7, <1>8, <1>9, <3>4, BudgetNat
    <3> QED BY <3>5 DEF W
  <2> QED BY <2>2, <2>3
<1>10. DutyKept'
  BY <1>9 DEF DutyKept, Total
<1> QED
  BY <1>4, <1>5, <1>6, <1>8, <1>10 DEF AccountOK, Live

-----------------------------------------------------------------------------
(* The order of the queue.                                                 *)

LEMMA LeastBy ==
    ASSUME NEW S, S # {}, NEW f, \A x \in S : f[x] \in Nat
    PROVE  \E m \in S : \A y \in S : f[m] <= f[y]
<1> DEFINE R == {f[x] : x \in S}
<1>1. R \subseteq Nat /\ R # {}
  OBVIOUS
<1>2. Min(R) \in R /\ \A y \in R : Min(R) <= y
  <2> HIDE DEF R
  <2> QED BY <1>1, MinFacts
<1> DEFINE least == Min(R)
<1>3. least \in R /\ \A y \in R : least <= y
  BY <1>2
<1> HIDE DEF least
<1>4. PICK m \in S : f[m] = least
  BY <1>3
<1> QED
  BY <1>3, <1>4

LEMMA QueueFacts ==
    ASSUME queue \in Seq(Entry)
    PROVE  /\ Len(queue) \in Nat
           /\ \A i \in 1..Len(queue) : /\ queue[i] \in Entry /\ queue[i].priority \in 0..2
                                       /\ queue[i].priority \in Priority /\ queue[i].id \in Nat
<1>1. Len(queue) \in Nat /\ \A i \in 1..Len(queue) : queue[i] \in Entry
  BY LenProperties
<1> QED
  BY <1>1 DEF Entry, Priority, HIGH, NORMAL, LOW

LEMMA BeforeFacts ==
    ASSUME queue \in Seq(Entry), NEW i \in 1..Len(queue), NEW j \in 1..Len(queue)
    PROVE  /\ i = j \/ Before(i, j) \/ Before(j, i)
           /\ ~(Before(i, j) /\ Before(j, i))
           /\ \A k \in 1..Len(queue) : Before(i, j) /\ Before(j, k) => Before(i, k)
BY QueueFacts DEF Before

\* pop has a first choice, and the loop around it a last one.
LEMMA FirstFacts ==
    ASSUME queue \in Seq(Entry), NEW places \in SUBSET (1..Len(queue)), places # {}
    PROVE  First(places) \in places /\ \A j \in places \ {First(places)} : Before(First(places), j)
<1> DEFINE prio == [k \in 1..Len(queue) |-> queue[k].priority]
           id   == [k \in 1..Len(queue) |-> k]
<1>1. \A k \in places : prio[k] \in Nat /\ id[k] \in Nat /\ prio[k] = queue[k].priority /\ id[k] = k
  BY QueueFacts
<1> HIDE DEF prio, id
<1>2. PICK p \in places : \A y \in places : prio[p] <= prio[y]
  BY <1>1, LeastBy
<1> DEFINE T == {k \in places : prio[k] = prio[p]}
<1>3. T # {} /\ \A k \in T : id[k] \in Nat
  BY <1>1
<1>4. PICK m \in T : \A y \in T : id[m] <= id[y]
  <2> HIDE DEF T
  <2> QED BY <1>3, LeastBy
<1>5. m \in places /\ \A j \in places \ {m} : Before(m, j)
  <2>1. ASSUME NEW j \in places \ {m} PROVE Before(m, j)
    <3>1. prio[m] \in Nat /\ prio[j] \in Nat /\ prio[m] <= prio[j] /\ m \in Nat /\ j \in Nat
      BY <1>1, <1>2
    <3>2. CASE prio[m] < prio[j]
      BY <1>1, <3>2 DEF Before
    <3>3. CASE prio[m] = prio[j]
      <4>1. j \in T
        BY <3>3
      <4>2. m < j
        BY <1>1, <1>4, <3>1, <4>1
      <4> QED BY <1>1, <3>3, <4>2 DEF Before
    <3> QED BY <3>1, <3>2, <3>3
  <2> QED BY <2>1
<1> QED
  BY <1>5 DEF First

LEMMA HeadFacts ==
    ASSUME queue \in Seq(Entry), queue # <<>>
    PROVE  /\ First(1..Len(queue)) \in 1..Len(queue)
           /\ \A j \in (1..Len(queue)) \ {First(1..Len(queue))} : Before(First(1..Len(queue)), j)
<1>1. Len(queue) \in Nat /\ Len(queue) # 0
  BY ListFacts DEF IsList
<1>2. 1 \in 1..Len(queue)
  BY <1>1
<1> QED
  BY <1>2, FirstFacts

LEMMA LastExists ==
    ASSUME queue \in Seq(Entry), NEW places \in SUBSET (1..Len(queue)), places # {}
    PROVE  \E m \in places : places \subseteq UpTo(m)
<1> DEFINE prio == [k \in 1..Len(queue) |-> 2 - queue[k].priority]
           id   == [k \in 1..Len(queue) |-> Len(queue) - k]
<1>1. \A k \in places : /\ prio[k] \in Nat /\ id[k] \in Nat /\ queue[k].priority \in Nat /\ k \in Nat
                        /\ prio[k] = 2 - queue[k].priority /\ id[k] = Len(queue) - k
  BY QueueFacts
<1> HIDE DEF prio, id
<1>2. PICK p \in places : \A y \in places : prio[p] <= prio[y]
  BY <1>1, LeastBy
<1> DEFINE T == {k \in places : prio[k] = prio[p]}
<1>3. T # {} /\ \A k \in T : id[k] \in Nat
  BY <1>1
<1>4. PICK m \in T : \A y \in T : id[m] <= id[y]
  <2> HIDE DEF T
  <2> QED BY <1>3, LeastBy
<1>5. ASSUME NEW j \in places PROVE j = m \/ Before(j, m)
  <2>1. /\ prio[m] \in Nat /\ prio[j] \in Nat /\ prio[m] <= prio[j] /\ m \in Nat /\ j \in Nat
        /\ prio[m] = 2 - queue[m].priority /\ prio[j] = 2 - queue[j].priority
        /\ queue[m].priority \in Nat /\ queue[j].priority \in Nat
    BY <1>1, <1>2
  <2>2. CASE prio[m] < prio[j]
    BY <2>1, <2>2, SMTT(30) DEF Before
  <2>3. CASE prio[m] = prio[j]
    <3>1. j \in T
      BY <2>3
    <3>2. j <= m
      BY <1>1, <1>4, <2>1, <3>1, QueueFacts
    <3> QED BY <2>1, <2>3, <3>2, SMTT(30) DEF Before
  <2> QED BY <2>1, <2>2, <2>3
<1> QED
  BY <1>5 DEF UpTo

-----------------------------------------------------------------------------
(* What is left of the queue is drawn from it.                             *)

Drawing(g, new, old, places) ==
    /\ g \in [1..Len(new) -> places]
    /\ \A i, j \in 1..Len(new) : g[i] = g[j] => i = j
    /\ \A i \in 1..Len(new) : new[i] = old[g[i]]

Drawn(new, old, places) == new \in Seq(Entry) /\ \E g : Drawing(g, new, old, places)

LEMMA DrawnLength ==
    ASSUME queue \in Seq(Entry), NEW places \in SUBSET (1..Len(queue)), NEW new,
           Drawn(new, queue, places)
    PROVE  Len(new) \in Nat /\ Len(new) <= Len(queue)
<1>1. Len(new) \in Nat /\ Len(queue) \in Nat
  BY LenProperties DEF Drawn
<1>2. PICK g : Drawing(g, new, queue, places)
  BY DEF Drawn
<1>3. g \in Injection(1..Len(new), 1..Len(queue))
  BY <1>2 DEF Drawing, Injection, IsInjective
<1>4. /\ IsFiniteSet(1..Len(queue))
      /\ Cardinality(1..Len(queue)) = Len(queue) /\ Cardinality(1..Len(new)) = Len(new)
  <2>1. \A n \in Nat : IsFiniteSet(1..n) /\ Cardinality(1..n) = IF 1 > n THEN 0 ELSE n - 1 + 1
    BY FS_Interval
  <2> QED BY <1>1, <2>1
<1>5. Cardinality(1..Len(new)) <= Cardinality(1..Len(queue))
  BY <1>3, <1>4, FS_Injection
<1> QED
  BY <1>1, <1>4, <1>5

LEMMA DrawnWithout ==
    ASSUME queue \in Seq(Entry), NEW places
    PROVE  Drawn(Without(places), queue, (1..Len(queue)) \ places)
<1> DEFINE rest == (1..Len(queue)) \ places
           out  == Keep(queue, rest)
<1>1. out \in Seq(Entry) /\ \E g : Picks(g, out, queue, rest, Len(queue))
  <2> HIDE DEF rest
  <2> QED BY KeepPicks
<1>2. PICK g : Picks(g, out, queue, rest, Len(queue))
  BY <1>1
<1>3. {j \in 1..Len(queue) : j \in rest} = rest
  OBVIOUS
<1>4. out = Without(places) /\ rest = (1..Len(queue)) \ places
  BY DEF Without
<1> HIDE DEF rest, out
<1>5. Len(out) \in Nat /\ g \in [1..Len(out) -> rest] /\ \A i \in 1..Len(out) : g[i] \in Nat
  <2>1. Len(out) \in Nat /\ g \in [1..Len(out) -> rest]
    BY <1>1, <1>2, <1>3, LenProperties DEF Picks
  <2> QED BY <1>4, <2>1
<1>6. \A i, j \in 1..Len(out) : i < j => g[i] < g[j]
  BY <1>2 DEF Picks
<1>7. \A i, j \in 1..Len(out) : g[i] = g[j] => i = j
  BY <1>5, <1>6
<1>8. Drawing(g, out, queue, rest)
  BY <1>2, <1>5, <1>7 DEF Picks, Drawing
<1> QED
  BY <1>1, <1>4, <1>8 DEF Drawn

LEMMA DrawnPutBack ==
    ASSUME queue \in Seq(Entry), NEW places, NEW k \in 1..Len(queue), k \in places
    PROVE  Drawn(PutBack(k, Without(places)), queue, ((1..Len(queue)) \ places) \cup {k})
<1> DEFINE out  == Without(places)
           rest == (1..Len(queue)) \ places
           new  == Append(out, queue[k])
<1>1. out \in Seq(Entry) /\ \E g : Drawing(g, out, queue, rest)
  BY DrawnWithout DEF Drawn
<1>2. PICK g : Drawing(g, out, queue, rest)
  BY <1>1
<1>3. new = PutBack(k, out) /\ k \notin rest
  BY DEF PutBack
<1> HIDE DEF out, rest
<1>4. queue[k] \in Entry
  BY QueueFacts
<1>5. /\ new \in Seq(Entry) /\ Len(new) = Len(out) + 1 /\ Len(out) \in Nat
      /\ new[Len(out) + 1] = queue[k] /\ \A i \in 1..Len(out) : new[i] = out[i]
  BY <1>1, <1>4, AppendProperties, LenProperties
<1> DEFINE h == [i \in 1..Len(out) + 1 |-> IF i = Len(out) + 1 THEN k ELSE g[i]]
<1> HIDE DEF new
<1>6. h \in [1..Len(new) -> rest \cup {k}]
  BY <1>2, <1>5 DEF Drawing
<1>7. \A i \in 1..Len(out) : h[i] = g[i] /\ h[i] \in rest
  BY <1>2, <1>5 DEF Drawing
<1>8. h[Len(out) + 1] = k
  BY <1>5
<1> HIDE DEF h
<1>9. \A i, j \in 1..Len(new) : h[i] = h[j] => i = j
  <2> SUFFICES ASSUME NEW i \in 1..Len(new), NEW j \in 1..Len(new), h[i] = h[j] PROVE i = j
    OBVIOUS
  <2>1. i \in 1..Len(out) \/ i = Len(out) + 1
    BY <1>5
  <2>2. j \in 1..Len(out) \/ j = Len(out) + 1
    BY <1>5
  <2> QED BY <1>2, <1>3, <1>7, <1>8, <2>1, <2>2 DEF Drawing
<1>10. \A i \in 1..Len(new) : new[i] = queue[h[i]]
  <2> SUFFICES ASSUME NEW i \in 1..Len(new) PROVE new[i] = queue[h[i]]
    OBVIOUS
  <2>1. i \in 1..Len(out) \/ i = Len(out) + 1
    BY <1>5
  <2> QED BY <1>2, <1>5, <1>7, <1>8, <2>1 DEF Drawing
<1>11. Drawing(h, new, queue, rest \cup {k})
  BY <1>6, <1>9, <1>10 DEF Drawing
<1> QED
  BY <1>3, <1>5, <1>11 DEF Drawn, out, rest

-----------------------------------------------------------------------------
(* The invariant.                                                          *)

\* A frame is in the queue once, with the priority it was given, and not once
\* it was on the air.
QueueOK ==
    /\ queue \in Seq(Entry) /\ Len(queue) <= Depth
    /\ sent \in Seq([frame : Frames, priority : Priority])
    /\ \A i \in 1..Len(queue) : /\ queue[i].id \in 1..Len(sent)
                                /\ queue[i].priority = sent[queue[i].id].priority
    /\ \A i, j \in 1..Len(queue) : queue[i].id = queue[j].id => i = j
    /\ \A x \in aired : x.id \in 1..Len(sent) /\ \A i \in 1..Len(queue) : queue[i].id # x.id

Apart(x, y) == x.at + x.airtime <= y.at \/ y.at + y.airtime <= x.at

\* The chip has one frame on the air at a time, and is through with it by the
\* deadline.
AirOK ==
    driver = "SX1262" =>
        /\ \A x, y \in aired : x = y \/ Apart(x, y)
        /\ \A x \in aired : x.at + x.airtime <= IF transmitting THEN deadline ELSE now

RadioInv ==
    /\ driver \in {"UDP", "SX1262"} /\ deadline \in Nat
    /\ transmitting \in BOOLEAN /\ listening \in BOOLEAN
    /\ AccountOK
    /\ QueueOK
    /\ AirOK

LEMMA InitInv == Init => RadioInv
<1> SUFFICES ASSUME Init PROVE RadioInv
  OBVIOUS
<1>1. AccountOK
  <2>1. {} \in SUBSET Transmission /\ IsFiniteSet({})
    BY FS_EmptySet
  <2>2. Total({}) = 0
    BY <2>1, TotalFacts
  <2>3. DutyKept
    <3> SUFFICES ASSUME NEW start \in 0..now
                 PROVE  Total({x \in aired : x.at \in start..start + Window - 1}) <= Budget
      BY DEF DutyKept
    <3>1. {x \in aired : x.at \in start..start + Window - 1} = {}
      BY DEF Init
    <3>2. Total({x \in aired : x.at \in start..start + Window - 1}) = 0
      BY <2>2, <3>1
    <3> QED BY <3>2, BudgetNat
  <2>4. Live(now) = {}
    BY DEF Init, Live
  <2> QED BY <2>1, <2>2, <2>3, <2>4, BudgetNat DEF Init, AccountOK
<1>2. QueueOK
  BY RadioAssumption, EmptySeq DEF Init, QueueOK
<1> QED
  BY <1>1, <1>2 DEF Init, RadioInv, AirOK

LEMMA EntryFacts ==
    ASSUME QueueOK, NEW i \in 1..Len(queue)
    PROVE  /\ queue[i].id \in 1..Len(sent) /\ queue[i].id \in Nat
           /\ sent[queue[i].id] \in [frame : Frames, priority : Priority]
           /\ AirtimeOf(i) \in Nat
<1>1. queue[i].id \in 1..Len(sent) /\ Len(sent) \in Nat
  BY LenProperties DEF QueueOK
<1>2. sent[queue[i].id] \in [frame : Frames, priority : Priority]
  <2>1. sent \in [1..Len(sent) -> [frame : Frames, priority : Priority]]
    BY LenProperties DEF QueueOK
  <2> QED BY <1>1, <2>1
<1> QED
  BY <1>1, <1>2, RadioAssumption DEF AirtimeOf

LEMMA OnAirFacts ==
    ASSUME QueueOK, IsFiniteSet(aired), NEW i \in 1..Len(queue), NEW t \in Nat, NEW nth \in Nat
    PROVE  /\ OnAir(i, t, nth) \in Transmission /\ OnAir(i, t, nth) \notin aired
           /\ OnAir(i, t, nth).at = t /\ OnAir(i, t, nth).id = queue[i].id
           /\ OnAir(i, t, nth).airtime = AirtimeOf(i)
<1>1. Cardinality(aired) + nth \in Nat
  BY FS_CardinalityType
<1>2. queue[i].id \in Nat /\ AirtimeOf(i) \in Nat
  BY EntryFacts
<1>3. OnAir(i, t, nth) \in Transmission /\ OnAir(i, t, nth).id = queue[i].id
  BY <1>1, <1>2 DEF OnAir, Transmission
<1> QED
  BY <1>3 DEF OnAir, QueueOK

\* Taking from the queue, and putting what was taken on the air or dropping it.
LEMMA DrawnKeeps ==
    ASSUME QueueOK, NEW places \in SUBSET (1..Len(queue)), Drawn(queue', queue, places),
           UNCHANGED sent, NEW new, aired' = aired \cup new,
           \A x \in new : \E i \in (1..Len(queue)) \ places : x.id = queue[i].id
    PROVE  QueueOK'
<1>1. PICK g : Drawing(g, queue', queue, places)
  BY DEF Drawn
<1>2. /\ \A i \in 1..Len(queue') : /\ g[i] \in places /\ g[i] \in 1..Len(queue)
                                   /\ queue'[i] = queue[g[i]]
      /\ \A i, j \in 1..Len(queue') : g[i] = g[j] => i = j
  BY <1>1 DEF Drawing
<1>3. queue' \in Seq(Entry) /\ Len(queue') <= Depth
  <2>1. Len(queue') \in Nat /\ Len(queue') <= Len(queue)
    BY DrawnLength DEF QueueOK
  <2> QED BY <2>1, RadioAssumption, LenProperties DEF QueueOK, Drawn
<1> DEFINE q == queue'
<1>4. /\ \A i \in 1..Len(q) : g[i] \in 1..Len(queue) /\ q[i] = queue[g[i]]
      /\ \A i, j \in 1..Len(q) : g[i] = g[j] => i = j
  BY <1>2
<1>5. /\ \A i \in 1..Len(queue) : /\ queue[i].id \in 1..Len(sent)
                                  /\ queue[i].priority = sent[queue[i].id].priority
      /\ \A i, j \in 1..Len(queue) : queue[i].id = queue[j].id => i = j
  BY DEF QueueOK
<1>6. \A i \in 1..Len(q) : /\ q[i].id \in 1..Len(sent)
                           /\ q[i].priority = sent[q[i].id].priority
  <2> HIDE DEF q
  <2> QED BY <1>4, <1>5
<1>7. \A i, j \in 1..Len(q) : q[i].id = q[j].id => i = j
  <2> HIDE DEF q
  <2>1. ASSUME NEW i \in 1..Len(q), NEW j \in 1..Len(q), q[i].id = q[j].id PROVE i = j
    BY <1>4, <1>5, <2>1, SMTT(30)
  <2> QED BY <2>1
<1>8. \A x \in aired' : x.id \in 1..Len(sent)
  BY <1>5 DEF QueueOK
<1>9. ASSUME NEW x \in aired', NEW i \in 1..Len(queue') PROVE queue'[i].id # x.id
  <2>1. CASE x \in aired
    BY <1>2, <2>1 DEF QueueOK
  <2>2. CASE x \in new
    <3>1. PICK j \in (1..Len(queue)) \ places : x.id = queue[j].id
      BY <2>2
    <3> QED BY <1>2, <3>1 DEF QueueOK
  <2> QED BY <2>1, <2>2
<1> QED
  BY <1>3, <1>6, <1>7, <1>8, <1>9 DEF QueueOK

-----------------------------------------------------------------------------
(* The steps.                                                              *)

LEMMA SendQueue ==
    ASSUME QueueOK, NEW frame \in Frames, NEW priority \in Priority, Send(frame, priority)
    PROVE  QueueOK'
<1> DEFINE e == [id |-> Len(sent) + 1, priority |-> priority]
           r == [frame |-> frame, priority |-> priority]
<1>1. /\ queue' = Append(queue, e) /\ sent' = Append(sent, r)
      /\ UNCHANGED <<driver, now, slots, used, transmitting, deadline, listening, aired>>
      /\ Len(queue) < Depth
  BY DEF Send, HasRoom
<1>2. /\ queue \in Seq(Entry) /\ sent \in Seq([frame : Frames, priority : Priority])
      /\ Len(queue) \in Nat /\ Len(sent) \in Nat
  BY LenProperties DEF QueueOK
<1>3. e \in Entry /\ r \in [frame : Frames, priority : Priority]
  BY <1>2 DEF Entry
<1>4. e.id = Len(sent) + 1 /\ e.priority = r.priority
  OBVIOUS
<1> HIDE DEF e, r
<1>5. /\ queue' \in Seq(Entry) /\ Len(queue') = Len(queue) + 1
      /\ queue'[Len(queue) + 1] = e /\ \A i \in 1..Len(queue) : queue'[i] = queue[i]
  BY <1>1, <1>2, <1>3, AppendProperties
<1>6. /\ sent' \in Seq([frame : Frames, priority : Priority]) /\ Len(sent') = Len(sent) + 1
      /\ sent'[Len(sent) + 1] = r /\ \A i \in 1..Len(sent) : sent'[i] = sent[i]
  BY <1>1, <1>2, <1>3, AppendProperties
<1>7. QueueOK'
  <2>1. Len(queue') <= Depth
    BY <1>1, <1>2, <1>5, RadioAssumption
  <2>2. \A i \in 1..Len(queue) : queue[i].id \in 1..Len(sent)
    BY DEF QueueOK
  <2>3. \A i \in 1..Len(queue') : i \in 1..Len(queue) \/ i = Len(queue) + 1
    BY <1>2, <1>5
  <2>4. \A i \in 1..Len(queue') : /\ queue'[i].id \in 1..Len(sent')
                                  /\ queue'[i].priority = sent'[queue'[i].id].priority
    <3> SUFFICES ASSUME NEW i \in 1..Len(queue')
                 PROVE  /\ queue'[i].id \in 1..Len(sent')
                        /\ queue'[i].priority = sent'[queue'[i].id].priority
      OBVIOUS
    <3>1. CASE i \in 1..Len(queue)
      <4>1. /\ queue[i].id \in 1..Len(sent) /\ queue[i].priority = sent[queue[i].id].priority
            /\ queue'[i] = queue[i]
        BY <1>5, <3>1 DEF QueueOK
      <4>2. sent'[queue[i].id] = sent[queue[i].id] /\ queue[i].id \in 1..Len(sent')
        BY <1>2, <1>6, <4>1
      <4> QED BY <4>1, <4>2
    <3>2. CASE i = Len(queue) + 1
      BY <1>2, <1>4, <1>5, <1>6, <3>2
    <3> QED BY <2>3, <3>1, <3>2
  <2>5. \A i, j \in 1..Len(queue') : queue'[i].id = queue'[j].id => i = j
    <3>1. \A i \in 1..Len(queue) : queue[i].id # e.id
      BY <1>2, <1>4, <2>2
    <3> QED BY <1>5, <2>3, <3>1 DEF QueueOK
  <2>6. \A x \in aired' : x.id \in 1..Len(sent') /\ \A i \in 1..Len(queue') : queue'[i].id # x.id
    <3> SUFFICES ASSUME NEW x \in aired
                 PROVE  x.id \in 1..Len(sent') /\ \A i \in 1..Len(queue') : queue'[i].id # x.id
      BY <1>1
    <3>1. x.id \in 1..Len(sent) /\ \A i \in 1..Len(queue) : queue[i].id # x.id
      BY DEF QueueOK
    <3>2. x.id # e.id /\ x.id \in 1..Len(sent')
      BY <1>2, <1>4, <1>6, <3>1
    <3> QED BY <1>5, <2>3, <3>1, <3>2
  <2> QED BY <1>5, <1>6, <2>1, <2>4, <2>5, <2>6 DEF QueueOK
<1> QED
  BY <1>7

LEMMA SendStep ==
    ASSUME RadioInv, NEW frame \in Frames, NEW priority \in Priority, Send(frame, priority)
    PROVE  RadioInv'
<1>1. UNCHANGED <<driver, now, slots, used, transmitting, deadline, listening, aired>>
  BY DEF Send
<1>2. QueueOK'
  BY SendQueue DEF RadioInv
<1>3. AccountOK'
  BY <1>1 DEF RadioInv, AccountOK, Live, DutyKept, Total
<1> QED
  BY <1>1, <1>2, <1>3 DEF RadioInv, AirOK, Apart

LEMMA ReceiveStep ==
    ASSUME RadioInv, NEW armed \in BOOLEAN, Receive(armed)
    PROVE  RadioInv'
<1>1. /\ UNCHANGED <<driver, now, queue, slots, used, transmitting, deadline, sent, aired>>
      /\ listening' \in BOOLEAN
  BY DEF Receive
<1>2. AccountOK'
  BY <1>1 DEF RadioInv, AccountOK, Live, DutyKept, Total
<1>3. QueueOK'
  BY <1>1 DEF RadioInv, QueueOK
<1> QED
  BY <1>1, <1>2, <1>3 DEF RadioInv, AirOK, Apart

\* What UdpTick names: the frames that can be sent, what they need up to one of
\* them, and the places the loop takes.
Good(places) == {i \in places : ~IsBad(i)}
Needed(i) == SumOver([j \in 1..Len(queue) |-> AirtimeOf(j)], Good(UpTo(i)))
Popped(t) == {i \in 1..Len(queue) : \A j \in Good(UpTo(i)) : Allows(t, Needed(j))}
LeftOver(t) == (1..Len(queue)) \ Popped(t)
Outgoing(t) == {OnAir(i, t, Cardinality(Good(UpTo(i)))) : i \in Good(Popped(t))}

LEMMA UdpTickIs ==
    ASSUME NEW t, UdpTick(t)
    PROVE  /\ driver = "UDP" /\ t >= now /\ now' = t /\ Record(t, Outgoing(t))
           /\ queue' = IF LeftOver(t) = {} THEN <<>>
                       ELSE PutBack(First(LeftOver(t)), Without(Popped(t) \cup {First(LeftOver(t))}))
           /\ UNCHANGED <<driver, transmitting, deadline, listening, sent>>
BY DEF UdpTick, Good, Needed, Popped, LeftOver, Outgoing

LEMMA UpToFacts ==
    ASSUME queue \in Seq(Entry), NEW i \in 1..Len(queue)
    PROVE  /\ i \in UpTo(i) /\ UpTo(i) \subseteq 1..Len(queue)
           /\ \A j \in UpTo(i) : UpTo(j) \subseteq UpTo(i)
           /\ IsFiniteSet(Good(UpTo(i))) /\ Cardinality(Good(UpTo(i))) \in Nat
<1>1. i \in UpTo(i) /\ UpTo(i) \subseteq 1..Len(queue)
  BY DEF UpTo
<1>2. ASSUME NEW j \in UpTo(i), NEW k \in UpTo(j) PROVE k \in UpTo(i)
  <2>1. /\ j \in 1..Len(queue) /\ k \in 1..Len(queue)
        /\ j = i \/ Before(j, i)
        /\ k = j \/ Before(k, j)
    BY <1>2 DEF UpTo
  <2>2. k = i \/ Before(k, i)
    BY <2>1, BeforeFacts
  <2> QED BY <2>1, <2>2 DEF UpTo
<1>3. IsFiniteSet(1..Len(queue)) /\ Good(UpTo(i)) \subseteq 1..Len(queue)
  BY <1>1, FS_Interval, LenProperties DEF Good
<1>4. IsFiniteSet(Good(UpTo(i)))
  BY <1>3, FS_Subset
<1> QED
  BY <1>1, <1>2, <1>4, FS_CardinalityType

\* The loop takes everything ahead of what it takes.
LEMMA PoppedDown ==
    ASSUME queue \in Seq(Entry), NEW t, NEW i \in Popped(t), NEW j \in UpTo(i)
    PROVE  j \in Popped(t)
<1>1. /\ i \in 1..Len(queue) /\ \A k \in Good(UpTo(i)) : Allows(t, Needed(k))
  BY DEF Popped
<1>2. j \in 1..Len(queue) /\ UpTo(j) \subseteq UpTo(i)
  BY <1>1, UpToFacts
<1> QED
  BY <1>1, <1>2 DEF Popped, Good

\* What goes out, and that it fits the budget.
LEMMA OutgoingWhole ==
    ASSUME QueueOK, IsFiniteSet(aired), NEW t \in Nat
    PROVE  /\ IsFiniteSet(Outgoing(t)) /\ Outgoing(t) \subseteq Transmission
           /\ Outgoing(t) \cap aired = {}
           /\ \A x \in Outgoing(t) : x.at = t /\ \E i \in Popped(t) : x.id = queue[i].id
           /\ Total(Outgoing(t)) =
                  SumOver([j \in 1..Len(queue) |-> AirtimeOf(j)], Good(Popped(t)))
           /\ Good(Popped(t)) = {} => Outgoing(t) = {}
<1> DEFINE G    == Good(Popped(t))
           air  == [i \in 1..Len(queue) |-> AirtimeOf(i)]
           f    == [i \in G |-> OnAir(i, t, Cardinality(Good(UpTo(i))))]
           new  == {f[i] : i \in G}
           w    == [x \in new |-> x.airtime]
<1>1. queue \in Seq(Entry) /\ Len(queue) \in Nat
  BY LenProperties DEF QueueOK
<1>2. G \subseteq Popped(t) /\ G \subseteq 1..Len(queue) /\ \A i \in G : ~IsBad(i)
  BY DEF Good, Popped
<1>3. \A i \in G : /\ f[i] \in Transmission /\ f[i] \notin aired /\ f[i].at = t
                   /\ f[i].id = queue[i].id /\ f[i].airtime = AirtimeOf(i)
  BY <1>1, <1>2, UpToFacts, OnAirFacts
<1>4. \A i \in 1..Len(queue) : air[i] \in Nat /\ air[i] = AirtimeOf(i)
  BY EntryFacts
<1>5. Outgoing(t) = new
  BY DEF Outgoing
<1>6. IsFiniteSet(1..Len(queue)) /\ IsFiniteSet(G)
  <2>1. IsFiniteSet(1..Len(queue))
    BY <1>1, FS_Interval
  <2> QED BY <1>2, <2>1, FS_Subset
<1>7. \A i \in G : f[i] \in new
  OBVIOUS
<1>8. \A i \in G : w[f[i]] = f[i].airtime
  BY <1>7
<1>9. Total(new) = SumOver(w, new)
  BY DEF Total
<1>10. new \subseteq Transmission /\ new \cap aired = {}
       /\ \A x \in new : x.at = t /\ \E i \in Popped(t) : x.id = queue[i].id
  BY <1>2, <1>3
<1> HIDE DEF f, w, G
<1>11. SumOver(w, new) = SumOver(air, G) /\ IsFiniteSet(new)
  <2>1. \A x, y \in G : f[x] = f[y] => x = y
    <3> SUFFICES ASSUME NEW x \in G, NEW y \in G, f[x] = f[y] PROVE x = y
      OBVIOUS
    <3>1. queue[x].id = queue[y].id
      BY <1>3
    <3> QED BY <1>2, <3>1 DEF QueueOK
  <2>2. \A x \in G : air[x] \in Nat /\ w[f[x]] = air[x]
    BY <1>2, <1>3, <1>4, <1>8
  <2> HIDE DEF air, new
  <2>3. SumOver(w, ImageOf(f, G)) = SumOver(air, G) /\ IsFiniteSet(ImageOf(f, G))
    BY <1>6, <2>1, <2>2, SumImage
  <2> QED BY <2>3 DEF new, ImageOf
<1>12. G = {} => new = {}
  OBVIOUS
<1> HIDE DEF new
<1> QED
  BY <1>5, <1>9, <1>10, <1>11, <1>12 DEF G

LEMMA OutgoingFacts ==
    ASSUME QueueOK, AccountOK, NEW t \in Nat, now <= t
    PROVE  /\ IsFiniteSet(Outgoing(t)) /\ Outgoing(t) \subseteq Transmission
           /\ Outgoing(t) \cap aired = {}
           /\ \A x \in Outgoing(t) : x.at = t /\ \E i \in Popped(t) : x.id = queue[i].id
           /\ Percent < 100 => Outgoing(t) = {} \/ Used(t) + Total(Outgoing(t)) <= Budget
<1> DEFINE G    == Good(Popped(t))
           air  == [i \in 1..Len(queue) |-> AirtimeOf(i)]
<1>1. queue \in Seq(Entry) /\ Len(queue) \in Nat
  BY LenProperties DEF QueueOK
<1>2. G \subseteq Popped(t) /\ G \subseteq 1..Len(queue) /\ \A i \in G : ~IsBad(i)
  BY DEF Good, Popped
<1>3. /\ IsFiniteSet(Outgoing(t)) /\ Outgoing(t) \subseteq Transmission
      /\ Outgoing(t) \cap aired = {}
      /\ \A x \in Outgoing(t) : x.at = t /\ \E i \in Popped(t) : x.id = queue[i].id
      /\ Total(Outgoing(t)) = SumOver(air, G)
      /\ G = {} => Outgoing(t) = {}
  BY OutgoingWhole DEF AccountOK
<1>4. \A i \in 1..Len(queue) : air[i] \in Nat /\ air[i] = AirtimeOf(i)
  BY EntryFacts
<1>6. IsFiniteSet(1..Len(queue)) /\ IsFiniteSet(G)
  <2>1. IsFiniteSet(1..Len(queue))
    BY <1>1, FS_Interval
  <2> QED BY <1>2, <2>1, FS_Subset
<1> HIDE DEF G
<1>12. ASSUME Percent < 100, G # {} PROVE Used(t) + SumOver(air, G) <= Budget
  <2>1. PICK m \in G : G \subseteq UpTo(m)
    BY <1>1, <1>2, <1>12, LastExists
  <2>2. m \in 1..Len(queue) /\ m \in UpTo(m) /\ m \in Good(UpTo(m))
    BY <1>1, <1>2, <2>1, UpToFacts DEF Good
  <2>3. Allows(t, Needed(m))
    BY <1>2, <2>1, <2>2 DEF Popped
  <2>4. Used(t) + SumOver(air, Good(UpTo(m))) <= Budget
    BY <1>12, <2>3, RadioAssumption DEF Allows, Needed
  <2> DEFINE U == Good(UpTo(m))
  <2>5. /\ G \subseteq U /\ IsFiniteSet(U) /\ U \subseteq 1..Len(queue)
    BY <1>1, <1>2, <2>1, <2>2, UpToFacts DEF Good
  <2> HIDE DEF U, air
  <2>6. SumOver(air, G) <= SumOver(air, U)
    <3>1. /\ \A x \in U : air[x] \in Nat
          /\ \A x \in G : air[x] \in Nat /\ air[x] <= air[x]
      BY <1>4, <2>5
    <3> QED BY <2>5, <3>1, SumLess
  <2>7. SumOver(air, G) \in Nat /\ SumOver(air, U) \in Nat
    <3>1. /\ \A x \in U : air[x] \in Nat
          /\ \A x \in G : air[x] \in Nat
      BY <1>4, <2>5
    <3> QED BY <1>6, <2>5, <3>1, SumFacts
  <2>8. Used(t) \in Nat
    BY UsedIs
  <2>9. Used(t) + SumOver(air, U) <= Budget
    BY <2>4 DEF U
  <2> QED BY <2>6, <2>7, <2>8, <2>9, BudgetNat
<1> QED
  BY <1>3, <1>12

\* What is left in the queue was not taken by the loop.
LEMMA UdpQueue ==
    ASSUME QueueOK, NEW t, UdpTick(t)
    PROVE  Drawn(queue', queue, LeftOver(t))
<1>1. queue \in Seq(Entry) /\ LeftOver(t) \subseteq 1..Len(queue)
  BY DEF QueueOK, LeftOver
<1>2. CASE LeftOver(t) = {}
  <2>1. queue' = <<>>
    BY <1>2, UdpTickIs
  <2>2. queue' \in Seq(Entry) /\ Len(queue') = 0
    BY <2>1, EmptySeq
  <2>3. Drawing(<<>>, queue', queue, LeftOver(t))
    BY <2>2 DEF Drawing
  <2> QED BY <2>2, <2>3 DEF Drawn
<1>3. CASE LeftOver(t) # {}
  <2> DEFINE k == First(LeftOver(t))
             p == Popped(t) \cup {k}
  <2>1. k \in LeftOver(t)
    BY <1>1, <1>3, FirstFacts
  <2>2. queue' = PutBack(k, Without(p))
    BY <1>3, UdpTickIs
  <2>3. ((1..Len(queue)) \ p) \cup {k} = LeftOver(t)
    BY <1>1, <2>1 DEF LeftOver
  <2>4. k \in p /\ k \in 1..Len(queue)
    BY <1>1, <2>1
  <2> HIDE DEF k, p
  <2>5. Drawn(PutBack(k, Without(p)), queue, ((1..Len(queue)) \ p) \cup {k})
    BY <1>1, <2>4, DrawnPutBack
  <2> QED BY <2>2, <2>3, <2>5
<1> QED
  BY <1>2, <1>3

LEMMA UdpKeepsQueue ==
    ASSUME QueueOK, IsFiniteSet(aired), NEW t \in Nat, UdpTick(t)
    PROVE  QueueOK'
<1>1. aired' = aired \cup Outgoing(t) /\ UNCHANGED sent
  BY UdpTickIs DEF Record
<1>2. LeftOver(t) \in SUBSET (1..Len(queue))
  BY DEF LeftOver
<1>3. \A i \in Popped(t) : i \in (1..Len(queue)) \ LeftOver(t)
  BY DEF LeftOver, Popped
<1>4. \A x \in Outgoing(t) : \E i \in Popped(t) : x.id = queue[i].id
  BY OutgoingWhole
<1>5. \A x \in Outgoing(t) : \E i \in (1..Len(queue)) \ LeftOver(t) : x.id = queue[i].id
  BY <1>3, <1>4
<1> QED
  BY <1>1, <1>2, <1>5, UdpQueue, DrawnKeeps

LEMMA UdpTickStep ==
    ASSUME RadioInv, NEW t \in Nat, UdpTick(t)
    PROVE  RadioInv'
<1>1. QueueOK /\ AccountOK /\ now \in Nat
  BY DEF RadioInv, AccountOK
<1>2. /\ now <= t /\ now' = t /\ Record(t, Outgoing(t)) /\ aired' = aired \cup Outgoing(t)
      /\ driver = "UDP" /\ UNCHANGED <<driver, transmitting, deadline, listening, sent>>
  BY <1>1, UdpTickIs DEF Record
<1> DEFINE new == Outgoing(t)
<1>3. /\ IsFiniteSet(new) /\ new \subseteq Transmission /\ new \cap aired = {}
      /\ \A x \in new : x.at = t /\ \E i \in Popped(t) : x.id = queue[i].id
      /\ Percent < 100 => new = {} \/ Used(t) + Total(new) <= Budget
  BY <1>1, <1>2, OutgoingFacts
<1> HIDE DEF new
<1>4. AccountOK'
  BY <1>1, <1>2, <1>3, RecordKeeps DEF new
<1>5. QueueOK'
  BY <1>1, UdpKeepsQueue DEF AccountOK
<1> QED
  BY <1>2, <1>4, <1>5 DEF RadioInv, AirOK

\* A tick of the chip's that puts nothing on the air.
LEMMA QuietKeeps ==
    ASSUME AccountOK, NEW t \in Nat, now <= t, now' = t, Record(t, {})
    PROVE  AccountOK' /\ aired' = aired
<1> DEFINE none == {}
<1>1. IsFiniteSet(none) /\ none \subseteq Transmission /\ none \cap aired = {}
  BY FS_EmptySet
<1>2. none = {} /\ \A x \in none : x.at = t
  OBVIOUS
<1>3. Record(t, none)
  OBVIOUS
<1> HIDE DEF none
<1>4. AccountOK'
  BY <1>1, <1>2, <1>3, RecordKeeps
<1> QED
  BY <1>2, <1>3, <1>4 DEF Record

\* What a tick of the chip's puts on the air, if anything.
Started(t, new) ==
    \/ new = {}
    \/ /\ queue # <<>> /\ ~transmitting
       /\ Allows(t, AirtimeOf(First(1..Len(queue))))
       /\ new = {OnAir(First(1..Len(queue)), t, 1)}
       /\ transmitting' = TRUE
       /\ deadline' = Deadline(t, AirtimeOf(First(1..Len(queue))))
       /\ queue' = Without({First(1..Len(queue))})

LEMMA ChipRecords ==
    ASSUME NEW t, NEW done \in BOOLEAN, NEW accepted \in BOOLEAN, NEW armed \in BOOLEAN,
           Sx1262Tick(t, done, accepted, armed)
    PROVE  \E new : Record(t, new) /\ Started(t, new)
<1>1. CASE transmitting
  <2>1. Record(t, {})
    BY <1>1 DEF Sx1262Tick
  <2> QED BY <2>1 DEF Started
<1>2. CASE ~transmitting
  <2> DEFINE i == First(1..Len(queue))
  <2>1. \/ Record(t, {})
        \/ /\ queue # <<>> /\ Allows(t, AirtimeOf(i)) /\ queue' = Without({i})
           /\ Record(t, {OnAir(i, t, 1)})
           /\ transmitting' = TRUE /\ deadline' = Deadline(t, AirtimeOf(i))
    BY <1>2 DEF Sx1262Tick, StartTransmit
  <2>2. CASE Record(t, {})
    BY <2>2 DEF Started
  <2>3. CASE /\ queue # <<>> /\ Allows(t, AirtimeOf(i)) /\ queue' = Without({i})
             /\ Record(t, {OnAir(i, t, 1)})
             /\ transmitting' = TRUE /\ deadline' = Deadline(t, AirtimeOf(i))
    BY <1>2, <2>3 DEF Started
  <2> QED BY <2>1, <2>2, <2>3
<1> QED
  BY <1>1, <1>2

\* The queue after a tick of the chip's is drawn from what it was.
LEMMA ChipQueue ==
    ASSUME QueueOK, NEW t, NEW done \in BOOLEAN, NEW accepted \in BOOLEAN, NEW armed \in BOOLEAN,
           Sx1262Tick(t, done, accepted, armed)
    PROVE  Drawn(queue', queue, 1..Len(queue))
<1>1. queue \in Seq(Entry) /\ Len(queue) \in Nat
  BY LenProperties DEF QueueOK
<1> DEFINE i == First(1..Len(queue))
<1>2. UNCHANGED queue \/ (queue # <<>> /\ (queue' = PutBack(i, Without({i})) \/ queue' = Without({i})))
  BY DEF Sx1262Tick, StartTransmit
<1>3. CASE UNCHANGED queue
  <2> DEFINE g == [k \in 1..Len(queue) |-> k]
  <2>1. Drawing(g, queue, queue, 1..Len(queue))
    BY DEF Drawing
  <2> HIDE DEF g
  <2>2. Drawn(queue, queue, 1..Len(queue))
    BY <1>1, <2>1 DEF Drawn
  <2> QED BY <1>3, <2>2
<1>4. ASSUME queue # <<>> PROVE i \in 1..Len(queue)
  BY <1>1, <1>4, HeadFacts
<1> HIDE DEF i
<1>5. CASE queue # <<>> /\ queue' = PutBack(i, Without({i}))
  <2>1. Drawn(PutBack(i, Without({i})), queue, ((1..Len(queue)) \ {i}) \cup {i})
    BY <1>1, <1>4, <1>5, DrawnPutBack
  <2>2. ((1..Len(queue)) \ {i}) \cup {i} = 1..Len(queue)
    BY <1>4, <1>5
  <2> QED BY <1>5, <2>1, <2>2
<1>6. CASE queue # <<>> /\ queue' = Without({i})
  <2>1. Drawn(Without({i}), queue, (1..Len(queue)) \ {i})
    BY <1>1, DrawnWithout
  <2> QED BY <1>6, <2>1 DEF Drawn, Drawing
<1> QED
  BY <1>2, <1>3, <1>5, <1>6

LEMMA ChipStep ==
    ASSUME RadioInv, NEW t \in Nat, NEW done \in BOOLEAN, NEW accepted \in BOOLEAN,
           NEW armed \in BOOLEAN, Sx1262Tick(t, done, accepted, armed)
    PROVE  RadioInv'
<1>1. /\ QueueOK /\ AccountOK /\ AirOK /\ now \in Nat /\ deadline \in Nat
      /\ transmitting \in BOOLEAN /\ listening \in BOOLEAN /\ queue \in Seq(Entry) /\ Len(queue) \in Nat
      /\ Grace \in Nat /\ aired \subseteq Transmission
  BY RadioAssumption, LenProperties DEF RadioInv, AccountOK, QueueOK
<1>2. driver = "SX1262" /\ now <= t /\ now' = t /\ UNCHANGED <<driver, sent>>
  BY <1>1 DEF Sx1262Tick
<1>3. PICK new : Record(t, new) /\ Started(t, new)
  BY ChipRecords
<1>4. aired' = aired \cup new
  BY <1>3 DEF Record
<1>5. transmitting' \in BOOLEAN /\ listening' \in BOOLEAN
  BY <1>1 DEF Sx1262Tick, StartTransmit
<1>6. Drawn(queue', queue, 1..Len(queue))
  BY <1>1, ChipQueue
<1>7. \A x \in aired : x.at \in Nat /\ x.airtime \in Nat
  BY <1>1, TransmissionFacts
<1>8. CASE new = {}
  <2>1. AccountOK' /\ aired' = aired
    BY <1>1, <1>2, <1>3, <1>8, QuietKeeps
  <2>2. QueueOK'
    <3>1. \A x \in new : \E i \in (1..Len(queue)) \ (1..Len(queue)) : x.id = queue[i].id
      BY <1>8
    <3>2. 1..Len(queue) \in SUBSET (1..Len(queue))
      OBVIOUS
    <3> QED BY <1>1, <1>2, <1>4, <1>6, <3>1, <3>2, DrawnKeeps
  <2>3. deadline' \in Nat /\ \A x \in aired : x.at + x.airtime <= IF transmitting' THEN deadline' ELSE t
    <3>1. CASE transmitting
      <4>1. /\ transmitting' = ~(done \/ t >= deadline) /\ deadline' = deadline
            /\ done => \A x \in aired : x.at + x.airtime <= t
        BY <3>1 DEF Sx1262Tick, Landed
      <4>2. \A x \in aired : x.at + x.airtime <= deadline
        BY <1>1, <1>2, <3>1 DEF AirOK
      <4>3. CASE done
        BY <1>1, <4>1, <4>3
      <4>4. CASE t >= deadline
        BY <1>1, <1>7, <4>1, <4>2, <4>4
      <4>5. CASE ~done /\ ~(t >= deadline)
        BY <1>1, <4>1, <4>2, <4>5
      <4> QED BY <4>3, <4>4, <4>5
    <3>2. CASE ~transmitting
      <4>1. \A x \in aired : x.at + x.airtime <= now
        BY <1>1, <1>2, <3>2 DEF AirOK
      <4>2. \A x \in aired : x.at + x.airtime <= t
        BY <1>1, <1>2, <1>7, <4>1
      <4>3. \/ transmitting' = FALSE /\ deadline' = deadline
            \/ /\ transmitting' = TRUE
               /\ deadline' = Deadline(t, AirtimeOf(First(1..Len(queue)))) /\ queue # <<>>
        BY <3>2 DEF Sx1262Tick, StartTransmit
      <4>4. CASE transmitting' = FALSE /\ deadline' = deadline
        BY <1>1, <4>2, <4>4
      <4>5. CASE /\ transmitting' = TRUE
                 /\ deadline' = Deadline(t, AirtimeOf(First(1..Len(queue)))) /\ queue # <<>>
        <5>1. First(1..Len(queue)) \in 1..Len(queue)
          BY <1>1, <4>5, HeadFacts
        <5>2. AirtimeOf(First(1..Len(queue))) \in Nat
          BY <1>1, <5>1, EntryFacts
        <5>3. deadline' \in Nat /\ deadline' >= t
          BY <1>1, <4>5, <5>2 DEF Deadline
        <5> QED BY <1>7, <4>2, <4>5, <5>3
      <4> QED BY <4>3, <4>4, <4>5
    <3> QED BY <1>1, <3>1, <3>2
  <2>4. AirOK'
    BY <1>1, <1>2, <2>1, <2>3 DEF AirOK, Apart
  <2> QED BY <1>1, <1>2, <1>5, <2>1, <2>2, <2>3, <2>4 DEF RadioInv
<1>9. CASE new # {}
  <2> DEFINE i == First(1..Len(queue))
             x == OnAir(i, t, 1)
  <2>1. /\ queue # <<>> /\ ~transmitting /\ Allows(t, AirtimeOf(i)) /\ new = {x}
        /\ transmitting' = TRUE /\ deadline' = Deadline(t, AirtimeOf(i)) /\ queue' = Without({i})
    BY <1>3, <1>9 DEF Started
  <2>2. i \in 1..Len(queue)
    BY <1>1, <2>1, HeadFacts
  <2> HIDE DEF i
  <2>3. /\ x \in Transmission /\ x \notin aired /\ x.at = t /\ x.id = queue[i].id
        /\ x.airtime = AirtimeOf(i) /\ AirtimeOf(i) \in Nat
    <3>1. IsFiniteSet(aired)
      BY <1>1 DEF AccountOK
    <3> HIDE DEF x
    <3>2. AirtimeOf(i) \in Nat
      BY <1>1, <2>2, EntryFacts
    <3> QED BY <1>1, <2>2, <3>1, <3>2, OnAirFacts DEF x
  <2> HIDE DEF x
  <2>4. AccountOK'
    <3>1. Total(new) = AirtimeOf(i) /\ IsFiniteSet(new)
      <4> DEFINE w == [y \in {x} |-> y.airtime]
      <4>1. w[x] = AirtimeOf(i)
        BY <2>3
      <4>2. Total({x}) = SumOver(w, {x})
        BY DEF Total
      <4> HIDE DEF w
      <4>3. IsFiniteSet({}) /\ {} \cup {x} = {x} /\ IsFiniteSet({x})
        BY FS_EmptySet, FS_Singleton
      <4>4. SumOver(w, {}) = 0
        BY <4>3, SumFacts
      <4>5. SumOver(w, {} \cup {x}) = w[x] + SumOver(w, {})
        BY <2>3, <4>1, <4>3, SumAdd
      <4> QED BY <2>1, <2>3, <4>1, <4>2, <4>3, <4>4, <4>5
    <3>2. Percent < 100 => Used(t) + Total(new) <= Budget
      BY <2>1, <3>1, RadioAssumption DEF Allows
    <3>3. new \subseteq Transmission /\ new \cap aired = {} /\ \A y \in new : y.at = t
      BY <2>1, <2>3
    <3> QED BY <1>1, <1>2, <1>3, <3>1, <3>2, <3>3, RecordKeeps
  <2>5. QueueOK'
    <3> DEFINE p == (1..Len(queue)) \ {i}
    <3>1. Drawn(queue', queue, p)
      BY <1>1, <2>1, DrawnWithout
    <3>2. \A y \in new : \E k \in (1..Len(queue)) \ p : y.id = queue[k].id
      BY <2>1, <2>2, <2>3
    <3>3. p \in SUBSET (1..Len(queue))
      OBVIOUS
    <3> HIDE DEF p
    <3> QED BY <1>1, <1>2, <1>4, <3>1, <3>2, <3>3, DrawnKeeps
  <2>6. deadline' \in Nat /\ x.at + x.airtime <= deadline' /\ t <= deadline'
    BY <1>1, <2>1, <2>3 DEF Deadline
  <2>7. \A y \in aired : y.at + y.airtime <= now
    BY <1>1, <1>2, <2>1 DEF AirOK
  <2>8. \A y \in aired : y.at + y.airtime <= t /\ y.at + y.airtime <= deadline' /\ Apart(y, x) /\ Apart(x, y)
    BY <1>1, <1>2, <1>7, <2>3, <2>6, <2>7 DEF Apart
  <2>9. AirOK'
    <3>1. \A y, z \in aired : y = z \/ Apart(y, z)
      BY <1>1, <1>2 DEF AirOK
    <3>2. \A y, z \in aired' : y = z \/ Apart(y, z)
      BY <1>4, <2>1, <2>8, <3>1
    <3>3. \A y \in aired' : y.at + y.airtime <= deadline'
      BY <1>4, <2>1, <2>6, <2>8
    <3> QED BY <2>1, <3>2, <3>3 DEF AirOK, Apart
  <2> QED BY <1>1, <1>2, <1>5, <2>4, <2>5, <2>6, <2>9 DEF RadioInv
<1> QED
  BY <1>8, <1>9

LEMMA NextInv == RadioInv /\ [Next]_vars => RadioInv'
<1> SUFFICES ASSUME RadioInv, [Next]_vars PROVE RadioInv'
  OBVIOUS
<1>1. CASE \E frame \in Frames, priority \in Priority : Send(frame, priority)
  BY <1>1, SendStep
<1>2. CASE \E armed \in BOOLEAN : Receive(armed)
  BY <1>2, ReceiveStep
<1>3. CASE \E t \in now..MaxTime : Tick(t)
  <2>1. PICK t \in now..MaxTime : Tick(t)
    BY <1>3
  <2>2. t \in Nat
    BY <2>1, RadioAssumption DEF RadioInv, AccountOK
  <2>3. CASE UdpTick(t)
    BY <2>2, <2>3, UdpTickStep
  <2>4. CASE \E done, accepted, armed \in BOOLEAN : Sx1262Tick(t, done, accepted, armed)
    BY <2>2, <2>4, ChipStep
  <2> QED BY <2>1, <2>3, <2>4 DEF Tick
<1>4. CASE UNCHANGED vars
  <2>1. UNCHANGED <<driver, now, queue, slots, used, transmitting, deadline, listening, sent, aired>>
    BY <1>4 DEF vars
  <2>2. AccountOK'
    BY <2>1 DEF RadioInv, AccountOK, Live, DutyKept, Total
  <2>3. QueueOK'
    BY <2>1 DEF RadioInv, QueueOK
  <2> QED BY <2>1, <2>2, <2>3 DEF RadioInv, AirOK, Apart
<1> QED
  BY <1>1, <1>2, <1>3, <1>4 DEF Next

LEMMA Invariance == Spec => []RadioInv
BY InitInv, NextInv, PTL DEF Spec

-----------------------------------------------------------------------------
(* A radio that was started again.  Its account is empty while what it     *)
(* sent before is still in the window: what is left of the invariant.      *)

LedgerOK ==
    /\ now \in Nat
    /\ aired \subseteq Transmission /\ IsFiniteSet(aired)
    /\ slots \subseteq aired /\ used = Total(slots)

WholeRadio ==
    /\ driver \in {"UDP", "SX1262"} /\ deadline \in Nat
    /\ transmitting \in BOOLEAN /\ listening \in BOOLEAN
    /\ LedgerOK
    /\ QueueOK

LEMMA InitWhole == Init => WholeRadio
<1> SUFFICES ASSUME Init PROVE WholeRadio
  OBVIOUS
<1>1. LedgerOK
  <2>1. Total({}) = 0 /\ IsFiniteSet({})
    BY FS_EmptySet, TotalFacts
  <2> QED BY <2>1 DEF Init, LedgerOK
<1>2. QueueOK
  BY InitInv DEF RadioInv
<1> QED
  BY <1>1, <1>2 DEF Init, WholeRadio

LEMMA LedgerRecords ==
    ASSUME LedgerOK, NEW t \in Nat, now' = t, NEW new, Record(t, new),
           IsFiniteSet(new), new \subseteq Transmission, new \cap aired = {}
    PROVE  LedgerOK'
<1> DEFINE gone == Expired(t)
           left == slots \ gone
<1>1. /\ aired \subseteq Transmission /\ IsFiniteSet(aired) /\ slots \subseteq aired
      /\ used = Total(slots)
  BY DEF LedgerOK
<1>2. /\ slots' = left \cup new /\ used' = Used(t) + Total(new) /\ aired' = aired \cup new
  BY DEF Record
<1>3. gone \subseteq slots /\ Used(t) = used - Total(gone)
  BY DEF Expired, Used
<1> HIDE DEF gone
<1>4. /\ IsFiniteSet(slots) /\ slots \subseteq Transmission
      /\ left \subseteq slots /\ gone \cup left = slots /\ gone \cap left = {}
  BY <1>1, <1>3, FS_Subset
<1> HIDE DEF left
<1>5. /\ IsFiniteSet(gone) /\ IsFiniteSet(left) /\ Total(gone) \in Nat /\ Total(left) \in Nat
  BY <1>3, <1>4, TotalFacts
<1>6. Total(gone \cup left) = Total(gone) + Total(left)
  BY <1>3, <1>4, <1>5, TotalSplit
<1>7. Used(t) = Total(left)
  <2>1. Total(slots) = Total(gone) + Total(left)
    BY <1>4, <1>6
  <2>2. Used(t) = Total(slots) - Total(gone)
    BY <1>1, <1>3
  <2> QED BY <1>5, <2>1, <2>2
<1>8. Total(left \cup new) = Total(left) + Total(new)
  <2>1. left \cap new = {} /\ left \subseteq Transmission
    BY <1>1, <1>4
  <2> QED BY <1>5, <2>1, TotalSplit
<1>9. used' = Total(slots')
  BY <1>2, <1>7, <1>8
<1>10. slots' \subseteq aired' /\ aired' \subseteq Transmission /\ IsFiniteSet(aired')
  BY <1>1, <1>2, <1>4, FS_Union
<1> QED
  BY <1>9, <1>10 DEF LedgerOK

\* Each of its steps, and the start itself.
LEMMA WholeSend ==
    ASSUME WholeRadio, NEW frame \in Frames, NEW priority \in Priority, Send(frame, priority)
    PROVE  WholeRadio'
<1>1. UNCHANGED <<driver, now, slots, used, transmitting, deadline, listening, aired>>
  BY DEF Send
<1>2. QueueOK'
  BY SendQueue DEF WholeRadio
<1> QED
  BY <1>1, <1>2 DEF WholeRadio, LedgerOK, Total

LEMMA WholeReceive ==
    ASSUME WholeRadio, NEW armed \in BOOLEAN, Receive(armed)
    PROVE  WholeRadio'
<1>1. /\ UNCHANGED <<driver, now, queue, slots, used, transmitting, deadline, sent, aired>>
      /\ listening' \in BOOLEAN
  BY DEF Receive
<1>2. QueueOK'
  BY <1>1 DEF WholeRadio, QueueOK
<1> QED
  BY <1>1, <1>2 DEF WholeRadio, LedgerOK, Total

LEMMA WholeUdpTick ==
    ASSUME WholeRadio, NEW t \in Nat, UdpTick(t)
    PROVE  WholeRadio'
<1>1. QueueOK /\ LedgerOK /\ IsFiniteSet(aired)
  BY DEF WholeRadio, LedgerOK
<1>2. /\ now' = t /\ Record(t, Outgoing(t))
      /\ UNCHANGED <<driver, transmitting, deadline, listening, sent>>
  BY UdpTickIs
<1>3. /\ IsFiniteSet(Outgoing(t)) /\ Outgoing(t) \subseteq Transmission
      /\ Outgoing(t) \cap aired = {}
  BY <1>1, OutgoingWhole
<1>4. LedgerOK'
  BY <1>1, <1>2, <1>3, LedgerRecords
<1>5. QueueOK'
  BY <1>1, UdpKeepsQueue
<1> QED
  BY <1>2, <1>4, <1>5 DEF WholeRadio

LEMMA WholeChipTick ==
    ASSUME WholeRadio, NEW t \in Nat, NEW done \in BOOLEAN, NEW accepted \in BOOLEAN,
           NEW armed \in BOOLEAN, Sx1262Tick(t, done, accepted, armed)
    PROVE  WholeRadio'
<1> DEFINE i == First(1..Len(queue))
           x == OnAir(i, t, 1)
<1>1. /\ QueueOK /\ LedgerOK /\ IsFiniteSet(aired) /\ queue \in Seq(Entry)
      /\ deadline \in Nat /\ transmitting \in BOOLEAN /\ listening \in BOOLEAN /\ Grace \in Nat
  BY RadioAssumption DEF WholeRadio, LedgerOK, QueueOK
<1>2. now' = t /\ UNCHANGED <<driver, sent>>
  BY DEF Sx1262Tick
<1>3. PICK new : Record(t, new) /\ Started(t, new)
  BY ChipRecords
<1>4. aired' = aired \cup new
  BY <1>3 DEF Record
<1>5. transmitting' \in BOOLEAN /\ listening' \in BOOLEAN
  BY <1>1 DEF Sx1262Tick, StartTransmit
<1>6. new = {} \/ (queue # <<>> /\ new = {x} /\ queue' = Without({i}))
  BY <1>3 DEF Started
<1>7. deadline' = deadline \/ (queue # <<>> /\ deadline' = Deadline(t, AirtimeOf(i)))
  BY DEF Sx1262Tick, StartTransmit
<1>8. ASSUME queue # <<>> PROVE i \in 1..Len(queue)
  BY <1>1, <1>8, HeadFacts
<1> HIDE DEF i
<1>9. ASSUME queue # <<>>
      PROVE  x \in Transmission /\ x \notin aired /\ x.id = queue[i].id /\ AirtimeOf(i) \in Nat
  BY <1>1, <1>8, <1>9, OnAirFacts, EntryFacts
<1> HIDE DEF x
<1>10. deadline' \in Nat
  BY <1>1, <1>7, <1>9 DEF Deadline
<1>11. LedgerOK'
  <2>1. IsFiniteSet({x}) /\ IsFiniteSet({})
    BY FS_Singleton, FS_EmptySet
  <2>2. IsFiniteSet(new) /\ new \subseteq Transmission /\ new \cap aired = {}
    BY <1>6, <1>9, <2>1
  <2> QED BY <1>1, <1>2, <1>3, <2>2, LedgerRecords
<1>12. QueueOK'
  <2>1. CASE new = {}
    <3>1. Drawn(queue', queue, 1..Len(queue))
      BY <1>1, ChipQueue
    <3>2. \A y \in new : \E k \in (1..Len(queue)) \ (1..Len(queue)) : y.id = queue[k].id
      BY <2>1
    <3>3. 1..Len(queue) \in SUBSET (1..Len(queue))
      OBVIOUS
    <3> QED BY <1>1, <1>2, <1>4, <3>1, <3>2, <3>3, DrawnKeeps
  <2>2. CASE queue # <<>> /\ new = {x} /\ queue' = Without({i})
    <3> DEFINE p == (1..Len(queue)) \ {i}
    <3>1. Drawn(queue', queue, p)
      BY <1>1, <2>2, DrawnWithout
    <3>2. \A y \in new : \E k \in (1..Len(queue)) \ p : y.id = queue[k].id
      BY <1>8, <1>9, <2>2
    <3>3. p \in SUBSET (1..Len(queue))
      OBVIOUS
    <3> HIDE DEF p
    <3> QED BY <1>1, <1>2, <1>4, <3>1, <3>2, <3>3, DrawnKeeps
  <2> QED BY <1>6, <2>1, <2>2
<1> QED
  BY <1>2, <1>5, <1>10, <1>11, <1>12 DEF WholeRadio

LEMMA WholeStart ==
    ASSUME WholeRadio, UNCHANGED <<driver, now, sent, aired>>,
           queue' = <<>>, slots' = {}, used' = 0, transmitting' = FALSE, deadline' = 0,
           listening' = TRUE
    PROVE  WholeRadio'
<1>1. LedgerOK'
  <2>1. Total({}) = 0
    BY FS_EmptySet, TotalFacts
  <2> QED BY <2>1 DEF WholeRadio, LedgerOK, Total
<1>2. QueueOK'
  <2>1. Len(<<>>) = 0 /\ <<>> \in Seq(Entry) /\ Depth \in Nat
    BY RadioAssumption
  <2>2. queue' \in Seq(Entry) /\ Len(queue') <= Depth /\ 1..Len(queue') = {}
    BY <2>1
  <2>3. /\ sent \in Seq([frame : Frames, priority : Priority])
        /\ \A x \in aired : x.id \in 1..Len(sent)
    BY DEF WholeRadio, QueueOK
  <2> QED BY <2>2, <2>3 DEF QueueOK
<1> QED
  BY <1>1, <1>2 DEF WholeRadio

LEMMA WholeTyped == WholeRadio => TypeOK
<1> SUFFICES ASSUME WholeRadio PROVE TypeOK
  OBVIOUS
<1>1. used \in Nat
  <2>1. slots \in SUBSET Transmission /\ IsFiniteSet(slots) /\ used = Total(slots)
    BY FS_Subset DEF WholeRadio, LedgerOK
  <2> QED BY <2>1, TotalFacts
<1> QED
  BY <1>1 DEF WholeRadio, LedgerOK, QueueOK, TypeOK

-----------------------------------------------------------------------------
(* The time on the air.                                                    *)

\* The transmission holds the air in the unit of time that begins at u.
Covers(x, u) == x.at <= u /\ u < x.at + x.airtime
Unit(x, u) == IF Covers(x, u) THEN 1 ELSE 0

\* How long the air is held in the window that begins at start.
Held(start) == SumOver([x \in aired |-> Overlap(x, start)], aired)

LEMMA OverlapIs ==
    ASSUME NEW x \in Transmission, NEW start \in Nat
    PROVE  Overlap(x, start) =
               LET from == IF x.at >= start THEN x.at ELSE start
                   to   == IF x.at + x.airtime <= start + Window
                           THEN x.at + x.airtime ELSE start + Window
               IN  IF from < to THEN to - from ELSE 0
<1>1. \A a, b \in Nat : Max({a, b}) = IF a >= b THEN a ELSE b
  BY DEF Max
<1>2. \A a, b \in Nat : Min({a, b}) = IF a <= b THEN a ELSE b
  BY DEF Min
<1>3. x.at \in Nat /\ x.airtime \in Nat /\ Window \in Nat
  BY TransmissionFacts, RadioAssumption
<1>4. x.at + x.airtime \in Nat /\ start + Window \in Nat
  BY <1>3
<1>5. Max({x.at, start}) = IF x.at >= start THEN x.at ELSE start
  BY <1>1, <1>3
<1>6. Min({x.at + x.airtime, start + Window}) =
          IF x.at + x.airtime <= start + Window THEN x.at + x.airtime ELSE start + Window
  BY <1>2, <1>4
<1> QED
  BY <1>5, <1>6 DEF Overlap

\* Moving the window by one leaves a unit out and takes one in.
LEMMA OverlapFacts ==
    ASSUME NEW x \in Transmission, NEW start \in Nat
    PROVE  /\ Overlap(x, start) \in Nat /\ Overlap(x, start) <= x.airtime
           /\ x.at \notin start..start + Window - 1 /\ ~(x.at < start /\ start < x.at + x.airtime)
                => Overlap(x, start) = 0
           /\ start > 0 => Overlap(x, start) + Unit(x, start - 1)
                             = Overlap(x, start - 1) + Unit(x, start + Window - 1)
<1>1. x.at \in Nat /\ x.airtime \in Nat /\ Window \in Nat \ {0}
  BY TransmissionFacts, RadioAssumption
<1>2. Overlap(x, start) = LET from == IF x.at >= start THEN x.at ELSE start
                              to   == IF x.at + x.airtime <= start + Window
                                      THEN x.at + x.airtime ELSE start + Window
                          IN  IF from < to THEN to - from ELSE 0
  BY OverlapIs
<1>3. ASSUME start > 0
      PROVE  Overlap(x, start - 1) = LET from == IF x.at >= start - 1 THEN x.at ELSE start - 1
                                         to   == IF x.at + x.airtime <= start - 1 + Window
                                                 THEN x.at + x.airtime ELSE start - 1 + Window
                                     IN  IF from < to THEN to - from ELSE 0
  <2>1. start - 1 \in Nat
    BY <1>3
  <2> QED BY <2>1, OverlapIs
<1> DEFINE a == x.at
           e == x.at + x.airtime
<1>4. a \in Nat /\ e \in Nat /\ a <= e /\ e - a = x.airtime
  BY <1>1
<1>5. /\ Overlap(x, start) \in Nat /\ Overlap(x, start) <= x.airtime
      /\ a \notin start..start + Window - 1 /\ ~(a < start /\ start < e) => Overlap(x, start) = 0
  BY <1>1, <1>2
<1>6. ASSUME start > 0
      PROVE  Overlap(x, start) + Unit(x, start - 1)
               = Overlap(x, start - 1) + Unit(x, start + Window - 1)
  BY <1>1, <1>2, <1>3, <1>6 DEF Unit, Covers
<1> QED
  BY <1>5, <1>6

\* With nothing on the air as the window begins, what is held is begun in it.
LEMMA HeldFresh ==
    ASSUME AccountOK, Percent < 100, NEW start \in 0..now,
           \A y \in aired : ~(y.at < start /\ start < y.at + y.airtime)
    PROVE  Held(start) <= Budget
<1> DEFINE W == {x \in aired : x.at \in start..start + Window - 1}
           v == [x \in aired |-> Overlap(x, start)]
           w == [x \in aired |-> x.airtime]
<1>1. aired \subseteq Transmission /\ IsFiniteSet(aired) /\ start \in Nat
  BY DEF AccountOK
<1>2. \A x \in aired : v[x] \in Nat /\ w[x] \in Nat /\ v[x] <= w[x]
  BY <1>1, OverlapFacts, TransmissionFacts
<1>3. \A x \in aired \ W : v[x] = 0
  BY <1>1, OverlapFacts
<1>4. Total(W) <= Budget
  BY DEF AccountOK, DutyKept
<1>5. W \subseteq aired /\ Held(start) = SumOver(v, aired)
  BY DEF Held
<1>6. SumOver(w, W) = Total(W)
  <2> HIDE DEF W
  <2> QED BY <1>1, <1>5, TotalIs
<1> DEFINE R == aired \ W
<1> HIDE DEF W
<1>7. /\ IsFiniteSet(W) /\ IsFiniteSet(R) /\ W \cap R = {} /\ W \cup R = aired
  BY <1>1, <1>5, FS_Subset
<1>8. \A x \in R : v[x] = 0
  BY <1>3
<1>9. R \subseteq aired
  OBVIOUS
<1> HIDE DEF v, w, R
<1>10. SumOver(v, W \cup R) = SumOver(v, W) + SumOver(v, R)
  <2>1. \A x \in W \cup R : v[x] \in Nat
    BY <1>2, <1>7
  <2> QED BY <1>7, <2>1, SumSplit
<1>11. SumOver(v, R) = 0
  BY <1>7, <1>8, SumZero
<1>12. SumOver(v, W) <= SumOver(w, W) /\ SumOver(v, W) \in Nat /\ SumOver(w, W) \in Nat
  <2>1. \A x \in W : w[x] \in Nat /\ v[x] \in Nat /\ v[x] <= w[x]
    BY <1>2, <1>5
  <2> QED BY <1>7, <2>1, SumLess, SumFacts
<1>13. SumOver(v, aired) = SumOver(v, W)
  <2>1. SumOver(v, aired) = SumOver(v, W \cup R)
    BY <1>7
  <2> QED BY <1>10, <1>11, <1>12, <2>1
<1> QED
  BY <1>4, <1>5, <1>6, <1>12, <1>13, BudgetNat

\* With one on the air as the window begins, it lost the unit that one held
\* before, and took in one that at most one other holds.
LEMMA HeldMoves ==
    ASSUME AccountOK, \A x, y \in aired : x = y \/ Apart(x, y), NEW start \in 1..now,
           NEW y \in aired, y.at < start, start < y.at + y.airtime
    PROVE  Held(start) <= Held(start - 1)
<1> DEFINE v == [x \in aired |-> Overlap(x, start)]
           w == [x \in aired |-> Overlap(x, start - 1)]
           last == start + Window - 1
<1>1. /\ aired \subseteq Transmission /\ IsFiniteSet(aired) /\ start \in Nat /\ start > 0
      /\ start - 1 \in Nat /\ last \in Nat
  BY RadioAssumption DEF AccountOK
<1>2. \A x \in aired : v[x] \in Nat /\ w[x] \in Nat
                       /\ v[x] + Unit(x, start - 1) = w[x] + Unit(x, last)
  BY <1>1, OverlapFacts
<1>3. Held(start) = SumOver(v, aired) /\ Held(start - 1) = SumOver(w, aired)
  BY DEF Held
<1>4. \A x \in aired : x.at \in Nat /\ x.airtime \in Nat
  BY <1>1, TransmissionFacts
<1>5. Covers(y, start - 1)
  BY <1>1, <1>4 DEF Covers
<1>6. \A x, z \in aired : Covers(x, last) /\ Covers(z, last) => x = z
  BY <1>1, <1>4 DEF Apart, Covers
<1> HIDE DEF v, w, last
<1>7. \A x \in aired : Unit(x, start - 1) \in 0..1 /\ Unit(x, last) \in 0..1
  BY DEF Unit
<1>8. Unit(y, start - 1) = 1
  BY <1>5 DEF Unit
<1>9. ASSUME NEW x \in aired, ~Covers(x, last) PROVE Unit(x, last) = 0 /\ v[x] <= w[x]
  <2>1. Unit(x, last) = 0
    BY <1>9 DEF Unit
  <2> QED BY <1>2, <1>7, <2>1
<1>10. CASE \A z \in aired \ {y} : ~Covers(z, last)
  <2>1. v[y] <= w[y]
    BY <1>2, <1>7, <1>8
  <2>2. \A x \in aired : w[x] \in Nat /\ v[x] \in Nat /\ v[x] <= w[x]
    BY <1>2, <1>9, <1>10, <2>1
  <2>3. aired \in SUBSET aired
    OBVIOUS
  <2> QED BY <1>1, <1>3, <2>2, <2>3, SumLess
<1>11. ASSUME NEW z \in aired \ {y}, Covers(z, last) PROVE Held(start) <= Held(start - 1)
  <2> DEFINE A == aired \ {y}
             B == A \ {z}
  <2>1. /\ IsFiniteSet(A) /\ IsFiniteSet(B) /\ z \in A /\ A \subseteq aired /\ B \subseteq aired
    BY <1>1, <1>11, FS_Subset
  <2>2. \A x \in B : ~Covers(x, last)
    BY <1>6, <1>11
  <2>3. ~Covers(y, last)
    BY <1>6, <1>11
  <2> HIDE DEF A, B
  <2>4. \A x \in B : w[x] \in Nat /\ v[x] \in Nat /\ v[x] <= w[x]
    BY <1>2, <1>9, <2>1, <2>2
  <2>5. SumOver(v, B) <= SumOver(w, B) /\ SumOver(v, B) \in Nat /\ SumOver(w, B) \in Nat
    BY <2>1, <2>4, SumLess, SumFacts
  <2>6. /\ SumOver(v, aired) = v[y] + SumOver(v, A)
        /\ SumOver(w, aired) = w[y] + SumOver(w, A)
    BY <1>1, <1>2, SumFacts DEF A
  <2>7. /\ SumOver(v, A) = v[z] + SumOver(v, B)
        /\ SumOver(w, A) = w[z] + SumOver(w, B)
    <3>1. \A x \in A : v[x] \in Nat /\ w[x] \in Nat
      BY <1>2, <2>1
    <3> QED BY <2>1, <3>1, SumFacts DEF B
  <2>8. v[y] + 1 = w[y] /\ v[z] <= w[z] + 1
    <3>1. Unit(y, last) = 0
      BY <1>9, <2>3
    <3>2. v[y] + 1 = w[y]
      BY <1>2, <1>8, <3>1
    <3>3. v[z] <= w[z] + 1
      BY <1>2, <1>7, <2>1
    <3> QED BY <3>2, <3>3
  <2>9. v[y] \in Nat /\ w[y] \in Nat /\ v[z] \in Nat /\ w[z] \in Nat
    BY <1>2, <2>1
  <2> QED BY <1>3, <2>5, <2>6, <2>7, <2>8, <2>9
<1> QED
  BY <1>10, <1>11

LEMMA HeldBounded ==
    ASSUME AccountOK, Percent < 100, \A x, y \in aired : x = y \/ Apart(x, y)
    PROVE  \A start \in 0..now : Held(start) <= Budget
<1> DEFINE S == {n \in 0..now : Held(n) <= Budget}
<1>1. now \in Nat /\ aired \subseteq Transmission /\ IsFiniteSet(aired)
  BY DEF AccountOK
<1>2. \A x \in aired : x.at \in Nat
  BY <1>1, TransmissionFacts
<1>3. 0 \in S
  <2>1. 0 \in 0..now /\ \A y \in aired : ~(y.at < 0)
    BY <1>1, <1>2
  <2> QED BY <2>1, HeldFresh
<1>4. ASSUME NEW n \in 1..now, n - 1 \in S PROVE n \in S
  <2>1. n \in 0..now /\ n \in Nat /\ n - 1 \in Nat
    BY <1>1
  <2>2. CASE \A y \in aired : ~(y.at < n /\ n < y.at + y.airtime)
    BY <2>1, <2>2, HeldFresh
  <2>3. ASSUME NEW y \in aired, y.at < n, n < y.at + y.airtime PROVE Held(n) <= Budget
    <3>1. Held(n) <= Held(n - 1) /\ Held(n - 1) <= Budget
      BY <1>4, <2>3, HeldMoves
    <3>2. \A k \in Nat : Held(k) \in Nat
      <4> SUFFICES ASSUME NEW k \in Nat PROVE Held(k) \in Nat
        OBVIOUS
      <4> DEFINE v == [x \in aired |-> Overlap(x, k)]
      <4>1. \A x \in aired : v[x] \in Nat
        BY <1>1, OverlapFacts
      <4>2. Held(k) = SumOver(v, aired)
        BY DEF Held
      <4> HIDE DEF v
      <4> QED BY <1>1, <4>1, <4>2, SumFacts
    <3> QED BY <2>1, <3>1, <3>2, BudgetNat
  <2> QED BY <2>1, <2>2, <2>3
<1>5. \A n \in 0..now : n \in S
  <2> HIDE DEF S
  <2> QED BY <1>1, <1>3, <1>4, InductionUpTo
<1> QED
  BY <1>5

-----------------------------------------------------------------------------
(* Theorems.                                                               *)

\* The types, and the queue never deeper than configured (TxQueue::push), with
\* both drivers.
THEOREM TypeCorrect == Spec => []TypeOK
<1>1. RadioInv => TypeOK
  <2> SUFFICES ASSUME RadioInv PROVE TypeOK
    OBVIOUS
  <2>1. slots \subseteq aired /\ used \in Nat
    <3>1. aired \subseteq Transmission /\ IsFiniteSet(aired) /\ slots \subseteq aired /\ used = Total(slots)
      BY DEF RadioInv, AccountOK, Live
    <3> QED BY <3>1, TotalFacts
  <2> QED BY <2>1 DEF RadioInv, AccountOK, QueueOK, TypeOK
<1> QED
  BY <1>1, Invariance, PTL

\* No window of the duty cycle's length, wherever it starts, has more airtime
\* begun in it than the budget, whatever is sent and whenever the ticks come
\* (DutyCycle::allows, record).
THEOREM DutyIsKept == Spec => []DutyKept
<1>1. RadioInv => DutyKept
  BY DEF RadioInv, AccountOK
<1> QED
  BY <1>1, Invariance, PTL

\* Nor is the air held for longer than the budget in any window of the chip's,
\* the ends of its frames counted where they fall: charging a frame when it
\* starts is enough (Sx1262Radio::startTransmit).
THEOREM AirIsKept == Spec => []AirKept
<1>1. RadioInv => AirKept
  BY HeldBounded DEF RadioInv, AirOK, AirKept, Held
<1> QED
  BY <1>1, Invariance, PTL

\* No frame goes on the air past a more urgent one that waits, refusals by the
\* duty cycle in between or not (TxQueue::pop, and the put-backs of both ticks).
THEOREM UrgentStaysFirst == Spec => UrgentFirst
<1> DEFINE Step == \A x \in aired' \ aired, i \in 1..Len(queue) :
                       sent[queue[i].id].priority < sent[x.id].priority =>
                           \A j \in 1..Len(queue') : queue'[j].id # queue[i].id
<1>1. ASSUME RadioInv, [Next]_vars PROVE Step
  <2>1. QueueOK /\ AccountOK /\ queue \in Seq(Entry) /\ now \in Nat /\ MaxTime \in Nat
    BY <1>1, RadioAssumption DEF RadioInv, QueueOK, AccountOK
  <2>2. CASE UNCHANGED aired
    BY <2>2
  <2>3. ASSUME NEW t \in now..MaxTime, Tick(t) PROVE Step
    <3>1. t \in Nat /\ now <= t
      BY <2>1, <2>3
    <3> SUFFICES ASSUME NEW x \in aired' \ aired, NEW i \in 1..Len(queue),
                        sent[queue[i].id].priority < sent[x.id].priority,
                        NEW j \in 1..Len(queue')
                 PROVE  queue'[j].id # queue[i].id
      OBVIOUS
    <3>2. \A k \in 1..Len(queue) : /\ queue[k].priority \in 0..2
                                   /\ queue[k].priority = sent[queue[k].id].priority
      BY <2>1, QueueFacts DEF QueueOK
    <3>3. CASE UdpTick(t)
      <4>1. x \in Outgoing(t)
        BY <3>3, UdpTickIs DEF Record
      <4>2. PICK k \in Popped(t) : x.id = queue[k].id
        BY <2>1, <3>1, <4>1, OutgoingFacts
      <4>3. k \in 1..Len(queue)
        BY DEF Popped
      <4>4. i \in UpTo(k)
        BY <3>2, <4>2, <4>3 DEF UpTo, Before
      <4>5. i \in Popped(t)
        BY <2>1, <4>4, PoppedDown
      <4>6. PICK g : Drawing(g, queue', queue, LeftOver(t))
        BY <2>1, <3>3, UdpQueue DEF Drawn
      <4>7. queue'[j] = queue[g[j]] /\ g[j] \in LeftOver(t)
        BY <4>6 DEF Drawing
      <4>8. g[j] \in 1..Len(queue) /\ g[j] # i
        BY <4>5, <4>7 DEF LeftOver
      <4> QED BY <2>1, <4>7, <4>8 DEF QueueOK
    <3>4. CASE \E done, accepted, armed \in BOOLEAN : Sx1262Tick(t, done, accepted, armed)
      <4>1. PICK new : Record(t, new) /\ Started(t, new)
        BY <3>4, ChipRecords
      <4>2. x \in new
        BY <4>1 DEF Record
      <4> DEFINE k == First(1..Len(queue))
      <4>3. queue # <<>> /\ x = OnAir(k, t, 1)
        BY <4>1, <4>2 DEF Started
      <4>4. k \in 1..Len(queue) /\ \A m \in (1..Len(queue)) \ {k} : Before(k, m)
        BY <2>1, <4>3, HeadFacts
      <4> HIDE DEF k
      <4>5. x.id = queue[k].id
        BY <4>3 DEF OnAir
      <4>6. queue[i].priority < queue[k].priority
        BY <3>2, <4>4, <4>5
      <4>7. i # k /\ Before(k, i)
        BY <3>2, <4>4, <4>6
      <4> QED BY <3>2, <4>4, <4>6, <4>7 DEF Before
    <3> QED BY <2>3, <3>3, <3>4 DEF Tick
  <2>4. UNCHANGED aired \/ \E t \in now..MaxTime : Tick(t)
    BY <1>1 DEF Next, Send, Receive, vars
  <2> QED BY <2>2, <2>3, <2>4
<1>2. RadioInv /\ [Next]_vars => [Step]_vars
  BY <1>1
<1>3. Spec => [][Step]_vars
  <2> HIDE DEF Step
  <2> QED BY <1>2, Invariance, PTL DEF Spec
<1> QED
  BY <1>3 DEF UrgentFirst
=============================================================================
