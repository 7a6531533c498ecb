----------------------------- MODULE ProofFacts -----------------------------
(***************************************************************************)
(* Facts about numbers and sequences that the proofs about more than one   *)
(* component rest on.                                                      *)
(***************************************************************************)
EXTENDS Tables, FiniteSetTheorems, SequenceTheorems, WellFoundedInduction, TLAPS

\* A non-empty set of naturals has a least element, and Min is it.
LEMMA MinFacts ==
    ASSUME NEW S, S \subseteq Nat, S # {}
    PROVE  Min(S) \in S /\ \A y \in S : Min(S) <= y
<1> DEFINE Less == {ss \in Nat \X Nat : ss[1] < ss[2]}
<1>1. IsWellFoundedOn(Less, Nat)
  BY NatLessThanWellFounded, Zenon DEF OpToRel
<1>2. \E x \in S : \A y \in S : ~(<<y, x>> \in Less)
  <2> HIDE DEF Less
  <2> QED BY <1>1, WFMin
<1>3. \A x, y \in Nat : <<y, x>> \in Less \/ x <= y
  OBVIOUS
<1>4. \E x \in S : \A y \in S : x <= y
  <2> HIDE DEF Less
  <2> QED BY <1>2, <1>3
<1> QED
  BY <1>4 DEF Min

\* A function on 1..n is a sequence of length n.
LEMMA FunctionIsSeq ==
    ASSUME NEW S, NEW n \in Nat, NEW f \in [1..n -> S]
    PROVE  f \in Seq(S) /\ Len(f) = n
<1>1. f \in Seq(S)
  BY SeqDef
<1>2. DOMAIN f = 1..n /\ DOMAIN f = 1..Len(f) /\ Len(f) \in Nat
  BY <1>1, LenProperties
<1> QED
  BY <1>1, <1>2

\* Induction up to a number, for a predicate given as the set where it holds.
LEMMA InductionUpTo ==
    ASSUME NEW L \in Nat, NEW S, 0 \in S, \A n \in 1..L : n - 1 \in S => n \in S
    PROVE  \A n \in 0..L : n \in S
<1> DEFINE bad == {n \in 0..L : n \notin S}
<1>1. SUFFICES ASSUME bad # {} PROVE FALSE
  OBVIOUS
<1>2. bad \subseteq Nat
  OBVIOUS
<1> DEFINE m == Min(bad)
<1>3. m \in bad /\ \A n \in bad : m <= n
  <2> HIDE DEF bad
  <2> QED BY <1>1, <1>2, MinFacts
<1> HIDE DEF m
<1>4. m \in 0..L /\ m \notin S /\ m # 0
  BY <1>3
<1>5. m - 1 \in 0..L /\ m - 1 \notin bad
  BY <1>3, <1>4
<1> QED
  BY <1>4, <1>5

\* The states of a loop after each of its n rounds, starting in a.
IsRun(f, n, A, a, step) ==
    f \in [0..n -> A] /\ f[0] = a /\ \A i \in 1..n : f[i] = step[i][f[i - 1]]

\* A loop over a state in A has a run.
LEMMA LoopRuns ==
    ASSUME NEW L \in Nat, NEW A, NEW a \in A, NEW step \in [1..L -> [A -> A]]
    PROVE  \E f : IsRun(f, L, A, a, step)
<1> USE DEF IsRun
<1> DEFINE Run(n, f) == IsRun(f, n, A, a, step)
           S == {n \in 0..L : \E f : Run(n, f)}
<1>1. 0 \in S
  <2>1. Run(0, [i \in 0..0 |-> a])
    OBVIOUS
  <2> HIDE DEF Run
  <2> QED BY <2>1
<1>2. ASSUME NEW n \in 1..L, n - 1 \in S PROVE n \in S
  <2>1. PICK f : Run(n - 1, f)
    BY <1>2
  <2> DEFINE g == [i \in 0..n |-> IF i = n THEN step[n][f[n - 1]] ELSE f[i]]
  <2>2. step[n][f[n - 1]] \in A /\ \A i \in 0..n - 1 : f[i] \in A
    BY <2>1
  <2>3. g \in [0..n -> A] /\ g[0] = a
    BY <2>1, <2>2
  <2>4. ASSUME NEW i \in 1..n PROVE g[i] = step[i][g[i - 1]]
    <3>1. CASE i = n
      BY <3>1
    <3>2. CASE i # n
      <4>1. i \in 1..n - 1 /\ i - 1 \in 0..n /\ i - 1 # n /\ i \in 0..n
        BY <3>2
      <4> QED BY <2>1, <3>2, <4>1
    <3> QED BY <3>1, <3>2
  <2>5. Run(n, g)
    <3> HIDE DEF g
    <3> QED BY <2>3, <2>4
  <2> HIDE DEF Run, g
  <2> QED BY <2>5
<1>3. L \in S
  <2> HIDE DEF S
  <2>1. \A n \in 0..L : n \in S
    BY <1>1, <1>2, InductionUpTo
  <2> QED BY <2>1
<1> QED
  BY <1>3

-----------------------------------------------------------------------------
(* Tables of rows that have a key.                                         *)

\* At most one row per key.
OneRowEach(table) == \A i, j \in 1..Len(table) : table[i].pk = table[j].pk => i = j

\* The same keys in the same rows.
SameKeys(old, new) == Len(new) = Len(old) /\ \A i \in 1..Len(old) : new[i].pk = old[i].pk

\* Writing a row without changing its key keeps the keys.
LEMMA WriteKeepsKeys ==
    ASSUME NEW S, NEW table \in Seq(S), NEW i \in 1..Len(table), NEW row \in S,
           row.pk = table[i].pk
    PROVE  SameKeys(table, [table EXCEPT ![i] = row])
<1> DEFINE w == [table EXCEPT ![i] = row]
<1>1. w \in Seq(S) /\ Len(w) = Len(table)
  BY ExceptSeq
<1>2. \A j \in 1..Len(table) : w[j] = IF j = i THEN row ELSE table[j]
  BY LenProperties
<1> HIDE DEF w
<1>3. SameKeys(table, w)
  BY <1>1, <1>2 DEF SameKeys
<1> QED BY <1>3 DEF w

\* The same keys, so one row per key still.
LEMMA SameKeysRows ==
    ASSUME NEW old, NEW new, SameKeys(old, new), OneRowEach(old)
    PROVE  OneRowEach(new)
BY DEF SameKeys, OneRowEach

-----------------------------------------------------------------------------
(* What Keep keeps.                                                        *)

\* Which of the first n elements of s each of out was.
Picks(g, out, s, places, n) ==
    /\ Len(out) \in 0..n /\ g \in [1..Len(out) -> {j \in 1..n : j \in places}]
    /\ \A i \in 1..Len(out) : out[i] = s[g[i]]
    /\ \A i, j \in 1..Len(out) : i < j => g[i] < g[j]
    /\ \A j \in 1..n : j \in places => \E i \in 1..Len(out) : g[i] = j

\* One more element.
LEMMA PicksNext ==
    ASSUME NEW S, NEW s, NEW places, NEW n \in Nat, NEW out \in Seq(S), NEW g,
           Picks(g, out, s, places, n), s[n + 1] \in S
    PROVE  \E h : Picks(h, IF n + 1 \in places THEN Append(out, s[n + 1]) ELSE out, s, places, n + 1)
<1> USE DEF Picks
<1>1. CASE n + 1 \notin places
  <2>1. Picks(g, out, s, places, n + 1)
    <3>1. {j \in 1..n : j \in places} = {j \in 1..n + 1 : j \in places}
      BY <1>1
    <3>2. \A j \in 1..n + 1 : j \in places => j \in 1..n
      BY <1>1
    <3> QED BY <3>1, <3>2
  <2> HIDE DEF Picks
  <2> QED BY <1>1, <2>1
<1>2. CASE n + 1 \in places
  <2> DEFINE L == Len(out)
             new == Append(out, s[n + 1])
             h == [i \in 1..L + 1 |-> IF i = L + 1 THEN n + 1 ELSE g[i]]
  <2>1. /\ Len(new) = L + 1 /\ L \in 0..n
        /\ \A i \in 1..L : new[i] = out[i]
        /\ new[L + 1] = s[n + 1]
    BY AppendProperties
  <2>2. \A i \in 1..L : g[i] \in 1..n /\ g[i] \in places
    OBVIOUS
  <2> HIDE DEF new, L
  <2>3. h \in [1..L + 1 -> {j \in 1..n + 1 : j \in places}]
    <3>1. ASSUME NEW i \in 1..L + 1
          PROVE  (IF i = L + 1 THEN n + 1 ELSE g[i]) \in {j \in 1..n + 1 : j \in places}
      BY <1>2, <2>1, <2>2
    <3> QED BY <3>1
  <2>4. h[L + 1] = n + 1 /\ \A i \in 1..L : h[i] = g[i]
    BY <2>1
  <2> HIDE DEF h
  <2>5. \A i \in 1..L : out[i] = s[g[i]]
    BY DEF L
  <2>6. \A i, j \in 1..L : i < j => g[i] < g[j]
    BY DEF L
  <2>7. \A j \in 1..n : j \in places => \E i \in 1..L : g[i] = j
    BY DEF L
  <2>8. \A i \in 1..L + 1 : new[i] = s[h[i]]
    BY <2>1, <2>4, <2>5
  <2>9. ASSUME NEW i \in 1..L + 1, NEW j \in 1..L + 1, i < j PROVE h[i] < h[j]
    <3>1. i \in 1..L
      BY <2>1, <2>9
    <3>2. CASE j \in 1..L
      BY <2>4, <2>6, <2>9, <3>1, <3>2
    <3>3. CASE j = L + 1
      BY <2>2, <2>4, <3>1, <3>3
    <3> QED BY <2>1, <3>2, <3>3
  <2>10. ASSUME NEW j \in 1..n + 1, j \in places PROVE \E i \in 1..L + 1 : h[i] = j
    <3>1. CASE j = n + 1
      BY <2>1, <2>4, <3>1
    <3>2. CASE j \in 1..n
      <4>1. PICK i \in 1..L : g[i] = j
        BY <2>7, <2>10, <3>2
      <4> QED BY <2>1, <2>4, <4>1
    <3> QED BY <3>1, <3>2
  <2>11. Picks(h, new, s, places, n + 1)
    BY <2>1, <2>3, <2>8, <2>9, <2>10
  <2> HIDE DEF Picks
  <2> QED BY <1>2, <2>11 DEF new
<1> QED
  BY <1>1, <1>2

LEMMA KeepPicks ==
    ASSUME NEW S, NEW s \in Seq(S), NEW places
    PROVE  Keep(s, places) \in Seq(S) /\ \E g : Picks(g, Keep(s, places), s, places, Len(s))
<1> DEFINE L == Len(s)
           A == Seq(S)
           step == [n \in 1..L |-> [out \in A |-> IF n \in places THEN Append(out, s[n]) ELSE out]]
           Body(f) == [n \in 0..L |-> IF n = 0 THEN <<>>
                                      ELSE IF n \in places THEN Append(f[n - 1], s[n]) ELSE f[n - 1]]
<1>1. L \in Nat /\ <<>> \in A /\ \A n \in 1..L : s[n] \in S
  BY LenProperties, ElementOfSeq, EmptySeq
<1>2. step \in [1..L -> [A -> A]]
  <2>1. ASSUME NEW n \in 1..L, NEW out \in A PROVE Append(out, s[n]) \in A
    BY <1>1, AppendProperties
  <2> HIDE DEF A
  <2> QED BY <2>1
<1> HIDE DEF L
<1>3. PICK f \in [0..L -> A] : f[0] = <<>> /\ \A i \in 1..L : f[i] = step[i][f[i - 1]]
  <2> HIDE DEF A, step
  <2>1. \E f : IsRun(f, L, A, <<>>, step)
    BY <1>1, <1>2, LoopRuns
  <2> QED BY <2>1 DEF IsRun
<1>4. f = Body(f)
  <2>1. ASSUME NEW n \in 0..L
        PROVE  f[n] = IF n = 0 THEN <<>>
                      ELSE IF n \in places THEN Append(f[n - 1], s[n]) ELSE f[n - 1]
    <3>1. CASE n = 0
      BY <1>3, <3>1
    <3>2. CASE n # 0
      <4>1. n \in 1..L /\ n - 1 \in 0..L
        BY <1>1, <3>2
      <4>2. f[n - 1] \in A
        BY <4>1
      <4> HIDE DEF A
      <4> QED BY <1>3, <3>2, <4>1, <4>2
    <3> QED BY <3>1, <3>2
  <2> HIDE DEF A
  <2> QED BY <2>1
<1> DEFINE kept == CHOOSE g : g = Body(g)
<1>5. kept = Body(kept)
  <2> HIDE DEF Body
  <2> QED BY <1>4
<1>6. Keep(s, places) = kept[L]
  BY DEF Keep, L
<1> HIDE DEF kept
<1>7. kept[0] = <<>>
  BY <1>1, <1>5
<1>8. ASSUME NEW n \in 1..L
      PROVE  kept[n] = IF n \in places THEN Append(kept[n - 1], s[n]) ELSE kept[n - 1]
  <2>1. n \in 0..L /\ n # 0
    BY <1>1
  <2>2. Body(kept)[n] = IF n \in places THEN Append(kept[n - 1], s[n]) ELSE kept[n - 1]
    BY <2>1
  <2> HIDE DEF Body
  <2> QED BY <1>5, <2>2
<1> DEFINE Q(n) == kept[n] \in A /\ \E g : Picks(g, kept[n], s, places, n)
           R == {n \in 0..L : Q(n)}
<1>9. 0 \in R
  <2>1. Picks(<<>>, <<>>, s, places, 0)
    BY DEF Picks
  <2>2. \E g : Picks(g, kept[0], s, places, 0)
    BY <1>7, <2>1
  <2>3. kept[0] \in A /\ 0 \in 0..L
    BY <1>1, <1>7
  <2> HIDE DEF A
  <2> QED BY <2>2, <2>3
<1>10. ASSUME NEW n \in 1..L, n - 1 \in R PROVE n \in R
  <2> DEFINE m == n - 1
             out == kept[m]
  <2>1. m \in Nat /\ m + 1 = n /\ out \in A /\ s[n] \in S
    BY <1>1, <1>10
  <2>2. PICK g : Picks(g, out, s, places, m)
    BY <1>10
  <2> HIDE DEF m, out
  <2>3. \E h : Picks(h, IF n \in places THEN Append(out, s[n]) ELSE out, s, places, n)
    BY <2>1, <2>2, PicksNext
  <2>4. kept[n] = IF n \in places THEN Append(out, s[n]) ELSE out
    BY <1>8 DEF m, out
  <2>5. kept[n] \in A
    BY <2>1, <2>4, AppendProperties
  <2>6. \E g_1 : Picks(g_1, kept[n], s, places, n)
    BY <2>3, <2>4
  <2> QED BY <2>5, <2>6
<1>11. \A n \in 0..L : n \in R
  <2> HIDE DEF R
  <2> QED BY <1>1, <1>9, <1>10, InductionUpTo
<1>12. Q(L)
  BY <1>1, <1>11
<1> QED
  BY <1>6, <1>12 DEF L

-----------------------------------------------------------------------------
(* Sequences of anything.                                                  *)

IsList(s) == \E S : s \in Seq(S)

LEMMA ListFacts ==
    ASSUME NEW s, IsList(s)
    PROVE  /\ Len(s) \in Nat /\ DOMAIN s = 1..Len(s)
           /\ s = <<>> <=> Len(s) = 0
<1>1. PICK S : s \in Seq(S)
  BY DEF IsList
<1> QED
  BY <1>1, LenProperties, EmptySeq

\* A sequence over a set is one over a larger one.
LEMMA SeqGrows ==
    ASSUME NEW S, NEW T, S \subseteq T, NEW s \in Seq(S)
    PROVE  s \in Seq(T)
<1>1. Len(s) \in Nat /\ s \in [1..Len(s) -> S]
  BY LenProperties
<1>2. s \in [1..Len(s) -> T]
  BY <1>1
<1> QED
  BY <1>1, <1>2, FunctionIsSeq

LEMMA ListAppend ==
    ASSUME NEW s, IsList(s), NEW e
    PROVE  /\ IsList(Append(s, e)) /\ Len(Append(s, e)) = Len(s) + 1
           /\ \A i \in 1..Len(s) : Append(s, e)[i] = s[i]
           /\ Append(s, e)[Len(s) + 1] = e
<1>1. PICK S : s \in Seq(S)
  BY DEF IsList
<1>2. s \in Seq(S \cup {e})
  BY <1>1, SeqGrows
<1> QED
  BY <1>2, AppendProperties DEF IsList

LEMMA ListTail ==
    ASSUME NEW s, IsList(s), s # <<>>
    PROVE  /\ IsList(Tail(s)) /\ Len(Tail(s)) = Len(s) - 1
           /\ \A i \in 1..Len(s) - 1 : Tail(s)[i] = s[i + 1]
<1>1. PICK S : s \in Seq(S)
  BY DEF IsList
<1> QED
  BY <1>1, HeadTailProperties DEF IsList

\* A function on 1..n is a list.
LEMMA ListOf ==
    ASSUME NEW n \in Nat, NEW f, f = [i \in 1..n |-> f[i]]
    PROVE  IsList(f) /\ Len(f) = n
<1> DEFINE R == {f[i] : i \in 1..n}
<1>1. f \in [1..n -> R]
  OBVIOUS
<1> HIDE DEF R
<1> QED
  BY <1>1, FunctionIsSeq DEF IsList

\* What is kept was there.
LEMMA ListKeep ==
    ASSUME NEW s, IsList(s), NEW places
    PROVE  /\ IsList(Keep(s, places)) /\ Len(Keep(s, places)) <= Len(s)
           /\ \A i \in 1..Len(Keep(s, places)) :
                  \E j \in 1..Len(s) : j \in places /\ Keep(s, places)[i] = s[j]
<1>1. PICK S : s \in Seq(S)
  BY DEF IsList
<1>2. Keep(s, places) \in Seq(S) /\ Len(s) \in Nat
  BY <1>1, KeepPicks, LenProperties
<1>3. PICK g : Picks(g, Keep(s, places), s, places, Len(s))
  BY <1>1, KeepPicks
<1> QED
  BY <1>2, <1>3 DEF IsList, Picks

LEMMA ListConcat ==
    ASSUME NEW s, IsList(s), NEW t, IsList(t)
    PROVE  IsList(s \o t) /\ Len(s \o t) = Len(s) + Len(t)
<1>1. PICK S : s \in Seq(S)
  BY DEF IsList
<1>2. PICK T : t \in Seq(T)
  BY DEF IsList
<1>3. s \in Seq(S \cup T) /\ t \in Seq(S \cup T)
  BY <1>1, <1>2, SeqGrows
<1> QED
  BY <1>3, ConcatProperties DEF IsList

-----------------------------------------------------------------------------
(* Sums over finite sets.                                                  *)

\* Induction over the subsets of a finite set, for a property given as the set
\* of those that have it.
LEMMA FiniteInduction ==
    ASSUME NEW S, IsFiniteSet(S), NEW P, {} \in P,
           \A T \in SUBSET S : \A x \in S : T \in P /\ x \notin T => T \cup {x} \in P
    PROVE  \A T \in SUBSET S : T \in P
<1> DEFINE L == Cardinality(S)
           R == {n \in 0..L : \A T \in SUBSET S : Cardinality(T) = n => T \in P}
<1>1. L \in Nat /\ \A T \in SUBSET S : IsFiniteSet(T) /\ Cardinality(T) \in 0..L
  <2>1. L \in Nat
    BY FS_CardinalityType
  <2>2. ASSUME NEW T \in SUBSET S PROVE IsFiniteSet(T) /\ Cardinality(T) \in Nat /\ Cardinality(T) <= L
    BY FS_Subset, FS_CardinalityType
  <2> QED BY <2>1, <2>2
<1> HIDE DEF L
<1>2. 0 \in R
  <2>1. \A T \in SUBSET S : Cardinality(T) = 0 => T = {}
    BY <1>1, FS_EmptySet
  <2> QED BY <1>1, <2>1
<1>3. ASSUME NEW n \in 1..L, n - 1 \in R PROVE n \in R
  <2>1. ASSUME NEW T \in SUBSET S, Cardinality(T) = n PROVE T \in P
    <3>1. T # {}
      BY <1>1, <2>1, FS_EmptySet
    <3>2. PICK x \in T : TRUE
      BY <3>1
    <3>3. IsFiniteSet(T \ {x}) /\ Cardinality(T \ {x}) = n - 1
      BY <1>1, <2>1, <3>2, FS_RemoveElement
    <3>4. T \ {x} \in P
      BY <1>3, <3>3
    <3>5. (T \ {x}) \cup {x} \in P
      BY <3>2, <3>4
    <3>6. (T \ {x}) \cup {x} = T
      BY <3>2
    <3> QED BY <3>5, <3>6
  <2>2. n \in 0..L
    BY <1>1
  <2> QED BY <2>1, <2>2
<1>4. \A n \in 0..L : n \in R
  <2> HIDE DEF R
  <2> QED BY <1>1, <1>2, <1>3, InductionUpTo
<1> QED
  BY <1>1, <1>4

\* The sum of w over every subset of S.
Sums(g, w, S) ==
    /\ g \in [SUBSET S -> Nat] /\ g[{}] = 0
    /\ \A T \in SUBSET S : \A c \in T : g[T] = w[c] + g[T \ {c}]

LEMMA SumsExist ==
    ASSUME NEW S, IsFiniteSet(S), NEW w, \A x \in S : w[x] \in Nat
    PROVE  \E g : Sums(g, w, S)
<1> DEFINE P == {T \in SUBSET S : \E g : Sums(g, w, T)}
<1>1. {} \in P
  <2>1. Sums([T \in SUBSET {} |-> 0], w, {})
    BY DEF Sums
  <2> QED BY <2>1
<1>2. ASSUME NEW T \in SUBSET S, NEW x \in S, T \in P, x \notin T PROVE T \cup {x} \in P
  <2>1. PICK g : Sums(g, w, T)
    BY <1>2
  <2> DEFINE V == T \cup {x}
             h == [U \in SUBSET V |-> IF x \in U THEN w[x] + g[U \ {x}] ELSE g[U]]
  <2>2. \A U \in SUBSET V : U \ {x} \in SUBSET T /\ (x \notin U => U \in SUBSET T)
    OBVIOUS
  <2>3. w[x] \in Nat /\ \A U \in SUBSET T : g[U] \in Nat
    BY <2>1 DEF Sums
  <2>4. h \in [SUBSET V -> Nat]
    BY <2>2, <2>3
  <2>5. h[{}] = 0
    BY <2>1 DEF Sums
  <2>6. ASSUME NEW U \in SUBSET V, NEW c \in U PROVE h[U] = w[c] + h[U \ {c}]
    <3>1. CASE c = x
      <4>1. h[U] = w[x] + g[U \ {x}] /\ U \ {x} \in SUBSET V /\ x \notin U \ {x}
        BY <3>1
      <4>2. h[U \ {x}] = g[U \ {x}]
        BY <4>1
      <4> QED BY <3>1, <4>1, <4>2
    <3>2. CASE c # x /\ x \in U
      <4> DEFINE A == U \ {x}
      <4>1. h[U] = w[x] + g[A] /\ A \in SUBSET T /\ c \in A
        BY <2>2, <3>2
      <4>2. g[A] = w[c] + g[A \ {c}]
        BY <2>1, <4>1 DEF Sums
      <4>3. U \ {c} \in SUBSET V /\ x \in U \ {c} /\ (U \ {c}) \ {x} = A \ {c}
        BY <3>2
      <4>4. h[U \ {c}] = w[x] + g[A \ {c}]
        BY <4>3
      <4>5. w[c] \in Nat /\ g[A \ {c}] \in Nat
        BY <2>3, <4>1
      <4> HIDE DEF h, A
      <4> QED BY <2>3, <4>1, <4>2, <4>4, <4>5
    <3>3. CASE c # x /\ x \notin U
      <4>1. U \in SUBSET T /\ U \ {c} \in SUBSET V /\ x \notin U \ {c}
        BY <2>2, <3>3
      <4>2. h[U] = g[U] /\ h[U \ {c}] = g[U \ {c}]
        BY <3>3, <4>1
      <4> HIDE DEF h
      <4> QED BY <2>1, <4>1, <4>2 DEF Sums
    <3> QED BY <3>1, <3>2, <3>3
  <2>7. Sums(h, w, V)
    <3> HIDE DEF h
    <3> QED BY <2>4, <2>5, <2>6 DEF Sums
  <2> QED BY <2>7
<1>3. \A T \in SUBSET S : T \in P
  <2> HIDE DEF P
  <2> QED BY <1>1, <1>2, FiniteInduction
<1> QED
  BY <1>3

LEMMA SumIs ==
    ASSUME NEW S, IsFiniteSet(S), NEW w, NEW g, Sums(g, w, S)
    PROVE  SumOver(w, S) = g[S]
<1> DEFINE ch(T) == CHOOSE x \in T : TRUE
           Body(f) == [T \in SUBSET S |-> IF T = {} THEN 0 ELSE w[ch(T)] + f[T \ {ch(T)}]]
           iter == CHOOSE f : f = Body(f)
<1>1. SumOver(w, S) = iter[S]
  BY DEF SumOver, MapThenSumSet, MapThenFoldSet
<1>2. \A T \in SUBSET S : T # {} => ch(T) \in T
  OBVIOUS
<1>3. g = Body(g)
  <2>1. ASSUME NEW T \in SUBSET S
        PROVE  g[T] = IF T = {} THEN 0 ELSE w[ch(T)] + g[T \ {ch(T)}]
    <3> HIDE DEF ch
    <3> QED BY <1>2 DEF Sums
  <2>2. g = [T \in SUBSET S |-> g[T]]
    BY DEF Sums
  <2> HIDE DEF ch
  <2> QED BY <2>1, <2>2
<1>4. iter = Body(iter)
  <2> HIDE DEF Body
  <2> QED BY <1>3
<1> HIDE DEF iter
<1>5. ASSUME NEW T \in SUBSET S
      PROVE  iter[T] = IF T = {} THEN 0 ELSE w[ch(T)] + iter[T \ {ch(T)}]
  <2>1. Body(iter)[T] = IF T = {} THEN 0 ELSE w[ch(T)] + iter[T \ {ch(T)}]
    OBVIOUS
  <2> HIDE DEF Body
  <2> QED BY <1>4, <2>1
<1> HIDE DEF ch, Body
<1> DEFINE L == Cardinality(S)
           R == {n \in 0..L : \A T \in SUBSET S : Cardinality(T) = n => iter[T] = g[T]}
<1>6. L \in Nat /\ \A T \in SUBSET S : IsFiniteSet(T) /\ Cardinality(T) \in 0..L
  <2>1. L \in Nat
    BY FS_CardinalityType
  <2>2. ASSUME NEW T \in SUBSET S PROVE IsFiniteSet(T) /\ Cardinality(T) \in Nat /\ Cardinality(T) <= L
    BY FS_Subset, FS_CardinalityType
  <2> QED BY <2>1, <2>2
<1>7. 0 \in R
  <2>1. \A T \in SUBSET S : Cardinality(T) = 0 => T = {}
    BY <1>6, FS_EmptySet
  <2>2. iter[{}] = 0 /\ g[{}] = 0
    BY <1>5 DEF Sums
  <2> QED BY <1>6, <2>1, <2>2
<1> HIDE DEF L
<1>8. ASSUME NEW n \in 1..L, n - 1 \in R PROVE n \in R
  <2>1. ASSUME NEW T \in SUBSET S, Cardinality(T) = n PROVE iter[T] = g[T]
    <3>1. T # {}
      BY <1>6, <2>1, FS_EmptySet
    <3>2. ch(T) \in T
      BY <1>2, <3>1
    <3>3. IsFiniteSet(T \ {ch(T)}) /\ Cardinality(T \ {ch(T)}) = n - 1
      BY <1>6, <2>1, <3>2, FS_RemoveElement
    <3>4. iter[T \ {ch(T)}] = g[T \ {ch(T)}]
      BY <1>8, <3>3
    <3>5. g[T] = w[ch(T)] + g[T \ {ch(T)}]
      BY <3>2 DEF Sums
    <3> QED BY <1>5, <3>1, <3>4, <3>5
  <2>2. n \in 0..L
    BY <1>6
  <2> QED BY <2>1, <2>2
<1>9. \A n \in 0..L : n \in R
  <2> HIDE DEF R
  <2> QED BY <1>6, <1>7, <1>8, InductionUpTo
<1> QED
  BY <1>1, <1>6, <1>9 DEF L

LEMMA SumFacts ==
    ASSUME NEW S, IsFiniteSet(S), NEW w, \A x \in S : w[x] \in Nat
    PROVE  /\ SumOver(w, S) \in Nat
           /\ S = {} => SumOver(w, S) = 0
           /\ \A x \in S : SumOver(w, S) = w[x] + SumOver(w, S \ {x})
<1>1. PICK g : Sums(g, w, S)
  BY SumsExist
<1>2. SumOver(w, S) = g[S] /\ g[S] \in Nat
  <2>1. SumOver(w, S) = g[S]
    BY <1>1, SumIs
  <2>2. S \in SUBSET S
    OBVIOUS
  <2> QED BY <1>1, <2>1, <2>2 DEF Sums
<1>3. S = {} => g[S] = 0
  BY <1>1 DEF Sums
<1>4. ASSUME NEW x \in S PROVE SumOver(w, S) = w[x] + SumOver(w, S \ {x})
  <2> DEFINE V == S \ {x}
             h == [T \in SUBSET V |-> g[T]]
  <2>1. \A T \in SUBSET V : T \in SUBSET S /\ h[T] = g[T] /\ \A c \in T : T \ {c} \in SUBSET V
    OBVIOUS
  <2>2. h \in [SUBSET V -> Nat]
    BY <1>1 DEF Sums
  <2>3. Sums(h, w, V)
    <3> HIDE DEF h
    <3> QED BY <1>1, <2>1, <2>2 DEF Sums
  <2>4. IsFiniteSet(V)
    BY FS_RemoveElement
  <2>5. SumOver(w, V) = h[V] /\ h[V] = g[V]
    BY <2>1, <2>3, <2>4, SumIs
  <2>6. g[S] = w[x] + g[V]
    BY <1>1 DEF Sums
  <2> QED BY <1>2, <2>5, <2>6
<1> QED
  BY <1>2, <1>3, <1>4

\* One more element.
LEMMA SumAdd ==
    ASSUME NEW S, IsFiniteSet(S), NEW w, \A y \in S : w[y] \in Nat, NEW x, x \notin S, w[x] \in Nat
    PROVE  SumOver(w, S \cup {x}) = w[x] + SumOver(w, S)
<1>1. IsFiniteSet(S \cup {x}) /\ \A y \in S \cup {x} : w[y] \in Nat
  BY FS_AddElement
<1>2. (S \cup {x}) \ {x} = S
  OBVIOUS
<1>3. x \in S \cup {x}
  OBVIOUS
<1> DEFINE V == S \cup {x}
<1>4. SumOver(w, V) = w[x] + SumOver(w, V \ {x})
  <2> HIDE DEF V
  <2> QED BY <1>1, <1>3, SumFacts DEF V
<1> QED
  BY <1>2, <1>4

\* More elements, and more of each, make a larger sum.
LEMMA SumLess ==
    ASSUME NEW S, IsFiniteSet(S), NEW T \in SUBSET S, NEW w, NEW v,
           \A x \in S : w[x] \in Nat, \A x \in T : v[x] \in Nat /\ v[x] <= w[x]
    PROVE  SumOver(v, T) <= SumOver(w, S)
<1> DEFINE P == {U \in SUBSET S : SumOver(v, U \cap T) <= SumOver(w, U)}
<1>1. \A U \in SUBSET S : IsFiniteSet(U) /\ IsFiniteSet(U \cap T)
  BY FS_Subset
<1>2. {} \in P
  <2>1. {} \cap T = {} /\ IsFiniteSet({})
    BY FS_EmptySet
  <2>2. SumOver(v, {}) = 0 /\ SumOver(w, {}) = 0
    BY <2>1, SumFacts
  <2> QED BY <2>1, <2>2
<1>3. ASSUME NEW U \in SUBSET S, NEW x \in S, U \in P, x \notin U PROVE U \cup {x} \in P
  <2> DEFINE A == U \cap T
  <2>1. /\ IsFiniteSet(U) /\ IsFiniteSet(A) /\ SumOver(v, A) <= SumOver(w, U)
        /\ \A y \in A : v[y] \in Nat
    BY <1>1, <1>3
  <2>2. SumOver(w, U \cup {x}) = w[x] + SumOver(w, U)
    BY <1>3, <2>1, SumAdd
  <2>3. SumOver(w, U) \in Nat /\ SumOver(v, A) \in Nat /\ w[x] \in Nat
    BY <2>1, SumFacts
  <2>4. CASE x \in T
    <3>1. (U \cup {x}) \cap T = A \cup {x} /\ x \notin A /\ v[x] \in Nat /\ v[x] <= w[x]
      BY <1>3, <2>4
    <3>2. SumOver(v, A \cup {x}) = v[x] + SumOver(v, A)
      <4> HIDE DEF A
      <4> QED BY <2>1, <3>1, SumAdd
    <3>3. SumOver(v, (U \cup {x}) \cap T) <= SumOver(w, U \cup {x})
      BY <2>1, <2>2, <2>3, <3>1, <3>2
    <3> QED BY <3>3
  <2>5. CASE x \notin T
    <3>1. (U \cup {x}) \cap T = A
      BY <2>5
    <3>2. SumOver(v, (U \cup {x}) \cap T) <= SumOver(w, U \cup {x})
      BY <2>1, <2>2, <2>3, <3>1
    <3> QED BY <3>2
  <2> QED BY <2>4, <2>5
<1>4. \A U \in SUBSET S : U \in P
  <2> HIDE DEF P
  <2> QED BY <1>2, <1>3, FiniteInduction
<1>5. S \cap T = T
  OBVIOUS
<1> QED
  BY <1>4, <1>5

\* Only the weights of the elements count.
LEMMA SumSame ==
    ASSUME NEW S, IsFiniteSet(S), NEW w, NEW v, \A x \in S : w[x] \in Nat /\ v[x] = w[x]
    PROVE  SumOver(v, S) = SumOver(w, S)
<1>1. SumOver(v, S) <= SumOver(w, S) /\ SumOver(w, S) <= SumOver(v, S)
  BY SumLess
<1>2. SumOver(v, S) \in Nat /\ SumOver(w, S) \in Nat
  BY SumFacts
<1> QED
  BY <1>1, <1>2

LEMMA SumZero ==
    ASSUME NEW S, IsFiniteSet(S), NEW w, \A x \in S : w[x] = 0
    PROVE  SumOver(w, S) = 0
<1> DEFINE P == {U \in SUBSET S : SumOver(w, U) = 0}
<1>1. {} \in P
  <2>1. IsFiniteSet({})
    BY FS_EmptySet
  <2> QED BY <2>1, SumFacts
<1>2. ASSUME NEW U \in SUBSET S, NEW x \in S, U \in P, x \notin U PROVE U \cup {x} \in P
  <2>1. IsFiniteSet(U) /\ (\A y \in U : w[y] \in Nat) /\ w[x] = 0 /\ w[x] \in Nat
    BY FS_Subset
  <2>2. SumOver(w, U \cup {x}) = w[x] + SumOver(w, U)
    BY <1>2, <2>1, SumAdd
  <2> QED BY <1>2, <2>1, <2>2
<1>3. \A U \in SUBSET S : U \in P
  <2> HIDE DEF P
  <2> QED BY <1>1, <1>2, FiniteInduction
<1> QED
  BY <1>3

LEMMA SumSplit ==
    ASSUME NEW A, IsFiniteSet(A), NEW B, IsFiniteSet(B), A \cap B = {}, NEW w,
           \A x \in A \cup B : w[x] \in Nat
    PROVE  SumOver(w, A \cup B) = SumOver(w, A) + SumOver(w, B) /\ IsFiniteSet(A \cup B)
<1> DEFINE P == {U \in SUBSET B : SumOver(w, A \cup U) = SumOver(w, A) + SumOver(w, U)}
<1>1. \A U \in SUBSET B : IsFiniteSet(U) /\ IsFiniteSet(A \cup U)
  BY FS_Subset, FS_Union
<1>2. {} \in P
  <2>1. A \cup {} = A /\ IsFiniteSet({})
    BY FS_EmptySet
  <2>2. SumOver(w, {}) = 0 /\ SumOver(w, A) \in Nat
    BY <2>1, SumFacts
  <2> QED BY <2>1, <2>2
<1>3. ASSUME NEW U \in SUBSET B, NEW x \in B, U \in P, x \notin U PROVE U \cup {x} \in P
  <2> DEFINE V == A \cup U
  <2>1. /\ IsFiniteSet(U) /\ IsFiniteSet(V) /\ SumOver(w, V) = SumOver(w, A) + SumOver(w, U)
        /\ \A y \in V : w[y] \in Nat
        /\ \A y \in U : w[y] \in Nat
    BY <1>1, <1>3
  <2>2. x \notin V /\ w[x] \in Nat /\ A \cup (U \cup {x}) = V \cup {x}
    BY <1>3
  <2>3. SumOver(w, U \cup {x}) = w[x] + SumOver(w, U)
    BY <1>3, <2>1, <2>2, SumAdd
  <2>4. SumOver(w, V \cup {x}) = w[x] + SumOver(w, V)
    <3> HIDE DEF V
    <3> QED BY <2>1, <2>2, SumAdd
  <2>5. SumOver(w, U) \in Nat /\ SumOver(w, A) \in Nat
    BY <2>1, SumFacts
  <2>6. SumOver(w, A \cup (U \cup {x})) = SumOver(w, A) + SumOver(w, U \cup {x})
    <3>1. SumOver(w, A \cup (U \cup {x})) = SumOver(w, V \cup {x})
      BY <2>2
    <3> HIDE DEF V
    <3>2. SumOver(w, V \cup {x}) = w[x] + (SumOver(w, A) + SumOver(w, U))
      BY <2>1, <2>4
    <3>3. w[x] + (SumOver(w, A) + SumOver(w, U)) = SumOver(w, A) + (w[x] + SumOver(w, U))
      BY <2>2, <2>5
    <3> QED BY <2>3, <3>1, <3>2, <3>3
  <2> QED BY <2>6
<1>4. \A U \in SUBSET B : U \in P
  <2> HIDE DEF P
  <2> QED BY <1>2, <1>3, FiniteInduction
<1> QED
  BY <1>1, <1>4

ImageOf(f, A) == {f[x] : x \in A}

\* The sum over an image, none of whose elements comes about twice.
LEMMA SumImage ==
    ASSUME NEW A, IsFiniteSet(A), NEW f, NEW w, NEW v,
           \A x, y \in A : f[x] = f[y] => x = y,
           \A x \in A : w[x] \in Nat /\ v[f[x]] = w[x]
    PROVE  SumOver(v, ImageOf(f, A)) = SumOver(w, A) /\ IsFiniteSet(ImageOf(f, A))
<1> DEFINE Im(U) == {f[x] : x \in U}
           P == {U \in SUBSET A : IsFiniteSet(Im(U)) /\ SumOver(v, Im(U)) = SumOver(w, U)}
<1>1. \A U \in SUBSET A : IsFiniteSet(U)
  BY FS_Subset
<1>2. {} \in P
  <2>1. Im({}) = {} /\ IsFiniteSet({})
    BY FS_EmptySet
  <2>2. SumOver(v, {}) = 0 /\ SumOver(w, {}) = 0
    BY <2>1, SumFacts
  <2> QED BY <2>1, <2>2
<1>3. ASSUME NEW U \in SUBSET A, NEW x \in A, U \in P, x \notin U PROVE U \cup {x} \in P
  <2> DEFINE I == Im(U)
  <2>1. Im(U \cup {x}) = I \cup {f[x]} /\ f[x] \notin I
    BY <1>3
  <2>2. /\ IsFiniteSet(I) /\ SumOver(v, I) = SumOver(w, U) /\ IsFiniteSet(U)
        /\ \A y \in I : v[y] \in Nat
        /\ w[x] \in Nat /\ v[f[x]] = w[x]
    BY <1>1, <1>3
  <2> HIDE DEF I
  <2>3. SumOver(v, I \cup {f[x]}) = w[x] + SumOver(w, U) /\ IsFiniteSet(I \cup {f[x]})
    <3> DEFINE e == f[x]
    <3>1. e \notin I /\ v[e] \in Nat /\ v[e] = w[x]
      BY <2>1, <2>2
    <3> HIDE DEF e
    <3>2. SumOver(v, I \cup {e}) = v[e] + SumOver(v, I)
      BY <2>2, <3>1, SumAdd
    <3>3. IsFiniteSet(I \cup {e})
      BY <2>2, FS_AddElement
    <3> QED BY <2>2, <3>1, <3>2, <3>3 DEF e
  <2>4. SumOver(w, U \cup {x}) = w[x] + SumOver(w, U)
    BY <1>3, <2>2, SumAdd
  <2>5. IsFiniteSet(Im(U \cup {x})) /\ SumOver(v, Im(U \cup {x})) = SumOver(w, U \cup {x})
    BY <2>1, <2>3, <2>4
  <2> QED BY <2>5
<1>4. \A U \in SUBSET A : U \in P
  <2> HIDE DEF P
  <2> QED BY <1>2, <1>3, FiniteInduction
<1> QED
  BY <1>4 DEF ImageOf
=============================================================================
