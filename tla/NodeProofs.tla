----------------------------- MODULE NodeProofs -----------------------------
(***************************************************************************)
(* Proofs about what a node knows of its peers and on what terms it        *)
(* carries for them, for every value of the constants: first contacts,     *)
(* their index, contacts.dat and the cache of secrets, then the transit    *)
(* policy.                                                                 *)
(*                                                                         *)
(* Contacts: one per key, and the index exact, keep each other up, since a *)
(* key is looked for through the index.  The file: a flush under way has   *)
(* written nothing or the list we still have, and nothing the power may    *)
(* bring back is torn.  The secrets: the slots used                        *)
(* since one was handed out are among those handed out since, so the least *)
(* used slot of a full cache was last handed out so long ago that its      *)
(* pointer is no longer promised.                                          *)
(*                                                                         *)
(* The policy: the bucket of a neighbour is a count, and the properties    *)
(* are about the floods that were carried.  The invariant ties the two     *)
(* together: the count is the number carried since the window began, none  *)
(* of them after it was over, and as long a stretch before the window      *)
(* holds no more than the allowance.                                       *)
(***************************************************************************)
EXTENDS Identity, Repeater, ProofFacts, FiniteSetTheorems

\* An index that has exactly the first n of a list, each once.
Exact(index, list, n) ==
    /\ index \in [Hashes -> Seq(Nat)]
    /\ \A h \in Hashes :
        /\ \A m \in 1..Len(index[h]) : index[h][m] \in 1..n /\ Hash[list[index[h][m]].pk] = h
        /\ \A i \in 1..n : Hash[list[i].pk] = h => \E m \in 1..Len(index[h]) : index[h][m] = i
        /\ \A l, m \in 1..Len(index[h]) : index[h][l] = index[h][m] => l = m

Lists == {list \in Seq(Contact) : Len(list) <= MaxContacts /\ OneRowEach(list)}

StoreOK == contacts \in Lists /\ echoed \in BOOLEAN /\ Exact(buckets, contacts, Len(contacts))

FileOK ==
    /\ saved \in Lists
    /\ \A f \in older \cup {file} : f = Absent \/ f \in Lists
    /\ ListIn(file) = IF flushing = "renamed" THEN contacts ELSE saved
    /\ flushing \in {"no", "writing", "renamed"}
    /\ temporary \in {Torn, Absent} \/ temporary \in Seq(Contact)
    /\ flushing = "writing" => temporary \in {Torn, contacts}

\* The slots handed out.
Handed == [pk : Keys \cup Strangers, at : Nat]

\* Of two slots, the one used later was also handed out later: the slots used
\* since the n-th of those handed out are among those handed out since.
UsedInTurn ==
    \A n \in 1..Len(handed), j \in 1..Len(secrets) :
        secrets[j].usedAt >= secrets[handed[n].at].usedAt =>
            \E m \in n..Len(handed) : handed[m].at = j

SecretsOK ==
    /\ secrets \in Seq(CachedSecret) /\ Len(secrets) <= MaxSecrets
    /\ clock \in Nat /\ \A i \in 1..Len(secrets) : secrets[i].usedAt <= clock
    /\ handed \in Seq(Handed) /\ Len(handed) <= MaxSecrets
    /\ SecretsStay
    /\ UsedInTurn

-----------------------------------------------------------------------------
(* The index.                                                              *)

\* A contact has a hash.
LEMMA HashOfKey == \A k \in Keys : Hash[k] \in Hashes
BY DEF Hashes

\* Indexing one more contact makes the index exact for one more.
LEMMA IndexContactExact ==
    ASSUME NEW list, NEW n \in Nat, NEW index, Exact(index, list, n), list[n + 1].pk \in Keys
    PROVE  Exact(IndexContact(index, list[n + 1].pk, n + 1), list, n + 1)
<1> DEFINE k == list[n + 1].pk
           new == IndexContact(index, k, n + 1)
<1>1. Hash[k] \in Hashes /\ index \in [Hashes -> Seq(Nat)] /\ n + 1 \in Nat
  BY HashOfKey DEF Exact
<1>2. new = [index EXCEPT ![Hash[k]] = Append(index[Hash[k]], n + 1)]
  BY DEF IndexContact
<1>3. ASSUME NEW h \in Hashes, h # Hash[k] PROVE new[h] = index[h]
  BY <1>1, <1>2, <1>3
<1>4. new[Hash[k]] = Append(index[Hash[k]], n + 1)
  BY <1>1, <1>2
<1>5. /\ new[Hash[k]] \in Seq(Nat) /\ Len(new[Hash[k]]) = Len(index[Hash[k]]) + 1
      /\ Len(index[Hash[k]]) \in Nat
      /\ \A m \in 1..Len(index[Hash[k]]) : new[Hash[k]][m] = index[Hash[k]][m]
      /\ new[Hash[k]][Len(index[Hash[k]]) + 1] = n + 1
  <2> DEFINE old == index[Hash[k]]
  <2>1. old \in Seq(Nat)
    BY <1>1
  <2> HIDE DEF old
  <2>2. /\ Append(old, n + 1) \in Seq(Nat) /\ Len(Append(old, n + 1)) = Len(old) + 1
        /\ Len(old) \in Nat
        /\ \A m \in 1..Len(old) : Append(old, n + 1)[m] = old[m]
        /\ Append(old, n + 1)[Len(old) + 1] = n + 1
    BY <1>1, <2>1, AppendProperties, LenProperties
  <2> QED BY <1>4, <2>2 DEF old
<1>6. new \in [Hashes -> Seq(Nat)]
  BY <1>1, <1>2, <1>4, <1>5
<1> HIDE DEF new
<1>7. ASSUME NEW h \in Hashes
      PROVE  /\ \A m \in 1..Len(new[h]) : new[h][m] \in 1..n + 1 /\ Hash[list[new[h][m]].pk] = h
             /\ \A i \in 1..n + 1 : Hash[list[i].pk] = h => \E m \in 1..Len(new[h]) : new[h][m] = i
             /\ \A l, m \in 1..Len(new[h]) : new[h][l] = new[h][m] => l = m
  <2>1. CASE h # Hash[k]
    <3>1. \A i \in 1..n + 1 : Hash[list[i].pk] = h => i \in 1..n
      BY <2>1
    <3> QED BY <1>3, <2>1, <3>1, SMTT(30) DEF Exact
  <2>2. CASE h = Hash[k]
    <3> DEFINE old == index[Hash[k]]
               more == new[Hash[k]]
    <3>1. /\ \A m \in 1..Len(old) : old[m] \in 1..n /\ Hash[list[old[m]].pk] = Hash[k]
          /\ \A i \in 1..n : Hash[list[i].pk] = Hash[k] => \E m \in 1..Len(old) : old[m] = i
          /\ \A l, m \in 1..Len(old) : old[l] = old[m] => l = m
      BY <1>1 DEF Exact
    <3>2. /\ Len(more) = Len(old) + 1 /\ Len(old) \in Nat
          /\ \A m \in 1..Len(old) : more[m] = old[m]
          /\ more[Len(old) + 1] = n + 1
      BY <1>5
    <3> HIDE DEF old, more
    <3>3. \A m \in 1..Len(more) : more[m] \in 1..n + 1 /\ Hash[list[more[m]].pk] = Hash[k]
      BY <3>1, <3>2
    <3>4. ASSUME NEW i \in 1..n + 1, Hash[list[i].pk] = Hash[k]
          PROVE  \E m \in 1..Len(more) : more[m] = i
      <4>1. CASE i \in 1..n
        <5>1. PICK m \in 1..Len(old) : old[m] = i
          BY <3>1, <3>4, <4>1
        <5> QED BY <3>2, <5>1
      <4>2. CASE i = n + 1
        BY <3>2, <4>2
      <4> QED BY <4>1, <4>2
    <3>5. \A l, m \in 1..Len(more) : more[l] = more[m] => l = m
      <4>1. \A m \in 1..Len(old) : more[m] # n + 1
        BY <3>1, <3>2
      <4> QED BY <3>1, <3>2, <4>1
    <3> QED BY <2>2, <3>3, <3>4, <3>5 DEF more
  <2> QED BY <2>1, <2>2
<1> QED
  BY <1>6, <1>7 DEF Exact, new

\* reindex makes it exact, whatever it was.
LEMMA ReindexedExact ==
    ASSUME NEW list \in Seq(Contact)
    PROVE  Exact(Reindexed(list), list, Len(list))
<1> DEFINE L == Len(list)
           A == [Hashes -> Seq(Nat)]
           empty == [h \in Hashes |-> <<>>]
           step == [n \in 1..L |-> [index \in A |-> IndexContact(index, list[n].pk, n)]]
           Body(f) == [n \in 0..L |-> IF n = 0 THEN empty
                                      ELSE IndexContact(f[n - 1], list[n].pk, n)]
<1>1. L \in Nat /\ \A n \in 1..L : list[n].pk \in Keys
  <2>1. \A n \in 1..L : list[n] \in Contact
    BY ElementOfSeq
  <2> QED BY <2>1, LenProperties DEF Contact
<1>2. empty \in A
  BY EmptySeq
<1>3. step \in [1..L -> [A -> A]]
  <2>1. ASSUME NEW n \in 1..L, NEW index \in A PROVE IndexContact(index, list[n].pk, n) \in A
    <3>1. Hash[list[n].pk] \in Hashes /\ n \in Nat
      BY <1>1, HashOfKey
    <3>2. Append(index[Hash[list[n].pk]], n) \in Seq(Nat)
      <4>1. index[Hash[list[n].pk]] \in Seq(Nat)
        BY <3>1
      <4> QED BY <3>1, <4>1, AppendProperties
    <3> QED BY <3>1, <3>2 DEF IndexContact
  <2> HIDE DEF A
  <2> QED BY <2>1
<1> HIDE DEF L
<1>4. PICK f \in [0..L -> A] : f[0] = empty /\ \A i \in 1..L : f[i] = step[i][f[i - 1]]
  <2> HIDE DEF A, empty, step
  <2>1. \E f : IsRun(f, L, A, empty, step)
    BY <1>1, <1>2, <1>3, LoopRuns
  <2> QED BY <2>1 DEF IsRun
<1>5. f = Body(f)
  <2>1. ASSUME NEW n \in 0..L
        PROVE  f[n] = IF n = 0 THEN empty ELSE IndexContact(f[n - 1], list[n].pk, n)
    <3>1. CASE n = 0
      BY <1>4, <3>1
    <3>2. CASE n # 0
      <4>1. n \in 1..L /\ n - 1 \in 0..L
        BY <1>1, <3>2
      <4>2. f[n - 1] \in A
        BY <4>1
      <4> HIDE DEF A, empty
      <4> QED BY <1>4, <3>2, <4>1, <4>2
    <3> QED BY <3>1, <3>2
  <2> HIDE DEF A, empty
  <2> QED BY <2>1
<1> DEFINE after == CHOOSE g : g = Body(g)
<1>6. after = Body(after)
  <2> HIDE DEF Body
  <2> QED BY <1>5
<1>7. Reindexed(list) = after[L]
  BY DEF Reindexed, L
<1> HIDE DEF after
<1>8. after[0] = empty
  BY <1>1, <1>6
<1>9. ASSUME NEW n \in 1..L PROVE after[n] = IndexContact(after[n - 1], list[n].pk, n)
  <2>1. n \in 0..L /\ n # 0
    BY <1>1
  <2>2. Body(after)[n] = IndexContact(after[n - 1], list[n].pk, n)
    BY <2>1
  <2> HIDE DEF Body
  <2> QED BY <1>6, <2>2
<1> DEFINE S == {n \in 0..L : Exact(after[n], list, n)}
<1>10. 0 \in S
  <2>1. \A h \in Hashes : empty[h] = <<>> /\ Len(empty[h]) = 0
    BY EmptySeq
  <2>2. Exact(empty, list, 0)
    <3> HIDE DEF empty
    <3> QED BY <1>2, <2>1 DEF Exact
  <2> QED BY <1>1, <1>8, <2>2
<1>11. ASSUME NEW n \in 1..L, n - 1 \in S PROVE n \in S
  <2>1. n - 1 \in Nat /\ (n - 1) + 1 = n /\ Exact(after[n - 1], list, n - 1)
    BY <1>11
  <2>2. Exact(IndexContact(after[n - 1], list[n].pk, n), list, n)
    BY <1>1, <2>1, IndexContactExact
  <2> QED BY <1>9, <2>2
<1>12. Exact(after[L], list, L)
  <2>1. \A n \in 0..L : n \in S
    <3> HIDE DEF S
    <3> QED BY <1>1, <1>10, <1>11, InductionUpTo
  <2> QED BY <1>1, <2>1
<1> QED
  BY <1>7, <1>12 DEF L

\* The index does not depend on anything but the keys.
LEMMA ExactSameKeys ==
    ASSUME NEW old, NEW new, NEW n \in Nat, NEW index, Exact(index, old, n),
           \A i \in 1..n : new[i].pk = old[i].pk
    PROVE  Exact(index, new, n)
<1>1. index \in [Hashes -> Seq(Nat)]
  BY DEF Exact
<1>2. ASSUME NEW h \in Hashes
      PROVE  /\ \A m \in 1..Len(index[h]) : index[h][m] \in 1..n /\ Hash[new[index[h][m]].pk] = h
             /\ \A i \in 1..n : Hash[new[i].pk] = h => \E m \in 1..Len(index[h]) : index[h][m] = i
             /\ \A l, m \in 1..Len(index[h]) : index[h][l] = index[h][m] => l = m
  <2> DEFINE b == index[h]
  <2>1. /\ \A m \in 1..Len(b) : b[m] \in 1..n /\ Hash[old[b[m]].pk] = h
        /\ \A i \in 1..n : Hash[old[i].pk] = h => \E m \in 1..Len(b) : b[m] = i
        /\ \A l, m \in 1..Len(b) : b[l] = b[m] => l = m
    BY DEF Exact
  <2> HIDE DEF b
  <2>2. \A m \in 1..Len(b) : b[m] \in 1..n /\ Hash[new[b[m]].pk] = h
    BY <2>1
  <2> QED BY <2>1, <2>2 DEF b
<1> QED
  BY <1>1, <1>2 DEF Exact

\* Through an exact index, find finds the contact of a key.
LEMMA FoundFacts ==
    ASSUME StoreOK, NEW k \in Keys
    PROVE  Found(k) = {i \in 1..Len(contacts) : contacts[i].pk = k}
<1>1. Hash[k] \in Hashes
  BY HashOfKey
<1>2. \A i \in 1..Len(contacts) :
          contacts[i].pk = k => \E m \in 1..Len(buckets[Hash[k]]) : buckets[Hash[k]][m] = i
  BY <1>1 DEF StoreOK, Exact
<1> QED
  BY <1>2 DEF Found

-----------------------------------------------------------------------------
(* The contacts.                                                           *)

\* A step that rolls no contact back and loses none but one of the oldest.
Kept ==
    \A i \in 1..Len(contacts) :
        \/ \E j \in 1..Len(contacts') :
               contacts'[j].pk = contacts[i].pk /\ contacts'[j].timestamp >= contacts[i].timestamp
        \/ /\ \A j \in 1..Len(contacts') : contacts'[j].pk # contacts[i].pk
           /\ \A j \in 1..Len(contacts) : contacts[j].timestamp >= contacts[i].timestamp

\* The rows of the list.
LEMMA ContactRows ==
    ASSUME StoreOK
    PROVE  /\ contacts \in Seq(Contact) /\ Len(contacts) \in Nat
           /\ \A i \in 1..Len(contacts) :
                  contacts[i] \in Contact /\ contacts[i].pk \in Keys /\ contacts[i].timestamp \in Nat
<1>1. contacts \in Seq(Contact) /\ Len(contacts) \in Nat
  BY LenProperties DEF StoreOK, Lists
<1>2. \A i \in 1..Len(contacts) : contacts[i] \in Contact
  BY <1>1, ElementOfSeq
<1> QED
  BY <1>1, <1>2 DEF Contact

\* A contact is brought up to date in its place.
LEMMA ContactUpdated ==
    ASSUME StoreOK, NEW i \in 1..Len(contacts), NEW row \in Contact,
           row.pk = contacts[i].pk, row.timestamp >= contacts[i].timestamp,
           contacts' = [contacts EXCEPT ![i] = row], buckets' = buckets
    PROVE  contacts' \in Lists /\ Exact(buckets', contacts', Len(contacts')) /\ Kept
<1>1. contacts \in Seq(Contact) /\ Len(contacts) \in Nat
  BY ContactRows
<1>2. contacts' \in Seq(Contact) /\ Len(contacts') = Len(contacts)
  BY <1>1, ExceptSeq
<1>3. \A j \in 1..Len(contacts) : contacts'[j] = IF j = i THEN row ELSE contacts[j]
  BY <1>1, LenProperties
<1>4. SameKeys(contacts, contacts')
  BY <1>2, <1>3 DEF SameKeys
<1>5. OneRowEach(contacts')
  BY <1>4, SameKeysRows DEF StoreOK, Lists
<1>6. contacts' \in Lists
  BY <1>2, <1>5 DEF StoreOK, Lists
<1>7. Exact(buckets', contacts', Len(contacts'))
  <2>1. \A j \in 1..Len(contacts) : contacts'[j].pk = contacts[j].pk
    BY <1>4 DEF SameKeys
  <2>2. Exact(buckets, contacts, Len(contacts))
    BY DEF StoreOK
  <2> QED BY <1>1, <1>2, <2>1, <2>2, ExactSameKeys
<1>8. Kept
  <2>1. ASSUME NEW j \in 1..Len(contacts)
        PROVE  contacts'[j].pk = contacts[j].pk /\ contacts'[j].timestamp >= contacts[j].timestamp
    <3>1. contacts[j].timestamp \in Nat
      BY ContactRows
    <3> QED BY <1>3, <3>1
  <2> QED BY <1>2, <2>1 DEF Kept
<1> QED
  BY <1>6, <1>7, <1>8

\* A contact nobody else has the key of is added at the end.
LEMMA ContactAdded ==
    ASSUME StoreOK, NEW row \in Contact, \A i \in 1..Len(contacts) : contacts[i].pk # row.pk,
           Len(contacts) < MaxContacts,
           contacts' = Append(contacts, row),
           buckets' = IndexContact(buckets, row.pk, Len(contacts) + 1)
    PROVE  contacts' \in Lists /\ Exact(buckets', contacts', Len(contacts')) /\ Kept
<1>1. contacts \in Seq(Contact) /\ Len(contacts) \in Nat
  BY ContactRows
<1>2. /\ contacts' \in Seq(Contact) /\ Len(contacts') = Len(contacts) + 1
      /\ \A i \in 1..Len(contacts) : contacts'[i] = contacts[i]
      /\ contacts'[Len(contacts) + 1] = row
  BY <1>1, AppendProperties
<1>3. OneRowEach(contacts')
  <2>1. OneRowEach(contacts)
    BY DEF StoreOK, Lists
  <2> QED BY <1>1, <1>2, <2>1 DEF OneRowEach
<1>4. contacts' \in Lists
  <2>1. Len(contacts') <= MaxContacts
    BY <1>1, <1>2, IdentityAssumption
  <2> QED BY <1>2, <1>3, <2>1 DEF Lists
<1>5. Exact(buckets', contacts', Len(contacts'))
  <2> DEFINE new == contacts'
             n == Len(contacts)
  <2>1. Exact(buckets, contacts, n)
    BY DEF StoreOK
  <2>2. \A i \in 1..n : new[i].pk = contacts[i].pk
    BY <1>2
  <2>3. new[n + 1].pk = row.pk /\ row.pk \in Keys /\ n \in Nat
    BY <1>1, <1>2 DEF Contact
  <2> HIDE DEF new
  <2>4. Exact(buckets, new, n)
    BY <1>1, <2>1, <2>2, ExactSameKeys
  <2>5. Exact(IndexContact(buckets, new[n + 1].pk, n + 1), new, n + 1)
    <3> HIDE DEF n
    <3> QED BY <2>3, <2>4, IndexContactExact
  <2> QED BY <1>2, <2>3, <2>5 DEF new
<1>6. Kept
  <2>1. ASSUME NEW j \in 1..Len(contacts)
        PROVE  /\ j \in 1..Len(contacts')
               /\ contacts'[j].pk = contacts[j].pk /\ contacts'[j].timestamp >= contacts[j].timestamp
    <3>1. contacts[j].timestamp \in Nat
      BY ContactRows
    <3> QED BY <1>1, <1>2, <3>1
  <2> QED BY <2>1 DEF Kept
<1> QED
  BY <1>4, <1>5, <1>6

\* The slot given up holds the oldest advert.
LEMMA VictimFacts ==
    ASSUME StoreOK, Len(contacts) >= MaxContacts
    PROVE  /\ Victim \in 1..Len(contacts)
           /\ \A j \in 1..Len(contacts) : contacts[j].timestamp >= contacts[Victim].timestamp
<1>1. /\ Len(contacts) \in Nat /\ 1 \in 1..Len(contacts)
      /\ \A i \in 1..Len(contacts) : contacts[i].timestamp \in Nat
  BY ContactRows, IdentityAssumption
<1> DEFINE T == {contacts[i].timestamp : i \in 1..Len(contacts)}
           oldest == Min(T)
           R == {i \in 1..Len(contacts) : contacts[i].timestamp = oldest}
<1>2. T \subseteq Nat /\ T # {}
  BY <1>1
<1>3. oldest \in T /\ \A t \in T : oldest <= t
  <2> HIDE DEF T
  <2> QED BY <1>2, MinFacts
<1> HIDE DEF oldest
<1>4. R \subseteq Nat /\ R # {}
  BY <1>1, <1>3
<1>5. Min(R) \in R
  <2> HIDE DEF R
  <2> QED BY <1>4, MinFacts
<1>6. Victim = Min(R)
  BY DEF Victim, oldest
<1>7. Victim \in 1..Len(contacts) /\ contacts[Victim].timestamp = oldest
  BY <1>5, <1>6
<1>8. \A j \in 1..Len(contacts) : contacts[j].timestamp >= oldest
  BY <1>1, <1>3
<1> QED
  BY <1>7, <1>8

\* A contact takes the slot of the oldest advert, and the list is indexed anew.
LEMMA ContactReplaced ==
    ASSUME StoreOK, NEW row \in Contact, \A i \in 1..Len(contacts) : contacts[i].pk # row.pk,
           Len(contacts) >= MaxContacts,
           contacts' = [contacts EXCEPT ![Victim] = row],
           buckets' = Reindexed(contacts')
    PROVE  contacts' \in Lists /\ Exact(buckets', contacts', Len(contacts')) /\ Kept
<1>1. contacts \in Seq(Contact) /\ Len(contacts) \in Nat
  BY ContactRows
<1>2. /\ Victim \in 1..Len(contacts)
      /\ \A j \in 1..Len(contacts) : contacts[j].timestamp >= contacts[Victim].timestamp
  BY VictimFacts
<1> DEFINE v == Victim
<1> HIDE DEF v
<1>3. v \in 1..Len(contacts) /\ contacts' = [contacts EXCEPT ![v] = row]
  BY <1>2 DEF v
<1>4. contacts' \in Seq(Contact) /\ Len(contacts') = Len(contacts)
  BY <1>1, <1>3, ExceptSeq
<1>5. \A j \in 1..Len(contacts) : contacts'[j] = IF j = v THEN row ELSE contacts[j]
  BY <1>1, <1>3, LenProperties
<1>6. OneRowEach(contacts)
  BY DEF StoreOK, Lists
<1>7. OneRowEach(contacts')
  BY <1>4, <1>5, <1>6 DEF OneRowEach
<1>8. contacts' \in Lists
  BY <1>4, <1>7 DEF StoreOK, Lists
<1>9. Exact(buckets', contacts', Len(contacts'))
  <2> DEFINE new == contacts'
  <2>1. new \in Seq(Contact) /\ buckets' = Reindexed(new)
    BY <1>4
  <2> HIDE DEF new
  <2>2. Exact(Reindexed(new), new, Len(new))
    BY <2>1, ReindexedExact
  <2> QED BY <2>1, <2>2 DEF new
<1>10. Kept
  <2>1. ASSUME NEW j \in 1..Len(contacts), j # v
        PROVE  contacts'[j].pk = contacts[j].pk /\ contacts'[j].timestamp >= contacts[j].timestamp
    <3>1. contacts[j].timestamp \in Nat
      BY ContactRows
    <3> QED BY <1>5, <2>1, <3>1
  <2>2. \A j \in 1..Len(contacts') : contacts'[j].pk # contacts[v].pk
    <3>1. contacts[v].pk # row.pk
      BY <1>3
    <3> QED BY <1>3, <1>4, <1>5, <1>6, <3>1 DEF OneRowEach
  <2>3. \A j \in 1..Len(contacts) : contacts[j].timestamp >= contacts[v].timestamp
    BY <1>2 DEF v
  <2> QED BY <1>3, <1>4, <2>1, <2>2, <2>3 DEF Kept
<1> QED
  BY <1>8, <1>9, <1>10

\* Every advert of somebody else.
LEMMA RememberKeeps ==
    ASSUME StoreOK, NEW k \in Keys, NEW ts \in Stamps, NEW wall \in Walls, NEW hops \in Hops,
           Remember(k, ts, wall, hops)
    PROVE  contacts' \in Lists /\ Exact(buckets', contacts', Len(contacts')) /\ Kept
<1>1. ts \in Nat /\ wall \in Nat /\ hops \in Nat
  BY IdentityAssumption
<1> DEFINE heard(c) == [c EXCEPT !.lastHeard = wall, !.hops = hops]
           fresh    == [pk |-> k, timestamp |-> ts, lastHeard |-> 0, hops |-> 0]
           row      == heard(fresh)
           evicting == Len(contacts) >= MaxContacts
           list     == IF evicting THEN [contacts EXCEPT ![Slot] = row] ELSE Append(contacts, row)
<1>2. Found(k) = {i \in 1..Len(contacts) : contacts[i].pk = k}
  BY FoundFacts
<1>3. ASSUME NEW i \in Found(k), Stale(i, ts),
             contacts' = [contacts EXCEPT ![i] = heard(contacts[i])], buckets' = buckets
      PROVE  contacts' \in Lists /\ Exact(buckets', contacts', Len(contacts')) /\ Kept
  <2> DEFINE c == contacts[i]
             new == heard(c)
  <2>1. i \in 1..Len(contacts) /\ c \in Contact /\ c.timestamp \in Nat
    BY <1>2, ContactRows
  <2> HIDE DEF c
  <2>2. new \in Contact /\ new.pk = c.pk /\ new.timestamp = c.timestamp
    BY <1>1, <2>1 DEF Contact
  <2>3. contacts' = [contacts EXCEPT ![i] = new]
    BY <1>3 DEF c
  <2> HIDE DEF new
  <2>4. new.timestamp >= c.timestamp
    BY <2>1, <2>2
  <2>5. new.pk = contacts[i].pk /\ new.timestamp >= contacts[i].timestamp
    BY <2>2, <2>4 DEF c
  <2> QED BY <1>3, <2>1, <2>2, <2>3, <2>5, ContactUpdated
<1>4. ASSUME NEW i \in Found(k), ~Stale(i, ts),
             contacts' = [contacts EXCEPT ![i] = [heard(contacts[i]) EXCEPT !.timestamp = ts]],
             buckets' = buckets
      PROVE  contacts' \in Lists /\ Exact(buckets', contacts', Len(contacts')) /\ Kept
  <2> DEFINE c == contacts[i]
             new == [heard(c) EXCEPT !.timestamp = ts]
  <2>1. i \in 1..Len(contacts) /\ c \in Contact /\ c.timestamp \in Nat /\ ~(ts <= c.timestamp)
    BY <1>2, <1>4, ContactRows DEF Stale
  <2> HIDE DEF c
  <2>2. new \in Contact /\ new.pk = c.pk /\ new.timestamp = ts
    BY <1>1, <2>1 DEF Contact
  <2>3. contacts' = [contacts EXCEPT ![i] = new]
    BY <1>4 DEF c
  <2> HIDE DEF new
  <2>4. new.timestamp >= c.timestamp
    BY <1>1, <2>1, <2>2
  <2>5. new.pk = contacts[i].pk /\ new.timestamp >= contacts[i].timestamp
    BY <2>2, <2>4 DEF c
  <2> QED BY <1>4, <2>1, <2>2, <2>3, <2>5, ContactUpdated
<1>5. ASSUME Found(k) = {}, contacts' = list, buckets' = IndexAfter(k, list, evicting)
      PROVE  contacts' \in Lists /\ Exact(buckets', contacts', Len(contacts')) /\ Kept
  <2>1. row \in Contact /\ row.pk = k
    BY <1>1 DEF Contact
  <2> HIDE DEF row
  <2>2. \A i \in 1..Len(contacts) : contacts[i].pk # row.pk
    BY <1>2, <1>5, <2>1
  <2>3. Len(contacts) \in Nat /\ MaxContacts \in Nat
    BY ContactRows, IdentityAssumption
  <2>4. CASE evicting
    <3>1. Slot = Victim
      BY <2>3, <2>4 DEF Slot
    <3>2. contacts' = [contacts EXCEPT ![Victim] = row] /\ buckets' = Reindexed(contacts')
      BY <1>5, <2>4, <3>1 DEF IndexAfter
    <3> QED BY <2>1, <2>2, <2>4, <3>2, ContactReplaced
  <2>5. CASE ~evicting
    <3>1. Slot = Len(contacts) + 1 /\ Len(contacts) < MaxContacts
      BY <2>3, <2>5 DEF Slot
    <3>2. contacts' = Append(contacts, row) /\ buckets' = IndexContact(buckets, row.pk, Len(contacts) + 1)
      BY <1>5, <2>1, <2>5, <3>1 DEF IndexAfter
    <3> QED BY <2>1, <2>2, <3>1, <3>2, ContactAdded
  <2> QED BY <2>4, <2>5
<1> QED
  BY <1>3, <1>4, <1>5 DEF Remember

\* A contact that stays as it is is kept.
LEMMA UnchangedKept ==
    ASSUME StoreOK, contacts' = contacts
    PROVE  Kept
<1>1. \A i \in 1..Len(contacts) : contacts[i].timestamp >= contacts[i].timestamp
  BY ContactRows
<1> QED
  BY <1>1 DEF Kept

-----------------------------------------------------------------------------
(* The store and contacts.dat, step by step.                               *)

\* The receiver has an advert.
LEMMA HearKeeps ==
    ASSUME StoreOK, FileOK, Hear
    PROVE  StoreOK' /\ FileOK' /\ Kept
<1>1. PICK k \in Keys \cup {Self}, ts \in Stamps, wall \in Walls, hops \in Hops :
          RememberIfAdvert(k, ts, wall, hops)
  BY DEF Hear
<1>2. flushing = "no" /\ UNCHANGED fileVars
  BY <1>1 DEF RememberIfAdvert
<1>3. FileOK'
  BY <1>2 DEF FileOK, fileVars, ListIn
<1>4. CASE k = Self
  <2>1. UNCHANGED <<contacts, buckets>> /\ echoed' \in BOOLEAN
    BY <1>1, <1>4 DEF RememberIfAdvert
  <2> QED BY <1>3, <2>1, UnchangedKept DEF StoreOK
<1>5. CASE k # Self
  <2>1. k \in Keys /\ Remember(k, ts, wall, hops) /\ echoed' = echoed
    BY <1>1, <1>5 DEF RememberIfAdvert
  <2>2. contacts' \in Lists /\ Exact(buckets', contacts', Len(contacts')) /\ Kept
    BY <2>1, RememberKeeps
  <2> QED BY <1>3, <2>1, <2>2 DEF StoreOK
<1> QED
  BY <1>4, <1>5

\* A step of flush.
LEMMA FlushKeeps ==
    ASSUME StoreOK, FileOK, Flush
    PROVE  StoreOK' /\ FileOK' /\ Kept
<1>1. UNCHANGED storeVars
  BY DEF Flush, FlushBegin, FlushWritten, FlushRename, FlushSucceeds, FlushFails
<1>2. StoreOK' /\ Kept
  BY <1>1, UnchangedKept DEF StoreOK, storeVars
<1>3. contacts' = contacts /\ contacts \in Lists /\ contacts \in Seq(Contact)
  BY <1>1 DEF storeVars, StoreOK, Lists
<1>4. contacts # Absent
  BY <1>3, FileAssumption
<1>5. CASE FlushBegin
  BY <1>2, <1>3, <1>5 DEF FlushBegin, FileOK, ListIn
<1>6. CASE FlushWritten
  BY <1>2, <1>3, <1>6 DEF FlushWritten, FileOK, ListIn
<1>7. CASE FlushRename
  <2>1. temporary = contacts
    BY <1>7 DEF FlushRename, Written, FileOK
  <2>2. /\ file' = contacts /\ temporary' = Absent /\ saved' = saved
        /\ older' = older \cup {file} /\ flushing' = "renamed"
    BY <1>7, <2>1 DEF FlushRename
  <2> QED BY <1>2, <1>3, <1>4, <2>2 DEF FileOK, ListIn
<1>8. ASSUME NEW synced \in BOOLEAN, FlushSucceeds(synced)
      PROVE  FileOK'
  <2>1. /\ flushing = "renamed" /\ flushing' = "no"
        /\ saved' = contacts /\ file' = file /\ temporary' = temporary
        /\ older' \subseteq older
    BY <1>8 DEF FlushSucceeds
  <2> QED BY <1>3, <2>1 DEF FileOK, ListIn
<1>9. CASE FlushFails
  BY <1>2, <1>3, <1>9 DEF FlushFails, FileOK, ListIn
<1>10. FileOK'
  BY <1>5, <1>6, <1>7, <1>8, <1>9 DEF Flush
<1> QED
  BY <1>2, <1>10

\* A start reads a whole list, whichever file the power has left.
LEMMA LoadKeeps ==
    ASSUME StoreOK, FileOK, SecretsOK, Restart \/ PowerCut
    PROVE  StoreOK' /\ FileOK' /\ SecretsOK'
<1>1. Load /\ file' \in older \cup {file} /\ older' \subseteq older
  BY DEF Restart, PowerCut
<1>2. file' = Absent \/ file' \in Lists
  BY <1>1 DEF FileOK
<1>3. contacts' \in Lists /\ contacts' \in Seq(Contact)
  <2>1. <<>> \in Lists
    BY IdentityAssumption DEF Lists, OneRowEach
  <2>2. contacts' = IF file' = Absent THEN <<>> ELSE file'
    BY <1>1 DEF Load, ListIn
  <2> QED BY <1>2, <2>1, <2>2 DEF Lists
<1>4. Exact(buckets', contacts', Len(contacts'))
  <2> DEFINE new == contacts'
  <2>1. new \in Seq(Contact) /\ buckets' = Reindexed(new)
    BY <1>1, <1>3 DEF Load
  <2> HIDE DEF new
  <2>2. Exact(Reindexed(new), new, Len(new))
    BY <2>1, ReindexedExact
  <2> QED BY <2>1, <2>2 DEF new
<1>5. StoreOK'
  BY <1>1, <1>3, <1>4 DEF StoreOK, Load
<1>6. FileOK'
  <2>1. /\ contacts' = ListIn(file') /\ saved' = contacts'
        /\ temporary' = Absent /\ flushing' = "no"
    BY <1>1 DEF Load
  <2>2. \A f \in older' \cup {file'} : f = Absent \/ f \in Lists
    BY <1>1 DEF FileOK
  <2> QED BY <1>3, <2>1, <2>2 DEF FileOK, ListIn
<1>7. SecretsOK'
  <2>1. \A S : <<>> \in Seq(S) /\ Len(<<>>) = 0
    OBVIOUS
  <2> QED BY <1>1, <2>1, IdentityAssumption DEF Load, SecretsOK, SecretsStay, UsedInTurn
<1> QED
  BY <1>5, <1>6, <1>7

-----------------------------------------------------------------------------
(* The secrets.                                                            *)

\* What the cache and the slots handed out are made of.
LEMMA SecretRows ==
    ASSUME SecretsOK
    PROVE  /\ Len(secrets) \in Nat /\ Len(handed) \in Nat
           /\ \A i \in 1..Len(secrets) :
                  secrets[i] \in CachedSecret /\ secrets[i].usedAt \in Nat /\ secrets[i].usedAt <= clock
           /\ \A n \in 1..Len(handed) :
                  /\ handed[n] \in Handed /\ handed[n].at \in 1..Len(secrets)
                  /\ secrets[handed[n].at].pk = handed[n].pk
<1>1. Len(secrets) \in Nat /\ Len(handed) \in Nat
  BY LenProperties DEF SecretsOK
<1>2. \A i \in 1..Len(secrets) : secrets[i] \in CachedSecret
  BY ElementOfSeq DEF SecretsOK
<1>3. \A n \in 1..Len(handed) : handed[n] \in Handed
  BY ElementOfSeq DEF SecretsOK
<1> QED
  BY <1>1, <1>2, <1>3 DEF SecretsOK, SecretsStay, CachedSecret

\* Positions n to L that name all of 1..M are at least M.
LEMMA Pigeons ==
    ASSUME NEW M \in Nat, NEW L \in Nat, NEW n \in 1..L, NEW at,
           \A j \in 1..M : \E m \in n..L : at[m] = j
    PROVE  M <= L - n + 1
<1> DEFINE S == 1..M
           T == n..L
           f == [j \in S |-> CHOOSE m \in T : at[m] = j]
<1>1. f \in [S -> T] /\ \A j \in S : at[f[j]] = j
  OBVIOUS
<1>2. IsFiniteSet(S) /\ Cardinality(S) = M
  BY FS_Interval
<1>3. IsFiniteSet(T) /\ Cardinality(T) = L - n + 1
  BY FS_Interval
<1>4. SUFFICES ASSUME Cardinality(T) < Cardinality(S) PROVE FALSE
  BY <1>2, <1>3
<1> HIDE DEF S, T, f
<1>5. PICK x \in S, y \in S : x # y /\ f[x] = f[y]
  BY <1>1, <1>2, <1>3, <1>4, FS_PigeonHole
<1> QED
  BY <1>1, <1>5

\* The slot that gives way in a full cache is the least used one.
LEMMA LeastUsedFacts ==
    ASSUME SecretsOK, Len(secrets) >= MaxSecrets
    PROVE  /\ LeastUsed \in 1..Len(secrets)
           /\ \A j \in 1..Len(secrets) : secrets[LeastUsed].usedAt <= secrets[j].usedAt
<1> DEFINE U == {secrets[i].usedAt : i \in 1..Len(secrets)}
<1>1. U \subseteq Nat /\ U # {}
  <2>1. 1 \in 1..Len(secrets)
    BY SecretRows, IdentityAssumption
  <2> QED BY <2>1, SecretRows
<1>2. Min(U) \in U /\ \A u \in U : Min(U) <= u
  <2> HIDE DEF U
  <2> QED BY <1>1, MinFacts
<1>3. \E i \in 1..Len(secrets) : \A j \in 1..Len(secrets) : secrets[i].usedAt <= secrets[j].usedAt
  <2>1. PICK i \in 1..Len(secrets) : secrets[i].usedAt = Min(U)
    BY <1>2
  <2>2. \A j \in 1..Len(secrets) : secrets[j].usedAt \in U
    OBVIOUS
  <2> HIDE DEF U
  <2> QED BY <1>2, <2>1, <2>2
<1> QED
  BY <1>3 DEF LeastUsed

\* It was handed out MAX_SECRET_CACHE calls ago or more.
LEMMA LeastUsedIsOld ==
    ASSUME SecretsOK, Len(secrets) >= MaxSecrets,
           NEW n \in 1..Len(handed), handed[n].at = LeastUsed
    PROVE  n = 1 /\ Len(handed) = MaxSecrets
<1>1. /\ Len(secrets) \in Nat /\ Len(handed) \in Nat /\ MaxSecrets \in Nat
      /\ Len(secrets) = MaxSecrets /\ Len(handed) <= MaxSecrets
      /\ \A j \in 1..Len(secrets) : secrets[j].usedAt \in Nat
  BY SecretRows, IdentityAssumption DEF SecretsOK
<1>2. /\ LeastUsed \in 1..Len(secrets)
      /\ \A j \in 1..Len(secrets) : secrets[LeastUsed].usedAt <= secrets[j].usedAt
  BY LeastUsedFacts
<1> DEFINE at == [m \in 1..Len(handed) |-> handed[m].at]
<1>3. ASSUME NEW j \in 1..Len(secrets) PROVE \E m \in n..Len(handed) : at[m] = j
  <2>1. secrets[j].usedAt >= secrets[handed[n].at].usedAt
    BY <1>1, <1>2
  <2>2. PICK m \in n..Len(handed) : handed[m].at = j
    BY <2>1 DEF SecretsOK, UsedInTurn
  <2>3. m \in 1..Len(handed)
    BY <1>1
  <2> QED BY <2>2, <2>3
<1> HIDE DEF at
<1>4. Len(secrets) <= Len(handed) - n + 1
  BY <1>1, <1>3, Pigeons
<1> QED
  BY <1>1, <1>4

\* The last n of a sequence that has at most one too many.
LEMMA LastOfFacts ==
    ASSUME NEW S, NEW s \in Seq(S), NEW n \in Nat \ {0}, Len(s) <= n + 1
    PROVE  LET d == IF Len(s) > n THEN 1 ELSE 0
           IN  /\ LastOf(s, n) \in Seq(S) /\ Len(LastOf(s, n)) = Len(s) - d
               /\ \A i \in 1..Len(s) - d : LastOf(s, n)[i] = s[i + d]
<1>1. Len(s) \in Nat
  BY LenProperties
<1>2. CASE Len(s) > n
  <2>1. Len(s) = n + 1 /\ LastOf(s, n) = SubSeq(s, 2, Len(s))
    BY <1>1, <1>2 DEF LastOf
  <2>2. /\ SubSeq(s, 2, Len(s)) \in Seq(S) /\ Len(SubSeq(s, 2, Len(s))) = Len(s) - 1
        /\ \A i \in 1..Len(s) - 1 : SubSeq(s, 2, Len(s))[i] = s[i + 1]
    <3>1. \A i \in 2..Len(s) : s[i] \in S
      BY <1>1, ElementOfSeq
    <3>2. Len(SubSeq(s, 2, Len(s))) = Len(s) - 1
      BY <1>1, <2>1, SubSeqProperties
    <3>3. \A i \in 1..Len(s) - 1 : SubSeq(s, 2, Len(s))[i] = s[i + 1]
      BY <1>1, <2>1, SubSeqProperties
    <3> QED BY <1>1, <2>1, <3>1, <3>2, <3>3, SubSeqProperties
  <2> QED BY <1>2, <2>1, <2>2
<1>3. CASE ~(Len(s) > n)
  BY <1>1, <1>3 DEF LastOf
<1> QED
  BY <1>2, <1>3

\* Handing out a slot that is written and was not promised to another key.
LEMMA HandOut ==
    ASSUME SecretsOK, NEW k \in Keys \cup Strangers, NEW at \in Nat,
           clock' = clock + 1,
           handed' = LastOf(Append(handed, [pk |-> k, at |-> at]), MaxSecrets),
           secrets' \in Seq(CachedSecret), Len(secrets') <= MaxSecrets,
           at \in 1..Len(secrets'), secrets'[at] = [pk |-> k, usedAt |-> clock + 1],
           Len(secrets) <= Len(secrets'),
           \A j \in 1..Len(secrets') : j # at => j \in 1..Len(secrets) /\ secrets'[j] = secrets[j],
           \A n \in 1..Len(handed) : handed[n].at = at =>
               handed[n].pk = k \/ (n = 1 /\ Len(handed) = MaxSecrets)
    PROVE  SecretsOK'
<1> DEFINE L == Len(handed)
           q == Append(handed, [pk |-> k, at |-> at])
           d == IF L + 1 > MaxSecrets THEN 1 ELSE 0
<1>1. /\ L \in Nat /\ L <= MaxSecrets /\ clock \in Nat /\ Len(secrets) \in Nat
      /\ \A i \in 1..Len(secrets) : secrets[i].usedAt \in Nat /\ secrets[i].usedAt <= clock
      /\ \A n \in 1..L : /\ handed[n] \in Handed /\ handed[n].at \in 1..Len(secrets)
                         /\ secrets[handed[n].at].pk = handed[n].pk
  BY SecretRows DEF SecretsOK
<1>2. Len(secrets') \in Nat /\ MaxSecrets \in Nat \ {0}
  BY LenProperties, IdentityAssumption
<1>3. /\ q \in Seq(Handed) /\ Len(q) = L + 1
      /\ \A n \in 1..L : q[n] = handed[n]
      /\ q[L + 1] = [pk |-> k, at |-> at]
  <2>1. [pk |-> k, at |-> at] \in Handed /\ handed \in Seq(Handed)
    BY DEF Handed, SecretsOK
  <2> QED BY <2>1, AppendProperties
<1> HIDE DEF q, L
<1>4. d \in {0, 1} /\ L + 1 - d \in Nat /\ L + 1 - d <= MaxSecrets
  BY <1>1, <1>2
<1>5. /\ handed' \in Seq(Handed) /\ Len(handed') = L + 1 - d
      /\ \A n \in 1..L + 1 - d : handed'[n] = q[n + d]
  <2>1. handed' = LastOf(q, MaxSecrets) /\ Len(q) <= MaxSecrets + 1
    BY <1>1, <1>2, <1>3 DEF q
  <2>2. d = IF Len(q) > MaxSecrets THEN 1 ELSE 0
    BY <1>3
  <2> HIDE DEF d
  <2>3. /\ LastOf(q, MaxSecrets) \in Seq(Handed) /\ Len(LastOf(q, MaxSecrets)) = Len(q) - d
        /\ \A i \in 1..Len(q) - d : LastOf(q, MaxSecrets)[i] = q[i + d]
    <3>1. q \in Seq(Handed) /\ MaxSecrets \in Nat \ {0} /\ Len(q) <= MaxSecrets + 1
      BY <1>2, <1>3, <2>1
    <3>2. LET e == IF Len(q) > MaxSecrets THEN 1 ELSE 0
          IN  /\ LastOf(q, MaxSecrets) \in Seq(Handed) /\ Len(LastOf(q, MaxSecrets)) = Len(q) - e
              /\ \A i \in 1..Len(q) - e : LastOf(q, MaxSecrets)[i] = q[i + e]
      BY <3>1, LastOfFacts, ZenonT(30)
    <3> QED BY <2>2, <3>2, ZenonT(30)
  <2>4. Len(q) - d = L + 1 - d
    BY <1>1, <1>3, <1>4
  <2> HIDE DEF q
  <2> QED BY <2>1, <2>3, <2>4
<1>6. \A n \in 1..L : handed[n].at = at => handed[n].pk = k \/ (n = 1 /\ d = 1)
  BY <1>1, <1>2 DEF L
<1> HIDE DEF d
<1>7. ASSUME NEW n \in 1 + d..L + 1
      PROVE  q[n].at \in 1..Len(secrets') /\ secrets'[q[n].at].pk = q[n].pk
  <2>1. CASE n = L + 1
    BY <1>3, <2>1
  <2>2. CASE n # L + 1
    <3>1. n \in 1..L /\ ~(n = 1 /\ d = 1) /\ q[n] = handed[n]
      BY <1>1, <1>3, <1>4, <2>2
    <3>2. q[n].at \in 1..Len(secrets) /\ secrets[q[n].at].pk = q[n].pk
      BY <1>1, <3>1
    <3>3. q[n].at \in 1..Len(secrets')
      BY <1>1, <1>2, <3>2
    <3>4. CASE q[n].at = at
      BY <1>6, <3>1, <3>3, <3>4
    <3>5. CASE q[n].at # at
      BY <3>2, <3>3, <3>5
    <3> QED BY <3>4, <3>5
  <2> QED BY <2>1, <2>2
<1>8. ASSUME NEW n \in 1 + d..L + 1, NEW j \in 1..Len(secrets'),
             secrets'[j].usedAt >= secrets'[q[n].at].usedAt
      PROVE  \E m \in n..L + 1 : q[m].at = j
  <2>1. CASE j = at
    BY <1>1, <1>3, <1>4, <2>1
  <2>2. CASE j # at
    <3>1. j \in 1..Len(secrets) /\ secrets'[j] = secrets[j]
      BY <2>2
    <3>2. q[n].at # at
      BY <1>1, <1>8, <3>1, SMTT(30)
    <3>3. n \in 1..L /\ q[n] = handed[n]
      BY <1>1, <1>3, <1>4, <3>2
    <3>4. secrets'[q[n].at] = secrets[q[n].at]
      BY <1>7, <3>2
    <3>5. PICK m \in n..L : handed[m].at = j
      BY <1>8, <3>1, <3>3, <3>4 DEF SecretsOK, UsedInTurn, L
    <3>6. m \in 1..L /\ m \in n..L + 1
      BY <1>1, <3>3
    <3> QED BY <1>3, <3>5, <3>6
  <2> QED BY <2>1, <2>2
<1>9. SecretsStay'
  <2>1. ASSUME NEW n \in 1..Len(handed')
        PROVE  handed'[n].at \in 1..Len(secrets') /\ secrets'[handed'[n].at].pk = handed'[n].pk
    <3>1. n + d \in 1 + d..L + 1 /\ handed'[n] = q[n + d]
      BY <1>1, <1>4, <1>5
    <3> QED BY <1>7, <3>1
  <2> QED BY <2>1 DEF SecretsStay
<1>10. UsedInTurn'
  <2>1. ASSUME NEW n \in 1..Len(handed'), NEW j \in 1..Len(secrets'),
               secrets'[j].usedAt >= secrets'[handed'[n].at].usedAt
        PROVE  \E m \in n..Len(handed') : handed'[m].at = j
    <3>1. n + d \in 1 + d..L + 1 /\ handed'[n] = q[n + d]
      BY <1>1, <1>4, <1>5, SMTT(30)
    <3>2. PICK m \in n + d..L + 1 : q[m].at = j
      BY <1>8, <2>1, <3>1
    <3>3. m - d \in n..Len(handed') /\ m - d \in 1..L + 1 - d /\ (m - d) + d = m
      BY <1>1, <1>4, <1>5
    <3>4. handed'[m - d] = q[m]
      BY <1>5, <3>3
    <3> QED BY <3>2, <3>3, <3>4
  <2> QED BY <2>1 DEF UsedInTurn
<1>11. clock' \in Nat /\ \A i \in 1..Len(secrets') : secrets'[i].usedAt <= clock'
  <2>1. ASSUME NEW i \in 1..Len(secrets') PROVE secrets'[i].usedAt <= clock + 1
    <3>1. CASE i = at
      BY <1>1, <3>1
    <3>2. CASE i # at
      BY <1>1, <3>2
    <3> QED BY <3>1, <3>2
  <2> QED BY <1>1, <2>1
<1> QED
  BY <1>4, <1>5, <1>9, <1>10, <1>11 DEF SecretsOK

\* secretFor.
LEMMA SecretForKeeps ==
    ASSUME SecretsOK, NEW k \in Keys \cup Strangers, SecretFor(k)
    PROVE  SecretsOK'
<1> DEFINE at == IF CachedAt(k) # {} THEN Min(CachedAt(k)) ELSE SecretSlot
           entry == [pk |-> k, usedAt |-> clock + 1]
<1>1. /\ Len(secrets) \in Nat /\ MaxSecrets \in Nat \ {0} /\ clock \in Nat
      /\ Len(secrets) <= MaxSecrets /\ secrets \in Seq(CachedSecret)
      /\ \A n \in 1..Len(handed) : secrets[handed[n].at].pk = handed[n].pk
      /\ \A n \in 1..Len(handed) : handed[n].at \in 1..Len(secrets)
  BY SecretRows, IdentityAssumption DEF SecretsOK
<1>2. CASE k \in Degenerate
  <2>1. UNCHANGED <<secrets, handed>> /\ clock' = clock + 1
    BY <1>2 DEF SecretFor
  <2>2. \A i \in 1..Len(secrets) : secrets[i].usedAt <= clock + 1
    BY <1>1, SecretRows
  <2> HIDE DEF at, entry
  <2>3. SecretsStay'
    BY <2>1 DEF SecretsOK, SecretsStay
  <2>5. UsedInTurn'
    BY <2>1 DEF SecretsOK, UsedInTurn
  <2>4. clock' \in Nat /\ \A i \in 1..Len(secrets') : secrets'[i].usedAt <= clock'
    BY <1>1, <2>1, <2>2
  <2> QED BY <2>1, <2>3, <2>4, <2>5 DEF SecretsOK
<1>3. CASE k \notin Degenerate
  <2>1. /\ clock' = clock + 1
        /\ secrets' = IF at > Len(secrets) THEN Append(secrets, entry)
                      ELSE [secrets EXCEPT ![at] = entry]
        /\ handed' = LastOf(Append(handed, [pk |-> k, at |-> at]), MaxSecrets)
    BY <1>3 DEF SecretFor
  <2>2. \/ at \in 1..Len(secrets) /\ secrets[at].pk = k
        \/ at \in 1..Len(secrets) /\ Len(secrets) >= MaxSecrets /\ at = LeastUsed
        \/ at = Len(secrets) + 1 /\ Len(secrets) < MaxSecrets
    <3>1. CASE CachedAt(k) # {}
      <4>1. CachedAt(k) \subseteq Nat
        BY <1>1 DEF CachedAt
      <4>2. Min(CachedAt(k)) \in CachedAt(k)
        BY <3>1, <4>1, MinFacts
      <4> QED BY <3>1, <4>2 DEF CachedAt
    <3>2. CASE CachedAt(k) = {} /\ Len(secrets) < MaxSecrets
      BY <3>2 DEF SecretSlot
    <3>3. CASE CachedAt(k) = {} /\ ~(Len(secrets) < MaxSecrets)
      <4>1. LeastUsed \in 1..Len(secrets) /\ Len(secrets) >= MaxSecrets
        BY <1>1, <3>3, LeastUsedFacts
      <4> QED BY <3>3, <4>1 DEF SecretSlot
    <3> QED BY <3>1, <3>2, <3>3
  <2>3. entry \in CachedSecret
    BY <1>1 DEF CachedSecret
  <2> HIDE DEF at
  <2>4. /\ secrets' \in Seq(CachedSecret) /\ Len(secrets') <= MaxSecrets
        /\ at \in 1..Len(secrets') /\ secrets'[at] = entry
        /\ Len(secrets) <= Len(secrets') /\ at \in Nat
        /\ \A j \in 1..Len(secrets') : j # at => j \in 1..Len(secrets) /\ secrets'[j] = secrets[j]
    <3> HIDE DEF entry
    <3>1. CASE at \in 1..Len(secrets)
      <4>1. secrets' = [secrets EXCEPT ![at] = entry]
        BY <1>1, <2>1, <3>1
      <4>2. secrets' \in Seq(CachedSecret) /\ Len(secrets') = Len(secrets)
        BY <1>1, <2>3, <3>1, <4>1, ExceptSeq
      <4>3. \A j \in 1..Len(secrets) : secrets'[j] = IF j = at THEN entry ELSE secrets[j]
        BY <1>1, <4>1, LenProperties
      <4>4. Len(secrets') <= MaxSecrets /\ at \in 1..Len(secrets') /\ at \in Nat
        BY <1>1, <3>1, <4>2
      <4>5. secrets'[at] = entry
        BY <3>1, <4>3
      <4>6. ASSUME NEW j \in 1..Len(secrets'), j # at
            PROVE  j \in 1..Len(secrets) /\ secrets'[j] = secrets[j]
        BY <4>2, <4>3, <4>6
      <4> QED BY <4>2, <4>4, <4>5, <4>6
    <3>2. CASE at = Len(secrets) + 1 /\ Len(secrets) < MaxSecrets
      <4>1. secrets' = Append(secrets, entry)
        BY <1>1, <2>1, <3>2
      <4>2. /\ secrets' \in Seq(CachedSecret) /\ Len(secrets') = Len(secrets) + 1
            /\ \A j \in 1..Len(secrets) : secrets'[j] = secrets[j]
            /\ secrets'[Len(secrets) + 1] = entry
        BY <1>1, <2>3, <4>1, AppendProperties
      <4> QED BY <1>1, <3>2, <4>2
    <3> QED BY <2>2, <3>1, <3>2
  <2>5. ASSUME NEW n \in 1..Len(handed), handed[n].at = at
        PROVE  handed[n].pk = k \/ (n = 1 /\ Len(handed) = MaxSecrets)
    <3>1. at \in 1..Len(secrets)
      BY <1>1, <2>5
    <3>2. at # Len(secrets) + 1
      BY <1>1, <3>1
    <3> QED BY <1>1, <2>2, <2>5, <3>2, LeastUsedIsOld
  <2> QED BY <2>1, <2>4, <2>5, HandOut
<1> QED
  BY <1>2, <1>3

-----------------------------------------------------------------------------
(* The theorems.                                                           *)

Inv == StoreOK /\ FileOK /\ SecretsOK

LEMMA InitInv == Init => Inv
<1> SUFFICES ASSUME Init PROVE Inv
  OBVIOUS
<1>1. \A S : <<>> \in Seq(S) /\ Len(<<>>) = 0
  OBVIOUS
<1>2. <<>> \in Lists
  BY <1>1, IdentityAssumption DEF Lists, OneRowEach
<1>3. StoreOK
  <2>1. /\ buckets \in [Hashes -> Seq(Nat)]
        /\ \A h \in Hashes : buckets[h] = <<>> /\ Len(buckets[h]) = 0
    BY <1>1 DEF Init
  <2>2. Exact(buckets, contacts, Len(contacts))
    BY <1>1, <2>1 DEF Exact, Init
  <2> QED BY <1>2, <2>2 DEF StoreOK, Init
<1>4. FileOK
  BY <1>2 DEF FileOK, Init, ListIn
<1>5. SecretsOK
  BY <1>1, IdentityAssumption DEF SecretsOK, SecretsStay, UsedInTurn, Init
<1> QED
  BY <1>3, <1>4, <1>5 DEF Inv

LEMMA SecretsUnchanged ==
    ASSUME SecretsOK, UNCHANGED secretVars
    PROVE  SecretsOK'
<1>1. secrets' = secrets /\ clock' = clock /\ handed' = handed
  BY DEF secretVars
<1>2. SecretsStay'
  BY <1>1 DEF SecretsOK, SecretsStay
<1>3. UsedInTurn'
  BY <1>1 DEF SecretsOK, UsedInTurn
<1> QED
  BY <1>1, <1>2, <1>3 DEF SecretsOK

LEMMA NextInv ==
    ASSUME Inv, [Next]_vars
    PROVE  Inv' /\ [Kept \/ Restart \/ PowerCut]_vars
<1> USE DEF Inv
<1>1. CASE Hear
  <2>1. UNCHANGED secretVars
    BY <1>1 DEF Hear, RememberIfAdvert
  <2>2. SecretsOK'
    BY <2>1, SecretsUnchanged
  <2> QED BY <1>1, <2>2, HearKeeps
<1>2. ASSUME NEW k \in Keys \cup Strangers, SecretFor(k)
      PROVE  Inv' /\ [Kept \/ Restart \/ PowerCut]_vars
  <2>1. UNCHANGED <<storeVars, fileVars>>
    BY <1>2 DEF SecretFor
  <2>2. StoreOK' /\ FileOK' /\ Kept
    BY <2>1, UnchangedKept DEF storeVars, fileVars, StoreOK, FileOK, ListIn
  <2> QED BY <1>2, <2>2, SecretForKeeps
<1>3. CASE Flush
  <2>1. UNCHANGED secretVars
    BY <1>3 DEF Flush, FlushBegin, FlushWritten, FlushRename, FlushSucceeds, FlushFails
  <2>2. SecretsOK'
    BY <2>1, SecretsUnchanged
  <2> QED BY <1>3, <2>2, FlushKeeps
<1>4. CASE Restart \/ PowerCut
  BY <1>4, LoadKeeps
<1>5. CASE UNCHANGED vars
  BY <1>5 DEF vars, storeVars, fileVars, secretVars, StoreOK, FileOK, ListIn, SecretsOK, SecretsStay, UsedInTurn
<1> QED
  BY <1>1, <1>2, <1>3, <1>4, <1>5 DEF Next

LEMMA Invariance == Spec => []Inv
<1>1. Inv /\ [Next]_vars => Inv'
  BY NextInv
<1> QED
  BY <1>1, InitInv, PTL DEF Spec

\* Whatever adverts, calls, flushes, failures and restarts there are, the
\* contacts, the index, the cache and the files are what TypeOK says, within
\* MAX_CONTACTS and MAX_SECRET_CACHE.
THEOREM TypeCorrect == Spec => []TypeOK
<1>1. Inv => TypeOK
  BY FileAssumption DEF Inv, StoreOK, FileOK, SecretsOK, TypeOK, Lists, Exact
<1> QED
  BY <1>1, Invariance, PTL

\* The index by hash is exact after any number of evictions and restarts: find
\* finds every contact, and nothing else.
THEOREM IndexStaysExact == Spec => []IndexExact
<1>1. Inv => IndexExact
  <2> SUFFICES ASSUME Inv PROVE IndexExact
    OBVIOUS
  <2>1. ASSUME NEW h \in Hashes
        PROVE  /\ {buckets[h][n] : n \in 1..Len(buckets[h])}
                     = {i \in 1..Len(contacts) : Hash[contacts[i].pk] = h}
               /\ \A m, n \in 1..Len(buckets[h]) : buckets[h][m] = buckets[h][n] => m = n
    <3> DEFINE b == buckets[h]
    <3>1. /\ \A m \in 1..Len(b) : b[m] \in 1..Len(contacts) /\ Hash[contacts[b[m]].pk] = h
          /\ \A i \in 1..Len(contacts) : Hash[contacts[i].pk] = h => \E m \in 1..Len(b) : b[m] = i
          /\ \A l, m \in 1..Len(b) : b[l] = b[m] => l = m
      BY DEF Inv, StoreOK, Exact
    <3> HIDE DEF b
    <3>2. {b[n] : n \in 1..Len(b)} = {i \in 1..Len(contacts) : Hash[contacts[i].pk] = h}
      <4>1. ASSUME NEW m \in 1..Len(b)
            PROVE  b[m] \in {i \in 1..Len(contacts) : Hash[contacts[i].pk] = h}
        BY <3>1
      <4>2. ASSUME NEW i \in 1..Len(contacts), Hash[contacts[i].pk] = h
            PROVE  i \in {b[n] : n \in 1..Len(b)}
        BY <3>1, <4>2
      <4> QED BY <4>1, <4>2
    <3> QED BY <3>1, <3>2 DEF b
  <2>2. OneRowEach(contacts)
    BY DEF Inv, StoreOK, Lists
  <2> QED BY <2>1, <2>2 DEF IndexExact, OneRowEach
<1> QED
  BY <1>1, Invariance, PTL

\* contacts.dat is the whole list of the last flush that succeeded, or of the
\* one about to, whenever the program ends; and whatever a power cut brings back
\* is whole, though it may be the list of an earlier flush, since a flush
\* succeeds whether or not the directory was synced.
THEOREM FileStaysWhole == Spec => []FileWhole
<1>1. Inv => FileWhole
  <2>1. ASSUME Inv, NEW f \in older \cup {file} PROVE f # Torn
    BY <2>1, FileAssumption DEF Inv, FileOK, Lists
  <2> QED BY <2>1 DEF Inv, FileOK, FileWhole
<1> QED
  BY <1>1, Invariance, PTL

\* The last MAX_SECRET_CACHE pointers that secretFor handed out are good.
THEOREM PointersStayGood == Spec => []SecretsStay
<1>1. Inv => SecretsStay
  BY DEF Inv, SecretsOK
<1> QED
  BY <1>1, Invariance, PTL

\* No replay of an old advert rolls a contact back, and the contact given up
\* for a new one has the oldest advert.
THEOREM NothingRolledBack == Spec => NoRollback
<1>1. Inv /\ [Next]_vars => [Kept \/ Restart \/ PowerCut]_vars
  BY NextInv
<1> QED
  BY <1>1, Invariance, PTL DEF Spec, NoRollback, Kept

-----------------------------------------------------------------------------
(* The transit policy.                                                     *)

Verdicts == {"forwarded", "hopLimit", "blocked", "rateLimited", "budget"}
Answer ==
    [nth : Nat, at : Nat, flood : BOOLEAN, via : Nodes, path : Seq(Nodes), verdict : Verdicts]

\* An answer that let a flood of this neighbour through between lo and hi.
Carries(x, s, lo, hi) ==
    x.flood /\ x.verdict = "forwarded" /\ x.at \in lo..hi /\ s = BucketOf(x)

\* CarriedFrom, of any set of answers.
From(answers, s, lo, hi) == {x \in answers : Carries(x, s, lo, hi)}

\* Every answer was given at a time that has come, and is numbered.
AnswersOK ==
    /\ IsFiniteSet(asked) /\ asked \subseteq Answer
    /\ \A x \in asked : x.at <= now /\ x.nth <= Cardinality(asked)
    /\ \A x \in asked : x.path # <<>> => x.via = x.path[Len(x.path)]

\* What a bucket says of the floods carried from its neighbour.
BucketOK(s) ==
    LET start == rates[s].windowStart
    IN  /\ start <= now
        /\ Cardinality(From(asked, s, start, now)) = rates[s].count
        /\ From(asked, s, start + RateWindow, now) = {}
        /\ Cardinality(From(asked, s, start - RateWindow + 1, start - 1)) <= FloodPerMinute

BucketsOK == FloodPerMinute # 0 => \A s \in Sources : BucketOK(s)

\* A flood refused for its rate finds its bucket used up within the last window.
BucketSpent ==
    \A x \in asked : x.verdict = "rateLimited" =>
        Cardinality({y \in From(asked, BucketOf(x), x.at - RateWindow + 1, x.at) : y.nth < x.nth})
            >= FloodPerMinute

IInv == PolicyTypeOK /\ AnswersOK /\ BucketsOK /\ RateKept /\ BucketSpent

-----------------------------------------------------------------------------
(* The floods carried.                                                     *)

\* The two ways of saying it.
LEMMA CarriedFromIsFrom ==
    ASSUME NEW s, NEW lo, NEW hi
    PROVE  /\ CarriedFrom(s, lo, hi) = From(asked, s, lo, hi)
           /\ CarriedFrom(s, lo, hi)' = From(asked', s, lo, hi)
BY DEF CarriedFrom, From, Carries, BucketOf

\* There are finitely many of them, and more in a longer stretch of time.
LEMMA FromFacts ==
    ASSUME NEW A, IsFiniteSet(A), NEW s,
           NEW lo \in Int, NEW hi \in Int, NEW lo2 \in Int, NEW hi2 \in Int,
           lo2 <= lo, \A x \in A : x.at \in Nat /\ (x.at <= hi => x.at <= hi2)
    PROVE  /\ IsFiniteSet(From(A, s, lo, hi)) /\ Cardinality(From(A, s, lo, hi)) \in Nat
           /\ From(A, s, lo, hi) \subseteq From(A, s, lo2, hi2)
           /\ Cardinality(From(A, s, lo, hi)) <= Cardinality(From(A, s, lo2, hi2))
<1>1. From(A, s, lo, hi) \subseteq A /\ From(A, s, lo2, hi2) \subseteq A
  BY DEF From
<1>2. IsFiniteSet(From(A, s, lo, hi)) /\ IsFiniteSet(From(A, s, lo2, hi2))
  BY <1>1, FS_Subset
<1>3. From(A, s, lo, hi) \subseteq From(A, s, lo2, hi2)
  BY DEF From, Carries
<1> QED
  BY <1>2, <1>3, FS_Subset, FS_CardinalityType

\* A stretch of time in two parts.
LEMMA FromSplit ==
    ASSUME NEW A, IsFiniteSet(A), \A x \in A : x.at \in Nat,
           NEW s, NEW lo \in Int, NEW mid \in Int, NEW hi \in Int
    PROVE  Cardinality(From(A, s, lo, hi))
               <= Cardinality(From(A, s, lo, mid - 1)) + Cardinality(From(A, s, mid, hi))
<1> DEFINE B == From(A, s, lo, mid - 1)
           C == From(A, s, mid, hi)
           D == From(A, s, lo, hi)
<1>1. D \subseteq B \cup C
  BY DEF From, Carries
<1>2. /\ IsFiniteSet(B) /\ IsFiniteSet(C) /\ IsFiniteSet(D)
      /\ Cardinality(B) \in Nat /\ Cardinality(C) \in Nat /\ Cardinality(D) \in Nat
  BY FromFacts
<1> HIDE DEF B, C, D
<1>3. /\ IsFiniteSet(B \cup C)
      /\ Cardinality(B \cup C) = Cardinality(B) + Cardinality(C) - Cardinality(B \cap C)
  BY <1>2, FS_Union
<1>4. Cardinality(B \cap C) \in Nat
  BY <1>2, FS_Intersection, FS_CardinalityType
<1>5. Cardinality(D) <= Cardinality(B \cup C)
  BY <1>1, <1>3, FS_Subset
<1>6. Cardinality(B \cup C) \in Nat
  BY <1>3, FS_CardinalityType
<1>7. Cardinality(D) <= Cardinality(B) + Cardinality(C)
  BY <1>2, <1>3, <1>4, <1>5, <1>6
<1> QED
  BY <1>7 DEF B, C, D

\* One more answer counts where it is one of them, and nowhere else.
LEMMA FromGrows ==
    ASSUME NEW A, IsFiniteSet(A), NEW x, x \notin A, NEW s, NEW lo, NEW hi
    PROVE  /\ From(A \cup {x}, s, lo, hi)
                  = From(A, s, lo, hi) \cup (IF Carries(x, s, lo, hi) THEN {x} ELSE {})
           /\ Cardinality(From(A \cup {x}, s, lo, hi))
                  = Cardinality(From(A, s, lo, hi)) + (IF Carries(x, s, lo, hi) THEN 1 ELSE 0)
           /\ ~Carries(x, s, lo, hi) => From(A \cup {x}, s, lo, hi) = From(A, s, lo, hi)
<1>1. From(A \cup {x}, s, lo, hi)
         = From(A, s, lo, hi) \cup (IF Carries(x, s, lo, hi) THEN {x} ELSE {})
  BY DEF From
<1>2. From(A, s, lo, hi) \subseteq A
  BY DEF From
<1>3. IsFiniteSet(From(A, s, lo, hi)) /\ Cardinality(From(A, s, lo, hi)) \in Nat
  BY <1>2, FS_Subset, FS_CardinalityType
<1>4. CASE Carries(x, s, lo, hi)
  BY <1>1, <1>2, <1>3, <1>4, FS_AddElement
<1>5. CASE ~Carries(x, s, lo, hi)
  <2>1. From(A \cup {x}, s, lo, hi) = From(A, s, lo, hi)
    BY <1>1, <1>5
  <2> QED BY <1>3, <1>5, <2>1
<1> QED
  BY <1>4, <1>5

-----------------------------------------------------------------------------
(* The policy.                                                             *)

\* A packet belongs to the bucket of the neighbour it was heard from.
LEMMA BucketOfFacts ==
    ASSUME NEW p \in Packets
    PROVE  /\ BucketOf(p) \in Sources
           /\ p.flood \in BOOLEAN /\ p.path \in Seq(Nodes)
           /\ p.via \in Nodes /\ (p.path # <<>> => p.via = p.path[Len(p.path)])
<1>1. p.flood \in BOOLEAN /\ p.path \in Seq(Nodes)
  BY RepeaterAssumption
<1>2. p.path # <<>> => Len(p.path) \in 1..Len(p.path)
  BY <1>1, EmptySeq
<1>3. p.path # <<>> => p.path[Len(p.path)] \in Nodes
  BY <1>1, <1>2, ElementOfSeq
<1> QED
  BY <1>1, <1>3, RepeaterAssumption DEF BucketOf, Sources

\* Only a flood is refused for its rate, and only when the rate is used up.
LEMMA VerdictFacts ==
    ASSUME NEW p, NEW t, NEW load
    PROVE  /\ Verdict(p, t, load) \in Verdicts
           /\ Verdict(p, t, load) = "rateLimited" => p.flood /\ ~WithinRate(p, t)
           /\ Verdict(p, t, load) = "forwarded" /\ p.flood => WithinRate(p, t)
BY DEF Verdict, Verdicts

\* A fresh policy has carried nothing.
LEMMA InitIInv == PolicyInit => IInv
<1> SUFFICES ASSUME PolicyInit PROVE IInv
  OBVIOUS
<1>1. PolicyTypeOK
  BY RepeaterAssumption DEF PolicyInit, PolicyTypeOK, Clamped, Bucket, NoStats
<1>2. AnswersOK
  BY FS_EmptySet DEF PolicyInit, AnswersOK
<1>3. \A s, lo, hi : From(asked, s, lo, hi) = {} /\ CarriedFrom(s, lo, hi) = {}
  BY CarriedFromIsFrom DEF PolicyInit, From
<1>4. BucketsOK
  <2>1. Cardinality({}) = 0
    BY FS_EmptySet
  <2>2. \A s \in Sources : rates[s].windowStart = 0 /\ rates[s].count = 0
    BY DEF PolicyInit
  <2>3. now = 0 /\ FloodPerMinute \in Nat
    BY RepeaterAssumption DEF PolicyInit
  <2>4. \A s, lo, hi : From(asked, s, lo, hi) = {} /\ Cardinality(From(asked, s, lo, hi)) = 0
    BY <1>3, <2>1
  <2> SUFFICES ASSUME NEW s \in Sources PROVE BucketOK(s)
    BY DEF BucketsOK
  <2> QED BY <2>2, <2>3, <2>4 DEF BucketOK
<1>5. RateKept
  <2>1. \A s, lo, hi : Cardinality(CarriedFrom(s, lo, hi)) = 0
    BY <1>3, FS_EmptySet
  <2> QED BY <2>1, RepeaterAssumption DEF RateKept
<1>6. BucketSpent
  BY DEF PolicyInit, BucketSpent
<1> QED
  BY <1>1, <1>2, <1>4, <1>5, <1>6 DEF IInv

\* Time passes and nothing is asked: nothing changes.
LEMMA QuietStep ==
    ASSUME IInv, PolicyTypeOK', now' \in Nat, now' >= now, UNCHANGED <<rates, asked>>
    PROVE  IInv'
<1>1. AnswersOK'
  BY DEF IInv, AnswersOK, PolicyTypeOK, Answer
<1>2. \A s, lo, hi : CarriedFrom(s, lo, hi)' = CarriedFrom(s, lo, hi)
  BY CarriedFromIsFrom
<1>3. \A x \in asked : x.at \in Nat /\ x.at <= now
  BY DEF IInv, AnswersOK, Answer
<1>4. \A s : \A lo \in Int : From(asked, s, lo, now') = From(asked, s, lo, now)
  BY <1>3 DEF From, Carries, IInv, PolicyTypeOK
<1>5. BucketsOK'
  <2> SUFFICES ASSUME FloodPerMinute # 0, NEW s \in Sources PROVE BucketOK(s)'
    BY DEF BucketsOK
  <2> DEFINE start == rates[s].windowStart
  <2>1. BucketOK(s) /\ start \in Nat
    BY DEF IInv, BucketsOK, PolicyTypeOK, Bucket
  <2>2. From(asked, s, start, now') = From(asked, s, start, now)
        /\ From(asked, s, start + RateWindow, now') = From(asked, s, start + RateWindow, now)
    BY <2>1, <1>4, RepeaterAssumption
  <2>3. start <= now'
    BY <2>1 DEF BucketOK, IInv, PolicyTypeOK
  <2> QED BY <2>1, <2>2, <2>3 DEF BucketOK, From, Carries, BucketOf
<1>6. RateKept'
  <2> SUFFICES ASSUME FloodPerMinute # 0, NEW s \in Sources, NEW start \in 0..now'
               PROVE  Cardinality(CarriedFrom(s, start, start + RateWindow - 1)) <= 2 * FloodPerMinute
    BY <1>2 DEF RateKept, Sources
  <2>1. CASE start \in 0..now
    BY <2>1 DEF IInv, RateKept
  <2>2. CASE start \notin 0..now
    <3>1. From(asked, s, start, start + RateWindow - 1) = {}
      BY <2>2, <1>3 DEF From, Carries, IInv, PolicyTypeOK
    <3>2. Cardinality(CarriedFrom(s, start, start + RateWindow - 1)) = 0
      BY <3>1, CarriedFromIsFrom, FS_EmptySet
    <3> QED BY <3>2, RepeaterAssumption
  <2> QED BY <2>1, <2>2
<1>7. BucketSpent'
  BY DEF IInv, BucketSpent, From, Carries, BucketOf
<1> QED
  BY <1>1, <1>5, <1>6, <1>7 DEF IInv

\* An answer keeps the invariant: a flood let through is charged to its own
\* neighbour, in the window that holds it.
LEMMA AskedStep ==
    ASSUME IInv, enabled, NEW p \in Packets, NEW t \in Nat, NEW load \in Nat,
           ShouldForward(p, t, load)
    PROVE  IInv'
<1> DEFINE verdict == Verdict(p, t, load)
           x == [nth |-> Cardinality(asked) + 1, at |-> t, flood |-> p.flood,
                 via |-> p.via, path |-> p.path, verdict |-> verdict]
           home == BucketOf(p)
           b == Window(rates[home], t)
<1>1. /\ t >= now /\ now' = t
      /\ stats' = [stats EXCEPT ![verdict] = @ + 1]
      /\ rates' = IF p.flood /\ verdict \in {"rateLimited", "forwarded"}
                    THEN Charged(p, t) ELSE rates
      /\ asked' = asked \cup {x}
      /\ UNCHANGED <<enabled, maxHops>>
  BY DEF ShouldForward
<1>2. /\ verdict \in Verdicts
      /\ verdict = "rateLimited" => p.flood /\ ~WithinRate(p, t)
      /\ verdict = "forwarded" /\ p.flood => WithinRate(p, t)
  BY VerdictFacts
<1>3. /\ home \in Sources /\ p.flood \in BOOLEAN /\ p.path \in Seq(Nodes)
      /\ p.via \in Nodes /\ (p.path # <<>> => p.via = p.path[Len(p.path)])
  BY BucketOfFacts
<1>4. IsFiniteSet(asked) /\ Cardinality(asked) \in Nat /\ asked \subseteq Answer
  BY FS_CardinalityType DEF IInv, AnswersOK
<1> HIDE DEF verdict
<1>5. /\ x \in Answer /\ x.nth = Cardinality(asked) + 1 /\ x.at = t /\ x.flood = p.flood
      /\ x.verdict = verdict /\ BucketOf(x) = home
      /\ x.path # <<>> => x.via = x.path[Len(x.path)]
  BY <1>2, <1>3, <1>4 DEF Answer, BucketOf
<1> HIDE DEF x
<1>6. x \notin asked /\ \A y \in asked : y.nth \in Nat /\ y.nth < x.nth
  BY <1>4, <1>5 DEF IInv, AnswersOK, Answer
<1>7. IsFiniteSet(asked') /\ Cardinality(asked') = Cardinality(asked) + 1
  BY <1>1, <1>4, <1>6, FS_AddElement
<1>8. AnswersOK'
  <2>1. \A y \in asked' : y.at <= now' /\ y.nth <= Cardinality(asked')
    BY <1>1, <1>4, <1>5, <1>6, <1>7 DEF IInv, AnswersOK, Answer, PolicyTypeOK
  <2>2. \A y \in asked' : y.path # <<>> => y.via = y.path[Len(y.path)]
    BY <1>1, <1>5 DEF IInv, AnswersOK
  <2> QED BY <1>1, <1>4, <1>5, <1>7, <2>1, <2>2 DEF AnswersOK
<1>9. PolicyTypeOK'
  <2>1. stats' \in [DOMAIN NoStats -> Nat]
    BY <1>1, <1>2 DEF IInv, PolicyTypeOK, NoStats, Verdicts
  <2>2. rates[home] \in Bucket
    BY <1>3 DEF IInv, PolicyTypeOK
  <2>3. b \in Bucket /\ (FloodPerMinute # 0 => b.count <= FloodPerMinute)
    BY <1>3, <2>2, RepeaterAssumption DEF Window, IInv, PolicyTypeOK, Bucket
  <2>4. CASE rates' = rates
    BY <1>1, <2>1, <2>4 DEF IInv, PolicyTypeOK
  <2>5. CASE FloodPerMinute # 0 /\ rates' = Charged(p, t)
    <3> DEFINE new == IF b.count < FloodPerMinute THEN [b EXCEPT !.count = @ + 1] ELSE b
    <3>1. new \in Bucket /\ new.count <= FloodPerMinute
      BY <2>3, <2>5, RepeaterAssumption DEF Bucket
    <3>2. rates' = [rates EXCEPT ![home] = new]
      BY <2>5 DEF Charged
    <3> HIDE DEF new, b
    <3> QED BY <1>1, <1>3, <2>1, <3>1, <3>2 DEF IInv, PolicyTypeOK
  <2> QED BY <1>1, <2>4, <2>5 DEF Charged
<1>10. ASSUME NEW s \in Sources
       PROVE  /\ rates[s] \in Bucket /\ rates[s].windowStart \in Nat /\ rates[s].count \in Nat
              /\ FloodPerMinute # 0 =>
                   /\ BucketOK(s) /\ rates[s].count <= FloodPerMinute
                   /\ rates[s].windowStart <= now
  BY DEF IInv, PolicyTypeOK, Bucket, BucketsOK, BucketOK
<1>11. \A y \in asked : y.at \in Nat /\ y.at <= now
  BY DEF IInv, AnswersOK, Answer
<1>12. now \in Nat /\ RateWindow \in Nat \ {0} /\ FloodPerMinute \in Nat
  BY RepeaterAssumption DEF IInv, PolicyTypeOK
\* Nothing has been answered after now.
<1>13. ASSUME NEW s, NEW lo \in Int, NEW hi \in Int, hi >= now
       PROVE  From(asked, s, lo, hi) = From(asked, s, lo, now)
  BY <1>11, <1>12, <1>13 DEF From, Carries
<1>14. ASSUME NEW s, NEW lo \in Int, NEW hi \in Int
       PROVE  /\ From(asked', s, lo, hi)
                     = From(asked, s, lo, hi) \cup (IF Carries(x, s, lo, hi) THEN {x} ELSE {})
              /\ Cardinality(From(asked', s, lo, hi))
                     = Cardinality(From(asked, s, lo, hi)) + (IF Carries(x, s, lo, hi) THEN 1 ELSE 0)
              /\ Cardinality(From(asked, s, lo, hi)) \in Nat
              /\ ~Carries(x, s, lo, hi) => From(asked', s, lo, hi) = From(asked, s, lo, hi)
  BY <1>1, <1>4, <1>6, <1>11, FromGrows, FromFacts
\* A bucket changes when a flood of its neighbour is let through, and then only.
<1>15. ASSUME FloodPerMinute # 0, NEW s \in Sources
       PROVE  \/ rates'[s] = rates[s] /\ \A lo, hi : ~Carries(x, s, lo, hi)
              \/ /\ \A lo, hi : Carries(x, s, lo, hi) <=> t \in lo..hi
                 /\ rates'[s] \in Bucket
                 /\ \/ /\ rates'[s].windowStart = rates[s].windowStart
                       /\ rates'[s].count = rates[s].count + 1
                       /\ t - rates[s].windowStart < RateWindow
                    \/ /\ rates'[s].windowStart = t /\ rates'[s].count = 1
                       /\ t - rates[s].windowStart >= RateWindow
  <2>1. CASE p.flood /\ verdict = "forwarded"
    <3>1. b.count < FloodPerMinute /\ rates' = [rates EXCEPT ![home] = [b EXCEPT !.count = @ + 1]]
      BY <1>1, <1>2, <1>15, <2>1 DEF WithinRate, Charged
    <3>2. \/ /\ b = rates[home] /\ t - b.windowStart < RateWindow
          \/ /\ b = [windowStart |-> t, count |-> 0]
             /\ t - rates[home].windowStart >= RateWindow
      BY <1>1, <1>3, <1>10, <1>12, <1>15 DEF Window
    <3>3. b \in Bucket
      BY <1>3, <1>10, <3>2 DEF Bucket
    <3> HIDE DEF b
    <3>4. CASE s = home
      <4>1. rates'[s] = [b EXCEPT !.count = @ + 1]
        BY <3>1, <3>4 DEF IInv, PolicyTypeOK
      <4>2. rates'[s] \in Bucket /\ rates'[s].windowStart = b.windowStart
            /\ rates'[s].count = b.count + 1
        BY <3>3, <4>1 DEF Bucket
      <4>3. \A lo, hi : Carries(x, s, lo, hi) <=> t \in lo..hi
        BY <1>5, <2>1, <3>4 DEF Carries
      <4> QED BY <3>2, <3>4, <4>2, <4>3
    <3>5. CASE s # home
      BY <1>5, <3>1, <3>5 DEF Carries, IInv, PolicyTypeOK
    <3> QED BY <3>4, <3>5
  <2>2. CASE p.flood /\ verdict = "rateLimited"
    <3>1. ~(b.count < FloodPerMinute) /\ rates' = [rates EXCEPT ![home] = b]
      BY <1>1, <1>2, <1>15, <2>2 DEF WithinRate, Charged
    <3>2. b = rates[home]
      BY <1>12, <1>15, <3>1 DEF Window
    <3>3. rates' = rates
      BY <1>3, <3>1, <3>2 DEF IInv, PolicyTypeOK
    <3> QED BY <1>5, <2>2, <3>3 DEF Carries
  <2>3. CASE ~(p.flood /\ verdict \in {"forwarded", "rateLimited"})
    BY <1>1, <1>5, <2>3 DEF Carries
  <2> QED BY <2>1, <2>2, <2>3
<1>16. BucketsOK'
  <2> SUFFICES ASSUME FloodPerMinute # 0, NEW s \in Sources PROVE BucketOK(s)'
    BY DEF BucketsOK
  <2> DEFINE old == rates[s].windowStart
             new == rates'[s].windowStart
  <2>1. /\ old \in Nat /\ old <= now /\ old <= t /\ rates[s].count \in Nat
        /\ rates[s].count <= FloodPerMinute
        /\ Cardinality(From(asked, s, old, t)) = rates[s].count
        /\ From(asked, s, old + RateWindow, t) = {}
        /\ Cardinality(From(asked, s, old - RateWindow + 1, old - 1)) <= FloodPerMinute
    <3>1. old \in Nat /\ old <= now /\ rates[s].count \in Nat /\ rates[s].count <= FloodPerMinute
      BY <1>10
    <3>2. BucketOK(s)
      BY <1>10
    <3>3. old <= t /\ t >= now /\ t \in Int
      BY <1>1, <1>12, <3>1
    <3>4. From(asked, s, old, t) = From(asked, s, old, now)
      BY <1>13, <3>1, <3>3
    <3>5. From(asked, s, old + RateWindow, t) = From(asked, s, old + RateWindow, now)
      BY <1>12, <1>13, <3>1, <3>3
    <3> QED BY <3>1, <3>2, <3>3, <3>4, <3>5 DEF BucketOK
  <2> SUFFICES /\ new <= t
               /\ Cardinality(From(asked', s, new, t)) = rates'[s].count
               /\ From(asked', s, new + RateWindow, t) = {}
               /\ Cardinality(From(asked', s, new - RateWindow + 1, new - 1)) <= FloodPerMinute
    BY <1>1 DEF BucketOK, From, Carries, BucketOf
  <2>2. CASE rates'[s] = rates[s] /\ \A lo, hi : ~Carries(x, s, lo, hi)
    <3>1. \A lo, hi \in Int : From(asked', s, lo, hi) = From(asked, s, lo, hi)
      BY <1>14, <2>2
    <3> QED BY <2>1, <2>2, <1>12, <3>1
  <2>3. CASE /\ \A lo, hi : Carries(x, s, lo, hi) <=> t \in lo..hi
             /\ new = old /\ rates'[s].count = rates[s].count + 1 /\ t - old < RateWindow
    BY <2>1, <2>3, <1>12, <1>14
  <2>4. CASE /\ \A lo, hi : Carries(x, s, lo, hi) <=> t \in lo..hi
             /\ new = t /\ rates'[s].count = 1 /\ t - old >= RateWindow
    <3>1. From(asked, s, t, t) = {}
      BY <2>1, <2>4, <1>12 DEF From, Carries
    <3>2. Cardinality(From(asked, s, t, t)) = 0
      BY <3>1, FS_EmptySet
    <3>3. Cardinality(From(asked, s, t - RateWindow + 1, t - 1)) <= Cardinality(From(asked, s, old, t))
      BY <2>1, <2>4, <1>4, <1>11, <1>12, FromFacts
    <3>4. From(asked, s, t + RateWindow, t) = {}
      BY <1>11, <1>12 DEF From, Carries
    <3> QED BY <2>1, <2>4, <1>12, <1>14, <3>2, <3>3, <3>4
  <2> QED BY <1>15, <2>2, <2>3, <2>4
<1>17. RateKept'
  <2> SUFFICES ASSUME FloodPerMinute # 0, NEW s \in Sources, NEW start \in 0..t
               PROVE  Cardinality(From(asked', s, start, start + RateWindow - 1)) <= 2 * FloodPerMinute
    BY <1>1, CarriedFromIsFrom DEF RateKept, Sources
  <2> DEFINE new == rates'[s].windowStart
             end == start + RateWindow - 1
  <2>1. /\ new \in Nat /\ new <= t /\ rates'[s].count <= FloodPerMinute
        /\ rates'[s].count \in Nat
        /\ Cardinality(From(asked', s, new, t)) = rates'[s].count
        /\ Cardinality(From(asked', s, new - RateWindow + 1, new - 1)) <= FloodPerMinute
    <3>1. BucketOK(s)'
      BY <1>16 DEF BucketsOK, Sources
    <3>2. rates'[s] \in Bucket /\ rates'[s].count <= FloodPerMinute
      BY <1>9 DEF PolicyTypeOK, Bucket, Sources
    <3> QED BY <1>1, <3>1, <3>2 DEF BucketOK, From, Carries, BucketOf, Bucket
  <2>2. \A y \in asked' : y.at \in Nat /\ y.at <= t
    BY <1>1, <1>8 DEF AnswersOK, Answer
  <2> HIDE DEF new
  <2>3. start \in Nat /\ end \in Int
    BY <1>12
  <2>4. CASE start > new - RateWindow
    <3>1. Cardinality(From(asked', s, start, end))
             <= Cardinality(From(asked', s, start, new - 1)) + Cardinality(From(asked', s, new, end))
      <4> HIDE DEF end
      <4> QED BY <1>7, <2>1, <2>2, <2>3, FromSplit
    <3>2. /\ Cardinality(From(asked', s, start, new - 1))
               <= Cardinality(From(asked', s, new - RateWindow + 1, new - 1))
          /\ Cardinality(From(asked', s, start, new - 1)) \in Nat
          /\ Cardinality(From(asked', s, new - RateWindow + 1, new - 1)) \in Nat
      BY <1>7, <1>12, <2>1, <2>2, <2>3, <2>4, FromFacts
    <3>3. /\ Cardinality(From(asked', s, new, end)) <= Cardinality(From(asked', s, new, t))
          /\ Cardinality(From(asked', s, new, end)) \in Nat
      <4> HIDE DEF end
      <4> QED BY <1>7, <2>1, <2>2, <2>3, FromFacts
    <3>4. Cardinality(From(asked', s, start, end)) \in Nat
      <4> HIDE DEF end
      <4> QED BY <1>7, <2>2, <2>3, FromFacts
    <3> QED BY <1>12, <2>1, <3>1, <3>2, <3>3, <3>4
  <2>5. CASE start <= new - RateWindow
    <3>1. ~Carries(x, s, start, end)
      BY <1>5, <1>12, <2>1, <2>5 DEF Carries
    <3>2. Cardinality(From(asked', s, start, end)) = Cardinality(From(asked, s, start, end))
      <4> HIDE DEF end
      <4>1. From(asked', s, start, end) = From(asked, s, start, end)
        BY <1>14, <2>3, <3>1
      <4> QED BY <4>1
    <3>3. CASE start <= now
      <4>1. start \in 0..now
        BY <1>12, <2>3, <3>3
      <4>2. Cardinality(CarriedFrom(s, start, end)) <= 2 * FloodPerMinute
        BY <4>1 DEF IInv, RateKept
      <4> QED BY <3>2, <4>2, CarriedFromIsFrom
    <3>4. CASE start > now
      <4>1. From(asked, s, start, end) = {}
        BY <1>11, <1>12, <2>3, <3>4 DEF From, Carries
      <4>2. Cardinality(From(asked, s, start, end)) = 0
        BY <4>1, FS_EmptySet
      <4> QED BY <1>12, <3>2, <4>2
    <3> QED BY <1>12, <2>3, <3>3, <3>4
  <2> QED BY <1>12, <2>1, <2>3, <2>4, <2>5
<1>18. BucketSpent'
  <2> SUFFICES ASSUME NEW z \in asked', z.verdict = "rateLimited"
               PROVE  Cardinality({y \in From(asked', BucketOf(z), z.at - RateWindow + 1, z.at) :
                                      y.nth < z.nth}) >= FloodPerMinute
    BY DEF BucketSpent, From, Carries, BucketOf
  <2> DEFINE s == BucketOf(z)
             lo == z.at - RateWindow + 1
             before(A) == {y \in From(A, s, lo, z.at) : y.nth < z.nth}
  <2>1. IsFiniteSet(before(asked')) /\ before(asked) \subseteq before(asked')
    <3>1. before(asked') \subseteq asked'
      BY DEF From
    <3>2. before(asked) \subseteq before(asked')
      BY <1>1 DEF From
    <3> HIDE DEF before
    <3> QED BY <1>7, <3>1, <3>2, FS_Subset
  <2>2. CASE z \in asked
    <3>1. Cardinality(before(asked)) >= FloodPerMinute
      BY <2>2 DEF IInv, BucketSpent
    <3> HIDE DEF before
    <3>2. IsFiniteSet(before(asked)) /\ Cardinality(before(asked)) <= Cardinality(before(asked'))
      BY <2>1, FS_Subset
    <3>3. Cardinality(before(asked)) \in Nat /\ Cardinality(before(asked')) \in Nat
      BY <2>1, <3>2, FS_CardinalityType
    <3>4. Cardinality(before(asked')) >= FloodPerMinute
      BY <1>12, <3>1, <3>2, <3>3
    <3> QED BY <3>4 DEF before
  <2>3. CASE z = x
    <3>1. verdict = "rateLimited" /\ s = home /\ z.at = t /\ z.nth = x.nth
      BY <1>5, <2>3
    <3>2. FloodPerMinute # 0 /\ ~(b.count < FloodPerMinute)
      BY <1>2, <3>1 DEF WithinRate
    <3>3. b = rates[home] /\ t - rates[home].windowStart < RateWindow
      BY <1>1, <1>3, <1>10, <1>12, <3>2 DEF Window
    <3> DEFINE start == rates[home].windowStart
    <3>4. /\ start \in Nat /\ start <= now /\ rates[home].count \in Nat
          /\ Cardinality(From(asked, home, start, now)) = rates[home].count
      BY <1>3, <1>10, <3>2 DEF BucketOK
    <3> HIDE DEF b, start
    <3>5. From(asked, home, start, now) \subseteq before(asked)
      <4>1. \A y \in From(asked, home, start, now) : y \in From(asked, s, lo, z.at)
        BY <1>1, <1>11, <1>12, <3>1, <3>3, <3>4 DEF From, Carries, start
      <4>2. \A y \in From(asked, home, start, now) : y.nth < z.nth
        BY <1>6, <3>1 DEF From
      <4> QED BY <4>1, <4>2
    <3> HIDE DEF before
    <3>6. Cardinality(From(asked, home, start, now)) <= Cardinality(before(asked'))
      BY <2>1, <3>5, FS_Subset
    <3>7. Cardinality(before(asked')) \in Nat
      BY <2>1, FS_CardinalityType
    <3>8. Cardinality(before(asked')) >= FloodPerMinute
      BY <1>12, <3>2, <3>3, <3>4, <3>6, <3>7
    <3> QED BY <3>8 DEF before
  <2> QED BY <1>1, <2>2, <2>3
<1> QED
  BY <1>8, <1>9, <1>16, <1>17, <1>18 DEF IInv

-----------------------------------------------------------------------------
(* The theorems.                                                           *)

\* Every step keeps the invariant.
LEMMA NextIInv == IInv /\ [PolicyNext]_policyVars => IInv'
<1> SUFFICES ASSUME IInv, [PolicyNext]_policyVars PROVE IInv'
  OBVIOUS
<1>1. ASSUME NEW p \in Packets, NEW t \in now..MaxTime, NEW load \in Loads,
             ShouldForward(p, t, load)
      PROVE  IInv'
  <2>1. t \in Nat /\ load \in Nat
    BY RepeaterAssumption DEF IInv, PolicyTypeOK
  <2>2. CASE enabled
    BY <1>1, <2>1, <2>2, AskedStep
  <2>3. CASE ~enabled
    <3>1. now' = t /\ t >= now /\ UNCHANGED <<rates, stats, asked, enabled, maxHops>>
      BY <1>1, <2>3 DEF ShouldForward
    <3>2. PolicyTypeOK'
      BY <2>1, <3>1 DEF IInv, PolicyTypeOK
    <3> QED BY <2>1, <3>1, <3>2, QuietStep
  <2> QED BY <2>2, <2>3
<1>2. CASE \/ \E on \in BOOLEAN : SetEnabled(on)
           \/ \E hops \in 1..MaxHopCount : SetMaxHops(hops)
           \/ ClearStats
           \/ UNCHANGED policyVars
  <2>1. UNCHANGED <<now, rates, asked>>
    BY <1>2 DEF SetEnabled, SetMaxHops, ClearStats, policyVars
  <2>2. enabled' \in BOOLEAN
    BY <1>2 DEF SetEnabled, SetMaxHops, ClearStats, policyVars, IInv, PolicyTypeOK
  <2>3. maxHops' \in 1..MaxHopCount
    BY <1>2, RepeaterAssumption DEF SetEnabled, SetMaxHops, ClearStats, policyVars, IInv, PolicyTypeOK, Clamped
  <2>4. stats' \in [DOMAIN NoStats -> Nat]
    BY <1>2 DEF SetEnabled, SetMaxHops, ClearStats, policyVars, IInv, PolicyTypeOK, NoStats
  <2>5. PolicyTypeOK'
    BY <2>1, <2>2, <2>3, <2>4 DEF IInv, PolicyTypeOK
  <2>6. now' \in Nat /\ now' >= now
    BY <2>1 DEF IInv, PolicyTypeOK
  <2> QED BY <2>1, <2>5, <2>6, QuietStep
<1> QED
  BY <1>1, <1>2 DEF PolicyNext

\* The policy is always in the invariant.
LEMMA SpecIInv == PolicySpec => []IInv
BY InitIInv, NextIInv, PTL DEF PolicySpec

\* The hop limit stays within MAX_HOP_COUNT and no bucket is ever charged
\* beyond the allowance, whatever setMaxHops and the packets are.
THEOREM PolicyTypeCorrect == PolicySpec => []PolicyTypeOK
BY SpecIInv, PTL DEF IInv

\* No neighbour is ever let through more than twice its allowance in a stretch
\* as long as the window of withinRate, wherever the stretch begins.
THEOREM RateIsKept == PolicySpec => []RateKept
BY SpecIInv, PTL DEF IInv

\* What is in the bucket of a packet that was passed on was passed on by the same
\* transmitter, and what is in that of a packet heard first-hand was so too.
LEMMA BucketIsVia ==
    ASSUME AnswersOK, NEW x \in asked, NEW y \in asked, BucketOf(x) = BucketOf(y)
    PROVE  /\ (y.path = <<>>) = (x.path = <<>>)
           /\ x.path # <<>> => y.via = x.via
<1>1. ASSUME NEW z \in asked
      PROVE  /\ z.via \in Nodes
             /\ z.path # <<>> => BucketOf(z) = z.via
             /\ z.path = <<>> => BucketOf(z) = Direct
  BY DEF AnswersOK, Answer, BucketOf
<1> QED
  BY <1>1, RepeaterAssumption

\* A flood that a node passed on and that is refused for its rate is refused for
\* what the same transmitter has passed on within the last window, never for what
\* another one has, nor for anything heard first-hand; and one heard first-hand
\* only for others that were.
THEOREM OthersStayUnaffected == PolicySpec => []OthersUnaffected
<1>1. IInv => OthersUnaffected
  <2> SUFFICES ASSUME IInv, NEW x \in asked, x.verdict = "rateLimited"
               PROVE  FloodPerMinute <= Cardinality(
                          {y \in asked :
                              /\ y.flood /\ y.verdict = "forwarded" /\ y.nth < x.nth
                              /\ y.at \in x.at - RateWindow + 1..x.at
                              /\ (y.path = <<>>) = (x.path = <<>>)
                              /\ x.path # <<>> => y.via = x.via})
    BY DEF OthersUnaffected
  <2> DEFINE own == {y \in asked :
                        /\ y.flood /\ y.verdict = "forwarded" /\ y.nth < x.nth
                        /\ y.at \in x.at - RateWindow + 1..x.at
                        /\ (y.path = <<>>) = (x.path = <<>>)
                        /\ x.path # <<>> => y.via = x.via}
             spent == {y \in From(asked, BucketOf(x), x.at - RateWindow + 1, x.at) : y.nth < x.nth}
  <2>1. Cardinality(spent) >= FloodPerMinute
    BY DEF IInv, BucketSpent
  <2>2. spent \subseteq own
    BY BucketIsVia DEF IInv, From, Carries
  <2>3. own \subseteq asked
    OBVIOUS
  <2> HIDE DEF own, spent
  <2>4. /\ IsFiniteSet(own) /\ Cardinality(spent) <= Cardinality(own)
        /\ Cardinality(own) \in Nat /\ Cardinality(spent) \in Nat
    BY <2>2, <2>3, FS_Subset, FS_CardinalityType DEF IInv, AnswersOK
  <2>5. FloodPerMinute <= Cardinality(own)
    BY <2>1, <2>4, RepeaterAssumption
  <2> QED BY <2>5 DEF own
<1> QED
  BY <1>1, SpecIInv, PTL
=============================================================================
