----------------------------- MODULE RoomProofs -----------------------------
(***************************************************************************)
(* Proofs about the room for every value of its constants, alone and then  *)
(* with its readers.                                                       *)
(*                                                                         *)
(* The room's types, and that every bookmark stays below the next number   *)
(* to be handed out, are proved together: a restart resumes the numbering  *)
(* with the least number past every post in the file, and only the order   *)
(* of the ring shows that there is one.                                    *)
(*                                                                         *)
(* With the readers: RoomSync only restricts the room, a row that waits    *)
(* for a send waits for one routing has, and a bookmark passes no post its *)
(* client neither got nor waived.  The last is not inductive.  An ack      *)
(* moves a bookmark to the post of the push, so everything before that     *)
(* post must be covered while the push is under way; and a restart brings  *)
(* back the bookmarks and the posts of room.dat, so what was saved must be *)
(* covered too.                                                            *)
(***************************************************************************)
EXTENDS RoomSync, ProofFacts, FiniteSetTheorems

-----------------------------------------------------------------------------
(* Facts about the tables.                                                 *)

\* erase keeps every element but one, in order.
LEMMA EraseFacts ==
    ASSUME NEW S, NEW s \in Seq(S), NEW i \in 1..Len(s)
    PROVE  /\ Erase(s, i) \in Seq(S)
           /\ Len(Erase(s, i)) = Len(s) - 1
           /\ \A j \in 1..Len(s) - 1 : Erase(s, i)[j] = IF j < i THEN s[j] ELSE s[j + 1]
<1>1. Len(s) \in Nat /\ \A j \in 1..Len(s) : s[j] \in S
  BY LenProperties, ElementOfSeq
<1>2. Len(s) - 1 \in Nat
  BY <1>1
<1>3. Erase(s, i) \in [1..Len(s) - 1 -> S]
  BY <1>1, <1>2 DEF Erase
<1> QED
  BY <1>2, <1>3, FunctionIsSeq DEF Erase

\* A position found for a key is one of the table's.
LEMMA RowFacts ==
    ASSUME NEW S, NEW table \in Seq(S), NEW k, RowsOf(table, k) # {}
    PROVE  /\ Min(RowsOf(table, k)) \in 1..Len(table)
           /\ table[Min(RowsOf(table, k))].pk = k
<1>1. RowsOf(table, k) \subseteq Nat
  BY LenProperties DEF RowsOf
<1>2. Min(RowsOf(table, k)) \in RowsOf(table, k)
  BY <1>1, MinFacts
<1> QED
  BY <1>2 DEF RowsOf

\* Every other row is still there.
LEMMA EraseKeepsOthers ==
    ASSUME NEW S, NEW s \in Seq(S), NEW i \in 1..Len(s), NEW n \in 1..Len(s), n # i
    PROVE  \E j \in 1..Len(Erase(s, i)) : Erase(s, i)[j] = s[n]
<1> DEFINE e == Erase(s, i)
<1>1. /\ Len(s) \in Nat /\ Len(e) = Len(s) - 1
      /\ \A j \in 1..Len(s) - 1 : e[j] = IF j < i THEN s[j] ELSE s[j + 1]
  BY EraseFacts, LenProperties
<1> HIDE DEF e
<1>2. CASE n < i
  <2>1. n \in 1..Len(e) /\ e[n] = s[n]
    BY <1>1, <1>2
  <2> QED BY <2>1 DEF e
<1>3. CASE n > i
  <2>1. n - 1 \in 1..Len(e) /\ e[n - 1] = s[n]
    BY <1>1, <1>3
  <2> QED BY <2>1 DEF e
<1> QED
  BY <1>1, <1>2, <1>3

\* Erasing a row leaves one row per key, and no row for a key that had none.
LEMMA EraseKeepsRows ==
    ASSUME NEW S, NEW table \in Seq(S), NEW i \in 1..Len(table), OneRowEach(table)
    PROVE  /\ OneRowEach(Erase(table, i))
           /\ \A k : RowsOf(table, k) = {} => RowsOf(Erase(table, i), k) = {}
           /\ RowsOf(Erase(table, i), table[i].pk) = {}
<1> DEFINE e == Erase(table, i)
           back(j) == IF j < i THEN j ELSE j + 1
<1>1. Len(table) \in Nat /\ Len(e) = Len(table) - 1
  BY EraseFacts, LenProperties
<1>2. \A j \in 1..Len(e) : back(j) \in 1..Len(table) /\ back(j) # i /\ e[j] = table[back(j)]
  <2>1. \A j \in 1..Len(table) - 1 : e[j] = IF j < i THEN table[j] ELSE table[j + 1]
    BY EraseFacts
  <2> HIDE DEF e
  <2> QED BY <1>1, <2>1
<1>3. \A j, n \in 1..Len(e) : back(j) = back(n) => j = n
  BY <1>1
<1> HIDE DEF e, back
<1>4. OneRowEach(e)
  BY <1>2, <1>3, SMTT(30) DEF OneRowEach
<1>5. \A k : RowsOf(table, k) = {} => RowsOf(e, k) = {}
  BY <1>2 DEF RowsOf
<1>6. RowsOf(e, table[i].pk) = {}
  BY <1>2 DEF RowsOf, OneRowEach
<1> QED
  BY <1>4, <1>5, <1>6 DEF e

\* Appending a row for a key that has none leaves one row per key.
LEMMA AppendKeepsRows ==
    ASSUME NEW S, NEW table \in Seq(S), NEW row \in S, OneRowEach(table),
           RowsOf(table, row.pk) = {}
    PROVE  OneRowEach(Append(table, row))
<1> DEFINE a == Append(table, row)
<1>1. /\ Len(table) \in Nat /\ Len(a) = Len(table) + 1
      /\ \A j \in 1..Len(table) : a[j] = table[j] /\ a[j].pk # row.pk
      /\ a[Len(table) + 1] = row
  BY AppendProperties, LenProperties DEF RowsOf
<1> HIDE DEF a
<1>2. OneRowEach(a)
  BY <1>1 DEF OneRowEach
<1> QED
  BY <1>2 DEF a

-----------------------------------------------------------------------------
(* The invariant, with the bookmarks part folded into the sets the tables  *)
(* are sequences of.                                                       *)

Behind(n) == {c \in Client : c.syncSeq < n /\ c.pendingSeq < n}
SavedBehind(n) == {c \in SavedClient : c.syncSeq < n}

BoardOK == /\ nextSeq \in Nat \ {0} /\ posts \in Seq(Post) /\ InOrder(posts, nextSeq)
ClientsOK == clients \in Seq(Behind(nextSeq)) /\ nextClientIdx \in Nat
FailuresOK == failures \in Seq(Failure)
RestOK == now \in Nat /\ serverTime \in Nat /\ config \in Settings
DiskOK ==
    /\ disk \in State
    /\ InOrder(disk.posts, disk.nextSeq)
    /\ disk.clients \in Seq(SavedBehind(disk.nextSeq))

IInv == BoardOK /\ ClientsOK /\ FailuresOK /\ RestOK /\ DiskOK

\* The inductive invariant gives both properties.
LEMMA IInvImplies == IInv => TypeOK /\ BookmarksBehind
<1> SUFFICES ASSUME IInv PROVE TypeOK /\ BookmarksBehind
  OBVIOUS
<1>1. Behind(nextSeq) \subseteq Client /\ SavedBehind(disk.nextSeq) \subseteq SavedClient
  BY DEF Behind, SavedBehind
<1>2. clients \in Seq(Client)
  BY <1>1, SeqMonotonic DEF IInv, ClientsOK
<1>3. TypeOK
  BY <1>2 DEF IInv, TypeOK, BoardOK, ClientsOK, FailuresOK, RestOK, DiskOK
<1>4. \A i \in 1..Len(clients) : clients[i] \in Behind(nextSeq)
  BY ElementOfSeq DEF IInv, ClientsOK
<1>5. \A i \in 1..Len(disk.clients) : disk.clients[i] \in SavedBehind(disk.nextSeq)
  BY ElementOfSeq DEF IInv, DiskOK
<1> QED
  BY <1>3, <1>4, <1>5 DEF IInv, BookmarksBehind, BoardOK, DiskOK, Behind, SavedBehind

\* A fresh node starts in it.
LEMMA InitIInv == Init => IInv
<1> SUFFICES ASSUME Init PROVE IInv
  OBVIOUS
<1>1. \A S : <<>> \in Seq(S) /\ Len(<<>>) = 0
  BY EmptySeq
<1> QED
  BY <1>1, RoomAssumption DEF Init, IInv, BoardOK, ClientsOK, FailuresOK, RestOK, DiskOK,
     InOrder, Settings, State

-----------------------------------------------------------------------------
(* The board.                                                              *)

\* A bookmark translated from a time is a number already handed out.
LEMMA SeqFromTimestampFacts ==
    ASSUME BoardOK, NEW b \in Nat
    PROVE  SeqFromTimestamp(b) \in Nat /\ SeqFromTimestamp(b) < nextSeq
<1> DEFINE unseen == {i \in 1..Len(posts) : posts[i].timestamp > b}
           count  == IF unseen = {} THEN Len(posts) ELSE Min(unseen) - 1
<1>1. Len(posts) \in Nat
  BY LenProperties DEF BoardOK
<1>2. unseen # {} => Min(unseen) \in 1..Len(posts)
  BY <1>1, MinFacts
<1>3. count \in 0..Len(posts)
  BY <1>1, <1>2
<1>4. SeqFromTimestamp(b) = IF count = 0 THEN 0 ELSE posts[count].seq
  BY DEF SeqFromTimestamp
<1> HIDE DEF count
<1>5. count # 0 => posts[count] \in Post /\ posts[count].seq \in 1..nextSeq - 1
  BY <1>1, <1>3, ElementOfSeq DEF BoardOK, InOrder
<1> QED
  BY <1>4, <1>5 DEF BoardOK

\* addPost keeps the ring in order and within its size, and raises the
\* numbering past the post it adds.
LEMMA AddPostFacts ==
    ASSUME BoardOK, serverTime \in Nat,
           NEW author \in Keys \cup {NoAuthor}, NEW ts \in Nat, AddPost(author, ts)
    PROVE  BoardOK' /\ nextSeq' = nextSeq + 1
<1> DEFINE post == [seq |-> nextSeq, timestamp |-> SanitiseTimestamp(ts), author |-> author]
           kept == IF Len(posts) >= MaxPosts THEN Tail(posts) ELSE posts
<1>1. post \in Post
  BY DEF SanitiseTimestamp, Post, BoardOK
<1>2. Len(posts) \in Nat /\ (posts # <<>> => Len(posts) > 0) /\ (posts = <<>> => Len(posts) = 0)
  BY LenProperties, EmptySeq DEF BoardOK
<1>3. kept \in Seq(Post) /\ Len(kept) \in Nat /\ Len(kept) < MaxPosts
  BY <1>2, HeadTailProperties, RoomAssumption DEF BoardOK, InOrder
<1>4. \E d \in {0, 1} : Len(kept) + d = Len(posts) /\ \A i \in 1..Len(kept) : kept[i] = posts[i + d]
  <2>1. CASE Len(posts) >= MaxPosts
    <3>1. Len(kept) + 1 = Len(posts) /\ \A i \in 1..Len(kept) : kept[i] = posts[i + 1]
      BY <2>1, <1>2, HeadTailProperties, RoomAssumption DEF BoardOK
    <3> QED BY <3>1
  <2>2. CASE ~(Len(posts) >= MaxPosts)
    <3>1. Len(kept) + 0 = Len(posts) /\ \A i \in 1..Len(kept) : kept[i] = posts[i + 0]
      BY <2>2, <1>2
    <3> QED BY <3>1
  <2> QED BY <2>1, <2>2
<1>5. posts' = Append(kept, post) /\ nextSeq' = nextSeq + 1
  BY DEF AddPost
<1>6. \A i \in 1..Len(posts) : posts[i] \in Post
  BY ElementOfSeq DEF BoardOK
<1>7. PICK d \in {0, 1} : Len(kept) + d = Len(posts) /\ \A i \in 1..Len(kept) : kept[i] = posts[i + d]
  BY <1>4
<1> HIDE DEF kept
<1>8. /\ posts' \in Seq(Post) /\ Len(posts') = Len(kept) + 1
      /\ \A i \in 1..Len(kept) : posts'[i] = kept[i]
      /\ posts'[Len(kept) + 1] = post
  <2> HIDE DEF post
  <2> QED BY <1>1, <1>3, <1>5, AppendProperties
<1>9. \A i \in 1..Len(kept) : kept[i].seq \in 1..nextSeq - 1
  BY <1>3, <1>7, <1>2, SMTT(30) DEF BoardOK, InOrder
<1>10. \A i, j \in 1..Len(kept) : i < j => kept[i].seq < kept[j].seq
  <2> SUFFICES ASSUME NEW i \in 1..Len(kept), NEW j \in 1..Len(kept), i < j
               PROVE  kept[i].seq < kept[j].seq
    OBVIOUS
  <2>1. i + d \in 1..Len(posts) /\ j + d \in 1..Len(posts) /\ i + d < j + d
    BY <1>2, <1>3, <1>7
  <2>2. posts[i + d].seq < posts[j + d].seq
    BY <2>1 DEF BoardOK, InOrder
  <2> QED BY <2>2, <1>7
<1>11. post.seq = nextSeq
  OBVIOUS
<1> HIDE DEF post
<1>12. Len(posts') <= MaxPosts
  BY <1>3, <1>8, RoomAssumption
<1>13. \A i \in 1..Len(posts') : posts'[i].seq \in 1..nextSeq' - 1
  BY <1>3, <1>5, <1>8, <1>9, <1>11 DEF BoardOK
<1>14. \A i, j \in 1..Len(posts') : i < j => posts'[i].seq < posts'[j].seq
  <2> SUFFICES ASSUME NEW i \in 1..Len(posts'), NEW j \in 1..Len(posts'), i < j
               PROVE  posts'[i].seq < posts'[j].seq
    OBVIOUS
  <2>1. i \in 1..Len(kept)
    BY <1>3, <1>8
  <2>2. CASE j \in 1..Len(kept)
    BY <2>1, <2>2, <1>8, <1>10
  <2>3. CASE j = Len(kept) + 1
    BY <2>1, <2>3, <1>8, <1>9, <1>11 DEF BoardOK
  <2> QED BY <2>2, <2>3, <1>3, <1>8
<1> QED
  BY <1>5, <1>8, <1>12, <1>13, <1>14 DEF BoardOK, InOrder

-----------------------------------------------------------------------------
(* The client table.                                                       *)

\* A longer numbering keeps every bookmark below it.
LEMMA BehindGrows ==
    ASSUME NEW m \in Nat, NEW n \in Nat, m <= n
    PROVE  Behind(m) \subseteq Behind(n) /\ SavedBehind(m) \subseteq SavedBehind(n)
BY DEF Behind, SavedBehind, Client, SavedClient

\* Writing one row keeps the table a table.
LEMMA RowWritten ==
    ASSUME NEW S, NEW table \in Seq(S), NEW i \in 1..Len(table), NEW row \in S
    PROVE  [table EXCEPT ![i] = row] \in Seq(S)
BY ExceptSeq

\* A row starts behind any numbering: its bookmark is zero.
LEMMA NewClientFacts ==
    ASSUME NEW k \in Keys, NEW n \in Nat \ {0}
    PROVE  NewClient(k) \in Behind(n)
BY DEF NewClient, Behind, Client, Access

\* evictClient picks a row that is there, and an admin's only among admins.
LEMMA ClientVictimFacts ==
    ASSUME NEW S, clients \in Seq(S), \A c \in S : c.lastLogin \in Nat, Len(clients) > 0
    PROVE  /\ ClientVictim \in 1..Len(clients)
           /\ \/ clients[ClientVictim].access # "ADMIN"
              \/ \A i \in 1..Len(clients) : clients[i].access = "ADMIN"
<1> DEFINE guests == {i \in 1..Len(clients) : clients[i].access # "ADMIN"}
           pool   == IF guests = {} THEN 1..Len(clients) ELSE guests
           times  == {clients[i].lastLogin : i \in pool}
           oldest == Min(times)
           rows   == {i \in pool : clients[i].lastLogin = oldest}
<1>1. Len(clients) \in Nat /\ \A i \in 1..Len(clients) : clients[i] \in S
  BY LenProperties, ElementOfSeq
<1>2. pool # {} /\ pool \subseteq 1..Len(clients)
  BY <1>1
<1>8. \/ \A i \in pool : clients[i].access # "ADMIN"
      \/ \A i \in 1..Len(clients) : clients[i].access = "ADMIN"
  OBVIOUS
<1> HIDE DEF pool
<1>3. times # {} /\ times \subseteq Nat
  BY <1>1, <1>2
<1>4. oldest \in times
  <2> HIDE DEF times
  <2> QED BY <1>3, MinFacts
<1> HIDE DEF oldest
<1>5. rows # {} /\ rows \subseteq Nat /\ rows \subseteq 1..Len(clients) /\ rows \subseteq pool
  <2>1. PICK i \in pool : clients[i].lastLogin = oldest
    BY <1>4
  <2>2. i \in rows
    BY <2>1
  <2>3. rows \subseteq pool
    OBVIOUS
  <2> HIDE DEF rows
  <2> QED BY <1>1, <1>2, <2>2, <2>3
<1>6. Min(rows) \in rows
  <2> HIDE DEF rows
  <2> QED BY <1>5, MinFacts
<1>7. ClientVictim = Min(rows)
  BY DEF ClientVictim, rows, oldest, times, pool
<1> HIDE DEF rows
<1> QED
  BY <1>5, <1>6, <1>7, <1>8

\* Admitting a key leaves a table of rows behind the numbering, with a row for
\* that key.
LEMMA AdmittedFacts ==
    ASSUME BoardOK, ClientsOK, NEW k \in Keys
    PROVE  /\ Admitted(k) \in Seq(Behind(nextSeq))
           /\ RowsOf(Admitted(k), k) # {}
<1> DEFINE S == Behind(nextSeq)
           kept == IF Len(clients) >= MaxClients THEN Erase(clients, ClientVictim) ELSE clients
<1>1. clients \in Seq(S) /\ Len(clients) \in Nat
  BY LenProperties DEF ClientsOK
<1>2. CASE RowsOf(clients, k) # {}
  BY <1>1, <1>2 DEF Admitted
<1>3. CASE RowsOf(clients, k) = {}
  <2>1. \A c \in S : c.lastLogin \in Nat
    BY DEF Behind, Client
  <2>2. Len(clients) >= MaxClients => ClientVictim \in 1..Len(clients)
    <3> HIDE DEF S
    <3> QED BY <1>1, <2>1, ClientVictimFacts, RoomAssumption
  <2>3. kept \in Seq(S)
    <3> HIDE DEF S
    <3> QED BY <1>1, <2>2, EraseFacts
  <2>4. NewClient(k) \in S
    BY NewClientFacts DEF BoardOK
  <2>5. Admitted(k) = Append(kept, NewClient(k))
    BY <1>3 DEF Admitted
  <2> HIDE DEF kept, S
  <2>6. /\ Admitted(k) \in Seq(S) /\ Len(Admitted(k)) = Len(kept) + 1
        /\ Admitted(k)[Len(kept) + 1] = NewClient(k) /\ Len(kept) \in Nat
    BY <2>3, <2>4, <2>5, AppendProperties, LenProperties
  <2>7. Len(kept) + 1 \in RowsOf(Admitted(k), k)
    BY <2>6 DEF RowsOf, NewClient
  <2> QED BY <2>6, <2>7 DEF S
<1> QED
  BY <1>2, <1>3

-----------------------------------------------------------------------------
(* The failure table.                                                      *)

\* noteFailure evicts a row that is there, and none ends before it.
LEMMA FailureVictimFacts ==
    ASSUME NEW table \in Seq(Failure), Len(table) > 0
    PROVE  /\ FailureVictim(table) \in 1..Len(table)
           /\ \A i \in 1..Len(table) : table[FailureVictim(table)].until <= table[i].until
<1> DEFINE ends    == {table[i].until : i \in 1..Len(table)}
           soonest == Min(ends)
           rows    == {i \in 1..Len(table) : table[i].until = soonest}
<1>1. Len(table) \in Nat /\ \A i \in 1..Len(table) : table[i] \in Failure
  BY LenProperties, ElementOfSeq
<1>2. ends # {} /\ ends \subseteq Nat
  BY <1>1 DEF Failure
<1>3. soonest \in ends /\ \A e \in ends : soonest <= e
  <2> HIDE DEF ends
  <2> QED BY <1>2, MinFacts
<1> HIDE DEF soonest
<1>4. PICK i \in 1..Len(table) : table[i].until = soonest
  BY <1>3
<1>5. rows # {} /\ rows \subseteq 1..Len(table) /\ rows \subseteq Nat
  BY <1>1, <1>4
<1>6. Min(rows) \in rows
  <2> HIDE DEF rows
  <2> QED BY <1>5, MinFacts
<1>7. FailureVictim(table) = Min(rows)
  BY DEF FailureVictim, soonest
<1>8. Min(rows) \in 1..Len(table) /\ table[Min(rows)].until = soonest
  <2>1. \A r \in rows : table[r].until = soonest
    OBVIOUS
  <2> HIDE DEF rows
  <2> QED BY <1>5, <1>6, <2>1
<1>9. \A j \in 1..Len(table) : soonest <= table[j].until
  BY <1>3
<1> QED
  BY <1>7, <1>8, <1>9

\* noteFailure leaves a failure table.
LEMMA NoteFailureFacts ==
    ASSUME NEW table \in Seq(Failure), NEW k \in Keys, now \in Nat
    PROVE  NoteFailure(table, k) \in Seq(Failure)
<1> DEFINE row(count, until) ==
               [pk |-> k, count |-> count,
                until |-> IF count >= MaxLoginAttempts THEN now + LoginLockout ELSE until]
           kept == IF Len(table) >= MaxLoginFailures
                   THEN Erase(table, FailureVictim(table)) ELSE table
<1>1. \A count, until \in Nat : row(count, until) \in Failure
  BY RoomAssumption DEF Failure
<1>2. Len(table) \in Nat /\ \A i \in 1..Len(table) : table[i] \in Failure
  BY LenProperties, ElementOfSeq
<1>3. CASE RowsOf(table, k) = {}
  <2>1. kept \in Seq(Failure)
    <3>1. CASE Len(table) >= MaxLoginFailures
      <4>1. FailureVictim(table) \in 1..Len(table)
        BY <3>1, <1>2, FailureVictimFacts, RoomAssumption
      <4> QED BY <3>1, <4>1, EraseFacts
    <3> QED BY <3>1
  <2>2. NoteFailure(table, k) = Append(kept, row(1, 0))
    BY <1>3 DEF NoteFailure
  <2>3. row(1, 0) \in Failure
    BY <1>1
  <2> HIDE DEF kept, row
  <2> QED BY <2>1, <2>2, <2>3, AppendProperties
<1>4. CASE RowsOf(table, k) # {}
  <2> DEFINE i == Min(RowsOf(table, k))
             more == IF table[i].count < 255 THEN table[i].count + 1 ELSE 255
  <2>1. i \in 1..Len(table)
    BY <1>4, RowFacts
  <2>2. NoteFailure(table, k) = [table EXCEPT ![i] = row(more, table[i].until)]
    BY <1>4, <2>1 DEF NoteFailure
  <2> HIDE DEF i
  <2>3. more \in Nat /\ table[i].until \in Nat
    BY <1>2, <2>1 DEF Failure
  <2>4. row(more, table[i].until) \in Failure
    <3> HIDE DEF row, more
    <3> QED BY <1>1, <2>3
  <2> HIDE DEF row, more
  <2> QED BY <2>1, <2>2, <2>4, RowWritten
<1> QED
  BY <1>3, <1>4

\* Expiry and clearFailures leave a failure table.
LEMMA FailuresTrimmed ==
    ASSUME FailuresOK, NEW k
    PROVE  /\ AfterLockCheck(k) \in Seq(Failure)
           /\ \A table \in Seq(Failure) : Forgotten(table, k) \in Seq(Failure)
<1> DEFINE expired == {i \in RowsOf(failures, k) :
                          failures[i].until # 0 /\ failures[i].until <= now}
<1>1. expired # {} => Min(expired) \in 1..Len(failures)
  <2>1. expired \subseteq 1..Len(failures) /\ expired \subseteq Nat
    BY LenProperties DEF FailuresOK, RowsOf
  <2> HIDE DEF expired
  <2> QED BY <2>1, MinFacts
<1>2. AfterLockCheck(k) = IF expired = {} THEN failures ELSE Erase(failures, Min(expired))
  BY DEF AfterLockCheck
<1> HIDE DEF expired
<1>3. AfterLockCheck(k) \in Seq(Failure)
  BY <1>1, <1>2, EraseFacts DEF FailuresOK
<1>4. \A table \in Seq(Failure) : Forgotten(table, k) \in Seq(Failure)
  BY EraseFacts, RowFacts DEF Forgotten
<1> QED
  BY <1>3, <1>4

-----------------------------------------------------------------------------
(* The actions.                                                            *)

\* What a handler that writes one row of the table has to show.
LEMMA ClientWritten ==
    ASSUME ClientsOK, NEW i \in 1..Len(clients), NEW row \in Behind(nextSeq),
           clients' = [clients EXCEPT ![i] = row], nextSeq' = nextSeq,
           nextClientIdx' \in Nat
    PROVE  ClientsOK'
<1>1. clients' \in Seq(Behind(nextSeq))
  BY RowWritten DEF ClientsOK
<1> QED
  BY <1>1 DEF ClientsOK, Behind

\* Every row is behind the numbering.
LEMMA ClientRow ==
    ASSUME ClientsOK
    PROVE  \A i \in 1..Len(clients) : clients[i] \in Behind(nextSeq)
BY ElementOfSeq DEF ClientsOK

\* addPost, from a client or from a channel, keeps the invariant.
LEMMA PostStep ==
    ASSUME IInv, NEW author \in Keys \cup {NoAuthor}, NEW ts \in Nat, AddPost(author, ts),
           UNCHANGED <<now, serverTime, clients, nextClientIdx, failures, config, disk>>
    PROVE  IInv'
<1>1. BoardOK' /\ nextSeq' = nextSeq + 1
  BY AddPostFacts DEF IInv, RestOK
<1>2. Behind(nextSeq) \subseteq Behind(nextSeq')
  BY <1>1, BehindGrows DEF IInv, BoardOK
<1>3. ClientsOK'
  BY <1>2, SeqMonotonic DEF IInv, ClientsOK, Behind
<1> QED
  BY <1>1, <1>3 DEF IInv, FailuresOK, RestOK, DiskOK

\* A login keeps the invariant.
LEMMA OnAnonStep ==
    ASSUME IInv, NEW k \in Keys, NEW pw \in Passwords, NEW ts \in Nat, NEW since \in Nat,
           OnAnon(k, pw, ts, since)
    PROVE  IInv'
<1> DEFINE access == AccessFor(pw)
           table  == Admitted(k)
           row    == Min(RowsOf(table, k))
           new    == [table[row] EXCEPT !.access = access, !.lastLogin = ts,
                                        !.syncSeq = SeqFromTimestamp(since)]
<1>1. FailuresOK'
  <2>1. AfterLockCheck(k) \in Seq(Failure) /\ Forgotten(AfterLockCheck(k), k) \in Seq(Failure)
    BY FailuresTrimmed DEF IInv
  <2>2. NoteFailure(AfterLockCheck(k), k) \in Seq(Failure)
    BY <2>1, NoteFailureFacts DEF IInv, RestOK
  <2>3. \/ failures' = Forgotten(AfterLockCheck(k), k)
        \/ failures' = AfterLockCheck(k)
        \/ failures' = NoteFailure(AfterLockCheck(k), k)
    BY DEF OnAnon
  <2> QED BY <2>1, <2>2, <2>3 DEF FailuresOK
<1>2. access \in Access
  BY DEF AccessFor, Access
<1>3. table \in Seq(Behind(nextSeq)) /\ row \in 1..Len(table)
  BY AdmittedFacts, RowFacts DEF IInv
<1>4. SeqFromTimestamp(since) \in Nat /\ SeqFromTimestamp(since) < nextSeq
  BY SeqFromTimestampFacts DEF IInv
<1>5. table[row] \in Behind(nextSeq)
  <2> HIDE DEF table, row
  <2> QED BY <1>3, ElementOfSeq
<1>6. new \in Behind(nextSeq)
  <2> HIDE DEF table, row, access
  <2> QED BY <1>2, <1>4, <1>5 DEF Behind, Client
<1>7. clients' = clients \/ clients' = [table EXCEPT ![row] = new]
  <2>1. \/ clients' = clients
        \/ clients' = [table EXCEPT ![row].access = access, ![row].lastLogin = ts,
                                    ![row].syncSeq = SeqFromTimestamp(since)]
    BY DEF OnAnon
  <2> HIDE DEF table, row, access
  <2> QED BY <2>1, <1>3, LenProperties
<1>8. clients' \in Seq(Behind(nextSeq))
  <2> HIDE DEF table, row, new
  <2> QED BY <1>3, <1>6, <1>7, RowWritten DEF IInv, ClientsOK
<1>9. UNCHANGED <<now, serverTime, posts, nextSeq, nextClientIdx, config, disk>>
  BY DEF OnAnon
<1> QED
  BY <1>1, <1>8, <1>9 DEF IInv, BoardOK, ClientsOK, RestOK, DiskOK, Behind

\* handleRequest keeps the invariant.
LEMMA RequestStep ==
    ASSUME IInv, NEW k \in Keys, NEW ts \in Nat, NEW since \in Nat,
           StatusRequest(k, ts) \/ KeepAlive(k, ts, since)
    PROVE  IInv'
<1>1. UNCHANGED <<now, serverTime, posts, nextSeq, nextClientIdx, failures, config, disk>>
  BY DEF StatusRequest, KeepAlive
<1>2. SeqFromTimestamp(since) \in Nat /\ SeqFromTimestamp(since) < nextSeq
  BY SeqFromTimestampFacts DEF IInv
<1>3. ClientsOK'
  <2>1. CASE StatusRequest(k, ts)
    <3>1. PICK i \in 1..Len(clients) :
             clients' = [clients EXCEPT ![i] = [clients[i] EXCEPT !.lastRequest = ts]]
      BY <2>1 DEF StatusRequest, RowsOf
    <3>2. [clients[i] EXCEPT !.lastRequest = ts] \in Behind(nextSeq)
      BY ClientRow DEF IInv, Behind, Client
    <3> QED BY <1>1, <3>1, <3>2, ClientWritten DEF IInv, ClientsOK
  <2>2. CASE KeepAlive(k, ts, since)
    <3> DEFINE new(c) == [c EXCEPT !.lastRequest = ts, !.retryAfter = 0,
                             !.syncSeq = IF since > 0 THEN SeqFromTimestamp(since) ELSE @]
    <3>1. PICK i \in 1..Len(clients) : clients' = [clients EXCEPT ![i] = new(clients[i])]
      <4>1. PICK i \in 1..Len(clients) : clients' = [clients EXCEPT
               ![i].lastRequest = ts, ![i].retryAfter = 0,
               ![i].syncSeq = IF since > 0 THEN SeqFromTimestamp(since) ELSE @]
        BY <2>2 DEF KeepAlive, RowsOf
      <4>2. DOMAIN clients = 1..Len(clients)
        BY LenProperties DEF IInv, ClientsOK
      <4> QED BY <4>1, <4>2
    <3>2. new(clients[i]) \in Behind(nextSeq)
      BY <1>2, ClientRow DEF IInv, Behind, Client
    <3> HIDE DEF new
    <3> QED BY <1>1, <3>1, <3>2, ClientWritten DEF IInv, ClientsOK
  <2> QED BY <2>1, <2>2
<1> QED
  BY <1>1, <1>3 DEF IInv, BoardOK, FailuresOK, RestOK, DiskOK

\* What every command does to the client table.
LEMMA CommandedClients ==
    ASSUME ClientsOK, NEW k \in Keys, NEW ts \in Nat, Commanded(k, ts),
           UNCHANGED <<nextSeq, nextClientIdx>>
    PROVE  ClientsOK'
<1>1. PICK i \in 1..Len(clients) :
         clients' = [clients EXCEPT ![i] = [clients[i] EXCEPT !.lastCommand = ts]]
  BY DEF Commanded, RowsOf
<1>2. [clients[i] EXCEPT !.lastCommand = ts] \in Behind(nextSeq)
  BY ClientRow DEF Behind, Client
<1> QED
  BY <1>1, <1>2, ClientWritten DEF ClientsOK

\* Every admin command keeps the invariant.
LEMMA CommandStep ==
    ASSUME IInv, NEW k \in Keys, NEW ts \in Nat, NEW epoch \in Nat,
           \/ CommandAnswer(k, ts)
           \/ CommandClock(k, ts, epoch)
           \/ CommandSet(k, ts)
           \/ CommandClear(k, ts)
    PROVE  IInv'
<1>1. /\ Commanded(k, ts)
      /\ UNCHANGED <<now, nextSeq, nextClientIdx, failures, disk>>
  BY DEF CommandAnswer, CommandClock, CommandSet, CommandClear
<1>2. ClientsOK'
  BY <1>1, CommandedClients DEF IInv
<1>3. serverTime' \in Nat
  BY DEF CommandAnswer, CommandClock, CommandSet, CommandClear, IInv, RestOK
<1>4. config' \in Settings
  BY DEF CommandAnswer, CommandClock, CommandSet, CommandClear, IInv, RestOK, Settings
<1>5. BoardOK'
  <2>1. posts' = posts \/ posts' = <<>>
    BY DEF CommandAnswer, CommandClock, CommandSet, CommandClear
  <2>2. <<>> \in Seq(Post) /\ Len(<<>>) = 0
    BY EmptySeq
  <2>3. CASE posts' = posts
    BY <1>1, <2>3 DEF IInv, BoardOK
  <2>4. CASE posts' = <<>>
    BY <1>1, <2>2, <2>4, RoomAssumption DEF IInv, BoardOK, InOrder
  <2> QED BY <2>1, <2>3, <2>4
<1> QED
  BY <1>1, <1>2, <1>3, <1>4, <1>5 DEF IInv, FailuresOK, RestOK, DiskOK

\* The row and the post a push is about.
LEMMA PushFacts ==
    ASSUME BoardOK, ClientsOK, NEW t \in Nat, PushSteps(t) # {}
    PROVE  /\ PushRow(t) \in 1..Len(clients)
           /\ PushRow(t) % Len(clients) \in Nat
           /\ PushPost(t).seq \in 1..nextSeq - 1
<1> DEFINE step == Min(PushSteps(t))
           at   == ((nextClientIdx + step) % Len(clients)) + 1
           c    == clients[at]
<1>1. Len(clients) \in Nat
  BY LenProperties DEF ClientsOK
<1>2. PushSteps(t) \subseteq 0..Len(clients) - 1 /\ PushSteps(t) \subseteq Nat
  BY <1>1 DEF PushSteps
<1>3. step \in PushSteps(t)
  BY <1>2, MinFacts
<1>4. step \in Nat /\ Len(clients) \in Nat \ {0} /\ nextClientIdx \in Nat
  BY <1>1, <1>2, <1>3 DEF ClientsOK
<1>5. at \in 1..Len(clients)
  <2> HIDE DEF step
  <2> QED BY <1>4
<1>6. Unread(c) # {}
  <2> HIDE DEF step
  <2> QED BY <1>3 DEF PushSteps
<1>7. PushRow(t) = at
  BY DEF PushRow
<1> HIDE DEF at, step
<1>8. Unread(c) \subseteq 1..Len(posts) /\ Unread(c) \subseteq Nat
  BY LenProperties DEF BoardOK, Unread
<1>9. Min(Unread(c)) \in 1..Len(posts)
  <2> HIDE DEF c
  <2> QED BY <1>6, <1>8, MinFacts
<1>10. PushPost(t) = posts[Min(Unread(c))]
  BY <1>7 DEF PushPost
<1> HIDE DEF c
<1> QED
  BY <1>4, <1>5, <1>7, <1>9, <1>10 DEF BoardOK, InOrder

\* A push keeps the invariant: the post pushed has a number handed out.
LEMMA TickStep ==
    ASSUME IInv, NEW t \in Nat, NEW id \in Ids, Tick(t, id)
    PROVE  IInv'
<1>1. now' = t /\ UNCHANGED <<serverTime, posts, nextSeq, failures, config, disk>>
  BY DEF Tick
<1>2. ClientsOK'
  <2>1. CASE PushSteps(t) = {}
    BY <1>1, <2>1 DEF Tick, IInv, ClientsOK, Behind
  <2>2. CASE PushSteps(t) # {}
    <3> DEFINE i == PushRow(t)
               seq == PushPost(t).seq
               new == [clients[i] EXCEPT !.pending = TRUE, !.pendingId = id, !.pendingSeq = seq]
    <3>1. i \in 1..Len(clients) /\ i % Len(clients) \in Nat /\ seq \in 1..nextSeq - 1
      BY <2>2, PushFacts DEF IInv
    <3>2. /\ clients' = [clients EXCEPT ![i].pending = TRUE, ![i].pendingId = id,
                                        ![i].pendingSeq = seq]
          /\ nextClientIdx' = i % Len(clients)
      BY <2>2 DEF Tick
    <3> HIDE DEF i, seq
    <3>3. clients' = [clients EXCEPT ![i] = new]
      BY <3>1, <3>2, LenProperties DEF IInv, ClientsOK
    <3>4. clients[i] \in Behind(nextSeq)
      BY <3>1, ClientRow DEF IInv
    <3>5. seq \in Nat /\ seq < nextSeq /\ id \in Ids \cup {0}
      BY <3>1 DEF IInv, BoardOK
    <3>6. new \in Client
      BY <3>4, <3>5 DEF Behind, Client
    <3>7. new.syncSeq = clients[i].syncSeq /\ new.pendingSeq = seq
      BY <3>4 DEF Behind, Client
    <3>8. new \in Behind(nextSeq)
      <4> HIDE DEF new
      <4> QED BY <3>4, <3>5, <3>6, <3>7 DEF Behind
    <3> HIDE DEF new
    <3> QED BY <1>1, <3>1, <3>2, <3>3, <3>8, ClientWritten DEF IInv
  <2> QED BY <2>1, <2>2
<1> QED
  BY <1>1, <1>2 DEF IInv, BoardOK, FailuresOK, RestOK, DiskOK

\* onAck and onDeliveryFailed keep the invariant: an ack moves a bookmark to the
\* number of the push, which is behind.
LEMMA FateStep ==
    ASSUME IInv, NEW id, OnAck(id) \/ OnDeliveryFailed(id)
    PROVE  IInv'
<1> DEFINE i == Min(WaitingFor(id))
<1>1. UNCHANGED <<now, serverTime, posts, nextSeq, nextClientIdx, failures, config, disk>>
  BY DEF OnAck, OnDeliveryFailed
<1>2. i \in 1..Len(clients)
  <2>1. WaitingFor(id) # {} /\ WaitingFor(id) \subseteq 1..Len(clients) /\ WaitingFor(id) \subseteq Nat
    <3>1. WaitingFor(id) # {}
      BY DEF OnAck, OnDeliveryFailed
    <3>2. Len(clients) \in Nat
      BY LenProperties DEF IInv, ClientsOK
    <3> QED BY <3>1, <3>2 DEF WaitingFor
  <2> QED BY <2>1, MinFacts
<1>3. clients[i] \in Behind(nextSeq)
  BY <1>2, ClientRow DEF IInv
<1>4. ClientsOK'
  <2>1. CASE OnAck(id)
    <3> DEFINE new == [clients[i] EXCEPT !.syncSeq = clients[i].pendingSeq, !.pending = FALSE,
                                         !.retryAfter = 0]
    <3>1. clients' = [clients EXCEPT ![i].syncSeq = clients[i].pendingSeq, ![i].pending = FALSE,
                                     ![i].retryAfter = 0]
      BY <2>1 DEF OnAck
    <3> HIDE DEF i
    <3>2. clients' = [clients EXCEPT ![i] = new]
      BY <1>2, <3>1, LenProperties DEF IInv, ClientsOK
    <3>3. new \in Behind(nextSeq)
      BY <1>3 DEF Behind, Client
    <3> HIDE DEF new
    <3> QED BY <1>1, <1>2, <3>2, <3>3, ClientWritten DEF IInv, ClientsOK
  <2>2. CASE OnDeliveryFailed(id)
    <3> DEFINE new == [clients[i] EXCEPT !.pending = FALSE, !.retryAfter = now + RetryDelay]
    <3>1. clients' = [clients EXCEPT ![i].pending = FALSE, ![i].retryAfter = now + RetryDelay]
      BY <2>2 DEF OnDeliveryFailed
    <3> HIDE DEF i
    <3>2. clients' = [clients EXCEPT ![i] = new]
      BY <1>2, <3>1, LenProperties DEF IInv, ClientsOK
    <3>3. new \in Behind(nextSeq)
      <4>1. now + RetryDelay \in Nat
        BY RoomAssumption DEF IInv, RestOK
      <4> QED BY <1>3, <4>1 DEF Behind, Client
    <3> HIDE DEF new
    <3> QED BY <1>1, <1>2, <3>2, <3>3, ClientWritten DEF IInv, ClientsOK
  <2> QED BY <2>1, <2>2
<1> QED
  BY <1>1, <1>4 DEF IInv, BoardOK, FailuresOK, RestOK, DiskOK

\* Writing room.dat keeps the invariant.
LEMMA FlushStep ==
    ASSUME IInv, Flush
    PROVE  IInv'
<1> DEFINE saved == [i \in 1..Len(clients) |->
               [pk |-> clients[i].pk, access |-> clients[i].access,
                syncSeq |-> clients[i].syncSeq, lastLogin |-> clients[i].lastLogin]]
<1>1. /\ disk' = [nextSeq |-> nextSeq, posts |-> posts, clients |-> saved]
      /\ UNCHANGED <<now, serverTime, posts, nextSeq, clients, nextClientIdx, failures, config>>
  BY DEF Flush
<1>2. Len(clients) \in Nat
  BY LenProperties DEF IInv, ClientsOK
<1>3. saved \in [1..Len(clients) -> SavedBehind(nextSeq)]
  BY ClientRow DEF IInv, Behind, SavedBehind, Client, SavedClient
<1> HIDE DEF saved
<1>4. saved \in Seq(SavedBehind(nextSeq))
  BY <1>2, <1>3, FunctionIsSeq
<1>5. saved \in Seq(SavedClient)
  BY <1>4, SeqMonotonic DEF SavedBehind
<1>6. DiskOK'
  <2>1. disk' \in State
    BY <1>1, <1>5 DEF State, IInv, BoardOK
  <2> QED BY <1>1, <1>4, <2>1 DEF IInv, BoardOK, DiskOK
<1> QED
  BY <1>1, <1>6 DEF IInv, BoardOK, ClientsOK, FailuresOK, RestOK, Behind

\* The numbering a restart resumes is the one in the file: InOrder puts every
\* post in the file below it.
LEMMA ResumedSeqFacts ==
    ASSUME DiskOK
    PROVE  ResumedSeq = disk.nextSeq
<1> DEFINE free == {n \in disk.nextSeq .. MaxSeq + disk.nextSeq :
                       \A i \in 1..Len(disk.posts) : disk.posts[i].seq < n}
<1>1. disk.nextSeq \in Nat /\ MaxSeq \in Nat
  BY RoomAssumption DEF DiskOK, State
<1>2. \A i \in 1..Len(disk.posts) : disk.posts[i].seq < disk.nextSeq
  BY <1>1 DEF DiskOK, InOrder
<1>3. disk.nextSeq \in free
  BY <1>1, <1>2
<1>4. free \subseteq Nat /\ \A n \in free : disk.nextSeq <= n
  BY <1>1
<1>5. Min(free) \in free /\ Min(free) <= disk.nextSeq
  <2> HIDE DEF free
  <2> QED BY <1>3, <1>4, MinFacts
<1>6. Min(free) = disk.nextSeq
  <2> HIDE DEF free
  <2> DEFINE least == Min(free)
  <2>1. least \in Nat /\ least <= disk.nextSeq /\ disk.nextSeq <= least
    BY <1>4, <1>5
  <2> HIDE DEF least
  <2>2. least = disk.nextSeq
    BY <1>1, <2>1
  <2> QED BY <2>2 DEF least
<1> QED
  BY <1>6 DEF ResumedSeq

\* Coming back from room.dat, however old, keeps the invariant.
LEMMA RestartStep ==
    ASSUME IInv, Restart
    PROVE  IInv'
<1> DEFINE loaded == [i \in 1..Len(disk.clients) |->
               [NewClient(disk.clients[i].pk) EXCEPT
                   !.access    = disk.clients[i].access,
                   !.syncSeq   = disk.clients[i].syncSeq,
                   !.lastLogin = disk.clients[i].lastLogin]]
<1>1. /\ now' = 0 /\ serverTime' = 0 /\ posts' = disk.posts /\ nextSeq' = disk.nextSeq
      /\ clients' = loaded /\ nextClientIdx' = 0 /\ failures' = <<>>
      /\ UNCHANGED <<config, disk>>
  BY ResumedSeqFacts DEF Restart, IInv
<1>2. disk.nextSeq \in Nat \ {0} /\ disk.posts \in Seq(Post)
  BY DEF IInv, DiskOK, State
<1>3. Len(disk.clients) \in Nat
  BY LenProperties DEF IInv, DiskOK
<1>4. \A i \in 1..Len(disk.clients) : disk.clients[i] \in SavedBehind(disk.nextSeq)
  BY ElementOfSeq DEF IInv, DiskOK
<1>5. loaded \in [1..Len(disk.clients) -> Behind(disk.nextSeq)]
  <2> SUFFICES ASSUME NEW i \in 1..Len(disk.clients)
               PROVE  loaded[i] \in Behind(disk.nextSeq)
    OBVIOUS
  <2> DEFINE c == disk.clients[i]
  <2>1. c \in SavedClient /\ c.syncSeq < disk.nextSeq
    BY <1>4 DEF SavedBehind
  <2>2. loaded[i] = [NewClient(c.pk) EXCEPT !.access = c.access, !.syncSeq = c.syncSeq,
                                            !.lastLogin = c.lastLogin]
    OBVIOUS
  <2> HIDE DEF c, loaded
  <2>3. NewClient(c.pk) \in Behind(disk.nextSeq)
    BY <1>2, <2>1, NewClientFacts DEF SavedClient
  <2> QED BY <2>1, <2>2, <2>3 DEF Behind, Client, SavedClient
<1> HIDE DEF loaded
<1>6. loaded \in Seq(Behind(disk.nextSeq))
  BY <1>3, <1>5, FunctionIsSeq
<1>7. BoardOK'
  BY <1>1, <1>2 DEF IInv, DiskOK, BoardOK
<1>8. ClientsOK'
  BY <1>1, <1>6 DEF ClientsOK, Behind
<1>9. FailuresOK'
  BY <1>1, EmptySeq DEF FailuresOK
<1>10. RestOK' /\ DiskOK'
  BY <1>1 DEF IInv, RestOK, DiskOK
<1> QED
  BY <1>7, <1>8, <1>9, <1>10 DEF IInv

-----------------------------------------------------------------------------
(* The theorems.                                                           *)

\* Every step keeps the invariant.
LEMMA NextIInv == IInv /\ [Next]_vars => IInv'
<1> SUFFICES ASSUME IInv, [Next]_vars PROVE IInv'
  OBVIOUS
<1>1. CASE UNCHANGED vars
  BY <1>1 DEF vars, IInv, BoardOK, ClientsOK, FailuresOK, RestOK, DiskOK, Behind
<1>2. CASE Request
  <2>1. ASSUME NEW k \in Keys, NEW ts \in Stamps, HandleText(k, ts) PROVE IInv'
    BY <2>1, PostStep, RoomAssumption DEF HandleText
  <2>2. ASSUME NEW ts \in Stamps, OnGroup(ts) PROVE IInv'
    BY <2>2, PostStep, RoomAssumption DEF OnGroup
  <2>3. ASSUME NEW k \in Keys, NEW ts \in RequestStamps, StatusRequest(k, ts) PROVE IInv'
    BY <2>3, RequestStep, RoomAssumption
  <2>4. ASSUME NEW k \in Keys, NEW ts \in RequestStamps, CommandAnswer(k, ts) PROVE IInv'
    BY <2>4, CommandStep, RoomAssumption
  <2>5. ASSUME NEW k \in Keys, NEW ts \in RequestStamps, NEW epoch \in Epochs,
               CommandClock(k, ts, epoch)
        PROVE  IInv'
    BY <2>5, CommandStep, RoomAssumption
  <2>6. ASSUME NEW k \in Keys, NEW ts \in RequestStamps, CommandClear(k, ts) PROVE IInv'
    BY <2>6, CommandStep, RoomAssumption
  <2>7. ASSUME NEW epoch \in Epochs, SetServerTime(epoch) PROVE IInv'
    BY <2>7, RoomAssumption DEF SetServerTime, IInv, BoardOK, ClientsOK, FailuresOK, RestOK,
       DiskOK, Behind
  <2>8. CASE Flush
    BY <2>8, FlushStep
  <2> QED BY <1>2, <2>1, <2>2, <2>3, <2>4, <2>5, <2>6, <2>7, <2>8 DEF Request
<1>3. ASSUME NEW k \in Keys, NEW pw \in Passwords, NEW ts \in LoginStamps, NEW since \in Stamps,
             OnAnon(k, pw, ts, since)
      PROVE  IInv'
  BY <1>3, OnAnonStep, RoomAssumption
<1>4. ASSUME NEW k \in Keys, NEW ts \in RequestStamps, NEW since \in Stamps,
             KeepAlive(k, ts, since)
      PROVE  IInv'
  BY <1>4, RequestStep, RoomAssumption
<1>5. ASSUME NEW k \in Keys, NEW ts \in RequestStamps, CommandSet(k, ts) PROVE IInv'
  BY <1>5, CommandStep, RoomAssumption
<1>6. ASSUME NEW t \in 0..MaxTime, NEW id \in Ids, Tick(t, id) PROVE IInv'
  BY <1>6, TickStep, RoomAssumption
<1>7. ASSUME NEW id \in Ids, OnAck(id) \/ OnDeliveryFailed(id) PROVE IInv'
  BY <1>7, FateStep
<1>8. CASE Restart
  BY <1>8, RestartStep
<1> QED
  BY <1>1, <1>2, <1>3, <1>4, <1>5, <1>6, <1>7, <1>8 DEF Next

\* The room is always in the invariant.
LEMMA SpecIInv == Spec => []IInv
BY InitIInv, NextIInv, PTL DEF Spec

\* Every variable of the room keeps its type, whatever arrives and whenever the
\* node restarts.
THEOREM TypeCorrect == Spec => []TypeOK
BY SpecIInv, IInvImplies, PTL

\* Every bookmark, in memory and in room.dat, stays below the next number the
\* board hands out, and the ring stays in the order of its numbers: a new post
\* is unread for everyone but its author.
THEOREM BookmarksStayBehind == Spec => []BookmarksBehind
BY SpecIInv, IInvImplies, PTL

-----------------------------------------------------------------------------
(* The tables: one row per key in each, through evictions, expiries and    *)
(* restarts, and what an eviction may not take.                            *)

\* The steps that neither admit anybody nor lose anything.
Aside ==
    \/ Request
    \/ \E k \in Keys, ts \in RequestStamps, since \in Stamps : KeepAlive(k, ts, since)
    \/ \E k \in Keys, ts \in RequestStamps : CommandSet(k, ts)
    \/ \E t \in 0..MaxTime, id \in Ids : Tick(t, id)
    \/ \E id \in Ids : OnAck(id) \/ OnDeliveryFailed(id)

\* A write to fields of one row other than its key.
LEMMA KeysKept ==
    ASSUME IInv, IInv', DOMAIN clients' = DOMAIN clients,
           \A i \in 1..Len(clients) : clients'[i].pk = clients[i].pk
    PROVE  SameKeys(clients, clients')
<1>1. /\ DOMAIN clients = 1..Len(clients) /\ Len(clients) \in Nat
      /\ DOMAIN clients' = 1..Len(clients') /\ Len(clients') \in Nat
  <2>1. clients' \in Seq(Behind(nextSeq)')
    BY DEF IInv, ClientsOK
  <2> QED BY <2>1, LenProperties DEF IInv, ClientsOK
<1>2. Len(clients') = Len(clients)
  BY <1>1
<1> QED
  BY <1>2 DEF SameKeys

\* Those steps keep the keys of every row and the failures, and room.dat gets
\* the rows the table has.
LEMMA AsideFacts ==
    ASSUME IInv, IInv', Aside
    PROVE  /\ SameKeys(clients, clients')
           /\ failures' = failures /\ now <= now'
           /\ disk' = disk \/ SameKeys(clients, disk'.clients)
<1>1. DOMAIN clients = 1..Len(clients) /\ Len(clients) \in Nat
  BY LenProperties DEF IInv, ClientsOK
<1>2. \A i \in 1..Len(clients) : clients[i] \in Client
  BY ClientRow DEF IInv, Behind
<1>3. now \in Nat /\ now' \in Nat
  BY DEF IInv, RestOK
<1>4. CASE UNCHANGED <<clients, failures, now, disk>>
  BY <1>3, <1>4 DEF SameKeys
<1>5. CASE Flush
  <2> DEFINE saved == [i \in 1..Len(clients) |->
                 [pk |-> clients[i].pk, access |-> clients[i].access,
                  syncSeq |-> clients[i].syncSeq, lastLogin |-> clients[i].lastLogin]]
  <2>1. disk'.clients = saved /\ UNCHANGED <<clients, failures, now>>
    BY <1>5 DEF Flush
  <2>2. saved \in Seq(SavedClient) /\ Len(saved) = Len(clients)
    <3>1. saved \in [1..Len(clients) -> SavedClient]
      BY <1>2 DEF Client, SavedClient
    <3> HIDE DEF saved
    <3> QED BY <1>1, <3>1, FunctionIsSeq
  <2>3. \A i \in 1..Len(clients) : saved[i].pk = clients[i].pk
    OBVIOUS
  <2> HIDE DEF saved
  <2> QED BY <1>3, <2>1, <2>2, <2>3 DEF SameKeys
<1>6. ASSUME NEW k, NEW ts, NEW since, StatusRequest(k, ts) \/ KeepAlive(k, ts, since)
      PROVE  SameKeys(clients, clients') /\ UNCHANGED <<failures, now, disk>>
  <2>1. PICK i, seq :
           /\ i \in 1..Len(clients)
           /\ \/ clients' = [clients EXCEPT ![i].lastRequest = ts]
              \/ clients' = [clients EXCEPT ![i].lastRequest = ts, ![i].retryAfter = 0,
                                            ![i].syncSeq = seq]
    <3>1. CASE StatusRequest(k, ts)
      BY <3>1 DEF StatusRequest, RowsOf
    <3>2. CASE KeepAlive(k, ts, since)
      <4> DEFINE to(c) == IF since > 0 THEN SeqFromTimestamp(since) ELSE c.syncSeq
      <4>1. PICK i \in 1..Len(clients) :
               clients' = [clients EXCEPT ![i].lastRequest = ts, ![i].retryAfter = 0,
                              ![i].syncSeq = IF since > 0 THEN SeqFromTimestamp(since) ELSE @]
        BY <3>2 DEF KeepAlive, RowsOf
      <4>2. clients' = [clients EXCEPT ![i].lastRequest = ts, ![i].retryAfter = 0,
                                       ![i].syncSeq = to(clients[i])]
        BY <1>1, <1>2, <4>1 DEF Client
      <4> HIDE DEF to
      <4> QED BY <4>2
    <3> QED BY <1>6, <3>1, <3>2
  <2>2. SameKeys(clients, clients')
    <3>1. DOMAIN clients' = DOMAIN clients
      BY <2>1
    <3>2. ASSUME NEW j \in 1..Len(clients) PROVE clients'[j].pk = clients[j].pk
      <4>1. CASE clients' = [clients EXCEPT ![i].lastRequest = ts]
        BY <1>1, <1>2, <4>1 DEF Client
      <4>2. CASE clients' = [clients EXCEPT ![i].lastRequest = ts, ![i].retryAfter = 0,
                                            ![i].syncSeq = seq]
        BY <1>1, <1>2, <4>2 DEF Client
      <4> QED BY <2>1, <4>1, <4>2
    <3> QED BY <3>1, <3>2, KeysKept
  <2> QED BY <1>6, <2>2 DEF StatusRequest, KeepAlive
<1>7. ASSUME NEW k, NEW ts, Commanded(k, ts)
      PROVE  SameKeys(clients, clients')
  <2>1. PICK i \in 1..Len(clients) : clients' = [clients EXCEPT ![i].lastCommand = ts]
    BY <1>7 DEF Commanded, RowsOf
  <2> QED BY <1>1, <1>2, <2>1, KeysKept DEF Client
<1>8. ASSUME NEW t \in 0..MaxTime, NEW id, Tick(t, id)
      PROVE  SameKeys(clients, clients') /\ UNCHANGED <<failures, disk>> /\ now <= now'
  <2>1. PICK i, seq : \/ clients' = clients
                     \/ clients' = [clients EXCEPT ![i].pending = TRUE, ![i].pendingId = id,
                                                   ![i].pendingSeq = seq]
    BY <1>8 DEF Tick
  <2>2. SameKeys(clients, clients')
    <3>1. DOMAIN clients' = DOMAIN clients
      BY <2>1
    <3>2. ASSUME NEW j \in 1..Len(clients) PROVE clients'[j].pk = clients[j].pk
      <4>1. CASE clients' = [clients EXCEPT ![i].pending = TRUE, ![i].pendingId = id,
                                            ![i].pendingSeq = seq]
        BY <1>1, <1>2, <4>1 DEF Client
      <4> QED BY <2>1, <4>1
    <3> QED BY <3>1, <3>2, KeysKept
  <2>3. t >= now /\ now' = t /\ UNCHANGED <<failures, disk>>
    BY <1>8 DEF Tick
  <2> QED BY <1>3, <2>2, <2>3
<1>9. ASSUME NEW id, OnAck(id) \/ OnDeliveryFailed(id)
      PROVE  SameKeys(clients, clients') /\ UNCHANGED <<failures, now, disk>>
  <2>1. PICK i : \/ clients' = [clients EXCEPT ![i].syncSeq = clients[i].pendingSeq,
                                               ![i].pending = FALSE, ![i].retryAfter = 0]
                \/ clients' = [clients EXCEPT ![i].pending = FALSE,
                                              ![i].retryAfter = now + RetryDelay]
    BY <1>9 DEF OnAck, OnDeliveryFailed
  <2>2. SameKeys(clients, clients')
    <3>1. DOMAIN clients' = DOMAIN clients
      BY <2>1
    <3>2. ASSUME NEW j \in 1..Len(clients) PROVE clients'[j].pk = clients[j].pk
      <4>1. CASE clients' = [clients EXCEPT ![i].syncSeq = clients[i].pendingSeq,
                                            ![i].pending = FALSE, ![i].retryAfter = 0]
        BY <1>1, <1>2, <4>1 DEF Client
      <4>2. CASE clients' = [clients EXCEPT ![i].pending = FALSE,
                                            ![i].retryAfter = now + RetryDelay]
        BY <1>1, <1>2, <4>2 DEF Client
      <4> QED BY <2>1, <4>1, <4>2
    <3> QED BY <3>1, <3>2, KeysKept
  <2> QED BY <1>9, <2>2 DEF OnAck, OnDeliveryFailed
<1>10. CASE Request
  <2>1. ASSUME NEW k \in Keys, NEW ts \in RequestStamps,
               \/ CommandAnswer(k, ts)
               \/ \E epoch \in Epochs : CommandClock(k, ts, epoch)
               \/ CommandClear(k, ts)
        PROVE  SameKeys(clients, clients') /\ UNCHANGED <<failures, now, disk>>
    BY <2>1, <1>7 DEF CommandAnswer, CommandClock, CommandClear
  <2>2. ASSUME NEW k \in Keys, NEW ts \in RequestStamps, StatusRequest(k, ts)
        PROVE  SameKeys(clients, clients') /\ UNCHANGED <<failures, now, disk>>
    BY <2>2, <1>6
  <2>3. \/ UNCHANGED <<clients, failures, now, disk>>
        \/ Flush
        \/ SameKeys(clients, clients') /\ UNCHANGED <<failures, now, disk>>
    BY <1>10, <2>1, <2>2 DEF Request, HandleText, OnGroup, SetServerTime
  <2> QED BY <1>3, <1>4, <1>5, <2>3
<1>11. ASSUME NEW k \in Keys, NEW ts \in RequestStamps, CommandSet(k, ts)
       PROVE  SameKeys(clients, clients') /\ UNCHANGED <<failures, now, disk>>
  BY <1>11, <1>7 DEF CommandSet
<1> QED
  BY <1>3, <1>6, <1>8, <1>9, <1>10, <1>11 DEF Aside

\* Next, as those steps, the login and the restart.
LEMMA NextSplit ==
    ASSUME Next
    PROVE  \/ Aside
           \/ \E k \in Keys, pw \in Passwords, ts \in LoginStamps, since \in Stamps :
                  OnAnon(k, pw, ts, since)
           \/ Restart
BY DEF Next, Aside

\* Admitting a key keeps one row per key and the bound, and costs nobody its row
\* but one: not an admin, unless all are.
LEMMA AdmittedRows ==
    ASSUME IInv, OneRowEach(clients), Len(clients) <= MaxClients, NEW k \in Keys
    PROVE  /\ OneRowEach(Admitted(k)) /\ Len(Admitted(k)) <= MaxClients
           /\ \/ \A i \in 1..Len(clients) : clients[i].access = "ADMIN"
              \/ \A i \in 1..Len(clients) : clients[i].access = "ADMIN" =>
                     RowsOf(Admitted(k), clients[i].pk) # {}
<1> DEFINE S == Behind(nextSeq)
           kept == IF Len(clients) >= MaxClients THEN Erase(clients, ClientVictim) ELSE clients
<1>1. clients \in Seq(S) /\ Len(clients) \in Nat /\ (\A c \in S : c.lastLogin \in Nat)
  BY LenProperties DEF IInv, ClientsOK, Behind, Client
<1>2. NewClient(k) \in S /\ NewClient(k).pk = k
  BY NewClientFacts DEF IInv, BoardOK, NewClient
<1> HIDE DEF S
<1>3. CASE RowsOf(clients, k) # {}
  <2>1. Admitted(k) = clients
    BY <1>3 DEF Admitted
  <2> QED BY <2>1 DEF RowsOf
<1>4. CASE RowsOf(clients, k) = {}
  <2>1. Admitted(k) = Append(kept, NewClient(k))
    BY <1>4 DEF Admitted
  <2>2. /\ kept \in Seq(S) /\ Len(kept) < MaxClients /\ Len(kept) \in Nat
        /\ OneRowEach(kept) /\ RowsOf(kept, k) = {}
        /\ \/ \A i \in 1..Len(clients) : clients[i].access = "ADMIN"
           \/ \A i \in 1..Len(clients) : clients[i].access = "ADMIN" =>
                  \E j \in 1..Len(kept) : kept[j].pk = clients[i].pk
    <3>1. CASE Len(clients) >= MaxClients
      <4> DEFINE v == ClientVictim
      <4>1. /\ v \in 1..Len(clients)
            /\ \/ clients[v].access # "ADMIN"
               \/ \A i \in 1..Len(clients) : clients[i].access = "ADMIN"
        BY <1>1, <3>1, ClientVictimFacts, RoomAssumption
      <4>2. kept = Erase(clients, v)
        BY <3>1
      <4> HIDE DEF v, kept
      <4>3. /\ kept \in Seq(S) /\ Len(kept) = Len(clients) - 1
            /\ \A j \in 1..Len(clients) - 1 :
                  kept[j] = IF j < v THEN clients[j] ELSE clients[j + 1]
        BY <1>1, <4>1, <4>2, EraseFacts
      <4>4. OneRowEach(kept) /\ RowsOf(kept, k) = {}
        BY <1>1, <1>4, <4>1, <4>2, EraseKeepsRows
      <4>5. \A i \in 1..Len(clients) : i # v => \E j \in 1..Len(kept) : kept[j] = clients[i]
        BY <1>1, <4>1, <4>2, EraseKeepsOthers
      <4>6. Len(kept) < MaxClients /\ Len(kept) \in Nat
        BY <1>1, <3>1, <4>1, <4>3, RoomAssumption
      <4>7. clients[v].access # "ADMIN" =>
              \A i \in 1..Len(clients) : clients[i].access = "ADMIN" =>
                  \E j \in 1..Len(kept) : kept[j].pk = clients[i].pk
        BY <4>5
      <4> QED BY <4>1, <4>3, <4>4, <4>6, <4>7
    <3>2. CASE ~(Len(clients) >= MaxClients)
      <4>1. kept = clients
        BY <3>2
      <4> QED BY <1>1, <1>4, <3>2, <4>1, RoomAssumption
    <3> QED BY <3>1, <3>2
  <2> HIDE DEF kept
  <2>3. /\ Len(Admitted(k)) = Len(kept) + 1
        /\ \A j \in 1..Len(kept) : Admitted(k)[j] = kept[j]
    BY <1>2, <2>1, <2>2, AppendProperties
  <2>4. OneRowEach(Admitted(k))
    BY <1>2, <2>1, <2>2, AppendKeepsRows
  <2>5. Len(Admitted(k)) <= MaxClients
    BY <2>2, <2>3, RoomAssumption
  <2>6. ASSUME NEW key, NEW j \in 1..Len(kept), kept[j].pk = key
        PROVE  RowsOf(Admitted(k), key) # {}
    <3>1. j \in 1..Len(Admitted(k)) /\ Admitted(k)[j].pk = key
      BY <2>2, <2>3, <2>6
    <3> QED BY <3>1 DEF RowsOf
  <2> QED BY <2>2, <2>4, <2>5, <2>6
<1> QED
  BY <1>3, <1>4

\* What a login leaves of the client table: the admitted one, with a row written.
LEMMA LoginClients ==
    ASSUME IInv, NEW k \in Keys, NEW pw \in Passwords, NEW ts \in Nat, NEW since \in Nat,
           OnAnon(k, pw, ts, since)
    PROVE  clients' = clients \/ SameKeys(Admitted(k), clients')
<1> DEFINE access == AccessFor(pw)
           table  == Admitted(k)
           row    == Min(RowsOf(table, k))
           new    == [table[row] EXCEPT !.access = access, !.lastLogin = ts,
                                        !.syncSeq = SeqFromTimestamp(since)]
<1>1. table \in Seq(Behind(nextSeq)) /\ row \in 1..Len(table)
  BY AdmittedFacts, RowFacts DEF IInv
<1>2. access \in Access /\ SeqFromTimestamp(since) \in Nat /\ SeqFromTimestamp(since) < nextSeq
  BY SeqFromTimestampFacts DEF IInv, AccessFor, Access
<1>3. \/ clients' = clients
      \/ clients' = [table EXCEPT ![row].access = access, ![row].lastLogin = ts,
                                  ![row].syncSeq = SeqFromTimestamp(since)]
  BY DEF OnAnon
<1> HIDE DEF table, row, access
<1>4. clients' = clients \/ clients' = [table EXCEPT ![row] = new]
  BY <1>1, <1>3, LenProperties
<1>5. table[row] \in Behind(nextSeq)
  BY <1>1, ElementOfSeq
<1>6. new \in Behind(nextSeq) /\ new.pk = table[row].pk
  BY <1>2, <1>5 DEF Behind, Client
<1> HIDE DEF new
<1> QED
  BY <1>1, <1>4, <1>6, WriteKeepsKeys DEF table

\* The row of a table is still in another.
Survives(table, n, new) == \E m \in 1..Len(new) : new[m] = table[n]

\* clearFailures takes one row at most, and a row of this key.
LEMMA ForgottenRows ==
    ASSUME NEW table \in Seq(Failure), OneRowEach(table), NEW k
    PROVE  /\ OneRowEach(Forgotten(table, k)) /\ Len(Forgotten(table, k)) <= Len(table)
           /\ \A n \in 1..Len(table) : table[n].pk # k => Survives(table, n, Forgotten(table, k))
<1>1. Len(table) \in Nat
  BY LenProperties
<1>2. CASE RowsOf(table, k) = {}
  BY <1>1, <1>2 DEF Forgotten, Survives
<1>3. CASE RowsOf(table, k) # {}
  <2> DEFINE i == Min(RowsOf(table, k))
  <2>1. i \in 1..Len(table) /\ table[i].pk = k
    BY <1>3, RowFacts
  <2>2. Forgotten(table, k) = Erase(table, i)
    BY <1>3 DEF Forgotten
  <2> HIDE DEF i
  <2>3. OneRowEach(Erase(table, i)) /\ Len(Erase(table, i)) = Len(table) - 1
    BY <2>1, EraseFacts, EraseKeepsRows
  <2>4. \A n \in 1..Len(table) : table[n].pk # k => Survives(table, n, Erase(table, i))
    BY <2>1, EraseKeepsOthers DEF Survives
  <2> QED BY <1>1, <2>2, <2>3, <2>4
<1> QED BY <1>2, <1>3

\* Every failure has a time to end.
LEMMA FailureRow ==
    ASSUME NEW table \in Seq(Failure)
    PROVE  \A i \in 1..Len(table) : table[i].until \in Nat
<1>1. \A i \in 1..Len(table) : table[i] \in Failure
  BY ElementOfSeq
<1> QED
  BY <1>1 DEF Failure

\* lockedOut takes one row at most, and an expired one of this key.
LEMMA LockCheckRows ==
    ASSUME IInv, OneRowEach(failures), NEW k
    PROVE  /\ AfterLockCheck(k) \in Seq(Failure) /\ OneRowEach(AfterLockCheck(k))
           /\ AfterLockCheck(k) = failures \/ Len(AfterLockCheck(k)) = Len(failures) - 1
           /\ \A n \in 1..Len(failures) :
                  failures[n].pk # k => Survives(failures, n, AfterLockCheck(k))
<1> DEFINE expired == {i \in RowsOf(failures, k) :
                          failures[i].until # 0 /\ failures[i].until <= now}
           e == Min(expired)
<1>1. failures \in Seq(Failure) /\ Len(failures) \in Nat
  BY LenProperties DEF IInv, FailuresOK
<1>2. AfterLockCheck(k) = IF expired = {} THEN failures ELSE Erase(failures, e)
  BY DEF AfterLockCheck
<1>3. expired \subseteq RowsOf(failures, k) /\ expired \subseteq Nat
  BY <1>1 DEF RowsOf
<1>4. CASE expired = {}
  BY <1>1, <1>2, <1>4 DEF Survives
<1>5. CASE expired # {}
  <2>1. e \in expired
    <3> HIDE DEF expired
    <3> QED BY <1>3, <1>5, MinFacts
  <2>2. AfterLockCheck(k) = Erase(failures, e)
    BY <1>2, <1>5
  <2> HIDE DEF e, expired
  <2>3. e \in 1..Len(failures) /\ failures[e].pk = k
    BY <1>3, <2>1 DEF RowsOf
  <2>4. /\ Erase(failures, e) \in Seq(Failure) /\ OneRowEach(Erase(failures, e))
        /\ Len(Erase(failures, e)) = Len(failures) - 1
    BY <1>1, <2>3, EraseFacts, EraseKeepsRows
  <2>5. \A n \in 1..Len(failures) :
           failures[n].pk # k => Survives(failures, n, Erase(failures, e))
    BY <1>1, <2>3, EraseKeepsOthers DEF Survives
  <2> QED BY <2>2, <2>4, <2>5
<1> QED BY <1>4, <1>5

\* noteFailure keeps one row per key and the bound; another key's row survives
\* unless the table is full and that row ends first.
LEMMA NoteFailureRows ==
    ASSUME NEW table \in Seq(Failure), OneRowEach(table), Len(table) <= MaxLoginFailures,
           NEW k \in Keys, now \in Nat
    PROVE  /\ OneRowEach(NoteFailure(table, k)) /\ Len(NoteFailure(table, k)) <= MaxLoginFailures
           /\ \A n \in 1..Len(table) : table[n].pk # k =>
                 \/ Survives(table, n, NoteFailure(table, k))
                 \/ /\ Len(table) = MaxLoginFailures
                    /\ \A i \in 1..Len(table) : table[n].until <= table[i].until
<1> DEFINE row(count, until) ==
               [pk |-> k, count |-> count,
                until |-> IF count >= MaxLoginAttempts THEN now + LoginLockout ELSE until]
           kept == IF Len(table) >= MaxLoginFailures
                   THEN Erase(table, FailureVictim(table)) ELSE table
<1>1. \A count, until \in Nat : row(count, until) \in Failure /\ row(count, until).pk = k
  BY RoomAssumption DEF Failure
<1>2. Len(table) \in Nat /\ \A i \in 1..Len(table) : table[i] \in Failure
  BY LenProperties, ElementOfSeq
<1>3. CASE RowsOf(table, k) = {}
  <2> DEFINE full(n) == /\ Len(table) = MaxLoginFailures
                        /\ \A i \in 1..Len(table) : table[n].until <= table[i].until
  <2>1. /\ kept \in Seq(Failure) /\ OneRowEach(kept) /\ RowsOf(kept, k) = {}
        /\ Len(kept) < MaxLoginFailures
        /\ \A n \in 1..Len(table) : Survives(table, n, kept) \/ full(n)
    <3>1. CASE Len(table) >= MaxLoginFailures
      <4> DEFINE v == FailureVictim(table)
      <4>1. v \in 1..Len(table) /\ \A i \in 1..Len(table) : table[v].until <= table[i].until
        BY <3>1, <1>2, FailureVictimFacts, RoomAssumption
      <4>2. kept = Erase(table, v)
        BY <3>1
      <4> HIDE DEF kept, v
      <4>3. /\ kept \in Seq(Failure) /\ OneRowEach(kept) /\ RowsOf(kept, k) = {}
            /\ Len(kept) = Len(table) - 1
        BY <1>3, <4>1, <4>2, EraseFacts, EraseKeepsRows
      <4>4. Len(kept) < MaxLoginFailures /\ Len(table) = MaxLoginFailures
        BY <1>2, <3>1, <4>3, RoomAssumption
      <4>5. \A n \in 1..Len(table) : n # v => Survives(table, n, kept)
        BY <4>1, <4>2, EraseKeepsOthers DEF Survives
      <4>6. full(v)
        BY <4>1, <4>4
      <4> HIDE DEF full
      <4> QED BY <4>3, <4>4, <4>5, <4>6
    <3>2. CASE ~(Len(table) >= MaxLoginFailures)
      <4>1. kept = table /\ Len(table) < MaxLoginFailures
        BY <1>2, <3>2, RoomAssumption
      <4> QED BY <1>3, <4>1 DEF Survives
    <3> QED BY <3>1, <3>2
  <2>2. NoteFailure(table, k) = Append(kept, row(1, 0))
    BY <1>3 DEF NoteFailure
  <2>3. row(1, 0) \in Failure /\ row(1, 0).pk = k
    BY <1>1
  <2> HIDE DEF kept, row, full
  <2>4. /\ Len(NoteFailure(table, k)) = Len(kept) + 1 /\ Len(kept) \in Nat
        /\ \A j \in 1..Len(kept) : NoteFailure(table, k)[j] = kept[j]
    BY <2>1, <2>2, <2>3, AppendProperties, LenProperties
  <2>5. OneRowEach(NoteFailure(table, k))
    BY <2>1, <2>2, <2>3, AppendKeepsRows
  <2>6. Len(NoteFailure(table, k)) <= MaxLoginFailures
    BY <2>1, <2>4, RoomAssumption
  <2>7. \A n \in 1..Len(table) : Survives(table, n, kept) => Survives(table, n, NoteFailure(table, k))
    BY <2>4 DEF Survives
  <2> QED BY <2>1, <2>5, <2>6, <2>7 DEF full
<1>4. CASE RowsOf(table, k) # {}
  <2> DEFINE i == Min(RowsOf(table, k))
             more == IF table[i].count < 255 THEN table[i].count + 1 ELSE 255
             new == row(more, table[i].until)
  <2>2. i \in 1..Len(table) /\ table[i].pk = k
    BY <1>4, RowFacts
  <2>3. NoteFailure(table, k) = [table EXCEPT ![i] = new]
    BY <1>4, <2>2 DEF NoteFailure
  <2> HIDE DEF i
  <2>4. more \in Nat /\ table[i].until \in Nat
    BY <1>2, <2>2 DEF Failure
  <2>5. new \in Failure /\ new.pk = k
    <3> HIDE DEF row, more
    <3> QED BY <1>1, <2>4
  <2> HIDE DEF new
  <2>6. /\ Len(NoteFailure(table, k)) = Len(table)
        /\ \A j \in 1..Len(table) : NoteFailure(table, k)[j] = IF j = i THEN new ELSE table[j]
    BY <2>2, <2>3, <2>5, ExceptSeq
  <2>7. OneRowEach(NoteFailure(table, k))
    BY <2>2, <2>5, <2>6 DEF OneRowEach
  <2>8. \A n \in 1..Len(table) : table[n].pk # k => Survives(table, n, NoteFailure(table, k))
    BY <2>2, <2>6 DEF Survives
  <2> QED BY <2>6, <2>7, <2>8
<1> QED
  BY <1>3, <1>4

\* What a login does to the failures: a lockout in force survives, unless the
\* table is full of them.
LEMMA LoginFailures ==
    ASSUME IInv, OneRowEach(failures), Len(failures) <= MaxLoginFailures,
           NEW k \in Keys, NEW pw, NEW ts, NEW since, OnAnon(k, pw, ts, since)
    PROVE  /\ OneRowEach(failures') /\ Len(failures') <= MaxLoginFailures
           /\ \A n \in 1..Len(failures) : failures[n].until > now =>
                 \/ Survives(failures, n, failures')
                 \/ /\ Len(failures) = MaxLoginFailures
                    /\ \A i \in 1..Len(failures) : failures[i].until > now
<1> DEFINE checked == AfterLockCheck(k)
<1>1. failures \in Seq(Failure) /\ Len(failures) \in Nat /\ now \in Nat /\ MaxLoginFailures \in Nat
  BY LenProperties, RoomAssumption DEF IInv, FailuresOK, RestOK
<1>2. /\ checked \in Seq(Failure) /\ OneRowEach(checked)
      /\ checked = failures \/ Len(checked) = Len(failures) - 1
      /\ \A n \in 1..Len(failures) : failures[n].pk # k => Survives(failures, n, checked)
  BY LockCheckRows
<1>3. \A n \in 1..Len(failures) : failures[n].until > now => failures[n].pk # k
  BY DEF OnAnon, LockedOut, RowsOf
<1>4. \/ failures' = Forgotten(checked, k)
      \/ failures' = checked
      \/ failures' = NoteFailure(checked, k)
  BY DEF OnAnon
<1>5. \A i \in 1..Len(failures) : failures[i].until \in Nat
  BY <1>1, FailureRow
<1> HIDE DEF checked
<1>6. Len(checked) <= MaxLoginFailures /\ Len(checked) <= Len(failures) /\ Len(checked) \in Nat
  BY <1>1, <1>2, LenProperties
<1>7. ASSUME NEW n \in 1..Len(failures), failures[n].until > now
      PROVE  \E m \in 1..Len(checked) : checked[m] = failures[n] /\ checked[m].pk # k
  BY <1>2, <1>3, <1>7 DEF Survives
<1>8. CASE failures' = checked
  BY <1>2, <1>3, <1>6, <1>8
<1>9. CASE failures' = Forgotten(checked, k)
  <2>1. /\ OneRowEach(Forgotten(checked, k)) /\ Len(Forgotten(checked, k)) <= Len(checked)
        /\ \A m \in 1..Len(checked) :
              checked[m].pk # k => Survives(checked, m, Forgotten(checked, k))
    BY <1>2, ForgottenRows
  <2>2. Len(failures') <= MaxLoginFailures
    <3>1. Forgotten(checked, k) \in Seq(Failure)
      BY <1>2, FailuresTrimmed DEF IInv
    <3> QED BY <1>1, <1>6, <1>9, <2>1, <3>1, LenProperties
  <2>3. ASSUME NEW n \in 1..Len(failures), failures[n].until > now
        PROVE  Survives(failures, n, failures')
    BY <1>7, <1>9, <2>1, <2>3 DEF Survives
  <2> QED BY <1>9, <2>1, <2>2, <2>3
<1>10. CASE failures' = NoteFailure(checked, k)
  <2>1. /\ OneRowEach(failures') /\ Len(failures') <= MaxLoginFailures
        /\ \A m \in 1..Len(checked) : checked[m].pk # k =>
              \/ Survives(checked, m, failures')
              \/ /\ Len(checked) = MaxLoginFailures
                 /\ \A i \in 1..Len(checked) : checked[m].until <= checked[i].until
    BY <1>1, <1>2, <1>6, <1>10, NoteFailureRows
  <2>2. ASSUME NEW n \in 1..Len(failures), failures[n].until > now,
               ~Survives(failures, n, failures')
        PROVE  /\ Len(failures) = MaxLoginFailures
               /\ \A i \in 1..Len(failures) : failures[i].until > now
    <3>1. PICK m \in 1..Len(checked) : checked[m] = failures[n] /\ checked[m].pk # k
      BY <1>7, <2>2
    <3>2. ~Survives(checked, m, failures')
      BY <2>2, <3>1 DEF Survives
    <3>3. /\ Len(checked) = MaxLoginFailures
          /\ \A i \in 1..Len(checked) : checked[m].until <= checked[i].until
      BY <2>1, <3>1, <3>2
    <3>4. checked = failures
      BY <1>1, <1>2, <1>6, <3>3
    <3> QED BY <1>1, <1>5, <2>2, <3>1, <3>3, <3>4
  <2> QED BY <2>1, <2>2
<1> QED
  BY <1>4, <1>8, <1>9, <1>10

\* Every step keeps the tables consistent.
LEMMA NextTables == IInv /\ IInv' /\ TablesConsistent /\ [Next]_vars => TablesConsistent'
<1> SUFFICES ASSUME IInv, IInv', TablesConsistent, [Next]_vars PROVE TablesConsistent'
  OBVIOUS
<1> USE DEF OneRowEach
<1>1. CASE UNCHANGED vars
  BY <1>1 DEF vars, TablesConsistent
<1>2. CASE Aside
  <2>1. /\ SameKeys(clients, clients') /\ failures' = failures
        /\ disk' = disk \/ SameKeys(clients, disk'.clients)
    BY <1>2, AsideFacts
  <2>2. OneRowEach(clients') /\ Len(clients') <= MaxClients
    BY <2>1, SameKeysRows DEF TablesConsistent, SameKeys
  <2>3. OneRowEach(disk'.clients) /\ Len(disk'.clients) <= MaxClients
    BY <2>1, SameKeysRows DEF TablesConsistent, SameKeys
  <2> QED BY <2>1, <2>2, <2>3 DEF TablesConsistent
<1>3. ASSUME NEW k \in Keys, NEW pw \in Passwords, NEW ts \in LoginStamps, NEW since \in Stamps,
             OnAnon(k, pw, ts, since)
      PROVE  TablesConsistent'
  <2>1. OneRowEach(failures') /\ Len(failures') <= MaxLoginFailures
    BY <1>3, LoginFailures DEF TablesConsistent
  <2>2. OneRowEach(Admitted(k)) /\ Len(Admitted(k)) <= MaxClients
    BY AdmittedRows DEF TablesConsistent
  <2>3. clients' = clients \/ SameKeys(Admitted(k), clients')
    BY <1>3, LoginClients, RoomAssumption
  <2>4. OneRowEach(clients') /\ Len(clients') <= MaxClients
    BY <2>2, <2>3, SameKeysRows DEF SameKeys, TablesConsistent
  <2>5. disk' = disk
    BY <1>3 DEF OnAnon
  <2> QED BY <2>1, <2>4, <2>5 DEF TablesConsistent
<1>4. CASE Restart
  <2> DEFINE loaded == [i \in 1..Len(disk.clients) |->
                 [NewClient(disk.clients[i].pk) EXCEPT
                     !.access    = disk.clients[i].access,
                     !.syncSeq   = disk.clients[i].syncSeq,
                     !.lastLogin = disk.clients[i].lastLogin]]
  <2>1. clients' = loaded /\ failures' = <<>> /\ disk' = disk
    BY <1>4 DEF Restart
  <2>2. Len(disk.clients) \in Nat /\ Len(clients') \in Nat /\ DOMAIN clients' = 1..Len(clients')
    <3>1. clients' \in Seq(Behind(nextSeq)') /\ disk.clients \in Seq(SavedBehind(disk.nextSeq))
      BY DEF IInv, ClientsOK, DiskOK
    <3> QED BY <3>1, LenProperties
  <2>3. Len(clients') = Len(disk.clients)
    <3>1. DOMAIN clients' = 1..Len(disk.clients)
      BY <2>1
    <3> HIDE DEF loaded
    <3> QED BY <2>2, <3>1
  <2>4. \A i \in 1..Len(disk.clients) : loaded[i].pk = disk.clients[i].pk
    BY DEF NewClient
  <2> HIDE DEF loaded
  <2>5. SameKeys(disk.clients, clients')
    BY <2>1, <2>3, <2>4 DEF SameKeys
  <2>6. OneRowEach(clients') /\ Len(clients') <= MaxClients
    BY <2>5, SameKeysRows DEF TablesConsistent, SameKeys
  <2>7. OneRowEach(failures') /\ Len(failures') <= MaxLoginFailures
    BY <2>1, EmptySeq, RoomAssumption
  <2> QED BY <2>1, <2>6, <2>7 DEF TablesConsistent
<1> QED
  BY <1>1, <1>2, <1>3, <1>4, NextSplit

\* The client table and the failure table hold one row per key and stay within
\* their bounds, in memory and in room.dat: findClient, lockedOut and
\* clearFailures, which stop at the first row, see all there is.
THEOREM TablesStayConsistent == Spec => []TablesConsistent
<1>1. Init => TablesConsistent
  BY EmptySeq, RoomAssumption DEF Init, TablesConsistent
<1> QED
  BY <1>1, SpecIInv, NextTables, PTL DEF Spec

\* An admin loses its row only to a restart, or to a login that finds nobody but
\* admins in a full table.
THEOREM AdminsKept == Spec => AdminKept
<1> DEFINE Kept == AdminKeys \subseteq AllKeys' \/ AdminKeys = AllKeys \/ Restarted
<1>1. IInv /\ IInv' /\ TablesConsistent /\ [Next]_vars => [Kept]_vars
  <2> SUFFICES ASSUME IInv, IInv', TablesConsistent, Next PROVE Kept
    OBVIOUS
  <2>1. CASE Aside
    <3>1. SameKeys(clients, clients')
      BY <2>1, AsideFacts
    <3> QED BY <3>1 DEF SameKeys, AdminKeys, AllKeys
  <2>2. ASSUME NEW k \in Keys, NEW pw \in Passwords, NEW ts \in LoginStamps, NEW since \in Stamps,
               OnAnon(k, pw, ts, since)
        PROVE  Kept
    <3>1. \/ \A i \in 1..Len(clients) : clients[i].access = "ADMIN"
          \/ \A i \in 1..Len(clients) : clients[i].access = "ADMIN" =>
                 RowsOf(Admitted(k), clients[i].pk) # {}
      BY AdmittedRows DEF TablesConsistent, OneRowEach
    <3>2. clients' = clients \/ SameKeys(Admitted(k), clients')
      BY <2>2, LoginClients, RoomAssumption
    <3>3. CASE clients' = clients
      BY <3>3 DEF AdminKeys, AllKeys
    <3>4. CASE \A i \in 1..Len(clients) : clients[i].access = "ADMIN"
      BY <3>4 DEF AdminKeys, AllKeys
    <3>5. CASE /\ SameKeys(Admitted(k), clients')
               /\ \A i \in 1..Len(clients) : clients[i].access = "ADMIN" =>
                     RowsOf(Admitted(k), clients[i].pk) # {}
      BY <3>5 DEF AdminKeys, AllKeys, SameKeys, RowsOf
    <3> QED BY <3>1, <3>2, <3>3, <3>4, <3>5
  <2>3. CASE Restart
    BY <2>3 DEF Restart, Restarted
  <2> QED BY <2>1, <2>2, <2>3, NextSplit
<1> QED
  BY <1>1, SpecIInv, TablesStayConsistent, PTL DEF Spec, AdminKept

\* A lockout in force ends early only with a restart, or when the failure table
\* is full of lockouts in force and one of them has to give way.
THEOREM LockoutsKept == Spec => LockoutKept
<1> DEFINE Kept ==
      \/ \A k \in Locked : k \in Locked' \/ \A i \in RowsOf(failures, k) : failures[i].until <= now'
      \/ Cardinality(Locked) = MaxLoginFailures
      \/ Restarted
<1>1. IInv /\ IInv' /\ TablesConsistent /\ [Next]_vars => [Kept]_vars
  <2> SUFFICES ASSUME IInv, IInv', TablesConsistent, Next PROVE Kept
    OBVIOUS
  <2>1. /\ failures \in Seq(Failure) /\ Len(failures) \in Nat /\ now \in Nat /\ now' \in Nat
        /\ \A i \in 1..Len(failures) : failures[i].until \in Nat
    BY LenProperties, FailureRow DEF IInv, FailuresOK, RestOK
  <2>2. CASE Aside
    <3>1. failures' = failures
      BY <2>2, AsideFacts
    <3>2. ASSUME NEW k \in Locked, k \notin Locked'
          PROVE  \A i \in RowsOf(failures, k) : failures[i].until <= now'
      BY <2>1, <3>1, <3>2 DEF Locked, RowsOf
    <3> QED BY <3>2
  <2>3. ASSUME NEW k \in Keys, NEW pw \in Passwords, NEW ts \in LoginStamps, NEW since \in Stamps,
               OnAnon(k, pw, ts, since)
        PROVE  Kept
    <3>1. now' = now
      BY <2>3 DEF OnAnon
    <3>2. \A n \in 1..Len(failures) : failures[n].until > now =>
             \/ Survives(failures, n, failures')
             \/ /\ Len(failures) = MaxLoginFailures
                /\ \A i \in 1..Len(failures) : failures[i].until > now
      BY <2>3, LoginFailures DEF TablesConsistent, OneRowEach
    <3>3. CASE \A n \in 1..Len(failures) : failures[n].until > now => Survives(failures, n, failures')
      <4>1. Locked \subseteq Locked'
        BY <3>1, <3>3 DEF Locked, Survives
      <4> QED BY <4>1
    <3>4. CASE /\ Len(failures) = MaxLoginFailures
               /\ \A i \in 1..Len(failures) : failures[i].until > now
      <4> DEFINE key == [i \in 1..Len(failures) |-> failures[i].pk]
      <4>1. Locked = {failures[i].pk : i \in 1..Len(failures)}
        BY <3>4 DEF Locked
      <4>2. key \in Bijection(1..Len(failures), Locked)
        BY <4>1 DEF Bijection, Injection, Surjection, IsInjective, TablesConsistent
      <4>3. IsFiniteSet(1..Len(failures)) /\ Cardinality(1..Len(failures)) = Len(failures)
        <5> DEFINE n == Len(failures)
        <5>1. n \in Nat
          BY <2>1
        <5> HIDE DEF n
        <5>2. 1 \in Int /\ n \in Int /\ (IF 1 > n THEN 0 ELSE n - 1 + 1) = n
          BY <5>1
        <5>3. IsFiniteSet(1..n) /\ Cardinality(1..n) = n
          BY <5>2, FS_Interval
        <5> QED BY <5>3 DEF n
      <4> HIDE DEF key
      <4>4. Cardinality(Locked) = Cardinality(1..Len(failures))
        <5>1. ExistsBijection(1..Len(failures), Locked)
          BY <4>2 DEF ExistsBijection
        <5> QED BY <4>3, <5>1, FS_Bijection
      <4> QED BY <3>4, <4>3, <4>4
    <3> QED BY <3>2, <3>3, <3>4
  <2>4. CASE Restart
    BY <2>4 DEF Restart, Restarted
  <2> QED BY <2>2, <2>3, <2>4, NextSplit
<1> QED
  BY <1>1, SpecIInv, TablesStayConsistent, PTL DEF Spec, LockoutKept

-----------------------------------------------------------------------------
(* The room and its readers.                                               *)

\* What a client has, or has asked not to be sent: per key, of what reached
\* everyone and what everyone waived.
Got(k, had, off) == had[k] \cup off[k]

\* Every post of a ring up to this number that somebody else wrote is one of
\* these.
Covers(ring, pk, bound, got) ==
    \A j \in 1..Len(ring) :
        ring[j].seq <= bound /\ ring[j].author # pk => ring[j].seq \in got

GhostsOK ==
    /\ DOMAIN open \subseteq Ids
    /\ \A id \in DOMAIN open : open[id] \in [to : Keys, seq : Nat]
    /\ pushed \in [Keys -> SUBSET Nat]
    /\ reached \in [Keys -> SUBSET Nat] /\ waived \in [Keys -> SUBSET Nat]
    /\ \A k \in Keys : reached[k] \subseteq pushed[k]

\* A row's bookmark is covered; a row that waits has its send under way, and
\* everything before the post in it is covered.
BookmarkOK(c, ring, had, off) == Covers(ring, c.pk, c.syncSeq, Got(c.pk, had, off))
PushOK(c, ring, sends, had, off) ==
    c.pending =>
        /\ Covers(ring, c.pk, c.pendingSeq - 1, Got(c.pk, had, off))
        /\ c.pendingId \in DOMAIN sends
        /\ sends[c.pendingId].to = c.pk /\ sends[c.pendingId].seq = c.pendingSeq

RowsOK ==
    \A i \in 1..Len(clients) :
        /\ BookmarkOK(clients[i], posts, reached, waived)
        /\ PushOK(clients[i], posts, open, reached, waived)

SavedOK ==
    \A i \in 1..Len(disk.clients) : BookmarkOK(disk.clients[i], disk.posts, reached, waived)

SyncInv == GhostsOK /\ RowsOK /\ SavedOK

-----------------------------------------------------------------------------
(* The room's part of a step.                                              *)

\* Every step of the room among its readers is a step of the room, or none.
LEMMA SyncStepIsRoomStep == IInv /\ [SyncNext]_syncVars => [Next]_vars
<1> SUFFICES ASSUME IInv, [SyncNext]_syncVars PROVE [Next]_vars
  OBVIOUS
<1>1. CASE UNCHANGED syncVars
  BY <1>1 DEF syncVars
<1>2. CASE Incoming
  BY <1>2 DEF Incoming, Next
<1>3. ASSUME NEW k \in Keys, NEW pw \in Passwords, NEW ts \in LoginStamps, NEW since \in Stamps,
             Login(k, pw, ts, since)
      PROVE  Next
  BY <1>3 DEF Login, Next
<1>4. ASSUME NEW k \in Keys, NEW ts \in RequestStamps, NEW since \in Stamps, Refresh(k, ts, since)
      PROVE  Next
  BY <1>4 DEF Refresh, Next
<1>5. ASSUME NEW t \in now..MaxTime, NEW id \in Ids, RoomTick(t, id)
      PROVE  Next
  <2>1. t \in 0..MaxTime
    BY RoomAssumption DEF IInv, RestOK
  <2> QED BY <1>5, <2>1 DEF RoomTick, Next
<1>6. ASSUME NEW k \in Keys, NEW seq \in 1..MaxSeq, Hear(k, seq)
      PROVE  UNCHANGED vars
  BY <1>6 DEF Hear
<1>7. ASSUME NEW id \in Ids, Acked(id) \/ GaveUp(id)
      PROVE  Next \/ UNCHANGED vars
  BY <1>7 DEF Acked, GaveUp, Next
<1>8. CASE RoomRestart
  BY <1>8 DEF RoomRestart, Next
<1> QED
  BY <1>1, <1>2, <1>3, <1>4, <1>5, <1>6, <1>7, <1>8 DEF SyncNext

\* The room among its readers takes only steps of the room, so what is proved of
\* the room holds there.
LEMMA SyncImplementsRoom == SyncSpec => Spec
<1>1. SyncInit => Init
  BY DEF SyncInit
<1>2. SyncSpec => []IInv
  <2>1. SyncInit => IInv
    BY <1>1, InitIInv
  <2>2. IInv /\ [SyncNext]_syncVars => IInv'
    BY SyncStepIsRoomStep, NextIInv
  <2> QED BY <2>1, <2>2, PTL DEF SyncSpec
<1> QED
  BY <1>1, <1>2, SyncStepIsRoomStep, PTL DEF SyncSpec, Spec

\* The fields of a row that SyncInv is about.
SameSend(c, d) ==
    /\ d.pk = c.pk /\ d.pending = c.pending
    /\ d.pendingId = c.pendingId /\ d.pendingSeq = c.pendingSeq
SameRow(c, d) == SameSend(c, d) /\ d.syncSeq = c.syncSeq

\* A request leaves every row as it was, in these fields.
LEMMA RequestRows ==
    ASSUME IInv, IInv', Request
    PROVE  /\ Len(clients') = Len(clients)
           /\ \A i \in 1..Len(clients) : SameRow(clients[i], clients'[i])
<1>1. Len(clients') = Len(clients)
  BY AsideFacts DEF Aside, SameKeys
<1>2. /\ DOMAIN clients = 1..Len(clients)
      /\ \A i \in 1..Len(clients) : clients[i] \in Client
  BY LenProperties, ClientRow DEF IInv, ClientsOK, Behind
<1>3. \/ UNCHANGED clients
      \/ \E ts : \E i \in 1..Len(clients) :
            \/ clients' = [clients EXCEPT ![i].lastRequest = ts]
            \/ clients' = [clients EXCEPT ![i].lastCommand = ts]
  <2>1. ASSUME NEW k, NEW ts, StatusRequest(k, ts)
        PROVE  \E i \in 1..Len(clients) : clients' = [clients EXCEPT ![i].lastRequest = ts]
    BY <2>1 DEF StatusRequest, RowsOf
  <2>2. ASSUME NEW k, NEW ts, Commanded(k, ts)
        PROVE  \E i \in 1..Len(clients) : clients' = [clients EXCEPT ![i].lastCommand = ts]
    BY <2>2 DEF Commanded, RowsOf
  <2>3. \/ UNCHANGED clients
        \/ \E k, ts : StatusRequest(k, ts)
        \/ \E k, ts : Commanded(k, ts)
    BY DEF Request, HandleText, OnGroup, CommandAnswer, CommandClock, CommandClear, SetServerTime,
       Flush
  <2> QED BY <2>1, <2>2, <2>3
<1>4. ASSUME NEW n \in 1..Len(clients) PROVE SameRow(clients[n], clients'[n])
  <2>1. CASE UNCHANGED clients
    BY <2>1 DEF SameRow, SameSend
  <2>2. ASSUME NEW i \in 1..Len(clients), NEW ts,
               \/ clients' = [clients EXCEPT ![i].lastRequest = ts]
               \/ clients' = [clients EXCEPT ![i].lastCommand = ts]
        PROVE  SameRow(clients[n], clients'[n])
    <3>1. CASE clients' = [clients EXCEPT ![i].lastRequest = ts]
      BY <1>2, <3>1 DEF SameRow, SameSend, Client
    <3>2. CASE clients' = [clients EXCEPT ![i].lastCommand = ts]
      BY <1>2, <3>2 DEF SameRow, SameSend, Client
    <3> QED BY <2>2, <3>1, <3>2
  <2> QED BY <1>3, <2>1, <2>2
<1> QED
  BY <1>1, <1>4

\* A post on the board after a request was on it before, or has a new number.
LEMMA RequestRing ==
    ASSUME IInv, Request
    PROVE  \A j \in 1..Len(posts') :
              \/ posts'[j].seq = nextSeq
              \/ \E i \in 1..Len(posts) : posts'[j] = posts[i]
<1>1. CASE UNCHANGED posts
  BY <1>1
<1>2. CASE posts' = <<>>
  BY <1>2, EmptySeq
<1>3. ASSUME NEW author \in Keys \cup {NoAuthor}, NEW ts \in Nat, AddPost(author, ts)
      PROVE  \A j \in 1..Len(posts') :
                \/ posts'[j].seq = nextSeq
                \/ \E i \in 1..Len(posts) : posts'[j] = posts[i]
  <2> DEFINE post == [seq |-> nextSeq, timestamp |-> SanitiseTimestamp(ts), author |-> author]
             kept == IF Len(posts) >= MaxPosts THEN Tail(posts) ELSE posts
  <2>1. post \in Post /\ post.seq = nextSeq
    BY DEF SanitiseTimestamp, Post, IInv, BoardOK, RestOK
  <2>2. posts \in Seq(Post) /\ Len(posts) \in Nat /\ (posts = <<>> => Len(posts) = 0)
    BY LenProperties, EmptySeq DEF IInv, BoardOK
  <2>3. kept \in Seq(Post) /\ \A j \in 1..Len(kept) : \E i \in 1..Len(posts) : kept[j] = posts[i]
    <3>1. CASE Len(posts) >= MaxPosts
      <4>1. /\ kept \in Seq(Post) /\ Len(kept) = Len(posts) - 1
            /\ \A j \in 1..Len(kept) : kept[j] = posts[j + 1]
        BY <2>2, <3>1, HeadTailProperties, RoomAssumption
      <4> HIDE DEF kept
      <4>2. \A j \in 1..Len(kept) : j + 1 \in 1..Len(posts)
        BY <2>2, <4>1
      <4> QED BY <4>1, <4>2
    <3> QED BY <2>2, <3>1
  <2>4. posts' = Append(kept, post)
    BY <1>3 DEF AddPost
  <2> HIDE DEF kept, post
  <2>5. /\ Len(kept) \in Nat /\ Len(posts') = Len(kept) + 1
        /\ \A j \in 1..Len(kept) : posts'[j] = kept[j]
        /\ posts'[Len(kept) + 1] = post
    BY <2>1, <2>3, <2>4, AppendProperties, LenProperties
  <2> QED BY <2>1, <2>3, <2>5
<1>4. \/ UNCHANGED posts
      \/ posts' = <<>>
      \/ \E author \in Keys \cup {NoAuthor}, ts \in Nat : AddPost(author, ts)
  BY RoomAssumption DEF Request, HandleText, OnGroup, StatusRequest, CommandAnswer, CommandClock,
     CommandClear, SetServerTime, Flush
<1> QED
  BY <1>1, <1>2, <1>3, <1>4

-----------------------------------------------------------------------------
(* The steps.                                                              *)

\* What IInv says of a row, and of a saved one.
LEMMA RowBounds ==
    ASSUME IInv
    PROVE  /\ nextSeq \in Nat /\ Len(clients) \in Nat
           /\ \A i \in 1..Len(clients) :
                 /\ clients[i].pk \in Keys /\ clients[i].pending \in BOOLEAN
                 /\ clients[i].syncSeq \in Nat /\ clients[i].syncSeq < nextSeq
                 /\ clients[i].pendingSeq \in Nat /\ clients[i].pendingSeq < nextSeq
           /\ \A i \in 1..Len(disk.clients) : disk.clients[i].pk \in Keys
           /\ \A j \in 1..Len(posts) : posts[j].seq \in 1..nextSeq - 1
<1>1. \A i \in 1..Len(clients) : clients[i] \in Behind(nextSeq)
  BY ClientRow DEF IInv
<1>2. \A i \in 1..Len(disk.clients) : disk.clients[i] \in SavedBehind(disk.nextSeq)
  BY ElementOfSeq DEF IInv, DiskOK
<1>3. nextSeq \in Nat /\ Len(clients) \in Nat /\ \A j \in 1..Len(posts) : posts[j].seq \in 1..nextSeq - 1
  BY LenProperties DEF IInv, BoardOK, ClientsOK, InOrder
<1> QED
  BY <1>1, <1>2, <1>3 DEF Behind, Client, SavedBehind, SavedClient

\* What a row of the new table owes to a row of the old one, when nothing else
\* SyncInv speaks of shrinks.
LEMMA RowKept ==
    ASSUME IInv, SyncInv, NEW n \in 1..Len(clients), NEW d, SameSend(clients[n], d),
           \A j \in 1..Len(posts') :
              posts'[j].seq = nextSeq \/ \E i \in 1..Len(posts) : posts'[j] = posts[i],
           UNCHANGED open \/ \A id \in DOMAIN open : id \in DOMAIN open' /\ open'[id] = open[id],
           \A k \in Keys : Got(k, reached, waived) \subseteq Got(k, reached', waived')
    PROVE  /\ d.syncSeq = clients[n].syncSeq => BookmarkOK(d, posts', reached', waived')
           /\ PushOK(d, posts', open', reached', waived')
<1> DEFINE c == clients[n]
<1>1. /\ c.pk \in Keys /\ nextSeq \in Nat
      /\ c.syncSeq \in Nat /\ c.syncSeq < nextSeq
      /\ c.pendingSeq \in Nat /\ c.pendingSeq < nextSeq
  BY RowBounds
<1>2. /\ BookmarkOK(c, posts, reached, waived) /\ PushOK(c, posts, open, reached, waived)
      /\ Got(c.pk, reached, waived) \subseteq Got(c.pk, reached', waived')
  BY <1>1 DEF SyncInv, RowsOK
<1> HIDE DEF c
<1>3. d.pk = c.pk /\ d.pending = c.pending /\ d.pendingId = c.pendingId /\ d.pendingSeq = c.pendingSeq
  BY DEF SameSend, c
<1>4. ASSUME NEW bound \in Int, bound < nextSeq,
             Covers(posts, c.pk, bound, Got(c.pk, reached, waived))
      PROVE  Covers(posts', c.pk, bound, Got(c.pk, reached', waived'))
  <2> SUFFICES ASSUME NEW j \in 1..Len(posts'), posts'[j].seq <= bound, posts'[j].author # c.pk
               PROVE  posts'[j].seq \in Got(c.pk, reached', waived')
    BY DEF Covers
  <2>1. posts'[j].seq # nextSeq
    BY <1>1, <1>4
  <2>2. PICK i \in 1..Len(posts) : posts'[j] = posts[i]
    BY <2>1
  <2>3. posts[i].seq \in Got(c.pk, reached, waived)
    BY <1>4, <2>2 DEF Covers
  <2> QED BY <1>2, <2>2, <2>3
<1>5. c.pendingSeq - 1 \in Int /\ c.pendingSeq - 1 < nextSeq /\ c.syncSeq \in Int
  BY <1>1
<1>6. /\ BookmarkOK(c, posts', reached', waived')
      /\ c.pending => Covers(posts', c.pk, c.pendingSeq - 1, Got(c.pk, reached', waived'))
  BY <1>1, <1>2, <1>4, <1>5 DEF BookmarkOK, PushOK
<1>7. d.syncSeq = c.syncSeq => BookmarkOK(d, posts', reached', waived')
  BY <1>3, <1>6 DEF BookmarkOK
<1>8. PushOK(d, posts', open', reached', waived')
  BY <1>2, <1>3, <1>6 DEF PushOK
<1> QED
  BY <1>7, <1>8 DEF c

\* What was saved stays covered.
LEMMA SavedKept ==
    ASSUME IInv, SyncInv, UNCHANGED disk, \A k \in Keys : Got(k, reached, waived) \subseteq Got(k, reached', waived')
    PROVE  SavedOK'
<1>1. \A i \in 1..Len(disk.clients) : disk.clients[i].pk \in Keys
  BY RowBounds
<1>2. ASSUME NEW i \in 1..Len(disk.clients)
      PROVE  BookmarkOK(disk.clients[i], disk.posts, reached', waived')
  <2>1. BookmarkOK(disk.clients[i], disk.posts, reached, waived)
    BY DEF SyncInv, SavedOK
  <2> QED BY <1>1, <2>1 DEF BookmarkOK, Covers
<1> QED
  BY <1>2 DEF SavedOK

\* What a client has only grows, and stays what it was where nothing changed.
LEMMA GotSame ==
    ASSUME UNCHANGED <<reached, waived>>
    PROVE  \A k \in Keys : Got(k, reached, waived) \subseteq Got(k, reached', waived')
OBVIOUS

\* Requests keep the invariant; room.dat gets bookmarks and posts that were
\* covered in memory.
LEMMA IncomingStep ==
    ASSUME IInv, IInv', SyncInv, Incoming
    PROVE  SyncInv'
<1>1. Request /\ UNCHANGED <<open, pushed, reached, waived>>
  BY DEF Incoming
<1>2. /\ Len(clients') = Len(clients)
      /\ \A i \in 1..Len(clients) : SameRow(clients[i], clients'[i])
  BY <1>1, RequestRows
<1>3. \A j \in 1..Len(posts') :
         posts'[j].seq = nextSeq \/ \E i \in 1..Len(posts) : posts'[j] = posts[i]
  BY <1>1, RequestRing
<1>4. \A k \in Keys : Got(k, reached, waived) \subseteq Got(k, reached', waived')
  BY <1>1, GotSame
<1>5. RowsOK'
  <2>1. ASSUME NEW i \in 1..Len(clients')
        PROVE  /\ BookmarkOK(clients'[i], posts', reached', waived')
               /\ PushOK(clients'[i], posts', open', reached', waived')
    <3> DEFINE d == clients'[i]
    <3>1. i \in 1..Len(clients) /\ SameSend(clients[i], d) /\ d.syncSeq = clients[i].syncSeq
      BY <1>2 DEF SameRow
    <3> HIDE DEF d
    <3>2. BookmarkOK(d, posts', reached', waived') /\ PushOK(d, posts', open', reached', waived')
      BY <1>1, <1>3, <1>4, <3>1, RowKept
    <3> QED BY <3>2 DEF d
  <2> QED BY <2>1 DEF RowsOK
<1>6. SavedOK'
  <2>1. disk' = disk \/ Flush
    BY <1>1 DEF Request, HandleText, OnGroup, StatusRequest, CommandAnswer, CommandClock,
       CommandClear, SetServerTime
  <2>2. CASE disk' = disk
    BY <1>4, <2>2, SavedKept
  <2>3. CASE Flush
    <3> DEFINE saved == [i \in 1..Len(clients) |->
                   [pk |-> clients[i].pk, access |-> clients[i].access,
                    syncSeq |-> clients[i].syncSeq, lastLogin |-> clients[i].lastLogin]]
    <3>1. disk'.clients = saved /\ disk'.posts = posts
      BY <2>3 DEF Flush
    <3>2. \A i \in 1..Len(clients) : saved[i].pk = clients[i].pk /\ saved[i].syncSeq = clients[i].syncSeq
      OBVIOUS
    <3>3. DOMAIN disk'.clients = 1..Len(clients) /\ DOMAIN disk'.clients = 1..Len(disk'.clients)
      <4>1. disk'.clients \in Seq(SavedBehind(disk'.nextSeq))
        BY DEF IInv, DiskOK, SavedBehind
      <4>2. DOMAIN saved = 1..Len(clients)
        OBVIOUS
      <4> HIDE DEF saved
      <4> QED BY <3>1, <4>1, <4>2, LenProperties
    <3> HIDE DEF saved
    <3>4. ASSUME NEW i \in 1..Len(disk'.clients)
          PROVE  BookmarkOK(disk'.clients[i], disk'.posts, reached', waived')
      <4>1. i \in 1..Len(clients)
        BY <3>3
      <4>2. BookmarkOK(clients[i], posts, reached, waived)
        BY <4>1 DEF SyncInv, RowsOK
      <4>3. disk'.clients[i].pk = clients[i].pk /\ disk'.clients[i].syncSeq = clients[i].syncSeq
        BY <3>1, <3>2, <4>1
      <4> QED BY <1>1, <3>1, <4>2, <4>3 DEF BookmarkOK
    <3> QED BY <3>4 DEF SavedOK
  <2> QED BY <2>1, <2>2, <2>3
<1>7. GhostsOK'
  BY <1>1 DEF SyncInv, GhostsOK
<1> QED
  BY <1>5, <1>6, <1>7 DEF SyncInv

\* A bookmark taken from its client waives what it passes.
LEMMA WaiveFacts ==
    ASSUME IInv, GhostsOK, NEW k \in Keys, NEW since \in Nat, Waive(k, since),
           UNCHANGED <<posts, reached>>
    PROVE  /\ waived' \in [Keys -> SUBSET Nat]
           /\ \A q \in Keys : Got(q, reached, waived) \subseteq Got(q, reached', waived')
           /\ \A d : d.pk = k /\ d.syncSeq = SeqFromTimestamp(since) =>
                 BookmarkOK(d, posts', reached', waived')
<1> DEFINE s == SeqFromTimestamp(since)
<1>1. s \in Nat /\ waived \in [Keys -> SUBSET Nat] /\ waived' = [waived EXCEPT ![k] = @ \cup 1..s]
  BY SeqFromTimestampFacts DEF IInv, GhostsOK, Waive
<1>2. \A j \in 1..Len(posts) : posts[j].seq \in 1..nextSeq - 1
  BY DEF IInv, BoardOK, InOrder
<1>3. nextSeq \in Nat
  BY DEF IInv, BoardOK
<1> HIDE DEF s
<1>4. waived' \in [Keys -> SUBSET Nat]
  BY <1>1
<1>5. \A q \in Keys : waived[q] \subseteq waived'[q]
  BY <1>1
<1>6. \A n \in 1..s : n \in waived'[k]
  BY <1>1
<1>7. \A j \in 1..Len(posts') : posts'[j].seq <= s => posts'[j].seq \in Got(k, reached', waived')
  BY <1>1, <1>2, <1>3, <1>6 DEF Got
<1> QED
  BY <1>4, <1>5, <1>7 DEF Got, BookmarkOK, Covers, s

\* Every row of the admitted table is an old one or the new client's.
LEMMA AdmittedOrigin ==
    ASSUME IInv, NEW k \in Keys
    PROVE  \A j \in 1..Len(Admitted(k)) :
              \/ Admitted(k)[j] = NewClient(k)
              \/ \E n \in 1..Len(clients) : Admitted(k)[j] = clients[n]
<1> DEFINE S == Behind(nextSeq)
           kept == IF Len(clients) >= MaxClients THEN Erase(clients, ClientVictim) ELSE clients
<1>1. /\ clients \in Seq(S) /\ Len(clients) \in Nat /\ NewClient(k) \in S
      /\ \A c \in S : c.lastLogin \in Nat
  BY LenProperties, NewClientFacts DEF IInv, ClientsOK, BoardOK, Behind, Client
<1> HIDE DEF S
<1>2. kept \in Seq(S) /\ \A j \in 1..Len(kept) : \E n \in 1..Len(clients) : kept[j] = clients[n]
  <2>1. CASE Len(clients) >= MaxClients
    <3> DEFINE v == ClientVictim
    <3>1. v \in 1..Len(clients) /\ kept = Erase(clients, v)
      BY <1>1, <2>1, ClientVictimFacts, RoomAssumption
    <3> HIDE DEF v, kept
    <3>2. /\ kept \in Seq(S) /\ Len(kept) = Len(clients) - 1
          /\ \A j \in 1..Len(clients) - 1 : kept[j] = IF j < v THEN clients[j] ELSE clients[j + 1]
      BY <1>1, <3>1, EraseFacts
    <3>3. ASSUME NEW j \in 1..Len(kept) PROVE \E n \in 1..Len(clients) : kept[j] = clients[n]
      <4>1. j \in 1..Len(clients) /\ j + 1 \in 1..Len(clients) /\ j \in 1..Len(clients) - 1
        BY <1>1, <3>2
      <4> QED BY <3>2, <4>1
    <3> QED BY <3>2, <3>3
  <2> QED BY <1>1, <2>1
<1>3. Admitted(k) = clients \/ Admitted(k) = Append(kept, NewClient(k))
  BY DEF Admitted
<1> HIDE DEF kept
<1>4. CASE Admitted(k) = Append(kept, NewClient(k))
  <2>1. /\ Len(Admitted(k)) = Len(kept) + 1 /\ Len(kept) \in Nat
        /\ \A j \in 1..Len(kept) : Admitted(k)[j] = kept[j]
        /\ Admitted(k)[Len(kept) + 1] = NewClient(k)
    BY <1>1, <1>2, <1>4, AppendProperties, LenProperties
  <2> QED BY <1>2, <2>1
<1> QED
  BY <1>3, <1>4

\* The rows after a login: each an old one's send, with its old bookmark or the
\* one that came with the login, or a new row with that bookmark and no send.
LEMMA LoginRows ==
    ASSUME IInv, TablesConsistent, NEW k \in Keys, NEW pw \in Passwords, NEW ts \in Nat,
           NEW since \in Nat, OnAnon(k, pw, ts, since)
    PROVE  \/ UNCHANGED clients
           \/ /\ AccessFor(pw) # "NONE"
              /\ \A i \in 1..Len(clients') :
                    LET d == clients'[i]
                        fresh == d.pk = k /\ d.syncSeq = SeqFromTimestamp(since)
                    IN  \/ ~d.pending /\ fresh
                        \/ \E n \in 1..Len(clients) :
                              SameSend(clients[n], d) /\ (d.syncSeq = clients[n].syncSeq \/ fresh)
<1> DEFINE access == AccessFor(pw)
           table  == Admitted(k)
           row    == Min(RowsOf(table, k))
           to     == SeqFromTimestamp(since)
           new    == [table[row] EXCEPT !.access = access, !.lastLogin = ts, !.syncSeq = to]
           fresh(d) == d.pk = k /\ d.syncSeq = to
           Good(d) == \/ ~d.pending /\ fresh(d)
                      \/ \E n \in 1..Len(clients) :
                            SameSend(clients[n], d) /\ (d.syncSeq = clients[n].syncSeq \/ fresh(d))
<1>1. table \in Seq(Behind(nextSeq)) /\ row \in 1..Len(table) /\ table[row].pk = k
  BY AdmittedFacts, RowFacts DEF IInv
<1>2. OneRowEach(table)
  BY AdmittedRows DEF TablesConsistent, OneRowEach
<1>3. \A j \in 1..Len(table) :
         \/ table[j] = NewClient(k)
         \/ \E n \in 1..Len(clients) : table[j] = clients[n]
  BY AdmittedOrigin
<1>4. \/ clients' = clients
      \/ /\ access # "NONE"
         /\ clients' = [table EXCEPT ![row].access = access, ![row].lastLogin = ts, ![row].syncSeq = to]
  BY DEF OnAnon
<1>5. access \in Access /\ to \in Nat
  BY SeqFromTimestampFacts DEF IInv, AccessFor, Access
<1> HIDE DEF table, row, access, to
<1>6. clients' = clients \/ (access # "NONE" /\ clients' = [table EXCEPT ![row] = new])
  BY <1>1, <1>4, LenProperties
<1>7. table[row] \in Client
  BY <1>1, ElementOfSeq DEF Behind
<1>8. new \in Client /\ SameSend(table[row], new) /\ fresh(new) /\ new.pending = table[row].pending
  BY <1>1, <1>5, <1>7 DEF Client, SameSend
<1>9. NewClient(k).pk = k /\ ~NewClient(k).pending
  BY DEF NewClient
<1> HIDE DEF new, fresh
<1>10. Good(new)
  <2>1. CASE table[row] = NewClient(k)
    BY <1>8, <1>9, <2>1
  <2>2. ASSUME NEW n \in 1..Len(clients), table[row] = clients[n] PROVE Good(new)
    BY <1>8, <2>2
  <2> HIDE DEF Good
  <2> QED BY <1>1, <1>3, <2>1, <2>2
<1>11. ASSUME NEW j \in 1..Len(table), j # row PROVE Good(table[j])
  <2>1. table[j] # NewClient(k)
    BY <1>1, <1>2, <1>9, <1>11 DEF OneRowEach
  <2>2. PICK n \in 1..Len(clients) : table[j] = clients[n]
    BY <1>3, <2>1
  <2> QED BY <2>2 DEF SameSend
<1>12. CASE access # "NONE" /\ clients' = [table EXCEPT ![row] = new]
  <2>1. /\ Len(clients') = Len(table)
        /\ \A j \in 1..Len(table) : clients'[j] = IF j = row THEN new ELSE table[j]
    <3>1. table \in Seq(Client)
      BY <1>1, SeqMonotonic DEF Behind
    <3> QED BY <1>1, <1>8, <1>12, <3>1, ExceptSeq
  <2>2. \A j \in 1..Len(clients') : Good(clients'[j])
    <3> HIDE DEF Good
    <3> QED BY <1>10, <1>11, <2>1
  <2> QED BY <1>12, <2>2 DEF access, fresh, to
<1> QED
  BY <1>6, <1>12

\* A login keeps the invariant: its bookmark waives what it passes, and a push
\* under way stays what it was.
LEMMA LoginStep ==
    ASSUME IInv, TablesConsistent, SyncInv, NEW k \in Keys, NEW pw \in Passwords, NEW ts \in Nat,
           NEW since \in Nat, Login(k, pw, ts, since)
    PROVE  SyncInv'
<1>1. /\ OnAnon(k, pw, ts, since)
      /\ IF AccessFor(pw) = "NONE" THEN UNCHANGED waived ELSE Waive(k, since)
      /\ UNCHANGED <<open, pushed, reached, posts, disk>>
  BY DEF Login, OnAnon
<1>2. GhostsOK
  BY DEF SyncInv
<1>3. /\ waived' \in [Keys -> SUBSET Nat]
      /\ \A q \in Keys : Got(q, reached, waived) \subseteq Got(q, reached', waived')
  <2>1. CASE AccessFor(pw) = "NONE"
    BY <1>1, <1>2, <2>1, GotSame DEF GhostsOK
  <2>2. CASE AccessFor(pw) # "NONE"
    BY <1>1, <1>2, <2>2, WaiveFacts
  <2> QED BY <2>1, <2>2
<1>4. \A j \in 1..Len(posts') :
         posts'[j].seq = nextSeq \/ \E i \in 1..Len(posts) : posts'[j] = posts[i]
  BY <1>1
<1>5. RowsOK'
  <2>1. CASE UNCHANGED clients
    <3>1. ASSUME NEW i \in 1..Len(clients)
          PROVE  /\ BookmarkOK(clients[i], posts', reached', waived')
                 /\ PushOK(clients[i], posts', open', reached', waived')
      BY <1>1, <1>3, <1>4, RowKept DEF SameSend
    <3> QED BY <2>1, <3>1 DEF RowsOK
  <2>2. CASE ~UNCHANGED clients
    <3>1. AccessFor(pw) # "NONE"
      BY <1>1, <2>2, LoginRows
    <3>2. \A d : d.pk = k /\ d.syncSeq = SeqFromTimestamp(since) =>
               BookmarkOK(d, posts', reached', waived')
      BY <1>1, <1>2, <3>1, WaiveFacts
    <3>3. ASSUME NEW i \in 1..Len(clients')
          PROVE  /\ BookmarkOK(clients'[i], posts', reached', waived')
                 /\ PushOK(clients'[i], posts', open', reached', waived')
      <4> DEFINE d == clients'[i]
                 fresh == d.pk = k /\ d.syncSeq = SeqFromTimestamp(since)
      <4>1. \/ ~d.pending /\ fresh
            \/ \E n \in 1..Len(clients) :
                  SameSend(clients[n], d) /\ (d.syncSeq = clients[n].syncSeq \/ fresh)
        BY <1>1, <2>2, LoginRows
      <4> HIDE DEF d
      <4>2. CASE ~d.pending /\ fresh
        BY <3>2, <4>2 DEF PushOK, d
      <4>3. ASSUME NEW n \in 1..Len(clients), SameSend(clients[n], d),
                   d.syncSeq = clients[n].syncSeq \/ fresh
            PROVE  BookmarkOK(d, posts', reached', waived') /\ PushOK(d, posts', open', reached', waived')
        <5>1. /\ d.syncSeq = clients[n].syncSeq => BookmarkOK(d, posts', reached', waived')
              /\ PushOK(d, posts', open', reached', waived')
          BY <1>1, <1>3, <1>4, <4>3, RowKept
        <5> QED BY <3>2, <4>3, <5>1
      <4> QED BY <4>1, <4>2, <4>3 DEF d
    <3> QED BY <3>3 DEF RowsOK
  <2> QED BY <2>1, <2>2
<1>6. SavedOK'
  BY <1>1, <1>3, SavedKept
<1>7. GhostsOK'
  BY <1>1, <1>2, <1>3 DEF GhostsOK
<1> QED
  BY <1>5, <1>6, <1>7 DEF SyncInv

\* A keep-alive does the same to the row it finds.
LEMMA RefreshStep ==
    ASSUME IInv, IInv', SyncInv, NEW k \in Keys, NEW ts \in RequestStamps, NEW since \in Stamps,
           Refresh(k, ts, since)
    PROVE  SyncInv'
<1>1. /\ KeepAlive(k, ts, since)
      /\ IF since = 0 THEN UNCHANGED waived ELSE Waive(k, since)
      /\ UNCHANGED <<open, pushed, reached, posts, disk>>
  BY DEF Refresh, KeepAlive
<1>2. GhostsOK /\ since \in Nat
  BY RoomAssumption DEF SyncInv
<1>3. /\ waived' \in [Keys -> SUBSET Nat]
      /\ \A q \in Keys : Got(q, reached, waived) \subseteq Got(q, reached', waived')
  <2>1. CASE since = 0
    BY <1>1, <1>2, <2>1, GotSame DEF GhostsOK
  <2>2. CASE since # 0
    BY <1>1, <1>2, <2>2, WaiveFacts
  <2> QED BY <2>1, <2>2
<1>4. since # 0 => \A d : d.pk = k /\ d.syncSeq = SeqFromTimestamp(since) =>
                       BookmarkOK(d, posts', reached', waived')
  BY <1>1, <1>2, WaiveFacts
<1>5. \A j \in 1..Len(posts') :
         posts'[j].seq = nextSeq \/ \E i \in 1..Len(posts) : posts'[j] = posts[i]
  BY <1>1
<1>6. PICK row \in 1..Len(clients) :
         /\ clients[row].pk = k
         /\ clients' = [clients EXCEPT
               ![row].lastRequest = ts, ![row].retryAfter = 0,
               ![row].syncSeq = IF since > 0 THEN SeqFromTimestamp(since) ELSE @]
  BY <1>1 DEF KeepAlive, RowsOf
<1>7. /\ DOMAIN clients = 1..Len(clients)
      /\ \A i \in 1..Len(clients) : clients[i] \in Client
      /\ Len(clients') = Len(clients)
  BY <1>1, LenProperties, ClientRow, AsideFacts DEF IInv, ClientsOK, Behind, Aside, SameKeys
<1>8. ASSUME NEW i \in 1..Len(clients)
      PROVE  /\ SameSend(clients[i], clients'[i])
             /\ \/ clients'[i].syncSeq = clients[i].syncSeq
                \/ since # 0 /\ clients'[i].pk = k /\ clients'[i].syncSeq = SeqFromTimestamp(since)
  <2> DEFINE to == IF since > 0 THEN SeqFromTimestamp(since) ELSE clients[row].syncSeq
  <2>1. clients' = [clients EXCEPT ![row].lastRequest = ts, ![row].retryAfter = 0,
                                   ![row].syncSeq = to]
    BY <1>6, <1>7 DEF Client
  <2>2. since = 0 \/ since > 0
    BY <1>2
  <2>3. to = clients[row].syncSeq \/ (since # 0 /\ to = SeqFromTimestamp(since))
    BY <2>2
  <2> HIDE DEF to
  <2>4. i # row => clients'[i] = clients[i]
    BY <1>7, <2>1
  <2>5. SameSend(clients[row], clients'[row]) /\ clients'[row].syncSeq = to
    BY <1>7, <2>1 DEF SameSend, Client
  <2>6. clients'[row].pk = k
    BY <1>6, <2>5 DEF SameSend
  <2>7. CASE i = row
    BY <2>3, <2>5, <2>6, <2>7
  <2>8. CASE i # row
    BY <2>4, <2>8 DEF SameSend
  <2> QED BY <2>7, <2>8
<1>9. RowsOK'
  <2>1. ASSUME NEW i \in 1..Len(clients')
        PROVE  /\ BookmarkOK(clients'[i], posts', reached', waived')
               /\ PushOK(clients'[i], posts', open', reached', waived')
    <3> DEFINE d == clients'[i]
    <3>1. /\ i \in 1..Len(clients) /\ SameSend(clients[i], d)
          /\ \/ d.syncSeq = clients[i].syncSeq
             \/ since # 0 /\ d.pk = k /\ d.syncSeq = SeqFromTimestamp(since)
      BY <1>7, <1>8
    <3> HIDE DEF d
    <3>2. /\ d.syncSeq = clients[i].syncSeq => BookmarkOK(d, posts', reached', waived')
          /\ PushOK(d, posts', open', reached', waived')
      BY <1>1, <1>3, <1>5, <3>1, RowKept
    <3> QED BY <1>4, <3>1, <3>2 DEF d
  <2> QED BY <2>1 DEF RowsOK
<1>10. SavedOK'
  BY <1>1, <1>3, SavedKept
<1>11. GhostsOK'
  BY <1>1, <1>2, <1>3 DEF GhostsOK
<1> QED
  BY <1>9, <1>10, <1>11 DEF SyncInv

\* If everything up to the bookmark is covered, everything before the post a push
\* hands over is: it is the first the bookmark has not passed and its client did
\* not write.
LEMMA UnreadBefore ==
    ASSUME IInv, NEW t \in Nat, PushSteps(t) # {}, NEW got,
           Covers(posts, clients[PushRow(t)].pk, clients[PushRow(t)].syncSeq, got)
    PROVE  Covers(posts, clients[PushRow(t)].pk, PushPost(t).seq - 1, got)
<1> DEFINE c == clients[PushRow(t)]
           m == Min(Unread(c))
<1>1. PushRow(t) \in 1..Len(clients) /\ Len(posts) \in Nat
  BY PushFacts, LenProperties DEF IInv, BoardOK
<1>2. Unread(c) # {}
  <2> DEFINE step == Min(PushSteps(t))
  <2>1. PushSteps(t) \subseteq Nat
    BY DEF PushSteps
  <2>2. step \in PushSteps(t)
    BY <2>1, MinFacts
  <2>3. c = clients[((nextClientIdx + step) % Len(clients)) + 1]
    BY DEF PushRow
  <2> HIDE DEF step, c
  <2> QED BY <2>2, <2>3 DEF PushSteps
<1>3. Unread(c) \subseteq Nat
  BY <1>1 DEF Unread
<1>4. PushPost(t) = posts[m]
  BY DEF PushPost
<1>5. /\ c.syncSeq \in Nat /\ nextSeq \in Nat
      /\ \A j \in 1..Len(posts) : posts[j].seq \in 1..nextSeq - 1
      /\ Covers(posts, c.pk, c.syncSeq, got)
  BY <1>1, RowBounds
<1> HIDE DEF c
<1>6. m \in Unread(c) /\ \A j \in Unread(c) : m <= j
  BY <1>2, <1>3, MinFacts
<1>7. m \in 1..Len(posts)
  BY <1>6 DEF Unread
<1> HIDE DEF m
<1>8. ASSUME NEW j \in 1..Len(posts), posts[j].seq <= posts[m].seq - 1, posts[j].author # c.pk
      PROVE  posts[j].seq \in got
  <2>1. posts[j].seq \in Nat /\ posts[m].seq \in Nat /\ posts[j].seq < posts[m].seq
    BY <1>5, <1>7, <1>8
  <2>2. j < m
    <3>1. m < j => posts[m].seq < posts[j].seq
      BY <1>7 DEF IInv, BoardOK, InOrder
    <3>2. m # j
      BY <2>1
    <3> QED BY <1>1, <1>7, <2>1, <3>1, <3>2
  <2>3. j \notin Unread(c)
    BY <1>1, <1>6, <1>7, <2>2
  <2>4. posts[j].seq <= c.syncSeq
    BY <1>5, <1>8, <2>1, <2>3 DEF Unread
  <2> QED BY <1>5, <1>8, <2>4 DEF Covers
<1>9. Covers(posts, c.pk, PushPost(t).seq - 1, got)
  BY <1>4, <1>8 DEF Covers
<1> QED
  BY <1>9 DEF c

\* So it is for what the clients have got.
LEMMA PushBefore ==
    ASSUME IInv, SyncInv, NEW t \in Nat, PushSteps(t) # {}
    PROVE  LET c == clients[PushRow(t)] IN
           Covers(posts, c.pk, PushPost(t).seq - 1, Got(c.pk, reached, waived))
<1>1. PushRow(t) \in 1..Len(clients)
  BY PushFacts DEF IInv
<1> QED
  BY <1>1, UnreadBefore DEF SyncInv, RowsOK, BookmarkOK

\* The push keeps the invariant: its row waits for the send just opened.
LEMMA RoomTickStep ==
    ASSUME IInv, IInv', SyncInv, NEW t \in Nat, NEW id \in Ids, RoomTick(t, id)
    PROVE  SyncInv'
<1>1. /\ id \notin DOMAIN open /\ Tick(t, id)
      /\ UNCHANGED <<reached, waived, posts, disk>>
  BY DEF RoomTick, Tick
<1>2. \A k \in Keys : Got(k, reached, waived) \subseteq Got(k, reached', waived')
  BY <1>1, GotSame
<1>3. SavedOK'
  BY <1>1, <1>2, SavedKept
<1>4. GhostsOK
  BY DEF SyncInv
<1>5. CASE PushSteps(t) = {}
  <2>1. UNCHANGED <<clients, open, pushed>>
    BY <1>5 DEF RoomTick, Tick
  <2>2. RowsOK'
    BY <1>1, <2>1 DEF SyncInv, RowsOK
  <2>3. GhostsOK'
    BY <1>1, <1>4, <2>1 DEF GhostsOK
  <2> QED BY <1>3, <2>2, <2>3 DEF SyncInv
<1>6. CASE PushSteps(t) # {}
  <2> DEFINE p == PushRow(t)
             seq == PushPost(t).seq
             send == [to |-> clients[p].pk, seq |-> seq]
  <2>1. /\ p \in 1..Len(clients) /\ seq \in 1..nextSeq - 1
        /\ Covers(posts, clients[p].pk, seq - 1, Got(clients[p].pk, reached, waived))
    BY <1>6, PushFacts, PushBefore DEF IInv
  <2>2. /\ clients' = [clients EXCEPT ![p].pending = TRUE, ![p].pendingId = id, ![p].pendingSeq = seq]
        /\ open' = [i \in DOMAIN open \cup {id} |-> IF i = id THEN send ELSE open[i]]
        /\ pushed' = [pushed EXCEPT ![send.to] = @ \cup {send.seq}]
    BY <1>6 DEF RoomTick, Tick
  <2>3. Len(clients') = Len(clients)
    <3>1. DOMAIN clients' = DOMAIN clients
      BY <2>2
    <3>2. /\ DOMAIN clients = 1..Len(clients) /\ Len(clients) \in Nat
          /\ DOMAIN clients' = 1..Len(clients') /\ Len(clients') \in Nat
      <4>1. clients' \in Seq(Behind(nextSeq)')
        BY DEF IInv, ClientsOK
      <4> QED BY <4>1, LenProperties DEF IInv, ClientsOK
    <3> QED BY <3>1, <3>2
  <2> HIDE DEF p, seq
  <2>4. /\ DOMAIN clients = 1..Len(clients) /\ \A i \in 1..Len(clients) : clients[i] \in Client
        /\ nextSeq \in Nat
    BY LenProperties, ClientRow DEF IInv, BoardOK, ClientsOK, Behind
  <2>5. clients[p] \in Client /\ clients[p].pk \in Keys /\ seq \in Nat
    BY <2>1, <2>4 DEF Client
  <2>6. send \in [to : Keys, seq : Nat] /\ send.to = clients[p].pk /\ send.seq = seq
    BY <2>5
  <2> HIDE DEF send
  <2>7. /\ DOMAIN open' = DOMAIN open \cup {id} /\ open'[id] = send
        /\ \A i \in DOMAIN open : open'[i] = open[i]
    BY <1>1, <2>2
  <2>8. GhostsOK'
    <3>1. /\ DOMAIN open' \subseteq Ids
          /\ \A i \in DOMAIN open' : open'[i] \in [to : Keys, seq : Nat]
      BY <1>4, <2>6, <2>7 DEF GhostsOK
    <3>2. pushed' \in [Keys -> SUBSET Nat] /\ \A k \in Keys : pushed[k] \subseteq pushed'[k]
      BY <1>4, <2>2, <2>5, <2>6 DEF GhostsOK
    <3> QED BY <1>1, <1>4, <3>1, <3>2 DEF GhostsOK
  <2>9. ASSUME NEW i \in 1..Len(clients'), i # p
        PROVE  /\ BookmarkOK(clients'[i], posts', reached', waived')
               /\ PushOK(clients'[i], posts', open', reached', waived')
    <3>1. i \in 1..Len(clients) /\ clients'[i] = clients[i]
      BY <2>2, <2>3, <2>4, <2>9
    <3>2. BookmarkOK(clients[i], posts, reached, waived) /\ PushOK(clients[i], posts, open, reached, waived)
      BY <3>1 DEF SyncInv, RowsOK
    <3>3. PushOK(clients[i], posts, open', reached, waived)
      BY <2>7, <3>2 DEF PushOK
    <3> QED BY <1>1, <3>1, <3>2, <3>3
  <2>10. BookmarkOK(clients'[p], posts', reached', waived') /\ PushOK(clients'[p], posts', open', reached', waived')
    <3>1. /\ clients'[p].pk = clients[p].pk /\ clients'[p].syncSeq = clients[p].syncSeq
          /\ clients'[p].pendingId = id /\ clients'[p].pendingSeq = seq
      BY <2>1, <2>2, <2>4, <2>5 DEF Client
    <3>2. BookmarkOK(clients[p], posts, reached, waived)
      BY <2>1 DEF SyncInv, RowsOK
    <3>3. BookmarkOK(clients'[p], posts', reached', waived')
      BY <1>1, <3>1, <3>2 DEF BookmarkOK
    <3>4. PushOK(clients'[p], posts', open', reached', waived')
      BY <1>1, <2>1, <2>6, <2>7, <3>1 DEF PushOK
    <3> QED BY <3>3, <3>4
  <2>11. RowsOK'
    <3>1. \A i \in 1..Len(clients') :
             /\ BookmarkOK(clients'[i], posts', reached', waived')
             /\ PushOK(clients'[i], posts', open', reached', waived')
      BY <2>9, <2>10
    <3> QED BY <3>1 DEF RowsOK
  <2> QED BY <1>3, <2>8, <2>11 DEF SyncInv
<1> QED
  BY <1>5, <1>6

\* A post that arrives only adds to what its client has.
LEMMA HearStep ==
    ASSUME IInv, SyncInv, NEW k \in Keys, NEW seq \in Nat, Hear(k, seq)
    PROVE  SyncInv'
<1>1. /\ seq \in pushed[k] /\ reached' = [reached EXCEPT ![k] = @ \cup {seq}]
      /\ UNCHANGED <<posts, clients, disk, open, pushed, waived>>
  BY DEF Hear, vars
<1>2. GhostsOK
  BY DEF SyncInv
<1>3. \A q \in Keys : reached[q] \subseteq reached'[q]
  BY <1>1, <1>2 DEF GhostsOK
<1>4. \A q \in Keys : Got(q, reached, waived) \subseteq Got(q, reached', waived')
  BY <1>1, <1>3 DEF Got
<1>5. RowsOK'
  <2>1. \A j \in 1..Len(posts') :
           posts'[j].seq = nextSeq \/ \E i \in 1..Len(posts) : posts'[j] = posts[i]
    BY <1>1
  <2>2. ASSUME NEW i \in 1..Len(clients)
        PROVE  BookmarkOK(clients[i], posts', reached', waived') /\ PushOK(clients[i], posts', open', reached', waived')
    BY <1>1, <1>4, <2>1, RowKept DEF SameSend
  <2> QED BY <1>1, <2>2 DEF RowsOK
<1>6. SavedOK'
  BY <1>1, <1>4, SavedKept
<1>7. GhostsOK'
  BY <1>1, <1>2 DEF GhostsOK
<1> QED
  BY <1>5, <1>6, <1>7 DEF SyncInv

\* The answer to a send keeps the invariant: the one row that waits for it stops
\* waiting, and an ack takes its bookmark over a post that arrived.
LEMMA AnswerStep ==
    ASSUME IInv, IInv', TablesConsistent, SyncInv, NEW id \in Ids, Acked(id) \/ GaveUp(id)
    PROVE  SyncInv'
<1>1. /\ id \in DOMAIN open /\ open' = [i \in DOMAIN open \ {id} |-> open[i]]
      /\ UNCHANGED <<posts, disk, pushed, reached, waived>>
  BY DEF Acked, GaveUp, Reported, vars, OnAck, OnDeliveryFailed
<1>2. GhostsOK /\ RowsOK
  BY DEF SyncInv
<1>3. SavedOK'
  BY <1>1, GotSame, SavedKept
<1>4. GhostsOK'
  BY <1>1, <1>2 DEF GhostsOK
<1>5. ASSUME NEW n \in 1..Len(clients), n \notin WaitingFor(id)
      PROVE  /\ BookmarkOK(clients[n], posts', reached', waived')
             /\ PushOK(clients[n], posts', open', reached', waived')
  <2>1. clients[n].pending => clients[n].pendingId # id
    BY <1>5 DEF WaitingFor
  <2>2. BookmarkOK(clients[n], posts, reached, waived) /\ PushOK(clients[n], posts, open, reached, waived)
    BY <1>2 DEF RowsOK
  <2> QED BY <1>1, <2>1, <2>2 DEF PushOK
<1>6. CASE WaitingFor(id) = {}
  <2>1. UNCHANGED clients
    BY <1>6 DEF Acked, GaveUp, vars
  <2>2. RowsOK'
    BY <1>5, <1>6, <2>1 DEF RowsOK
  <2> QED BY <1>3, <1>4, <2>2 DEF SyncInv
<1>7. CASE WaitingFor(id) # {}
  <2> DEFINE w == Min(WaitingFor(id))
  <2>1. w \in WaitingFor(id)
    <3>1. WaitingFor(id) \subseteq Nat
      BY DEF WaitingFor
    <3> QED BY <1>7, <3>1, MinFacts
  <2>2. \/ /\ open[id].seq \in reached[open[id].to]
           /\ clients' = [clients EXCEPT ![w].syncSeq = clients[w].pendingSeq, ![w].pending = FALSE,
                                         ![w].retryAfter = 0]
        \/ clients' = [clients EXCEPT ![w].pending = FALSE, ![w].retryAfter = now + RetryDelay]
    BY <1>7 DEF Acked, GaveUp, OnAck, OnDeliveryFailed
  <2>3. Len(clients') = Len(clients)
    <3>1. OnAck(id) \/ OnDeliveryFailed(id)
      BY <1>7 DEF Acked, GaveUp
    <3> QED BY <3>1, AsideFacts DEF Aside, SameKeys
  <2> HIDE DEF w
  <2>4. w \in 1..Len(clients) /\ clients[w].pending /\ clients[w].pendingId = id
    BY <2>1 DEF WaitingFor
  <2>5. /\ BookmarkOK(clients[w], posts, reached, waived) /\ PushOK(clients[w], posts, open, reached, waived)
    BY <1>2, <2>4 DEF RowsOK
  <2>6. open[id].to = clients[w].pk /\ open[id].seq = clients[w].pendingSeq
    BY <2>4, <2>5 DEF PushOK
  <2>7. \A n \in WaitingFor(id) : n = w
    <3> SUFFICES ASSUME NEW n \in WaitingFor(id) PROVE n = w
      OBVIOUS
    <3>1. n \in 1..Len(clients) /\ clients[n].pending /\ clients[n].pendingId = id
      BY DEF WaitingFor
    <3>2. open[id].to = clients[n].pk
      BY <1>2, <3>1 DEF RowsOK, PushOK
    <3> QED BY <2>4, <2>6, <3>1, <3>2 DEF TablesConsistent
  <2>8. DOMAIN clients = 1..Len(clients) /\ clients[w] \in Client
    BY <2>4, LenProperties, ClientRow DEF IInv, ClientsOK, Behind
  <2>9. ASSUME NEW n \in 1..Len(clients'), n # w
        PROVE  /\ BookmarkOK(clients'[n], posts', reached', waived')
               /\ PushOK(clients'[n], posts', open', reached', waived')
    <3>1. n \in 1..Len(clients) /\ n \notin WaitingFor(id)
      BY <2>3, <2>7, <2>9
    <3>2. clients'[n] = clients[n]
      BY <2>2, <2>8, <2>9, <3>1
    <3> QED BY <1>5, <3>1, <3>2
  <2>10. BookmarkOK(clients'[w], posts', reached', waived') /\ PushOK(clients'[w], posts', open', reached', waived')
    <3>1. clients'[w].pk = clients[w].pk /\ ~clients'[w].pending
      BY <2>2, <2>4, <2>8 DEF Client
    <3>2. \/ clients'[w].syncSeq = clients[w].syncSeq
          \/ clients'[w].syncSeq = clients[w].pendingSeq /\ open[id].seq \in reached[open[id].to]
      BY <2>2, <2>4, <2>8 DEF Client
    <3>3. CASE clients'[w].syncSeq = clients[w].syncSeq
      BY <1>1, <2>5, <3>1, <3>3 DEF BookmarkOK, PushOK
    <3>4. CASE clients'[w].syncSeq = clients[w].pendingSeq /\ open[id].seq \in reached[open[id].to]
      <4>1. clients[w].pendingSeq \in reached[clients[w].pk] /\ clients[w].pendingSeq \in Nat
        BY <2>6, <2>8, <3>4 DEF Client
      <4>2. Covers(posts, clients[w].pk, clients[w].pendingSeq - 1, Got(clients[w].pk, reached, waived))
        BY <2>4, <2>5 DEF PushOK
      <4>3. \A j \in 1..Len(posts) : posts[j].seq \in Nat
        BY RowBounds
      <4>4. Covers(posts, clients[w].pk, clients[w].pendingSeq, Got(clients[w].pk, reached, waived))
        <5> SUFFICES ASSUME NEW j \in 1..Len(posts), posts[j].seq <= clients[w].pendingSeq,
                            posts[j].author # clients[w].pk
                     PROVE  posts[j].seq \in Got(clients[w].pk, reached, waived)
          BY DEF Covers
        <5>1. posts[j].seq = clients[w].pendingSeq \/ posts[j].seq <= clients[w].pendingSeq - 1
          BY <4>1, <4>3
        <5> QED BY <4>1, <4>2, <5>1 DEF Covers, Got
      <4> QED BY <1>1, <3>1, <3>4, <4>4 DEF BookmarkOK, PushOK
    <3> QED BY <3>2, <3>3, <3>4
  <2>11. RowsOK'
    <3>1. \A n \in 1..Len(clients') :
             /\ BookmarkOK(clients'[n], posts', reached', waived')
             /\ PushOK(clients'[n], posts', open', reached', waived')
      BY <2>9, <2>10
    <3> QED BY <3>1 DEF RowsOK
  <2> QED BY <1>3, <1>4, <2>11 DEF SyncInv
<1> QED
  BY <1>6, <1>7

\* A restart keeps the invariant: the bookmarks of room.dat are covered for the
\* posts of room.dat, all numbered below what it resumes with.
LEMMA RoomRestartStep ==
    ASSUME IInv, IInv', SyncInv, RoomRestart
    PROVE  SyncInv'
<1> DEFINE kept(posted) == [k \in Keys |-> {s \in posted[k] : s < disk.nextSeq}]
           loaded == [i \in 1..Len(disk.clients) |->
               [NewClient(disk.clients[i].pk) EXCEPT
                   !.access    = disk.clients[i].access,
                   !.syncSeq   = disk.clients[i].syncSeq,
                   !.lastLogin = disk.clients[i].lastLogin]]
<1>1. /\ Restart /\ nextSeq' = disk.nextSeq /\ disk' = disk
      /\ posts' = disk.posts /\ clients' = loaded
  BY ResumedSeqFacts DEF RoomRestart, Restart, IInv
<1>2. open' = <<>> /\ pushed' = kept(pushed) /\ reached' = kept(reached) /\ waived' = kept(waived)
  BY <1>1 DEF RoomRestart
<1>3. GhostsOK /\ SavedOK
  BY DEF SyncInv
<1>4. GhostsOK'
  <2>1. \A i \in DOMAIN open' : FALSE
    BY <1>2
  <2>2. /\ pushed' \in [Keys -> SUBSET Nat]
        /\ reached' \in [Keys -> SUBSET Nat] /\ waived' \in [Keys -> SUBSET Nat]
    BY <1>2, <1>3 DEF GhostsOK
  <2>3. \A k \in Keys : reached'[k] \subseteq pushed'[k]
    BY <1>2, <1>3 DEF GhostsOK
  <2> QED BY <2>1, <2>2, <2>3 DEF GhostsOK
<1>5. ASSUME NEW i \in 1..Len(disk.clients)
      PROVE  BookmarkOK(disk.clients[i], disk.posts, reached', waived')
  <2> DEFINE c == disk.clients[i]
  <2>1. c.pk \in Keys /\ BookmarkOK(c, disk.posts, reached, waived)
    BY <1>3, RowBounds DEF SavedOK
  <2>2. \A j \in 1..Len(disk.posts) : disk.posts[j].seq < disk.nextSeq
    BY DEF IInv, DiskOK, State, InOrder
  <2> HIDE DEF c
  <2>3. \A s \in Got(c.pk, reached, waived) : s < disk.nextSeq => s \in Got(c.pk, reached', waived')
    BY <1>2, <2>1 DEF Got
  <2>4. BookmarkOK(c, disk.posts, reached', waived')
    BY <2>1, <2>2, <2>3 DEF BookmarkOK, Covers
  <2> QED BY <2>4 DEF c
<1>6. SavedOK'
  BY <1>1, <1>5 DEF SavedOK
<1>7. RowsOK'
  <2>1. Len(clients') = Len(disk.clients)
    <3>1. DOMAIN loaded = 1..Len(disk.clients)
      OBVIOUS
    <3>2. clients' \in Seq(Behind(nextSeq)') /\ disk.clients \in Seq(SavedBehind(disk.nextSeq))
      BY DEF IInv, ClientsOK, DiskOK
    <3> HIDE DEF loaded
    <3>3. /\ DOMAIN clients' = 1..Len(clients') /\ Len(clients') \in Nat
          /\ Len(disk.clients) \in Nat
      BY <3>2, LenProperties
    <3> QED BY <1>1, <3>1, <3>3
  <2>2. \A i \in 1..Len(disk.clients) :
           /\ loaded[i].pk = disk.clients[i].pk /\ loaded[i].syncSeq = disk.clients[i].syncSeq
           /\ ~loaded[i].pending
    BY DEF NewClient
  <2> HIDE DEF loaded
  <2>3. ASSUME NEW i \in 1..Len(clients')
        PROVE  /\ BookmarkOK(clients'[i], posts', reached', waived')
               /\ PushOK(clients'[i], posts', open', reached', waived')
    BY <1>1, <1>5, <2>1, <2>2 DEF BookmarkOK, PushOK
  <2> QED BY <2>3 DEF RowsOK
<1> QED
  BY <1>4, <1>6, <1>7 DEF SyncInv

-----------------------------------------------------------------------------
(* The theorems.                                                           *)

\* Every step keeps the invariant.
LEMMA NextSyncInv ==
    IInv /\ IInv' /\ TablesConsistent /\ SyncInv /\ [SyncNext]_syncVars => SyncInv'
<1> SUFFICES ASSUME IInv, IInv', TablesConsistent, SyncInv, [SyncNext]_syncVars PROVE SyncInv'
  OBVIOUS
<1>1. CASE UNCHANGED syncVars
  BY <1>1 DEF syncVars, vars, SyncInv, GhostsOK, RowsOK, SavedOK
<1>2. CASE Incoming
  BY <1>2, IncomingStep
<1>3. ASSUME NEW k \in Keys, NEW pw \in Passwords, NEW ts \in LoginStamps, NEW since \in Stamps,
             Login(k, pw, ts, since)
      PROVE  SyncInv'
  BY <1>3, LoginStep, RoomAssumption
<1>4. ASSUME NEW k \in Keys, NEW ts \in RequestStamps, NEW since \in Stamps, Refresh(k, ts, since)
      PROVE  SyncInv'
  BY <1>4, RefreshStep
<1>5. ASSUME NEW t \in now..MaxTime, NEW id \in Ids, RoomTick(t, id)
      PROVE  SyncInv'
  <2>1. t \in Nat
    BY DEF IInv, RestOK
  <2> QED BY <1>5, <2>1, RoomTickStep
<1>6. ASSUME NEW k \in Keys, NEW seq \in 1..MaxSeq, Hear(k, seq)
      PROVE  SyncInv'
  BY <1>6, HearStep
<1>7. ASSUME NEW id \in Ids, Acked(id) \/ GaveUp(id)
      PROVE  SyncInv'
  BY <1>7, AnswerStep
<1>8. CASE RoomRestart
  BY <1>8, RoomRestartStep
<1> QED
  BY <1>1, <1>2, <1>3, <1>4, <1>5, <1>6, <1>7, <1>8 DEF SyncNext

\* The room among its readers is always in the invariant, and in the room's own.
LEMMA SyncSpecInv == SyncSpec => [](IInv /\ TablesConsistent /\ SyncInv)
<1>1. SyncSpec => [](IInv /\ TablesConsistent)
  BY SyncImplementsRoom, SpecIInv, TablesStayConsistent, PTL
<1>2. SyncInit => SyncInv
  <2> SUFFICES ASSUME SyncInit PROVE SyncInv
    OBVIOUS
  <2>1. GhostsOK
    BY DEF SyncInit, GhostsOK
  <2>2. clients = <<>> /\ disk.clients = <<>> /\ Len(<<>>) = 0
    BY EmptySeq DEF SyncInit, Init
  <2>3. RowsOK /\ SavedOK
    BY <2>2 DEF RowsOK, SavedOK
  <2> QED BY <2>1, <2>3 DEF SyncInv
<1> QED
  BY <1>1, <1>2, NextSyncInv, PTL DEF SyncSpec

\* The invariant gives the properties.
LEMMA SyncInvImplies == IInv /\ SyncInv => SyncTypeOK /\ PendingIsOpen /\ BookmarkCovered
<1> SUFFICES ASSUME IInv, SyncInv PROVE SyncTypeOK /\ PendingIsOpen /\ BookmarkCovered
  OBVIOUS
<1>1. SyncTypeOK
  BY IInvImplies DEF SyncInv, GhostsOK, SyncTypeOK
<1>2. PendingIsOpen
  BY DEF SyncInv, RowsOK, PushOK, PendingIsOpen
<1>3. BookmarkCovered
  BY DEF SyncInv, RowsOK, BookmarkOK, Covers, Got, BookmarkCovered
<1> QED
  BY <1>1, <1>2, <1>3

\* Every variable of the room and its readers keeps its type, and nothing
\* reaches a client that was not sent to it.
THEOREM SyncTypeCorrect == SyncSpec => []SyncTypeOK
BY SyncSpecInv, SyncInvImplies, PTL

\* A row marked pending has its send under way, to that client and with that
\* post: no row waits for an answer nobody will give.
THEOREM PendingStaysOpen == SyncSpec => []PendingIsOpen
BY SyncSpecInv, SyncInvImplies, PTL

\* A bookmark never passes a post, written by somebody else and still on the
\* board, that its client neither got nor waived: through lost frames and acks,
\* retries, logins in mid-push, evictions, "clear posts" and restarts from an
\* old room.dat.
THEOREM BookmarksStayCovered == SyncSpec => []BookmarkCovered
BY SyncSpecInv, SyncInvImplies, PTL
=============================================================================
