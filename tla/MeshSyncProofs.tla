--------------------------- MODULE MeshSyncProofs ---------------------------
(***************************************************************************)
(* Proofs about the pushes of the room on top of routing, for every number *)
(* of people, posts and drafts, every size of the tables, and any losses   *)
(* and delays: that a push waits for one send, that its answer comes, and  *)
(* what an acknowledgement is worth.                                       *)
(*                                                                         *)
(* Two theorems need the tables of sends to be large enough for the people *)
(* there are (RoomEnough), and two need acks to be receipts; the runs      *)
(* router_full and ack_peer show what happens without.                     *)
(***************************************************************************)
EXTENDS MeshProofs

-----------------------------------------------------------------------------
(* Room for every send.                                                    *)

DraftsOf(k, all) == {d \in all : d[1] = k}

\* The tables of sends are large enough: the server's for a push to everyone in
\* the room, a device's for all that its user is going to post.
RoomEnough ==
    \A start \in Starts :
        /\ Len(start.members) <= MaxPending
        /\ \A k \in Keys :
               /\ IsFiniteSet(DraftsOf(k, start.drafts))
               /\ Cardinality(DraftsOf(k, start.drafts)) <= MaxPending

\* There is room for a push to every row that does not wait, and for what is
\* still to be posted.
RoomLeft ==
    /\ Len(clients) <= MaxPending
    /\ \A k \in Keys :
           /\ IsFiniteSet(DraftsOf(k, drafts))
           /\ Len(pending[k]) + Cardinality(DraftsOf(k, drafts)) <= MaxPending

\* The rows are whose they were.
LEMMA RowsStay ==
    ASSUME Good, [Next]_vars
    PROVE  Len(clients') = Len(clients)
           /\ \A j \in 1..Len(clients) : clients'[j].pk = clients[j].pk
<1>1. NetOK /\ RoomOK /\ Wired /\ BoardStep
  BY NextIsBoardStep DEF Good
<1>2. ASSUME UNCHANGED clients
      PROVE  Len(clients') = Len(clients)
             /\ \A j \in 1..Len(clients) : clients'[j].pk = clients[j].pk
  BY <1>2
<1>3. ASSUME NEW id, RowFreed(id)
      PROVE  Len(clients') = Len(clients)
             /\ \A j \in 1..Len(clients) : clients'[j].pk = clients[j].pk
  BY <1>3 DEF RowFreed
<1>4. ASSUME NEW t \in 0..MaxTime, S!Tick(t, nextId[server])
      PROVE  Len(clients') = Len(clients)
             /\ \A j \in 1..Len(clients) : clients'[j].pk = clients[j].pk
  <2>1. CASE S!PushSteps(t) = {}
    BY <1>2, <1>4, <2>1 DEF S!Tick
  <2>2. CASE S!PushSteps(t) # {}
    <3>1. t \in Nat
      OBVIOUS
    <3> QED BY <1>1, <1>4, <2>2, <3>1, PushRows DEF RowTaken
  <2> QED BY <2>1, <2>2
<1>5. (UNCHANGED S!vars => UNCHANGED clients) /\ \A k \in Keys : S!HandleText(k, 0) => UNCHANGED clients
  BY DEF S!vars, S!HandleText
<1> QED
  BY <1>1, <1>2, <1>3, <1>4, <1>5, FateRows DEF BoardStep

LEMMA UpTo ==
    ASSUME NEW n \in Nat
    PROVE  IsFiniteSet(1..n) /\ Cardinality(1..n) = n
BY FS_Interval

\* The entries are of as many rows, each of which waits, and the row that is
\* pushed to does not: the server's table is not full.
LEMMA RoomForPush ==
    ASSUME Good, Len(clients) <= MaxPending, NEW i \in 1..Len(clients), ~clients[i].pending
    PROVE  P!HasRoom(server)
<1> DEFINE table == pending[server]
           A == 1..Len(table)
           B == (1..Len(clients)) \ {i}
           f == [j \in A |-> CHOOSE q \in B : clients[q].pendingId = table[j].id]
<1>1. server \in Nodes /\ EntriesWaited(table, clients) /\ MaxPending \in Nat
  BY MeshAssumption DEF MeshAssumption, Good, Wired, Nodes
<1>2. Len(table) \in Nat /\ \A j, q \in A : table[j].id = table[q].id => j = q
  BY <1>1, EntryIds DEF Good
<1>3. Len(clients) \in Nat
  BY S!RowBounds, RoomAssumed DEF S!RoomAssumption, Good, RoomOK
<1>4. \A j \in A : \E q \in B : clients[q].pendingId = table[j].id
  BY <1>1 DEF EntriesWaited
<1>5. f \in [A -> B] /\ \A j \in A : clients[f[j]].pendingId = table[j].id
  BY <1>4
<1>6. IsFiniteSet(A) /\ Cardinality(A) = Len(table)
  BY <1>2, UpTo
<1>7. IsFiniteSet(B) /\ Cardinality(B) = Len(clients) - 1
  <2>1. IsFiniteSet(1..Len(clients)) /\ Cardinality(1..Len(clients)) = Len(clients)
    BY <1>3, UpTo
  <2> QED BY <2>1, FS_RemoveElement
<1> HIDE DEF A, B, f
<1>8. Len(table) <= Len(clients) - 1
  <2>1. SUFFICES ASSUME Cardinality(B) < Cardinality(A) PROVE FALSE
    BY <1>2, <1>3, <1>6, <1>7
  <2>2. PICK x \in A, y \in A : x # y /\ f[x] = f[y]
    BY <1>5, <1>6, <1>7, <2>1, FS_PigeonHole
  <2> QED BY <1>2, <1>5, <2>2
<1>9. Len(table) < MaxPending
  BY <1>1, <1>2, <1>3, <1>8
<1> QED
  BY <1>9 DEF P!HasRoom

\* What is still to be posted has room.
LEMMA RoomForText ==
    ASSUME Good, RoomLeft, NEW k \in Keys, NEW text, <<k, text>> \in drafts
    PROVE  P!HasRoom(k)
<1> DEFINE D == DraftsOf(k, drafts)
<1>1. IsFiniteSet(D) /\ Len(pending[k]) + Cardinality(D) <= MaxPending /\ MaxPending \in Nat
  BY MeshAssumption DEF MeshAssumption, RoomLeft
<1>2. D # {}
  BY DEF DraftsOf
<1> HIDE DEF D
<1>3. Cardinality(D) \in Nat /\ Cardinality(D) # 0
  BY <1>1, <1>2, FS_CardinalityType, FS_EmptySet
<1>4. Len(pending[k]) \in Nat
  BY EntryIds DEF Good, Nodes
<1>5. Len(pending[k]) < MaxPending
  BY <1>1, <1>3, <1>4
<1> QED
  BY <1>5 DEF P!HasRoom

LEMMA RoomLeftInit ==
    ASSUME RoomEnough, Init
    PROVE  RoomLeft
<1>1. PICK start \in Starts : Loaded(start)
  BY DEF Init
<1>2. Len(clients) = Len(start.members) /\ drafts = start.drafts
  <2>1. Len(clients) = Len(start.members)
    BY <1>1, LoadedOK DEF Init
  <2> QED BY <1>1, <2>1 DEF Loaded
<1>3. ASSUME NEW k \in Keys PROVE Len(pending[k]) = 0
  BY SameNet DEF Init, P!Init, Nodes
<1>4. ASSUME NEW k \in Keys
      PROVE  /\ IsFiniteSet(DraftsOf(k, drafts))
             /\ Len(pending[k]) + Cardinality(DraftsOf(k, drafts)) <= MaxPending
  <2>1. IsFiniteSet(DraftsOf(k, drafts)) /\ Cardinality(DraftsOf(k, drafts)) <= MaxPending
    BY <1>2 DEF RoomEnough
  <2>2. Cardinality(DraftsOf(k, drafts)) \in Nat
    BY <2>1, FS_CardinalityType
  <2> QED BY <1>3, <2>1, <2>2
<1> QED
  BY <1>2, <1>4 DEF RoomEnough, RoomLeft

LEMMA RoomLeftStep ==
    ASSUME Good, RoomLeft, [Next]_vars
    PROVE  RoomLeft'
<1>1. /\ NetOK /\ RoomOK /\ Wired /\ time \in 0..MaxTime /\ MaxPending \in Nat
      /\ server \in Nodes /\ server \notin Keys /\ Keys \subseteq Nodes
      /\ DOMAIN pending = Nodes
  BY MeshAssumption
     DEF MeshAssumption, Good, Wired, Clocks, Nodes, NetOK, P!Inv, P!IndexedOK
<1>2. NetOK'
  BY NextGood DEF Good
<1>3. Len(clients') <= MaxPending
  BY RowsStay DEF RoomLeft
<1>4. \A k \in Keys : Len(pending[k]) \in Nat /\ Len(pending'[k]) \in Nat
  <2>1. \A n \in Nodes : Len(pending[n]) \in Nat
    BY <1>1, EntryIds
  <2>2. \A n \in Nodes : Len(pending'[n]) \in Nat
    <3>1. ASSUME NEW n \in Nodes PROVE Len(pending'[n]) \in Nat
      <4>1. P!EntriesOK(n, pending[n], nextId[n])'
        BY <1>2 DEF NetOK, P!Inv
      <4>2. IsList(pending'[n])
        BY <4>1 DEF P!EntriesOK, P!IsList, IsList
      <4> QED BY <4>2, ListFacts
    <3> QED BY <3>1
  <2> QED BY <1>1, <2>1, <2>2
<1>5. ASSUME drafts' = drafts, \A k \in Keys : Len(pending'[k]) <= Len(pending[k]) PROVE RoomLeft'
  <2>1. ASSUME NEW k \in Keys
        PROVE  /\ IsFiniteSet(DraftsOf(k, drafts'))
               /\ Len(pending'[k]) + Cardinality(DraftsOf(k, drafts')) <= MaxPending
    <3>1. /\ IsFiniteSet(DraftsOf(k, drafts))
          /\ Len(pending[k]) + Cardinality(DraftsOf(k, drafts)) <= MaxPending
      BY DEF RoomLeft
    <3>2. Cardinality(DraftsOf(k, drafts)) \in Nat
      BY <3>1, FS_CardinalityType
    <3> QED BY <1>1, <1>4, <1>5, <3>1, <3>2
  <2> QED BY <1>3, <2>1 DEF RoomLeft
<1>6. ASSUME drafts' = drafts, NEW n \in Nodes, \A k \in Nodes : k # n => pending'[k] = pending[k],
             n # server => Len(pending'[n]) <= Len(pending[n])
      PROVE  RoomLeft'
  <2>1. ASSUME NEW k \in Keys PROVE Len(pending'[k]) <= Len(pending[k])
    <3>1. k # server /\ k \in Nodes
      BY <1>1
    <3> QED BY <1>4, <1>6, <3>1
  <2> QED BY <1>5, <1>6, <2>1
<1>7. ASSUME NEW m \in air, m.to = server, Receive(m.frame) PROVE RoomLeft'
  BY <1>1, <1>6, <1>7, ReceiveEffect DEF AckOf
<1>8. ASSUME NEW m \in air, m.to # server, ClientReceive(m.to, m.frame) PROVE RoomLeft'
  BY <1>1, <1>6, <1>8, ClientEffect DEF OnlyOf
<1>9. ASSUME NEW n \in Nodes, P!Tick(n, time), drafts' = drafts PROVE RoomLeft'
  <2>1. /\ \A k \in Nodes : k # n => pending'[k] = pending[k]
        /\ Len(pending'[n]) <= Len(pending[n])
    BY <1>1, <1>9, P!TickThins, NetAssumed DEF P!RouterAssumption, NetOK
  <2> QED BY <1>6, <1>9, <2>1
<1>10. ASSUME RouterTick PROVE RoomLeft'
  BY <1>1, <1>9, <1>10, RouterTickEffect
<1>11. ASSUME NEW k \in Keys, ClientTick(k) PROVE RoomLeft'
  BY <1>1, <1>9, <1>11, ClientTickEffect
<1>12. ASSUME drafts' = drafts, pending' = pending PROVE RoomLeft'
  BY <1>1, <1>6, <1>12
<1>13. ASSUME Report PROVE RoomLeft'
  BY <1>12, <1>13, ReportEffect DEF netVars
<1>14. ASSUME RoomTick PROVE RoomLeft'
  <2>1. drafts' = drafts /\ \A k \in Nodes : k # server => pending'[k] = pending[k]
    BY <1>1, <1>14, RoomTickEffect DEF netVars, P!SendDirect
  <2> QED BY <1>1, <1>6, <2>1
<1>15. ASSUME NEW k \in Keys, NEW text, Write(k, text) PROVE RoomLeft'
  <2> DEFINE d == <<k, text>>
  <2>1. d \in drafts /\ drafts' = drafts \ {d} /\ P!SendDirect(k, server, text)
    BY <1>15, WriteEffect
  <2>2. /\ \A q \in Nodes : q # k => pending'[q] = pending[q]
        /\ Len(pending'[k]) <= Len(pending[k]) + 1
    <3>1. IsList(pending[k])
      BY <1>1, EntryIds
    <3>2. pending'[k] = pending[k] \/ \E e : pending'[k] = Append(pending[k], e)
      BY <1>1, <2>1, Zenon DEF P!SendDirect
    <3>3. Len(pending'[k]) <= Len(pending[k]) + 1
      BY <1>4, <3>1, <3>2, ListAppend
    <3>4. \A q \in Nodes : q # k => pending'[q] = pending[q]
      BY <1>1, <2>1 DEF P!SendDirect
    <3> QED BY <3>3, <3>4
  <2>3. ASSUME NEW q \in Keys
        PROVE  /\ IsFiniteSet(DraftsOf(q, drafts'))
               /\ Len(pending'[q]) + Cardinality(DraftsOf(q, drafts')) <= MaxPending
    <3>1. /\ IsFiniteSet(DraftsOf(q, drafts))
          /\ Len(pending[q]) + Cardinality(DraftsOf(q, drafts)) <= MaxPending
      BY DEF RoomLeft
    <3>2. CASE q # k
      <4>1. DraftsOf(q, drafts') = DraftsOf(q, drafts)
        BY <2>1, <3>2 DEF DraftsOf
      <4>2. pending'[q] = pending[q]
        BY <1>1, <2>2, <3>2
      <4> QED BY <3>1, <4>1, <4>2
    <3>3. CASE q = k
      <4>1. DraftsOf(k, drafts') = DraftsOf(k, drafts) \ {d} /\ d \in DraftsOf(k, drafts)
        BY <2>1 DEF DraftsOf
      <4> DEFINE D == DraftsOf(k, drafts)
      <4>2. IsFiniteSet(D) /\ Cardinality(D) \in Nat
        BY <3>1, <3>3, FS_CardinalityType
      <4>3. IsFiniteSet(D \ {d}) /\ Cardinality(D \ {d}) = Cardinality(D) - 1
        <5>1. d \in D
          BY <4>1
        <5> HIDE DEF D, d
        <5> QED BY <4>2, <5>1, FS_RemoveElement
      <4>4. Len(pending'[k]) <= Len(pending[k]) + 1 /\ Len(pending[k]) \in Nat /\ Len(pending'[k]) \in Nat
        BY <1>4, <2>2
      <4> HIDE DEF d
      <4>5. Len(pending[k]) + Cardinality(D) <= MaxPending
        BY <3>1, <3>3
      <4> HIDE DEF D
      <4>6. Len(pending'[k]) + Cardinality(D \ {d}) <= MaxPending
        BY <1>1, <4>2, <4>3, <4>4, <4>5
      <4> QED BY <3>3, <4>1, <4>3, <4>6 DEF D
    <3> QED BY <3>2, <3>3
  <2> QED BY <1>3, <2>3 DEF RoomLeft
<1>16. ASSUME Pass \/ (\E m \in air : Lose(m)) \/ UNCHANGED vars PROVE RoomLeft'
  BY <1>12, <1>16 DEF Pass, Lose, vars, netVars
<1> QED
  BY <1>7, <1>8, <1>10, <1>11, <1>13, <1>14, <1>15, <1>16 DEF Next

LEMMA TrackedStep ==
    ASSUME Good, RoomLeft, P!Tracked, [Next]_vars
    PROVE  P!Tracked'
<1>1. /\ NetOK /\ RoomOK /\ Wired /\ time \in 0..MaxTime /\ now[server] \in Nat
      /\ server \in Nodes /\ server \notin Keys /\ Keys \subseteq Nodes
  BY MeshAssumption DEF MeshAssumption, Good, Wired, Clocks, Nodes
<1>2. NetOK'
  BY NextGood DEF Good
<1>3. P!Inv /\ P!Inv'
  BY <1>1, <1>2 DEF NetOK
<1>4. ASSUME UNCHANGED <<pending, sends>> PROVE P!Tracked'
  BY <1>4 DEF P!Tracked
<1>5. ASSUME NEW m \in air, P!OnFrame(m.to, m.frame, 0) PROVE P!Tracked'
  <2>1. m.to \in Nodes
    BY <1>1, <1>5, OnFrameEffect
  <2>2. CASE P!HandleAck(m.to, m.frame)
    BY <1>3, <2>1, <2>2, P!HandleAckTracks, NetAssumed DEF P!RouterAssumption
  <2> QED BY <1>1, <1>4, <1>5, <2>2, OnFrameEffect
<1>6. ASSUME NEW m \in air, m.to = server, Receive(m.frame) PROVE P!Tracked'
  BY <1>1, <1>5, <1>6, ReceiveEffect
<1>7. ASSUME NEW m \in air, m.to # server, ClientReceive(m.to, m.frame) PROVE P!Tracked'
  BY <1>1, <1>5, <1>7, ClientEffect
<1>8. ASSUME NEW n \in Nodes, P!Tick(n, time) PROVE P!Tracked'
  BY <1>1, <1>3, <1>8, P!TickTracks, NetAssumed DEF P!RouterAssumption
<1>9. ASSUME RouterTick PROVE P!Tracked'
  BY <1>1, <1>8, <1>9, RouterTickEffect
<1>10. ASSUME NEW k \in Keys, ClientTick(k) PROVE P!Tracked'
  BY <1>1, <1>8, <1>10, ClientTickEffect
<1>11. ASSUME Report PROVE P!Tracked'
  BY <1>4, <1>11, ReportEffect DEF netVars
<1>12. ASSUME RoomTick PROVE P!Tracked'
  <2> DEFINE i == S!PushRow(now[server])
  <2>1. CASE UNCHANGED <<netVars, now>>
    BY <1>4, <2>1 DEF netVars
  <2>2. CASE S!PushSteps(now[server]) # {} /\
             P!SendDirect(server, clients[i].pk, S!PushPost(now[server]).seq)
    <3>1. i \in 1..Len(clients) /\ clients[i].pk \in Nodes
      BY <1>1, <2>2, PushTarget
    <3>2. ~clients[i].pending
      BY <1>1, <1>12, <2>2, RoomTickEffect, PushRows DEF RowTaken
    <3>3. P!HasRoom(server)
      BY <3>1, <3>2, RoomForPush DEF RoomLeft
    <3> QED BY <1>1, <1>3, <2>2, <3>1, <3>3, P!SendDirectTracks, NetAssumed DEF P!RouterAssumption
  <2> QED BY <1>12, <2>1, <2>2, RoomTickEffect
<1>13. ASSUME NEW k \in Keys, NEW text, Write(k, text) PROVE P!Tracked'
  <2>1. P!SendDirect(k, server, text) /\ P!HasRoom(k)
    BY <1>13, WriteEffect, RoomForText
  <2> QED BY <1>1, <1>3, <2>1, P!SendDirectTracks, NetAssumed DEF P!RouterAssumption
<1>14. ASSUME Pass \/ (\E m \in air : Lose(m)) \/ UNCHANGED vars PROVE P!Tracked'
  BY <1>4, <1>14 DEF Pass, Lose, vars, netVars
<1> QED
  BY <1>6, <1>7, <1>9, <1>10, <1>11, <1>12, <1>13, <1>14 DEF Next

\* See Mesh: where the tables are large enough, the sends that wait for an ack
\* and the entries of pending_ are the same on every node, one to one, and none
\* is tried more than maxAttempts times, so that none is reported twice and
\* none is dropped without a report (Router::sendDirect, handleAck, tick).
THEOREM PushesTrackedOnce ==
    ASSUME RoomEnough
    PROVE  Spec => []TrackedOnce
<1>1. Init => P!Tracked
  <2>1. Len(<<>>) = 0
    OBVIOUS
  <2> QED BY <2>1, SameNet
          DEF Init, P!Init, P!Tracked, P!TrackOK, P!IdsAt, P!WaitingIds
<1>2. Init => RoomLeft
  BY RoomLeftInit
<1>3. Good /\ RoomLeft /\ [Next]_vars => RoomLeft'
  BY RoomLeftStep
<1>4. Good /\ RoomLeft /\ P!Tracked /\ [Next]_vars => P!Tracked'
  BY TrackedStep
<1>5. P!Tracked => TrackedOnce
  BY DEF P!Tracked, P!TrackOK, TrackedOnce, Net!TrackedOnce, P!IdsAt, P!WaitingIds
<1> QED
  BY <1>1, <1>2, <1>3, <1>4, <1>5, AlwaysGood, PTL DEF Spec

-----------------------------------------------------------------------------
(* An answer is coming.                                                    *)

\* A table still has the ids at the places it was kept.
LEMMA ThinnedHas ==
    ASSUME NEW new, NEW old, NEW places, P!Thinned(new, old, places), NEW j \in places
    PROVE  \E i \in 1..Len(new) : new[i].id = old[j].id
BY DEF P!Thinned, P!Goes

\* Somebody is going to answer for this id.
Answers(id, entries, reps) ==
    \/ \E j \in 1..Len(entries) : entries[j].id = id
    \/ \E j \in 1..Len(reps) : reps[j] = id

LEMMA AnswersIs ==
    AnswerComing <=>
        \A i \in 1..Len(clients) : clients[i].pending =>
            Answers(clients[i].pendingId, pending[server], reports)
BY DEF AnswerComing, Answers

\* A row that is freed waits for no answer; the others' answers are to stay.
LEMMA FreedAnswers ==
    ASSUME AnswerComing, RowsWait(clients, nextId[server]), NEW id, RowFreed(id),
           NEW entries, NEW reps,
           \A x : x # id /\ Answers(x, pending[server], reports) => Answers(x, entries, reps)
    PROVE  \A i \in 1..Len(clients') : clients'[i].pending => Answers(clients'[i].pendingId, entries, reps)
<1>1. PICK i \in 1..Len(clients) :
         /\ clients[i].pending /\ clients[i].pendingId = id
         /\ Len(clients') = Len(clients) /\ ~clients'[i].pending
         /\ \A j \in 1..Len(clients) : j # i => clients'[j] = clients[j]
  BY DEF RowFreed
<1>2. ASSUME NEW j \in 1..Len(clients'), clients'[j].pending
      PROVE  Answers(clients'[j].pendingId, entries, reps)
  <2>1. j \in 1..Len(clients) /\ j # i /\ clients'[j] = clients[j]
    BY <1>1, <1>2
  <2>2. clients[j].pending /\ clients[j].pendingId # id
    BY <1>1, <1>2, <2>1 DEF RowsWait
  <2>3. Answers(clients[j].pendingId, pending[server], reports)
    BY <2>1, <2>2, AnswersIs
  <2> QED BY <2>1, <2>2, <2>3
<1> QED
  BY <1>2

\* What a tick gives up, it lists.
LEMMA FailuresAnswer ==
    ASSUME NetOK, time \in 0..MaxTime, P!Tick(server, time),
           NEW K, K = Keep(pending[server], P!Failing(server, time)),
           reports' = [i \in 1..Len(K) |-> K[i].id],
           NEW j \in 1..Len(pending[server])
    PROVE  Answers(pending[server][j].id, pending'[server], reports')
<1> DEFINE table == pending[server]
           F == P!Failing(server, time)
<1>1. server \in Nodes /\ IsList(table) /\ Len(table) \in Nat
  BY EntryIds DEF Nodes
<1>2. P!Thinned(pending'[server], table, (1..Len(table)) \ F)
  BY <1>1, P!TickThins, NetAssumed DEF P!RouterAssumption, NetOK
<1>3. PICK g : Picks(g, K, table, F, Len(table))
  <2>1. PICK T : table \in Seq(T)
    BY <1>1 DEF IsList
  <2> QED BY <2>1, KeepPicks
<1> HIDE DEF table, F
<1>4. CASE j \in F
  <2>1. Len(K) \in Nat
    BY <1>1, <1>3 DEF Picks
  <2>2. PICK i \in 1..Len(K) : g[i] = j /\ K[i] = table[j]
    BY <1>3, <1>4 DEF Picks, table
  <2>3. Len(reports') = Len(K) /\ reports'[i] = table[j].id
    <3>1. reports' = [q \in 1..Len(K) |-> reports'[q]]
      OBVIOUS
    <3>2. Len(reports') = Len(K)
      BY <2>1, <3>1, ListOf
    <3> QED BY <2>2, <3>2
  <2> QED BY <2>2, <2>3 DEF Answers, table
<1>5. CASE j \notin F
  <2>1. j \in (1..Len(table)) \ F
    BY <1>5 DEF table
  <2>2. \E i \in 1..Len(pending'[server]) : pending'[server][i].id = table[j].id
    <3> DEFINE places == (1..Len(table)) \ F
    <3>1. j \in places /\ P!Thinned(pending'[server], table, places)
      BY <1>2, <2>1
    <3> HIDE DEF places
    <3> QED BY <3>1, ThinnedHas
  <2> QED BY <2>2 DEF Answers, table
<1> QED
  BY <1>4, <1>5

LEMMA AnswerStep ==
    ASSUME Good, RoomLeft, AnswerComing, [Next]_vars
    PROVE  AnswerComing'
<1> DEFINE table == pending[server]
<1>1. /\ NetOK /\ RoomOK /\ Wired /\ RowsWait(clients, nextId[server])
      /\ ReportsOK(reports, sends) /\ time \in 0..MaxTime /\ now[server] \in Nat
      /\ server \in Nodes /\ server \notin Keys /\ Keys \subseteq Nodes /\ DOMAIN pending = Nodes
  BY MeshAssumption DEF MeshAssumption, Good, Wired, Clocks, Nodes, NetOK, P!Inv, P!IndexedOK
<1>2. ASSUME UNCHANGED clients,
             \A x : Answers(x, table, reports) => Answers(x, pending'[server], reports')
      PROVE  AnswerComing'
  <2>1. \A i \in 1..Len(clients) : clients[i].pending => Answers(clients[i].pendingId, table, reports)
    BY AnswersIs
  <2>2. \A i \in 1..Len(clients') : clients'[i].pending =>
           Answers(clients'[i].pendingId, pending'[server], reports')
    BY <1>2, <2>1
  <2> QED BY <2>2 DEF AnswerComing, Answers
<1>3. ASSUME UNCHANGED clients, pending'[server] = table, reports' = reports PROVE AnswerComing'
  BY <1>2, <1>3
<1>4. ASSUME NEW id, RowFreed(id),
             \A x : x # id /\ Answers(x, table, reports) => Answers(x, pending'[server], reports')
      PROVE  AnswerComing'
  <2>1. \A i \in 1..Len(clients') : clients'[i].pending =>
           Answers(clients'[i].pendingId, pending'[server], reports')
    BY <1>1, <1>4, FreedAnswers
  <2> QED BY <2>1 DEF AnswerComing, Answers
<1>5. ASSUME NEW i \in 1..Len(table), AckOf(i), reports' = reports PROVE AnswerComing'
  <2> DEFINE id == table[i].id
  <2>1. ASSUME NEW x, x # id, Answers(x, table, reports)
        PROVE  Answers(x, pending'[server], reports')
    <3>1. CASE \E j \in 1..Len(reports) : reports[j] = x
      BY <1>5, <3>1 DEF Answers
    <3>2. ASSUME NEW j \in 1..Len(table), table[j].id = x
          PROVE  Answers(x, pending'[server], reports')
      <4>1. j \in (1..Len(table)) \ {i}
        BY <2>1, <3>2
      <4>2. P!Thinned(pending'[server], table, (1..Len(table)) \ {i})
        BY <1>5 DEF AckOf
      <4> QED BY <3>2, <4>1, <4>2, ThinnedHas DEF Answers
    <3> QED BY <2>1, <3>1, <3>2 DEF Answers
  <2>2. CASE S!WaitingFor(id) = {}
    <3>1. UNCHANGED clients
      BY <1>5, <2>2 DEF AckOf, S!vars
    <3>2. ASSUME NEW j \in 1..Len(clients), clients[j].pending PROVE clients[j].pendingId # id
      BY <2>2, <3>2 DEF S!WaitingFor
    <3>3. ASSUME NEW j \in 1..Len(clients'), clients'[j].pending
          PROVE  Answers(clients'[j].pendingId, pending'[server], reports')
      BY <2>1, <3>1, <3>2, <3>3, AnswersIs
    <3> QED BY <3>3 DEF AnswerComing, Answers
  <2>3. CASE S!OnAck(id)
    BY <1>1, <1>4, <2>1, <2>3, FateRows
  <2> QED BY <1>5, <2>2, <2>3 DEF AckOf
<1>6. ASSUME NEW m \in air, m.to = server, Receive(m.frame) PROVE AnswerComing'
  <2>1. reports' = reports
    BY <1>1, <1>6, ReceiveEffect
  <2>2. (UNCHANGED S!vars => UNCHANGED clients) /\ \A k : S!HandleText(k, 0) => UNCHANGED clients
    BY DEF S!vars, S!HandleText
  <2> QED BY <1>1, <1>3, <1>5, <1>6, <2>1, <2>2, ReceiveEffect
<1>7. ASSUME NEW m \in air, m.to # server, ClientReceive(m.to, m.frame) PROVE AnswerComing'
  BY <1>1, <1>3, <1>7, ClientEffect DEF OnlyOf, S!vars
<1>8. ASSUME RouterTick PROVE AnswerComing'
  <2>1. /\ reports = <<>> /\ P!Tick(server, time) /\ UNCHANGED clients
        /\ reports' = [i \in 1..Len(Keep(table, P!Failing(server, time))) |->
                          Keep(table, P!Failing(server, time))[i].id]
    BY <1>8, RouterTickEffect DEF Listening, S!vars
  <2>2. ASSUME NEW x, Answers(x, table, reports) PROVE Answers(x, pending'[server], reports')
    <3>1. PICK j \in 1..Len(table) : table[j].id = x
      BY <2>1, <2>2 DEF Answers
    <3> QED BY <1>1, <2>1, <3>1, FailuresAnswer
  <2> QED BY <1>2, <2>1, <2>2
<1>9. ASSUME Report PROVE AnswerComing'
  <2> DEFINE id == Head(reports)
  <2>1. reports # <<>> /\ reports' = Tail(reports) /\ pending' = pending
    BY <1>9, ReportEffect DEF netVars
  <2>2. /\ Len(reports) \in Nat /\ Len(reports) # 0 /\ id = reports[1]
        /\ Len(reports') = Len(reports) - 1 /\ \A i \in 1..Len(reports) - 1 : reports'[i] = reports[i + 1]
    BY <1>1, <2>1, ListFacts, ListTail DEF ReportsOK, IsList
  <2>3. ASSUME NEW x, x # id, Answers(x, table, reports)
        PROVE  Answers(x, pending'[server], reports')
    <3>1. CASE \E j \in 1..Len(table) : table[j].id = x
      BY <2>1, <3>1 DEF Answers
    <3>2. ASSUME NEW j \in 1..Len(reports), reports[j] = x
          PROVE  Answers(x, pending'[server], reports')
      <4>1. j # 1
        BY <2>2, <2>3, <3>2
      <4>2. j - 1 \in 1..Len(reports') /\ reports'[j - 1] = x
        BY <2>2, <3>2, <4>1
      <4> QED BY <4>2 DEF Answers
    <3> QED BY <2>3, <3>1, <3>2 DEF Answers
  <2>4. CASE S!WaitingFor(id) = {} /\ UNCHANGED S!vars
    <3>1. UNCHANGED clients
      BY <2>4 DEF S!vars
    <3>2. ASSUME NEW j \in 1..Len(clients), clients[j].pending PROVE clients[j].pendingId # id
      BY <2>4, <3>2 DEF S!WaitingFor
    <3>3. ASSUME NEW j \in 1..Len(clients'), clients'[j].pending
          PROVE  Answers(clients'[j].pendingId, pending'[server], reports')
      BY <2>3, <3>1, <3>2, <3>3, AnswersIs
    <3> QED BY <3>3 DEF AnswerComing, Answers
  <2>5. CASE S!OnDeliveryFailed(id)
    BY <1>1, <1>4, <2>3, <2>5, FateRows
  <2> QED BY <1>9, <2>4, <2>5, ReportEffect
<1>10. ASSUME RoomTick PROVE AnswerComing'
  <2> DEFINE t == now[server]
             r == S!PushRow(t)
             id == nextId[server]
  <2>1. S!Tick(t, id) /\ reports' = reports
    BY <1>10, RoomTickEffect
  <2>2. CASE S!PushSteps(t) = {} /\ UNCHANGED <<netVars, now>>
    <3>1. UNCHANGED clients
      BY <2>1, <2>2 DEF S!Tick
    <3> QED BY <1>3, <2>1, <2>2, <3>1 DEF netVars
  <2>3. CASE S!PushSteps(t) # {} /\ P!SendDirect(server, clients[r].pk, S!PushPost(t).seq)
    <3>1. RowTaken(r, id)
      BY <1>1, <2>1, <2>3, PushRows
    <3>2. P!HasRoom(server)
      BY <3>1, RoomForPush DEF RowTaken, RoomLeft
    <3>3. PICK e : e.id = id /\ pending'[server] = Append(table, e)
      <4> DEFINE to == clients[r].pk
                 text == S!PushPost(t).seq
                 frame == P!BuildFrame(routes[server], "TXT_MSG", to, P!Envelope(server, to, text))
                 e == [id |-> nextId[server], expectedAck |-> P!ExpectedAck(text, server),
                       deadline |-> now[server] + P!Timeout(frame), attempts |-> 1,
                       to |-> to, frame |-> frame]
      <4>1. pending' = [pending EXCEPT ![server] =
                           IF P!HasRoom(server) THEN Append(table, e) ELSE table]
        BY <1>1, <2>3 DEF P!SendDirect
      <4>2. e.id = id
        OBVIOUS
      <4> HIDE DEF e, table
      <4>3. pending'[server] = Append(table, e)
        BY <1>1, <3>2, <4>1
      <4> QED BY <4>2, <4>3
    <3>4. IsList(table) /\ Len(table) \in Nat
      BY <1>1, EntryIds
    <3> HIDE DEF table
    <3>5. /\ Len(pending'[server]) = Len(table) + 1 /\ pending'[server][Len(table) + 1].id = id
          /\ \A j \in 1..Len(table) : pending'[server][j] = table[j]
      BY <3>3, <3>4, ListAppend
    <3>6. Answers(id, pending'[server], reports')
      <4>1. Len(table) + 1 \in 1..Len(pending'[server])
        BY <3>4, <3>5
      <4> QED BY <3>5, <4>1 DEF Answers
    <3>7. ASSUME NEW x, Answers(x, table, reports) PROVE Answers(x, pending'[server], reports')
      <4>1. 1..Len(table) \subseteq 1..Len(pending'[server])
        BY <3>4, <3>5
      <4> QED BY <2>1, <3>5, <3>7, <4>1 DEF Answers
    <3>8. ASSUME NEW j \in 1..Len(clients'), clients'[j].pending
          PROVE  Answers(clients'[j].pendingId, pending'[server], reports')
      <4>1. CASE j = r
        BY <3>1, <3>6, <4>1 DEF RowTaken
      <4>2. CASE j # r
        <5>1. j \in 1..Len(clients) /\ clients'[j] = clients[j]
          BY <3>1, <4>2 DEF RowTaken
        <5>2. Answers(clients[j].pendingId, table, reports)
          BY <3>8, <5>1, AnswersIs DEF table
        <5> QED BY <3>7, <5>1, <5>2
      <4> QED BY <4>1, <4>2
    <3> QED BY <3>8 DEF AnswerComing, Answers
  <2> QED BY <1>10, <2>2, <2>3, RoomTickEffect
<1>11. ASSUME NEW k \in Keys, NEW text, Write(k, text) PROVE AnswerComing'
  <2>1. P!SendDirect(k, server, text) /\ UNCHANGED clients /\ reports' = reports /\ k # server
    BY <1>1, <1>11, WriteEffect DEF S!vars
  <2>2. pending'[server] = table
    BY <1>1, <2>1 DEF P!SendDirect
  <2> QED BY <1>3, <2>1, <2>2
<1>12. ASSUME NEW k \in Keys, ClientTick(k) PROVE AnswerComing'
  <2>1. P!Tick(k, time) /\ UNCHANGED clients /\ reports' = reports /\ k \in Nodes /\ k # server
    BY <1>1, <1>12, ClientTickEffect DEF S!vars
  <2>2. pending'[server] = table
    BY <1>1, <2>1, P!TickThins, NetAssumed DEF P!RouterAssumption, NetOK
  <2> QED BY <1>3, <2>1, <2>2
<1>13. ASSUME Pass \/ (\E m \in air : Lose(m)) \/ UNCHANGED vars PROVE AnswerComing'
  BY <1>3, <1>13 DEF Pass, Lose, vars, netVars, boardVars
<1> QED
  BY <1>6, <1>7, <1>8, <1>9, <1>10, <1>11, <1>12, <1>13 DEF Next

\* Where the tables are large enough, a row marked pending waits for a send
\* routing has not answered yet, through retries, lost frames, late acks and the
\* turns of the loop between a failure and its report: no client is left waiting
\* for an answer nobody will give (Client::pending, Router::pending_).
THEOREM AnswersKeepComing ==
    ASSUME RoomEnough
    PROVE  Spec => []AnswerComing
<1>1. Init => AnswerComing
  BY LoadedOK DEF Init, AnswerComing
<1>2. Init => RoomLeft
  BY RoomLeftInit
<1>3. Good /\ RoomLeft /\ [Next]_vars => RoomLeft'
  BY RoomLeftStep
<1>4. Good /\ RoomLeft /\ AnswerComing /\ [Next]_vars => AnswerComing'
  BY AnswerStep
<1> QED
  BY <1>1, <1>2, <1>3, <1>4, AlwaysGood, PTL DEF Spec

-----------------------------------------------------------------------------
(* What RoomSync knows of routing.                                         *)

ReportedIds(reps) == {reps[i] : i \in 1..Len(reps)}
OpenIds(all, reps) == P!WaitingIds(server, all) \cup ReportedIds(reps)

\* What the server's send with this id carries.
Carries(all, id) ==
    LET s == CHOOSE x \in all : x.from = server /\ x.id = id
    IN  [to |-> s.to, seq |-> s.text]
OpenOf(all, reps) == [id \in OpenIds(all, reps) |-> Carries(all, id)]
PushedOf(all) == [k \in Keys |-> {s.text : s \in {x \in all : x.from = server /\ x.to = k}}]

LEMMA OpenIdsAre ==
    ASSUME NEW all, NEW reps, ReportsOK(reps, all)
    PROVE  {s.id : s \in {x \in all : x.from = server /\ x.fate = "waiting"}
                      \cup {x \in all : x.from = server /\ \E i \in 1..Len(reps) : reps[i] = x.id}}
             = OpenIds(all, reps)
<1> DEFINE W == {x \in all : x.from = server /\ x.fate = "waiting"}
           R == {x \in all : x.from = server /\ \E i \in 1..Len(reps) : reps[i] = x.id}
<1>1. {s.id : s \in W} = P!WaitingIds(server, all)
  BY DEF P!WaitingIds
<1>2. {s.id : s \in R} = ReportedIds(reps)
  <2>1. ASSUME NEW i \in 1..Len(reps) PROVE \E s \in R : s.id = reps[i]
    BY DEF ReportsOK, FailedSend
  <2> QED BY <2>1 DEF ReportedIds
<1> HIDE DEF W, R
<1>3. {s.id : s \in W \cup R} = {s.id : s \in W} \cup {s.id : s \in R}
  OBVIOUS
<1> QED
  BY <1>1, <1>2, <1>3 DEF OpenIds, W, R

LEMMA OpenIs ==
    /\ ReportsOK(reports, sends) => Open = OpenOf(sends, reports)
    /\ ReportsOK(reports', sends') => Open' = OpenOf(sends', reports')
    /\ Pushed = PushedOf(sends) /\ Pushed' = PushedOf(sends')
<1>1. ASSUME ReportsOK(reports, sends) PROVE Open = OpenOf(sends, reports)
  <2>1. {s.id : s \in Waiting \cup StillToReport} = OpenIds(sends, reports)
    BY <1>1, OpenIdsAre DEF Waiting, StillToReport
  <2> QED BY <2>1 DEF Open, OpenOf, Carries
<1>2. ASSUME ReportsOK(reports', sends') PROVE Open' = OpenOf(sends', reports')
  <2>1. {s.id : s \in Waiting' \cup StillToReport'} = OpenIds(sends', reports')
    BY <1>2, OpenIdsAre DEF Waiting, StillToReport
  <2> QED BY <2>1 DEF Open, OpenOf, Carries
<1> QED
  BY <1>1, <1>2 DEF Pushed, PushedOf

LEMMA CarriesIs ==
    ASSUME NEW all, P!OneEach(all), NEW s \in all, s.from = server
    PROVE  Carries(all, s.id) = [to |-> s.to, seq |-> s.text]
<1> DEFINE c == CHOOSE x \in all : x.from = server /\ x.id = s.id
<1>1. c \in all /\ c.from = server /\ c.id = s.id
  OBVIOUS
<1>2. c = s
  BY <1>1 DEF P!OneEach
<1> QED
  BY <1>2 DEF Carries

\* Open ids are of sends.
LEMMA OpenSend ==
    ASSUME NEW all, NEW reps, ReportsOK(reps, all), NEW id \in OpenIds(all, reps)
    PROVE  \E s \in all : s.from = server /\ s.id = id
BY DEF OpenIds, ReportedIds, ReportsOK, FailedSend, P!WaitingIds

\* The same open ids, and the same sends but for their fates.
LEMMA OpenRecast ==
    ASSUME NEW old, NEW reps, P!OneEach(old), NEW new, NEW more, P!OneEach(new),
           ReportsOK(more, new), Recast(new, old)
    PROVE  \A id \in OpenIds(new, more) : Carries(new, id) = Carries(old, id)
<1>1. ASSUME NEW id \in OpenIds(new, more) PROVE Carries(new, id) = Carries(old, id)
  <2>1. PICK s \in new : s.from = server /\ s.id = id
    BY OpenSend
  <2>2. PICK x \in old : s.from = x.from /\ s.id = x.id /\ s.to = x.to /\ s.text = x.text
    BY DEF Recast
  <2>3. Carries(new, s.id) = [to |-> s.to, seq |-> s.text]
    BY <2>1, CarriesIs
  <2>4. Carries(old, x.id) = [to |-> x.to, seq |-> x.text]
    BY <2>1, <2>2, CarriesIs
  <2> QED BY <2>1, <2>2, <2>3, <2>4
<1> QED
  BY <1>1

\* Fates are nothing to what was sent to whom.
LEMMA PushedFated ==
    ASSUME NetOK, NEW n, NEW ids, NEW fate
    PROVE  PushedOf(P!Fated(sends, n, ids, fate)) = PushedOf(sends)
<1> DEFINE new == P!Fated(sends, n, ids, fate)
<1>1. Recast(new, sends)
  BY FatedRecast
<1>2. \A x \in sends : \E s \in new : s.from = x.from /\ s.to = x.to /\ s.text = x.text
  <2>1. \A x \in sends : DOMAIN x = {"from", "id", "to", "text", "fate"}
    BY DEF NetOK, P!Inv, P!SendsOK
  <2>2. P!AllSent(sends, new)
    BY <2>1, P!FatedAll, NetAssumed DEF P!RouterAssumption
  <2> QED BY <2>2 DEF P!AllSent, P!Sent
<1> HIDE DEF new
<1>3. ASSUME NEW k \in Keys
      PROVE  {s.text : s \in {x \in new : x.from = server /\ x.to = k}}
               = {s.text : s \in {x \in sends : x.from = server /\ x.to = k}}
  BY <1>1, <1>2 DEF Recast
<1> QED
  BY <1>3 DEF PushedOf, new

\* Nothing happens to the server's sends.
ServerSendsSame == \A s : s.from = server => (s \in sends' <=> s \in sends)

LEMMA SameOpen ==
    ASSUME Good, Good', ServerSendsSame, reports' = reports
    PROVE  Open' = Open /\ Pushed' = Pushed
<1>1. /\ ReportsOK(reports, sends) /\ ReportsOK(reports', sends')
      /\ P!OneEach(sends) /\ P!OneEach(sends')
  BY DEF Good, Wired, NetOK, P!Listed
<1>2. P!WaitingIds(server, sends') = P!WaitingIds(server, sends)
  BY DEF ServerSendsSame, P!WaitingIds
<1>3. OpenIds(sends', reports') = OpenIds(sends, reports)
  BY <1>2 DEF OpenIds
<1>4. ASSUME NEW id \in OpenIds(sends, reports) PROVE Carries(sends', id) = Carries(sends, id)
  <2>1. PICK s \in sends : s.from = server /\ s.id = id
    BY <1>1, OpenSend
  <2>2. s \in sends'
    BY <2>1 DEF ServerSendsSame
  <2> QED BY <1>1, <2>1, <2>2, CarriesIs
<1>5. PushedOf(sends') = PushedOf(sends)
  BY DEF PushedOf, ServerSendsSame
<1> QED
  BY <1>1, <1>3, <1>4, <1>5, OpenIs DEF OpenOf

-----------------------------------------------------------------------------
(* Every step is a step of RoomSync.                                       *)

ReachedSame == Reached' = Reached

LEMMA HeardReached == HeardSame => ReachedSame
BY DEF HeardSame, ReachedSame, Reached

\* A post that arrives is heard, if its reader did not have it.
LEMMA MoreReached ==
    ASSUME Good, Good', NEW k \in Keys, NEW x, P!Sent(sends, server, k, x), HeardMore(k, x),
           ServerSendsSame, reports' = reports, UNCHANGED S!vars
    PROVE  UNCHANGED S!syncVars \/ (x \in 1..MaxSeq /\ S!Hear(k, x))
<1>1. Open' = Open /\ Pushed' = Pushed
  BY SameOpen
<1>2. x \in 1..MaxSeq
  <2>1. x \in 1..nextSeq - 1
    BY DEF P!Sent, Good, Wired, PushesOK
  <2>2. nextSeq \in Nat /\ nextSeq <= MaxSeq /\ MaxSeq \in Nat
    BY MeshAssumption DEF MeshAssumption, Good, RoomOK, S!IInv, S!BoardOK
  <2> QED BY <2>1, <2>2
<1>3. Reached' = [Reached EXCEPT ![k] = Reached[k] \cup {x}]
  <2>1. \A q \in Keys : Reached'[q] = IF q = k THEN Reached[k] \cup {x} ELSE Reached[q]
    BY <1>2 DEF HeardMore, Reached
  <2>2. Reached' = [q \in Keys |-> Reached'[q]] /\ Reached = [q \in Keys |-> Reached[q]]
    BY DEF Reached
  <2> QED BY <2>1, <2>2
<1>4. CASE x \in Reached[k]
  <2>1. Reached' = Reached
    <3>1. Reached[k] \cup {x} = Reached[k] /\ Reached = [q \in Keys |-> Reached[q]]
      BY <1>4 DEF Reached
    <3> QED BY <1>3, <3>1
  <2> QED BY <1>1, <2>1 DEF S!syncVars
<1>5. CASE x \notin Reached[k]
  <2>1. x \in Pushed[k]
    BY DEF Pushed, P!Sent
  <2> QED BY <1>1, <1>2, <1>3, <1>5, <2>1 DEF S!Hear
<1> QED
  BY <1>4, <1>5

\* An ack of a send whose post its reader has.
LEMMA AckSync ==
    ASSUME Good, Good', Net!AckIsReceipt', NEW i \in 1..Len(pending[server]), AckOf(i),
           reports = <<>>, reports' = reports, HeardSame
    PROVE  S!Acked(pending[server][i].id)
<1> DEFINE id == pending[server][i].id
<1>1. /\ ReportsOK(reports, sends) /\ ReportsOK(reports', sends') /\ NetOK
      /\ P!OneEach(sends) /\ P!OneEach(sends') /\ server \in Nodes
  BY DEF Good, Wired, NetOK, P!Listed, Nodes
<1>2. sends' = P!Fated(sends, server, {id}, "acked")
  BY DEF AckOf
<1>3. \A x \in sends : DOMAIN x = {"from", "id", "to", "text", "fate"}
  BY <1>1 DEF NetOK, P!Inv, P!SendsOK
<1>4. PICK s \in sends : s.from = server /\ s.id = id /\ s.fate = "waiting"
  BY <1>1, EntryIds
<1>5. P!WaitingIds(server, sends') = P!WaitingIds(server, sends) \ {id}
  BY <1>2, <1>3, P!WaitingAfter, NetAssumed DEF P!RouterAssumption
<1>6. ReportedIds(<<>>) = {}
  BY DEF ReportedIds
<1>7. OpenIds(sends', reports') = OpenIds(sends, reports) \ {id} /\ id \in OpenIds(sends, reports)
  <2>1. id \in P!WaitingIds(server, sends)
    BY <1>4 DEF P!WaitingIds
  <2> QED BY <1>5, <1>6, <2>1 DEF OpenIds
<1>8. Open = OpenOf(sends, reports) /\ Open' = OpenOf(sends', reports')
  BY <1>1, OpenIs
<1>9. Recast(sends', sends)
  BY <1>1, <1>2, FatedRecast
<1>10. \A q \in OpenIds(sends', reports') : Carries(sends', q) = Carries(sends, q)
  BY <1>1, <1>9, OpenRecast
<1>11. /\ DOMAIN Open = OpenIds(sends, reports)
       /\ Open' = [q \in DOMAIN Open \ {id} |-> Open[q]]
  BY <1>7, <1>8, <1>10 DEF OpenOf
<1>12. Open[id].seq \in Reached[Open[id].to]
  <2>1. Open[id] = [to |-> s.to, seq |-> s.text]
    BY <1>1, <1>4, <1>7, <1>8, CarriesIs DEF OpenOf
  <2>2. PICK x \in sends' : x.from = server /\ x.id = id /\ x.fate = "acked"
    <3>1. id \in {id}
      OBVIOUS
    <3>2. \E x \in P!Fated(sends, server, {id}, "acked") : x.from = server /\ x.id = s.id /\ x.fate = "acked"
      BY <1>1, <1>4, <3>1, FatedFate
    <3> QED BY <1>2, <1>4, <3>2
  <2>3. x.to = s.to /\ x.text = s.text
    <3>1. PICK y \in sends : x.from = y.from /\ x.id = y.id /\ x.to = y.to /\ x.text = y.text
      BY <1>9, <2>2 DEF Recast
    <3>2. y = s
      BY <1>1, <1>4, <2>2, <3>1 DEF P!OneEach
    <3> QED BY <3>1, <3>2
  <2>4. <<s.to, server, s.text>> \in heard'
    BY <2>2, <2>3 DEF Net!AckIsReceipt
  <2>5. s.to \in Keys /\ s.text \in 1..MaxSeq
    <3>1. s.to \in Keys /\ s.text \in 1..nextSeq - 1
      BY <1>4 DEF Good, Wired, PushesOK
    <3>2. nextSeq \in Nat /\ nextSeq <= MaxSeq /\ MaxSeq \in Nat
      BY MeshAssumption DEF MeshAssumption, Good, RoomOK, S!IInv, S!BoardOK
    <3> QED BY <3>1, <3>2
  <2>6. <<s.to, server, s.text>> \in heard
    BY <2>4, <2>5 DEF HeardSame
  <2>7. s.text \in Reached[s.to]
    BY <2>5, <2>6 DEF Reached
  <2> QED BY <2>1, <2>7
<1>13. Pushed' = Pushed /\ Reached' = Reached
  BY <1>1, <1>2, OpenIs, PushedFated, HeardReached DEF ReachedSame
<1>14. IF S!WaitingFor(id) = {} THEN UNCHANGED S!vars ELSE S!OnAck(id)
  BY DEF AckOf
<1> HIDE DEF id
<1>15. id \in DOMAIN Open
  BY <1>7, <1>11
<1> QED
  BY <1>11, <1>12, <1>13, <1>14, <1>15 DEF S!Acked, S!Reported, id

\* The failures a tick finds stay open until they are reported.
LEMMA RouterTickSync ==
    ASSUME Good, Good', RouterTick
    PROVE  UNCHANGED S!syncVars
<1> DEFINE table == pending[server]
           F == P!Failing(server, time)
           K == Keep(table, F)
<1>1. /\ ReportsOK(reports, sends) /\ ReportsOK(reports', sends') /\ NetOK /\ time \in 0..MaxTime
      /\ P!OneEach(sends) /\ P!OneEach(sends') /\ server \in Nodes
  BY DEF Good, Wired, Clocks, NetOK, P!Listed, Nodes
<1>2. /\ reports = <<>> /\ P!Tick(server, time) /\ UNCHANGED S!vars /\ UNCHANGED heard
      /\ reports' = [i \in 1..Len(K) |-> K[i].id]
  BY RouterTickEffect DEF Listening
<1>3. sends' = P!Fated(sends, server, P!IdsAt(table, F), "failed")
  BY <1>1, <1>2, P!TickThins, NetAssumed DEF P!RouterAssumption, NetOK
<1>4. \A x \in sends : DOMAIN x = {"from", "id", "to", "text", "fate"}
  BY <1>1 DEF NetOK, P!Inv, P!SendsOK
<1>5. P!WaitingIds(server, sends') = P!WaitingIds(server, sends) \ P!IdsAt(table, F)
  BY <1>3, <1>4, P!WaitingAfter, NetAssumed DEF P!RouterAssumption
<1>6. P!IdsAt(table, F) \subseteq P!WaitingIds(server, sends)
  <2>1. \A i \in F : i \in 1..Len(table)
    BY DEF P!Failing
  <2>2. P!IdsAt(table, 1..Len(table)) \subseteq P!WaitingIds(server, sends)
    BY <1>1 DEF NetOK, P!Listed, P!ListOK
  <2> QED BY <2>1, <2>2 DEF P!IdsAt
<1>7. ReportedIds(reports') = P!IdsAt(table, F)
  <2>1. IsList(table) /\ Len(table) \in Nat
    BY <1>1, EntryIds
  <2>2. PICK g : Picks(g, K, table, F, Len(table))
    <3>1. PICK T : table \in Seq(T)
      BY <2>1 DEF IsList
    <3> QED BY <3>1, KeepPicks
  <2>3. \A i \in F : i \in 1..Len(table)
    BY DEF P!Failing
  <2> HIDE DEF table, F, K
  <2>4. /\ Len(K) \in Nat
        /\ \A i \in 1..Len(K) : g[i] \in F /\ K[i] = table[g[i]]
        /\ \A j \in F : \E i \in 1..Len(K) : g[i] = j
    BY <2>1, <2>2, <2>3 DEF Picks
  <2>5. Len(reports') = Len(K) /\ \A i \in 1..Len(K) : reports'[i] = K[i].id
    <3>1. reports' = [q \in 1..Len(K) |-> reports'[q]] /\ \A i \in 1..Len(K) : reports'[i] = K[i].id
      BY <1>2
    <3>2. Len(reports') = Len(K)
      BY <2>4, <3>1, ListOf
    <3> QED BY <3>1, <3>2
  <2>6. \A x : x \in ReportedIds(reports') <=> \E i \in 1..Len(K) : x = K[i].id
    BY <2>5 DEF ReportedIds
  <2>7. \A x : x \in P!IdsAt(table, F) <=> \E j \in F : x = table[j].id
    BY DEF P!IdsAt
  <2>8. ASSUME NEW x, x \in ReportedIds(reports') PROVE x \in P!IdsAt(table, F)
    <3>1. PICK i \in 1..Len(K) : x = K[i].id
      BY <2>6, <2>8
    <3> QED BY <2>4, <2>7, <3>1
  <2>9. ASSUME NEW x, x \in P!IdsAt(table, F) PROVE x \in ReportedIds(reports')
    <3>1. PICK j \in F : x = table[j].id
      BY <2>7, <2>9
    <3>2. PICK i \in 1..Len(K) : g[i] = j
      BY <2>4
    <3>3. K[i].id = x
      BY <2>4, <3>1, <3>2
    <3> QED BY <2>6, <3>3
  <2> QED BY <2>8, <2>9
<1>8. ReportedIds(<<>>) = {}
  BY DEF ReportedIds
<1>9. OpenIds(sends', reports') = OpenIds(sends, reports)
  BY <1>2, <1>5, <1>6, <1>7, <1>8 DEF OpenIds
<1>10. Recast(sends', sends)
  BY <1>1, <1>3, FatedRecast
<1>11. \A q \in OpenIds(sends', reports') : Carries(sends', q) = Carries(sends, q)
  BY <1>1, <1>10, OpenRecast
<1>12. Open' = Open
  BY <1>1, <1>9, <1>11, OpenIs DEF OpenOf
<1>13. Pushed' = Pushed
  BY <1>1, <1>3, OpenIs, PushedFated
<1>14. Reached' = Reached
  BY <1>2 DEF Reached
<1> QED
  BY <1>2, <1>12, <1>13, <1>14 DEF S!syncVars

\* A failure that is reported is of a send RoomSync has open.
LEMMA ReportSync ==
    ASSUME Good, Good', Report
    PROVE  S!GaveUp(Head(reports))
<1> DEFINE id == Head(reports)
<1>1. /\ ReportsOK(reports, sends) /\ ReportsOK(reports', sends') /\ P!OneEach(sends)
  BY DEF Good, Wired, NetOK, P!Listed
<1>2. /\ reports # <<>> /\ reports' = Tail(reports) /\ UNCHANGED <<sends, heard>>
  BY ReportEffect DEF netVars
<1>3. /\ Len(reports) \in Nat /\ Len(reports) # 0 /\ id = reports[1]
      /\ Len(reports') = Len(reports) - 1 /\ \A i \in 1..Len(reports) - 1 : reports'[i] = reports[i + 1]
  BY <1>1, <1>2, ListFacts, ListTail DEF ReportsOK, IsList
<1> HIDE DEF id
<1>4. ReportedIds(reports') = ReportedIds(reports) \ {id} /\ id \in ReportedIds(reports)
  <2>1. 1 \in 1..Len(reports)
    BY <1>3
  <2>2. ASSUME NEW x \in ReportedIds(reports) \ {id} PROVE x \in ReportedIds(reports')
    <3>1. PICK i \in 1..Len(reports) : x = reports[i]
      BY DEF ReportedIds
    <3>2. i # 1
      BY <1>3, <3>1
    <3>3. i - 1 \in 1..Len(reports') /\ reports'[i - 1] = x
      BY <1>3, <3>1, <3>2
    <3> QED BY <3>3 DEF ReportedIds
  <2>3. ASSUME NEW x \in ReportedIds(reports') PROVE x \in ReportedIds(reports) \ {id}
    <3>1. PICK i \in 1..Len(reports') : x = reports'[i]
      BY <2>3 DEF ReportedIds
    <3>2. i + 1 \in 1..Len(reports) /\ x = reports[i + 1] /\ i + 1 # 1
      BY <1>3, <3>1
    <3>3. x # id
      BY <1>1, <1>3, <2>1, <3>2 DEF ReportsOK
    <3> QED BY <3>2, <3>3 DEF ReportedIds
  <2> QED BY <1>3, <2>1, <2>2, <2>3 DEF ReportedIds
<1>5. id \notin P!WaitingIds(server, sends)
  <2>1. PICK s \in sends : s.from = server /\ s.id = id /\ s.fate = "failed"
    BY <1>1, <1>3 DEF ReportsOK, FailedSend
  <2> QED BY <1>1, <2>1 DEF P!WaitingIds, P!OneEach
<1>6. /\ OpenIds(sends', reports') = OpenIds(sends, reports) \ {id}
      /\ id \in OpenIds(sends, reports)
  BY <1>2, <1>4, <1>5 DEF OpenIds
<1>7. /\ DOMAIN Open = OpenIds(sends, reports)
      /\ Open' = [q \in DOMAIN Open \ {id} |-> Open[q]]
  BY <1>1, <1>2, <1>6, OpenIs DEF OpenOf
<1>8. Pushed' = Pushed /\ Reached' = Reached
  BY <1>2 DEF Pushed, Reached
<1>9. IF S!WaitingFor(id) = {} THEN UNCHANGED S!vars ELSE S!OnDeliveryFailed(id)
  BY ReportEffect DEF id
<1> QED
  BY <1>6, <1>7, <1>8, <1>9 DEF S!GaveUp, S!Reported, id

\* The room's turn, with an id that is not in use.
LEMMA RoomTickSync ==
    ASSUME Good, Good', RoomTick
    PROVE  S!RoomTick(now[server], nextId[server])
<1> DEFINE t == now[server]
           id == nextId[server]
           to == clients[S!PushRow(t)].pk
           text == S!PushPost(t).seq
<1>1. /\ ReportsOK(reports, sends) /\ ReportsOK(reports', sends') /\ NetOK /\ RoomOK /\ Wired
      /\ P!OneEach(sends) /\ P!OneEach(sends') /\ server \in Nodes /\ id \in Nat /\ t \in Nat
  BY DEF Good, Wired, Clocks, NetOK, P!Listed, P!Inv, P!IndexedOK, Nodes
<1>2. reports = <<>> /\ S!Tick(t, id) /\ reports' = reports
  BY RoomTickEffect
<1>3. Open = OpenOf(sends, reports) /\ Open' = OpenOf(sends', reports')
  BY <1>1, OpenIs
<1>4. id \notin DOMAIN Open
  <2>1. DOMAIN Open = OpenIds(sends, reports)
    BY <1>3 DEF OpenOf
  <2>2. \A s \in sends : s.from = server => s.id \in Nat /\ s.id < id
    BY <1>1, IdsGiven
  <2>3. ASSUME id \in OpenIds(sends, reports) PROVE FALSE
    <3>1. PICK s \in sends : s.from = server /\ s.id = id
      BY <1>1, <2>3, OpenSend
    <3> QED BY <1>1, <2>2, <3>1
  <2> QED BY <2>1, <2>3
<1>5. CASE S!PushSteps(t) = {} /\ UNCHANGED <<netVars, now>>
  <2>1. Open' = Open /\ Pushed' = Pushed /\ Reached' = Reached
    BY <1>2, <1>3, <1>5 DEF netVars, Pushed, Reached
  <2> QED BY <1>2, <1>4, <1>5, <2>1 DEF S!RoomTick
<1>6. CASE S!PushSteps(t) # {} /\ P!SendDirect(server, to, text)
  <2> DEFINE new == [from |-> server, id |-> id, to |-> to, text |-> text, fate |-> "waiting"]
             send == [to |-> to, seq |-> text]
  <2>1. sends' = sends \cup {new} /\ heard' = heard
    BY <1>6 DEF P!SendDirect
  <2>2. new.from = server /\ new.id = id /\ new.to = to /\ new.text = text /\ new.fate = "waiting"
    OBVIOUS
  <2>3. to \in Keys
    BY <1>1, <1>6, PushTarget
  <2> HIDE DEF new, to, text, t, id
  <2>4. OpenIds(sends', reports') = OpenIds(sends, reports) \cup {id}
    BY <1>2, <2>1, <2>2 DEF OpenIds, P!WaitingIds
  <2>5. Carries(sends', id) = send
    BY <1>1, <2>1, <2>2, CarriesIs
  <2>6. ASSUME NEW q \in OpenIds(sends, reports) PROVE Carries(sends', q) = Carries(sends, q)
    <3>1. PICK s \in sends : s.from = server /\ s.id = q
      BY <1>1, OpenSend
    <3> QED BY <1>1, <2>1, <3>1, CarriesIs
  <2>7. Open' = [i \in DOMAIN Open \cup {id} |-> IF i = id THEN send ELSE Open[i]]
    BY <1>3, <2>4, <2>5, <2>6 DEF OpenOf
  <2>8. Pushed' = [Pushed EXCEPT ![send.to] = Pushed[send.to] \cup {send.seq}]
    <3>1. send.to = to /\ send.seq = text
      OBVIOUS
    <3> HIDE DEF send
    <3>2. ASSUME NEW k \in Keys
          PROVE  Pushed'[k] = IF k = to THEN Pushed[k] \cup {text} ELSE Pushed[k]
      BY <2>1, <2>2 DEF Pushed
    <3>3. Pushed = [k \in Keys |-> Pushed[k]] /\ Pushed' = [k \in Keys |-> Pushed'[k]]
      BY DEF Pushed
    <3> QED BY <2>3, <3>1, <3>2, <3>3
  <2>9. Reached' = Reached
    BY <2>1 DEF Reached
  <2>10. clients[S!PushRow(t)].pk = to /\ S!PushPost(t).seq = text
    BY DEF to, text, t
  <2>11. S!PushSteps(t) # {} /\ S!Tick(t, id) /\ id \notin DOMAIN Open
    BY <1>2, <1>4, <1>6 DEF t, id
  <2> QED BY <2>7, <2>8, <2>9, <2>10, <2>11 DEF S!RoomTick, t, id
<1> QED
  BY <1>5, <1>6, RoomTickEffect

-----------------------------------------------------------------------------
(* The contract.                                                           *)

\* A step, as RoomSync has it.
SyncStep ==
    \/ UNCHANGED S!syncVars
    \/ \E k \in Keys : S!HandleText(k, 0) /\ UNCHANGED <<Open, Pushed, Reached>>
    \/ \E t \in roomNow..MaxTime, id \in Ids : S!RoomTick(t, id)
    \/ \E k \in Keys, seq \in 1..MaxSeq : S!Hear(k, seq)
    \/ \E id \in Ids : S!Acked(id) \/ S!GaveUp(id)

LEMMA NextSync ==
    ASSUME Good, Good', Net!AckIsReceipt', [Next]_vars
    PROVE  SyncStep
<1>1. /\ NetOK /\ RoomOK /\ Wired /\ ReportsOK(reports, sends) /\ MaxTime \in Nat
      /\ time \in 0..MaxTime /\ now[server] \in Nat /\ now[server] <= time
      /\ roomNow \in Nat /\ roomNow <= now[server]
      /\ server \in Nodes /\ server \notin Keys /\ Keys \subseteq Nodes
  BY MeshAssumption DEF MeshAssumption, Good, Wired, Clocks, Nodes
<1>2. ASSUME UNCHANGED S!vars, ServerSendsSame, reports' = reports, ReachedSame PROVE SyncStep
  BY <1>2, SameOpen DEF ReachedSame, S!syncVars, SyncStep
<1>3. ASSUME sends' = sends PROVE ServerSendsSame
  BY <1>3 DEF ServerSendsSame
<1>4. ASSUME NEW k \in Nodes, k # server,
             sends' = sends \/ \E ids, fate : sends' = P!Fated(sends, k, ids, fate)
      PROVE  ServerSendsSame
  BY <1>1, <1>3, <1>4, FatedRecast DEF ServerSendsSame
<1>5. ASSUME NEW m \in air, m.to = server, Receive(m.frame) PROVE SyncStep
  <2>1. reports = <<>> /\ reports' = reports /\ HeardSame
    BY <1>1, <1>5, ReceiveEffect DEF Listening
  <2>2. CASE UNCHANGED S!vars /\ UNCHANGED <<pending, sends>>
    BY <1>2, <1>3, <2>1, <2>2, HeardReached
  <2>3. ASSUME NEW k, S!HandleText(k, 0), UNCHANGED <<pending, sends>> PROVE SyncStep
    <3>1. k \in Keys
      <4>1. PICK i \in 1..Len(clients) : clients[i].pk = k
        BY <2>3 DEF S!HandleText, S!RowsOf
      <4> QED BY <1>1, <4>1, S!RowBounds, RoomAssumed DEF S!RoomAssumption, RoomOK
    <3>2. UNCHANGED <<Open, Pushed, Reached>>
      BY <1>3, <2>1, <2>3, SameOpen, HeardReached DEF ReachedSame
    <3> QED BY <2>3, <3>1, <3>2 DEF SyncStep
  <2>4. ASSUME NEW i \in 1..Len(pending[server]), AckOf(i) PROVE SyncStep
    <3>1. S!Acked(pending[server][i].id)
      BY <2>1, <2>4, AckSync
    <3>2. pending[server][i].id \in Ids
      BY <1>1, IdsGiven
    <3> QED BY <3>1, <3>2 DEF SyncStep
  <2> QED BY <1>1, <1>5, <2>2, <2>3, <2>4, ReceiveEffect
<1>6. ASSUME NEW m \in air, m.to # server, ClientReceive(m.to, m.frame) PROVE SyncStep
  <2>1. /\ m.to \in Keys /\ OnlyOf(m.to, "acked") /\ UNCHANGED S!vars /\ reports' = reports
        /\ HeardSame \/ \E x : P!Sent(sends, server, m.to, x) /\ HeardMore(m.to, x)
    BY <1>1, <1>6, ClientEffect
  <2>2. ServerSendsSame
    BY <1>1, <1>4, <1>6, <2>1 DEF OnlyOf
  <2>3. CASE HeardSame
    BY <1>2, <2>1, <2>2, <2>3, HeardReached
  <2>4. ASSUME NEW x, P!Sent(sends, server, m.to, x), HeardMore(m.to, x) PROVE SyncStep
    BY <2>1, <2>2, <2>4, MoreReached DEF SyncStep
  <2> QED BY <2>1, <2>3, <2>4
<1>7. ASSUME RouterTick PROVE SyncStep
  BY <1>7, RouterTickSync DEF SyncStep
<1>8. ASSUME Report PROVE SyncStep
  <2>1. S!GaveUp(Head(reports)) /\ reports # <<>>
    BY <1>8, ReportSync, ReportEffect
  <2>2. Head(reports) \in Ids
    <3>1. Len(reports) \in Nat /\ Len(reports) # 0 /\ Head(reports) = reports[1]
      BY <1>1, <2>1, ListFacts DEF ReportsOK, IsList
    <3>2. FailedSend(Head(reports), sends)
      BY <1>1, <3>1 DEF ReportsOK
    <3> QED BY <1>1, <3>2, IdsGiven DEF FailedSend
  <2> QED BY <2>1, <2>2 DEF SyncStep
<1>9. ASSUME RoomTick PROVE SyncStep
  <2>1. now[server] \in roomNow..MaxTime
    BY <1>1
  <2>2. nextId[server] \in Ids
    BY <1>1, IdsGiven
  <2> QED BY <1>9, <2>1, <2>2, RoomTickSync DEF SyncStep
<1>10. ASSUME UNCHANGED heard PROVE ReachedSame
  BY <1>10 DEF ReachedSame, Reached
<1>11. ASSUME NEW k \in Keys, NEW text, Write(k, text) PROVE SyncStep
  <2>1. P!SendDirect(k, server, text) /\ UNCHANGED S!vars /\ reports' = reports /\ k # server
    BY <1>1, <1>11, WriteEffect
  <2>2. ServerSendsSame /\ UNCHANGED heard
    BY <2>1 DEF P!SendDirect, ServerSendsSame
  <2> QED BY <1>2, <1>10, <2>1, <2>2
<1>12. ASSUME NEW k \in Keys, ClientTick(k) PROVE SyncStep
  <2>1. P!Tick(k, time) /\ UNCHANGED S!vars /\ UNCHANGED <<heard, reports>> /\ k \in Nodes /\ k # server
    BY <1>1, <1>12, ClientTickEffect
  <2>2. sends' = P!Fated(sends, k, P!IdsAt(pending[k], P!Failing(k, time)), "failed")
    BY <1>1, <2>1, P!TickThins, NetAssumed DEF P!RouterAssumption, NetOK
  <2> QED BY <1>2, <1>4, <1>10, <2>1, <2>2
<1>13. ASSUME Pass \/ (\E m \in air : Lose(m)) \/ UNCHANGED vars PROVE SyncStep
  <2>1. UNCHANGED S!vars /\ UNCHANGED <<sends, heard, reports>>
    BY <1>13 DEF Pass, Lose, vars, netVars, boardVars, S!vars
  <2> QED BY <1>2, <1>3, <1>10, <2>1
<1> QED
  BY <1>5, <1>6, <1>7, <1>8, <1>9, <1>11, <1>12, <1>13 DEF Next

LEMMA SyncStepIs ==
    ASSUME SyncStep
    PROVE  [Sync!SyncNext]_(Sync!syncVars) /\ [S!SyncNext]_(S!syncVars)
<1>1. CASE UNCHANGED S!syncVars
  BY <1>1, SameSync
<1>2. ASSUME NEW k \in Keys, S!HandleText(k, 0), UNCHANGED <<Open, Pushed, Reached>>
      PROVE  Sync!SyncNext /\ S!SyncNext
  <2>1. S!Incoming
    BY <1>2 DEF S!Incoming, S!Request
  <2> QED BY <1>2, <2>1, SameSync DEF Sync!SyncNext, S!SyncNext
<1>3. ASSUME NEW t \in roomNow..MaxTime, NEW id \in Ids, S!RoomTick(t, id)
      PROVE  Sync!SyncNext /\ S!SyncNext
  BY <1>3, SameSync DEF Sync!SyncNext, S!SyncNext
<1>4. ASSUME NEW k \in Keys, NEW seq \in 1..MaxSeq, S!Hear(k, seq)
      PROVE  Sync!SyncNext /\ S!SyncNext
  BY <1>4, SameSync DEF Sync!SyncNext, S!SyncNext
<1>5. ASSUME NEW id \in Ids, S!Acked(id) \/ S!GaveUp(id)
      PROVE  Sync!SyncNext /\ S!SyncNext
  BY <1>5, SameSync DEF Sync!SyncNext, S!SyncNext
<1> QED
  BY <1>1, <1>2, <1>3, <1>4, <1>5 DEF SyncStep

LEMMA ContractStep == Good /\ Good' /\ AckIsReceipt' /\ [Next]_vars => SyncStep
BY NextSync DEF AckIsReceipt

LEMMA SyncStepContract == SyncStep => [Sync!SyncNext]_(Sync!syncVars)
BY SyncStepIs

\* The one thing RoomSync asks of routing that does not hold of it whatever
\* happens: as long as routing reports acks only of posts the reader has, every
\* step of the room on top of routing is a step of RoomSync (Room::onAck,
\* Room::onDeliveryFailed and what Router hands to them).
THEOREM ReceiptsKeepContract == Spec /\ []AckIsReceipt => KeepsContract
BY AlwaysGood, ContractStep, SyncStepContract, PTL DEF Spec, KeepsContract

LEMMA SyncInitInv == Init => S!SyncInv
<1> SUFFICES ASSUME Init PROVE S!SyncInv
  OBVIOUS
<1>1. Good
  BY InitGood
<1>2. PICK start \in Starts : Loaded(start)
  BY DEF Init
<1>3. /\ start.members \in Seq(Keys)
      /\ \A i \in 1..Len(clients) : ~clients[i].pending /\ clients[i].pk = start.members[i]
      /\ Len(clients) = Len(start.members)
  BY <1>2, LoadedOK, MeshAssumption DEF MeshAssumption, Init
<1>4. sends = {} /\ reports = <<>> /\ heard = {}
  BY SameNet DEF Init, P!Init
<1>5. Open = <<>> /\ Pushed = [k \in Keys |-> {}] /\ Reached = [k \in Keys |-> {}]
  BY <1>4 DEF Open, Waiting, StillToReport, Pushed, Reached
<1>6. S!GhostsOK
  BY <1>5 DEF S!GhostsOK
<1>7. \A j \in 1..Len(posts) : posts[j].seq \in 1..nextSeq - 1
  BY <1>1, S!RowBounds, RoomAssumed DEF S!RoomAssumption, Good, RoomOK
<1>8. \A pk, got : S!Covers(posts, pk, 0, got)
  BY <1>7 DEF S!Covers
<1>9. \A i \in 1..Len(clients) : clients[i].syncSeq = 0
  BY <1>2, LoadedOK DEF Init
<1>10. S!RowsOK
  BY <1>3, <1>8, <1>9 DEF S!RowsOK, S!BookmarkOK, S!PushOK
<1>11. disk.posts = posts /\ \A i \in 1..Len(disk.clients) : disk.clients[i].syncSeq = 0
  <2>1. Len(start.members) \in Nat
    BY <1>3
  <2> DEFINE saved == [i \in 1..Len(start.members) |->
                         [pk |-> start.members[i], access |-> "GUEST", syncSeq |-> 0, lastLogin |-> 1]]
  <2>2. disk.posts = posts /\ disk.clients = saved
    BY <1>2 DEF Loaded
  <2>3. Len(saved) = Len(start.members)
    BY <2>1
  <2>4. \A i \in 1..Len(start.members) : saved[i].syncSeq = 0
    OBVIOUS
  <2> HIDE DEF saved
  <2> QED BY <2>2, <2>3, <2>4
<1>12. S!SavedOK
  BY <1>8, <1>11 DEF S!SavedOK, S!BookmarkOK
<1> QED
  BY <1>6, <1>10, <1>12 DEF S!SyncInv

LEMMA SyncStepInv == Good /\ Good' /\ S!SyncInv /\ SyncStep => S!SyncInv'
<1> SUFFICES ASSUME Good, Good', S!SyncInv, SyncStep PROVE S!SyncInv'
  OBVIOUS
<1>1. S!IInv /\ S!IInv' /\ S!TablesConsistent /\ [S!SyncNext]_(S!syncVars)
  BY SyncStepIs DEF Good, RoomOK
<1> QED
  BY <1>1, S!NextSyncInv, RoomAssumed DEF S!RoomAssumption

LEMMA SyncInvNothingLost == Good /\ S!SyncInv => NothingLost
<1> SUFFICES ASSUME Good, S!SyncInv PROVE NothingLost
  OBVIOUS
<1>1. S!BookmarkCovered
  BY S!SyncInvImplies, RoomAssumed DEF S!RoomAssumption, Good, RoomOK
<1> QED
  BY <1>1 DEF S!BookmarkCovered, Sync!BookmarkCovered, NothingLost

\* And then no bookmark passes a post that did not reach its client, through
\* lost frames, retries and late acks (Room::onAck).
THEOREM ReceiptsLoseNothing == Spec /\ []AckIsReceipt => []NothingLost
BY AlwaysGood, ContractStep, SyncInitInv, SyncStepInv, SyncInvNothingLost, PTL DEF Spec
-----------------------------------------------------------------------------
(* What an ack is worth where a post is owed to several readers.           *)

\* A text puts one post on the board, its sender's, with a new number.
LEMMA NewRing ==
    ASSUME RoomOK, NEW k, S!HandleText(k, 0)
    PROVE  \A j \in 1..Len(posts') :
              \/ posts'[j].seq = nextSeq /\ posts'[j].author = k
              \/ \E i \in 1..Len(posts) : posts'[j] = posts[i]
<1> DEFINE post == [seq |-> nextSeq, timestamp |-> S!SanitiseTimestamp(0), author |-> k]
           kept == IF Len(posts) >= MaxPosts THEN Tail(posts) ELSE posts
<1>1. posts' = Append(kept, post)
  BY DEF S!HandleText, S!AddPost
<1>2. IsList(posts) /\ Len(posts) \in Nat /\ MaxPosts \in Nat \ {0}
  <2>1. IsList(posts)
    BY DEF RoomOK, S!IInv, S!BoardOK, IsList
  <2> QED BY <2>1, ListFacts, MeshAssumption DEF MeshAssumption
<1>3. IsList(kept) /\ \A j \in 1..Len(kept) : \E i \in 1..Len(posts) : kept[j] = posts[i]
  <2>1. CASE Len(posts) >= MaxPosts
    <3>1. posts # <<>>
      BY <1>2, <2>1, ListFacts
    <3>2. /\ IsList(Tail(posts)) /\ Len(Tail(posts)) = Len(posts) - 1
          /\ \A i \in 1..Len(posts) - 1 : Tail(posts)[i] = posts[i + 1]
      BY <1>2, <3>1, ListTail
    <3>3. kept = Tail(posts)
      BY <2>1
    <3> HIDE DEF kept
    <3>4. ASSUME NEW j \in 1..Len(kept) PROVE j + 1 \in 1..Len(posts) /\ kept[j] = posts[j + 1]
      BY <1>2, <3>2, <3>3
    <3> QED BY <3>2, <3>3, <3>4
  <2> QED BY <1>2, <2>1
<1>4. post.seq = nextSeq /\ post.author = k
  OBVIOUS
<1> HIDE DEF kept, post
<1>5. /\ Len(kept) \in Nat /\ Len(posts') = Len(kept) + 1
      /\ \A j \in 1..Len(kept) : posts'[j] = kept[j]
      /\ posts'[Len(kept) + 1] = post
  BY <1>1, <1>3, ListAppend, ListFacts
<1> QED
  BY <1>3, <1>4, <1>5

\* The posts that were pushed to client k, and that some reader they were pushed
\* to has.
ReadPushes(k, all, got) ==
    {seq \in Nat : /\ P!Sent(all, server, k, seq)
                   /\ \E r \in Keys : P!Sent(all, server, r, seq) /\ <<r, server, seq>> \in got}

\* A row that waits waits for a send of the post it was pushed.
PushSent(c, all) ==
    \E s \in all : s.from = server /\ s.id = c.pendingId /\ s.to = c.pk /\ s.text = c.pendingSeq

\* The bookmark has passed only such posts, and a push goes out only when it has
\* passed every post before.
RowRead(c, ring, all, got) ==
    /\ S!Covers(ring, c.pk, c.syncSeq, ReadPushes(c.pk, all, got))
    /\ c.pending => /\ S!Covers(ring, c.pk, c.pendingSeq - 1, ReadPushes(c.pk, all, got))
                    /\ PushSent(c, all)

RowsRead == \A i \in 1..Len(clients) : RowRead(clients[i], posts, sends, heard)

\* Sends stay but for their fate, what was heard stays heard, and a post on the
\* board was on it before or has a new number.
Grown ==
    /\ Recast(sends, sends')
    /\ \A r \in Keys : \A x : <<r, server, x>> \in heard => <<r, server, x>> \in heard'
    /\ \A j \in 1..Len(posts') :
           posts'[j].seq = nextSeq \/ \E i \in 1..Len(posts) : posts'[j] = posts[i]

\* The bookmark stays, and the row waits for what it waited for or not at all.
StaysRead(c, d) ==
    /\ d.pk = c.pk /\ d.syncSeq = c.syncSeq
    /\ d.pending => c.pending /\ d.pendingId = c.pendingId /\ d.pendingSeq = c.pendingSeq

LEMMA ReadGrows ==
    ASSUME Grown, NEW k
    PROVE  ReadPushes(k, sends, heard) \subseteq ReadPushes(k, sends', heard')
<1>1. ASSUME NEW to, NEW x, P!Sent(sends, server, to, x) PROVE P!Sent(sends', server, to, x)
  <2>1. PICK s \in sends : s.from = server /\ s.to = to /\ s.text = x
    BY <1>1 DEF P!Sent
  <2>2. PICK y \in sends' : s.from = y.from /\ s.to = y.to /\ s.text = y.text
    BY <2>1 DEF Grown, Recast
  <2> QED BY <2>1, <2>2 DEF P!Sent
<1> QED
  BY <1>1 DEF Grown, ReadPushes

\* A new post is above every bookmark, so what was covered stays covered.
LEMMA CoverGrows ==
    ASSUME Good, Grown, NEW k, NEW bound \in Int, bound < nextSeq,
           S!Covers(posts, k, bound, ReadPushes(k, sends, heard))
    PROVE  S!Covers(posts', k, bound, ReadPushes(k, sends', heard'))
<1> SUFFICES ASSUME NEW j \in 1..Len(posts'), posts'[j].seq <= bound, posts'[j].author # k
             PROVE  posts'[j].seq \in ReadPushes(k, sends', heard')
  BY DEF S!Covers
<1>1. nextSeq \in Nat
  BY DEF Good, RoomOK, S!IInv, S!BoardOK
<1>2. PICK i \in 1..Len(posts) : posts'[j] = posts[i]
  BY <1>1 DEF Grown
<1>3. posts[i].seq \in ReadPushes(k, sends, heard)
  BY <1>2 DEF S!Covers
<1> QED
  BY <1>2, <1>3, ReadGrows

LEMMA RowStaysRead ==
    ASSUME Good, RowsRead, Grown, NEW i \in 1..Len(clients), NEW d, StaysRead(clients[i], d)
    PROVE  RowRead(d, posts', sends', heard')
<1> DEFINE c == clients[i]
<1>1. /\ nextSeq \in Nat /\ c.syncSeq \in Nat /\ c.syncSeq < nextSeq
      /\ c.pendingSeq \in Nat /\ c.pendingSeq < nextSeq
  BY S!RowBounds, RoomAssumed DEF S!RoomAssumption, Good, RoomOK
<1>2. RowRead(c, posts, sends, heard) /\ StaysRead(c, d)
  BY DEF RowsRead
<1> HIDE DEF c
<1>3. c.syncSeq \in Int /\ c.pendingSeq - 1 \in Int /\ c.pendingSeq - 1 < nextSeq
  BY <1>1
<1>4. S!Covers(posts', c.pk, c.syncSeq, ReadPushes(c.pk, sends', heard'))
  BY <1>1, <1>2, <1>3, CoverGrows DEF RowRead
<1>5. ASSUME d.pending
      PROVE  S!Covers(posts', c.pk, c.pendingSeq - 1, ReadPushes(c.pk, sends', heard')) /\ PushSent(d, sends')
  <2>1. c.pending /\ d.pendingId = c.pendingId /\ d.pendingSeq = c.pendingSeq /\ d.pk = c.pk
    BY <1>2, <1>5 DEF StaysRead
  <2>2. PICK s \in sends : s.from = server /\ s.id = c.pendingId /\ s.to = c.pk /\ s.text = c.pendingSeq
    BY <1>2, <2>1 DEF RowRead, PushSent
  <2>3. PICK y \in sends' : s.from = y.from /\ s.id = y.id /\ s.to = y.to /\ s.text = y.text
    BY <2>2 DEF Grown, Recast
  <2> QED BY <1>2, <1>3, <2>1, <2>2, <2>3, CoverGrows DEF RowRead, PushSent
<1> QED
  BY <1>2, <1>4, <1>5 DEF RowRead, StaysRead

LEMMA FatedStays ==
    ASSUME NetOK, NEW n, NEW ids, NEW fate
    PROVE  Recast(sends, P!Fated(sends, n, ids, fate))
<1> SUFFICES ASSUME NEW x \in sends
             PROVE  \E s \in P!Fated(sends, n, ids, fate) :
                        x.from = s.from /\ x.id = s.id /\ x.to = s.to /\ x.text = s.text
  BY DEF Recast
<1>1. DOMAIN x = {"from", "id", "to", "text", "fate"}
  BY DEF NetOK, P!Inv, P!SendsOK
<1> DEFINE s == IF x.from = n /\ x.id \in ids THEN [x EXCEPT !.fate = fate] ELSE x
<1>2. s \in P!Fated(sends, n, ids, fate)
  BY DEF P!Fated
<1>3. x.from = s.from /\ x.id = s.id /\ x.to = s.to /\ x.text = s.text
  BY <1>1
<1> HIDE DEF s
<1> QED
  BY <1>2, <1>3

\* The row an answer is for.
LEMMA AnsweredRow ==
    ASSUME RoomOK, NEW id, S!WaitingFor(id) # {}
    PROVE  LET i == S!Min(S!WaitingFor(id)) IN
           /\ i \in 1..Len(clients) /\ Len(clients) \in Nat /\ DOMAIN clients = 1..Len(clients)
           /\ clients \in Seq(S!Behind(nextSeq)) /\ clients[i] \in S!Behind(nextSeq)
           /\ clients[i].pending /\ clients[i].pendingId = id
<1> DEFINE i == S!Min(S!WaitingFor(id))
<1>1. Len(clients) \in Nat /\ clients \in Seq(S!Behind(nextSeq))
  BY DEF RoomOK, S!IInv, S!ClientsOK
<1>2. i \in S!WaitingFor(id)
  <2>1. S!WaitingFor(id) \subseteq Nat
    BY <1>1 DEF S!WaitingFor
  <2>2. i = Min(S!WaitingFor(id))
    BY DEF S!Min, Min
  <2> HIDE DEF i
  <2> QED BY <2>1, <2>2, MinFacts
<1>3. i \in 1..Len(clients) /\ clients[i].pending /\ clients[i].pendingId = id
  BY <1>2 DEF S!WaitingFor
<1> QED
  BY <1>1, <1>3

\* The row that waited for this id waits no longer, its bookmark is as given, and
\* the others are as before.
Answered(i, id, seq) ==
    /\ i \in 1..Len(clients) /\ clients[i].pending /\ clients[i].pendingId = id
    /\ Len(clients') = Len(clients)
    /\ \A j \in 1..Len(clients) : j # i => clients'[j] = clients[j]
    /\ clients'[i].pk = clients[i].pk /\ ~clients'[i].pending /\ clients'[i].syncSeq = seq

\* An ack moves the bookmark to the post that was pushed.
LEMMA AckedRow ==
    ASSUME RoomOK, NEW id, S!OnAck(id)
    PROVE  \E i : Answered(i, id, clients[i].pendingSeq)
<1> DEFINE i == S!Min(S!WaitingFor(id))
           c == clients[i]
           d == [c EXCEPT !.syncSeq = c.pendingSeq, !.pending = FALSE, !.retryAfter = 0]
<1>1. /\ i \in 1..Len(clients) /\ Len(clients) \in Nat /\ DOMAIN clients = 1..Len(clients)
      /\ clients \in Seq(S!Behind(nextSeq)) /\ c \in S!Behind(nextSeq)
      /\ clients[i].pending /\ clients[i].pendingId = id
  BY AnsweredRow DEF S!OnAck
<1>2. clients' = [clients EXCEPT ![i] = d]
  BY <1>1 DEF S!OnAck
<1>3. ~d.pending /\ d.pk = c.pk /\ d.syncSeq = c.pendingSeq
  BY <1>1 DEF S!Behind, S!Client
<1> HIDE DEF d, i
<1> QED
  BY <1>1, <1>2, <1>3 DEF Answered

\* A failure moves none.
LEMMA FailedRow ==
    ASSUME RoomOK, NEW id, S!OnDeliveryFailed(id)
    PROVE  \E i : Answered(i, id, clients[i].syncSeq)
<1> DEFINE i == S!Min(S!WaitingFor(id))
           c == clients[i]
           d == [c EXCEPT !.pending = FALSE, !.retryAfter = roomNow + RetryDelay]
<1>1. /\ i \in 1..Len(clients) /\ Len(clients) \in Nat /\ DOMAIN clients = 1..Len(clients)
      /\ clients \in Seq(S!Behind(nextSeq)) /\ c \in S!Behind(nextSeq)
      /\ clients[i].pending /\ clients[i].pendingId = id
  BY AnsweredRow DEF S!OnDeliveryFailed
<1>2. clients' = [clients EXCEPT ![i] = d]
  BY <1>1 DEF S!OnDeliveryFailed
<1>3. ~d.pending /\ d.pk = c.pk /\ d.syncSeq = c.syncSeq
  BY <1>1 DEF S!Behind, S!Client
<1> HIDE DEF d, i
<1> QED
  BY <1>1, <1>2, <1>3 DEF Answered

\* The row and the post of a push.
LEMMA PushedRow ==
    ASSUME RoomOK, NEW t \in Nat, NEW id, S!Tick(t, id), S!PushSteps(t) # {}
    PROVE  LET i == S!PushRow(t) IN
           /\ i \in 1..Len(clients) /\ Len(clients') = Len(clients)
           /\ \A j \in 1..Len(clients) : j # i => clients'[j] = clients[j]
           /\ clients'[i].pk = clients[i].pk /\ clients'[i].syncSeq = clients[i].syncSeq
           /\ clients'[i].pendingId = id /\ clients'[i].pendingSeq = S!PushPost(t).seq
<1> DEFINE i == S!PushRow(t)
           c == clients[i]
           d == [c EXCEPT !.pending = TRUE, !.pendingId = id, !.pendingSeq = S!PushPost(t).seq]
<1>1. Len(clients) \in Nat /\ clients \in Seq(S!Behind(nextSeq))
  BY DEF RoomOK, S!IInv, S!ClientsOK
<1>2. i \in 1..Len(clients)
  BY PushTarget
<1>3. c \in S!Behind(nextSeq) /\ DOMAIN clients = 1..Len(clients)
  BY <1>1, <1>2
<1>4. clients' = [clients EXCEPT ![i] = d]
  BY <1>2, <1>3 DEF S!Tick
<1>5. d.pk = c.pk /\ d.syncSeq = c.syncSeq /\ d.pendingId = id /\ d.pendingSeq = S!PushPost(t).seq
  BY <1>3 DEF S!Behind, S!Client
<1> HIDE DEF d, i
<1>6. /\ Len(clients') = Len(clients) /\ clients'[i] = d
      /\ \A j \in 1..Len(clients) : j # i => clients'[j] = clients[j]
  BY <1>1, <1>2, <1>3, <1>4
<1> QED
  BY <1>2, <1>5, <1>6 DEF i

\* An ack that moves a bookmark is of a push to that row's client, and some
\* reader the post was pushed to has it.
LEMMA AckRead ==
    ASSUME Good, Good', RowsRead, Grown, HeardSame,
           NEW e \in 1..Len(pending[server]), AckOf(e)
    PROVE  RowsRead'
<1> DEFINE id == pending[server][e].id
<1>1. /\ NetOK /\ RoomOK /\ server \in Nodes /\ P!OneEach(sends) /\ P!OneEach(sends')
      /\ sends' = P!Fated(sends, server, {id}, "acked")
  BY DEF Good, NetOK, P!Listed, Nodes, AckOf
<1> HIDE DEF id
<1>2. CASE UNCHANGED S!vars
  <2>1. UNCHANGED clients
    BY <1>2 DEF S!vars
  <2>2. \A i \in 1..Len(clients) : StaysRead(clients[i], clients[i])
    BY DEF StaysRead
  <2> QED BY <2>1, <2>2, RowStaysRead DEF RowsRead
<1>3. CASE S!OnAck(id)
  <2> PICK i : Answered(i, id, clients[i].pendingSeq)
    BY <1>1, <1>3, AckedRow
  <2>1. /\ i \in 1..Len(clients) /\ clients[i].pending /\ clients[i].pendingId = id
        /\ Len(clients') = Len(clients)
        /\ \A j \in 1..Len(clients) : j # i => clients'[j] = clients[j]
        /\ clients'[i].pk = clients[i].pk /\ ~clients'[i].pending
        /\ clients'[i].syncSeq = clients[i].pendingSeq
    BY DEF Answered
  <2>2. ASSUME NEW j \in 1..Len(clients), j # i PROVE RowRead(clients'[j], posts', sends', heard')
    <3>1. StaysRead(clients[j], clients'[j])
      BY <2>1, <2>2 DEF StaysRead
    <3> QED BY <3>1, RowStaysRead
  <2> DEFINE c == clients[i]
             got == ReadPushes(c.pk, sends', heard')
  <2>3. /\ c.pk \in Keys /\ nextSeq \in Nat /\ c.pendingSeq \in Nat /\ c.pendingSeq < nextSeq
        /\ RowRead(c, posts, sends, heard)
    BY <1>1, <2>1, S!RowBounds, RoomAssumed DEF S!RoomAssumption, RoomOK, RowsRead
  <2>4. PICK s \in sends : s.from = server /\ s.id = id /\ s.to = c.pk /\ s.text = c.pendingSeq
    BY <2>1, <2>3 DEF RowRead, PushSent
  <2>5. PICK x \in sends' : x.from = server /\ x.id = id /\ x.fate = "acked"
    <3>1. NetOK /\ s \in sends /\ s.from = server /\ s.id \in {id}
      BY <1>1, <2>4
    <3> HIDE DEF c
    <3>2. \E x \in P!Fated(sends, server, {id}, "acked") : x.from = server /\ x.id = s.id /\ x.fate = "acked"
      BY <3>1, FatedFate
    <3> QED BY <1>1, <2>4, <3>2
  <2>6. x.to = c.pk /\ x.text = c.pendingSeq
    <3>1. PICK y \in sends' : s.from = y.from /\ s.id = y.id /\ s.to = y.to /\ s.text = y.text
      BY DEF Grown, Recast
    <3>2. y = x
      BY <1>1, <2>4, <2>5, <3>1 DEF P!OneEach
    <3> QED BY <2>4, <3>1, <3>2
  <2>7. PICK r : <<r, server, c.pendingSeq>> \in heard' /\ P!Sent(sends', server, r, c.pendingSeq)
    <3>1. P!AckedIsHeard'
      BY DEF Good, NetOK, P!Receipts
    <3> QED BY <2>5, <2>6, <3>1 DEF P!AckedIsHeard
  <2>8. r \in Keys
    BY <2>7 DEF P!Sent, Good, Wired, PushesOK
  <2>9. P!Sent(sends', server, c.pk, c.pendingSeq)
    BY <2>5, <2>6 DEF P!Sent
  <2>10. c.pendingSeq \in got
    BY <2>3, <2>7, <2>8, <2>9 DEF ReadPushes
  <2>11. S!Covers(posts', c.pk, c.pendingSeq - 1, got)
    <3>1. c.pendingSeq - 1 \in Int /\ c.pendingSeq - 1 < nextSeq
      BY <2>3
    <3> QED BY <2>1, <2>3, <3>1, CoverGrows DEF RowRead
  <2>12. \A j \in 1..Len(posts') : posts'[j].seq \in Nat
    BY DEF Good, RoomOK, S!IInv, S!BoardOK, S!InOrder
  <2> HIDE DEF c, got
  <2>13. S!Covers(posts', c.pk, c.pendingSeq, got)
    <3> SUFFICES ASSUME NEW j \in 1..Len(posts'), posts'[j].seq <= c.pendingSeq, posts'[j].author # c.pk
                 PROVE  posts'[j].seq \in got
      BY DEF S!Covers
    <3>1. posts'[j].seq = c.pendingSeq \/ posts'[j].seq <= c.pendingSeq - 1
      BY <2>3, <2>12
    <3> QED BY <2>10, <2>11, <3>1 DEF S!Covers
  <2>14. RowRead(clients'[i], posts', sends', heard')
    BY <2>1, <2>13 DEF RowRead, c, got
  <2> QED BY <2>1, <2>2, <2>14 DEF RowsRead
<1> QED
  BY <1>2, <1>3 DEF AckOf, id

\* A push is of the first post the bookmark has not passed.
LEMMA PushRead ==
    ASSUME Good, RowsRead, NEW t \in Nat, S!Tick(t, nextId[server]), S!PushSteps(t) # {},
           UNCHANGED heard,
           P!SendDirect(server, clients[S!PushRow(t)].pk, S!PushPost(t).seq)
    PROVE  RowsRead'
<1> DEFINE i == S!PushRow(t)
           c == clients[i]
           d == clients'[i]
           id == nextId[server]
           new == [from |-> server, id |-> id, to |-> c.pk, text |-> S!PushPost(t).seq,
                   fate |-> "waiting"]
<1>1. RoomOK /\ S!IInv
  BY DEF Good, RoomOK
<1>2. /\ i \in 1..Len(clients) /\ Len(clients') = Len(clients)
      /\ \A j \in 1..Len(clients) : j # i => clients'[j] = clients[j]
      /\ d.pk = c.pk /\ d.syncSeq = c.syncSeq
      /\ d.pendingId = id /\ d.pendingSeq = S!PushPost(t).seq
  BY <1>1, PushedRow
<1>3. UNCHANGED posts
  BY DEF S!Tick
<1>4. sends' = sends \cup {new}
  BY DEF P!SendDirect
<1>5. Grown
  BY <1>3, <1>4 DEF Grown, Recast
<1>6. ASSUME NEW j \in 1..Len(clients), j # i PROVE RowRead(clients'[j], posts', sends', heard')
  <2>1. StaysRead(clients[j], clients'[j])
    BY <1>2, <1>6 DEF StaysRead
  <2> QED BY <1>5, <2>1, RowStaysRead
<1>7. S!Covers(posts, c.pk, c.syncSeq, ReadPushes(c.pk, sends, heard))
  BY <1>2 DEF RowsRead, RowRead
<1>8. S!Covers(posts, c.pk, S!PushPost(t).seq - 1, ReadPushes(c.pk, sends, heard))
  BY <1>1, <1>7, S!UnreadBefore, RoomAssumed DEF S!RoomAssumption
<1>9. nextSeq \in Nat /\ S!PushPost(t).seq \in 1..nextSeq - 1 /\ c.syncSeq \in Nat /\ c.syncSeq < nextSeq
  BY <1>1, <1>2, PushTarget, S!RowBounds, RoomAssumed DEF S!RoomAssumption
<1>10. PushSent(d, sends')
  <2>1. new.from = server /\ new.id = id /\ new.to = c.pk /\ new.text = S!PushPost(t).seq
    OBVIOUS
  <2> QED BY <1>2, <1>4, <2>1 DEF PushSent
<1>11. S!Covers(posts', c.pk, c.syncSeq, ReadPushes(c.pk, sends', heard'))
  BY <1>5, <1>7, <1>9, CoverGrows
<1>12. S!Covers(posts', c.pk, S!PushPost(t).seq - 1, ReadPushes(c.pk, sends', heard'))
  <2>1. S!PushPost(t).seq - 1 \in Int /\ S!PushPost(t).seq - 1 < nextSeq
    BY <1>9
  <2> QED BY <1>5, <1>8, <2>1, CoverGrows
<1>13. RowRead(d, posts', sends', heard')
  BY <1>2, <1>10, <1>11, <1>12 DEF RowRead
<1> QED
  BY <1>2, <1>6, <1>13 DEF RowsRead

LEMMA ReadStep ==
    ASSUME Good, Good', RowsRead, [Next]_vars
    PROVE  RowsRead'
<1>1. /\ NetOK /\ RoomOK /\ time \in 0..MaxTime /\ now[server] \in Nat /\ server \in Nodes
      /\ Keys \subseteq Nodes
  BY MeshAssumption DEF MeshAssumption, Good, Wired, Clocks, Nodes
<1>2. /\ Recast(sends, sends)
      /\ \A n, ids, fate : sends' = P!Fated(sends, n, ids, fate) => Recast(sends, sends')
  BY <1>1, FatedStays DEF Recast
<1>3. ASSUME Grown, UNCHANGED clients PROVE RowsRead'
  <2>1. \A i \in 1..Len(clients) : StaysRead(clients[i], clients[i])
    BY DEF StaysRead
  <2> QED BY <1>3, <2>1, RowStaysRead DEF RowsRead
<1>4. ASSUME UNCHANGED posts, HeardSame \/ heard \subseteq heard', Recast(sends, sends') PROVE Grown
  BY <1>4 DEF Grown, HeardSame
<1>5. UNCHANGED S!vars => UNCHANGED <<posts, clients>>
  BY DEF S!vars
<1>6. ASSUME NEW m \in air, m.to = server, Receive(m.frame) PROVE RowsRead'
  <2>1. HeardSame
    BY <1>1, <1>6, ReceiveEffect
  <2>2. CASE UNCHANGED S!vars /\ UNCHANGED <<pending, sends>>
    BY <1>2, <1>3, <1>4, <1>5, <2>1, <2>2
  <2>3. ASSUME NEW k, S!HandleText(k, 0), UNCHANGED <<pending, sends>> PROVE RowsRead'
    <3>1. UNCHANGED clients
      BY <2>3 DEF S!HandleText, S!AddPost
    <3>2. Grown
      BY <1>1, <1>2, <2>1, <2>3, NewRing DEF Grown, HeardSame
    <3> QED BY <1>3, <3>1, <3>2
  <2>4. ASSUME NEW e \in 1..Len(pending[server]), AckOf(e) PROVE RowsRead'
    <3>1. UNCHANGED posts
      BY <1>5, <2>4 DEF AckOf, S!OnAck
    <3>2. Recast(sends, sends')
      BY <1>2, <2>4 DEF AckOf
    <3> QED BY <1>4, <2>1, <2>4, <3>1, <3>2, AckRead
  <2> QED BY <1>1, <1>6, <2>2, <2>3, <2>4, ReceiveEffect
<1>7. ASSUME NEW m \in air, m.to # server, ClientReceive(m.to, m.frame) PROVE RowsRead'
  <2>1. /\ OnlyOf(m.to, "acked") /\ UNCHANGED S!vars
        /\ HeardSame \/ \E x : HeardMore(m.to, x)
    BY <1>1, <1>7, ClientEffect
  <2>2. Recast(sends, sends')
    BY <1>2, <2>1 DEF OnlyOf
  <2>3. Grown
    BY <1>5, <2>1, <2>2 DEF Grown, HeardSame, HeardMore
  <2> QED BY <1>3, <1>5, <2>1, <2>3
<1>8. ASSUME NEW n \in Nodes, P!Tick(n, time), UNCHANGED S!vars, UNCHANGED heard PROVE RowsRead'
  <2>1. sends' = P!Fated(sends, n, P!IdsAt(pending[n], P!Failing(n, time)), "failed")
    BY <1>1, <1>8, P!TickThins, NetAssumed DEF P!RouterAssumption, NetOK
  <2> QED BY <1>2, <1>3, <1>4, <1>5, <1>8, <2>1
<1>9. ASSUME RouterTick PROVE RowsRead'
  BY <1>1, <1>8, <1>9, RouterTickEffect
<1>10. ASSUME NEW k \in Keys, ClientTick(k) PROVE RowsRead'
  BY <1>1, <1>8, <1>10, ClientTickEffect
<1>11. ASSUME Report PROVE RowsRead'
  <2>1. UNCHANGED <<sends, heard>>
    BY <1>11, ReportEffect DEF netVars
  <2>2. CASE UNCHANGED S!vars
    BY <1>2, <1>3, <1>4, <1>5, <2>1, <2>2
  <2>3. ASSUME NEW id, S!OnDeliveryFailed(id) PROVE RowsRead'
    <3>1. PICK i : Answered(i, id, clients[i].syncSeq)
      BY <1>1, <2>3, FailedRow
    <3>2. Grown
      BY <1>2, <1>4, <2>1, <2>3 DEF S!OnDeliveryFailed
    <3>3. \A j \in 1..Len(clients) : StaysRead(clients[j], clients'[j])
      BY <3>1 DEF Answered, StaysRead
    <3> QED BY <3>1, <3>2, <3>3, RowStaysRead DEF Answered, RowsRead
  <2> QED BY <1>11, <2>2, <2>3, ReportEffect
<1>12. ASSUME RoomTick PROVE RowsRead'
  <2>1. CASE UNCHANGED <<netVars, now>> /\ S!PushSteps(now[server]) = {}
    <3>1. UNCHANGED <<posts, clients, sends, heard>>
      BY <1>12, <2>1, RoomTickEffect DEF S!Tick, netVars
    <3> QED BY <1>2, <1>3, <1>4, <3>1
  <2>2. CASE S!PushSteps(now[server]) # {} /\
             P!SendDirect(server, clients[S!PushRow(now[server])].pk, S!PushPost(now[server]).seq)
    <3>1. UNCHANGED heard
      BY <2>2 DEF P!SendDirect
    <3> QED BY <1>1, <1>12, <2>2, <3>1, RoomTickEffect, PushRead
  <2> QED BY <1>12, <2>1, <2>2, RoomTickEffect
<1>13. ASSUME NEW k \in Keys, NEW text, Write(k, text) PROVE RowsRead'
  <2>1. P!SendDirect(k, server, text) /\ UNCHANGED S!vars
    BY <1>13, WriteEffect
  <2>2. UNCHANGED heard /\ sends \subseteq sends'
    BY <2>1 DEF P!SendDirect
  <2>3. Recast(sends, sends')
    BY <2>2 DEF Recast
  <2> QED BY <1>3, <1>4, <1>5, <2>1, <2>2, <2>3
<1>14. ASSUME Pass \/ (\E m \in air : Lose(m)) \/ UNCHANGED vars PROVE RowsRead'
  <2>1. UNCHANGED <<posts, clients, sends, heard>>
    BY <1>14 DEF Pass, Lose, vars, netVars, boardVars
  <2> QED BY <1>2, <1>3, <1>4, <2>1
<1> QED
  BY <1>6, <1>7, <1>9, <1>10, <1>11, <1>12, <1>13, <1>14 DEF Next

LEMMA ReadInit == Init => RowsRead
<1> SUFFICES ASSUME Init PROVE RowsRead
  OBVIOUS
<1>1. PICK start \in Starts : Loaded(start)
  BY DEF Init
<1>2. \A i \in 1..Len(clients) : ~clients[i].pending /\ clients[i].syncSeq = 0
  BY <1>1, LoadedOK DEF Init
<1>3. \A j \in 1..Len(posts) : posts[j].seq \in 1..nextSeq - 1
  BY InitGood, S!RowBounds, RoomAssumed DEF S!RoomAssumption, Good, RoomOK
<1>4. \A pk, got : S!Covers(posts, pk, 0, got)
  BY <1>3 DEF S!Covers
<1> QED
  BY <1>2, <1>4 DEF RowsRead, RowRead

\* Whoever reads and posts what, and whatever is lost: a bookmark passes a post
\* of somebody else only if the post was pushed to its client, and a reader it
\* was pushed to has it.  A failure moves no bookmark, and an ack moves the one
\* of the row whose send it answers to the post of that send, and passes none
\* before it (Room::onAck, Room::tick, Router::handleAck).  It is not said that
\* the reader is the client itself: the ack number does not tell them apart.
THEOREM PassedStaysRead == Spec => []PassedIsRead
<1>1. Good /\ RowsRead => PassedIsRead
  <2> SUFFICES ASSUME Good, RowsRead, NEW i \in 1..Len(clients), NEW j \in 1..Len(posts),
                      posts[j].seq <= clients[i].syncSeq, posts[j].author # clients[i].pk
               PROVE  /\ posts[j].seq \in Pushed[clients[i].pk]
                      /\ \E r \in Keys : posts[j].seq \in Pushed[r] /\ <<r, server, posts[j].seq>> \in heard
    BY DEF PassedIsRead
  <2>1. clients[i].pk \in Keys
    BY S!RowBounds, RoomAssumed DEF S!RoomAssumption, Good, RoomOK
  <2>2. posts[j].seq \in ReadPushes(clients[i].pk, sends, heard)
    BY DEF RowsRead, RowRead, S!Covers
  <2>3. \A r \in Keys : P!Sent(sends, server, r, posts[j].seq) => posts[j].seq \in Pushed[r]
    BY DEF Pushed, P!Sent
  <2> QED BY <2>1, <2>2, <2>3 DEF ReadPushes
<1>2. Good /\ Good' /\ RowsRead /\ [Next]_vars => RowsRead'
  BY ReadStep
<1> QED
  BY <1>1, <1>2, ReadInit, AlwaysGood, PTL DEF Spec
=============================================================================
