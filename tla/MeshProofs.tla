----------------------------- MODULE MeshProofs -----------------------------
(***************************************************************************)
(* Proofs about the room on top of routing, for every number of people,    *)
(* posts and drafts, every size of the tables, and any losses and delays:  *)
(* what holds of routing holds of it under the room, and what is recorded  *)
(* as acknowledged was heard by somebody.                                  *)
(*                                                                         *)
(* What RouterProofs shows of a step of routing holds of routing here, and *)
(* what RoomProofs shows of a step of the room, of the room here; the two  *)
(* are tied together by the sends routing knows and the rows that wait for *)
(* them.                                                                   *)
(***************************************************************************)
EXTENDS Mesh, ProofFacts

P == INSTANCE RouterProofs WITH
    Links <- InRange, Repeaters <- {}, Traffic <- {}, Logins <- {},
    DirectAckPerHop <- 0, ForwardDelays <- {0}, MaxHops <- 0, MaxReadings <- 0

S == INSTANCE RoomProofs WITH
    now <- roomNow, Stamps <- {0}, LoginStamps <- {1}, RequestStamps <- {0},
    Epochs <- {0}, Passwords <- {NoPassword}, Ids <- Ids,
    MaxLoginFailures <- 1, MaxLoginAttempts <- 1, LoginLockout <- 1,
    ClockWindow <- 0, KeepsBoard <- TRUE, FirstConfig <- OpenRoom,
    open <- Open, pushed <- Pushed, reached <- Reached, waived <- [k \in Keys |-> {}]

-----------------------------------------------------------------------------
(* One definition, seen through two instances.                             *)

LEMMA SameSeen ==
    ASSUME NEW n, NEW f
    PROVE  Net!AlreadySeen(n, f) <=> P!AlreadySeen(n, f)
BY DEF Net!AlreadySeen, P!AlreadySeen, Net!HashOf, P!HashOf, Net!Min, P!Min

LEMMA SameSendDirect ==
    ASSUME NEW n, NEW to, NEW text
    PROVE  Net!SendDirect(n, to, text) <=> P!SendDirect(n, to, text)
BY DEF Net!SendDirect, P!SendDirect, Net!RememberSeen, P!RememberSeen, Net!OnAir, P!OnAir,
   Net!HashOf, P!HashOf, Net!Timeout, P!Timeout, Net!HasRoom, P!HasRoom, Net!BuildFrame,
   P!BuildFrame, Net!Envelope, P!Envelope, Net!ExpectedAck, P!ExpectedAck, Net!NextSlot,
   P!NextSlot, Net!Frame, P!Frame, Net!RoutesTo, P!RoutesTo, Net!Min, P!Min, Net!Max,
   P!Max

LEMMA SameTick ==
    ASSUME NEW n, NEW t
    PROVE  Net!Tick(n, t) <=> P!Tick(n, t)
BY DEF Net!Tick, P!Tick, Net!Failing, P!Failing, Net!OutOfAttempts, P!OutOfAttempts, Net!Keep,
   P!Keep, Net!ForgetRoutes, P!ForgetRoutes, Net!OnAir, P!OnAir

LEMMA SameOnFrame ==
    ASSUME NEW n, NEW f
    PROVE  Net!OnFrame(n, f, 0) <=> P!OnFrame(n, f, 0)
<1>1. Net!Answers(n, f) = P!Answers(n, f)
  BY DEF Net!Answers, P!Answers, Net!PathReturn, P!PathReturn, Net!Ack, P!Ack, Net!Learned,
   P!Learned, Net!InstallRoute, P!InstallRoute, Net!ReversePath, P!ReversePath,
   Net!BuildFrame, P!BuildFrame, Net!RoutesTo, P!RoutesTo, Net!Frame, P!Frame,
   Net!Envelope, P!Envelope, Net!ExpectedAck, P!ExpectedAck, Net!Min, P!Min
<1>2. ASSUME NEW g PROVE Net!RememberSeen(n, g) <=> P!RememberSeen(n, g)
  BY DEF Net!RememberSeen, P!RememberSeen, Net!NextSlot, P!NextSlot, Net!HashOf, P!HashOf, Net!Max,
   P!Max
<1>3. ASSUME NEW g PROVE Net!OnAir(n, g) = P!OnAir(n, g)
  BY DEF Net!OnAir, P!OnAir
<1>4. /\ Net!ForUs(n, f) <=> P!ForUs(n, f)
      /\ Net!Echo(n, f) <=> P!Echo(n, f)
      /\ Net!Forwarded(n, f) = P!Forwarded(n, f)
  BY DEF Net!ForUs, P!ForUs, Net!Sealed, P!Sealed, Net!Echo, P!Echo, Net!Forwarded, P!Forwarded,
   Net!AppendSelf, P!AppendSelf, Net!StripSelf, P!StripSelf, Net!WithReading,
   P!WithReading
<1>5. Net!HandleAck(n, f) <=> P!HandleAck(n, f)
  BY DEF Net!HandleAck, P!HandleAck, Net!Awaiting, P!Awaiting, Net!Reported, P!Reported, Net!Min,
   P!Min
<1>6. Net!Deliver(n, f) <=> P!Deliver(n, f)
  BY DEF Net!Deliver, P!Deliver, Net!Learned, P!Learned, Net!InstallRoute, P!InstallRoute,
   Net!ReversePath, P!ReversePath, Net!RoutesTo, P!RoutesTo, Net!Min, P!Min
<1>7. Net!DeliverAnon(n, f) <=> P!DeliverAnon(n, f)
  BY DEF Net!DeliverAnon, P!DeliverAnon, Net!InstallRoute, P!InstallRoute, Net!ReversePath,
   P!ReversePath, Net!RoutesTo, P!RoutesTo, Net!Min, P!Min
<1> QED
  BY <1>1, <1>2, <1>3, <1>4, <1>5, <1>6, <1>7, SameSeen, ZenonT(60) DEF Net!OnFrame, P!OnFrame

LEMMA SameNet ==
    /\ Net!Init <=> P!Init
    /\ \A n, ack : Net!Awaiting(n, ack) = P!Awaiting(n, ack)
    /\ \A n, f : Net!ForUs(n, f) <=> P!ForUs(n, f)
    /\ \A n, f : Net!Echo(n, f) <=> P!Echo(n, f)
    /\ \A n, t : Net!GivenUp(n, t) = Keep(pending[n], P!Failing(n, t))
<1>1. Net!Init <=> P!Init
  BY DEF Net!Init, P!Init, Net!Unused, P!Unused
<1>2. \A n, ack : Net!Awaiting(n, ack) = P!Awaiting(n, ack)
  BY DEF Net!Awaiting, P!Awaiting
<1>3. \A n, f : Net!ForUs(n, f) <=> P!ForUs(n, f)
  BY DEF Net!ForUs, P!ForUs, Net!Sealed, P!Sealed
<1>4. \A n, f : Net!Echo(n, f) <=> P!Echo(n, f)
  BY DEF Net!Echo, P!Echo
<1>5. \A n, t : Net!GivenUp(n, t) = Keep(pending[n], P!Failing(n, t))
  BY DEF Net!GivenUp, Net!Failing, P!Failing, Net!OutOfAttempts, P!OutOfAttempts, Net!Keep, Keep
<1> QED
  BY <1>1, <1>2, <1>3, <1>4, <1>5

LEMMA SameMin ==
    ASSUME NEW T
    PROVE  P!Min(T) = Min(T)
BY DEF P!Min, Min

LEMMA SameBoard ==
    /\ \A id : Board!WaitingFor(id) = S!WaitingFor(id)
    /\ \A t : Board!PushSteps(t) = S!PushSteps(t)
    /\ \A t : Board!PushRow(t) = S!PushRow(t)
    /\ \A t : Board!PushPost(t) = S!PushPost(t)
BY DEF Board!WaitingFor, S!WaitingFor, Board!PushSteps, S!PushSteps, Board!CanRead, S!CanRead,
   Board!Unread, S!Unread, Board!PushRow, S!PushRow, Board!PushPost, S!PushPost,
   Board!Min, S!Min

LEMMA SameHandleText ==
    ASSUME NEW k
    PROVE  Board!HandleText(k, 0) <=> S!HandleText(k, 0)
BY DEF Board!HandleText, S!HandleText, Board!RowsOf, S!RowsOf, Board!CanPost, S!CanPost,
   Board!AddPost, S!AddPost, Board!SanitiseTimestamp, S!SanitiseTimestamp

LEMMA SameFate ==
    ASSUME NEW id
    PROVE  /\ Board!OnAck(id) <=> S!OnAck(id)
           /\ Board!OnDeliveryFailed(id) <=> S!OnDeliveryFailed(id)
BY DEF Board!WaitingFor, S!WaitingFor, Board!Min, S!Min, Board!OnAck, S!OnAck,
   Board!OnDeliveryFailed, S!OnDeliveryFailed

LEMMA SameRoomTick ==
    ASSUME NEW t, NEW id
    PROVE  Board!Tick(t, id) <=> S!Tick(t, id)
BY DEF Board!Tick, S!Tick, Board!PushSteps, S!PushSteps, Board!CanRead, S!CanRead, Board!Unread,
   S!Unread, Board!PushRow, S!PushRow, Board!PushPost, S!PushPost, Board!Min, S!Min

LEMMA SameSync ==
    /\ \A k \in Keys : S!HandleText(k, 0) /\ UNCHANGED <<Open, Pushed, Reached>> => Sync!Incoming
    /\ \A t, id : S!RoomTick(t, id) => Sync!RoomTick(t, id)
    /\ \A k, seq : S!Hear(k, seq) => Sync!Hear(k, seq)
    /\ \A id : S!Acked(id) => Sync!Acked(id)
    /\ \A id : S!GaveUp(id) => Sync!GaveUp(id)
    /\ UNCHANGED S!syncVars => UNCHANGED Sync!syncVars
<1>1. \A k \in Keys : S!HandleText(k, 0) /\ UNCHANGED <<Open, Pushed, Reached>> => Sync!Incoming
  BY DEF Sync!Incoming, S!Incoming, Sync!Request, S!Request, Sync!HandleText, S!HandleText,
   Sync!RowsOf, S!RowsOf, Sync!CanPost, S!CanPost, Sync!AddPost, S!AddPost,
   Sync!SanitiseTimestamp, S!SanitiseTimestamp
<1>2. ASSUME NEW t, NEW id, S!RoomTick(t, id) PROVE Sync!RoomTick(t, id)
  <2>1. /\ S!PushSteps(t) = Sync!PushSteps(t) /\ S!PushRow(t) = Sync!PushRow(t)
        /\ S!PushPost(t) = Sync!PushPost(t)
    BY DEF Sync!PushSteps, S!PushSteps, Sync!CanRead, S!CanRead, Sync!Unread, S!Unread, Sync!PushRow,
   S!PushRow, Sync!PushPost, S!PushPost, Sync!Min, S!Min
  <2>2. S!Tick(t, id) <=> Sync!Tick(t, id)
    BY <2>1 DEF Sync!Tick, S!Tick
  <2> QED BY <1>2, <2>1, <2>2, Zenon DEF Sync!RoomTick, S!RoomTick
<1>3. \A k, seq : S!Hear(k, seq) => Sync!Hear(k, seq)
  BY DEF Sync!Hear, S!Hear, Sync!vars, S!vars
<1>4. \A id : S!Acked(id) => Sync!Acked(id)
  BY DEF Sync!Acked, S!Acked, Sync!Reported, S!Reported, Sync!vars, S!vars, Sync!WaitingFor,
   S!WaitingFor, Sync!Min, S!Min, Sync!OnAck, S!OnAck, Sync!OnDeliveryFailed,
   S!OnDeliveryFailed
<1>5. \A id : S!GaveUp(id) => Sync!GaveUp(id)
  BY DEF Sync!GaveUp, S!GaveUp, Sync!Reported, S!Reported, Sync!vars, S!vars, Sync!WaitingFor,
   S!WaitingFor, Sync!Min, S!Min, Sync!OnAck, S!OnAck, Sync!OnDeliveryFailed,
   S!OnDeliveryFailed
<1>6. UNCHANGED S!syncVars => UNCHANGED Sync!syncVars
  BY DEF Sync!syncVars, S!syncVars, Sync!vars, S!vars
<1> QED
  BY <1>1, <1>2, <1>3, <1>4, <1>5, <1>6

\* The assumptions of the two modules hold of what they are given here, so that
\* what they prove may be used.
LEMMA NetAssumed == P!RouterAssumption
BY MeshAssumption DEF MeshAssumption, P!RouterAssumption, InRange, Nodes

LEMMA RoomAssumed == S!RoomAssumption
BY MeshAssumption DEF MeshAssumption, S!RoomAssumption, OpenRoom

-----------------------------------------------------------------------------
(* The invariant.                                                          *)

NetOK == P!Inv /\ P!Receipts /\ P!Listed
RoomOK == S!IInv /\ S!TablesConsistent /\ nextSeq <= MaxSeq

Clocks ==
    /\ time \in 0..MaxTime /\ roomNow \in Nat /\ roomNow <= now[server]
    /\ \A n \in Nodes : now[n] \in Nat /\ now[n] <= time

\* The server sends posts to people, and they send texts to the server.
PushesOK ==
    /\ \A n \in Nodes : nextId[n] <= MaxSends + 1
    /\ \A s \in sends :
           /\ s.id >= 1
           /\ s.from = server => s.to \in Keys /\ s.text \in 1..nextSeq - 1
           /\ s.from # server => s.to = server

FailedSend(id, all) == \E s \in all : s.from = server /\ s.id = id /\ s.fate = "failed"

\* What is still to be reported, each failed and once.
ReportsOK(reps, all) ==
    /\ IsList(reps)
    /\ \A i, j \in 1..Len(reps) : reps[i] = reps[j] => i = j
    /\ \A i \in 1..Len(reps) : FailedSend(reps[i], all)

\* A row that waits is the only one that waits for its id, and an id given out.
RowsWait(table, next) ==
    /\ \A i \in 1..Len(table) : table[i].pending => table[i].pendingId < next
    /\ \A i, j \in 1..Len(table) :
           table[i].pending /\ table[j].pending /\ table[i].pendingId = table[j].pendingId => i = j

\* A send routing still has is one some row waits for.
EntriesWaited(entries, table) ==
    \A j \in 1..Len(entries) :
        \E i \in 1..Len(table) : table[i].pending /\ table[i].pendingId = entries[j].id

Wired ==
    /\ Clocks /\ PushesOK /\ ReportsOK(reports, sends)
    /\ RowsWait(clients, nextId[server]) /\ EntriesWaited(pending[server], clients)

Good == NetOK /\ RoomOK /\ Wired

-----------------------------------------------------------------------------
(* What the steps do, in the words of the modules proved about.            *)

\* A frame a node receives is an ack it looks into, a text it hands up, or
\* neither; nobody here sends logins.
LEMMA OnFrameEffect ==
    ASSUME NetOK, NEW m \in air, P!OnFrame(m.to, m.frame, 0)
    PROVE  LET n == m.to
               f == m.frame
               fresh == ~P!AlreadySeen(n, f) /\ ~P!Echo(n, f)
           IN  /\ UNCHANGED <<now, nextId>> /\ n \in Nodes
               /\ \/ /\ fresh /\ f.type = "ACK" /\ P!HandleAck(n, f) /\ heard' = heard
                  \/ /\ ~(fresh /\ f.type = "ACK") /\ UNCHANGED <<pending, sends>>
                     /\ \/ heard' = heard /\ ~(f.type = "TXT_MSG" /\ P!ForUs(n, f) /\ fresh)
                        \/ /\ f.type = "TXT_MSG" /\ P!ForUs(n, f) /\ fresh
                           /\ heard' = heard \cup {<<n, f.payload.from, f.payload.plain>>}
                           /\ P!Sent(sends, f.payload.from, n, f.payload.plain)
<1> DEFINE n == m.to
           f == m.frame
<1>1. n \in Nodes /\ P!Genuine(f, sends, heard)
  BY DEF NetOK, P!Inv, P!Receipts, P!AllGenuine
<1>2. f.type # "ANON_REQ"
  BY <1>1 DEF P!Genuine, P!IsLogin
<1>3. UNCHANGED <<now, nextId>>
  BY DEF P!OnFrame
<1>4. f.type = "TXT_MSG" /\ P!ForUs(n, f) => P!Sent(sends, f.payload.from, n, f.payload.plain)
  BY <1>1 DEF P!Genuine, P!ForUs
<1>5. CASE P!AlreadySeen(n, f) \/ P!Echo(n, f)
  <2>1. UNCHANGED <<pending, sends, heard>>
    BY <1>5 DEF P!OnFrame
  <2> QED BY <1>1, <1>3, <1>5, <2>1
<1>6. CASE ~P!AlreadySeen(n, f) /\ ~P!Echo(n, f)
  <2>1. P!Handled(n, f)
    BY <1>6, Zenon DEF P!OnFrame, P!Handled
  <2>2. CASE f.type = "ACK"
    <3>1. P!HandleAck(n, f)
      BY <2>1, <2>2 DEF P!Handled
    <3>2. heard' = heard
      BY <3>1 DEF P!HandleAck
    <3> QED BY <1>1, <1>3, <1>6, <2>2, <3>1, <3>2
  <2>3. CASE f.type = "TXT_MSG" /\ P!ForUs(n, f)
    <3>1. P!Deliver(n, f)
      BY <2>1, <2>3 DEF P!Handled
    <3>2. UNCHANGED <<pending, sends>> /\ heard' = heard \cup {<<n, f.payload.from, f.payload.plain>>}
      BY <2>3, <3>1 DEF P!Deliver
    <3> QED BY <1>1, <1>3, <1>4, <1>6, <2>3, <3>2
  <2>4. CASE f.type # "ACK" /\ ~(f.type = "TXT_MSG" /\ P!ForUs(n, f))
    <3>1. UNCHANGED <<pending, sends, heard>>
      BY <1>2, <2>1, <2>4 DEF P!Handled, P!Deliver
    <3> QED BY <1>1, <1>3, <2>4, <3>1
  <2> QED BY <2>2, <2>3, <2>4
<1> QED
  BY <1>5, <1>6

\* No client has got anything else from the server.
HeardSame == \A k \in Keys : \A x : <<k, server, x>> \in heard' <=> <<k, server, x>> \in heard

\* An ack takes entry i out of the server's table.
AckOf(i) ==
    LET id == pending[server][i].id IN
    /\ P!Thinned(pending'[server], pending[server], (1..Len(pending[server])) \ {i})
    /\ sends' = P!Fated(sends, server, {id}, "acked")
    /\ \A k \in Nodes : k # server => pending'[k] = pending[k]
    /\ IF S!WaitingFor(id) = {} THEN UNCHANGED S!vars ELSE S!OnAck(id)

\* An ack that is looked into is of the first entry that waits for it, and
\* routing reports that entry's id.
LEMMA AckEffect ==
    ASSUME NetOK, NEW f, P!HandleAck(server, f), P!Awaiting(server, f.payload) # {},
           NEW acked, acked = {pending[server][i].id : i \in P!Awaiting(server, f.payload)}
    PROVE  acked # {}
           /\ \E i \in 1..Len(pending[server]) :
                 /\ Min(acked) = pending[server][i].id
                 /\ P!Thinned(pending'[server], pending[server], (1..Len(pending[server])) \ {i})
                 /\ sends' = P!Fated(sends, server, {pending[server][i].id}, "acked")
                 /\ \A k \in Nodes : k # server => pending'[k] = pending[k]
<1> DEFINE A == P!Awaiting(server, f.payload)
           i == P!Min(A)
<1>1. server \in Nodes
  BY DEF Nodes
<1>2. A # {} /\ \A j \in A : j \in 1..Len(pending[server])
  BY DEF P!Awaiting
<1>3. /\ i \in A /\ \A j \in A : i <= j
      /\ i \in 1..Len(pending[server])
      /\ P!Thinned(pending'[server], pending[server], (1..Len(pending[server])) \ {i})
      /\ sends' = P!Fated(sends, server, {pending[server][i].id}, "acked")
      /\ \A k \in Nodes : k # server => pending'[k] = pending[k]
  <2>1. i \in A /\ \A j \in A : i <= j
    <3>1. A \subseteq Nat
      BY <1>2
    <3> HIDE DEF A
    <3> QED BY <1>2, <3>1, MinFacts, SameMin
  <2>2. /\ P!Inv /\ P!HandleAck(server, f)
        /\ P!Awaiting(server, f.payload) # {} /\ i = P!Min(P!Awaiting(server, f.payload))
    BY DEF NetOK
  <2> HIDE DEF i
  <2>3. P!Thinned(pending'[server], pending[server], (1..Len(pending[server])) \ {i})
    BY <1>1, <2>2, P!HandleAckThins, NetAssumed DEF P!RouterAssumption
  <2>4. sends' = P!Fated(sends, server, {pending[server][i].id}, "acked")
    BY <1>1, <2>2, P!HandleAckThins, NetAssumed DEF P!RouterAssumption
  <2>5. \A k \in Nodes : k # server => pending'[k] = pending[k]
    BY <1>1, <2>2, P!HandleAckThins, NetAssumed DEF P!RouterAssumption
  <2> QED BY <1>2, <2>1, <2>3, <2>4, <2>5
<1> HIDE DEF A, i
<1>4. Len(pending[server]) \in Nat /\ \A j \in 1..Len(pending[server]) : pending[server][j].id \in Nat
  <2>1. P!EntriesOK(server, pending[server], nextId[server]) /\ nextId[server] \in Nat
    BY <1>1 DEF NetOK, P!Inv, P!IndexedOK
  <2>2. P!IsList(pending[server]) /\ \A j \in 1..Len(pending[server]) : pending[server][j].id \in Nat
    BY <2>1 DEF P!EntriesOK
  <2> QED BY <2>2, P!ListFacts
<1>5. \A j \in A : pending[server][i].id <= pending[server][j].id
  <2>1. \A a, b \in 1..Len(pending[server]) : a < b => pending[server][a].id < pending[server][b].id
    BY <1>1 DEF NetOK, P!Listed, P!ListOK
  <2> QED BY <1>3, <1>2, <1>4, <2>1
<1>6. acked # {} /\ acked \subseteq Nat /\ pending[server][i].id \in acked
      /\ \A x \in acked : pending[server][i].id <= x
  BY <1>3, <1>2, <1>4, <1>5 DEF A
<1>7. Min(acked) \in acked /\ \A x \in acked : Min(acked) <= x
  BY <1>6, MinFacts
<1>8. Min(acked) = pending[server][i].id
  <2> DEFINE x == pending[server][i].id
             y == Min(acked)
  <2>1. x \in Nat /\ y \in Nat /\ x <= y /\ y <= x
    BY <1>6, <1>7
  <2> HIDE DEF x, y
  <2>2. y = x
    BY <2>1
  <2> QED BY <2>2 DEF x, y
<1> QED
  BY <1>3, <1>6, <1>8

\* A frame the server receives is a text that becomes a post, an ack, or nothing
\* to the room.
LEMMA ReceiveEffect ==
    ASSUME NetOK, NEW m \in air, m.to = server, Receive(m.frame)
    PROVE  /\ Listening /\ P!OnFrame(server, m.frame, 0)
           /\ UNCHANGED <<now, nextId, time, reports, drafts>> /\ HeardSame
           /\ \/ UNCHANGED S!vars /\ UNCHANGED <<pending, sends>>
              \/ /\ UNCHANGED <<pending, sends>>
                 /\ \E k, text : S!HandleText(k, 0) /\ P!Sent(sends, k, server, text)
              \/ \E i \in 1..Len(pending[server]) : AckOf(i)
<1> DEFINE f == m.frame
           acked == IF f.type = "ACK" /\ Fresh(f)
                    THEN {pending[server][i].id : i \in Net!Awaiting(server, f.payload)}
                    ELSE {}
           rows == IF acked = {} THEN {} ELSE Board!WaitingFor(Min(acked))
           fresh == ~P!AlreadySeen(server, f) /\ ~P!Echo(server, f)
<1>1. /\ Listening /\ Net!OnFrame(server, f, 0)
      /\ IF NewText(f) THEN Board!HandleText(f.payload.from, 0)
         ELSE IF rows = {} THEN UNCHANGED <<boardVars, roomNow>> ELSE Board!OnAck(Min(acked))
      /\ UNCHANGED <<time, reports, drafts, faults>>
  BY DEF Receive
<1>2. P!OnFrame(server, f, 0)
  BY <1>1, SameOnFrame
<1>3. (Fresh(f) <=> fresh) /\ (NewText(f) <=> f.type = "TXT_MSG" /\ P!ForUs(server, f) /\ fresh)
  BY SameSeen, SameNet DEF Fresh, NewText
<1>4. UNCHANGED <<boardVars, roomNow>> => UNCHANGED S!vars
  BY DEF boardVars, S!vars
<1>5. UNCHANGED <<now, nextId>>
      /\ \/ /\ fresh /\ f.type = "ACK" /\ P!HandleAck(server, f) /\ heard' = heard
         \/ /\ ~(fresh /\ f.type = "ACK") /\ UNCHANGED <<pending, sends>>
            /\ \/ heard' = heard /\ ~(f.type = "TXT_MSG" /\ P!ForUs(server, f) /\ fresh)
               \/ /\ f.type = "TXT_MSG" /\ P!ForUs(server, f) /\ fresh
                  /\ heard' = heard \cup {<<server, f.payload.from, f.payload.plain>>}
                  /\ P!Sent(sends, f.payload.from, server, f.payload.plain)
  BY <1>2, OnFrameEffect
<1>6. HeardSame
  BY <1>5, MeshAssumption DEF MeshAssumption, HeardSame
<1> HIDE DEF acked, rows, fresh
<1>7. CASE fresh /\ f.type = "ACK"
  <2>1. P!HandleAck(server, f) /\ ~NewText(f)
    BY <1>3, <1>5, <1>7
  <2>2. acked = {pending[server][i].id : i \in P!Awaiting(server, f.payload)}
    BY <1>3, <1>7, SameNet DEF acked
  <2>3. CASE P!Awaiting(server, f.payload) = {}
    <3>1. UNCHANGED <<pending, sends>>
      BY <2>1, <2>3 DEF P!HandleAck
    <3>2. UNCHANGED S!vars
      BY <1>1, <1>4, <2>1, <2>2, <2>3 DEF rows
    <3> QED BY <1>1, <1>2, <1>5, <1>6, <3>1, <3>2
  <2>4. CASE P!Awaiting(server, f.payload) # {}
    <3>1. acked # {}
          /\ \E i \in 1..Len(pending[server]) :
                 /\ Min(acked) = pending[server][i].id
                 /\ P!Thinned(pending'[server], pending[server], (1..Len(pending[server])) \ {i})
                 /\ sends' = P!Fated(sends, server, {pending[server][i].id}, "acked")
                 /\ \A k \in Nodes : k # server => pending'[k] = pending[k]
      BY <2>1, <2>2, <2>4, AckEffect
    <3>2. IF S!WaitingFor(Min(acked)) = {} THEN UNCHANGED S!vars ELSE S!OnAck(Min(acked))
      BY <1>1, <1>4, <2>1, <3>1, SameBoard, SameFate DEF rows
    <3>3. \E i \in 1..Len(pending[server]) : AckOf(i)
      BY <3>1, <3>2 DEF AckOf
    <3> QED BY <1>1, <1>2, <1>5, <1>6, <3>3
  <2> QED BY <2>3, <2>4
<1>8. CASE ~(fresh /\ f.type = "ACK") /\ NewText(f)
  <2>1. S!HandleText(f.payload.from, 0)
    BY <1>1, <1>8, SameHandleText
  <2>2. UNCHANGED <<pending, sends>> /\ P!Sent(sends, f.payload.from, server, f.payload.plain)
    BY <1>3, <1>5, <1>8
  <2> QED BY <1>1, <1>2, <1>5, <1>6, <2>1, <2>2
<1>9. CASE ~(fresh /\ f.type = "ACK") /\ ~NewText(f)
  <2>1. acked = {}
    BY <1>3, <1>9 DEF acked
  <2>2. UNCHANGED S!vars
    BY <1>1, <1>4, <1>9, <2>1 DEF rows
  <2>3. UNCHANGED <<pending, sends>>
    BY <1>5, <1>9
  <2> QED BY <1>1, <1>2, <1>5, <1>6, <2>2, <2>3
<1> QED
  BY <1>7, <1>8, <1>9

\* Client k has got x from the server, too.
HeardMore(k, x) ==
    \A q \in Keys : \A y :
        <<q, server, y>> \in heard' <=> <<q, server, y>> \in heard \/ (q = k /\ y = x)

\* Only k's table has changed, and not for the longer, and only k's sends.
OnlyOf(k, fate) ==
    /\ \A j \in Nodes : j # k => pending'[j] = pending[j]
    /\ Len(pending'[k]) <= Len(pending[k])
    /\ sends' = sends \/ \E ids : sends' = P!Fated(sends, k, ids, fate)

\* What an ack does at any node.
LEMMA HandleAckOnly ==
    ASSUME NetOK, NEW k \in Nodes, NEW f, P!HandleAck(k, f)
    PROVE  OnlyOf(k, "acked")
<1>1. CASE P!Awaiting(k, f.payload) = {}
  <2>1. UNCHANGED <<pending, sends>>
    BY <1>1 DEF P!HandleAck
  <2>2. Len(pending[k]) \in Nat
    <3>1. P!IsList(pending[k])
      BY DEF NetOK, P!Inv, P!EntriesOK
    <3> QED BY <3>1, P!ListFacts
  <2> QED BY <2>1, <2>2 DEF OnlyOf
<1>2. CASE P!Awaiting(k, f.payload) # {}
  <2>1. PICK i : i = P!Min(P!Awaiting(k, f.payload))
    OBVIOUS
  <2>2. P!Inv
    BY DEF NetOK
  <2>3. Len(pending'[k]) <= Len(pending[k])
    BY <1>2, <2>1, <2>2, P!HandleAckThins, NetAssumed DEF P!RouterAssumption
  <2>4. sends' = P!Fated(sends, k, {pending[k][i].id}, "acked")
    BY <1>2, <2>1, <2>2, P!HandleAckThins, NetAssumed DEF P!RouterAssumption
  <2>5. \A j \in Nodes : j # k => pending'[j] = pending[j]
    BY <1>2, <2>1, <2>2, P!HandleAckThins, NetAssumed DEF P!RouterAssumption
  <2> QED BY <2>3, <2>4, <2>5 DEF OnlyOf
<1> QED
  BY <1>1, <1>2

\* What a frame does at a reader's device is nothing to the room, but that the
\* reader may get a post that was sent to it.
LEMMA ClientEffect ==
    ASSUME NetOK, NEW m \in air, m.to # server, ClientReceive(m.to, m.frame)
    PROVE  /\ m.to \in Keys /\ P!OnFrame(m.to, m.frame, 0) /\ OnlyOf(m.to, "acked")
           /\ UNCHANGED S!vars /\ UNCHANGED <<now, nextId, time, reports, drafts>>
           /\ HeardSame \/ \E x : P!Sent(sends, server, m.to, x) /\ HeardMore(m.to, x)
<1> DEFINE k == m.to
           f == m.frame
           fresh == ~P!AlreadySeen(k, f) /\ ~P!Echo(k, f)
<1>1. Net!OnFrame(k, f, 0) /\ UNCHANGED <<boardVars, roomNow, time, reports, drafts>>
  BY DEF ClientReceive
<1>2. P!OnFrame(k, f, 0) /\ UNCHANGED S!vars
  BY <1>1, SameOnFrame DEF boardVars, S!vars
<1>3. /\ UNCHANGED <<now, nextId>> /\ k \in Nodes
      /\ \/ /\ fresh /\ f.type = "ACK" /\ P!HandleAck(k, f) /\ heard' = heard
         \/ /\ ~(fresh /\ f.type = "ACK") /\ UNCHANGED <<pending, sends>>
            /\ \/ heard' = heard /\ ~(f.type = "TXT_MSG" /\ P!ForUs(k, f) /\ fresh)
               \/ /\ f.type = "TXT_MSG" /\ P!ForUs(k, f) /\ fresh
                  /\ heard' = heard \cup {<<k, f.payload.from, f.payload.plain>>}
                  /\ P!Sent(sends, f.payload.from, k, f.payload.plain)
  BY <1>2, OnFrameEffect
<1>4. k \in Keys
  BY <1>3 DEF Nodes
<1>5. OnlyOf(k, "acked")
  <2>1. CASE P!HandleAck(k, f)
    BY <1>3, <2>1, HandleAckOnly
  <2>2. CASE UNCHANGED <<pending, sends>>
    <3>1. P!IsList(pending[k])
      BY <1>3 DEF NetOK, P!Inv, P!EntriesOK
    <3>2. Len(pending[k]) \in Nat
      BY <3>1, P!ListFacts
    <3> QED BY <2>2, <3>2 DEF OnlyOf
  <2> QED BY <1>3, <2>1, <2>2
<1>6. HeardSame \/ \E x : P!Sent(sends, server, k, x) /\ HeardMore(k, x)
  <2>1. CASE heard' = heard
    BY <2>1 DEF HeardSame
  <2>2. CASE /\ heard' = heard \cup {<<k, f.payload.from, f.payload.plain>>}
             /\ P!Sent(sends, f.payload.from, k, f.payload.plain)
    <3> DEFINE from == f.payload.from
               plain == f.payload.plain
    <3>1. CASE from = server
      <4>1. HeardMore(k, plain) /\ P!Sent(sends, server, k, plain)
        BY <2>2, <3>1 DEF HeardMore
      <4> QED BY <4>1
    <3>2. CASE from # server
      BY <2>2, <3>2 DEF HeardSame
    <3> QED BY <3>1, <3>2
  <2> QED BY <1>3, <2>1, <2>2
<1> QED
  BY <1>1, <1>2, <1>3, <1>4, <1>5, <1>6

\* What router.tick does on the server is nothing to the room until it is
\* reported.
LEMMA RouterTickEffect ==
    ASSUME RouterTick
    PROVE  /\ Listening /\ P!Tick(server, time)
           /\ reports' = [i \in 1..Len(Keep(pending[server], P!Failing(server, time))) |->
                             Keep(pending[server], P!Failing(server, time))[i].id]
           /\ now' = [now EXCEPT ![server] = time]
           /\ UNCHANGED S!vars /\ UNCHANGED <<nextId, heard, time, drafts>>
<1>1. Net!Tick(server, time) /\ P!Tick(server, time)
  BY SameTick DEF RouterTick
<1>2. now' = [now EXCEPT ![server] = time] /\ UNCHANGED <<nextId, heard>>
  BY <1>1 DEF P!Tick
<1>3. UNCHANGED <<boardVars, roomNow, time, drafts>>
  BY DEF RouterTick
<1>4. reports' = [i \in 1..Len(Keep(pending[server], P!Failing(server, time))) |->
                     Keep(pending[server], P!Failing(server, time))[i].id]
  BY SameNet, Zenon DEF RouterTick
<1> QED
  BY <1>1, <1>2, <1>3, <1>4 DEF RouterTick, boardVars, S!vars

\* What room.tick does, with the post it sends if there is one.
LEMMA RoomTickEffect ==
    ASSUME RoomTick
    PROVE  /\ reports = <<>> /\ S!Tick(now[server], nextId[server])
           /\ \/ S!PushSteps(now[server]) = {} /\ UNCHANGED <<netVars, now>>
              \/ /\ S!PushSteps(now[server]) # {}
                 /\ P!SendDirect(server, clients[S!PushRow(now[server])].pk,
                                 S!PushPost(now[server]).seq)
           /\ UNCHANGED <<time, reports, drafts>>
<1> DEFINE t == now[server]
<1>1. /\ reports = <<>> /\ Board!Tick(t, nextId[server])
      /\ IF Board!PushSteps(t) = {} THEN UNCHANGED <<netVars, now>>
         ELSE Net!SendDirect(server, clients[Board!PushRow(t)].pk, Board!PushPost(t).seq)
      /\ UNCHANGED <<time, reports, drafts>>
  BY DEF RoomTick
<1> HIDE DEF t
<1>2. S!Tick(t, nextId[server])
  BY <1>1, SameRoomTick
<1>3. \/ S!PushSteps(t) = {} /\ UNCHANGED <<netVars, now>>
      \/ /\ S!PushSteps(t) # {}
         /\ P!SendDirect(server, clients[S!PushRow(t)].pk, S!PushPost(t).seq)
  BY <1>1, SameBoard, SameSendDirect
<1> QED
  BY <1>1, <1>2, <1>3 DEF t

\* What is reported to the room, one failure at a time.
LEMMA ReportEffect ==
    ASSUME Report
    PROVE  /\ reports # <<>> /\ reports' = Tail(reports)
           /\ IF S!WaitingFor(Head(reports)) = {} THEN UNCHANGED S!vars
              ELSE S!OnDeliveryFailed(Head(reports))
           /\ UNCHANGED <<netVars, now, time, drafts>>
<1>1. UNCHANGED <<boardVars, roomNow>> => UNCHANGED S!vars
  BY DEF boardVars, S!vars
<1> QED
  BY <1>1, SameBoard, SameFate DEF Report

\* A text a reader sends.
LEMMA WriteEffect ==
    ASSUME NEW k \in Keys, NEW text, Write(k, text)
    PROVE  /\ <<k, text>> \in drafts /\ drafts' = drafts \ {<<k, text>>}
           /\ P!SendDirect(k, server, text)
           /\ UNCHANGED S!vars /\ UNCHANGED <<time, reports>>
BY SameSendDirect DEF Write, boardVars, S!vars

LEMMA ClientTickEffect ==
    ASSUME NEW k \in Keys, ClientTick(k)
    PROVE  /\ P!Tick(k, time) /\ now' = [now EXCEPT ![k] = time]
           /\ UNCHANGED S!vars /\ UNCHANGED <<nextId, heard, time, reports, drafts>>
<1>1. P!Tick(k, time) /\ UNCHANGED <<boardVars, roomNow, time, reports, drafts>>
  BY SameTick DEF ClientTick
<1> QED
  BY <1>1 DEF P!Tick, boardVars, S!vars

-----------------------------------------------------------------------------
(* Routing's part of the invariant.                                        *)

\* The client and the post of a push.
LEMMA PushTarget ==
    ASSUME RoomOK, NEW t \in Nat, S!PushSteps(t) # {}
    PROVE  /\ S!PushRow(t) \in 1..Len(clients)
           /\ clients[S!PushRow(t)].pk \in Keys
           /\ S!PushPost(t).seq \in 1..nextSeq - 1
<1>1. S!IInv /\ S!BoardOK /\ S!ClientsOK
  BY DEF RoomOK, S!IInv
<1>2. S!PushRow(t) \in 1..Len(clients) /\ S!PushPost(t).seq \in 1..nextSeq - 1
  BY <1>1, S!PushFacts, RoomAssumed DEF S!RoomAssumption
<1>3. \A i \in 1..Len(clients) : clients[i].pk \in Keys
  BY <1>1, S!RowBounds, RoomAssumed DEF S!RoomAssumption
<1> QED
  BY <1>2, <1>3

LEMMA FrameNet ==
    ASSUME NetOK, NEW m \in air, P!OnFrame(m.to, m.frame, 0)
    PROVE  NetOK'
<1>1. P!Inv /\ P!Receipts /\ P!Listed /\ 0 \in {0}
  BY DEF NetOK
<1>2. P!Inv'
  BY <1>1, P!OnFrameKeeps, NetAssumed DEF P!RouterAssumption
<1>3. P!Receipts'
  BY <1>1, P!OnFrameReceipts, NetAssumed DEF P!RouterAssumption
<1>4. P!Listed'
  BY <1>1, <1>2, P!OnFrameListed, NetAssumed DEF P!RouterAssumption
<1> QED
  BY <1>2, <1>3, <1>4 DEF NetOK

LEMMA TickNet ==
    ASSUME NetOK, NEW n \in Nodes, time \in 0..MaxTime, P!Tick(n, time)
    PROVE  NetOK'
<1>1. P!Inv /\ P!Receipts /\ P!Listed
  BY DEF NetOK
<1>2. P!Inv'
  BY <1>1, P!TickKeeps, NetAssumed DEF P!RouterAssumption
<1>3. P!Receipts'
  BY <1>1, P!TickReceipts, NetAssumed DEF P!RouterAssumption
<1>4. P!Listed'
  BY <1>1, <1>2, P!TickListed, NetAssumed DEF P!RouterAssumption
<1> QED
  BY <1>2, <1>3, <1>4 DEF NetOK

LEMMA SendNet ==
    ASSUME NetOK, NEW n \in Nodes, NEW to \in Nodes, NEW text, P!SendDirect(n, to, text)
    PROVE  NetOK'
<1>1. P!Inv /\ P!Receipts /\ P!Listed /\ P!SentOK
  BY DEF NetOK, P!Receipts
<1>2. P!Inv'
  BY <1>1, P!SendDirectKeeps, NetAssumed DEF P!RouterAssumption
<1>3. P!Receipts'
  BY <1>1, P!SendDirectReceipts, NetAssumed DEF P!RouterAssumption
<1>4. P!Listed'
  BY <1>1, P!SendDirectListed, NetAssumed DEF P!RouterAssumption
<1> QED
  BY <1>2, <1>3, <1>4 DEF NetOK

\* Frames may go missing.
LEMMA LossNet ==
    ASSUME NetOK, air' \subseteq air, UNCHANGED <<nextId, seen, seenNext, queue, pending, routes,
                                                  sends, heard, now>>
    PROVE  NetOK'
<1>1. P!Inv'
  <2>1. P!IndexedOK' /\ P!SeenOK' /\ P!SendsOK'
    BY DEF NetOK, P!Inv, P!IndexedOK, P!SeenOK, P!SendsOK
  <2>2. \A n \in Nodes : \A d \in queue'[n] : d.notBefore \in Nat /\ P!LeavesFrom(n, d.frame)
    BY DEF NetOK, P!Inv
  <2>3. \A n \in Nodes : P!EntriesOK(n, pending'[n], nextId'[n])
    BY DEF NetOK, P!Inv
  <2>4. \A m \in air' : m.to \in Nodes /\ P!ComesTo(m.to, m.frame)
    BY DEF NetOK, P!Inv
  <2> QED BY <2>1, <2>2, <2>3, <2>4 DEF P!Inv
<1>2. P!Receipts'
  <2>1. P!SentOK' /\ P!AckedIsHeard'
    BY DEF NetOK, P!Receipts, P!SentOK, P!AckedIsHeard
  <2>2. P!AllGenuine'
    BY DEF NetOK, P!Receipts, P!AllGenuine
  <2>3. \A n \in Nodes : P!ExpectsOK(n, pending'[n], sends', heard')
    BY DEF NetOK, P!Receipts
  <2> QED BY <2>1, <2>2, <2>3 DEF P!Receipts
<1>3. P!Listed'
  BY DEF NetOK, P!Listed
<1> QED
  BY <1>1, <1>2, <1>3 DEF NetOK

\* Every step keeps routing's tables as routing's own proofs have them.
LEMMA NetStep ==
    ASSUME NetOK, RoomOK, Clocks, [Next]_vars
    PROVE  NetOK'
<1>0. server \in Nodes /\ Keys \subseteq Nodes
  BY DEF Nodes
<1>1. ASSUME NEW m \in air, m.to = server, Receive(m.frame) PROVE NetOK'
  BY <1>1, ReceiveEffect, FrameNet
<1>2. ASSUME NEW m \in air, m.to # server, ClientReceive(m.to, m.frame) PROVE NetOK'
  BY <1>2, ClientEffect, FrameNet
<1>3. ASSUME RouterTick PROVE NetOK'
  BY <1>0, <1>3, RouterTickEffect, TickNet DEF Clocks
<1>4. ASSUME Report PROVE NetOK'
  BY <1>4, ReportEffect, LossNet DEF netVars
<1>5. ASSUME RoomTick PROVE NetOK'
  <2>1. CASE UNCHANGED <<netVars, now>>
    BY <2>1, LossNet DEF netVars
  <2>2. CASE S!PushSteps(now[server]) # {} /\
             P!SendDirect(server, clients[S!PushRow(now[server])].pk, S!PushPost(now[server]).seq)
    <3>1. now[server] \in Nat
      BY <1>0 DEF Clocks
    <3>2. clients[S!PushRow(now[server])].pk \in Nodes
      BY <1>0, <2>2, <3>1, PushTarget
    <3> QED BY <1>0, <2>2, <3>2, SendNet
  <2> QED BY <1>5, <2>1, <2>2, RoomTickEffect
<1>6. ASSUME NEW k \in Keys, NEW text, Write(k, text) PROVE NetOK'
  BY <1>0, <1>6, WriteEffect, SendNet
<1>7. ASSUME NEW k \in Keys, ClientTick(k) PROVE NetOK'
  BY <1>0, <1>7, ClientTickEffect, TickNet DEF Clocks
<1>8. ASSUME Pass PROVE NetOK'
  BY <1>8, LossNet DEF Pass, netVars
<1>9. ASSUME NEW m \in air, Lose(m) PROVE NetOK'
  BY <1>9, LossNet DEF Lose
<1>10. ASSUME UNCHANGED vars PROVE NetOK'
  BY <1>10, LossNet DEF vars, netVars
<1> QED
  BY <1>1, <1>2, <1>3, <1>4, <1>5, <1>6, <1>7, <1>8, <1>9, <1>10 DEF Next

-----------------------------------------------------------------------------
(* The room's part of the invariant.                                       *)

\* Numbers of sends are numbers the room knows as ids.
LEMMA IdsGiven ==
    ASSUME NetOK, Wired
    PROVE  /\ server \in Nodes /\ nextId[server] \in Ids
           /\ \A i \in 1..Len(pending[server]) : pending[server][i].id \in 1..nextId[server] - 1
           /\ \A s \in sends : s.from = server => s.id \in 1..nextId[server] - 1
           /\ 1..nextId[server] - 1 \subseteq Ids
<1>1. server \in Nodes
  BY DEF Nodes
<1>2. nextId[server] \in Nat \ {0} /\ nextId[server] <= MaxSends + 1 /\ MaxSends \in Nat
  BY <1>1, MeshAssumption DEF MeshAssumption, NetOK, P!Inv, P!IndexedOK, Wired, PushesOK
<1>3. \A i \in 1..Len(pending[server]) : pending[server][i].id \in 1..nextId[server] - 1
  <2>1. P!EntriesOK(server, pending[server], nextId[server])
    BY <1>1 DEF NetOK, P!Inv
  <2> QED BY <2>1 DEF P!EntriesOK
<1>4. ASSUME NEW s \in sends, s.from = server PROVE s.id \in 1..nextId[server] - 1
  <2>1. s.id \in Nat /\ s.id < nextId[server] /\ s.id >= 1
    BY <1>4 DEF NetOK, P!Receipts, P!SentOK, Wired, PushesOK
  <2> QED BY <1>2, <2>1
<1> QED
  BY <1>1, <1>2, <1>3, <1>4 DEF Ids

\* What every step is to the room.
BoardStep ==
    \/ UNCHANGED S!vars
    \/ \E k \in Keys : S!HandleText(k, 0)
    \/ \E t \in 0..MaxTime : S!Tick(t, nextId[server])
    \/ \E id \in Ids : S!OnAck(id) \/ S!OnDeliveryFailed(id)

LEMMA NextIsBoardStep ==
    ASSUME NetOK, RoomOK, Wired, [Next]_vars
    PROVE  BoardStep
<1>1. ASSUME NEW m \in air, m.to = server, Receive(m.frame) PROVE BoardStep
  <2>1. CASE UNCHANGED S!vars
    BY <2>1 DEF BoardStep
  <2>2. ASSUME NEW k, S!HandleText(k, 0) PROVE BoardStep
    <3>1. PICK i \in 1..Len(clients) : clients[i].pk = k
      BY <2>2 DEF S!HandleText, S!RowsOf
    <3>2. k \in Keys
      BY <3>1, S!RowBounds, RoomAssumed DEF S!RoomAssumption, RoomOK
    <3> QED BY <2>2, <3>2 DEF BoardStep
  <2>3. ASSUME NEW i \in 1..Len(pending[server]), AckOf(i) PROVE BoardStep
    BY <2>3, IdsGiven DEF AckOf, BoardStep
  <2> QED BY <1>1, <2>1, <2>2, <2>3, ReceiveEffect
<1>2. ASSUME NEW m \in air, m.to # server, ClientReceive(m.to, m.frame) PROVE BoardStep
  BY <1>2, ClientEffect DEF BoardStep
<1>3. ASSUME RouterTick PROVE BoardStep
  BY <1>3, RouterTickEffect DEF BoardStep
<1>4. ASSUME Report PROVE BoardStep
  <2>1. FailedSend(Head(reports), sends)
    <3>1. reports # <<>> /\ ReportsOK(reports, sends)
      BY <1>4, ReportEffect DEF Wired
    <3>2. Len(reports) \in Nat /\ Len(reports) # 0
      BY <3>1, ListFacts DEF ReportsOK
    <3>3. FailedSend(reports[1], sends)
      BY <3>1, <3>2 DEF ReportsOK
    <3>4. Head(reports) = reports[1]
      BY <3>1 DEF ReportsOK, IsList
    <3> QED BY <3>3, <3>4
  <2>2. Head(reports) \in Ids
    BY <2>1, IdsGiven DEF FailedSend
  <2> QED BY <1>4, <2>2, ReportEffect DEF BoardStep
<1>5. ASSUME RoomTick PROVE BoardStep
  <2>1. now[server] \in 0..MaxTime
    BY IdsGiven, MeshAssumption DEF MeshAssumption, Wired, Clocks
  <2> QED BY <1>5, <2>1, RoomTickEffect DEF BoardStep
<1>6. ASSUME NEW k \in Keys, NEW text, Write(k, text) PROVE BoardStep
  BY <1>6, WriteEffect DEF BoardStep
<1>7. ASSUME NEW k \in Keys, ClientTick(k) PROVE BoardStep
  BY <1>7, ClientTickEffect DEF BoardStep
<1>8. ASSUME Pass \/ (\E m \in air : Lose(m)) \/ UNCHANGED vars PROVE BoardStep
  BY <1>8 DEF Pass, Lose, vars, boardVars, BoardStep, S!vars
<1> QED
  BY <1>1, <1>2, <1>3, <1>4, <1>5, <1>6, <1>7, <1>8 DEF Next

\* So every step keeps the room's tables as the room's own proofs have them.
LEMMA RoomStep ==
    ASSUME NetOK, RoomOK, Wired, BoardStep
    PROVE  RoomOK'
<1>1. [S!Next]_(S!vars)
  <2>1. nextId[server] \in Ids
    BY IdsGiven
  <2>2. \A k \in Keys : S!HandleText(k, 0) => S!Request
    BY DEF S!Request
  <2> QED BY <2>1, <2>2 DEF BoardStep, S!Next
<1>2. S!IInv'
  BY <1>1, S!NextIInv, RoomAssumed DEF S!RoomAssumption, RoomOK
<1>3. S!TablesConsistent'
  BY <1>1, <1>2, S!NextTables, RoomAssumed DEF S!RoomAssumption, RoomOK
<1>4. nextSeq' <= MaxSeq
  <2>1. nextSeq \in Nat /\ nextSeq <= MaxSeq /\ MaxSeq \in Nat
    BY MeshAssumption DEF MeshAssumption, RoomOK, S!IInv, S!BoardOK
  <2>2. ASSUME NEW k, S!HandleText(k, 0) PROVE nextSeq' <= MaxSeq
    <3>1. nextSeq < MaxSeq /\ nextSeq' = nextSeq + 1
      BY <2>2 DEF S!HandleText, S!AddPost
    <3> QED BY <2>1, <3>1
  <2>3. ASSUME nextSeq' = nextSeq PROVE nextSeq' <= MaxSeq
    BY <2>1, <2>3
  <2> QED BY <2>2, <2>3 DEF BoardStep, S!vars, S!Tick, S!OnAck, S!OnDeliveryFailed
<1> QED
  BY <1>2, <1>3, <1>4 DEF RoomOK

-----------------------------------------------------------------------------
(* How the two are wired together.                                         *)

\* The row that waited for this id waits no longer; the others are as before.
RowFreed(id) ==
    \E i \in 1..Len(clients) :
        /\ clients[i].pending /\ clients[i].pendingId = id
        /\ Len(clients') = Len(clients) /\ ~clients'[i].pending
        /\ \A j \in 1..Len(clients) : clients'[j].pk = clients[j].pk
        /\ \A j \in 1..Len(clients) : j # i => clients'[j] = clients[j]

\* Row i, which did not wait, waits for this id; the others are as before.
RowTaken(i, id) ==
    /\ i \in 1..Len(clients) /\ ~clients[i].pending
    /\ Len(clients') = Len(clients) /\ clients'[i].pending /\ clients'[i].pendingId = id
    /\ \A j \in 1..Len(clients) : clients'[j].pk = clients[j].pk
    /\ \A j \in 1..Len(clients) : j # i => clients'[j] = clients[j]

LEMMA FateRows ==
    ASSUME RoomOK, NEW id, S!OnAck(id) \/ S!OnDeliveryFailed(id)
    PROVE  RowFreed(id) /\ UNCHANGED <<posts, nextSeq, roomNow>>
<1> DEFINE i == S!Min(S!WaitingFor(id))
<1>1. Len(clients) \in Nat /\ clients \in Seq(S!Behind(nextSeq))
  BY DEF RoomOK, S!IInv, S!ClientsOK
<1>2. i \in S!WaitingFor(id)
  <2>1. S!WaitingFor(id) # {} /\ S!WaitingFor(id) \subseteq Nat
    <3>1. S!WaitingFor(id) # {}
      BY DEF S!OnAck, S!OnDeliveryFailed
    <3>2. S!WaitingFor(id) \subseteq Nat
      BY <1>1 DEF S!WaitingFor
    <3> QED BY <3>1, <3>2
  <2>2. i = Min(S!WaitingFor(id))
    BY DEF S!Min, Min
  <2> HIDE DEF i
  <2> QED BY <2>1, <2>2, MinFacts
<1>3. i \in 1..Len(clients) /\ clients[i].pending /\ clients[i].pendingId = id
  BY <1>2 DEF S!WaitingFor
<1>4. clients[i] \in S!Behind(nextSeq) /\ DOMAIN clients = 1..Len(clients)
  BY <1>1, <1>3
<1>5. PICK d : /\ clients' = [clients EXCEPT ![i] = d] /\ ~d.pending /\ d.pk = clients[i].pk
  <2> DEFINE c == clients[i]
             a == [c EXCEPT !.syncSeq = c.pendingSeq, !.pending = FALSE, !.retryAfter = 0]
             b == [c EXCEPT !.pending = FALSE, !.retryAfter = roomNow + RetryDelay]
  <2>1. ~a.pending /\ a.pk = c.pk /\ ~b.pending /\ b.pk = c.pk
    BY <1>4 DEF S!Behind, S!Client
  <2>2. S!OnAck(id) => clients' = [clients EXCEPT ![i] = a]
    BY <1>4, <1>3 DEF S!OnAck
  <2>3. S!OnDeliveryFailed(id) => clients' = [clients EXCEPT ![i] = b]
    BY <1>4, <1>3 DEF S!OnDeliveryFailed
  <2> QED BY <2>1, <2>2, <2>3
<1>6. UNCHANGED <<posts, nextSeq, roomNow>>
  BY DEF S!OnAck, S!OnDeliveryFailed
<1> HIDE DEF i
<1>7. Len(clients') = Len(clients)
  BY <1>1, <1>5
<1> QED
  BY <1>3, <1>4, <1>5, <1>6, <1>7 DEF RowFreed

LEMMA PushRows ==
    ASSUME RoomOK, NEW t \in Nat, NEW id, S!Tick(t, id), S!PushSteps(t) # {}
    PROVE  RowTaken(S!PushRow(t), id) /\ UNCHANGED <<posts, nextSeq>>
<1> DEFINE i == S!PushRow(t)
<1>1. Len(clients) \in Nat /\ clients \in Seq(S!Behind(nextSeq))
  BY DEF RoomOK, S!IInv, S!ClientsOK
<1>2. i \in 1..Len(clients)
  BY PushTarget
<1>3. clients[i] \in S!Behind(nextSeq) /\ DOMAIN clients = 1..Len(clients)
  BY <1>1, <1>2
<1>4. ~clients[i].pending
  <2>1. S!PushSteps(t) \subseteq Nat
    BY <1>1 DEF S!PushSteps
  <2>2. S!Min(S!PushSteps(t)) \in S!PushSteps(t)
    <3>1. S!Min(S!PushSteps(t)) = Min(S!PushSteps(t))
      BY DEF S!Min, Min
    <3> QED BY <2>1, <3>1, MinFacts
  <2> QED BY <2>2 DEF S!PushSteps, S!PushRow
<1>5. PICK d : clients' = [clients EXCEPT ![i] = d] /\ d.pending /\ d.pendingId = id
               /\ d.pk = clients[i].pk
  <2> DEFINE c == clients[i]
             a == [c EXCEPT !.pending = TRUE, !.pendingId = id, !.pendingSeq = S!PushPost(t).seq]
  <2>1. a.pending /\ a.pendingId = id /\ a.pk = c.pk
    BY <1>3 DEF S!Behind, S!Client
  <2>2. clients' = [clients EXCEPT ![i] = a]
    BY <1>2, <1>3 DEF S!Tick
  <2> QED BY <2>1, <2>2
<1>6. UNCHANGED <<posts, nextSeq>>
  BY DEF S!Tick
<1> HIDE DEF i
<1>7. Len(clients') = Len(clients)
  BY <1>1, <1>5
<1> QED
  BY <1>2, <1>3, <1>4, <1>5, <1>6, <1>7 DEF RowTaken, i

\* Each of new was there, and only its fate is another.
Recast(new, old) ==
    \A s \in new : \E x \in old :
        s.from = x.from /\ s.id = x.id /\ s.to = x.to /\ s.text = x.text

LEMMA FatedRecast ==
    ASSUME NetOK, NEW n, NEW ids, NEW fate
    PROVE  /\ Recast(P!Fated(sends, n, ids, fate), sends)
           /\ n # server => \A s : s.from = server =>
                 (s \in P!Fated(sends, n, ids, fate) <=> s \in sends)
<1>1. \A x \in sends : DOMAIN x = {"from", "id", "to", "text", "fate"}
  BY DEF NetOK, P!Inv, P!SendsOK
<1>2. Recast(P!Fated(sends, n, ids, fate), sends)
  BY <1>1, P!FatedFrom, NetAssumed DEF Recast, P!RouterAssumption
<1>3. ASSUME n # server, NEW s, s.from = server
      PROVE  s \in P!Fated(sends, n, ids, fate) <=> s \in sends
  <2>1. ASSUME NEW x \in sends PROVE [x EXCEPT !.fate = fate].from = x.from
    BY <1>1
  <2>2. ASSUME s \in sends PROVE s \in P!Fated(sends, n, ids, fate)
    BY <1>3, <2>2 DEF P!Fated
  <2>3. ASSUME s \in P!Fated(sends, n, ids, fate) PROVE s \in sends
    <3>1. PICK x \in sends :
             s = IF x.from = n /\ x.id \in ids THEN [x EXCEPT !.fate = fate] ELSE x
      BY <2>3 DEF P!Fated
    <3> QED BY <1>3, <2>1, <3>1
  <2> QED BY <2>2, <2>3
<1> QED
  BY <1>2, <1>3

\* What is left of a table came from where it was kept.
LEMMA ThinnedFrom ==
    ASSUME NEW new, NEW old, NEW places, P!Thinned(new, old, places)
    PROVE  \A i \in 1..Len(new) : \E j \in places : new[i].id = old[j].id
BY DEF P!Thinned, P!Goes

\* The clocks: routing's, the room's and the time.
LEMMA ClocksStep ==
    ASSUME NetOK, RoomOK, Wired, [Next]_vars
    PROVE  Clocks'
<1>1. /\ time \in 0..MaxTime /\ roomNow \in Nat /\ roomNow <= now[server] /\ MaxTime \in Nat
      /\ \A n \in Nodes : now[n] \in Nat /\ now[n] <= time
      /\ server \in Nodes /\ Keys \subseteq Nodes /\ server \notin Keys /\ DOMAIN now = Nodes
  BY MeshAssumption DEF MeshAssumption, Wired, Clocks, NetOK, P!Inv, P!IndexedOK, Nodes
<1>2. ASSUME UNCHANGED <<time, now, roomNow>> PROVE Clocks'
  BY <1>1, <1>2 DEF Clocks
<1>3. ASSUME NEW n \in Nodes, now' = [now EXCEPT ![n] = time], UNCHANGED <<time, roomNow>> PROVE Clocks'
  BY <1>1, <1>3 DEF Clocks
<1>4. ASSUME NEW m \in air, m.to = server, Receive(m.frame) PROVE Clocks'
  <2>1. UNCHANGED <<time, now>>
    BY <1>4, ReceiveEffect
  <2>2. UNCHANGED roomNow
    <3>1. UNCHANGED S!vars => UNCHANGED roomNow
      BY DEF S!vars
    <3>2. \A k : S!HandleText(k, 0) => UNCHANGED roomNow
      BY DEF S!HandleText
    <3>3. \A i : AckOf(i) => UNCHANGED roomNow
      BY <3>1 DEF AckOf, S!OnAck
    <3> QED BY <1>4, <3>1, <3>2, <3>3, ReceiveEffect
  <2> QED BY <1>2, <2>1, <2>2
<1>5. ASSUME NEW m \in air, m.to # server, ClientReceive(m.to, m.frame) PROVE Clocks'
  BY <1>2, <1>5, ClientEffect DEF S!vars
<1>6. ASSUME RouterTick PROVE Clocks'
  BY <1>1, <1>3, <1>6, RouterTickEffect DEF S!vars
<1>7. ASSUME Report PROVE Clocks'
  BY <1>2, <1>7, ReportEffect DEF S!vars, S!OnDeliveryFailed
<1>8. ASSUME RoomTick PROVE Clocks'
  <2>1. UNCHANGED <<time, now>> /\ roomNow' = now[server]
    BY <1>8, RoomTickEffect DEF P!SendDirect, S!Tick
  <2> QED BY <1>1, <2>1 DEF Clocks
<1>9. ASSUME NEW k \in Keys, NEW text, Write(k, text) PROVE Clocks'
  BY <1>2, <1>9, WriteEffect DEF P!SendDirect, S!vars
<1>10. ASSUME NEW k \in Keys, ClientTick(k) PROVE Clocks'
  BY <1>1, <1>3, <1>10, ClientTickEffect DEF S!vars
<1>11. ASSUME Pass PROVE Clocks'
  <2>1. time < MaxTime /\ time' = time + 1 /\ UNCHANGED <<now, roomNow>>
    BY <1>11 DEF Pass
  <2>2. time' \in 0..MaxTime /\ \A n \in Nodes : now'[n] <= time'
    BY <1>1, <2>1
  <2> QED BY <1>1, <2>1, <2>2 DEF Clocks
<1>12. ASSUME (\E m \in air : Lose(m)) \/ UNCHANGED vars PROVE Clocks'
  BY <1>2, <1>12 DEF Lose, vars
<1> QED
  BY <1>4, <1>5, <1>6, <1>7, <1>8, <1>9, <1>10, <1>11, <1>12 DEF Next

LEMMA Widens ==
    ASSUME NEW m \in Nat, NEW n \in Nat, m <= n
    PROVE  1..m - 1 \subseteq 1..n - 1
OBVIOUS

\* Sends that are the old ones, and more posts on the board.
LEMMA PushesKept ==
    ASSUME PushesOK, nextSeq \in Nat, nextSeq' \in Nat, nextSeq <= nextSeq',
           nextId' = nextId, Recast(sends', sends)
    PROVE  PushesOK'
<1>1. ASSUME NEW s \in sends'
      PROVE  /\ s.id >= 1
             /\ s.from = server => s.to \in Keys /\ s.text \in 1..nextSeq' - 1
             /\ s.from # server => s.to = server
  <2>1. PICK x \in sends : s.from = x.from /\ s.id = x.id /\ s.to = x.to /\ s.text = x.text
    BY DEF Recast
  <2>2. /\ x.id >= 1
        /\ x.from = server => x.to \in Keys /\ x.text \in 1..nextSeq - 1
        /\ x.from # server => x.to = server
    BY DEF PushesOK
  <2>3. 1..nextSeq - 1 \subseteq 1..nextSeq' - 1
    BY Widens
  <2> QED BY <2>1, <2>2, <2>3
<1> QED
  BY <1>1 DEF PushesOK

\* A send of a node, which is a push or a text for the room.
LEMMA PushesSent ==
    ASSUME NetOK, PushesOK, UNCHANGED nextSeq, NEW n \in Nodes, NEW to, NEW text, P!SendDirect(n, to, text),
           n = server => to \in Keys /\ text \in 1..nextSeq - 1, n # server => to = server
    PROVE  PushesOK'
<1> DEFINE new == [from |-> n, id |-> nextId[n], to |-> to, text |-> text, fate |-> "waiting"]
<1>1. /\ nextId[n] <= MaxSends /\ nextId' = [nextId EXCEPT ![n] = nextId[n] + 1]
      /\ sends' = sends \cup {new}
  BY DEF P!SendDirect
<1>2. nextId \in [Nodes -> Nat \ {0}]
  BY DEF NetOK, P!Inv, P!IndexedOK
<1>3. ASSUME NEW k \in Nodes PROVE nextId'[k] <= MaxSends + 1
  BY <1>1, <1>2, MeshAssumption DEF MeshAssumption, PushesOK
<1>4. new.id >= 1 /\ new.from = n /\ new.to = to /\ new.text = text
  BY <1>2
<1> HIDE DEF new
<1> QED
  BY <1>1, <1>3, <1>4 DEF PushesOK

LEMMA PushesStep ==
    ASSUME NetOK, RoomOK, Wired, [Next]_vars, RoomOK'
    PROVE  PushesOK'
<1>1. PushesOK /\ server \in Nodes /\ Keys \subseteq Nodes /\ server \notin Keys
  BY MeshAssumption DEF MeshAssumption, Wired, Nodes
<1>2. nextSeq \in Nat /\ nextSeq' \in Nat /\ nextSeq <= nextSeq'
  <2>1. nextSeq \in Nat /\ nextSeq' \in Nat
    BY DEF RoomOK, S!IInv, S!BoardOK
  <2>2. nextSeq' = nextSeq \/ nextSeq' = nextSeq + 1
    BY NextIsBoardStep DEF BoardStep, S!vars, S!HandleText, S!AddPost, S!Tick, S!OnAck, S!OnDeliveryFailed
  <2> QED BY <2>1, <2>2
<1>3. ASSUME nextId' = nextId, sends' = sends \/ \E n, ids, fate : sends' = P!Fated(sends, n, ids, fate)
      PROVE  PushesOK'
  <2>1. Recast(sends, sends)
    BY DEF Recast
  <2>2. Recast(sends', sends)
    BY <1>3, <2>1, FatedRecast
  <2> QED BY <1>1, <1>2, <1>3, <2>2, PushesKept
<1>4. ASSUME NEW m \in air, m.to = server, Receive(m.frame) PROVE PushesOK'
  BY <1>3, <1>4, ReceiveEffect DEF AckOf
<1>5. ASSUME NEW m \in air, m.to # server, ClientReceive(m.to, m.frame) PROVE PushesOK'
  BY <1>3, <1>5, ClientEffect DEF OnlyOf
<1>6. ASSUME NEW n \in Nodes, P!Tick(n, time), nextId' = nextId PROVE PushesOK'
  <2>1. sends' = P!Fated(sends, n, P!IdsAt(pending[n], P!Failing(n, time)), "failed")
    BY <1>6, P!TickThins, NetAssumed DEF P!RouterAssumption, NetOK, Wired, Clocks
  <2> QED BY <1>3, <1>6, <2>1
<1>7. ASSUME RouterTick PROVE PushesOK'
  BY <1>1, <1>6, <1>7, RouterTickEffect
<1>8. ASSUME NEW k \in Keys, ClientTick(k) PROVE PushesOK'
  BY <1>1, <1>6, <1>8, ClientTickEffect
<1>9. ASSUME Report PROVE PushesOK'
  BY <1>3, <1>9, ReportEffect DEF netVars
<1>10. ASSUME RoomTick PROVE PushesOK'
  <2>1. CASE UNCHANGED <<netVars, now>>
    BY <1>3, <2>1 DEF netVars
  <2>2. CASE S!PushSteps(now[server]) # {} /\
             P!SendDirect(server, clients[S!PushRow(now[server])].pk, S!PushPost(now[server]).seq)
    <3>1. now[server] \in Nat
      BY <1>1 DEF Wired, Clocks
    <3>2. UNCHANGED nextSeq
      BY <1>10, RoomTickEffect DEF S!Tick
    <3> QED BY <1>1, <2>2, <3>1, <3>2, PushTarget, PushesSent
  <2> QED BY <1>10, <2>1, <2>2, RoomTickEffect
<1>11. ASSUME NEW k \in Keys, NEW text, Write(k, text) PROVE PushesOK'
  BY <1>1, <1>11, WriteEffect, PushesSent DEF S!vars
<1>12. ASSUME Pass \/ (\E m \in air : Lose(m)) \/ UNCHANGED vars PROVE PushesOK'
  BY <1>3, <1>12 DEF Pass, Lose, vars, netVars
<1> QED
  BY <1>4, <1>5, <1>7, <1>8, <1>9, <1>10, <1>11, <1>12 DEF Next

-----------------------------------------------------------------------------
(* What is still to be reported, and the rows that wait.                   *)

\* The table of a node: in the order of the ids, each the number of a send that
\* waits.
LEMMA EntryIds ==
    ASSUME NetOK, NEW n \in Nodes
    PROVE  /\ IsList(pending[n]) /\ Len(pending[n]) \in Nat
           /\ \A i \in 1..Len(pending[n]) :
                  /\ pending[n][i].id \in Nat
                  /\ \E s \in sends : s.from = n /\ s.id = pending[n][i].id /\ s.fate = "waiting"
           /\ \A i, j \in 1..Len(pending[n]) : pending[n][i].id = pending[n][j].id => i = j
<1>1. P!EntriesOK(n, pending[n], nextId[n]) /\ nextId[n] \in Nat
  BY DEF NetOK, P!Inv, P!IndexedOK
<1>2. IsList(pending[n]) /\ \A i \in 1..Len(pending[n]) : pending[n][i].id \in Nat
  BY <1>1 DEF P!EntriesOK, P!IsList, IsList
<1>3. Len(pending[n]) \in Nat
  BY <1>2, ListFacts
<1>4. P!ListOK(pending[n], P!WaitingIds(n, sends))
  BY DEF NetOK, P!Listed
<1>5. ASSUME NEW i \in 1..Len(pending[n]), NEW j \in 1..Len(pending[n]),
             pending[n][i].id = pending[n][j].id
      PROVE  i = j
  <2>1. i \in Nat /\ j \in Nat /\ pending[n][i].id \in Nat /\ pending[n][j].id \in Nat
    BY <1>2, <1>3
  <2>2. /\ i < j => pending[n][i].id < pending[n][j].id
        /\ j < i => pending[n][j].id < pending[n][i].id
    BY <1>4 DEF P!ListOK
  <2> QED BY <1>5, <2>1, <2>2
<1>6. ASSUME NEW i \in 1..Len(pending[n])
      PROVE  \E s \in sends : s.from = n /\ s.id = pending[n][i].id /\ s.fate = "waiting"
  <2>1. pending[n][i].id \in P!WaitingIds(n, sends)
    BY <1>4 DEF P!ListOK, P!IdsAt
  <2> QED BY <2>1 DEF P!WaitingIds
<1> QED
  BY <1>2, <1>3, <1>5, <1>6

\* A send of which this was reported.
LEMMA FatedFate ==
    ASSUME NetOK, NEW n, NEW ids, NEW fate, NEW s \in sends, s.from = n, s.id \in ids
    PROVE  \E x \in P!Fated(sends, n, ids, fate) : x.from = n /\ x.id = s.id /\ x.fate = fate
<1>1. DOMAIN s = {"from", "id", "to", "text", "fate"}
  BY DEF NetOK, P!Inv, P!SendsOK
<1> DEFINE x == [s EXCEPT !.fate = fate]
<1>2. x.from = s.from /\ x.id = s.id /\ x.fate = fate
  BY <1>1
<1>3. x \in P!Fated(sends, n, ids, fate)
  BY DEF P!Fated
<1> HIDE DEF x
<1> QED
  BY <1>2, <1>3

\* A tick lists the sends it gives up, each once.
LEMMA FailuresListed ==
    ASSUME NetOK, time \in 0..MaxTime, P!Tick(server, time),
           NEW K, K = Keep(pending[server], P!Failing(server, time)),
           NEW reps, reps = [i \in 1..Len(K) |-> K[i].id]
    PROVE  ReportsOK(reps, sends')
<1> DEFINE table == pending[server]
           F == P!Failing(server, time)
<1>1. server \in Nodes
  BY DEF Nodes
<1>2. /\ IsList(table) /\ Len(table) \in Nat
      /\ \A i \in 1..Len(table) : \E s \in sends :
             s.from = server /\ s.id = table[i].id /\ s.fate = "waiting"
      /\ \A i, j \in 1..Len(table) : table[i].id = table[j].id => i = j
  BY <1>1, EntryIds
<1>3. sends' = P!Fated(sends, server, P!IdsAt(table, F), "failed")
  BY <1>1, P!TickThins, NetAssumed DEF P!RouterAssumption, NetOK
<1> HIDE DEF table, F
<1>4. PICK g : Picks(g, K, table, F, Len(table))
  <2>1. PICK T : table \in Seq(T)
    BY <1>2 DEF IsList
  <2> QED BY <2>1, KeepPicks DEF table, F
<1>5. /\ Len(K) \in Nat
      /\ \A i \in 1..Len(K) : g[i] \in 1..Len(table) /\ g[i] \in F /\ K[i] = table[g[i]]
      /\ \A i, j \in 1..Len(K) : i < j => g[i] < g[j]
  BY <1>2, <1>4 DEF Picks
<1>6. IsList(reps) /\ Len(reps) = Len(K) /\ \A i \in 1..Len(K) : reps[i] = table[g[i]].id
  <2>1. \A i \in 1..Len(K) : reps[i] = K[i].id
    OBVIOUS
  <2>2. reps = [i \in 1..Len(K) |-> reps[i]]
    OBVIOUS
  <2>3. IsList(reps) /\ Len(reps) = Len(K)
    BY <1>5, <2>2, ListOf
  <2> QED BY <1>5, <2>1, <2>3
<1>7. ASSUME NEW i \in 1..Len(reps), NEW j \in 1..Len(reps), reps[i] = reps[j]
      PROVE  i = j
  <2>1. g[i] = g[j] /\ g[i] \in Nat
    BY <1>2, <1>5, <1>6, <1>7
  <2>2. ~(i < j) /\ ~(j < i)
    BY <1>5, <1>6, <2>1
  <2> QED BY <1>5, <1>6, <2>2
<1>8. ASSUME NEW i \in 1..Len(reps) PROVE FailedSend(reps[i], sends')
  <2>1. g[i] \in 1..Len(table) /\ g[i] \in F /\ reps[i] = table[g[i]].id
    BY <1>5, <1>6
  <2>2. PICK s \in sends : s.from = server /\ s.id = table[g[i]].id
    BY <1>2, <2>1
  <2>3. s.id \in P!IdsAt(table, F)
    BY <2>1, <2>2 DEF P!IdsAt
  <2>4. \E x \in P!Fated(sends, server, P!IdsAt(table, F), "failed") :
           x.from = server /\ x.id = s.id /\ x.fate = "failed"
    BY <2>2, <2>3, FatedFate
  <2> QED BY <1>3, <2>1, <2>2, <2>4 DEF FailedSend
<1> QED
  BY <1>6, <1>7, <1>8 DEF ReportsOK

LEMMA NoReports ==
    ASSUME NEW all
    PROVE  ReportsOK(<<>>, all)
<1>1. IsList(<<>>) /\ Len(<<>>) = 0
  BY DEF IsList
<1> QED
  BY <1>1 DEF ReportsOK

\* What failed stays failed.
LEMMA ReportsKept ==
    ASSUME NEW reps, NEW all, ReportsOK(reps, all), NEW more,
           \A s \in all : s.from = server => s \in more
    PROVE  ReportsOK(reps, more)
BY DEF ReportsOK, FailedSend

LEMMA ReportsTail ==
    ASSUME NEW reps, NEW all, ReportsOK(reps, all), reps # <<>>
    PROVE  ReportsOK(Tail(reps), all)
<1>1. IsList(reps) /\ Len(reps) \in Nat /\ IsList(Tail(reps)) /\ Len(Tail(reps)) = Len(reps) - 1
      /\ \A i \in 1..Len(reps) - 1 : Tail(reps)[i] = reps[i + 1]
  BY ListFacts, ListTail DEF ReportsOK
<1>2. \A i \in 1..Len(Tail(reps)) : i + 1 \in 1..Len(reps) /\ Tail(reps)[i] = reps[i + 1]
  BY <1>1
<1>3. ASSUME NEW i \in 1..Len(Tail(reps)), NEW j \in 1..Len(Tail(reps)), Tail(reps)[i] = Tail(reps)[j]
      PROVE  i = j
  <2>1. reps[i + 1] = reps[j + 1] /\ i + 1 \in 1..Len(reps) /\ j + 1 \in 1..Len(reps)
    BY <1>2, <1>3
  <2>2. i + 1 = j + 1
    BY <2>1 DEF ReportsOK
  <2> QED BY <1>1, <2>2
<1>4. \A i \in 1..Len(Tail(reps)) : FailedSend(Tail(reps)[i], all)
  BY <1>2 DEF ReportsOK
<1> QED
  BY <1>1, <1>3, <1>4 DEF ReportsOK

LEMMA ReportsStep ==
    ASSUME NetOK, RoomOK, Wired, [Next]_vars
    PROVE  ReportsOK(reports', sends')
<1>1. ReportsOK(reports, sends) /\ time \in 0..MaxTime /\ server \in Nodes /\ server \notin Keys
  BY MeshAssumption DEF MeshAssumption, Wired, Clocks, Nodes
<1>2. ASSUME reports' = reports, \A s \in sends : s.from = server => s \in sends'
      PROVE  ReportsOK(reports', sends')
  BY <1>1, <1>2, ReportsKept
<1>3. ASSUME NEW k, k # server, sends' = sends \/ \E ids, fate : sends' = P!Fated(sends, k, ids, fate)
      PROVE  \A s \in sends : s.from = server => s \in sends'
  BY <1>3, FatedRecast
<1>4. ASSUME NEW m \in air, m.to = server, Receive(m.frame) PROVE ReportsOK(reports', sends')
  <2>1. reports' = <<>>
    BY <1>4, ReceiveEffect DEF Listening
  <2> QED BY <2>1, NoReports
<1>5. ASSUME NEW m \in air, m.to # server, ClientReceive(m.to, m.frame) PROVE ReportsOK(reports', sends')
  <2>1. reports' = reports /\ OnlyOf(m.to, "acked")
    BY <1>5, ClientEffect
  <2> QED BY <1>2, <1>3, <1>5, <2>1 DEF OnlyOf
<1>6. ASSUME RouterTick PROVE ReportsOK(reports', sends')
  BY <1>1, <1>6, RouterTickEffect, FailuresListed
<1>7. ASSUME Report PROVE ReportsOK(reports', sends')
  BY <1>1, <1>7, ReportEffect, ReportsTail DEF netVars
<1>8. ASSUME RoomTick PROVE ReportsOK(reports', sends')
  BY <1>8, RoomTickEffect, NoReports
<1>9. ASSUME NEW k \in Keys, NEW text, Write(k, text) PROVE ReportsOK(reports', sends')
  <2>1. reports' = reports /\ P!SendDirect(k, server, text)
    BY <1>9, WriteEffect
  <2>2. sends \subseteq sends'
    BY <2>1 DEF P!SendDirect
  <2> QED BY <1>2, <2>1, <2>2
<1>10. ASSUME NEW k \in Keys, ClientTick(k) PROVE ReportsOK(reports', sends')
  <2>1. reports' = reports /\ P!Tick(k, time) /\ k \in Nodes /\ k # server
    BY <1>1, <1>10, ClientTickEffect DEF Nodes
  <2>2. sends' = P!Fated(sends, k, P!IdsAt(pending[k], P!Failing(k, time)), "failed")
    BY <1>1, <2>1, P!TickThins, NetAssumed DEF P!RouterAssumption, NetOK
  <2> QED BY <1>2, <1>3, <2>1, <2>2
<1>11. ASSUME Pass \/ (\E m \in air : Lose(m)) \/ UNCHANGED vars PROVE ReportsOK(reports', sends')
  BY <1>2, <1>11 DEF Pass, Lose, vars, netVars
<1> QED
  BY <1>4, <1>5, <1>6, <1>7, <1>8, <1>9, <1>10, <1>11 DEF Next

LEMMA FreedRows ==
    ASSUME NEW id, NEW next, RowFreed(id), RowsWait(clients, next)
    PROVE  RowsWait(clients', next)
<1>1. PICK i \in 1..Len(clients) :
         /\ Len(clients') = Len(clients) /\ ~clients'[i].pending
         /\ \A j \in 1..Len(clients) : j # i => clients'[j] = clients[j]
  BY DEF RowFreed
<1>2. ASSUME NEW j \in 1..Len(clients'), clients'[j].pending
      PROVE  j \in 1..Len(clients) /\ clients'[j] = clients[j]
  BY <1>1, <1>2
<1> QED
  BY <1>2 DEF RowsWait

\* The row that waits no longer is no other send's.
LEMMA FreedEntries ==
    ASSUME NEW id, NEW entries, RowFreed(id), EntriesWaited(entries, clients),
           \A j \in 1..Len(entries) : entries[j].id # id
    PROVE  EntriesWaited(entries, clients')
<1>1. PICK i \in 1..Len(clients) :
         /\ clients[i].pendingId = id /\ Len(clients') = Len(clients)
         /\ \A j \in 1..Len(clients) : j # i => clients'[j] = clients[j]
  BY DEF RowFreed
<1>2. ASSUME NEW j \in 1..Len(entries)
      PROVE  \E q \in 1..Len(clients') : clients'[q].pending /\ clients'[q].pendingId = entries[j].id
  <2>1. PICK q \in 1..Len(clients) : clients[q].pending /\ clients[q].pendingId = entries[j].id
    BY DEF EntriesWaited
  <2>2. q # i
    BY <1>1, <2>1
  <2> QED BY <1>1, <2>1, <2>2
<1> QED
  BY <1>2 DEF EntriesWaited

LEMMA TakenRows ==
    ASSUME NEW i, NEW id \in Nat, RowTaken(i, id), RowsWait(clients, id),
           \A j \in 1..Len(clients) : clients[j].pending => clients[j].pendingId \in Nat
    PROVE  RowsWait(clients', id + 1)
<1>1. /\ i \in 1..Len(clients) /\ Len(clients') = Len(clients) /\ clients'[i].pendingId = id
      /\ \A j \in 1..Len(clients) : j # i => clients'[j] = clients[j]
  BY DEF RowTaken
<1>2. ASSUME NEW j \in 1..Len(clients), j # i, clients'[j].pending
      PROVE  clients'[j].pendingId \in Nat /\ clients'[j].pendingId < id
  BY <1>1, <1>2 DEF RowsWait
<1>3. ASSUME NEW j \in 1..Len(clients'), clients'[j].pending PROVE clients'[j].pendingId < id + 1
  <2>1. j # i => clients'[j].pendingId \in Nat /\ clients'[j].pendingId < id
    BY <1>1, <1>2, <1>3
  <2> QED BY <1>1, <2>1
<1>4. ASSUME NEW j \in 1..Len(clients'), NEW q \in 1..Len(clients'),
             clients'[j].pending, clients'[q].pending, clients'[j].pendingId = clients'[q].pendingId
      PROVE  j = q
  <2>1. CASE j # i /\ q # i
    BY <1>1, <1>4, <2>1 DEF RowsWait
  <2>2. CASE j = i \/ q = i
    BY <1>1, <1>2, <1>4, <2>2
  <2> QED BY <2>1, <2>2
<1> QED
  BY <1>3, <1>4 DEF RowsWait

\* The entry appended, if any, is the row's that has just been taken.
LEMMA TakenEntries ==
    ASSUME NEW i, NEW id, RowTaken(i, id), NEW old, IsList(old), EntriesWaited(old, clients),
           NEW e, e.id = id, NEW new, new = old \/ new = Append(old, e)
    PROVE  EntriesWaited(new, clients')
<1>1. /\ i \in 1..Len(clients) /\ ~clients[i].pending /\ Len(clients') = Len(clients)
      /\ clients'[i].pending /\ clients'[i].pendingId = id
      /\ \A j \in 1..Len(clients) : j # i => clients'[j] = clients[j]
  BY DEF RowTaken
<1>2. ASSUME NEW j \in 1..Len(old)
      PROVE  \E q \in 1..Len(clients') : clients'[q].pending /\ clients'[q].pendingId = old[j].id
  <2>1. PICK q \in 1..Len(clients) : clients[q].pending /\ clients[q].pendingId = old[j].id
    BY DEF EntriesWaited
  <2>2. q # i
    BY <1>1, <2>1
  <2> QED BY <1>1, <2>1, <2>2
<1>3. ASSUME NEW j \in 1..Len(new) PROVE (j \in 1..Len(old) /\ new[j] = old[j]) \/ new[j] = e
  BY ListAppend, ListFacts
<1> QED
  BY <1>1, <1>2, <1>3 DEF EntriesWaited

\* Fewer entries.
LEMMA FewerEntries ==
    ASSUME NEW old, NEW table, EntriesWaited(old, table), NEW new,
           NEW places \in SUBSET (1..Len(old)), P!Thinned(new, old, places)
    PROVE  EntriesWaited(new, table)
<1>1. \A i \in 1..Len(new) : \E j \in 1..Len(old) : new[i].id = old[j].id
  <2>1. \A i \in 1..Len(new) : \E j \in places : new[i].id = old[j].id
    BY DEF P!Thinned, P!Goes
  <2> QED BY <2>1
<1> QED
  BY <1>1 DEF EntriesWaited

RowsMatch == RowsWait(clients, nextId[server]) /\ EntriesWaited(pending[server], clients)

LEMMA AckRows ==
    ASSUME NetOK, RoomOK, RowsMatch, nextId' = nextId, NEW i \in 1..Len(pending[server]), AckOf(i)
    PROVE  RowsMatch'
<1> DEFINE table == pending[server]
           id == table[i].id
           places == (1..Len(table)) \ {i}
<1>1. server \in Nodes
  BY DEF Nodes
<1>2. Len(table) \in Nat /\ \A j, q \in 1..Len(table) : table[j].id = table[q].id => j = q
  BY <1>1, EntryIds
<1>3. P!Thinned(pending'[server], table, places) /\ places \in SUBSET (1..Len(table))
  BY DEF AckOf
<1>4. EntriesWaited(pending'[server], clients)
  BY <1>3, FewerEntries DEF RowsMatch
<1>5. CASE S!WaitingFor(id) = {}
  <2>1. UNCHANGED clients
    BY <1>5 DEF AckOf, S!vars
  <2> QED BY <1>4, <2>1 DEF RowsMatch
<1>6. CASE S!OnAck(id)
  <2>1. RowFreed(id)
    BY <1>6, FateRows
  <2>2. \A j \in 1..Len(pending'[server]) : pending'[server][j].id # id
    <3>1. \A q \in places : table[q].id # id
      BY <1>2
    <3>2. \A j \in 1..Len(pending'[server]) : \E q \in places : pending'[server][j].id = table[q].id
      BY <1>3 DEF P!Thinned, P!Goes
    <3> QED BY <3>1, <3>2
  <2> QED BY <1>4, <2>1, <2>2, FreedRows, FreedEntries DEF RowsMatch
<1> QED
  BY <1>5, <1>6 DEF AckOf

LEMMA ReportRows ==
    ASSUME NetOK, RoomOK, RowsMatch, ReportsOK(reports, sends), Report
    PROVE  RowsMatch'
<1>1. reports # <<>> /\ UNCHANGED <<nextId, pending>> /\ server \in Nodes
  BY ReportEffect DEF netVars, Nodes
<1> DEFINE id == Head(reports)
<1>2. CASE UNCHANGED S!vars
  BY <1>1, <1>2 DEF RowsMatch, S!vars
<1>3. CASE S!OnDeliveryFailed(id)
  <2>1. RowFreed(id)
    BY <1>3, FateRows
  <2>2. PICK s \in sends : s.from = server /\ s.id = id /\ s.fate = "failed"
    <3>1. Len(reports) \in Nat /\ Len(reports) # 0 /\ id = reports[1]
      BY <1>1, ListFacts DEF ReportsOK, IsList
    <3> QED BY <3>1 DEF ReportsOK, FailedSend
  <2>3. ASSUME NEW j \in 1..Len(pending[server]) PROVE pending[server][j].id # id
    <3>1. PICK x \in sends : x.from = server /\ x.id = pending[server][j].id /\ x.fate = "waiting"
      BY <1>1, EntryIds
    <3>2. x.id # s.id
      BY <2>2, <3>1 DEF NetOK, P!Listed, P!OneEach
    <3> QED BY <2>2, <3>1, <3>2
  <2> QED BY <1>1, <2>1, <2>3, FreedRows, FreedEntries DEF RowsMatch
<1> QED
  BY <1>2, <1>3, ReportEffect

LEMMA PushMatch ==
    ASSUME NetOK, RoomOK, RowsMatch, NEW t \in Nat, S!Tick(t, nextId[server]), S!PushSteps(t) # {},
           NEW to, NEW text, P!SendDirect(server, to, text)
    PROVE  RowsMatch'
<1> DEFINE id == nextId[server]
<1>1. server \in Nodes /\ id \in Nat /\ DOMAIN nextId = Nodes /\ DOMAIN pending = Nodes
  BY DEF Nodes, NetOK, P!Inv, P!IndexedOK
<1>2. RowTaken(S!PushRow(t), id)
  BY PushRows
<1>3. IsList(pending[server])
  BY <1>1, EntryIds
<1>4. nextId'[server] = id + 1
  BY <1>1 DEF P!SendDirect
<1>5. PICK e : e.id = id /\ (pending'[server] = pending[server]
                             \/ pending'[server] = Append(pending[server], e))
  <2> DEFINE frame == P!BuildFrame(routes[server], "TXT_MSG", to, P!Envelope(server, to, text))
             e == [id |-> nextId[server], expectedAck |-> P!ExpectedAck(text, server),
                   deadline |-> now[server] + P!Timeout(frame), attempts |-> 1,
                   to |-> to, frame |-> frame]
  <2>1. pending' = [pending EXCEPT ![server] =
                       IF P!HasRoom(server) THEN Append(pending[server], e) ELSE pending[server]]
    BY <1>1 DEF P!SendDirect
  <2>2. e.id = id
    OBVIOUS
  <2> HIDE DEF e
  <2>3. pending'[server] = pending[server] \/ pending'[server] = Append(pending[server], e)
    BY <1>1, <2>1
  <2> QED BY <2>2, <2>3
<1>6. ASSUME NEW j \in 1..Len(clients) PROVE clients[j].pendingId \in Nat
  <2>1. clients \in Seq(S!Behind(nextSeq))
    BY DEF RoomOK, S!IInv, S!ClientsOK
  <2>2. clients[j] \in S!Client
    BY <2>1 DEF S!Behind
  <2>3. Ids \cup {0} \subseteq Nat
    BY MeshAssumption DEF MeshAssumption, Ids
  <2>4. clients[j].pendingId \in Ids \cup {0}
    BY <2>2 DEF S!Client
  <2> QED BY <2>3, <2>4
<1>7. RowsWait(clients', id + 1)
  BY <1>1, <1>2, <1>6, TakenRows DEF RowsMatch
<1>8. EntriesWaited(pending'[server], clients')
  BY <1>2, <1>3, <1>5, TakenEntries DEF RowsMatch
<1> QED
  BY <1>4, <1>7, <1>8 DEF RowsMatch

LEMMA RowsStep ==
    ASSUME NetOK, RoomOK, Wired, [Next]_vars
    PROVE  RowsMatch'
<1>1. /\ RowsMatch /\ ReportsOK(reports, sends) /\ time \in 0..MaxTime /\ now[server] \in Nat
      /\ server \in Nodes /\ server \notin Keys /\ Keys \subseteq Nodes /\ DOMAIN nextId = Nodes
      /\ DOMAIN pending = Nodes
  BY MeshAssumption DEF MeshAssumption, Wired, Clocks, Nodes, RowsMatch, NetOK, P!Inv, P!IndexedOK
<1>2. ASSUME nextId'[server] = nextId[server], pending'[server] = pending[server], UNCHANGED clients
      PROVE  RowsMatch'
  BY <1>1, <1>2 DEF RowsMatch
<1>3. ASSUME NEW m \in air, m.to = server, Receive(m.frame) PROVE RowsMatch'
  <2>1. nextId' = nextId
    BY <1>3, ReceiveEffect
  <2>2. CASE pending' = pending /\ UNCHANGED clients
    BY <1>2, <2>1, <2>2
  <2>3. ASSUME NEW i \in 1..Len(pending[server]), AckOf(i) PROVE RowsMatch'
    BY <1>1, <2>1, <2>3, AckRows
  <2>4. (UNCHANGED S!vars => UNCHANGED clients) /\ \A k : S!HandleText(k, 0) => UNCHANGED clients
    BY DEF S!vars, S!HandleText
  <2> QED BY <1>3, <2>2, <2>3, <2>4, ReceiveEffect
<1>4. ASSUME NEW m \in air, m.to # server, ClientReceive(m.to, m.frame) PROVE RowsMatch'
  BY <1>1, <1>2, <1>4, ClientEffect DEF OnlyOf, S!vars
<1>5. ASSUME RouterTick PROVE RowsMatch'
  <2>1. P!Tick(server, time) /\ nextId' = nextId /\ UNCHANGED clients
    BY <1>5, RouterTickEffect DEF S!vars
  <2> DEFINE places == (1..Len(pending[server])) \ P!Failing(server, time)
  <2>2. P!Thinned(pending'[server], pending[server], places)
    BY <1>1, <2>1, P!TickThins, NetAssumed DEF P!RouterAssumption, NetOK
  <2>3. EntriesWaited(pending'[server], clients)
    BY <1>1, <2>2, FewerEntries DEF RowsMatch
  <2> QED BY <1>1, <2>1, <2>3 DEF RowsMatch
<1>6. ASSUME Report PROVE RowsMatch'
  BY <1>1, <1>6, ReportRows
<1>7. ASSUME RoomTick PROVE RowsMatch'
  <2>1. S!Tick(now[server], nextId[server])
    BY <1>7, RoomTickEffect
  <2>2. CASE S!PushSteps(now[server]) = {} /\ UNCHANGED <<netVars, now>>
    BY <1>2, <2>1, <2>2 DEF netVars, S!Tick
  <2>3. CASE S!PushSteps(now[server]) # {} /\
             P!SendDirect(server, clients[S!PushRow(now[server])].pk, S!PushPost(now[server]).seq)
    BY <1>1, <2>1, <2>3, PushMatch
  <2> QED BY <1>7, <2>2, <2>3, RoomTickEffect
<1>8. ASSUME NEW k \in Keys, NEW text, Write(k, text) PROVE RowsMatch'
  <2>1. P!SendDirect(k, server, text) /\ UNCHANGED clients /\ k # server
    BY <1>1, <1>8, WriteEffect DEF S!vars
  <2>2. nextId'[server] = nextId[server] /\ pending'[server] = pending[server]
    BY <1>1, <2>1 DEF P!SendDirect
  <2> QED BY <1>2, <2>1, <2>2
<1>9. ASSUME NEW k \in Keys, ClientTick(k) PROVE RowsMatch'
  <2>1. P!Tick(k, time) /\ nextId' = nextId /\ UNCHANGED clients /\ k \in Nodes /\ k # server
    BY <1>1, <1>9, ClientTickEffect DEF S!vars
  <2>2. pending'[server] = pending[server]
    BY <1>1, <2>1, P!TickThins, NetAssumed DEF P!RouterAssumption, NetOK
  <2> QED BY <1>2, <2>1, <2>2
<1>10. ASSUME Pass \/ (\E m \in air : Lose(m)) \/ UNCHANGED vars PROVE RowsMatch'
  BY <1>2, <1>10 DEF Pass, Lose, vars, netVars, boardVars
<1> QED
  BY <1>3, <1>4, <1>5, <1>6, <1>7, <1>8, <1>9, <1>10 DEF Next

-----------------------------------------------------------------------------
(* The invariant holds.                                                    *)

\* A row as it comes back from room.dat.
LoadedRow(k) == [Board!NewClient(k) EXCEPT !.access = "GUEST", !.lastLogin = 1]

LEMMA LoadedRows ==
    ASSUME NEW k \in Keys, NEW n \in Nat \ {0}
    PROVE  /\ LoadedRow(k) \in S!Behind(n) /\ LoadedRow(k).pk = k
           /\ ~LoadedRow(k).pending /\ LoadedRow(k).syncSeq = 0
<1> DEFINE c == Board!NewClient(k)
           r == [c EXCEPT !.access = "GUEST", !.lastLogin = 1]
<1>1. c \in S!Client /\ c.syncSeq = 0 /\ c.pendingSeq = 0 /\ c.pk = k /\ ~c.pending
  BY DEF Board!NewClient, S!Client, S!Access
<1>2. LoadedRow(k) = r
  BY DEF LoadedRow
<1> HIDE DEF c
<1>3. r \in S!Client /\ r.syncSeq = 0 /\ r.pendingSeq = 0 /\ r.pk = k /\ ~r.pending
  BY <1>1 DEF S!Client, S!Access
<1> HIDE DEF r
<1> QED
  BY <1>2, <1>3 DEF S!Behind

LEMMA LoadedOK ==
    ASSUME NEW start \in Starts, Loaded(start), roomNow = 0, serverTime = 0, nextClientIdx = 0,
           failures = <<>>, config = OpenRoom
    PROVE  /\ RoomOK /\ Len(clients) = Len(start.members)
           /\ \A i \in 1..Len(clients) :
                  ~clients[i].pending /\ clients[i].pk = start.members[i] /\ clients[i].syncSeq = 0
<1> DEFINE m == start.members
           au == start.authors
           n == Len(au) + 1
<1>1. /\ m \in Seq(Keys) /\ Len(m) <= MaxClients /\ au \in Seq(Keys \cup {NoAuthor})
      /\ \A i, j \in 1..Len(m) : m[i] = m[j] => i = j
      /\ Len(au) < MaxSeq /\ MaxSeq \in Nat /\ MaxClients \in Nat /\ Len(au) <= MaxPosts
  BY MeshAssumption DEF MeshAssumption
<1>2. /\ posts = [i \in 1..Len(au) |-> [seq |-> i, timestamp |-> 0, author |-> au[i]]]
      /\ nextSeq = n
      /\ clients = [i \in 1..Len(m) |-> LoadedRow(m[i])]
      /\ disk = [nextSeq |-> nextSeq, posts |-> posts,
                 clients |-> [i \in 1..Len(m) |->
                    [pk |-> m[i], access |-> "GUEST", syncSeq |-> 0, lastLogin |-> 1]]]
  BY DEF Loaded, LoadedRow
<1>3. Len(m) \in Nat /\ Len(au) \in Nat /\ (\A i \in 1..Len(m) : m[i] \in Keys)
      /\ (\A i \in 1..Len(au) : au[i] \in Keys \cup {NoAuthor})
  BY <1>1
<1> HIDE DEF m, au
<1>4. n \in Nat \ {0} /\ n <= MaxSeq /\ n = Len(au) + 1
  BY <1>1, <1>3
<1> HIDE DEF n
<1>5. /\ posts \in Seq(S!Post) /\ Len(posts) = Len(au)
      /\ \A i \in 1..Len(au) : posts[i].seq = i
  <2>1. \A i \in 1..Len(au) :
           [seq |-> i, timestamp |-> 0, author |-> au[i]] \in S!Post
    BY <1>3 DEF S!Post
  <2>2. posts \in [1..Len(au) -> S!Post]
    BY <1>2, <2>1
  <2>3. \A i \in 1..Len(au) : posts[i].seq = i
    BY <1>2
  <2> QED BY <1>3, <2>2, <2>3, FunctionIsSeq
<1>6. S!InOrder(posts, n)
  BY <1>1, <1>3, <1>4, <1>5 DEF S!InOrder
<1>7. /\ clients \in Seq(S!Behind(n)) /\ Len(clients) = Len(m)
      /\ \A i \in 1..Len(m) : ~clients[i].pending /\ clients[i].pk = m[i] /\ clients[i].syncSeq = 0
  <2>1. clients \in [1..Len(m) -> S!Behind(n)]
    BY <1>2, <1>3, <1>4, LoadedRows
  <2>2. \A i \in 1..Len(m) : ~clients[i].pending /\ clients[i].pk = m[i] /\ clients[i].syncSeq = 0
    BY <1>2, <1>3, <1>4, LoadedRows
  <2> QED BY <1>3, <2>1, <2>2, FunctionIsSeq
<1> DEFINE saved == [i \in 1..Len(m) |->
                       [pk |-> m[i], access |-> "GUEST", syncSeq |-> 0, lastLogin |-> 1]]
<1>8. /\ saved \in Seq(S!SavedBehind(n)) /\ saved \in Seq(S!SavedClient) /\ Len(saved) = Len(m)
      /\ \A i \in 1..Len(m) : saved[i].pk = m[i]
  <2>1. ASSUME NEW k \in Keys
        PROVE  [pk |-> k, access |-> "GUEST", syncSeq |-> 0, lastLogin |-> 1] \in S!SavedBehind(n)
    BY <1>4 DEF S!SavedBehind, S!SavedClient, S!Access
  <2>2. saved \in [1..Len(m) -> S!SavedBehind(n)]
    BY <1>3, <2>1
  <2>3. S!SavedBehind(n) \subseteq S!SavedClient
    BY DEF S!SavedBehind
  <2>4. \A i \in 1..Len(m) : saved[i].pk = m[i]
    OBVIOUS
  <2> HIDE DEF saved
  <2>5. saved \in Seq(S!SavedBehind(n)) /\ Len(saved) = Len(m)
    BY <1>3, <2>2, FunctionIsSeq
  <2> QED BY <2>3, <2>4, <2>5, SeqGrows
<1>9. disk.nextSeq = n /\ disk.posts = posts /\ disk.clients = saved /\ disk \in S!State
  <2>1. disk = [nextSeq |-> n, posts |-> posts, clients |-> saved]
    BY <1>2
  <2> HIDE DEF saved
  <2> QED BY <1>4, <1>5, <1>8, <2>1 DEF S!State
<1> HIDE DEF saved
<1>10. failures \in Seq(S!Failure) /\ Len(failures) = 0
  OBVIOUS
<1>11. config \in S!Settings
  BY DEF OpenRoom, S!Settings
<1>12. S!IInv
  <2>1. S!BoardOK
    BY <1>2, <1>4, <1>5, <1>6 DEF S!BoardOK
  <2>2. S!ClientsOK
    BY <1>2, <1>4, <1>7 DEF S!ClientsOK
  <2>3. S!FailuresOK
    BY <1>2, <1>10 DEF S!FailuresOK
  <2>4. S!RestOK
    BY <1>2, <1>4, <1>11 DEF S!RestOK
  <2>5. S!DiskOK
    BY <1>2, <1>4, <1>5, <1>6, <1>8, <1>9 DEF S!DiskOK
  <2> QED BY <2>1, <2>2, <2>3, <2>4, <2>5 DEF S!IInv
<1>13. S!TablesConsistent
  BY <1>1, <1>7, <1>8, <1>9, <1>10 DEF S!TablesConsistent
<1> QED
  BY <1>2, <1>4, <1>7, <1>12, <1>13 DEF RoomOK, m

LEMMA InitGood == Init => Good
<1> SUFFICES ASSUME Init PROVE Good
  OBVIOUS
<1>1. PICK start \in Starts : Loaded(start)
  BY DEF Init
<1>2. RoomOK /\ \A i \in 1..Len(clients) : ~clients[i].pending
  BY <1>1, LoadedOK DEF Init
<1>3. P!Init
  BY SameNet DEF Init
<1>4. NetOK
  BY <1>3, P!InitInv, P!InitReceipts, P!InitListed, NetAssumed DEF P!RouterAssumption, NetOK
<1>5. /\ now = [n \in Nodes |-> 0] /\ nextId = [n \in Nodes |-> 1]
      /\ pending = [n \in Nodes |-> <<>>] /\ sends = {} /\ server \in Nodes
  BY <1>3 DEF P!Init, Nodes
<1>6. Clocks
  BY <1>5, MeshAssumption DEF MeshAssumption, Clocks, Init
<1>7. PushesOK
  BY <1>5, MeshAssumption DEF MeshAssumption, PushesOK
<1>8. ReportsOK(reports, sends)
  BY NoReports DEF Init
<1>9. RowsWait(clients, nextId[server])
  BY <1>2 DEF RowsWait
<1>10. EntriesWaited(pending[server], clients)
  <2>1. Len(pending[server]) = 0
    BY <1>5
  <2> QED BY <2>1 DEF EntriesWaited
<1> QED
  BY <1>2, <1>4, <1>6, <1>7, <1>8, <1>9, <1>10 DEF Good, Wired

LEMMA NextGood == Good /\ [Next]_vars => Good'
<1> SUFFICES ASSUME Good, [Next]_vars PROVE Good'
  OBVIOUS
<1>1. NetOK /\ RoomOK /\ Wired /\ Clocks
  BY DEF Good, Wired
<1>2. NetOK'
  BY <1>1, NetStep
<1>3. RoomOK'
  BY <1>1, NextIsBoardStep, RoomStep
<1>4. Clocks' /\ PushesOK' /\ ReportsOK(reports', sends') /\ RowsMatch'
  BY <1>1, <1>3, ClocksStep, PushesStep, ReportsStep, RowsStep DEF Wired, RowsMatch
<1> QED
  BY <1>2, <1>3, <1>4 DEF Good, Wired, RowsMatch

LEMMA AlwaysGood == Spec => []Good
BY InitGood, NextGood, PTL DEF Spec

\* What an ack is worth in this mesh, whoever reads and writes what: a push that
\* is reported as acknowledged has its post handed up at some reader it was
\* sent to (Router::handleAck, the ack number covers no receiver).
THEOREM AcksAreOfTexts == Spec => []P!AckedIsHeard
<1>1. Good => P!AckedIsHeard
  BY DEF Good, NetOK, P!Receipts
<1> QED
  BY <1>1, AlwaysGood, PTL
=============================================================================
