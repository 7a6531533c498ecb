------------------------------ MODULE RoomSync ------------------------------
(***************************************************************************)
(* The room and the people reading it, joined by what routing promises:    *)
(* every acknowledged send gets one answer, onDeliveryFailed, or onAck     *)
(* after the client got the post in it from that send or an earlier one    *)
(* (an ack names the post, not the send), and a restart forgets the sends  *)
(* under way.  Mesh shows that the room on top of Router keeps to it, and  *)
(* two runs of Mesh where routing's promise ends.                          *)
(***************************************************************************)
EXTENDS Room

VARIABLES
    open,    \* sends under way: a function from their ids to what they carry
    pushed,  \* per key: the posts sent to this person, whatever came of it
    reached, \* per key: the posts that reached this person
    waived   \* per key: the posts a bookmark of theirs told the room not to send

syncVars == <<vars, open, pushed, reached, waived>>

SyncTypeOK ==
    /\ TypeOK
    /\ DOMAIN open \subseteq Ids
    /\ \A id \in DOMAIN open : open[id] \in [to : Keys, seq : Nat]
    /\ pushed \in [Keys -> SUBSET Nat]
    /\ \A k \in Keys : reached[k] \subseteq pushed[k] /\ waived[k] \subseteq Nat

SyncInit ==
    /\ Init
    /\ open = <<>>
    /\ pushed = [k \in Keys |-> {}]
    /\ reached = [k \in Keys |-> {}]
    /\ waived = [k \in Keys |-> {}]

-----------------------------------------------------------------------------
\* Anything that comes in that is not about a bookmark.
Incoming ==
    /\ Request
    /\ UNCHANGED <<open, pushed, reached, waived>>

\* A bookmark k states: the posts it stands for are not to be sent.
Waive(k, since) == waived' = [waived EXCEPT ![k] = @ \cup 1..SeqFromTimestamp(since)]

Login(k, password, timestamp, since) ==
    /\ OnAnon(k, password, timestamp, since)
    /\ IF AccessFor(password) = "NONE" THEN UNCHANGED waived ELSE Waive(k, since)
    /\ UNCHANGED <<open, pushed, reached>>

Refresh(k, timestamp, since) ==
    /\ KeepAlive(k, timestamp, since)
    /\ IF since = 0 THEN UNCHANGED waived ELSE Waive(k, since)
    /\ UNCHANGED <<open, pushed, reached>>

\* The room's turn in the main loop; id is one that nobody waits on.
RoomTick(t, id) ==
    /\ id \notin DOMAIN open
    /\ Tick(t, id)
    /\ IF PushSteps(t) = {} THEN UNCHANGED <<open, pushed>>
       ELSE LET send == [to |-> clients[PushRow(t)].pk, seq |-> PushPost(t).seq]
            IN  /\ open' = [i \in DOMAIN open \cup {id} |-> IF i = id THEN send ELSE open[i]]
                /\ pushed' = [pushed EXCEPT ![send.to] = @ \cup {send.seq}]
    /\ UNCHANGED <<reached, waived>>

\* A frame with a post in it reaches its client, perhaps long after the room
\* has given up that send.
Hear(k, seq) ==
    /\ seq \in pushed[k] \ reached[k]
    /\ reached' = [reached EXCEPT ![k] = @ \cup {seq}]
    /\ UNCHANGED <<vars, open, pushed, waived>>

Reported(id) == open' = [i \in DOMAIN open \ {id} |-> open[i]]

\* The client's ack gets back.  The row may be gone by then.
Acked(id) ==
    /\ id \in DOMAIN open /\ open[id].seq \in reached[open[id].to]
    /\ Reported(id)
    /\ IF WaitingFor(id) = {} THEN UNCHANGED vars ELSE OnAck(id)
    /\ UNCHANGED <<pushed, reached, waived>>

\* Routing runs out of attempts, whether or not the client got the frame: it
\* may be the ack that was lost.
GaveUp(id) ==
    /\ id \in DOMAIN open
    /\ Reported(id)
    /\ IF WaitingFor(id) = {} THEN UNCHANGED vars ELSE OnDeliveryFailed(id)
    /\ UNCHANGED <<pushed, reached, waived>>

\* A post the restart lost is a post nobody has: its number is given out again.
RoomRestart ==
    LET kept(posted) == [k \in Keys |-> {s \in posted[k] : s < nextSeq'}]
    IN  /\ Restart
        /\ open' = <<>>
        /\ pushed' = kept(pushed) /\ reached' = kept(reached) /\ waived' = kept(waived)

SyncNext ==
    \/ Incoming
    \/ \E k \in Keys, pw \in Passwords, ts \in LoginStamps, since \in Stamps :
           Login(k, pw, ts, since)
    \/ \E k \in Keys, ts \in RequestStamps, since \in Stamps : Refresh(k, ts, since)
    \/ \E t \in now..MaxTime, id \in Ids : RoomTick(t, id)
    \/ \E k \in Keys, seq \in 1..MaxSeq : Hear(k, seq)
    \/ \E id \in Ids : Acked(id)
    \/ \E id \in Ids : GaveUp(id)
    \/ RoomRestart

SyncSpec == SyncInit /\ [][SyncNext]_syncVars

-----------------------------------------------------------------------------
(* Properties.                                                             *)

\* A bookmark passes a post only because the client acknowledged it or asked
\* not to be sent it: every post on the board at or below a client's bookmark,
\* other than its own, reached that client or was waived by it.  "Moving the
\* bookmark at send time means a lost packet loses that post for the client
\* forever" (room.cpp, onAck).
BookmarkCovered ==
    \A i \in 1..Len(clients), j \in 1..Len(posts) :
        LET c == clients[i] IN
        posts[j].seq <= c.syncSeq /\ posts[j].author # c.pk =>
            posts[j].seq \in reached[c.pk] \cup waived[c.pk]

\* A row marked pending has its send under way, to that client and with that
\* post, so that an answer is coming: across logins, evictions, retries and
\* restarts no row waits for a send routing no longer knows.
PendingIsOpen ==
    \A i \in 1..Len(clients) : clients[i].pending =>
        /\ clients[i].pendingId \in DOMAIN open
        /\ open[clients[i].pendingId].to = clients[i].pk
        /\ open[clients[i].pendingId].seq = clients[i].pendingSeq

\* An acknowledgement takes a bookmark over one post, the one handed over:
\* nothing the client has asked for lies between the two.  "Handing over a post
\* twice is a duplicate; skipping one loses it" (room.h, seqFromTimestamp).
AckSkipsNothing ==
    [][\A id \in Ids : Acked(id) /\ WaitingFor(id) # {} =>
          LET c == clients[Min(WaitingFor(id))] IN
          \A j \in Unread(c) : posts[j].seq >= c.pendingSeq]_syncVars

\* A client that logs in with the timestamp of the last post it was handed is
\* sent everything after it: translating that bookmark skips no unread post.
\* "Deliberately cautious: it stops at the first post the client has not seen"
\* (room.h, seqFromTimestamp).
BookmarkRoundTrip ==
    \A i \in 1..Len(clients), j \in 1..Len(posts) :
        posts[j].seq = clients[i].syncSeq =>
            \A n \in Unread(clients[i]) :
                posts[n].seq > SeqFromTimestamp(posts[j].timestamp)
=============================================================================
