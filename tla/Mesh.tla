-------------------------------- MODULE Mesh --------------------------------
(***************************************************************************)
(* The room on top of routing, and its readers, on the air: what main.cpp  *)
(* wires together.  Room and Router are used as they are; an action here   *)
(* is a callback of one into the other, or a turn of a node's loop.        *)
(*                                                                         *)
(* In a turn device.tick hands frames to routing, then routing ticks and   *)
(* then the room, with one reading of the clock (main.cpp).  So no frame   *)
(* is received between the two ticks, and a failure routing reports finds  *)
(* the room's clock where the turn before left it.                         *)
(*                                                                         *)
(* People are logged in, from a room.dat, and may read and post; a reader's *)
(* device runs the same routing and acknowledges what it is handed.        *)
(***************************************************************************)
EXTENDS Integers, Sequences, FiniteSets, FiniteSetsExt

CONSTANTS
    server,          \* the node with the room
    Keys,            \* people, each the node of its device
    Home,            \* the ones whose device is on and in range
    Texts,           \* texts people post, told apart from the numbers of posts
    Starts,          \* where a behaviour starts: [members, authors, drafts], the
                     \* clients in room.dat, who wrote the posts in it, oldest
                     \* first, and <<key, text>> for what is going to be posted
    NoAuthor, NoPassword, MaxSeq, MaxPosts, MaxClients, RetryDelay, \* of Room
    MaxSends, MaxPending, MaxRoutes, MaxAttempts, FloodAckTimeout,  \* of Router
    DirectAckBase, SeenSlots, SeenTtl,
    MaxTime,         \* bound on the clock
    LastPost,        \* no post after this moment
    MaxFaults        \* frames that are lost, and moments a frame is late

ASSUME MeshAssumption ==
    /\ Home \subseteq Keys /\ server \notin Keys /\ NoAuthor \notin Keys
    /\ \A start \in Starts :
           /\ start.members \in Seq(Keys) /\ Len(start.members) <= MaxClients
           /\ \A i, j \in 1..Len(start.members) : start.members[i] = start.members[j] => i = j
           /\ start.authors \in Seq(Keys \cup {NoAuthor})
           /\ Len(start.authors) <= MaxPosts /\ Len(start.authors) < MaxSeq
           /\ start.drafts \subseteq Home \X Texts
    /\ MaxTime \in Nat /\ LastPost \in Nat /\ MaxFaults \in Nat
    /\ MaxSeq \in Nat /\ MaxPosts \in Nat \ {0} /\ MaxClients \in Nat \ {0} /\ RetryDelay \in Nat
    /\ MaxSends \in Nat /\ MaxPending \in Nat /\ MaxRoutes \in Nat \ {0}
    /\ MaxAttempts \in Nat \ {0} /\ FloodAckTimeout \in Nat \ {0} /\ DirectAckBase \in Nat \ {0}
    /\ SeenSlots \in Nat \ {0} /\ SeenTtl \in Nat

VARIABLES
    serverTime, posts, nextSeq, clients, nextClientIdx, failures, config, disk,
    roomNow,  \* Room's now
    now, nextId, seen, seenNext, queue, pending, routes, air, sends, heard,
    time,     \* the time it is, which a loop reads at its next turn
    reports,  \* failures routing has still to report in this tick
    said,     \* <<text, seq>> for every text that became a post
    drafts,   \* what people are still going to post
    faults    \* what the air has done so far

boardVars == <<serverTime, posts, nextSeq, clients, nextClientIdx, failures, config, disk>>
netVars == <<nextId, seen, seenNext, queue, pending, routes, air, sends, heard>>
vars == <<boardVars, roomNow, netVars, now, time, reports, said, drafts, faults>>

Nodes == Keys \cup {server}
InRange == {<<server, k>> : k \in Home} \cup {<<k, server>> : k \in Home}
Ids == 1..MaxSends + 1 \* and the one a tick would give out next
OpenRoom == [admin |-> NoPassword, guest |-> NoPassword, anon |-> TRUE]

Net == INSTANCE Router WITH
    Links <- InRange, Repeaters <- {}, Traffic <- {}, Logins <- {},
    DirectAckPerHop <- 0, ForwardDelays <- {0}, MaxHops <- 0, MaxReadings <- 0

Board == INSTANCE Room WITH
    now <- roomNow, Stamps <- {0}, LoginStamps <- {1}, RequestStamps <- {0},
    Epochs <- {0}, Passwords <- {NoPassword}, Ids <- Ids,
    MaxLoginFailures <- 1, MaxLoginAttempts <- 1, LoginLockout <- 1,
    ClockWindow <- 0, KeepsBoard <- TRUE, FirstConfig <- OpenRoom

\* The room as it comes back from room.dat.
Loaded(start) ==
    /\ posts = [i \in 1..Len(start.authors) |->
           [seq |-> i, timestamp |-> 0, author |-> start.authors[i]]]
    /\ nextSeq = Len(start.authors) + 1
    /\ clients = [i \in 1..Len(start.members) |->
           [Board!NewClient(start.members[i]) EXCEPT !.access = "GUEST", !.lastLogin = 1]]
    /\ disk = [nextSeq |-> nextSeq, posts |-> posts,
               clients |-> [i \in 1..Len(start.members) |->
                   [pk |-> start.members[i], access |-> "GUEST", syncSeq |-> 0, lastLogin |-> 1]]]
    /\ drafts = start.drafts

Init ==
    /\ Net!Init
    /\ \E start \in Starts : Loaded(start)
    /\ roomNow = 0 /\ serverTime = 0
    /\ nextClientIdx = 0 /\ failures = <<>> /\ config = OpenRoom
    /\ time = 0 /\ reports = <<>> /\ said = {} /\ faults = 0

-----------------------------------------------------------------------------
\* The server is between two turns.
Listening == roomNow = now[server] /\ reports = <<>>

\* Routing looks into this frame: it has neither seen nor repeated it.
Fresh(frame) == ~Net!AlreadySeen(server, frame) /\ ~Net!Echo(server, frame)

\* A text for the room.
NewText(frame) == frame.type = "TXT_MSG" /\ Net!ForUs(server, frame) /\ Fresh(frame)

\* A frame reaches the server: an ack goes to the row that waits for the send
\* it reports, a text becomes a post, and what is left is routing's own.
Receive(frame) ==
    LET acked == IF frame.type = "ACK" /\ Fresh(frame)
                 THEN {pending[server][i].id : i \in Net!Awaiting(server, frame.payload)}
                 ELSE {}
        rows  == IF acked = {} THEN {} ELSE Board!WaitingFor(Min(acked))
    IN  /\ Listening
        /\ Net!OnFrame(server, frame, 0)
        /\ IF NewText(frame)
           THEN /\ Board!HandleText(frame.payload.from, 0)
                /\ said' = said \cup {<<frame.payload.plain, nextSeq>>}
           ELSE /\ IF rows = {} THEN UNCHANGED <<boardVars, roomNow>>
                   ELSE Board!OnAck(Min(acked))
                /\ UNCHANGED said
        /\ UNCHANGED <<time, reports, drafts, faults>>

\* A frame reaches a reader's device.
ClientReceive(k, frame) ==
    /\ Net!OnFrame(k, frame, 0)
    /\ UNCHANGED <<boardVars, roomNow, time, reports, said, drafts, faults>>

\* router.tick: the failures it finds are reported one after the other.
RouterTick ==
    /\ Listening /\ now[server] < time
    /\ Net!Tick(server, time)
    /\ reports' = [i \in 1..Len(Net!GivenUp(server, time)) |-> Net!GivenUp(server, time)[i].id]
    /\ UNCHANGED <<boardVars, roomNow, time, said, drafts, faults>>

Report ==
    /\ reports # <<>>
    /\ reports' = Tail(reports)
    /\ IF Board!WaitingFor(Head(reports)) = {} THEN UNCHANGED <<boardVars, roomNow>>
       ELSE Board!OnDeliveryFailed(Head(reports))
    /\ UNCHANGED <<netVars, now, time, said, drafts, faults>>

\* room.tick, and the send of the post it picks.
RoomTick ==
    LET t == now[server]
    IN  /\ reports = <<>>
        /\ roomNow < t \/ Board!PushSteps(t) # {}
        /\ Board!Tick(t, nextId[server])
        /\ IF Board!PushSteps(t) = {} THEN UNCHANGED <<netVars, now>>
           ELSE Net!SendDirect(server, clients[Board!PushRow(t)].pk, Board!PushPost(t).seq)
        /\ UNCHANGED <<time, reports, said, drafts, faults>>

-----------------------------------------------------------------------------
\* A reader posts: the app sends a text once, its routing repeats it.
Write(k, text) ==
    /\ <<k, text>> \in drafts
    /\ drafts' = drafts \ {<<k, text>>}
    /\ time <= LastPost
    /\ Net!SendDirect(k, server, text)
    /\ UNCHANGED <<boardVars, roomNow, time, reports, said, faults>>

ClientTick(k) ==
    /\ k \in Home /\ now[k] < time
    /\ Net!Tick(k, time)
    /\ UNCHANGED <<boardVars, roomNow, time, reports, said, drafts, faults>>

-----------------------------------------------------------------------------
\* Loops are much faster than timeouts: by the next moment every node has had
\* its turns, and the server has made every push it could.
AllTurned ==
    /\ \A n \in Home \cup {server} : now[n] = time
    /\ roomNow = time /\ reports = <<>> /\ Board!PushSteps(time) = {}

\* Frames take less than a moment, or else one is late.
Pass ==
    /\ AllTurned /\ time < MaxTime
    /\ air = {} \/ faults < MaxFaults
    /\ time' = time + 1
    /\ faults' = IF air = {} THEN faults ELSE faults + 1
    /\ UNCHANGED <<boardVars, roomNow, netVars, now, reports, said, drafts>>

Lose(m) ==
    /\ faults < MaxFaults
    /\ faults' = faults + 1
    /\ air' = air \ {m}
    /\ UNCHANGED <<boardVars, roomNow, nextId, seen, seenNext, queue, pending, routes,
                   sends, heard, now, time, reports, said, drafts>>

Next ==
    \/ \E m \in air : m.to = server /\ Receive(m.frame)
    \/ \E m \in air : m.to # server /\ ClientReceive(m.to, m.frame)
    \/ RouterTick
    \/ Report
    \/ RoomTick
    \/ \E k \in Keys, text \in Texts : Write(k, text)
    \/ \E k \in Keys : ClientTick(k)
    \/ Pass
    \/ \E m \in air : Lose(m)

\* Something is left that happens by itself: a loop has a turn to take, a frame
\* is to arrive, or time can pass.
Busy == ~AllTurned \/ air # {} \/ time < MaxTime

\* Loops turn, clocks move, and a frame that is neither lost nor late arrives.
\* Every step uses something up, so this is weak fairness of those steps.
Spec == Init /\ [][Next]_vars /\ []<>~Busy

-----------------------------------------------------------------------------
(* Properties.                                                             *)

\* What RoomSync knows of routing, read off Router.
Waiting == {s \in sends : s.from = server /\ s.fate = "waiting"}
StillToReport == {s \in sends : s.from = server /\ \E i \in 1..Len(reports) : reports[i] = s.id}
Open ==
    [id \in {s.id : s \in Waiting \cup StillToReport} |->
        LET s == CHOOSE x \in sends : x.from = server /\ x.id = id
        IN  [to |-> s.to, seq |-> s.text]]
Pushed == [k \in Keys |-> {s.text : s \in {x \in sends : x.from = server /\ x.to = k}}]
Reached == [k \in Keys |-> {seq \in 1..MaxSeq : <<k, server, seq>> \in heard}]

Sync == INSTANCE RoomSync WITH
    now <- roomNow, Stamps <- {0}, LoginStamps <- {1}, RequestStamps <- {0},
    Epochs <- {0}, Passwords <- {NoPassword}, Ids <- Ids,
    MaxLoginFailures <- 1, MaxLoginAttempts <- 1, LoginLockout <- 1,
    ClockWindow <- 0, KeepsBoard <- TRUE, FirstConfig <- OpenRoom,
    open <- Open, pushed <- Pushed, reached <- Reached, waived <- [k \in Keys |-> {}]

\* Every step of the room on top of routing is a step of RoomSync or leaves it
\* alone: an id routing hands out is not in use, a send is answered once, and
\* an ack that moves a bookmark comes from a client that has the post, through
\* retries, late acks, acks of an earlier send of the post, and frames dropped
\* as duplicates.
KeepsContract == [][Sync!SyncNext]_(Sync!syncVars)

\* A row that waits for an ack waits for a send routing still has, so that an
\* answer is coming: "With `wantAck` the frame is retried until the ack arrives
\* or the attempts run out" (routing README).  Nothing but an answer clears
\* Client::pending, and a row with it set is never pushed to.
AnswerComing ==
    \A i \in 1..Len(clients) : clients[i].pending =>
        \/ \E j \in 1..Len(pending[server]) : pending[server][j].id = clients[i].pendingId
        \/ \E j \in 1..Len(reports) : reports[j] = clients[i].pendingId

\* See Router: routing tells the room that a push was acknowledged only if the
\* reader has the post.
AckIsReceipt == Net!AckIsReceipt

\* See Router: while the table has room every push is tracked until its one
\* report, through retries and late acks.
TrackedOnce == Net!TrackedOnce

\* A text sent once is on the board once, however often routing repeats the
\* frame, because the duplicate cache outlasts the attempts.
PostedOnce == \A x, y \in said : x[1] = y[1] => x = y

\* See RoomSync: a bookmark passes a post only because it reached the client,
\* here with the acks that routing really reports.  "Only on acknowledgement.
\* Moving the bookmark at send time means a lost packet loses that post for the
\* client forever" (Room::onAck).
NothingLost == Sync!BookmarkCovered

\* What is left of that where a post is owed to several readers: a bookmark
\* passes a post only if the post was pushed to its client too, and some reader
\* it was pushed to has it.  No failure and no lost frame moves a bookmark.
PassedIsRead ==
    \A i \in 1..Len(clients), j \in 1..Len(posts) :
        LET c == clients[i]
            seq == posts[j].seq
        IN  seq <= c.syncSeq /\ posts[j].author # c.pk =>
                /\ seq \in Pushed[c.pk]
                /\ \E r \in Keys : seq \in Pushed[r] /\ <<r, server, seq>> \in heard

Owed(k, seq) ==
    \E i \in Board!RowsOf(clients, k) :
        \E j \in Board!Unread(clients[i]) : posts[j].seq = seq

\* A post owed to somebody at home is got and acknowledged in the end, so that
\* the next one can follow: although the frames of a retry and of the next push
\* are the ones the device has seen, and drops as duplicates without an answer
\* until its cache forgets them.
Acknowledged == \A k \in Home, seq \in 1..MaxSeq - 1 : Owed(k, seq) ~> ~Owed(k, seq)

\* A push to a reader whose fate the room has not heard yet.
Unanswered(k) == \E id \in DOMAIN Open : Open[id].to = k

\* Time is left for all attempts of a send made now.
TimeLeft == time + MaxAttempts * Max({FloodAckTimeout, DirectAckBase}) <= MaxTime

\* The room hears of every push in the end, of the first and of each one that
\* repeats it, by an ack or a failure: "onAck(id) / onDeliveryFailed(id) - the
\* fate of a sendDirect" (routing README).  A reader has one push at a time, so
\* that every one is answered when none is unanswered.
EverySendReported == \A k \in Keys : Unanswered(k) /\ TimeLeft ~> ~Unanswered(k)
=============================================================================
