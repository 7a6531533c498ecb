-------------------------------- MODULE Room --------------------------------
(***************************************************************************)
(* The noticeboard (src/room): posts in a ring, the table of logged-in     *)
(* clients with one bookmark each, logins and their lockouts, the push of  *)
(* one post at a time, the admin commands that change the room, and the    *)
(* state file.                                                             *)
(*                                                                         *)
(* The room runs on one thread and is called back by routing, so every     *)
(* handler is one action.  What routing does with a send is not modelled   *)
(* here: Next lets any send id be acknowledged or given up at any time,    *)
(* and RoomSync puts the contract with routing around these actions.       *)
(*                                                                         *)
(* A key stands for a public key and for the prefix of it kept as a post's *)
(* author.  Text, formatting and replies are left out.                     *)
(***************************************************************************)
EXTENDS Integers, Sequences, FiniteSets, FiniteSetsExt

CONSTANTS
    Keys,             \* public keys of the people who may talk to the room
    NoAuthor,         \* the zeroed author of a post that came in on a channel
    Stamps,           \* timestamps of posts, and the bookmarks made of them
    LoginStamps,      \* timestamps of logins
    RequestStamps,    \* timestamps of requests and commands
    Epochs,           \* readings of the wall clock
    Passwords,        \* passwords offered or configured
    NoPassword,       \* the empty password, one of Passwords
    Ids,              \* send ids routing hands out
    MaxTime,          \* bound on the monotonic clock
    MaxSeq,           \* bound on the sequence numbers handed out
    MaxPosts,         \* MAX_POSTS
    MaxClients,       \* MAX_ROOM_CLIENTS
    MaxLoginFailures, \* MAX_LOGIN_FAILURES
    MaxLoginAttempts, \* Config::maxLoginAttempts
    LoginLockout,     \* Config::loginLockout
    RetryDelay,       \* Config::retryDelay
    ClockWindow,      \* Config::clockWindow
    KeepsBoard,       \* keepsBoard(Config::type)
    FirstConfig       \* the configuration file a fresh node starts with

ASSUME RoomAssumption ==
    /\ NoAuthor \notin Keys
    /\ Stamps \subseteq Nat /\ LoginStamps \subseteq Nat
    /\ RequestStamps \subseteq Nat /\ Epochs \subseteq Nat
    /\ NoPassword \in Passwords
    /\ MaxTime \in Nat /\ MaxSeq \in Nat
    /\ MaxPosts \in Nat \ {0} /\ MaxClients \in Nat \ {0}
    /\ MaxLoginFailures \in Nat \ {0} /\ MaxLoginAttempts \in Nat
    /\ LoginLockout \in Nat \ {0} /\ RetryDelay \in Nat /\ ClockWindow \in Nat
    /\ KeepsBoard \in BOOLEAN
    /\ FirstConfig \in [admin : Passwords, guest : Passwords, anon : BOOLEAN]

VARIABLES
    now,           \* now_: monotonic milliseconds, moved by tick
    serverTime,    \* serverTime_: wall clock, 0 while unknown
    posts,         \* posts_: the ring, oldest first
    nextSeq,       \* nextSeq_
    clients,       \* clients_
    nextClientIdx, \* nextClientIdx_: where the round robin resumes (from 0)
    failures,      \* failures_: wrong passwords, not saved
    config,        \* the part of config_ that commands change; the overlay on
                   \* disk holds the same, being written before it is applied
    disk           \* room.dat

vars == <<now, serverTime, posts, nextSeq, clients, nextClientIdx, failures,
          config, disk>>

Access == {"NONE", "READ_ONLY", "GUEST", "ADMIN"}
Settings == [admin : Passwords, guest : Passwords, anon : BOOLEAN]
Post == [seq : Nat, timestamp : Nat, author : Keys \cup {NoAuthor}]
Client == [pk : Keys, access : Access, syncSeq : Nat, lastLogin : Nat,
           lastCommand : Nat, lastRequest : Nat, pending : BOOLEAN,
           pendingId : Ids \cup {0}, pendingSeq : Nat, retryAfter : Nat]
Failure == [pk : Keys, count : Nat, until : Nat]
SavedClient == [pk : Keys, access : Access, syncSeq : Nat, lastLogin : Nat]
State == [nextSeq : Nat \ {0}, posts : Seq(Post), clients : Seq(SavedClient)]

TypeOK ==
    /\ now \in Nat /\ serverTime \in Nat /\ nextSeq \in Nat \ {0}
    /\ posts \in Seq(Post) /\ clients \in Seq(Client)
    /\ failures \in Seq(Failure)
    /\ nextClientIdx \in Nat
    /\ config \in Settings
    /\ disk \in State

Init ==
    /\ now = 0 /\ serverTime = 0
    /\ posts = <<>> /\ nextSeq = 1
    /\ clients = <<>> /\ nextClientIdx = 0
    /\ failures = <<>>
    /\ config = FirstConfig
    /\ disk = [nextSeq |-> 1, posts |-> <<>>, clients |-> <<>>]

-----------------------------------------------------------------------------
(* Helpers.                                                                *)

\* std::vector::erase at position i.
Erase(s, i) == [j \in 1..Len(s) - 1 |-> IF j < i THEN s[j] ELSE s[j + 1]]

\* Where findClient finds a key: the empty set or the first position.
RowsOf(table, k) == {i \in 1..Len(table) : table[i].pk = k}

CanRead(c) == c.access # "NONE"
CanPost(c) == KeepsBoard /\ c.access \in {"GUEST", "ADMIN"}
CanCommand(c) == c.access = "ADMIN"

SanitiseTimestamp(claimed) ==
    IF serverTime = 0 \/ claimed \in serverTime - ClockWindow .. serverTime + ClockWindow
    THEN claimed
    ELSE serverTime

\* Posts a client has still to be given: past its bookmark and not its own.
Unread(c) == {i \in 1..Len(posts) : posts[i].seq > c.syncSeq /\ posts[i].author # c.pk}

\* Wrong: one too few, and below zero on an empty board.
SeqFromTimestampOff(bookmark) == Len(posts) - 1

\* The bookmark a client states as a time, as the seq of the last post before
\* the first one newer than it.
SeqFromTimestamp(bookmark) ==
    LET unseen == {i \in 1..Len(posts) : posts[i].timestamp > bookmark}
        count  == IF unseen = {} THEN Len(posts) ELSE Min(unseen) - 1
    IN  IF count = 0 THEN 0 ELSE posts[count].seq

-----------------------------------------------------------------------------
(* The board.                                                              *)

AddPost(author, timestamp) ==
    LET post == [seq |-> nextSeq, timestamp |-> SanitiseTimestamp(timestamp),
                 author |-> author]
        kept == IF Len(posts) >= MaxPosts THEN Tail(posts) ELSE posts
    IN  /\ nextSeq < MaxSeq
        /\ nextSeq' = nextSeq + 1
        /\ posts' = Append(kept, post)

\* handleText, PLAIN: a post somebody logged in sent us.
HandleText(k, timestamp) ==
    /\ \E i \in RowsOf(clients, k) : CanPost(clients[i])
    /\ AddPost(k, timestamp)
    /\ UNCHANGED <<now, serverTime, clients, nextClientIdx, failures, config,
                   disk>>

\* A channel message becomes a post without an author, and nothing else.
OnGroup(timestamp) ==
    /\ KeepsBoard
    /\ AddPost(NoAuthor, timestamp)
    /\ UNCHANGED <<now, serverTime, clients, nextClientIdx, failures, config,
                   disk>>

-----------------------------------------------------------------------------
(* Logins.                                                                 *)

Matches(offered, expected) == expected # NoPassword /\ offered = expected

AccessFor(password) ==
    CASE Matches(password, config.admin) -> "ADMIN"
      [] ~Matches(password, config.admin) /\ Matches(password, config.guest) -> "GUEST"
      [] OTHER -> IF config.anon THEN "READ_ONLY" ELSE "NONE"

LockedOut(k) == \E i \in RowsOf(failures, k) : failures[i].until > now

\* Asking lockedOut forgets a lockout that has run out, count and all.
AfterLockCheck(k) ==
    LET expired == {i \in RowsOf(failures, k) :
                       failures[i].until # 0 /\ failures[i].until <= now}
    IN  IF expired = {} THEN failures ELSE Erase(failures, Min(expired))

Forgotten(table, k) ==
    IF RowsOf(table, k) = {} THEN table ELSE Erase(table, Min(RowsOf(table, k)))

\* Wrong: whoever failed first gives way, locked out or not.
FailureVictimHead(table) == 1

\* The row that gives way when the table is full: the one closest to expiring.
FailureVictim(table) ==
    LET soonest == Min({table[i].until : i \in 1..Len(table)})
    IN  Min({i \in 1..Len(table) : table[i].until = soonest})

NoteFailure(table, k) ==
    LET row(count, until) ==
            [pk |-> k, count |-> count,
             until |-> IF count >= MaxLoginAttempts THEN now + LoginLockout ELSE until]
        kept == IF Len(table) >= MaxLoginFailures
                THEN Erase(table, FailureVictim(table))
                ELSE table
    IN  IF RowsOf(table, k) = {}
        THEN Append(kept, row(1, 0))
        ELSE LET i == Min(RowsOf(table, k))
             IN  [table EXCEPT ![i] =
                     row(IF @.count < 255 THEN @.count + 1 ELSE 255, @.until)]

\* Wrong: the head of the list gives way.
ClientVictimHead == 1

\* Never an admin while anybody else is in the table, and otherwise whoever
\* logged in longest ago.
ClientVictim ==
    LET guests == {i \in 1..Len(clients) : clients[i].access # "ADMIN"}
        pool   == IF guests = {} THEN 1..Len(clients) ELSE guests
        oldest == Min({clients[i].lastLogin : i \in pool})
    IN  Min({i \in pool : clients[i].lastLogin = oldest})

NewClient(k) ==
    [pk |-> k, access |-> "NONE", syncSeq |-> 0, lastLogin |-> 0,
     lastCommand |-> 0, lastRequest |-> 0, pending |-> FALSE, pendingId |-> 0,
     pendingSeq |-> 0, retryAfter |-> 0]

\* Wrong: a row for every login.
AdmittedAgain(k) == Append(clients, NewClient(k))

\* The table once k has a row in it.
Admitted(k) ==
    IF RowsOf(clients, k) # {}
    THEN clients
    ELSE Append(IF Len(clients) >= MaxClients THEN Erase(clients, ClientVictim) ELSE clients,
                NewClient(k))

\* A login that gets past the replay check and the lockout.  The bookmark is
\* the client's own; a push in flight is left alone.
OnAnon(k, password, timestamp, since) ==
    LET access  == AccessFor(password)
        checked == AfterLockCheck(k)
        table   == Admitted(k)
        row     == Min(RowsOf(table, k))
    IN  /\ \A i \in RowsOf(clients, k) : timestamp > clients[i].lastLogin
        /\ ~LockedOut(k)
        /\ failures' = CASE access \in {"GUEST", "ADMIN"} -> Forgotten(checked, k)
                         [] access \in {"NONE", "READ_ONLY"} /\ password = NoPassword -> checked
                         [] OTHER -> NoteFailure(checked, k)
        /\ clients' = IF access = "NONE" THEN clients
                      ELSE [table EXCEPT ![row].access = access,
                                         ![row].lastLogin = timestamp,
                                         ![row].syncSeq = SeqFromTimestamp(since)]
        /\ UNCHANGED <<now, serverTime, posts, nextSeq, nextClientIdx, config, disk>>

-----------------------------------------------------------------------------
(* Requests and commands of a logged-in client.                            *)

\* handleRequest, STATUS: answered, and only the replay guard moves.
StatusRequest(k, timestamp) ==
    \E i \in RowsOf(clients, k) :
        /\ timestamp >= clients[i].lastRequest
        /\ clients' = [clients EXCEPT ![i].lastRequest = timestamp]
        /\ UNCHANGED <<now, serverTime, posts, nextSeq, nextClientIdx, failures,
                       config, disk>>

\* handleRequest, KEEP_ALIVE: the retry pause is dropped, and a bookmark that
\* rides along (zero is none) replaces ours.
KeepAlive(k, timestamp, since) ==
    \E i \in RowsOf(clients, k) :
        /\ timestamp >= clients[i].lastRequest
        /\ CanRead(clients[i])
        /\ clients' = [clients EXCEPT
               ![i].lastRequest = timestamp,
               ![i].retryAfter  = 0,
               ![i].syncSeq     = IF since > 0 THEN SeqFromTimestamp(since) ELSE @]
        /\ UNCHANGED <<now, serverTime, posts, nextSeq, nextClientIdx, failures,
                       config, disk>>

\* handleCommand as far as every command shares it: admin rights, and a
\* timestamp that does not run backwards.
Commanded(k, timestamp) ==
    \E i \in RowsOf(clients, k) :
        /\ CanCommand(clients[i])
        /\ timestamp >= clients[i].lastCommand
        /\ clients' = [clients EXCEPT ![i].lastCommand = timestamp]

\* The commands that only answer, or that act on the host and not the room.
CommandAnswer(k, timestamp) ==
    /\ Commanded(k, timestamp)
    /\ UNCHANGED <<now, serverTime, posts, nextSeq, nextClientIdx, failures,
                   config, disk>>

CommandClock(k, timestamp, epoch) ==
    /\ Commanded(k, timestamp)
    /\ serverTime' = epoch
    /\ UNCHANGED <<now, posts, nextSeq, nextClientIdx, failures, config, disk>>

\* set password, guest.password or anonymous.read, once the host has stored it.
CommandSet(k, timestamp) ==
    /\ Commanded(k, timestamp)
    /\ \/ \E p \in Passwords : config' = [config EXCEPT !.admin = p]
       \/ \E p \in Passwords : config' = [config EXCEPT !.guest = p]
       \/ \E b \in BOOLEAN : config' = [config EXCEPT !.anon = b]
    /\ UNCHANGED <<now, serverTime, posts, nextSeq, nextClientIdx, failures, disk>>

\* clear posts: the clients keep their bookmarks.
CommandClear(k, timestamp) ==
    /\ KeepsBoard
    /\ Commanded(k, timestamp)
    /\ posts' = <<>>
    /\ UNCHANGED <<now, serverTime, nextSeq, nextClientIdx, failures, config, disk>>

-----------------------------------------------------------------------------
(* The push: one client a tick, one post at a time per client.             *)

\* The clients nextClientToPush would stop at, as steps from nextClientIdx.
PushSteps(t) ==
    {step \in 0..Len(clients) - 1 :
        LET c == clients[((nextClientIdx + step) % Len(clients)) + 1]
        IN  ~c.pending /\ c.retryAfter <= t /\ CanRead(c) /\ Unread(c) # {}}

\* The row tick pushes to at time t; there is one when PushSteps(t) # {}.
PushRow(t) == ((nextClientIdx + Min(PushSteps(t))) % Len(clients)) + 1

\* The post that row is given.
PushPost(t) == posts[Min(Unread(clients[PushRow(t)]))]

\* tick: time moves, and the next client in turn that is owed a post gets it
\* sent.  id is what sendDirect returns.
Tick(t, id) ==
    /\ t >= now
    /\ now' = t
    /\ IF PushSteps(t) = {}
       THEN UNCHANGED <<clients, nextClientIdx>>
       ELSE /\ clients' = [clients EXCEPT
                  ![PushRow(t)].pending    = TRUE,
                  ![PushRow(t)].pendingId  = id,
                  ![PushRow(t)].pendingSeq = PushPost(t).seq]
            /\ nextClientIdx' = PushRow(t) % Len(clients)
    /\ UNCHANGED <<serverTime, posts, nextSeq, failures, config, disk>>

\* The rows waiting for the fate of a send.
WaitingFor(id) == {i \in 1..Len(clients) : clients[i].pending /\ clients[i].pendingId = id}

\* Wrong: the row goes on waiting.
OnAckWaiting(id) ==
    /\ WaitingFor(id) # {}
    /\ LET i == Min(WaitingFor(id)) IN
       clients' = [clients EXCEPT ![i].syncSeq = clients[i].pendingSeq]
    /\ UNCHANGED <<now, serverTime, posts, nextSeq, nextClientIdx, failures,
                   config, disk>>

\* The only place a delivery moves a bookmark.
OnAck(id) ==
    /\ WaitingFor(id) # {}
    /\ LET i == Min(WaitingFor(id)) IN
       clients' = [clients EXCEPT ![i].syncSeq    = clients[i].pendingSeq,
                                  ![i].pending    = FALSE,
                                  ![i].retryAfter = 0]
    /\ UNCHANGED <<now, serverTime, posts, nextSeq, nextClientIdx, failures,
                   config, disk>>

\* Wrong: a failed delivery counts as a delivery, or leaves the row waiting.
OnDeliveryFailedMoves(id) == OnAck(id)
OnDeliveryFailedWaiting(id) ==
    /\ WaitingFor(id) # {}
    /\ LET i == Min(WaitingFor(id)) IN
       clients' = [clients EXCEPT ![i].retryAfter = now + RetryDelay]
    /\ UNCHANGED <<now, serverTime, posts, nextSeq, nextClientIdx, failures,
                   config, disk>>

OnDeliveryFailed(id) ==
    /\ WaitingFor(id) # {}
    /\ LET i == Min(WaitingFor(id)) IN
       clients' = [clients EXCEPT ![i].pending    = FALSE,
                                  ![i].retryAfter = now + RetryDelay]
    /\ UNCHANGED <<now, serverTime, posts, nextSeq, nextClientIdx, failures,
                   config, disk>>

SetServerTime(t) ==
    /\ serverTime' = t
    /\ UNCHANGED <<now, posts, nextSeq, clients, nextClientIdx, failures, config,
                   disk>>

-----------------------------------------------------------------------------
(* The state file.  It is replaced by a rename, so it holds one whole      *)
(* state: a write that fails or is cut short leaves the one before.        *)

Flush ==
    /\ disk' = [nextSeq |-> nextSeq, posts |-> posts,
                clients |-> [i \in 1..Len(clients) |->
                    [pk |-> clients[i].pk, access |-> clients[i].access,
                     syncSeq |-> clients[i].syncSeq,
                     lastLogin |-> clients[i].lastLogin]]]
    /\ UNCHANGED <<now, serverTime, posts, nextSeq, clients, nextClientIdx,
                   failures, config>>

\* Wrong: counted again from the posts that are left.
ResumedSeqRecounted == Len(disk.posts) + 1

\* The numbering readState resumes from: the saved one, raised past every
\* post on disk.
ResumedSeq ==
    Min({n \in disk.nextSeq .. MaxSeq + disk.nextSeq :
            \A i \in 1..Len(disk.posts) : disk.posts[i].seq < n})

\* A crash or a reboot and the load that follows.
Restart ==
    /\ now' = 0 /\ serverTime' = 0
    /\ posts' = disk.posts
    /\ nextSeq' = ResumedSeq
    /\ clients' = [i \in 1..Len(disk.clients) |->
           [NewClient(disk.clients[i].pk) EXCEPT
               !.access    = disk.clients[i].access,
               !.syncSeq   = disk.clients[i].syncSeq,
               !.lastLogin = disk.clients[i].lastLogin]]
    /\ nextClientIdx' = 0
    /\ failures' = <<>>
    /\ UNCHANGED <<config, disk>>

-----------------------------------------------------------------------------
\* What comes in that is neither a bookmark nor the fate of a push.
Request ==
    \/ \E k \in Keys, ts \in Stamps : HandleText(k, ts)
    \/ \E ts \in Stamps : OnGroup(ts)
    \/ \E k \in Keys, ts \in RequestStamps : StatusRequest(k, ts)
    \/ \E k \in Keys, ts \in RequestStamps : CommandAnswer(k, ts)
    \/ \E k \in Keys, ts \in RequestStamps, epoch \in Epochs : CommandClock(k, ts, epoch)
    \/ \E k \in Keys, ts \in RequestStamps : CommandClear(k, ts)
    \/ \E epoch \in Epochs : SetServerTime(epoch)
    \/ Flush

Next ==
    \/ Request
    \/ \E k \in Keys, pw \in Passwords, ts \in LoginStamps, since \in Stamps :
           OnAnon(k, pw, ts, since)
    \/ \E k \in Keys, ts \in RequestStamps, since \in Stamps : KeepAlive(k, ts, since)
    \/ \E k \in Keys, ts \in RequestStamps : CommandSet(k, ts)
    \/ \E t \in 0..MaxTime, id \in Ids : Tick(t, id)
    \/ \E id \in Ids : OnAck(id)
    \/ \E id \in Ids : OnDeliveryFailed(id)
    \/ Restart

Spec == Init /\ [][Next]_vars

-----------------------------------------------------------------------------
(* Properties.                                                             *)

\* The ring is in the order of its numbers, within its size, and every number
\* in it has been handed out.
InOrder(ring, next) ==
    /\ \A i, j \in 1..Len(ring) : i < j => ring[i].seq < ring[j].seq
    /\ \A i \in 1..Len(ring) : ring[i].seq \in 1..next - 1
    /\ Len(ring) <= MaxPosts

\* Every bookmark, in memory and in room.dat, is below the next number to be
\* handed out, so that a new post is unread for every client that did not
\* write it: through evictions from the ring, "clear posts" (which keeps the
\* bookmarks, room.cpp commandClear), logins, pushes and restarts from a file
\* older than the posts lost with it (nextSeq_ is saved, not recomputed).
BookmarksBehind ==
    /\ InOrder(posts, nextSeq)
    /\ \A i \in 1..Len(clients) : clients[i].syncSeq < nextSeq /\ clients[i].pendingSeq < nextSeq
    /\ InOrder(disk.posts, disk.nextSeq)
    /\ \A i \in 1..Len(disk.clients) : disk.clients[i].syncSeq < disk.nextSeq

\* One row per key in the client table and in the failure table, neither
\* longer than its bound: what findClient, lockedOut and clearFailures, which
\* stop at the first row, rely on; through evictions, expiries and restarts.
TablesConsistent ==
    /\ Len(clients) <= MaxClients /\ Len(failures) <= MaxLoginFailures
    /\ \A i, j \in 1..Len(clients) : clients[i].pk = clients[j].pk => i = j
    /\ \A i, j \in 1..Len(failures) : failures[i].pk = failures[j].pk => i = j
    /\ \A i, j \in 1..Len(disk.clients) :
           disk.clients[i].pk = disk.clients[j].pk => i = j
    /\ Len(disk.clients) <= MaxClients

Restarted == now' = 0 /\ failures' = <<>> /\ posts' = disk.posts
AdminKeys == {clients[i].pk : i \in {j \in 1..Len(clients) : clients[j].access = "ADMIN"}}
AllKeys == {clients[i].pk : i \in 1..Len(clients)}

\* An admin loses its row only to a restart or when the table holds nobody but
\* admins (evictClient: "Never the admin while anybody else is in the table").
AdminKept ==
    [][AdminKeys \subseteq AllKeys' \/ AdminKeys = AllKeys \/ Restarted]_vars

Locked == {failures[i].pk : i \in {j \in 1..Len(failures) : failures[j].until > now}}

\* A lockout in force ends early only with a restart, or when the failure
\* table is full of lockouts in force and one has to give way (noteFailure:
\* "The one closest to expiring goes, never a fresh lockout").
LockoutKept ==
    [][\/ \A k \in Locked : k \in Locked' \/ \A i \in RowsOf(failures, k) : failures[i].until <= now'
       \/ Cardinality(Locked) = MaxLoginFailures
       \/ Restarted]_vars
=============================================================================
