------------------------------- MODULE Router -------------------------------
(***************************************************************************)
(* Routing (src/routing) on every node of a small mesh: deduplication,     *)
(* flood and direct forwarding, path learning, acks and retries.  Each     *)
(* node runs on one thread, so a handler is one action; between nodes there *)
(* is only the air, which loses and reorders frames.                       *)
(*                                                                         *)
(* A node stands for its key and for the one-byte hash of it.  Payloads    *)
(* are sealed to a pair of nodes and opened by a receiver only if its MAC  *)
(* checks out, so a sealed payload names its two ends.  A frame handed to  *)
(* the radio is on the air at once; the radio's queue is not modelled here.*)
(* The layer above acknowledges every text, as Room::shouldAck does.       *)
(***************************************************************************)
EXTENDS Tables

CONSTANTS
    Nodes,           \* the nodes of the mesh
    Links,           \* pairs <<m, n>> such that n hears m
    Repeaters,       \* nodes whose delegate lets packets through
    Traffic,         \* what the layers above send: <<from, to, text>>
    Logins,          \* login requests they send: <<from, to, text>>
    MaxTime,         \* bound on every node's clock
    MaxSends,        \* bound on the sends of a node
    MaxPending,      \* Config::maxPending
    MaxRoutes,       \* Config::maxRoutes
    MaxAttempts,     \* Config::maxAttempts
    FloodAckTimeout, \* Config::floodAckTimeout
    DirectAckBase,   \* Config::directAckBase
    DirectAckPerHop, \* Config::directAckPerHop
    ForwardDelays,   \* airtime * forwardAirtimeFactor + jitter
    SeenSlots,       \* Config::seenSlots
    SeenTtl,         \* Config::seenTtl, 0 for never
    MaxHops,         \* MAX_HOP_COUNT
    MaxReadings      \* readings a trace has room for in MAX_PACKET_PAYLOAD

ASSUME RouterAssumption ==
    /\ Links \subseteq Nodes \X Nodes /\ Repeaters \subseteq Nodes
    /\ \A s \in Traffic \cup Logins : s[1] \in Nodes /\ s[2] \in Nodes
    /\ MaxTime \in Nat /\ MaxSends \in Nat /\ MaxPending \in Nat
    /\ MaxRoutes \in Nat \ {0} /\ MaxAttempts \in Nat \ {0}
    /\ FloodAckTimeout \in Nat \ {0} /\ DirectAckBase \in Nat \ {0}
    /\ DirectAckPerHop \in Nat /\ ForwardDelays \subseteq Nat
    /\ SeenSlots \in Nat \ {0} /\ SeenTtl \in Nat /\ MaxHops \in Nat
    /\ MaxReadings \in Nat

VARIABLES
    now,      \* now_ of each node
    nextId,   \* nextId_
    seen,     \* seen_: the duplicate cache, slots numbered from 0
    seenNext, \* seenNext_
    queue,    \* queue_: frames of others waiting to be passed on.  A set: what
              \* order the radio gets them in makes no difference to the air
    pending,  \* pending_: sends waiting for their ack
    routes,   \* routes_
    air,      \* frames on the air: [to, frame], one for each node in range.
              \* One that is lost stays there and is never taken
    sends,    \* every sendDirect with an ack wanted, and what came of it
    heard     \* payloads handed to the layer above: <<node, from, text>>

vars == <<now, nextId, seen, seenNext, queue, pending, routes, air, sends, heard>>

Unused == [hash |-> <<>>, at |-> 0]

IsFrame(f) ==
    /\ DOMAIN f = {"type", "route", "path", "payload"}
    /\ f.type \in {"TXT_MSG", "PATH", "ACK", "ANON_REQ", "ADVERT", "TRACE"}
    /\ f.route \in {"FLOOD", "DIRECT"}
    /\ f.path \in Seq(Nodes)
    /\ f.type \in {"TXT_MSG", "PATH", "ANON_REQ"} => f.payload.from \in Nodes /\ f.payload.to \in Nodes
    /\ f.type = "PATH" => f.payload.plain \in Seq(Nodes)
    /\ f.type = "TRACE" => f.payload \in Seq(Nodes)

TypeOK ==
    /\ now \in [Nodes -> Nat] /\ nextId \in [Nodes -> Nat]
    /\ seenNext \in [Nodes -> 0..SeenSlots - 1]
    /\ \A n \in Nodes : DOMAIN seen[n] = 0..SeenSlots - 1
    /\ \A n \in Nodes : \A d \in queue[n] : d.notBefore \in Nat /\ IsFrame(d.frame)
    /\ \A n \in Nodes : \A i \in 1..Len(pending[n]) :
           /\ pending[n][i].id \in 1..nextId[n] - 1
           /\ pending[n][i].to \in Nodes
           /\ IsFrame(pending[n][i].frame)
    /\ \A n \in Nodes : \A i \in 1..Len(routes[n]) :
           routes[n][i].to \in Nodes /\ routes[n][i].path \in Seq(Nodes)
    /\ \A m \in air : m.to \in Nodes /\ IsFrame(m.frame)
    /\ \A x \in sends : x.fate \in {"waiting", "acked", "failed"}

Init ==
    /\ now = [n \in Nodes |-> 0]
    /\ nextId = [n \in Nodes |-> 1]
    /\ seen = [n \in Nodes |-> [i \in 0..SeenSlots - 1 |-> Unused]]
    /\ seenNext = [n \in Nodes |-> 0]
    /\ queue = [n \in Nodes |-> {}]
    /\ pending = [n \in Nodes |-> <<>>]
    /\ routes = [n \in Nodes |-> <<>>]
    /\ air = {} /\ sends = {} /\ heard = {}

-----------------------------------------------------------------------------
(* Frames.                                                                 *)

Frame(type, route, path, payload) ==
    [type |-> type, route |-> route, path |-> path, payload |-> payload]

\* An envelope: sealed with the secret its two ends share, both named outside.
Envelope(from, to, plain) == [from |-> from, to |-> to, plain |-> plain]

\* What the duplicate cache knows a frame by.  The path grows on every hop and
\* is left out; the readings of a trace are payload, and are not.
HashOf(frame) == <<frame.type, frame.route, frame.payload>>

\* Wrong: the plaintext is left out.
ExpectedAckOfSender(plain, sender) == [plain |-> sender, sender |-> sender]

\* Hashed over the plaintext and its sender, and over nothing of the receiver.
ExpectedAck(plain, sender) == [plain |-> plain, sender |-> sender]

\* Wrong: not reversed.
ReversePathKept(path) == path

ReversePath(path) == [i \in 1..Len(path) |-> path[Len(path) + 1 - i]]

\* handToRadio: everybody in range may hear it.
OnAir(n, frames) ==
    {[to |-> link[2], frame |-> frame] : link \in {l \in Links : l[1] = n}, frame \in frames}

-----------------------------------------------------------------------------
(* Deduplication.                                                          *)

\* Wrong: an entry counts only until the clock moves.
SeenThisTurn(n, frame) ==
    \E i \in 0..SeenSlots - 1 : seen[n][i] = [hash |-> HashOf(frame), at |-> now[n] + 1]

\* Wrong: nothing is ever too old.
SeenEver(n, frame) == \E i \in 0..SeenSlots - 1 : seen[n][i].hash = HashOf(frame)

\* The first slot with the hash decides, whatever is in the slots after it.
AlreadySeen(n, frame) ==
    LET slots == {i \in 0..SeenSlots - 1 :
                     seen[n][i].at # 0 /\ seen[n][i].hash = HashOf(frame)}
    IN  /\ slots # {}
        /\ SeenTtl = 0 \/ now[n] + 1 - seen[n][Min(slots)].at < SeenTtl

\* Wrong: runs off the end of the cache.
NextSlotUnwrapped(slot, count) == slot + count

NextSlot(slot, count) == (slot + count) % SeenSlots

\* rememberSeen, for several frames one after the other.
RememberSeen(n, frames) ==
    LET latest(s) == {i \in 1..Len(frames) : NextSlot(seenNext[n], i - 1) = s}
    IN  /\ seen' = [seen EXCEPT ![n] = [s \in 0..SeenSlots - 1 |->
              IF latest(s) = {} THEN seen[n][s]
              ELSE [hash |-> HashOf(frames[Max(latest(s))]), at |-> now[n] + 1]]]
        /\ seenNext' = [seenNext EXCEPT ![n] = NextSlot(@, Len(frames))]

-----------------------------------------------------------------------------
(* Routes.  A table is an argument, because one step may change it twice.  *)

RoutesTo(table, to) == {i \in 1..Len(table) : table[i].to = to}

\* installRoute, and the table half of learnRouteFrom.
InstallRoute(table, to, path) ==
    LET kept == IF Len(table) >= MaxRoutes THEN Tail(table) ELSE table
    IN  IF RoutesTo(table, to) # {}
        THEN [table EXCEPT ![Min(RoutesTo(table, to))].path = path]
        ELSE Append(kept, [to |-> to, path |-> path])

ForgetRoutes(table, gone) == Keep(table, {i \in 1..Len(table) : table[i].to \notin gone})

\* A frame of our own: along the route where there is one, by flood otherwise.
BuildFrame(table, type, to, payload) ==
    IF RoutesTo(table, to) = {}
    THEN Frame(type, "FLOOD", <<>>, payload)
    ELSE Frame(type, "DIRECT", table[Min(RoutesTo(table, to))].path, payload)

-----------------------------------------------------------------------------
(* Receiving.                                                              *)

\* deliverToSelf, onto the routing table: the way a flood came is the way back,
\* and a returned path is the way there.
Learned(n, frame) ==
    LET from == frame.payload.from
        back == IF frame.route = "FLOOD"
                THEN InstallRoute(routes[n], from, ReversePath(frame.path))
                ELSE routes[n]
    IN  IF frame.type = "PATH" THEN InstallRoute(back, from, frame.payload.plain) ELSE back

\* sendPathReturn: the path a flood recorded, as it was recorded, on the way
\* back that has just been learned from it.
PathReturn(n, frame) ==
    LET from == frame.payload.from
        back == InstallRoute(routes[n], from, ReversePath(frame.path))
    IN  BuildFrame(back, "PATH", from, Envelope(n, from, frame.path))

\* sendAck, for what was handed up.
Ack(n, frame) ==
    BuildFrame(Learned(n, frame), "ACK", frame.payload.from,
               ExpectedAck(frame.payload.plain, frame.payload.from))

\* What deliverToSelf sends.
Answers(n, frame) ==
    (IF frame.route = "FLOOD" THEN <<PathReturn(n, frame)>> ELSE <<>>)
    \o (IF frame.type = "TXT_MSG" THEN <<Ack(n, frame)>> ELSE <<>>)

\* deliverToSelf.
Deliver(n, frame) ==
    /\ routes' = [routes EXCEPT ![n] = Learned(n, frame)]
    /\ heard' = IF frame.type = "PATH" THEN heard
                ELSE heard \cup {<<n, frame.payload.from, frame.payload.plain>>}
    /\ UNCHANGED <<pending, sends>>

\* deliverAnon: the way back is kept, no path is returned and nothing is acked.
DeliverAnon(n, frame) ==
    /\ routes' = [routes EXCEPT ![n] =
           IF frame.route = "FLOOD"
           THEN InstallRoute(@, frame.payload.from, ReversePath(frame.path)) ELSE @]
    /\ heard' = heard \cup {<<n, frame.payload.from, frame.payload.plain>>}
    /\ UNCHANGED <<pending, sends>>

Reported(n, id, fate) ==
    {IF s.from = n /\ s.id = id THEN [s EXCEPT !.fate = fate] ELSE s : s \in sends}

\* The entries of pending_ an ack would do for.
Awaiting(n, ack) == {i \in 1..Len(pending[n]) : pending[n][i].expectedAck = ack}

\* handleAck: the first send waiting for this number.
HandleAck(n, frame) ==
    LET waiting == Awaiting(n, frame.payload)
    IN  /\ IF waiting = {} THEN UNCHANGED <<pending, sends>>
           ELSE LET i == Min(waiting) IN
                /\ pending' = [pending EXCEPT ![n] =
                       [j \in 1..Len(@) - 1 |-> IF j < i THEN @[j] ELSE @[j + 1]]]
                /\ sends' = Reported(n, pending[n][i].id, "acked")
        /\ UNCHANGED <<routes, heard>>

\* A flood with our hash at the end of its path, if there is room for it, and a
\* direct frame without our hash at the head, if it is there.
AppendSelf(n, frame) ==
    IF Len(frame.path) < MaxHops THEN {[frame EXCEPT !.path = Append(@, n)]} ELSE {}
StripSelf(n, frame) ==
    IF frame.path # <<>> /\ Head(frame.path) = n THEN {[frame EXCEPT !.path = Tail(@)]} ELSE {}

\* appendTraceHop: how we heard a trace, a reading that is ours, at the end of
\* its payload.  Any other frame is left alone.
WithReading(n, frame) ==
    IF frame.type # "TRACE" THEN {frame}
    ELSE IF Len(frame.payload) >= MaxReadings THEN {}
    ELSE {[frame EXCEPT !.payload = Append(@, n)]}

\* considerForwarding, up to the frame it queues; the empty set if it stops.
Forwarded(n, frame) ==
    LET moved == IF frame.route = "FLOOD" THEN AppendSelf(n, frame) ELSE StripSelf(n, frame)
    IN  IF n \notin Repeaters THEN {} ELSE UNION {WithReading(n, f) : f \in moved}

Sealed(frame) == frame.type \in {"TXT_MSG", "PATH", "ANON_REQ"}

ForUs(n, frame) == Sealed(frame) /\ frame.payload.to = n

\* Wrong: no echo is noticed.
EchoIgnored(n, frame) == FALSE

\* A flood that comes back: it carries our hash.
Echo(n, frame) == frame.route = "FLOOD" /\ \E i \in 1..Len(frame.path) : frame.path[i] = n

\* onFrame.  delay is what the forwarding backoff comes to.
OnFrame(n, frame, delay) ==
    LET out == IF ForUs(n, frame) /\ frame.type # "ANON_REQ" THEN Answers(n, frame) ELSE <<>>
    IN
    /\ [to |-> n, frame |-> frame] \in air
    /\ IF AlreadySeen(n, frame)
       THEN /\ air' = air \ {[to |-> n, frame |-> frame]}
            /\ UNCHANGED <<seen, seenNext, queue, pending, routes, sends, heard>>
       ELSE IF Echo(n, frame)
       THEN /\ air' = air \ {[to |-> n, frame |-> frame]}
            /\ RememberSeen(n, <<frame>>)
            /\ UNCHANGED <<queue, pending, routes, sends, heard>>
       ELSE /\ air' = (air \ {[to |-> n, frame |-> frame]})
                      \cup OnAir(n, {out[i] : i \in 1..Len(out)})
            /\ RememberSeen(n, <<frame>> \o out)
            /\ CASE frame.type = "ACK" -> HandleAck(n, frame)
                 [] frame.type = "ANON_REQ" /\ ForUs(n, frame) -> DeliverAnon(n, frame)
                 [] frame.type \in {"TXT_MSG", "PATH"} /\ ForUs(n, frame) -> Deliver(n, frame)
                 [] OTHER -> UNCHANGED <<pending, routes, sends, heard>>
            /\ queue' = [queue EXCEPT ![n] = @ \cup
                  {[notBefore |-> now[n] + delay, frame |-> f] : f \in Forwarded(n, frame)}]
    /\ UNCHANGED <<now, nextId>>

-----------------------------------------------------------------------------
(* Sending.                                                                *)

Timeout(frame) ==
    IF frame.route = "FLOOD" THEN FloodAckTimeout
    ELSE DirectAckBase + DirectAckPerHop * Len(frame.path)

\* Wrong: off by one.
HasRoomForOneMore(n) == Len(pending[n]) + 1 < MaxPending

HasRoom(n) == Len(pending[n]) < MaxPending

\* sendDirect with an ack wanted.  A send that finds the table full goes out
\* once and is not tracked.  The returns for an addressee without a secret or a
\* payload too long are left out: whoever is sent to has been heard through a
\* secret, and the longest post fits.
SendDirect(n, to, text) ==
    LET frame == BuildFrame(routes[n], "TXT_MSG", to, Envelope(n, to, text))
        entry == [id |-> nextId[n], expectedAck |-> ExpectedAck(text, n),
                  deadline |-> now[n] + Timeout(frame), attempts |-> 1,
                  to |-> to, frame |-> frame]
    IN  /\ nextId[n] <= MaxSends
        /\ nextId' = [nextId EXCEPT ![n] = @ + 1]
        /\ pending' = [pending EXCEPT ![n] = IF HasRoom(n) THEN Append(@, entry) ELSE @]
        /\ RememberSeen(n, <<frame>>)
        /\ air' = air \cup OnAir(n, {frame})
        /\ sends' = sends \cup {[from |-> n, id |-> nextId[n], to |-> to, text |-> text,
                                 fate |-> "waiting"]}
        /\ UNCHANGED <<now, queue, routes, heard>>

\* sendFlood: a login request, a trace, an advert or a channel message, to be
\* carried by whoever repeats.
SendFlood(n, type, payload) ==
    LET frame == Frame(type, "FLOOD", <<>>, payload)
    IN  /\ RememberSeen(n, <<frame>>)
        /\ air' = air \cup OnAir(n, {frame})
        /\ UNCHANGED <<now, nextId, queue, pending, routes, sends, heard>>

-----------------------------------------------------------------------------
(* Time.                                                                   *)

\* Wrong: off by one.
OneAttemptTooMany(e) == e.attempts > MaxAttempts

OutOfAttempts(e) == e.attempts >= MaxAttempts

\* The sends tick gives up at t, and these in the order it reports them.
Failing(n, t) ==
    {i \in 1..Len(pending[n]) : pending[n][i].deadline <= t /\ OutOfAttempts(pending[n][i])}
GivenUp(n, t) == Keep(pending[n], Failing(n, t))

\* tick: what is due in the queue goes out; a send past its deadline is tried
\* again with the frame it was first sent in, or given up and its route with it.
\* The deadline of a further attempt has no part per hop.
Tick(n, t) ==
    LET due(d)    == d.notBefore <= t
        late(e)   == e.deadline <= t
        lost      == {pending[n][i] : i \in Failing(n, t)}
        again(e)  == IF ~late(e) THEN e
                     ELSE [e EXCEPT !.attempts = @ + 1,
                                    !.deadline = t + IF e.frame.route = "FLOOD"
                                                     THEN FloodAckTimeout ELSE DirectAckBase]
        kept      == Keep(pending[n], (1..Len(pending[n])) \ Failing(n, t))
        retried   == {kept[i].frame : i \in {j \in 1..Len(kept) : late(kept[j])}}
    IN  /\ t >= now[n]
        /\ now' = [now EXCEPT ![n] = t]
        /\ queue' = [queue EXCEPT ![n] = {d \in @ : ~due(d)}]
        /\ pending' = [pending EXCEPT ![n] = [i \in 1..Len(kept) |-> again(kept[i])]]
        /\ routes' = [routes EXCEPT ![n] = ForgetRoutes(@, {e.to : e \in lost})]
        /\ sends' = {IF s.from = n /\ s.id \in {e.id : e \in lost}
                     THEN [s EXCEPT !.fate = "failed"] ELSE s : s \in sends}
        /\ air' = air \cup OnAir(n, {d.frame : d \in {q \in queue[n] : due(q)}} \cup retried)
        /\ UNCHANGED <<nextId, seen, seenNext, heard>>

Next ==
    \/ \E s \in Traffic : SendDirect(s[1], s[2], s[3])
    \/ \E s \in Logins : SendFlood(s[1], "ANON_REQ", Envelope(s[1], s[2], s[3]))
    \/ \E n \in Nodes : SendFlood(n, "ADVERT", n)
    \/ \E n \in Nodes : SendFlood(n, "TRACE", <<>>)
    \/ \E m \in air, delay \in ForwardDelays : OnFrame(m.to, m.frame, delay)
    \/ \E n \in Nodes, t \in 0..MaxTime : Tick(n, t)

Spec == Init /\ [][Next]_vars

-----------------------------------------------------------------------------
(* Properties.                                                             *)

\* Consecutive nodes of a path hear each other.
Connected(path) == \A i \in 1..Len(path) - 1 : <<path[i], path[i + 1]>> \in Links

\* Every learned route leads from its owner to its destination over links that
\* exist: learned from a flood or from a returned path, the direction is right.
\* "Getting the direction wrong survives the first flood exchange and only
\* breaks direct packets" (routing.h, reversePath).
RoutesWork ==
    \A n \in Nodes : \A i \in 1..Len(routes[n]) :
        Connected(<<n>> \o routes[n][i].path \o <<routes[n][i].to>>)

\* What a flood says of the way it came is true, and it passed no node twice,
\* however small the duplicate cache; a trace holds a reading of every node of
\* its path, in that order ("the count only stays right if every hop appends
\* exactly one", routing.cpp).
FloodsTrue ==
    \A m \in air : m.frame.route = "FLOOD" =>
        /\ \A i, j \in 1..Len(m.frame.path) : m.frame.path[i] = m.frame.path[j] => i = j
        /\ Connected(Append(m.frame.path, m.to))
        /\ Sealed(m.frame) => Connected(<<m.frame.payload.from>> \o m.frame.path)
        /\ m.frame.type = "TRACE" => m.frame.payload = m.frame.path

\* A send reported as acknowledged was handed to the layer above at the node it
\* was addressed to: "onAck(id) / onDeliveryFailed(id) - the fate of a
\* sendDirect" (routing README).
AckIsReceipt ==
    \A s \in sends : s.fate = "acked" => <<s.to, s.from, s.text>> \in heard

\* Sends waiting for their ack and entries of pending_ are the same, one to
\* one, while the table has room: nothing is reported twice and nothing is
\* dropped without a report.
TrackedOnce ==
    \A n \in Nodes :
        /\ {pending[n][i].id : i \in 1..Len(pending[n])}
              = {s.id : s \in {x \in sends : x.from = n /\ x.fate = "waiting"}}
        /\ \A i, j \in 1..Len(pending[n]) : pending[n][i].id = pending[n][j].id => i = j
        /\ \A i \in 1..Len(pending[n]) : pending[n][i].attempts <= MaxAttempts
=============================================================================
