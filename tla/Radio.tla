------------------------------- MODULE Radio -------------------------------
(***************************************************************************)
(* The radio below routing (src/radio): the transmit queue, the duty cycle *)
(* and the two drivers a build can have.  UdpRadio empties the queue in    *)
(* one tick as far as the budget goes (VirtualRadio of the tests has the   *)
(* same loop); Sx1262Radio has one frame on the air at a time and waits    *)
(* for the chip to say that it has landed.                                 *)
(*                                                                         *)
(* One thread calls send and tick.  Of a received frame only what it does  *)
(* to the chip is left in a driver: what the layer above sends in answer   *)
(* to one is a Send.                                                       *)
(* Microseconds of airtime and milliseconds of clock are one unit here.    *)
(***************************************************************************)
EXTENDS Tables

CONSTANTS
    Frames,    \* frames by size
    Airtime,   \* airtimeUsFor of each of them
    BadFrames, \* frames too long for a driver to put on the air
    Depth,     \* Params::queueDepth
    Percent,   \* Params::dutyCyclePercent
    Window,    \* Params::dutyWindowMs
    Grace,     \* kTransmitGraceMs
    MaxTime,   \* bound on the clock
    MaxSends   \* bound on the frames accepted

ASSUME RadioAssumption ==
    /\ BadFrames \subseteq Frames /\ Airtime \in [Frames -> Nat]
    /\ Depth \in Nat \ {0} /\ Percent \in Nat /\ Window \in Nat \ {0}
    /\ Grace \in Nat /\ MaxTime \in Nat /\ MaxSends \in Nat

HIGH == 0
NORMAL == 1
LOW == 2
Priority == {HIGH, NORMAL, LOW}

VARIABLES
    driver,       \* the driver the build has
    now,          \* now_
    queue,        \* TxQueue::entries_.  Entries are added at the end and their
                  \* sequence numbers only grow, so the place is the number
    slots,        \* DutyCycle::slots_
    used,         \* DutyCycle::usedUs_
    transmitting, \* Sx1262Radio::transmitting_
    deadline,     \* Sx1262Radio::transmitDeadline_
    listening,    \* the chip, or the socket, is receiving
    sent,         \* every frame send accepted, and the priority it was given
    aired         \* every transmission there was, numbered

vars == <<driver, now, queue, slots, used, transmitting, deadline, listening, sent, aired>>

Entry == [id : Nat, priority : Priority]
Transmission == [nth : Nat, id : Nat, at : Nat, airtime : Nat]

TypeOK ==
    /\ driver \in {"UDP", "SX1262"}
    /\ now \in Nat /\ used \in Nat /\ deadline \in Nat
    /\ queue \in Seq(Entry) /\ Len(queue) <= Depth
    /\ \A i \in 1..Len(queue) : queue[i].id \in 1..Len(sent)
    /\ slots \subseteq aired /\ aired \subseteq Transmission
    /\ transmitting \in BOOLEAN /\ listening \in BOOLEAN
    /\ sent \in Seq([frame : Frames, priority : Priority])

Init ==
    /\ driver \in {"UDP", "SX1262"}
    /\ now = 0
    /\ queue = <<>>
    /\ slots = {} /\ used = 0
    /\ transmitting = FALSE /\ deadline = 0 /\ listening = TRUE
    /\ sent = <<>> /\ aired = {}

-----------------------------------------------------------------------------
(* DutyCycle.  Everything that reads the account expires it first, so it   *)
(* is expired here as the clock moves.                                     *)

Total(transmissions) == SumOver([x \in transmissions |-> x.airtime], transmissions)

\* Wrong: a slot is forgotten while its window still has a tick to run.
ExpiredEarly(t) == {s \in slots : s.at + Window <= t + 1}

\* Wrong: nothing is ever forgotten.
ExpiredNever(t) == {}

Expired(t) == {s \in slots : s.at + Window <= t}

Used(t) == used - Total(Expired(t))

Budget == (Window * Percent) \div 100

Allows(t, airtime) == Percent >= 100 \/ Used(t) + airtime <= Budget

\* expire and then record, of each of these transmissions.
Record(t, new) ==
    /\ slots' = (slots \ Expired(t)) \cup new
    /\ used' = Used(t) + Total(new)
    /\ aired' = aired \cup new

-----------------------------------------------------------------------------
(* TxQueue.                                                                *)

\* Whether pop takes the entry at i ahead of the one at j: highest priority
\* first, oldest within a priority.
Before(i, j) ==
    \/ queue[i].priority < queue[j].priority
    \/ queue[i].priority = queue[j].priority /\ i < j

\* What pop has taken once it has taken the entry at i.
UpTo(i) == {j \in 1..Len(queue) : j = i \/ Before(j, i)}

\* Which of these places pop takes from first.
First(places) == CHOOSE i \in places : \A j \in places \ {i} : Before(i, j)

\* The queue without these places.
Without(places) == Keep(queue, (1..Len(queue)) \ places)

IsBad(i) == sent[queue[i].id].frame \in BadFrames
AirtimeOf(i) == Airtime[sent[queue[i].id].frame]

\* Wrong: what was put back goes first.
PutBackFirst(i, rest) == Append(rest, [queue[i] EXCEPT !.priority = HIGH])

\* What the duty cycle refused, pushed again onto the rest; pop has made room.
PutBack(i, rest) == Append(rest, queue[i])

\* Wrong: the depth is not looked at.
HasRoomAlways == TRUE

HasRoom == Len(queue) < Depth

\* send: into the queue, or dropped when that is full.
Send(frame, priority) ==
    /\ Len(sent) < MaxSends
    /\ HasRoom
    /\ queue' = Append(queue, [id |-> Len(sent) + 1, priority |-> priority])
    /\ sent' = Append(sent, [frame |-> frame, priority |-> priority])
    /\ UNCHANGED <<driver, now, slots, used, transmitting, deadline, listening, aired>>

\* The frame at i put on the air at t, the nth of this tick.
OnAir(i, t, nth) ==
    [nth |-> Cardinality(aired) + nth, id |-> queue[i].id, at |-> t,
     airtime |-> AirtimeOf(i)]

-----------------------------------------------------------------------------
(* UdpRadio.                                                               *)

\* tick: frames leave in order until one does not fit, which is put back.
UdpTick(t) ==
    LET good(places) == {i \in places : ~IsBad(i)}
        needed(i) == SumOver([j \in 1..Len(queue) |-> AirtimeOf(j)], good(UpTo(i)))
        popped    == {i \in 1..Len(queue) : \A j \in good(UpTo(i)) : Allows(t, needed(j))}
        left      == (1..Len(queue)) \ popped
    IN  /\ driver = "UDP"
        /\ t >= now
        /\ now' = t
        /\ Record(t, {OnAir(i, t, Cardinality(good(UpTo(i)))) : i \in good(popped)})
        /\ queue' = IF left = {} THEN <<>>
                    ELSE PutBack(First(left), Without(popped \cup {First(left)}))
        /\ UNCHANGED <<driver, transmitting, deadline, listening, sent>>

-----------------------------------------------------------------------------
(* Sx1262Radio.                                                            *)

\* Wrong: not set ahead.
DeadlineShort(t, airtime) == t

Deadline(t, airtime) == t + airtime + Grace

\* The chip is through with everything it was given by t.
Landed(t) == \A x \in aired : x.at + x.airtime <= t

\* collect, and drainSocket of the other driver: a frame is there, and before
\* it is handed up the chip is told to go on receiving.  armed is whether it
\* then does.
Receive(armed) ==
    /\ listening
    /\ listening' = (driver = "UDP" \/ armed)
    /\ UNCHANGED <<driver, now, queue, slots, used, transmitting, deadline, sent, aired>>

\* startTransmit; the chip may refuse a frame, which is then lost, and is told
\* to receive again.
StartTransmit(t, accepted, armed) ==
    LET i    == First(1..Len(queue))
        rest == Without({i})
    IN  \/ /\ queue = <<>>
           /\ Record(t, {})
           /\ UNCHANGED <<queue, transmitting, deadline, listening>>
        \/ /\ queue # <<>> /\ ~IsBad(i) /\ ~Allows(t, AirtimeOf(i))
           /\ queue' = PutBack(i, rest)
           /\ Record(t, {})
           /\ UNCHANGED <<transmitting, deadline, listening>>
        \/ /\ queue # <<>> /\ IsBad(i)
           /\ queue' = rest
           /\ Record(t, {})
           /\ UNCHANGED <<transmitting, deadline, listening>>
        \/ /\ queue # <<>> /\ ~IsBad(i) /\ Allows(t, AirtimeOf(i)) /\ ~accepted
           /\ queue' = rest
           /\ Record(t, {})
           /\ listening' = armed
           /\ UNCHANGED <<transmitting, deadline>>
        \/ /\ queue # <<>> /\ ~IsBad(i) /\ Allows(t, AirtimeOf(i)) /\ accepted
           /\ queue' = rest
           /\ Record(t, {OnAir(i, t, 1)})
           /\ transmitting' = TRUE /\ listening' = FALSE
           /\ deadline' = Deadline(t, AirtimeOf(i))

\* tick, after collect.  done is the TX_DONE the chip shows, at the earliest
\* when the frame has landed and perhaps never.
Sx1262Tick(t, done, accepted, armed) ==
    /\ driver = "SX1262"
    /\ t >= now
    /\ now' = t
    /\ done => transmitting /\ Landed(t)
    /\ IF transmitting
       THEN /\ transmitting' = ~(done \/ t >= deadline)
            /\ listening' = (~transmitting' /\ armed)
            /\ Record(t, {})
            /\ UNCHANGED <<queue, deadline>>
       ELSE StartTransmit(t, accepted, armed)
    /\ UNCHANGED <<driver, sent>>

Tick(t) ==
    \/ UdpTick(t)
    \/ \E done, accepted, armed \in BOOLEAN : Sx1262Tick(t, done, accepted, armed)

Next ==
    \/ \E frame \in Frames, priority \in Priority : Send(frame, priority)
    \/ \E armed \in BOOLEAN : Receive(armed)
    \/ \E t \in now..MaxTime : Tick(t)

Spec == Init /\ [][Next]_vars

-----------------------------------------------------------------------------
(* Properties.                                                             *)

\* In every window as long as the duty cycle's, wherever it starts, the
\* transmissions begun add up to no more than the budget: "Exceeding it is a
\* regulatory breach, not a little extra traffic" (radio.h, DutyCycle).
DutyKept ==
    Percent < 100 => \A start \in 0..now :
        Total({x \in aired : x.at \in start..start + Window - 1}) <= Budget

\* How long a transmission holds the air in the window that begins at start.
Overlap(x, start) ==
    LET from == Max({x.at, start})
        to   == Min({x.at + x.airtime, start + Window})
    IN  IF from < to THEN to - from ELSE 0

\* The chip holds the air for no more than the budget in any window, the ends
\* of a transmission counted where they fall: charging a frame when it starts
\* (Sx1262Radio::startTransmit) is enough, because frames do not overlap.
AirKept ==
    Percent < 100 /\ driver = "SX1262" =>
        \A start \in 0..now :
            SumOver([x \in aired |-> Overlap(x, start)], aired) <= Budget

\* No frame is put on the air while a more urgent one waits, refusals by the
\* duty cycle in between or not: "promoting it would let a repeated stranger
\* overtake the reply we owe a client" (VirtualRadio::tick).
UrgentFirst ==
    [][\A x \in aired' \ aired, i \in 1..Len(queue) :
          sent[queue[i].id].priority < sent[x.id].priority =>
              \A j \in 1..Len(queue') : queue'[j].id # queue[i].id]_vars
=============================================================================
