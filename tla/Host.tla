-------------------------------- MODULE Host --------------------------------
(***************************************************************************)
(* The program around the modules (main.cpp) on top of Radio: the turns of *)
(* the main loop, what an admin's commands leave for it to do (HostAdmin), *)
(* the settings changed over the air (platform::Overlay), the saving of    *)
(* state, the exit, and the events counted on the way (telemetry).         *)
(*                                                                         *)
(* A turn is cut where something can fail or be interrupted.  One frame    *)
(* arrives in a turn at the most, from an admin or as traffic that changes *)
(* the contacts or the room.  Routing and the room hand their answer to    *)
(* the radio at once.  The wall clock is the turn's clock in Seconds.      *)
(***************************************************************************)
EXTENDS Tables

CONSTANTS
    Names,       \* names an admin may give the node, or the operator's file
    Hops,        \* values an admin may give hops.max: 1..MAX_HOP_COUNT
    Settings,    \* node.name and repeater.max_hops of the operator's file
    reply,       \* the reply to a command, as a frame
    returned,    \* the path routing returns for a command that came as a flood
    rebooting,   \* the reply to a reboot command
    MaxHopCount, \* MAX_HOP_COUNT
    AdvertEvery, \* node.advert_ms
    FlushEvery,  \* node.flush_ms
    ReportEvery, \* telemetry.report_ms
    RebootDelay, \* kRebootDelay
    Second,      \* a second of the wall clock
    Capacity,    \* telemetry.queue
    Depth, Percent, Window, Grace, \* of Radio
    MaxTime, MaxSends,             \* bounds, as in Radio
    LastInput,   \* nothing is received, and nothing fails, after this moment
    MaxInputs,   \* bound on the frames received
    MaxFaults    \* bound on what fails: a write, the chip, the power

ASSUME HostAssumption ==
    /\ Settings.name \in Names /\ Settings.hops \in Nat
    /\ MaxHopCount \in 1..255 /\ Hops \subseteq 1..MaxHopCount
    /\ {AdvertEvery, FlushEvery, ReportEvery, RebootDelay, Second, Capacity} \subseteq Nat \ {0}
    /\ Depth \in Nat \ {0} /\ Percent \in Nat /\ Window \in Nat \ {0} /\ Grace \in Nat
    /\ {MaxTime, MaxSends, LastInput, MaxInputs, MaxFaults} \subseteq Nat

VARIABLES
    driver, now, queue, slots, used, transmitting, deadline, listening, sent, aired, \* of Radio
    pc,           \* where in its turn the loop is
    clock,        \* the turn's reading of the clock, HostAdmin::now_
    inForce,      \* the settings in force
    values,       \* Overlay::values_
    file,         \* overrides.json as it is read, and as it is on the disk
    advertWanted, \* HostAdmin::advertWanted_
    rebootAt,     \* HostAdmin::rebootAt_
    nextAdvert, nextFlush, nextReport,
    unsaved,      \* which of the contacts and the room differ from their file
    exit,         \* what the program returned the last time it ended
    bus,          \* telemetry::Bus
    counters,     \* telemetry::Collector's, one for each type
    published,    \* how often an event of each type was published
    inputs, faults

radioVars == <<driver, now, queue, slots, used, transmitting, deadline, listening, sent, aired>>
settingVars == <<inForce, values, file>>
busVars == <<bus, counters, published>>
timers == <<nextAdvert, nextFlush, nextReport>>
vars == <<radioVars, pc, clock, settingVars, advertWanted, rebootAt, timers, unsaved, exit,
          busVars, inputs, faults>>

Keys == {"name", "hops"}
Parts == {"contacts", "room"}
Events == {"FrameRx", "FrameTx", "ContactAdded", "PostAdded"}

\* An advert carries the name and the time it was made at.
Adverts == [name : Names, stamp : 0..MaxTime]
Frames == Adverts \cup {reply, rebooting, returned}

Air == INSTANCE Radio WITH Airtime <- [f \in Frames |-> 1], BadFrames <- {}

HostTypeOK ==
    /\ Air!TypeOK
    /\ pc \in {"turn", "receive", "handle", "answer", "transmit", "advert", "flush", "stopping", "down"}
    /\ clock \in Nat /\ rebootAt \in Nat
    /\ inForce.name \in Names /\ inForce.hops \in 1..MaxHopCount
    /\ \A v \in {values, file.read, file.synced} : DOMAIN v \subseteq Keys
    /\ advertWanted \in BOOLEAN
    /\ unsaved \subseteq Parts /\ exit \in {0, 1}
    /\ bus.count \in 0..Capacity /\ bus.head \in 0..Capacity - 1
    /\ inputs \in 0..MaxInputs /\ faults \in 0..MaxFaults

-----------------------------------------------------------------------------
(* Settings.                                                               *)

\* Wrong: nothing is brought into range.
MaxHopsUnclamped(number) == number % 256

\* repeater.max_hops as main and Policy::setMaxHops take it: cut to eight bits,
\* and brought between one and MAX_HOP_COUNT.
MaxHopsFrom(number) == Max({1, Min({number % 256, MaxHopCount})})

\* applyOverlay, and what the node makes of the outcome.
Effective(overlay) ==
    LET config == [k \in Keys |-> IF k \in DOMAIN overlay THEN overlay[k] ELSE Settings[k]]
    IN  [name |-> config.name, hops |-> MaxHopsFrom(config.hops)]

\* writeAtomic of overrides.json, as it ends: nothing is renamed; or the new
\* file is there, and the directory that says so is on the disk too, or not,
\* which nobody looks at.
Written(outcome, content) ==
    CASE outcome = "failed"   -> file
      [] outcome = "renamed"  -> [file EXCEPT !.read = content]
      [] outcome = "synced"   -> [read |-> content, synced |-> content]

\* The overlay with this under this key.
With(overlay, key, value) ==
    [k \in DOMAIN overlay \cup {key} |-> IF k = key THEN value ELSE overlay[k]]

\* Wrong: what could not be saved is kept in memory.
SetAndKeep(key, value, outcome) ==
    LET content == With(values, key, value)
    IN  values' = content /\ file' = Written(outcome, content)

\* Overlay::set: in memory, to the file, and out of memory again if that fails.
Set(key, value, outcome) ==
    LET content == With(values, key, value)
    IN  /\ values' = IF outcome = "failed" THEN values ELSE content
        /\ file' = Written(outcome, content)

-----------------------------------------------------------------------------
(* Telemetry.  The ring is numbered from 0.                                *)

\* Wrong: one place too far.
TailPast(b) == (b.head + b.count + 1) % Capacity

RingTail(b) == (b.head + b.count) % Capacity

\* Bus::publish.
Published(b, type) ==
    IF b.count = Capacity THEN [b EXCEPT !.dropped = @ + 1]
    ELSE [b EXCEPT !.ring[RingTail(b)] = type, !.count = @ + 1]

\* One event after the other.
Publish(types) ==
    LET after[n \in 0..Len(types)] == IF n = 0 THEN bus ELSE Published(after[n - 1], types[n])
    IN  /\ bus' = after[Len(types)]
        /\ published' = [e \in Events |->
               published[e] + Cardinality({i \in 1..Len(types) : types[i] = e})]
        /\ UNCHANGED counters

\* The places that poll will take from.
InRing(b) == {(b.head + i) % Capacity : i \in 0..b.count - 1}
OfType(b, type) == Cardinality({i \in InRing(b) : b.ring[i] = type})

\* Collector::drain.
Drain ==
    /\ bus' = [bus EXCEPT !.head = (@ + bus.count) % Capacity, !.count = 0]
    /\ counters' = [e \in Events |-> counters[e] + OfType(bus, e)]
    /\ UNCHANGED published

-----------------------------------------------------------------------------
(* The loop.                                                               *)

NoEvents == [e \in Events |-> 0]
EmptyBus == [ring |-> [i \in 0..Capacity - 1 |-> "FrameRx"], head |-> 0, count |-> 0, dropped |-> 0]

Init ==
    /\ Air!Init
    /\ pc = "turn" /\ clock = 0
    /\ values = <<>> /\ file = [read |-> <<>>, synced |-> <<>>]
    /\ inForce = Effective(<<>>)
    /\ advertWanted = FALSE /\ rebootAt = 0
    /\ nextAdvert = 0 /\ nextFlush = 0 /\ nextReport = 0
    /\ unsaved = {} /\ exit = 0
    /\ bus = EmptyBus /\ counters = NoEvents /\ published = NoEvents
    /\ inputs = 0 /\ faults = 0

\* So many things go wrong in this step.
Fails(count) ==
    /\ count > 0 => clock <= LastInput /\ faults + count <= MaxFaults
    /\ faults' = faults + count

\* The top of the loop, admin.tick included, or a signal that ends it.
Turn ==
    /\ pc = "turn" /\ clock < MaxTime
    /\ pc' = "receive" /\ clock' = clock + 1
    /\ UNCHANGED <<radioVars, settingVars, advertWanted, rebootAt, timers, unsaved, exit,
                   busVars, inputs, faults>>

Signal ==
    /\ pc = "turn" /\ inputs < MaxInputs /\ clock <= LastInput
    /\ pc' = "stopping" /\ inputs' = inputs + 1
    /\ UNCHANGED <<radioVars, clock, settingVars, advertWanted, rebootAt, timers, unsaved, exit,
                   busVars, faults>>

\* device.tick, up to a frame for the receiver, or to none.
Receive ==
    /\ pc = "receive"
    /\ \/ /\ inputs < MaxInputs /\ clock <= LastInput
          /\ pc' = "handle" /\ inputs' = inputs + 1
          /\ \E armed \in BOOLEAN : Air!Receive(armed) /\ Fails(IF armed THEN 0 ELSE 1)
       \/ /\ pc' = "transmit"
          /\ UNCHANGED <<radioVars, inputs, faults>>
    /\ UNCHANGED <<clock, settingVars, advertWanted, rebootAt, timers, unsaved, exit, busVars>>

\* handToRadio and RadioLink: what a full queue does not take is dropped.
Hand(frame, priority) ==
    IF Air!HasRoom THEN Air!Send(frame, priority) ELSE UNCHANGED radioVars

\* A command is opened that came as a flood: before the room has it, its sender
\* is sent the path it came by, more urgently than anything else.
ReturnPath ==
    /\ pc = "handle" /\ pc' = "answer"
    /\ Hand(returned, Air!HIGH)
    /\ Publish(<<"FrameRx", "FrameTx">>)
    /\ UNCHANGED <<clock, settingVars, advertWanted, rebootAt, timers, unsaved, exit, inputs, faults>>

\* The room has a command, with or without a path returned for it.
Commanded == pc \in {"handle", "answer"}

\* What an admin's command does on the way: it is counted and answered.
Answer(frame) ==
    /\ Commanded /\ pc' = "transmit"
    /\ Hand(frame, Air!NORMAL)
    /\ Publish(IF pc = "handle" THEN <<"FrameRx", "FrameTx">> ELSE <<"FrameTx">>)
    /\ UNCHANGED <<clock, timers, unsaved, exit, inputs>>

\* set name and set hops.max: stored, then applied, and a new name is also to
\* be advertised.
SetCommand(key, value, outcome) ==
    /\ Answer(reply)
    /\ Set(key, value, outcome)
    /\ Fails(IF outcome = "synced" THEN 0 ELSE 1)
    /\ inForce' = IF outcome = "failed" THEN inForce ELSE [inForce EXCEPT ![key] = value]
    /\ advertWanted' = (advertWanted \/ (key = "name" /\ outcome # "failed"))
    /\ UNCHANGED rebootAt

AdvertCommand ==
    /\ Answer(reply)
    /\ advertWanted' = TRUE
    /\ UNCHANGED <<settingVars, rebootAt, faults>>

\* Wrong: at once.
RebootAtOnce(t) == t

RebootTime(t) == t + RebootDelay

RebootCommand ==
    /\ Answer(rebooting)
    /\ rebootAt' = RebootTime(clock)
    /\ UNCHANGED <<settingVars, advertWanted, faults>>

\* A peer's advert is remembered, or a message in a channel becomes a post.
Traffic(part) ==
    /\ pc = "handle" /\ pc' = "transmit"
    /\ unsaved' = unsaved \cup {part}
    /\ Publish(IF part = "contacts" THEN <<"ContactAdded", "FrameRx">>
               ELSE <<"FrameRx", "PostAdded">>)
    /\ UNCHANGED <<radioVars, clock, settingVars, advertWanted, rebootAt, timers, exit, inputs, faults>>

\* The rest of device.tick.
Transmit ==
    /\ pc = "transmit" /\ pc' = "advert"
    /\ \/ Air!UdpTick(clock) /\ UNCHANGED faults
       \/ \E done, accepted, armed \in BOOLEAN :
              /\ Air!Sx1262Tick(clock, done, accepted, armed)
              /\ Fails(Cardinality({c \in {"done", "accepted", "armed"} :
                     \/ c = "done" /\ transmitting /\ Air!Landed(clock) /\ ~done
                     \/ c = "accepted" /\ ~accepted
                     \/ c = "armed" /\ ~armed}))
    /\ UNCHANGED <<clock, settingVars, advertWanted, rebootAt, timers, unsaved, exit, busVars, inputs>>

RebootDue == rebootAt # 0 /\ clock >= rebootAt

\* Wrong: only when a command asks for one.
AdvertAsked == advertWanted

AdvertDue == clock >= nextAdvert \/ advertWanted

\* An advert on the timer or on request, and the end of the loop if it is to
\* be.  A request is not looked at, and stays, when the timer is due.
Advertise ==
    /\ pc = "advert"
    /\ pc' = IF RebootDue THEN "stopping" ELSE "flush"
    /\ IF AdvertDue
       THEN /\ Hand([name |-> inForce.name, stamp |-> clock \div Second], Air!NORMAL)
            /\ Publish(<<"FrameTx">>)
            /\ nextAdvert' = clock + AdvertEvery
       ELSE UNCHANGED <<radioVars, busVars, nextAdvert>>
    /\ advertWanted' = (advertWanted /\ clock >= nextAdvert)
    /\ UNCHANGED <<clock, settingVars, rebootAt, nextFlush, nextReport, unsaved, exit, inputs, faults>>

\* The rest of a turn: both files are written, and one may fail; the events are
\* counted.
Flush ==
    /\ pc = "flush" /\ pc' = "turn"
    /\ IF clock >= nextFlush
       THEN /\ \E failed \in SUBSET unsaved : unsaved' = failed /\ Fails(Cardinality(failed))
            /\ nextFlush' = clock + FlushEvery
       ELSE UNCHANGED <<unsaved, nextFlush, faults>>
    /\ IF clock >= nextReport
       THEN Drain /\ nextReport' = clock + ReportEvery
       ELSE UNCHANGED <<busVars, nextReport>>
    /\ UNCHANGED <<radioVars, clock, settingVars, advertWanted, rebootAt, nextAdvert, exit, inputs>>

\* Wrong: one of the two is enough.
SavedEither(failed) ==
    IF "contacts" \in failed THEN [left |-> unsaved \cap {"contacts"}, ok |-> "room" \notin failed]
    ELSE [left |-> unsaved \cap {"room"}, ok |-> TRUE]

\* store.flush() && room.flush(): the room is not saved where the contacts are not.
Saved(failed) ==
    IF "contacts" \in failed THEN [left |-> unsaved, ok |-> FALSE]
    ELSE [left |-> unsaved \cap failed, ok |-> "room" \notin failed]

\* After the loop.
Shutdown ==
    /\ pc = "stopping" /\ pc' = "down"
    /\ \E failed \in SUBSET Parts :
          /\ Fails(Cardinality(failed))
          /\ unsaved' = Saved(failed).left
          /\ exit' = IF Saved(failed).ok THEN 0 ELSE 1
    /\ UNCHANGED <<radioVars, clock, settingVars, advertWanted, rebootAt, timers, busVars, inputs>>

\* The power goes, at any moment, and with it a rename that is not on the disk.
PowerCut ==
    /\ pc # "down" /\ pc' = "down"
    /\ Fails(1)
    /\ exit' = 1
    /\ \E content \in {file.read, file.synced} : file' = [read |-> content, synced |-> content]
    /\ UNCHANGED <<radioVars, clock, inForce, values, advertWanted, rebootAt, timers, unsaved,
                   busVars, inputs>>

\* The power goes before a command that stores a setting is through.
PowerCutInSet(key, value) ==
    /\ Commanded /\ pc' = "down"
    /\ Fails(1)
    /\ exit' = 1
    /\ Set(key, value, "synced")
    /\ UNCHANGED <<radioVars, clock, inForce, advertWanted, rebootAt, timers, unsaved,
                   busVars, inputs>>

\* The supervisor starts the program: the settings are read, and all that was
\* in memory is gone, the account of the duty cycle included.
Start ==
    /\ pc = "down" /\ pc' = "turn"
    /\ inForce' = Effective(file.read) /\ values' = file.read
    /\ advertWanted' = FALSE /\ rebootAt' = 0
    /\ nextAdvert' = 0 /\ nextFlush' = 0 /\ nextReport' = 0
    /\ unsaved' = {}
    /\ bus' = EmptyBus /\ counters' = NoEvents /\ published' = NoEvents
    /\ queue' = <<>> /\ slots' = {} /\ used' = 0
    /\ transmitting' = FALSE /\ deadline' = 0 /\ listening' = TRUE
    /\ UNCHANGED <<driver, now, sent, aired, clock, file, exit, inputs, faults>>

Next ==
    \/ Turn
    \/ Signal
    \/ Receive
    \/ ReturnPath
    \/ \E name \in Names, outcome \in {"failed", "renamed", "synced"} : SetCommand("name", name, outcome)
    \/ \E hops \in Hops, outcome \in {"failed", "renamed", "synced"} : SetCommand("hops", hops, outcome)
    \/ AdvertCommand
    \/ RebootCommand
    \/ \E part \in Parts : Traffic(part)
    \/ Transmit
    \/ Advertise
    \/ Flush
    \/ Shutdown
    \/ PowerCut
    \/ \E name \in Names : PowerCutInSet("name", name)
    \/ Start

\* The loop turns, the supervisor starts what ended, and the clock moves: every
\* behaviour comes to the end of the last turn there is.
Busy == pc # "turn" \/ clock < MaxTime
Spec == Init /\ [][Next]_vars /\ []<>~Busy

-----------------------------------------------------------------------------
(* Properties.                                                             *)

\* The settings in force are those the next start would read, a power cut in
\* between or not, after any sequence of changes some of which could not be
\* stored: "a name that reverts at the next restart is worse than one that
\* could not be changed at all" (HostAdmin::setNodeName).  Only a power cut after
\* a rename whose directory could not be synced brings back other ones.
SettingsDurable == pc # "down" => inForce = Effective(file.read)

\* What a peer that hears everything has for our name: the first advert with the
\* latest time, because one with an equal time is dropped (Store::remember).
KnownName ==
    LET adverts == {x \in aired : sent[x.id].frame \in Adverts}
        latest  == {x \in adverts : \A y \in adverts :
                       sent[x.id].frame.stamp >= sent[y.id].frame.stamp}
        first   == CHOOSE x \in latest : \A y \in latest : x.nth <= y.nth
    IN  IF adverts = {} THEN Settings.name ELSE sent[first.id].frame.name

\* A new name is with the peers in the end: although the advert that a rename
\* asks for may carry the time of the one before and be dropped, be dropped by
\* a full queue, refused by the chip or lost with the queue in a restart ("after
\* a rename the network holds the old name until the next advert goes out",
\* main.cpp).
RenameSpreads ==
    \A name \in Names : inForce.name = name ~> (KnownName = name \/ inForce.name # name)

\* A chip that could not be told to receive again hears again in the end: nothing
\* tries before the next transmission (Sx1262Radio::finishTransmit), and a node
\* that hears nothing has nothing to answer, but adverts go out on their own.
HearsAgain == (~listening /\ ~transmitting) ~> listening

\* An exit the program calls a success has left nothing of the contacts and the
\* room in memory alone.
ExitMeansSaved == pc = "down" /\ exit = 0 => unsaved = {}

\* When the loop ends for a reboot the reply has been sent ("Late enough that
\* the reply to the command has left the queue", main.cpp) and is off the air,
\* unless other frames, a returned path among them, were on the air since the
\* command, or had used so much of
\* the budget that the duty cycle could refuse it.
ReplyFirst ==
    [][pc = "advert" /\ pc' = "stopping" =>
          \A id \in {i \in 1..Len(sent) : sent[i].frame = rebooting} :
              LET commanded == rebootAt - RebootDelay
                  others    == {x \in aired : x.id # id /\ x.at + Window > commanded}
              IN  \/ /\ \A i \in 1..Len(queue') : queue'[i].id # id
                     /\ \A x \in aired : x.id = id => x.at + x.airtime <= clock
                  \/ \E x \in others : x.at >= commanded
                  \/ Air!Total(others) + 1 > Air!Budget]_vars

\* Every event published is counted, waits to be, or is known to be lost.
EventsAccounted ==
    /\ \A e \in Events : counters[e] + OfType(bus, e) <= published[e]
    /\ SumOver([e \in Events |-> published[e] - counters[e] - OfType(bus, e)], Events) = bus.dropped
=============================================================================
