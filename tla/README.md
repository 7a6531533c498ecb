# MeshCore-Linux in TLA+

MeshCore-Linux is a node of a LoRa mesh for Linux: a room server (a noticeboard
with logins, bookmarks and pushes), a repeater, or both. This directory holds a
model of its core, the TLC configurations that check it on small instances, and
proofs, checked by TLAPS, that most of what those runs show holds for every
value of the constants.

`tlc -config X.cfg M` runs a model, `tlapm RoomProofs.tla` checks the proofs of
a module.
`PROJECT.json` names, for every definition, the lines it models; for every
property, a mutation of the model that breaks it; and every hazard with the
properties that would catch it.

## 1. The system

One process, one thread. `main.cpp` builds everything and then loops:

    admin.tick -> device.tick -> router.tick -> room.setServerTime,
    room.setRadioLoad -> room.tick -> advert -> reboot? -> flush -> telemetry

Frames that `device.tick` receives go to `Receiver`, which first remembers
adverts in the identity store and then calls `router.onFrame`. Routing hands
payloads up to its delegate, which is the room, and asks the room, which asks
the transit policy, whether to pass a packet on. The room sends through
`router.sendDirect` and learns the fate of a send through `onAck` or
`onDeliveryFailed`. Routing sends through `RadioLink` into the transmit queue.
Nothing is preempted, so what is hard is not locking but order: what is decided
on one callback and used on a later one, what the air loses or repeats, and what
a restart brings back.

| Component | State | Operations | Talks to | What makes it correct |
|---|---|---|---|---|
| room (`src/room`) | ring of posts and their numbering; clients with bookmark, rights, replay guards and the push in flight; failed logins; `room.dat` | login, post, request, command, push, ack, failure, flush, load | routing (sends, fates), policy (transit), host (commands) | no post is lost for a client that wants it; new posts are unread; rights and lockouts survive full tables; nobody waits forever |
| routing (`src/routing`) | duplicate cache; forwarding queue; sends waiting for acks; routes | onFrame, sendDirect, sendFlood, tick | radio below, room above | learned routes work; floods do not loop; every send has one fate, and the true one |
| radio (`src/radio`) | transmit queue; account of airtime; transmission under way | send, tick of UdpRadio and Sx1262Radio | chip or socket | the duty cycle is kept in every window; urgent frames first; a silent chip does not stop the node |
| repeater (`src/repeater`) | policy, counters, one rate window per neighbour | shouldForward, set repeat, set hops.max, clear stats | asked by the room | a loud neighbour is limited, and takes no air of one that passes floods on; whoever is heard first-hand shares one limit |
| identity (`src/identity`) | contacts, index by hash, cached secrets, `contacts.dat`, key file | remember, noteHeard, secretFor, flush, load | receiver, routing | index and list agree; records do not go back; the file is whole, after a power cut too; pointers handed out stay good |
| main (`src/main.cpp`) | timers, host side of the commands, the reboot that waits | the loop, HostAdmin, Receiver, RadioLink | everything | replies leave before a reboot; a clean exit has saved the state; a new name gets out |
| packet (`src/packet`) | none | encode, decode, path operations | routing | a round trip changes nothing |
| crypto (`src/crypto`) | none | seal, open, ack numbers, hashes, signatures | routing, identity | only the two ends open an envelope |
| telemetry (`src/telemetry`) | ring of events, counters | publish, poll, drain | routing, room, main | bounded; an event is counted or known to be dropped |
| platform (`src/platform`) | clocks, log, configuration and its overlay | read, store | everything | a setting survives a restart |

## 2. Modules

| Module | Models | State and actions |
|---|---|---|
| `Room` | `src/room` | Each variable is the member of `Room` its comment names. One action per handler: `OnAnon`, `HandleText`, `OnGroup`, `StatusRequest`, `KeepAlive`, `Command...`, `Tick`, `OnAck`, `OnDeliveryFailed`, `SetServerTime`, `Flush`, `Restart`. Any send may be answered at any time. |
| `RoomSync` | the room with its readers | The contract between the room and routing: `open` holds the sends under way, `Acked` needs the post to have reached the client, `GaveUp` may come at any time, a frame may be heard late (`Hear`). `pushed`, `reached` and `waived` say what every person was sent, has got, and told the room not to send. |
| `Router` | `src/routing`, with what `src/packet` does to a path and to a trace and what `src/crypto` tells apart | All variables are functions of the node. `OnFrame`, `SendDirect`, `SendFlood`, `Tick`; the air is a set of frames, each of which is taken once, late, or never. |
| `Mesh` | the room on top of routing, and the readers' devices | Instances of `Room` (the server's board) and of `Router` (the server and the devices). `Receive`, `RouterTick`, `Report` and `RoomTick` are the callbacks from one into the other in the order `main.cpp` makes them: failures are reported from routing's tick, before the room's clock moves. `Write` and `ClientTick` are a reader's device. An instance of `RoomSync`, with a refinement mapping that reads `open`, `pushed` and `reached` off routing's state, says what the composition has to implement. |
| `Radio` | `src/radio` | `Send`, `Receive`, and `Tick` of one driver or the other. Time is in one unit; a frame is its airtime. The chip may refuse a frame, never report one as sent, or fail to receive again. |
| `Host` | `src/main.cpp`, `platform::Overlay`, `src/telemetry` | On top of an instance of `Radio`: the loop cut into `Turn`, `Receive`, `ReturnPath`, the commands (`SetCommand`, `AdvertCommand`, `RebootCommand`) and `Traffic`, `Transmit`, `Advertise`, `Flush`; `Signal`, `Shutdown`, `PowerCut`, `PowerCutInSet`, `Start`. `Set` is `Overlay::set` with the ways `writeAtomic` can end. |
| `Identity` | `src/identity`, `Receiver` | `RememberIfAdvert`, `SecretFor`, the steps of `Flush`, a `Restart` or a `PowerCut` between any two of them. `older` holds the files that were there before renames the directory has not been synced since: a power cut may bring any of them back, because `flush` returns true although the directory could not be opened or synced (`FlushSucceeds`). |
| `Repeater` | `src/repeater` | `ShouldForward`, `SetEnabled`, `SetMaxHops`, `ClearStats`. |
| `Tables` | | What a loop that erases leaves of a vector (`Keep`), and sums; used by `Router`, `Radio` and `Host`. |
| `MCRoom`, `MCRoomSync`, `MCRouter`, `MCMesh`, `MCRadio`, `MCHost`, `MCNode` | | The instances TLC checks. |
| `ProofFacts` | | Lemmas about least elements, sequences, `Keep`, sums and induction that several proofs need. |
| `RouterProofs`, `RadioProofs`, `HostProofs` | | Proofs about the module each is named after. |
| `RoomProofs` | | Proofs about `Room` and `RoomSync`. |
| `MeshProofs`, `MeshSyncProofs` | | Proofs about `Mesh`: what it keeps of routing and of the room, what an ack is worth there, and when it implements `RoomSync`. |
| `NodeProofs` | | Proofs about `Identity` and `Repeater`, which `MCNode` checks together. |

`Identity` and `Repeater` are checked together in `MCNode`, which is why the
parts of the latter's specification are called `PolicyInit`, `PolicyNext` and so
on, and its `buckets_` are `rates`.

What is abstracted: a key, the author prefix of it and, in `Router`, its one-byte
hash are one thing; a text is a model value; an envelope names its two ends, and
only the second opens it; an ack number is what it is hashed over; times are
small numbers; replies, wording and logs are left out. Names follow the code.

History variables, which the code does not have: `pushed`, `reached` and `waived`
(RoomSync), `sends` and `heard` (Router), `said` (Mesh), `sent` and `aired`
(Radio), `published` and `unsaved` (Host), `firsthand`, `handed` and `saved`
(Identity), `asked` (Repeater; `via` in it is the transmitter a packet came from,
which the policy knows only as the end of the path). Actions never read them, except as counters for
a bound, for numbering, for what the air does (a client acknowledges what reached
it), where `Radio` looks up the frame behind an id or asks whether the chip may
be through with what it was given, and where `Host` lets a write fail only if it
matters.

## 3. Runs

Bounds are chosen so that tables, rings and caches overflow and clocks pass the
timeouts; the code treats all keys, texts and times beyond that alike.

| Run | Shows | Bounds |
|---|---|---|
| `room_login` | Neither table holds a key twice or outgrows its bound (`TablesConsistent`); an admin's row goes only where nobody but admins is left (`AdminKept`); a lockout is cut short only by a table full of lockouts or a restart (`LockoutKept`) | three people for two rows in both tables, lockout after two attempts, three ticks, changing passwords, restarts |
| `room_sync` | Every bookmark is below the next number (`BookmarksBehind`); it passes a post only because that post arrived or was waived (`BookmarkCovered`); a row that waits has its send under way (`PendingIsOpen`) | one row for two people, so that rows go with a push in flight; two posts in the ring, four numbers; the file saved and read back at any moment |
| `router` | Routes lead where they say (`RoutesWork`); what a flood says of its way is true, it passes no node twice, and a trace holds one reading for every node of its path (`FloodsTrue`); the push is tracked until its one report (`TrackedOnce`) | a line of four nodes, one conversation at a time (a push, a login, an advert or a trace, answers included), a cache of two slots, so that it forgets what it has seen, one route, two attempts, traces with room for one reading |
| `mesh` | The composition takes only steps of `RoomSync` (`KeepsContract`); a row that waits waits for a send routing still has (`AnswerComing`); waiting sends and entries of the table agree (`TrackedOnce`), an ack reported is a post received (`AckIsReceipt`), and every push is reported, the first and each that repeats it (`EverySendReported`); a bookmark passes a post only if it was pushed to its client and some reader it was pushed to has it (`PassedIsRead`); a post owed to a reader at home is got and acknowledged (`Acknowledged`); a text sent once is posted once (`PostedOnce`) | a server, a reader at home and one switched off; one post and a reader who posts, or three posts owed to one reader or the other; one frame lost or late; a duplicate cache of eight slots that forgets after four moments; two attempts; eight moments; up to twelve sends, of which a behaviour never makes more than nine |
| `radio` | The budget holds in every window, by starts (`DutyKept`) and, for the chip, by time on the air (`AirKept`); no frame overtakes a more urgent one (`UrgentFirst`); the queue empties (`RadioMovesOn`) | queue of two, three frames of two lengths and a bad one, window of four units with a budget of two, sixteen ticks |
| `host` | The settings in force are those the next start reads (`SettingsDurable`); a clean exit has saved everything (`ExitMeansSaved`); a new name is with the peers in the end (`RenameSpreads`); a deaf chip hears again (`HearsAgain`); the reply to a reboot is out before the exit, unless the air was taken (`ReplyFirst`); no event goes missing unnoticed (`EventsAccounted`) | both drivers; two commands, messages or signals and two failures among them (a write, a directory sync, the chip, the power), all within three turns; ten turns; two names, a file with 256 hops in it; a ring of three events, a queue of two frames |
| `node` | Index and list agree after evictions (`IndexExact`); the contacts file is the whole list of the last flush that succeeded, until a power cut, which may bring back an older one, whole too (`FileWhole`); records do not go back (`NoRollback`); pointers to secrets stay good as long as they are used (`SecretsStay`); at most twice the allowance in any window (`RateKept`); a flood that was passed on is refused only for what the same transmitter passed on (`OthersUnaffected`) | three peers, two of one hash, for two slots; four keys for two cached secrets and six calls; flushes and power cuts with one advert of each peer, and one unsynced rename in a row; six shapes of packet, from two first-hand senders and three neighbours, three asked about, windows of two units |

`room_login` and `room_sync` check for deadlock too. In the other runs
bounded clocks and counters let the system stop.

`node` checks four things in behaviours of their own: contacts, the contacts file,
secrets and the policy. They share no state, but for the file, which is a copy of
the contacts.
Symmetry is used over people, over the ids of sends and over peers of one hash,
and only where no liveness property is checked.

What `OthersUnaffected` does not say is that nobody is refused for the rate of
another. A packet with an empty path carries no hash of its sender, so all that are
heard first-hand share one bucket (`repeater.h` says so), and there a loud sender
does silence a quiet one. `test_repeater.cpp` tests its sentence on floods that were
passed on.

A reader has one push under way at a time, so `EverySendReported`, which says of
every reader that an unanswered push is answered if there is time for its attempts,
speaks of every push there is. Nobody logs in while `Mesh` runs: the rows are those
of `room.dat`, and none is erased while others wait for their turn.

How tight the bounds of `mesh` are: with a cache that never forgets (`SeenTtl` 0)
`Acknowledged` is violated, because a device whose ack was lost drops every
further copy of the post; with four slots instead of eight `PostedOnce` is
violated, because the cache forgets a text before its second attempt. The code's
defaults (`seenSlots`, `seenTtl`, `maxAttempts` and the timeouts in `routing.h`)
are on the right side of both, and the configuration can leave it.

### Runs that find a disagreement

| Run | What it shows |
|---|---|
| `late_ack` | The ack of a push that was under way when the client asked for older posts again moves its bookmark over them. |
| `bookmark` | Of two posts with one timestamp, the second is skipped when a client bookmarks the first. |
| `ack_peer` | The same post pushed to two readers waits for one ack number twice: the ack of the one moves the bookmark of the other, who is switched off and never gets the post (`NothingLost`). In `mesh` no two readers are owed the same post, and there `KeepsContract` and `AckIsReceipt` hold. What holds where a post is owed to several is `PassedIsRead` (section 4). |
| `router_full` | With `maxPending` sends waiting, one more goes out once and is never reported, although its id looks like any other, and the row waits for good (`AnswerComing`). With room in the table it holds (`mesh`). |
| `neighbours` | A node heard first-hand is not a neighbour any more once somebody repeats its advert. |

`PROJECT.json` quotes, for each, the line of the repository that says otherwise.
`RoomSync` assumes of routing what `mesh` shows; `ack_peer` and `router_full` say
where that assumption ends.

### Fairness

* `mesh` and `host`: `[]<>~Busy`. Every node's loop takes its turns, the clock
  moves, a frame that is neither lost nor late arrives, and the supervisor starts
  a program that ended. Each of these steps uses up something bounded (a moment,
  a frame, a report, an input, a fault), so that saying they all happen in the
  end is weak fairness of each; TLC is much faster with it. `main.cpp` justifies
  it: nothing in the loop blocks. What may fail is bounded (`MaxFaults`), which
  stands for an air and a card that do not fail forever; nothing is assumed of
  the device that is off, of people, or of when failures come.
* `radio`: `tick`, with a clock that moves. Nothing is assumed of the chip: it
  may refuse every frame and never show a `TX_DONE`.

Under each of these a clock that has reached its bound has had time for
everything the property speaks of.

## 4. Proofs

The theorems hold for all values of the constants that satisfy the `ASSUME` of
the module (`RoomAssumption`, `RouterAssumption`, `MeshAssumption`,
`RadioAssumption`, `HostAssumption`, `IdentityAssumption` and `FileAssumption`,
`RepeaterAssumption`): for every number of people, nodes, rows, posts and
frames, every size of the tables and every timeout, and with the bounds on
clocks and counters at any number. These assumptions say what kind of value a
constant is; the one with more in it is that of `Mesh`, which says of the
`room.dat` a behaviour starts from what `RoomProofs` shows of every file the room
writes (no key twice, no more rows and posts than fit, a number left to hand out).
Each theorem rests on an inductive invariant, which holds at first, is kept by
every step, and implies the property.

**`RoomProofs`**: `TypeCorrect`, `BookmarksStayBehind`, `TablesStayConsistent`,
`AdminsKept`, `LockoutsKept`. That every bookmark, in memory and in `room.dat`,
is below the next number is not inductive. `SeqFromTimestamp` gives a number
below `nextSeq` only because the ring is in order and within the numbering; a
pushed post's number becomes a bookmark only two steps later, so `pendingSeq`
has to be below `nextSeq` too; and a restart resumes a numbering that has to be
ahead of the file's own bookmarks. `IInv` is the conjunction of `BoardOK` (the
ring is in the order of its numbers, all handed out), `ClientsOK` (bookmark and
push of every row behind `nextSeq`), `DiskOK` (the same of the file and its own
numbering), `FailuresOK` and `RestOK`. The tables hold one row per key because a
row is added only after a search found none; with that, what `AdminKept` and
`LockoutKept` say of a step follows from whom `ClientVictim` and `FailureVictim`
pick.

**`RoomProofs`, the room with its readers**: `SyncTypeCorrect`, `PendingStaysOpen`,
`BookmarksStayCovered`. The actions of `RoomSync` are those of `Room` with more
conjuncts, so what is proved of the room holds here too (the lemma
`SyncImplementsRoom`). The ack of a push moves the bookmark to the post that was
pushed, possibly long after, so everything before that post has to be covered from the moment it is pushed until its answer (`RowsOK`), while
the ring loses posts, the client logs in again and the row is evicted. A restart
brings back old bookmarks with an old numbering, so the file has to be covered
too (`SavedOK`); a send of a row that is gone may still be answered, so sends
under way are described whether or not a row waits for them (`GhostsOK`).

**`RouterProofs`**: `TypeCorrect`, `FloodsStayTrue`, `RoutesStayGood`,
`SendsTrackedOnce`, `AcksAreOfTexts`, on any mesh. What is true of a frame
depends on where it is: `LeavesFrom(n, f)` is what holds of a frame in a queue or
in `pending_` of `n`, `ComesTo(n, f)` of one on the air to `n`, and the invariant
says one or the other of every frame there is. A flood's path is then the way it
came, with no node twice, because `Echo` stops one that returns: nothing is
needed of the duplicate cache. Two theorems have a hypothesis, which is about
the mesh and its use and not about the code:

* `RoutesStayGood` assumes `Symmetric`, links that go both ways. Routes are
  learned by reversing what a flood recorded.
* `SendsTrackedOnce` assumes `RoomForSends`, that no send finds `pending_` full.
  The run `router_full` shows what happens otherwise.

What an ack is worth is `AcksAreOfTexts`: somebody its sender sent that text to has
it, whoever sends what to whom. The invariant (`Receipts`) says that every ack on its
way is one for a text that was handed up, and that every entry of `pending_` expects
the number of its own send. More is not true where one text goes to two others (the
run `ack_peer`), because the ack number covers text and sender and not the receiver.

**`MeshProofs`** and **`MeshSyncProofs`**: what of the room with its readers holds of
the room on the routing of the code.

* `AcksAreOfTexts` (the invariant's own module, `MeshProofs`; the rest is in
  `MeshSyncProofs`): what `RouterProofs` shows of an ack without any hypothesis,
  here of a push.
* `PushesTrackedOnce` and `AnswersKeepComing` (`RoomEnough`): sends that wait and
  entries of `pending_` agree, and a row that waits waits for a send routing has
  still to answer.
* `ReceiptsKeepContract` and `ReceiptsLoseNothing`: as long as acks are receipts,
  every step is a step of `RoomSync` or leaves it alone, and no bookmark passes a
  post its client did not get. That acks are receipts is the one thing `RoomSync`
  asks of routing that routing does not always give.
* `PassedStaysRead`: without any condition, a bookmark passes a post only if it was
  pushed to its client and some reader it was pushed to has it. `RowsRead` says this
  of every row, and of every post before the one a row waits for: a post is pushed
  only when all before it have been passed, an ack moves the bookmark of the row
  whose send it answers to the post of that send, and `AcksAreOfTexts` says what that
  ack is worth. A new post is above every bookmark, and posts leave the ring from
  below.

The invariant `Good` is in three parts: `NetOK`, the types of routing and what
`RouterProofs` keeps of acks and of the sends behind entries; `RoomOK`, the room's
(with rows that never come or go, since nobody logs in here); and `Wired`, between
the two: the clocks of the nodes, every push a post of the board sent to a member,
every failure still to be reported a send of the server's, and every row that waits
matched with one such send, or with one that found no room. The lemmas about
a step are those of the other modules, taken through `INSTANCE` at the constants
`Mesh` has (`P` for `RouterProofs`, `S` for `RoomProofs`): a step here is shown to
be a step of one of them, with the other part unchanged. The proof showed that
`Receive` has to leave alone a text that comes back with the server's own hash in its
path, as `onFrame` does before it looks at the payload (`Fresh`).

The hypothesis `RoomEnough` is about who is in the room: `maxPending` is at least the
number of members, and on a reader's device the number of texts it is going to send.
A row has one push under way at a time, and the rows of `Mesh` stay who they are, so
that is enough for the server. The defaults keep it up to 32 members (`maxPending`),
but the room takes 64 (`MAX_ROOM_CLIENTS`); `router_full` shows what happens beyond.

**`RadioProofs`**: `TypeCorrect`, `DutyIsKept`, `AirIsKept`, `UrgentStaysFirst`.
`AccountOK` says that the account is what was sent in the window that ends now:
the slots are the transmissions not older than the window, `used` their sum, and
within the budget. `QueueOK`: an id is in the queue once, with the priority it
was sent with, and not any more once it was aired. `AirOK`: the frames of the
chip are apart and over by the deadline. From these `AirKept`, about time on the
air and not starts, follows by induction on where the window begins: when it
moves by one unit it holds no more than before, or a frame starts in it and all
it holds was charged.

**`HostProofs`**: `HostTypeCorrect`, `SettingsStayDurable`, `SuccessMeansSaved`,
`EventsStayAccounted`. `SettingsInv` says that while the program runs its overlay
is what the file reads as; storing a value and reading it back clamps it, so the
clamp has to be the identity on what a command may store (the operator's own
configuration is where it is not). `Accounted` ties every event published to a
counter, a place of the ring in use or the number dropped, and the place after
the last to a free one; its sums change by one at one place. The types need the
radio's invariant, which does not survive a restart: that empties the account
while what was sent is still in the window. `WholeRadio`, in `RadioProofs`, is
what is left of it: the account is the sum of slots that are transmissions, and
an id in the queue was never aired.

**`NodeProofs`**, of `Identity`: `TypeCorrect`, `IndexStaysExact`, `FileStaysWhole`,
`PointersStayGood`, `NothingRolledBack`. `StoreOK`: the index is exact and no
key has two contacts; neither holds without the other, because `find` looks only
where the index points and a new row is made when it finds nothing. `FileOK`: a
flush under way has written nothing whole, or the list we have, and every file the
power may bring back was renamed whole. `SecretsOK`: the
slots of the last `MAX_SECRET_CACHE` calls are the ones used last, so the slot
that gives way is not one of theirs (`UsedInTurn`, with a pigeonhole argument).

**`NodeProofs`**, of `Repeater`: `PolicyTypeCorrect`, `RateIsKept`, `OthersStayUnaffected`. A
bucket is a number, the properties are about the floods carried. `BucketsOK` says
that the count is the number carried since the window began, that none was
carried after its end, and that a stretch as long before it holds at most the
allowance. Any stretch is then split by at most one start of a window. `OthersStayUnaffected`
has to tie buckets to transmitters (`BucketIsVia`): two packets of one bucket were
both heard first-hand, or both from the one transmitter that passed them on.

Where a proof needs induction, it is over numbers, finite sets or a recursive
function, with the set or function of the cases that hold as its subject
(`InductionUpTo`, `LoopRuns`, `FiniteInduction` in `ProofFacts`). That is why the
models say `Keep` and recursive functions where a library fold or `SelectSeq`
would do.

Only model-checked:

* liveness (`Acknowledged`, `EverySendReported`, `RadioMovesOn`, `RenameSpreads`,
  `HearsAgain`), which is out of the prover's reach;
* `AckIsReceipt` of `Mesh`, and with it `KeepsContract` and `NothingLost` without
  their premise: they hold in `mesh`, where no post is owed to two readers, and not in
  every room (`ack_peer`);
* `PostedOnce` of `Mesh`: it depends on how the timeouts, the attempts and the size
  and age of the cache relate, and fails for other values (section 3);
* `ReplyFirst` of `Host`, for the same reason: it holds as long as the delay of a
  reboot is long enough for a chip that does not answer until its deadline, and for
  the frames ahead of the reply that the chip refuses, one in a turn. With a delay of
  two instead of three TLC finds it violated.

## 5. Not modelled

* AES, SHA-256, HMAC, Ed25519 and the byte layout of packets: arithmetic and
  byte strings, which unit tests against known answers cover better.
* Candidates that share a one-byte hash are one in `Router`; the MAC tells them
  apart in the code, and the index that finds them is in `Identity`.
* The error returns of `sendDirect`, for an addressee without a secret or a payload
  that is too long: an id is returned and nothing is sent. The room sends to keys it
  has opened a login of, and its longest post fits a frame.
* Frames that do not parse; an empty one is dropped by the chip's driver, but not by
  `UdpRadio`, and routing never makes one.
* Group and multi-part payloads in `Router`, which only hands them up and passes
  them on, and the priorities it gives; channels a room publishes its posts to.
* Policy, routing's queue and the radio's queue in one node: the ceiling the
  policy keeps is a snapshot that does not know what is queued. The product is
  too large; each part is checked against anything the others may do.
* Deadlines of routing against frames that wait in the radio's queue, for the
  same reason.
* A wall clock that an admin sets: it enters `Room` as times in any order, and
  `Host` as a clock that only moves forward.
* Opening devices, sockets, JSON, the key file, logging, the text of replies and
  metrics.

The repository also holds RadioLib, a JSON library and an AES implementation
(`lib/`), which are most of its lines. They are third-party code, seen here
through what `src/` asks of them.

## 6. Plan

Done: the modules and runs above, and the theorems of section 4. What could
come next, in this order:

1. `PostedOnce` and `ReplyFirst` under hypotheses that relate the constants: how
   long the last copy of a text may be under way against `SeenTtl`, and how long
   the queue may take against `RebootDelay`.
2. Policy, routing's queue and the radio's queue in one node, for the ceiling of
   the policy, which does not know what is queued.
3. People who log in while `Mesh` runs. `RoomSync` has them; the rows of `Mesh` are
   those of `room.dat`.
