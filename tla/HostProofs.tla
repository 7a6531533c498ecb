----------------------------- MODULE HostProofs -----------------------------
(***************************************************************************)
(* Proofs about the program around the modules, for every set of names and *)
(* settings, every timer and size of the ring, and any number of turns,    *)
(* frames and faults.                                                      *)
(*                                                                         *)
(* While the program runs the overlay in memory is what its file reads,    *)
(* whichever of the changes could not be stored.  The ring holds each      *)
(* event that was published and not yet counted once, or the event is in   *)
(* the count of those dropped.                                             *)
(***************************************************************************)
EXTENDS Host, ProofFacts

Rad == INSTANCE RadioProofs WITH Airtime <- [f \in Frames |-> 1], BadFrames <- {}

-----------------------------------------------------------------------------
(* Settings.                                                               *)

\* What can stand in an overlay.
IsOverlay(v) ==
    /\ v = [k \in DOMAIN v |-> v[k]] /\ DOMAIN v \subseteq Keys
    /\ "name" \in DOMAIN v => v["name"] \in Names
    /\ "hops" \in DOMAIN v => v["hops"] \in 1..MaxHopCount

\* What may be stored under a key.
Stored(key, value) ==
    \/ key = "name" /\ value \in Names
    \/ key = "hops" /\ value \in 1..MaxHopCount

LEMMA ClampKeeps ==
    ASSUME NEW n \in 1..MaxHopCount
    PROVE  MaxHopsFrom(n) = n
<1>1. MaxHopCount \in Nat /\ MaxHopCount < 256 /\ n \in Nat /\ n >= 1 /\ n <= MaxHopCount
  BY HostAssumption
<1>2. n % 256 = n
  BY <1>1
<1>3. Min({n, MaxHopCount}) = n
  BY <1>1 DEF Min
<1>4. Max({1, n}) = n
  BY <1>1 DEF Max
<1> QED
  BY <1>2, <1>3, <1>4 DEF MaxHopsFrom

LEMMA WithFacts ==
    ASSUME NEW v, IsOverlay(v), NEW key, NEW value, Stored(key, value)
    PROVE  /\ IsOverlay(With(v, key, value))
           /\ Effective(With(v, key, value)) = [Effective(v) EXCEPT ![key] = value]
<1> DEFINE c == With(v, key, value)
<1>1. /\ DOMAIN c = DOMAIN v \cup {key} /\ c = [k \in DOMAIN c |-> c[k]]
      /\ c[key] = value
      /\ \A k \in DOMAIN v : k # key => c[k] = v[k]
  BY DEF With
<1> HIDE DEF c
<1>2. IsOverlay(c)
  BY <1>1 DEF IsOverlay, Stored, Keys
<1>3. ASSUME key = "name" PROVE Effective(c) = [Effective(v) EXCEPT !["name"] = value]
  BY <1>1, <1>3 DEF Effective, Keys
<1>4. ASSUME key = "hops", value \in 1..MaxHopCount
      PROVE  Effective(c) = [Effective(v) EXCEPT !["hops"] = value]
  BY <1>1, <1>4, ClampKeeps DEF Effective, Keys
<1> QED
  BY <1>2, <1>3, <1>4 DEF Stored, c

SettingsInv ==
    /\ IsOverlay(values) /\ IsOverlay(file.read) /\ IsOverlay(file.synced)
    /\ file = [read |-> file.read, synced |-> file.synced]
    /\ pc # "down" => values = file.read
    /\ SettingsDurable

LEMMA SettingsInit == Init => SettingsInv
<1> SUFFICES ASSUME Init PROVE SettingsInv
  OBVIOUS
<1>1. IsOverlay(<<>>)
  BY DEF IsOverlay
<1> QED
  BY <1>1 DEF Init, SettingsInv, SettingsDurable

LEMMA SetStep ==
    ASSUME SettingsInv, Commanded, NEW key, NEW value, Stored(key, value),
           NEW outcome \in {"failed", "renamed", "synced"}, Set(key, value, outcome)
    PROVE  /\ IsOverlay(values') /\ IsOverlay(file'.read) /\ IsOverlay(file'.synced)
           /\ file' = [read |-> file'.read, synced |-> file'.synced]
           /\ values' = file'.read
           /\ Effective(file'.read) =
                  IF outcome = "failed" THEN inForce ELSE [inForce EXCEPT ![key] = value]
<1> DEFINE c == With(values, key, value)
<1>1. /\ values' = IF outcome = "failed" THEN values ELSE c
      /\ file' = Written(outcome, c)
  BY DEF Set
<1>2. /\ values = file.read /\ inForce = Effective(values)
      /\ IsOverlay(values) /\ IsOverlay(file.read) /\ IsOverlay(file.synced)
      /\ file = [read |-> file.read, synced |-> file.synced]
  BY DEF SettingsInv, SettingsDurable, Commanded
<1>3. IsOverlay(c) /\ Effective(c) = [inForce EXCEPT ![key] = value]
  BY <1>2, WithFacts
<1> HIDE DEF c
<1>4. CASE outcome = "failed"
  BY <1>1, <1>2, <1>4 DEF Written
<1>5. CASE outcome = "renamed"
  <2>1. file' = [read |-> c, synced |-> file.synced] /\ values' = c
    BY <1>1, <1>2, <1>5 DEF Written
  <2> QED BY <1>2, <1>3, <1>5, <2>1
<1>6. CASE outcome = "synced"
  <2>1. file' = [read |-> c, synced |-> c] /\ values' = c
    BY <1>1, <1>2, <1>6 DEF Written
  <2> QED BY <1>3, <1>6, <2>1
<1> QED
  BY <1>4, <1>5, <1>6

LEMMA SettingsNext == SettingsInv /\ [Next]_vars => SettingsInv'
<1> SUFFICES ASSUME SettingsInv, [Next]_vars PROVE SettingsInv'
  OBVIOUS
<1>1. ASSUME UNCHANGED settingVars, pc' = "down" \/ pc # "down" PROVE SettingsInv'
  <2>1. inForce' = inForce /\ values' = values /\ file' = file
    BY <1>1 DEF settingVars
  <2> QED BY <1>1, <2>1 DEF SettingsInv, SettingsDurable, Effective, MaxHopsFrom, IsOverlay
<1>2. ASSUME NEW key, NEW value, Stored(key, value), NEW outcome \in {"failed", "renamed", "synced"},
             SetCommand(key, value, outcome)
      PROVE  SettingsInv'
  <2>1. /\ Commanded /\ Set(key, value, outcome)
        /\ inForce' = IF outcome = "failed" THEN inForce ELSE [inForce EXCEPT ![key] = value]
    BY <1>2 DEF SetCommand, Answer
  <2>2. /\ IsOverlay(values') /\ IsOverlay(file'.read) /\ IsOverlay(file'.synced)
        /\ file' = [read |-> file'.read, synced |-> file'.synced]
        /\ values' = file'.read /\ Effective(file'.read) = inForce'
    BY <1>2, <2>1, SetStep
  <2> QED BY <2>2 DEF SettingsInv, SettingsDurable, IsOverlay, Effective, MaxHopsFrom
<1>3. ASSUME NEW name \in Names, PowerCutInSet("name", name) PROVE SettingsInv'
  <2>1. Commanded /\ pc' = "down" /\ Set("name", name, "synced") /\ Stored("name", name)
    BY <1>3 DEF PowerCutInSet, Stored
  <2>2. /\ IsOverlay(values') /\ IsOverlay(file'.read) /\ IsOverlay(file'.synced)
        /\ file' = [read |-> file'.read, synced |-> file'.synced]
    BY <2>1, SetStep
  <2> QED BY <2>1, <2>2 DEF SettingsInv, SettingsDurable, IsOverlay
<1>4. ASSUME PowerCut PROVE SettingsInv'
  <2>1. /\ pc' = "down" /\ values' = values
        /\ \E content \in {file.read, file.synced} : file' = [read |-> content, synced |-> content]
    BY <1>4 DEF PowerCut
  <2>2. PICK content \in {file.read, file.synced} : file' = [read |-> content, synced |-> content]
    BY <2>1
  <2>3. IsOverlay(content)
    BY DEF SettingsInv
  <2> QED BY <2>1, <2>2, <2>3 DEF SettingsInv, SettingsDurable, IsOverlay
<1>5. ASSUME Start PROVE SettingsInv'
  <2>1. inForce' = Effective(file.read) /\ values' = file.read /\ file' = file
    BY <1>5 DEF Start
  <2> QED BY <2>1 DEF SettingsInv, SettingsDurable, Effective, MaxHopsFrom, IsOverlay
<1>6. CASE UNCHANGED vars
  BY <1>1, <1>6 DEF vars, settingVars
<1>7. CASE Turn
  BY <1>1, <1>7 DEF Turn
<1>8. CASE Signal
  BY <1>1, <1>8 DEF Signal
<1>9. CASE Receive
  BY <1>1, <1>9 DEF Receive
<1>10. CASE \/ \E name \in Names, outcome \in {"failed", "renamed", "synced"} :
                   SetCommand("name", name, outcome)
            \/ \E hops \in Hops, outcome \in {"failed", "renamed", "synced"} :
                   SetCommand("hops", hops, outcome)
  <2>1. \A name \in Names : Stored("name", name)
    BY DEF Stored
  <2>2. \A hops \in Hops : Stored("hops", hops)
    BY HostAssumption DEF Stored
  <2> QED BY <1>2, <1>10, <2>1, <2>2
<1>11. CASE ReturnPath \/ AdvertCommand
  BY <1>1, <1>11 DEF ReturnPath, AdvertCommand, Answer, Commanded
<1>12. CASE RebootCommand
  BY <1>1, <1>12 DEF RebootCommand, Answer, Commanded
<1>13. CASE \E part \in Parts : Traffic(part)
  BY <1>1, <1>13 DEF Traffic
<1>14. CASE Transmit
  BY <1>1, <1>14 DEF Transmit
<1>15. CASE Advertise
  BY <1>1, <1>15 DEF Advertise
<1>16. CASE Flush
  BY <1>1, <1>16 DEF Flush
<1>17. CASE Shutdown
  BY <1>1, <1>17 DEF Shutdown
<1> QED
  BY <1>3, <1>4, <1>5, <1>6, <1>7, <1>8, <1>9, <1>10, <1>11, <1>12, <1>13, <1>14, <1>15, <1>16,
     <1>17 DEF Next

LEMMA SettingsAlways == Spec => []SettingsInv
BY SettingsInit, SettingsNext, PTL DEF Spec

\* While the program runs, its settings are those it would read at its next
\* start, whichever changes could not be stored and whenever the power went
\* (Overlay::set, HostAdmin::setNodeName, applyOverlay).
THEOREM SettingsStayDurable == Spec => []SettingsDurable
<1>1. SettingsInv => SettingsDurable
  BY DEF SettingsInv
<1> QED
  BY <1>1, SettingsAlways, PTL

-----------------------------------------------------------------------------
(* The exit.                                                               *)

\* An exit the program calls a success has nothing unsaved, whatever failed on
\* the way out and however often it was started before (main, after the loop).
THEOREM SuccessMeansSaved == Spec => []ExitMeansSaved
<1>1. Init => ExitMeansSaved
  BY DEF Init, ExitMeansSaved
<1>2. ExitMeansSaved /\ [Next]_vars => ExitMeansSaved'
  <2> SUFFICES ASSUME ExitMeansSaved, [Next]_vars PROVE ExitMeansSaved'
    OBVIOUS
  <2>1. CASE UNCHANGED vars
    BY <2>1 DEF vars, ExitMeansSaved
  <2>2. CASE Shutdown
    <3>1. PICK failed \in SUBSET Parts : /\ unsaved' = Saved(failed).left
                                         /\ exit' = IF Saved(failed).ok THEN 0 ELSE 1
      BY <2>2 DEF Shutdown
    <3>2. ASSUME exit' = 0 PROVE unsaved' = {}
      <4>1. Saved(failed).ok
        BY <3>1, <3>2
      <4>2. "contacts" \notin failed /\ "room" \notin failed
        BY <4>1 DEF Saved
      <4>3. failed = {}
        BY <4>2 DEF Parts
      <4> QED BY <3>1, <4>3 DEF Saved
    <3> QED BY <3>2 DEF ExitMeansSaved
  <2>3. CASE PowerCut \/ \E name \in Names : PowerCutInSet("name", name)
    BY <2>3 DEF PowerCut, PowerCutInSet, ExitMeansSaved
  <2>4. ASSUME pc' # "down" PROVE ExitMeansSaved'
    BY <2>4 DEF ExitMeansSaved
  <2>5. CASE Turn \/ Signal \/ Receive \/ Transmit \/ Advertise \/ Flush \/ Start
    BY <2>4, <2>5 DEF Turn, Signal, Receive, Transmit, Advertise, Flush, Start
  <2>6. CASE \/ ReturnPath \/ AdvertCommand \/ RebootCommand \/ \E part \in Parts : Traffic(part)
             \/ \E name \in Names, outcome \in {"failed", "renamed", "synced"} :
                   SetCommand("name", name, outcome)
             \/ \E hops \in Hops, outcome \in {"failed", "renamed", "synced"} :
                   SetCommand("hops", hops, outcome)
    BY <2>4, <2>6 DEF ReturnPath, AdvertCommand, RebootCommand, Traffic, SetCommand, Answer
  <2> QED BY <2>1, <2>2, <2>3, <2>5, <2>6 DEF Next
<1> QED
  BY <1>1, <1>2, PTL DEF Spec

-----------------------------------------------------------------------------
(* The ring of events.                                                     *)

Buses == [ring : [0..Capacity - 1 -> Events], head : 0..Capacity - 1, count : 0..Capacity,
          dropped : Nat]

\* The places of the ring that hold an event of this type.
HeldIn(b, type) == {i \in InRing(b) : b.ring[i] = type}

\* What became of the events of a type that are neither counted nor waiting.
Lost(b, pub, counts) == [e \in Events |-> pub[e] - counts[e] - OfType(b, e)]

\* EventsAccounted, of any ring and any counts.
Accounted(b, pub, counts) ==
    /\ b \in Buses /\ pub \in [Events -> Nat] /\ counts \in [Events -> Nat]
    /\ \A e \in Events : counts[e] + OfType(b, e) <= pub[e]
    /\ SumOver(Lost(b, pub, counts), Events) = b.dropped

LEMMA CapacityFacts == Capacity \in Nat \ {0}
BY HostAssumption

LEMMA EventsFinite == IsFiniteSet(Events)
<1>1. IsFiniteSet({"FrameRx"})
  BY FS_Singleton
<1>2. IsFiniteSet({"FrameRx"} \cup {"FrameTx"})
  BY <1>1, FS_AddElement
<1>3. IsFiniteSet(({"FrameRx"} \cup {"FrameTx"}) \cup {"ContactAdded"})
  BY <1>2, FS_AddElement
<1>4. IsFiniteSet((({"FrameRx"} \cup {"FrameTx"}) \cup {"ContactAdded"}) \cup {"PostAdded"})
  BY <1>3, FS_AddElement
<1>5. Events = (({"FrameRx"} \cup {"FrameTx"}) \cup {"ContactAdded"}) \cup {"PostAdded"}
  BY DEF Events
<1> QED
  BY <1>4, <1>5

LEMMA ModFacts ==
    ASSUME NEW a \in 0..Capacity - 1, NEW i \in 0..Capacity
    PROVE  (a + i) % Capacity = IF a + i < Capacity THEN a + i ELSE a + i - Capacity
<1>1. \A C \in Nat \ {0} : \A n \in 0..C - 1 : n % C = n
  OBVIOUS
<1>2. \A C \in Nat \ {0} : \A n \in C..2 * C - 1 : n % C = n - C
  OBVIOUS
<1>3. CASE a + i < Capacity
  <2>1. a + i \in 0..Capacity - 1
    BY <1>3, CapacityFacts
  <2> QED BY <1>1, <1>3, <2>1, CapacityFacts
<1>4. CASE ~(a + i < Capacity)
  <2>1. a + i \in Capacity..2 * Capacity - 1
    BY <1>4, CapacityFacts
  <2> QED BY <1>2, <1>4, <2>1, CapacityFacts
<1> QED
  BY <1>3, <1>4

LEMMA Wrapped ==
    ASSUME NEW C \in Nat, NEW h \in Nat, NEW i \in Nat, NEW c \in Nat, h < C, i < c, c < C
    PROVE  (IF h + i < C THEN h + i ELSE h + i - C) # (IF h + c < C THEN h + c ELSE h + c - C)
OBVIOUS

\* The tail is a place of the ring that is not in use.
LEMMA RingFacts ==
    ASSUME NEW b \in Buses
    PROVE  /\ InRing(b) \subseteq 0..Capacity - 1 /\ IsFiniteSet(InRing(b))
           /\ RingTail(b) \in 0..Capacity - 1
           /\ b.count < Capacity => RingTail(b) \notin InRing(b)
           /\ \A e \in Events : IsFiniteSet(HeldIn(b, e)) /\ OfType(b, e) \in Nat
<1>1. /\ b.head \in 0..Capacity - 1 /\ b.count \in 0..Capacity /\ Capacity \in Nat \ {0}
  BY CapacityFacts DEF Buses
<1>2. \A i \in 0..b.count - 1 : i \in 0..Capacity /\ i < b.count
  BY <1>1
<1>3. \A i \in 0..Capacity : (b.head + i) % Capacity \in 0..Capacity - 1
  <2>1. \A i \in 0..Capacity :
            (b.head + i) % Capacity = IF b.head + i < Capacity THEN b.head + i ELSE b.head + i - Capacity
    BY <1>1, ModFacts
  <2> QED BY <1>1, <2>1, SMTT(30)
<1>4. InRing(b) \subseteq 0..Capacity - 1
  BY <1>2, <1>3 DEF InRing
<1>5. IsFiniteSet(InRing(b))
  <2>1. IsFiniteSet(0..Capacity - 1)
    BY <1>1, FS_Interval
  <2> QED BY <1>4, <2>1, FS_Subset
<1>6. RingTail(b) \in 0..Capacity - 1
  BY <1>1, <1>3 DEF RingTail
<1>7. ASSUME b.count < Capacity PROVE RingTail(b) \notin InRing(b)
  <2> SUFFICES ASSUME NEW i \in 0..b.count - 1, (b.head + i) % Capacity = (b.head + b.count) % Capacity
               PROVE  FALSE
    BY DEF RingTail, InRing
  <2>1. /\ (b.head + i) % Capacity = IF b.head + i < Capacity THEN b.head + i ELSE b.head + i - Capacity
        /\ (b.head + b.count) % Capacity =
               IF b.head + b.count < Capacity THEN b.head + b.count ELSE b.head + b.count - Capacity
    BY <1>1, <1>2, ModFacts
  <2>2. /\ b.head \in Nat /\ b.count \in Nat /\ i \in Nat /\ Capacity \in Nat /\ b.head < Capacity
        /\ i < b.count /\ b.count < Capacity
    BY <1>1, <1>2, <1>7
  <2> QED BY <2>1, <2>2, Wrapped
<1>8. \A e \in Events : IsFiniteSet(HeldIn(b, e)) /\ OfType(b, e) \in Nat
  BY <1>5, FS_Subset, FS_CardinalityType DEF HeldIn, OfType
<1> QED
  BY <1>4, <1>5, <1>6, <1>7, <1>8

LEMMA LostFacts ==
    ASSUME NEW b, NEW pub, NEW counts, Accounted(b, pub, counts)
    PROVE  \A e \in Events : /\ Lost(b, pub, counts)[e] \in Nat
                             /\ Lost(b, pub, counts)[e] = pub[e] - counts[e] - OfType(b, e)
BY RingFacts DEF Lost, Accounted

\* One event.
LEMMA PublishedOne ==
    ASSUME NEW b, NEW pub, NEW counts, Accounted(b, pub, counts), NEW type \in Events
    PROVE  Accounted(Published(b, type), [pub EXCEPT ![type] = @ + 1], counts)
<1> DEFINE after == Published(b, type)
           more  == [pub EXCEPT ![type] = @ + 1]
<1>1. /\ b \in Buses /\ pub \in [Events -> Nat] /\ counts \in [Events -> Nat]
      /\ \A e \in Events : counts[e] + OfType(b, e) <= pub[e] /\ OfType(b, e) \in Nat
      /\ SumOver(Lost(b, pub, counts), Events) = b.dropped
  BY RingFacts DEF Accounted
<1>2. /\ more \in [Events -> Nat] /\ more[type] = pub[type] + 1
      /\ \A e \in Events \ {type} : more[e] = pub[e]
  BY <1>1
<1>3. /\ b.count \in 0..Capacity /\ b.head \in 0..Capacity - 1 /\ b.dropped \in Nat
      /\ b.ring \in [0..Capacity - 1 -> Events] /\ Capacity \in Nat \ {0}
  BY <1>1, CapacityFacts DEF Buses
<1> HIDE DEF more
<1>4. CASE b.count = Capacity
  <2>1. after = [ring |-> b.ring, head |-> b.head, count |-> b.count, dropped |-> b.dropped + 1]
    BY <1>1, <1>4 DEF Published, Buses
  <2>2. /\ after \in Buses /\ after.ring = b.ring /\ after.head = b.head /\ after.count = b.count
        /\ after.dropped = b.dropped + 1
    BY <1>3, <2>1 DEF Buses
  <2> HIDE DEF after
  <2>3. \A e \in Events : OfType(after, e) = OfType(b, e)
    BY <2>2 DEF OfType, InRing
  <2>4. \A e \in Events : counts[e] + OfType(after, e) <= more[e]
    <3> SUFFICES ASSUME NEW e \in Events PROVE counts[e] + OfType(b, e) <= more[e]
      BY <2>3
    <3>1. counts[e] \in Nat /\ OfType(b, e) \in Nat /\ pub[e] \in Nat /\ counts[e] + OfType(b, e) <= pub[e]
      BY <1>1
    <3> QED BY <1>2, <3>1
  <2> DEFINE v == Lost(after, more, counts)
             w == Lost(b, pub, counts)
             R == Events \ {type}
  <2>5. /\ \A e \in Events : w[e] \in Nat /\ w[e] = pub[e] - counts[e] - OfType(b, e)
        /\ \A e \in Events : v[e] = more[e] - counts[e] - OfType(after, e)
    BY LostFacts DEF Lost
  <2> HIDE DEF v, w
  <2>6. \A e \in R : v[e] = w[e] /\ w[e] \in Nat
    BY <1>2, <2>3, <2>5
  <2>7. v[type] = w[type] + 1 /\ w[type] \in Nat /\ v[type] \in Nat
    <3>1. pub[type] \in Nat /\ counts[type] \in Nat /\ OfType(b, type) \in Nat
      BY <1>1
    <3> QED BY <1>2, <2>3, <2>5, <3>1
  <2>8. IsFiniteSet(R)
    BY EventsFinite, FS_Subset
  <2>9. SumOver(v, Events) = v[type] + SumOver(v, R) /\ SumOver(w, Events) = w[type] + SumOver(w, R)
    <3>1. \A e \in Events : v[e] \in Nat /\ w[e] \in Nat
      BY <2>6, <2>7
    <3> QED BY <3>1, EventsFinite, SumFacts
  <2> HIDE DEF R
  <2>10. SumOver(v, R) = SumOver(w, R) /\ SumOver(w, R) \in Nat
    BY <2>6, <2>8, SumSame, SumFacts
  <2>11. SumOver(v, Events) = after.dropped
    BY <1>1, <1>3, <2>2, <2>7, <2>9, <2>10 DEF w
  <2> QED BY <1>1, <1>2, <2>2, <2>4, <2>11 DEF Accounted, after, more, v
<1>5. CASE b.count # Capacity
  <2> DEFINE tail == RingTail(b)
  <2>1. after = [ring |-> [b.ring EXCEPT ![tail] = type], head |-> b.head, count |-> b.count + 1,
                 dropped |-> b.dropped]
    BY <1>1, <1>5 DEF Published, Buses
  <2>2. /\ tail \in 0..Capacity - 1 /\ tail \notin InRing(b) /\ InRing(b) \subseteq 0..Capacity - 1
    <3>1. b.count < Capacity
      BY <1>3, <1>5
    <3> QED BY <1>1, <3>1, RingFacts
  <2>3. tail = (b.head + b.count) % Capacity
    BY DEF RingTail
  <2> HIDE DEF tail
  <2>4. /\ after \in Buses /\ after.ring = [b.ring EXCEPT ![tail] = type] /\ after.head = b.head
        /\ after.count = b.count + 1 /\ after.dropped = b.dropped
    <3>1. [b.ring EXCEPT ![tail] = type] \in [0..Capacity - 1 -> Events] /\ b.count + 1 \in 0..Capacity
      BY <1>3, <1>5, <2>2
    <3> QED BY <1>3, <2>1, <3>1 DEF Buses
  <2>5. /\ after.ring[tail] = type
        /\ \A i \in InRing(b) : after.ring[i] = b.ring[i]
    BY <1>3, <2>2, <2>4
  <2> HIDE DEF after
  <2>6. InRing(after) = InRing(b) \cup {tail}
    <3>1. \A i : i \in 0..after.count - 1 <=> i \in 0..b.count - 1 \/ i = b.count
      BY <1>3, <2>4
    <3> QED BY <2>3, <2>4, <3>1 DEF InRing
  <2>7. \A e \in Events : OfType(after, e) = IF e = type THEN OfType(b, e) + 1 ELSE OfType(b, e)
    <3> SUFFICES ASSUME NEW e \in Events
                 PROVE  OfType(after, e) = IF e = type THEN OfType(b, e) + 1 ELSE OfType(b, e)
      OBVIOUS
    <3> DEFINE H == HeldIn(b, e)
    <3>1. IsFiniteSet(H) /\ tail \notin H
      BY <1>1, <2>2, RingFacts DEF HeldIn
    <3>2. HeldIn(after, e) = IF e = type THEN H \cup {tail} ELSE H
      BY <2>5, <2>6 DEF HeldIn
    <3>3. OfType(b, e) = Cardinality(H) /\ OfType(after, e) = Cardinality(HeldIn(after, e))
      BY DEF OfType, HeldIn
    <3> HIDE DEF H
    <3>4. Cardinality(H \cup {tail}) = Cardinality(H) + 1
      BY <3>1, FS_AddElement
    <3> QED BY <3>2, <3>3, <3>4
  <2>8. \A e \in Events : /\ counts[e] + OfType(after, e) <= more[e]
                          /\ more[e] - counts[e] - OfType(after, e) = pub[e] - counts[e] - OfType(b, e)
    <3> SUFFICES ASSUME NEW e \in Events
                 PROVE  /\ counts[e] + OfType(after, e) <= more[e]
                        /\ more[e] - counts[e] - OfType(after, e) = pub[e] - counts[e] - OfType(b, e)
      OBVIOUS
    <3>1. counts[e] \in Nat /\ OfType(b, e) \in Nat /\ pub[e] \in Nat /\ counts[e] + OfType(b, e) <= pub[e]
      BY <1>1
    <3>2. CASE e = type
      BY <1>2, <2>7, <3>1, <3>2
    <3>3. CASE e # type
      BY <1>2, <2>7, <3>1, <3>3
    <3> QED BY <3>2, <3>3
  <2>9. Lost(after, more, counts) = Lost(b, pub, counts)
    BY <2>8 DEF Lost
  <2> QED BY <1>1, <1>2, <2>4, <2>8, <2>9 DEF Accounted, after, more
<1> QED
  BY <1>4, <1>5

\* What was published when the first n of these were.
PublishedBy(pub, types, n) == [e \in Events |-> pub[e] + Cardinality({i \in 1..n : types[i] = e})]

LEMMA PublishedNext ==
    ASSUME NEW pub \in [Events -> Nat], NEW types \in Seq(Events), NEW n \in 1..Len(types)
    PROVE  PublishedBy(pub, types, n) =
               [PublishedBy(pub, types, n - 1) EXCEPT ![types[n]] = @ + 1]
<1> DEFINE At(e, k) == {i \in 1..k : types[i] = e}
<1>1. n \in Nat /\ n >= 1 /\ types[n] \in Events
  BY LenProperties
<1>2. \A e : At(e, n) = IF e = types[n] THEN At(e, n - 1) \cup {n} ELSE At(e, n - 1)
  <2> SUFFICES ASSUME NEW e PROVE At(e, n) = IF e = types[n] THEN At(e, n - 1) \cup {n} ELSE At(e, n - 1)
    OBVIOUS
  <2>1. \A i : i \in 1..n <=> i \in 1..n - 1 \/ i = n
    BY <1>1
  <2> QED BY <2>1
<1>3. \A e : IsFiniteSet(At(e, n - 1)) /\ n \notin At(e, n - 1) /\ Cardinality(At(e, n - 1)) \in Nat
  <2> SUFFICES ASSUME NEW e
               PROVE  IsFiniteSet(At(e, n - 1)) /\ n \notin At(e, n - 1) /\ Cardinality(At(e, n - 1)) \in Nat
    OBVIOUS
  <2>1. IsFiniteSet(1..n - 1)
    BY <1>1, FS_Interval
  <2>2. IsFiniteSet(At(e, n - 1))
    BY <2>1, FS_Subset
  <2> QED BY <1>1, <2>2, FS_CardinalityType
<1>4. \A e \in Events : /\ PublishedBy(pub, types, n)[e] = pub[e] + Cardinality(At(e, n))
                        /\ PublishedBy(pub, types, n - 1)[e] = pub[e] + Cardinality(At(e, n - 1))
  BY DEF PublishedBy
<1>5. /\ PublishedBy(pub, types, n) = [e \in Events |-> PublishedBy(pub, types, n)[e]]
      /\ PublishedBy(pub, types, n - 1) = [e \in Events |-> PublishedBy(pub, types, n - 1)[e]]
  BY DEF PublishedBy
<1> HIDE DEF At
<1>6. Cardinality(At(types[n], n)) = Cardinality(At(types[n], n - 1)) + 1
  <2> DEFINE before == At(types[n], n - 1)
  <2>1. At(types[n], n) = before \cup {n} /\ IsFiniteSet(before) /\ n \notin before
    BY <1>2, <1>3
  <2> HIDE DEF before
  <2>2. Cardinality(before \cup {n}) = Cardinality(before) + 1
    BY <2>1, FS_AddElement
  <2> QED BY <2>1, <2>2 DEF before
<1>7. \A e \in Events : PublishedBy(pub, types, n)[e] =
                            IF e = types[n] THEN PublishedBy(pub, types, n - 1)[e] + 1
                            ELSE PublishedBy(pub, types, n - 1)[e]
  <2> SUFFICES ASSUME NEW e \in Events
               PROVE  PublishedBy(pub, types, n)[e] =
                            IF e = types[n] THEN PublishedBy(pub, types, n - 1)[e] + 1
                            ELSE PublishedBy(pub, types, n - 1)[e]
    OBVIOUS
  <2>1. pub[e] \in Nat /\ Cardinality(At(e, n - 1)) \in Nat
    BY <1>3
  <2>2. CASE e = types[n]
    BY <1>4, <1>6, <2>1, <2>2
  <2>3. CASE e # types[n]
    BY <1>2, <1>4, <2>3
  <2> QED BY <2>2, <2>3
<1> QED
  BY <1>1, <1>5, <1>7

LEMMA PublishStep ==
    ASSUME Accounted(bus, published, counters), NEW types \in Seq(Events), Publish(types)
    PROVE  Accounted(bus', published', counters')
<1> DEFINE L == Len(types)
           step == [n \in 1..L |-> [b \in Buses |-> Published(b, types[n])]]
           Body(f) == [n \in 0..L |-> IF n = 0 THEN bus ELSE Published(f[n - 1], types[n])]
           after == CHOOSE f : f = Body(f)
<1>1. /\ L \in Nat /\ bus \in Buses /\ published \in [Events -> Nat]
      /\ \A n \in 1..L : types[n] \in Events
  BY LenProperties, ElementOfSeq DEF Accounted
<1>2. step \in [1..L -> [Buses -> Buses]]
  <2>1. ASSUME NEW b \in Buses, NEW n \in 1..L PROVE Published(b, types[n]) \in Buses
    <3>1. /\ b.ring \in [0..Capacity - 1 -> Events] /\ b.head \in 0..Capacity - 1
          /\ b.count \in 0..Capacity /\ b.dropped \in Nat /\ types[n] \in Events
          /\ Capacity \in Nat
      BY <1>1, CapacityFacts DEF Buses
    <3>2. CASE b.count = Capacity
      <4>1. Published(b, types[n]) =
                [ring |-> b.ring, head |-> b.head, count |-> b.count, dropped |-> b.dropped + 1]
        BY <3>2 DEF Published, Buses
      <4> QED BY <3>1, <4>1 DEF Buses
    <3>3. CASE b.count # Capacity
      <4>1. Published(b, types[n]) =
                [ring |-> [b.ring EXCEPT ![RingTail(b)] = types[n]], head |-> b.head,
                 count |-> b.count + 1, dropped |-> b.dropped]
        BY <3>3 DEF Published, Buses
      <4>2. b.count + 1 \in 0..Capacity /\ b.dropped \in Nat
        BY <3>1, <3>3
      <4>3. [b.ring EXCEPT ![RingTail(b)] = types[n]] \in [0..Capacity - 1 -> Events]
        BY <3>1
      <4> QED BY <3>1, <4>1, <4>2, <4>3 DEF Buses
    <3> QED BY <3>2, <3>3
  <2> QED BY <2>1
<1>3. PICK f \in [0..L -> Buses] : f[0] = bus /\ \A i \in 1..L : f[i] = step[i][f[i - 1]]
  <2> HIDE DEF L, step
  <2>1. \E f : IsRun(f, L, Buses, bus, step)
    BY <1>1, <1>2, LoopRuns
  <2> QED BY <2>1 DEF IsRun
<1> HIDE DEF L
<1>4. f = Body(f)
  <2>1. ASSUME NEW n \in 0..L PROVE f[n] = IF n = 0 THEN bus ELSE Published(f[n - 1], types[n])
    <3>1. CASE n = 0
      BY <1>3, <3>1
    <3>2. CASE n # 0
      <4>1. n \in 1..L /\ n - 1 \in 0..L
        BY <1>1, <3>2
      <4>2. f[n - 1] \in Buses
        BY <4>1
      <4> QED BY <1>3, <3>2, <4>1, <4>2
    <3> QED BY <3>1, <3>2
  <2> QED BY <2>1
<1>5. after = Body(after)
  <2> HIDE DEF Body
  <2> QED BY <1>4
<1>6. /\ bus' = after[L] /\ published' = PublishedBy(published, types, L) /\ counters' = counters
  BY DEF Publish, PublishedBy, L
<1> HIDE DEF after
<1>7. after[0] = bus
  <2>1. 0 \in 0..L
    BY <1>1
  <2>2. Body(after)[0] = bus
    BY <2>1
  <2> HIDE DEF Body
  <2> QED BY <1>5, <2>2
<1>8. ASSUME NEW n \in 1..L PROVE after[n] = Published(after[n - 1], types[n])
  <2>1. n \in 0..L /\ n # 0
    BY <1>1
  <2>2. Body(after)[n] = Published(after[n - 1], types[n])
    BY <2>1
  <2> HIDE DEF Body
  <2> QED BY <1>5, <2>2
<1> DEFINE R == {n \in 0..L : Accounted(after[n], PublishedBy(published, types, n), counters)}
<1>9. 0 \in R
  <2>1. \A e \in Events : Cardinality({i \in 1..0 : types[i] = e}) = 0
    <3>1. \A e \in Events : {i \in 1..0 : types[i] = e} = {}
      OBVIOUS
    <3> QED BY <3>1, FS_EmptySet
  <2>2. \A e \in Events : PublishedBy(published, types, 0)[e] = published[e]
    BY <1>1, <2>1 DEF PublishedBy
  <2>3. PublishedBy(published, types, 0) = [e \in Events |-> PublishedBy(published, types, 0)[e]]
    BY DEF PublishedBy
  <2>4. PublishedBy(published, types, 0) = published
    BY <1>1, <2>2, <2>3
  <2> QED BY <1>1, <1>7, <2>4
<1>10. ASSUME NEW n \in 1..L, n - 1 \in R PROVE n \in R
  <2>1. Accounted(after[n - 1], PublishedBy(published, types, n - 1), counters) /\ types[n] \in Events
    BY <1>1, <1>10
  <2>2. Accounted(Published(after[n - 1], types[n]),
                  [PublishedBy(published, types, n - 1) EXCEPT ![types[n]] = @ + 1], counters)
    BY <2>1, PublishedOne
  <2>3. PublishedBy(published, types, n) =
            [PublishedBy(published, types, n - 1) EXCEPT ![types[n]] = @ + 1]
    BY <1>1, PublishedNext DEF L
  <2>4. Accounted(after[n], PublishedBy(published, types, n), counters)
    BY <1>8, <2>2, <2>3
  <2>5. n \in 0..L
    BY <1>1
  <2> QED BY <2>4, <2>5
<1>11. \A n \in 0..L : n \in R
  <2> HIDE DEF R
  <2> QED BY <1>1, <1>9, <1>10, InductionUpTo
<1>12. Accounted(after[L], PublishedBy(published, types, L), counters)
  BY <1>1, <1>11
<1> QED
  BY <1>6, <1>12

LEMMA DrainStep ==
    ASSUME Accounted(bus, published, counters), Drain
    PROVE  Accounted(bus', published', counters')
<1>1. /\ bus \in Buses /\ published \in [Events -> Nat] /\ counters \in [Events -> Nat]
      /\ \A e \in Events : counters[e] + OfType(bus, e) <= published[e] /\ OfType(bus, e) \in Nat
      /\ SumOver(Lost(bus, published, counters), Events) = bus.dropped
  BY RingFacts DEF Accounted
<1>2. /\ bus.head \in 0..Capacity - 1 /\ bus.count \in 0..Capacity /\ Capacity \in Nat \ {0}
      /\ bus.ring \in [0..Capacity - 1 -> Events] /\ bus.dropped \in Nat
  BY <1>1, CapacityFacts DEF Buses
<1> DEFINE after == [ring |-> bus.ring, head |-> (bus.head + bus.count) % Capacity, count |-> 0,
                     dropped |-> bus.dropped]
<1>3. bus' = after /\ published' = published
  BY <1>1 DEF Drain, Buses
<1>4. after \in Buses /\ after.count = 0 /\ after.dropped = bus.dropped
  <2>1. (bus.head + bus.count) % Capacity \in 0..Capacity - 1
    BY <1>1, RingFacts DEF RingTail
  <2> QED BY <1>2, <2>1 DEF Buses
<1> HIDE DEF after
<1>5. \A e \in Events : OfType(after, e) = 0
  <2>1. InRing(after) = {}
    BY <1>4 DEF InRing
  <2>2. \A e \in Events : {i \in InRing(after) : after.ring[i] = e} = {}
    BY <2>1
  <2> QED BY <2>2, FS_EmptySet DEF OfType
<1>6. /\ counters' \in [Events -> Nat]
      /\ \A e \in Events : counters'[e] = counters[e] + OfType(bus, e)
  BY <1>1 DEF Drain
<1>7. \A e \in Events : /\ counters'[e] + OfType(after, e) <= published[e]
                        /\ published[e] - counters'[e] - OfType(after, e)
                             = published[e] - counters[e] - OfType(bus, e)
  <2> SUFFICES ASSUME NEW e \in Events
               PROVE  /\ counters'[e] + OfType(after, e) <= published[e]
                      /\ published[e] - counters'[e] - OfType(after, e)
                           = published[e] - counters[e] - OfType(bus, e)
    OBVIOUS
  <2>1. /\ published[e] \in Nat /\ counters[e] \in Nat /\ OfType(bus, e) \in Nat
        /\ counters[e] + OfType(bus, e) <= published[e]
    BY <1>1
  <2> QED BY <1>5, <1>6, <2>1
<1>8. Lost(after, published, counters') = Lost(bus, published, counters)
  BY <1>7 DEF Lost
<1> QED
  BY <1>1, <1>3, <1>4, <1>6, <1>7, <1>8 DEF Accounted

LEMMA EmptyAccounted == Accounted(EmptyBus, NoEvents, NoEvents)
<1> DEFINE b == EmptyBus
           none == NoEvents
<1>1. b \in Buses /\ b.count = 0 /\ b.dropped = 0
  BY CapacityFacts DEF EmptyBus, Buses, Events
<1>2. none \in [Events -> Nat] /\ \A e \in Events : none[e] = 0
  BY DEF NoEvents
<1> HIDE DEF b, none
<1>3. \A e \in Events : OfType(b, e) = 0
  <2>1. InRing(b) = {}
    BY <1>1 DEF InRing
  <2>2. \A e \in Events : {i \in InRing(b) : b.ring[i] = e} = {}
    BY <2>1
  <2> QED BY <2>2, FS_EmptySet DEF OfType
<1> DEFINE w == Lost(b, none, none)
<1>4. \A e \in Events : w[e] = 0
  BY <1>2, <1>3 DEF Lost
<1>5. SumOver(w, Events) = 0
  <2> HIDE DEF w
  <2> QED BY <1>4, EventsFinite, SumZero
<1>6. Accounted(b, none, none)
  BY <1>1, <1>2, <1>3, <1>5 DEF Accounted
<1> QED
  BY <1>6 DEF b, none

LEMMA SomeEvents ==
    /\ <<"FrameRx", "FrameTx">> \in Seq(Events) /\ <<"ContactAdded", "FrameRx">> \in Seq(Events)
    /\ <<"FrameRx", "PostAdded">> \in Seq(Events) /\ <<"FrameTx">> \in Seq(Events)
BY DEF Events

LEMMA AccountedAlways == Spec => []Accounted(bus, published, counters)
<1> DEFINE Inv == Accounted(bus, published, counters)
<1>1. Init => Inv
  BY EmptyAccounted DEF Init
<1>2. Inv /\ [Next]_vars => Inv'
  <2> SUFFICES ASSUME Inv, [Next]_vars PROVE Accounted(bus', published', counters')
    BY DEF Accounted, Buses, OfType, InRing, Lost
  <2>1. ASSUME UNCHANGED busVars PROVE Accounted(bus', published', counters')
    BY <2>1 DEF busVars
  <2>2. ASSUME NEW types \in Seq(Events), Publish(types)
        PROVE  Accounted(bus', published', counters')
    BY <2>2, PublishStep
  <2>3. CASE UNCHANGED vars
    BY <2>1, <2>3 DEF vars, busVars
  <2>4. CASE Turn \/ Signal \/ Receive \/ Transmit \/ Shutdown \/ PowerCut
             \/ \E name \in Names : PowerCutInSet("name", name)
    BY <2>1, <2>4 DEF Turn, Signal, Receive, Transmit, Shutdown, PowerCut, PowerCutInSet
  <2>5. CASE \/ ReturnPath \/ AdvertCommand \/ RebootCommand
             \/ \E name \in Names, outcome \in {"failed", "renamed", "synced"} :
                   SetCommand("name", name, outcome)
             \/ \E hops \in Hops, outcome \in {"failed", "renamed", "synced"} :
                   SetCommand("hops", hops, outcome)
    <3>1. Publish(<<"FrameRx", "FrameTx">>) \/ Publish(<<"FrameTx">>)
      BY <2>5 DEF ReturnPath, AdvertCommand, RebootCommand, SetCommand, Answer
    <3> QED BY <2>2, <3>1, SomeEvents
  <2>6. CASE \E part \in Parts : Traffic(part)
    <3>1. Publish(<<"ContactAdded", "FrameRx">>) \/ Publish(<<"FrameRx", "PostAdded">>)
      BY <2>6 DEF Traffic
    <3> QED BY <2>2, <3>1, SomeEvents
  <2>7. CASE Advertise
    <3>1. Publish(<<"FrameTx">>) \/ UNCHANGED busVars
      BY <2>7 DEF Advertise, busVars
    <3> QED BY <2>1, <2>2, <3>1, SomeEvents
  <2>8. CASE Flush
    <3>1. Drain \/ UNCHANGED busVars
      BY <2>8 DEF Flush, busVars
    <3> QED BY <2>1, <3>1, DrainStep
  <2>9. CASE Start
    <3>1. bus' = EmptyBus /\ published' = NoEvents /\ counters' = NoEvents
      BY <2>9 DEF Start
    <3> QED BY <3>1, EmptyAccounted
  <2> QED BY <2>3, <2>4, <2>5, <2>6, <2>7, <2>8, <2>9 DEF Next
<1> QED
  <2> HIDE DEF Inv
  <2>1. Spec => []Inv
    BY <1>1, <1>2, PTL DEF Spec
  <2> QED BY <2>1 DEF Inv

\* Every event published since the program started is counted, waits in the ring
\* or is in the number of those dropped, however long the ring is and however
\* late the reports are (Bus::publish, poll, Collector::drain).
THEOREM EventsStayAccounted == Spec => []EventsAccounted
<1>1. Accounted(bus, published, counters) => EventsAccounted
  BY DEF Accounted, EventsAccounted, Lost
<1> QED
  BY <1>1, AccountedAlways, PTL

-----------------------------------------------------------------------------
(* The types.                                                              *)

LEMMA AirAssumed == Rad!RadioAssumption
<1>1. [f \in Frames |-> 1] \in [Frames -> Nat]
  OBVIOUS
<1> QED
  BY <1>1, HostAssumption DEF Rad!RadioAssumption

\* One definition, seen through two instances.
LEMMA SameAir ==
    /\ Air!Init => Rad!Init
    /\ Rad!TypeOK => Air!TypeOK
    /\ \A frame, priority : Air!Send(frame, priority) => Rad!Send(frame, priority)
    /\ \A armed : Air!Receive(armed) => Rad!Receive(armed)
<1>1. Air!Init => Rad!Init
  BY DEF Air!Init, Rad!Init
<1>2. Rad!TypeOK => Air!TypeOK
  BY DEF Air!TypeOK, Rad!TypeOK, Air!Entry, Rad!Entry, Air!Priority, Rad!Priority, Air!HIGH, Rad!HIGH,
     Air!NORMAL, Rad!NORMAL, Air!LOW, Rad!LOW, Air!Transmission, Rad!Transmission
<1>3. \A frame, priority : Air!Send(frame, priority) => Rad!Send(frame, priority)
  BY DEF Air!Send, Rad!Send, Air!HasRoom, Rad!HasRoom
<1>4. \A armed : Air!Receive(armed) => Rad!Receive(armed)
  BY DEF Air!Receive, Rad!Receive
<1> QED
  BY <1>1, <1>2, <1>3, <1>4

LEMMA SameParts ==
    /\ \A i, j : Air!Before(i, j) <=> Rad!Before(i, j)
    /\ \A i : Air!IsBad(i) <=> Rad!IsBad(i)
    /\ \A i : Air!AirtimeOf(i) = Rad!AirtimeOf(i)
    /\ \A T : Air!Total(T) = Rad!Total(T)
    /\ \A t : Air!Expired(t) = Rad!Expired(t)
    /\ \A w, T : Air!SumOver(w, T) = Rad!SumOver(w, T)
    /\ \A s, T : Air!Keep(s, T) = Rad!Keep(s, T)
<1>1. \A i, j : Air!Before(i, j) <=> Rad!Before(i, j)
  BY DEF Air!Before, Rad!Before
<1>2. \A i : Air!IsBad(i) <=> Rad!IsBad(i)
  BY DEF Air!IsBad, Rad!IsBad
<1>3. \A i : Air!AirtimeOf(i) = Rad!AirtimeOf(i)
  BY DEF Air!AirtimeOf, Rad!AirtimeOf
<1>4. \A T : Air!Total(T) = Rad!Total(T)
  BY DEF Air!Total, Rad!Total, Air!SumOver, Rad!SumOver, Air!MapThenSumSet, Rad!MapThenSumSet,
     Air!MapThenFoldSet, Rad!MapThenFoldSet
<1>5. \A t : Air!Expired(t) = Rad!Expired(t)
  BY DEF Air!Expired, Rad!Expired
<1>6. \A w, T : Air!SumOver(w, T) = Rad!SumOver(w, T)
  BY DEF Air!SumOver, Rad!SumOver, Air!MapThenSumSet, Rad!MapThenSumSet, Air!MapThenFoldSet,
     Rad!MapThenFoldSet
<1>7. \A s, T : Air!Keep(s, T) = Rad!Keep(s, T)
  BY DEF Air!Keep, Rad!Keep
<1> QED
  BY <1>1, <1>2, <1>3, <1>4, <1>5, <1>6, <1>7

LEMMA SameDuty ==
    /\ \A t, a : Air!Allows(t, a) <=> Rad!Allows(t, a)
    /\ \A t, new : Air!Record(t, new) <=> Rad!Record(t, new)
    /\ \A i : Air!UpTo(i) = Rad!UpTo(i)
    /\ \A T : Air!First(T) = Rad!First(T)
    /\ \A T : Air!Without(T) = Rad!Without(T)
    /\ \A i, q : Air!PutBack(i, q) = Rad!PutBack(i, q)
    /\ \A i, t, nth : Air!OnAir(i, t, nth) = Rad!OnAir(i, t, nth)
<1>1. \A t : Air!Used(t) = Rad!Used(t)
  BY SameParts DEF Air!Used, Rad!Used
<1>2. \A t, a : Air!Allows(t, a) <=> Rad!Allows(t, a)
  BY <1>1 DEF Air!Allows, Rad!Allows, Air!Budget, Rad!Budget
<1>3. \A t, new : Air!Record(t, new) <=> Rad!Record(t, new)
  BY <1>1, SameParts, Zenon DEF Air!Record, Rad!Record
<1>4. \A i : Air!UpTo(i) = Rad!UpTo(i)
  BY DEF Air!UpTo, Rad!UpTo, Air!Before, Rad!Before
<1>5. \A T : Air!First(T) = Rad!First(T)
  BY DEF Air!First, Rad!First, Air!Before, Rad!Before
<1>6. \A T : Air!Without(T) = Rad!Without(T)
  BY SameParts, Zenon DEF Air!Without, Rad!Without
<1>7. \A i, q : Air!PutBack(i, q) = Rad!PutBack(i, q)
  BY DEF Air!PutBack, Rad!PutBack
<1>8. \A i, t, nth : Air!OnAir(i, t, nth) = Rad!OnAir(i, t, nth)
  BY DEF Air!OnAir, Rad!OnAir, Air!AirtimeOf, Rad!AirtimeOf, Air!Cardinality, Rad!Cardinality
<1> QED
  BY <1>2, <1>3, <1>4, <1>5, <1>6, <1>7, <1>8, Zenon

LEMMA SameChipTick ==
    ASSUME NEW t, NEW done, NEW accepted, NEW armed
    PROVE  Air!Sx1262Tick(t, done, accepted, armed) => Rad!Sx1262Tick(t, done, accepted, armed)
<1>1. Air!StartTransmit(t, accepted, armed) <=> Rad!StartTransmit(t, accepted, armed)
  BY SameDuty, SameParts, Zenon DEF Air!StartTransmit, Rad!StartTransmit, Air!Deadline, Rad!Deadline
<1>2. Air!Landed(t) <=> Rad!Landed(t)
  BY DEF Air!Landed, Rad!Landed
<1> QED
  BY <1>1, <1>2, SameDuty, Zenon DEF Air!Sx1262Tick, Rad!Sx1262Tick

LEMMA SameUdpTick ==
    ASSUME NEW t
    PROVE  Air!UdpTick(t) => Rad!UdpTick(t)
<1> DEFINE G(T)  == {i \in T : ~Air!IsBad(i)}
           N(i)  == Air!SumOver([j \in 1..Len(queue) |-> Air!AirtimeOf(j)], G(Air!UpTo(i)))
           P     == {i \in 1..Len(queue) : \A j \in G(Air!UpTo(i)) : Air!Allows(t, N(j))}
           H(T)  == {i \in T : ~Rad!IsBad(i)}
           M(i)  == Rad!SumOver([j \in 1..Len(queue) |-> Rad!AirtimeOf(j)], H(Rad!UpTo(i)))
           Q     == {i \in 1..Len(queue) : \A j \in H(Rad!UpTo(i)) : Rad!Allows(t, M(j))}
           out   == {Air!OnAir(i, t, Air!Cardinality(G(Air!UpTo(i)))) : i \in G(P)}
           rout  == {Rad!OnAir(i, t, Rad!Cardinality(H(Rad!UpTo(i)))) : i \in H(Q)}
           left  == (1..Len(queue)) \ P
           rleft == (1..Len(queue)) \ Q
<1>1. \A T : G(T) = H(T)
  BY SameParts
<1>2. [j \in 1..Len(queue) |-> Air!AirtimeOf(j)] = [j \in 1..Len(queue) |-> Rad!AirtimeOf(j)]
  BY SameParts
<1>3. \A i : N(i) = M(i)
  <2> HIDE DEF G, H
  <2> QED BY <1>1, <1>2, SameParts, SameDuty, Zenon
<1>4. P = Q
  <2> HIDE DEF G, H, N, M
  <2>1. \A i : G(Air!UpTo(i)) = H(Rad!UpTo(i))
    BY <1>1, SameDuty, Zenon
  <2>2. \A i : (\A j \in G(Air!UpTo(i)) : Air!Allows(t, N(j)))
                 <=> (\A j \in H(Rad!UpTo(i)) : Rad!Allows(t, M(j)))
    BY <1>3, <2>1, SameDuty, Zenon
  <2> QED BY <2>2
<1>5. out = rout
  <2> HIDE DEF G, H, N, M, P, Q
  <2>1. \A T : Air!Cardinality(T) = Rad!Cardinality(T)
    BY DEF Air!Cardinality, Rad!Cardinality
  <2>2. \A i : Air!OnAir(i, t, Air!Cardinality(G(Air!UpTo(i))))
                 = Rad!OnAir(i, t, Rad!Cardinality(H(Rad!UpTo(i))))
    BY <1>1, <2>1, SameDuty, Zenon
  <2>3. G(P) = H(Q)
    BY <1>1, <1>4, Zenon
  <2> QED BY <2>2, <2>3
<1>6. Air!UdpTick(t) =>
          /\ driver = "UDP" /\ t >= now /\ now' = t
          /\ Air!Record(t, out)
          /\ queue' = IF left = {} THEN <<>>
                      ELSE Air!PutBack(Air!First(left), Air!Without(P \cup {Air!First(left)}))
          /\ UNCHANGED <<driver, transmitting, deadline, listening, sent>>
  BY Zenon DEF Air!UdpTick
<1>7. /\ driver = "UDP" /\ t >= now /\ now' = t
      /\ Rad!Record(t, rout)
      /\ queue' = IF rleft = {} THEN <<>>
                  ELSE Rad!PutBack(Rad!First(rleft), Rad!Without(Q \cup {Rad!First(rleft)}))
      /\ UNCHANGED <<driver, transmitting, deadline, listening, sent>>
      => Rad!UdpTick(t)
  BY Zenon DEF Rad!UdpTick
<1>8. left = rleft
  BY <1>4
<1> HIDE DEF P, Q, out, rout, left, rleft
<1> QED
  BY <1>4, <1>5, <1>6, <1>7, <1>8, SameDuty, Zenon

\* What the rest of the program keeps.
ProgramInv ==
    /\ pc \in {"turn", "receive", "handle", "answer", "transmit", "advert", "flush", "stopping", "down"}
    /\ clock \in 0..MaxTime /\ rebootAt \in Nat
    /\ inForce \in [Keys -> Names \cup (1..MaxHopCount)]
    /\ inForce["name"] \in Names /\ inForce["hops"] \in 1..MaxHopCount
    /\ advertWanted \in BOOLEAN
    /\ unsaved \subseteq Parts /\ exit \in {0, 1}
    /\ inputs \in 0..MaxInputs /\ faults \in 0..MaxFaults

LEMMA HostNumbers ==
    /\ MaxTime \in Nat /\ MaxInputs \in Nat /\ MaxFaults \in Nat /\ Second \in Nat \ {0}
    /\ MaxHopCount \in Nat /\ MaxHopCount >= 1 /\ RebootDelay \in Nat
    /\ Settings.name \in Names /\ Settings.hops \in Nat
BY HostAssumption

\* Whatever an overlay holds, the settings it makes are ones a node can have.
LEMMA EffectiveTyped ==
    ASSUME NEW v, IsOverlay(v)
    PROVE  /\ Effective(v) \in [Keys -> Names \cup (1..MaxHopCount)]
           /\ Effective(v)["name"] \in Names /\ Effective(v)["hops"] \in 1..MaxHopCount
<1>1. \A n \in Nat : MaxHopsFrom(n) \in 1..MaxHopCount
  <2> SUFFICES ASSUME NEW n \in Nat PROVE MaxHopsFrom(n) \in 1..MaxHopCount
    OBVIOUS
  <2> DEFINE r == n % 256
             m == Min({r, MaxHopCount})
  <2>1. r \in Nat
    OBVIOUS
  <2> HIDE DEF r
  <2>2. m = (IF r <= MaxHopCount THEN r ELSE MaxHopCount)
    BY <2>1, HostNumbers DEF Min
  <2>3. m \in 0..MaxHopCount
    BY <2>1, <2>2, HostNumbers
  <2> HIDE DEF m
  <2>4. Max({1, m}) = (IF m >= 1 THEN m ELSE 1)
    BY <2>3 DEF Max
  <2> QED BY <2>3, <2>4, HostNumbers DEF MaxHopsFrom, m, r
<1> DEFINE config == [k \in Keys |-> IF k \in DOMAIN v THEN v[k] ELSE Settings[k]]
<1>2. config["name"] \in Names /\ config["hops"] \in Nat
  BY HostNumbers DEF IsOverlay, Keys
<1>3. Effective(v) = [name |-> config["name"], hops |-> MaxHopsFrom(config["hops"])]
  BY DEF Effective
<1> HIDE DEF config
<1> QED
  BY <1>1, <1>2, <1>3 DEF Keys

\* Nothing fails more often than the bound allows.
LEMMA FailsBounded ==
    ASSUME ProgramInv, NEW n \in Nat, Fails(n)
    PROVE  faults' \in 0..MaxFaults
BY HostNumbers DEF Fails, ProgramInv

LEMMA PartsFinite ==
    ASSUME NEW failed \in SUBSET Parts
    PROVE  Cardinality(failed) \in Nat
<1>1. IsFiniteSet({"contacts"}) /\ IsFiniteSet({"contacts"} \cup {"room"})
  BY FS_Singleton, FS_AddElement
<1>2. Parts = {"contacts"} \cup {"room"}
  BY DEF Parts
<1> QED
  BY <1>1, <1>2, FS_Subset, FS_CardinalityType

LEMMA RadioStays ==
    ASSUME Rad!WholeRadio, UNCHANGED radioVars
    PROVE  Rad!WholeRadio'
BY DEF radioVars, Rad!WholeRadio, Rad!LedgerOK, Rad!QueueOK, Rad!Total

LEMMA HandKeeps ==
    ASSUME Rad!WholeRadio, NEW frame \in Frames, NEW priority \in Rad!Priority, Hand(frame, priority)
    PROVE  Rad!WholeRadio'
<1>1. CASE Air!HasRoom
  <2>1. Rad!Send(frame, priority)
    BY <1>1, SameAir, Zenon DEF Hand
  <2> QED BY <2>1, Rad!WholeSend, AirAssumed DEF Rad!RadioAssumption
<1>2. CASE ~Air!HasRoom
  BY <1>2, RadioStays DEF Hand
<1> QED
  BY <1>1, <1>2

\* The radio keeps what it keeps however the program uses it, a restart included.
LEMMA RadioNext ==
    ASSUME Rad!WholeRadio, ProgramInv, [Next]_vars
    PROVE  Rad!WholeRadio'
<1>1. CASE UNCHANGED vars
  BY <1>1, RadioStays DEF vars
<1>2. CASE \/ Turn \/ Signal \/ Flush \/ Shutdown \/ PowerCut
           \/ (\E part \in Parts : Traffic(part))
           \/ \E name \in Names : PowerCutInSet("name", name)
  <2>1. UNCHANGED radioVars
    BY <1>2 DEF Turn, Signal, Flush, Shutdown, PowerCut, Traffic, PowerCutInSet
  <2> QED BY <2>1, RadioStays
<1>3. CASE Receive
  <2>1. UNCHANGED radioVars \/ \E armed \in BOOLEAN : Air!Receive(armed)
    BY <1>3 DEF Receive
  <2>2. ASSUME NEW armed \in BOOLEAN, Air!Receive(armed) PROVE Rad!WholeRadio'
    <3>1. Rad!Receive(armed)
      BY <2>2, SameAir
    <3> QED BY <3>1, Rad!WholeReceive, AirAssumed DEF Rad!RadioAssumption
  <2> QED BY <2>1, <2>2, RadioStays
<1>4. CASE \/ ReturnPath \/ AdvertCommand \/ RebootCommand
           \/ (\E name \in Names, outcome \in {"failed", "renamed", "synced"} :
                  SetCommand("name", name, outcome))
           \/ (\E hops \in Hops, outcome \in {"failed", "renamed", "synced"} :
                  SetCommand("hops", hops, outcome))
  <2>1. Hand(returned, Air!HIGH) \/ Hand(reply, Air!NORMAL) \/ Hand(rebooting, Air!NORMAL)
    BY <1>4 DEF ReturnPath, AdvertCommand, RebootCommand, SetCommand, Answer
  <2>2. /\ reply \in Frames /\ rebooting \in Frames /\ returned \in Frames
        /\ Air!HIGH \in Rad!Priority /\ Air!NORMAL \in Rad!Priority
    BY DEF Frames, Air!HIGH, Air!NORMAL, Rad!Priority, Rad!HIGH, Rad!NORMAL
  <2> QED BY <2>1, <2>2, HandKeeps
<1>5. CASE Transmit
  <2>1. clock \in Nat
    BY HostNumbers DEF ProgramInv
  <2>2. ASSUME Air!UdpTick(clock) PROVE Rad!WholeRadio'
    <3>1. Rad!UdpTick(clock)
      BY <2>2, SameUdpTick
    <3> QED BY <2>1, <3>1, Rad!WholeUdpTick, AirAssumed DEF Rad!RadioAssumption
  <2>3. ASSUME NEW done \in BOOLEAN, NEW accepted \in BOOLEAN, NEW armed \in BOOLEAN,
               Air!Sx1262Tick(clock, done, accepted, armed)
        PROVE  Rad!WholeRadio'
    <3>1. Rad!Sx1262Tick(clock, done, accepted, armed)
      BY <2>3, SameChipTick
    <3> QED BY <2>1, <3>1, Rad!WholeChipTick, AirAssumed DEF Rad!RadioAssumption
  <2>4. \/ Air!UdpTick(clock)
        \/ \E done, accepted, armed \in BOOLEAN : Air!Sx1262Tick(clock, done, accepted, armed)
    BY <1>5 DEF Transmit
  <2> QED BY <2>2, <2>3, <2>4
<1>6. CASE Advertise
  <2> DEFINE frame == [name |-> inForce.name, stamp |-> clock \div Second]
  <2>1. UNCHANGED radioVars \/ Hand(frame, Air!NORMAL)
    BY <1>6 DEF Advertise
  <2>2. frame \in Frames
    <3>1. \A c \in 0..MaxTime : c \div Second \in 0..MaxTime
      BY HostNumbers
    <3> QED BY <3>1 DEF ProgramInv, Frames, Adverts
  <2>3. Air!NORMAL \in Rad!Priority
    BY DEF Air!NORMAL, Rad!Priority, Rad!NORMAL
  <2> HIDE DEF frame
  <2> QED BY <2>1, <2>2, <2>3, RadioStays, HandKeeps
<1>7. CASE Start
  <2>1. /\ queue' = <<>> /\ slots' = {} /\ used' = 0 /\ transmitting' = FALSE /\ deadline' = 0
        /\ listening' = TRUE /\ UNCHANGED <<driver, now, sent, aired>>
    BY <1>7 DEF Start
  <2> QED BY <2>1, Rad!WholeStart, AirAssumed DEF Rad!RadioAssumption
<1> QED
  BY <1>1, <1>2, <1>3, <1>4, <1>5, <1>6, <1>7 DEF Next

LEMMA ProgramNext ==
    ASSUME ProgramInv, SettingsInv, [Next]_vars
    PROVE  ProgramInv'
<1>1. CASE UNCHANGED vars
  BY <1>1 DEF vars, settingVars, ProgramInv
<1>2. CASE Turn
  BY <1>2, HostNumbers DEF Turn, settingVars, ProgramInv
<1>3. CASE Signal
  BY <1>3, HostNumbers DEF Signal, settingVars, ProgramInv
<1>4. CASE Receive
  <2>1. /\ pc' \in {"handle", "transmit"} /\ UNCHANGED <<clock, settingVars, advertWanted, rebootAt, unsaved, exit>>
        /\ inputs' = inputs \/ (inputs < MaxInputs /\ inputs' = inputs + 1)
        /\ faults' = faults \/ Fails(0) \/ Fails(1)
    BY <1>4 DEF Receive
  <2>2. faults' \in 0..MaxFaults
    BY <2>1, FailsBounded DEF ProgramInv
  <2>3. inputs' \in 0..MaxInputs
    BY <2>1, HostNumbers DEF ProgramInv
  <2> QED BY <2>1, <2>2, <2>3 DEF settingVars, ProgramInv
<1>5. ASSUME NEW key, NEW value, Stored(key, value), NEW outcome \in {"failed", "renamed", "synced"},
             SetCommand(key, value, outcome)
      PROVE  ProgramInv'
  <2>1. /\ pc' = "transmit" /\ UNCHANGED <<clock, unsaved, exit, inputs, rebootAt>>
        /\ Fails(0) \/ Fails(1)
        /\ inForce' = inForce \/ inForce' = [inForce EXCEPT ![key] = value]
        /\ advertWanted' = (advertWanted \/ (key = "name" /\ outcome # "failed"))
    BY <1>5 DEF SetCommand, Answer
  <2>2. faults' \in 0..MaxFaults
    BY <2>1, FailsBounded
  <2>3. /\ inForce' \in [Keys -> Names \cup (1..MaxHopCount)]
        /\ inForce'["name"] \in Names /\ inForce'["hops"] \in 1..MaxHopCount
    BY <1>5, <2>1 DEF Stored, Keys, ProgramInv
  <2>4. advertWanted' \in BOOLEAN
    BY <2>1
  <2> QED BY <2>1, <2>2, <2>3, <2>4 DEF ProgramInv
<1>6. CASE ReturnPath \/ AdvertCommand
  BY <1>6 DEF ReturnPath, AdvertCommand, Answer, settingVars, ProgramInv
<1>7. CASE RebootCommand
  <2>1. rebootAt' \in Nat
    BY <1>7, HostNumbers DEF RebootCommand, RebootTime, ProgramInv
  <2> QED BY <1>7, <2>1 DEF RebootCommand, Answer, settingVars, ProgramInv
<1>8. CASE \E part \in Parts : Traffic(part)
  BY <1>8 DEF Traffic, settingVars, ProgramInv
<1>9. CASE Transmit
  <2>1. \A done, accepted, armed \in BOOLEAN :
            Cardinality({c \in {"done", "accepted", "armed"} :
                     \/ c = "done" /\ transmitting /\ Air!Landed(clock) /\ ~done
                     \/ c = "accepted" /\ ~accepted
                     \/ c = "armed" /\ ~armed}) \in Nat
    <3>1. /\ IsFiniteSet({"done"}) /\ IsFiniteSet({"done"} \cup {"accepted"})
          /\ IsFiniteSet(({"done"} \cup {"accepted"}) \cup {"armed"})
      BY FS_Singleton, FS_AddElement
    <3>2. {"done", "accepted", "armed"} = ({"done"} \cup {"accepted"}) \cup {"armed"}
      OBVIOUS
    <3>3. \A T \in SUBSET {"done", "accepted", "armed"} : Cardinality(T) \in Nat
      BY <3>1, <3>2, FS_Subset, FS_CardinalityType
    <3> QED BY <3>3
  <2>2. faults' = faults \/ \E n \in Nat : Fails(n)
    BY <1>9, <2>1 DEF Transmit
  <2>3. faults' \in 0..MaxFaults
    BY <2>2, FailsBounded DEF ProgramInv
  <2> QED BY <1>9, <2>3 DEF Transmit, settingVars, ProgramInv
<1>10. CASE Advertise
  BY <1>10 DEF Advertise, settingVars, ProgramInv
<1>11. CASE Flush
  <2>1. \/ UNCHANGED <<unsaved, faults>>
        \/ \E failed \in SUBSET unsaved : unsaved' = failed /\ Fails(Cardinality(failed))
    BY <1>11 DEF Flush
  <2>2. unsaved' \subseteq Parts /\ (faults' = faults \/ \E n \in Nat : Fails(n))
    BY <2>1, PartsFinite DEF ProgramInv
  <2>3. faults' \in 0..MaxFaults
    BY <2>2, FailsBounded DEF ProgramInv
  <2> QED BY <1>11, <2>2, <2>3 DEF Flush, settingVars, ProgramInv
<1>12. CASE Shutdown
  <2>1. PICK failed \in SUBSET Parts :
            /\ Fails(Cardinality(failed)) /\ unsaved' = Saved(failed).left /\ exit' \in {0, 1}
    BY <1>12 DEF Shutdown
  <2>2. unsaved' \subseteq Parts
    BY <2>1 DEF Saved, ProgramInv
  <2>3. faults' \in 0..MaxFaults
    BY <2>1, PartsFinite, FailsBounded
  <2> QED BY <1>12, <2>1, <2>2, <2>3 DEF Shutdown, settingVars, ProgramInv
<1>13. CASE PowerCut \/ \E name \in Names : PowerCutInSet("name", name)
  <2>1. Fails(1)
    BY <1>13 DEF PowerCut, PowerCutInSet
  <2>2. faults' \in 0..MaxFaults
    BY <2>1, FailsBounded
  <2> QED BY <1>13, <2>2 DEF PowerCut, PowerCutInSet, ProgramInv
<1>14. CASE Start
  <2>1. inForce' = Effective(file.read) /\ IsOverlay(file.read)
    BY <1>14 DEF Start, SettingsInv
  <2>2. /\ inForce' \in [Keys -> Names \cup (1..MaxHopCount)]
        /\ inForce'["name"] \in Names /\ inForce'["hops"] \in 1..MaxHopCount
    BY <2>1, EffectiveTyped
  <2> QED BY <1>14, <2>2 DEF Start, ProgramInv
<1>15. \A name \in Names : Stored("name", name)
  BY DEF Stored
<1>16. \A hops \in Hops : Stored("hops", hops)
  BY HostAssumption DEF Stored
<1> QED
  BY <1>1, <1>2, <1>3, <1>4, <1>5, <1>6, <1>7, <1>8, <1>9, <1>10, <1>11, <1>12, <1>13, <1>14,
     <1>15, <1>16 DEF Next

\* The types of the whole program, whatever is commanded, fails or goes down: the
\* settings are ones a node can have, hops.max out of an operator's file too
\* (applyOverlay, Policy::setMaxHops), the queue is never deeper than configured,
\* the account of the duty cycle is what its slots come to although a restart
\* empties it, and the ring holds no more than its capacity (Bus::publish).
THEOREM HostTypeCorrect == Spec => []HostTypeOK
<1>1. Init => Rad!WholeRadio
  <2>1. Init => Rad!Init
    BY SameAir DEF Init
  <2> QED BY <2>1, Rad!InitWhole, AirAssumed DEF Rad!RadioAssumption
<1>2. Init => ProgramInv
  <2> SUFFICES ASSUME Init PROVE ProgramInv
    OBVIOUS
  <2>1. IsOverlay(<<>>) /\ inForce = Effective(<<>>)
    BY DEF IsOverlay, Init
  <2>2. /\ inForce \in [Keys -> Names \cup (1..MaxHopCount)]
        /\ inForce["name"] \in Names /\ inForce["hops"] \in 1..MaxHopCount
    BY <2>1, EffectiveTyped
  <2>3. /\ pc = "turn" /\ clock = 0 /\ rebootAt = 0 /\ advertWanted = FALSE /\ unsaved = {}
        /\ exit = 0 /\ inputs = 0 /\ faults = 0
    BY DEF Init
  <2>4. clock \in 0..MaxTime /\ rebootAt \in Nat /\ inputs \in 0..MaxInputs /\ faults \in 0..MaxFaults
    BY <2>3, HostNumbers
  <2>5. advertWanted \in BOOLEAN /\ unsaved \subseteq Parts /\ exit \in {0, 1}
    BY <2>3
  <2> QED BY <2>2, <2>3, <2>4, <2>5, Zenon DEF ProgramInv
<1>3. Rad!WholeRadio /\ ProgramInv /\ SettingsInv /\ [Next]_vars => Rad!WholeRadio' /\ ProgramInv'
  BY RadioNext, ProgramNext
<1>4. Rad!WholeRadio /\ ProgramInv /\ SettingsInv /\ Accounted(bus, published, counters) => HostTypeOK
  <2> SUFFICES ASSUME Rad!WholeRadio, ProgramInv, SettingsInv, Accounted(bus, published, counters)
               PROVE  HostTypeOK
    OBVIOUS
  <2>1. Air!TypeOK
    BY Rad!WholeTyped, AirAssumed, SameAir DEF Rad!RadioAssumption
  <2>2. \A v \in {values, file.read, file.synced} : DOMAIN v \subseteq Keys
    BY DEF SettingsInv, IsOverlay
  <2>3. bus.count \in 0..Capacity /\ bus.head \in 0..Capacity - 1
    BY DEF Accounted, Buses
  <2>4. clock \in Nat /\ inForce.name \in Names /\ inForce.hops \in 1..MaxHopCount
    BY HostNumbers DEF ProgramInv
  <2> QED BY <2>1, <2>2, <2>3, <2>4 DEF ProgramInv, HostTypeOK
<1> QED
  BY <1>1, <1>2, <1>3, <1>4, SettingsAlways, AccountedAlways, PTL DEF Spec
=============================================================================
