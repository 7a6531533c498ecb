------------------------------ MODULE Repeater ------------------------------
(***************************************************************************)
(* On what terms the node carries other people's packets (src/repeater):   *)
(* the policy routing asks, through the room, about every packet it could  *)
(* pass on, and the admin commands that change it.                         *)
(***************************************************************************)
EXTENDS Integers, Sequences, FiniteSets

CONSTANTS
    Nodes,          \* node hashes
    Direct,         \* the bucket of packets with an empty path
    Blocked,        \* Config::blocked
    FloodPerMinute, \* Config::floodPerMinute
    DutyCeiling,    \* Config::dutyCeilingPermille
    Loads,          \* what the radio may say of its load
    RateWindow,     \* REPEATER_RATE_WINDOW_MS
    MaxHopCount,    \* MAX_HOP_COUNT
    Packets,        \* [flood, via, path]: the node whose transmitter we heard,
                    \* and the nodes that passed it on, which the frame names
    MaxTime,        \* bound on the clock
    MaxAsked        \* bound on the packets asked about

ASSUME RepeaterAssumption ==
    /\ Direct \notin Nodes /\ Blocked \subseteq Nodes
    /\ Packets \subseteq [flood : BOOLEAN, via : Nodes, path : Seq(Nodes)]
    /\ \A p \in Packets : p.path # <<>> => p.via = p.path[Len(p.path)]
    /\ FloodPerMinute \in Nat /\ RateWindow \in Nat \ {0}
    /\ DutyCeiling \in Nat /\ Loads \subseteq Nat /\ MaxHopCount \in Nat \ {0}
    /\ MaxTime \in Nat /\ MaxAsked \in Nat

VARIABLES
    now,     \* Room::now_, which the policy is asked with
    enabled, \* Config::enabled
    maxHops, \* Config::maxHops
    rates,   \* buckets_
    stats,   \* stats_
    asked    \* every packet asked about while the policy was on, and the answer

policyVars == <<now, enabled, maxHops, rates, stats, asked>>

Sources == Nodes \cup {Direct}
NoStats == [forwarded |-> 0, hopLimit |-> 0, blocked |-> 0, rateLimited |-> 0, budget |-> 0]
Bucket == [windowStart : Nat, count : Nat]

PolicyTypeOK ==
    /\ now \in Nat /\ enabled \in BOOLEAN /\ maxHops \in 1..MaxHopCount
    /\ rates \in [Sources -> Bucket]
    /\ stats \in [DOMAIN NoStats -> Nat]
    /\ \A s \in Sources : FloodPerMinute # 0 => rates[s].count <= FloodPerMinute

\* Wrong: any number will do.
Unclamped(hops) == hops

\* The clamp of setMaxHops, which the constructor goes through too.
Clamped(hops) == IF hops < 1 THEN 1 ELSE IF hops > MaxHopCount THEN MaxHopCount ELSE hops

PolicyInit ==
    /\ now = 0 /\ enabled \in BOOLEAN /\ maxHops = Clamped(MaxHopCount + 1)
    /\ rates = [s \in Sources |-> [windowStart |-> 0, count |-> 0]]
    /\ stats = NoStats /\ asked = {}

-----------------------------------------------------------------------------
HopCount(p) == Len(p.path)

\* Wrong: the first hop is whoever the packet began with, not who we hear.
BucketOfFirst(p) == IF p.path = <<>> THEN Direct ELSE p.path[1]

\* The last hop is the node whose transmitter we heard.
BucketOf(p) == IF p.path = <<>> THEN Direct ELSE p.path[Len(p.path)]

IsBlocked(p) == \E i \in 1..Len(p.path) : p.path[i] \in Blocked

\* Wrong: the window does not move along.
WindowStuck(b, t) == IF t - b.windowStart >= RateWindow THEN [b EXCEPT !.count = 0] ELSE b

\* The bucket as withinRate finds it: a new window once the old one is over.
Window(b, t) ==
    IF t < b.windowStart \/ t - b.windowStart >= RateWindow
    THEN [windowStart |-> t, count |-> 0]
    ELSE b

WithinRate(p, t) ==
    FloodPerMinute = 0 \/ Window(rates[BucketOf(p)], t).count < FloodPerMinute

\* withinRate's effect: the window, and one more when there is room in it.
Charged(p, t) ==
    IF FloodPerMinute = 0 THEN rates
    ELSE LET b == Window(rates[BucketOf(p)], t)
         IN  [rates EXCEPT ![BucketOf(p)] =
                 IF b.count < FloodPerMinute THEN [b EXCEPT !.count = @ + 1] ELSE b]

\* The counter that moves: the first refusal, in this order, or forwarded.
Verdict(p, t, load) ==
    CASE HopCount(p) >= maxHops -> "hopLimit"
      [] HopCount(p) < maxHops /\ IsBlocked(p) -> "blocked"
      [] HopCount(p) < maxHops /\ ~IsBlocked(p)
            /\ DutyCeiling # 0 /\ load >= DutyCeiling -> "budget"
      [] OTHER -> IF p.flood /\ ~WithinRate(p, t) THEN "rateLimited" ELSE "forwarded"

\* shouldForward, asked at t.  A policy that is off counts nothing.
ShouldForward(p, t, load) ==
    LET verdict == Verdict(p, t, load)
    IN  /\ t >= now /\ now' = t
        /\ Cardinality(asked) < MaxAsked
        /\ IF ~enabled
           THEN UNCHANGED <<rates, stats, asked>>
           ELSE /\ stats' = [stats EXCEPT ![verdict] = @ + 1]
                /\ rates' = IF p.flood /\ verdict \in {"rateLimited", "forwarded"}
                            THEN Charged(p, t) ELSE rates
                /\ asked' = asked \cup {[nth |-> Cardinality(asked) + 1, at |-> t,
                                         flood |-> p.flood, via |-> p.via,
                                         path |-> p.path, verdict |-> verdict]}
        /\ UNCHANGED <<enabled, maxHops>>

\* The commands "set repeat" and "set hops.max", once they are stored, and
\* "clear stats".
SetEnabled(on) == enabled' = on /\ UNCHANGED <<now, maxHops, rates, stats, asked>>

SetMaxHops(hops) ==
    /\ hops \in 1..MaxHopCount
    /\ maxHops' = Clamped(hops)
    /\ UNCHANGED <<now, enabled, rates, stats, asked>>

ClearStats ==
    /\ stats' = NoStats
    /\ UNCHANGED <<now, enabled, maxHops, rates, asked>>

PolicyNext ==
    \/ \E p \in Packets, t \in now..MaxTime, load \in Loads : ShouldForward(p, t, load)
    \/ \E on \in BOOLEAN : SetEnabled(on)
    \/ \E hops \in 1..MaxHopCount : SetMaxHops(hops)
    \/ ClearStats

PolicySpec == PolicyInit /\ [][PolicyNext]_policyVars

-----------------------------------------------------------------------------
(* Properties.                                                             *)

\* The floods carried from one neighbour between start and end.
CarriedFrom(s, start, end) ==
    {x \in asked : /\ x.flood /\ x.verdict = "forwarded" /\ x.at \in start..end
                   /\ IF x.path = <<>> THEN s = Direct ELSE s = x.path[Len(x.path)]}

\* One neighbour, or all that are heard first-hand together, who share a bucket,
\* spend no more than twice the allowance in any window as long
\* as the limit's, wherever that begins and whatever commands come in between:
\* the windows of withinRate are fixed, so that the end of one and the start of
\* the next may both be spent ("cruder", repeater.cpp), but no more than that.
RateKept ==
    FloodPerMinute # 0 => \A s \in Sources, start \in 0..now :
        Cardinality(CarriedFrom(s, start, start + RateWindow - 1)) <= 2 * FloodPerMinute

\* A flood that a node has passed on is refused for its rate only when that same
\* transmitter has passed on its allowance within the last window: "one loud
\* transmitter must not silence the quiet ones" (test_repeater.cpp).  That does
\* not hold of floods heard straight from their sender, whose hash "is nowhere in
\* the frame, so all of those share the last bucket" (repeater.h): a quiet sender
\* is refused for a loud one there, but never for what was passed on.
OthersUnaffected ==
    \A x \in asked : x.verdict = "rateLimited" =>
        FloodPerMinute <= Cardinality(
            {y \in asked :
                /\ y.flood /\ y.verdict = "forwarded" /\ y.nth < x.nth
                /\ y.at \in x.at - RateWindow + 1..x.at
                /\ (y.path = <<>>) = (x.path = <<>>)
                /\ x.path # <<>> => y.via = x.via})
=============================================================================
