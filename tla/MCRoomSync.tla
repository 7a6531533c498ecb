----------------------------- MODULE MCRoomSync -----------------------------
(***************************************************************************)
(* The board and its readers for TLC, with fewer rows than people.         *)
(***************************************************************************)
EXTENDS RoomSync, TLC
CONSTANT adm \* the admin password

OpenConfig == [admin |-> adm, guest |-> NoPassword, anon |-> TRUE]

Symmetry == Permutations(Keys) \cup Permutations(Ids)

\* Everything that can happen where everybody logs in as admin, and so may read,
\* post and command.
CrashNext ==
    \/ Incoming
    \/ \E k \in Keys, ts \in LoginStamps, since \in Stamps : Login(k, adm, ts, since)
    \/ \E k \in Keys, ts \in RequestStamps, since \in Stamps : Refresh(k, ts, since)
    \/ \E t \in now..MaxTime, id \in Ids : RoomTick(t, id)
    \/ \E k \in Keys, seq \in 1..MaxSeq : Hear(k, seq)
    \/ \E id \in Ids : Acked(id)
    \/ \E id \in Ids : GaveUp(id)
    \/ RoomRestart
CrashSpec == SyncInit /\ [][CrashNext]_syncVars
=============================================================================
