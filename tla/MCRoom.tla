------------------------------- MODULE MCRoom -------------------------------
(***************************************************************************)
(* Logins for TLC: more people than the table has rows, wrong passwords,   *)
(* lockouts that run out, a configuration that changes under them, and     *)
(* restarts.  The board stays empty; RoomSync is about the board.          *)
(***************************************************************************)
EXTENDS Room, TLC
CONSTANTS adm

LoginConfig == [admin |-> adm, guest |-> NoPassword, anon |-> TRUE]

Symmetry == Permutations(Keys)

LoginNext ==
    \/ \E k \in Keys, pw \in Passwords, ts \in LoginStamps : OnAnon(k, pw, ts, 0)
    \/ \E k \in Keys, ts \in RequestStamps : CommandSet(k, ts)
    \/ Tick(now + 1, 1) /\ now < MaxTime
    \/ Restart

LoginSpec == Init /\ [][LoginNext]_vars
=============================================================================
