------------------------------ MODULE MCRadio ------------------------------
(***************************************************************************)
(* The radio for TLC: short and long frames, a budget that two of them     *)
(* exhaust, and a clock that every tick finds where it was or one further. *)
(***************************************************************************)
EXTENDS Radio, TLC
CONSTANTS
    short, long, bad,
    Urgencies, \* the priorities in use
    LastSend \* no frame is handed over after this moment, so that the last
             \* one leaves before the clock reaches its bound

Lengths == (short :> 1) @@ (long :> 2) @@ (bad :> 0)

LaterTick == now < MaxTime /\ Tick(now + 1)

RadioNext ==
    \/ now <= LastSend /\ \E frame \in Frames, priority \in Urgencies : Send(frame, priority)
    \/ \E armed \in BOOLEAN : Receive(armed)
    \/ Tick(now)
    \/ LaterTick

\* The main loop keeps calling tick and its clock moves.  Nothing is assumed of
\* the chip: it may never show a TX_DONE.
RadioSpec == Init /\ [][RadioNext]_vars /\ WF_vars(LaterTick)

Queued(id) == \E i \in 1..Len(queue) : queue[i].id = id

\* Every transmission ends and every frame accepted leaves the queue, although
\* the chip may stop answering: "a node waiting forever for a TX_DONE that is
\* not coming has left the network without telling anybody" (Sx1262Radio::tick).
RadioMovesOn ==
    /\ transmitting ~> ~transmitting
    /\ \A id \in 1..MaxSends : Queued(id) ~> ~Queued(id)
=============================================================================
