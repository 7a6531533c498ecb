------------------------------ MODULE MCRouter ------------------------------
(***************************************************************************)
(* A room and a client for TLC that hear each other only through two       *)
(* repeaters.                                                              *)
(***************************************************************************)
EXTENDS Router
CONSTANTS room, rep, far, client, post, login

Line == {<<room, rep>>, <<rep, far>>, <<far, client>>}
        \cup {<<rep, room>>, <<far, rep>>, <<client, far>>}

Push == {<<room, client, post>>}
LogIn == {<<client, room, login>>}

\* Clocks move one at a time, and only where a send is waiting.
Step(n, t) ==
    /\ Tick(n, t)
    /\ \/ t = now[n] /\ queue[n] # {}
       \/ t = now[n] + 1 /\ pending[n] # <<>>

\* Nobody has sent anything yet: a behaviour is about one conversation.
Idle == \A n \in Nodes : seen[n][0] = Unused

MeshNext ==
    \/ \E s \in Traffic : Idle /\ SendDirect(s[1], s[2], s[3])
    \/ \E s \in Logins : Idle /\ SendFlood(s[1], "ANON_REQ", Envelope(s[1], s[2], s[3]))
    \/ \E n \in Nodes : Idle /\ SendFlood(n, "ADVERT", n)
    \/ \E n \in Nodes : Idle /\ SendFlood(n, "TRACE", <<>>)
    \/ \E m \in air, delay \in ForwardDelays : OnFrame(m.to, m.frame, delay)
    \/ \E n \in Nodes, t \in 0..MaxTime : Step(n, t)

MeshSpec == Init /\ [][MeshNext]_vars
=============================================================================
