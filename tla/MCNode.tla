------------------------------- MODULE MCNode -------------------------------
(***************************************************************************)
(* What a node knows of its peers and on what terms it carries for them,   *)
(* for TLC.  Contacts, the cache of secrets and the transit policy share   *)
(* no state, so one behaviour is about one of them.  Flushes and power     *)
(* cuts are a part of their own, in which each peer advertises once.       *)
(***************************************************************************)
EXTENDS Identity, Repeater, TLC
CONSTANTS p1, p2, p3, \* peers; the first two share a hash
          n1, n2, n3  \* nodes packets came through; the last is blocked
VARIABLE part

FirstBytes == (p1 :> 1) @@ (p2 :> 1) @@ (p3 :> 2)

\* Packets straight from two senders, one of which also passes floods on, and
\* with a neighbour behind another.
Heard ==
    {[flood |-> TRUE, via |-> n1, path |-> <<>>], [flood |-> TRUE, via |-> n2, path |-> <<>>],
     [flood |-> TRUE, via |-> n1, path |-> <<n1>>], [flood |-> TRUE, via |-> n2, path |-> <<n1, n2>>],
     [flood |-> TRUE, via |-> n3, path |-> <<n3>>],
     [flood |-> FALSE, via |-> n1, path |-> <<n1>>]}

Symmetry == Permutations({p1, p2})

PartInit ==
    /\ part \in {"contacts", "files", "secrets", "policy"}
    /\ Init /\ PolicyInit
    /\ part # "policy" => enabled

HearOnce == \E k \in Keys, wall \in Walls : RememberIfAdvert(k, Min(Stamps), wall, 0)

PartNext ==
    /\ UNCHANGED part
    /\ \/ /\ part = "contacts"
          /\ Hear \/ Restart
          /\ UNCHANGED policyVars
       \/ /\ part = "files"
          /\ HearOnce \/ Flush \/ Restart \/ PowerCut
          /\ UNCHANGED policyVars
       \/ /\ part = "secrets"
          /\ \E k \in Keys \cup Strangers : SecretFor(k)
          /\ UNCHANGED policyVars
       \/ /\ part = "policy"
          /\ PolicyNext
          /\ UNCHANGED vars

PartSpec == PartInit /\ [][PartNext]_<<part, vars, policyVars>>
=============================================================================
