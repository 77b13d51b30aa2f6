------------------------------- MODULE Directory -------------------------------
(***************************************************************************)
(* What an EndPoint promises about masters: a peer is given a master at    *)
(* most once and keeps it, and nobody is given the master of another.      *)
(* EndPoint implements this, whatever the descriptors, the connections and *)
(* the queues do meanwhile.                                                *)
(***************************************************************************)
CONSTANTS Peer, Addr, None   \* None is no address

VARIABLE master   \* the master of every peer, or None

Init == master = [p \in Peer |-> None]

Take(p, a) ==
    /\ master[p] = None
    /\ \A q \in Peer : master[q] # a
    /\ master' = [master EXCEPT ![p] = a]

Next == \E p \in Peer, a \in Addr : Take(p, a)

Spec == Init /\ [][Next]_master
=============================================================================
