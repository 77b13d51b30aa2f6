----------------------------- MODULE Descriptors -----------------------------
(***************************************************************************)
(* The part of the Linux kernel that the client leans on: one table of     *)
(* socket descriptors shared by every thread of the process, the state of  *)
(* the TCP connection behind each descriptor, and the interest list of the *)
(* single epoll instance.  None of it is code of the repository; it is     *)
(* modelled from the calls IO.cpp, Epoll.cpp and Auxiliary.h make (socket, *)
(* connect, read, close, epoll_ctl with EPOLLIN | EPOLLET | EPOLLRDHUP).   *)
(*                                                                         *)
(* What matters is kept: numbers are reused, lowest first; close() works   *)
(* on whatever the number denotes now; closing removes the descriptor from *)
(* the interest list; readiness is edge-triggered.                         *)
(***************************************************************************)
EXTENDS Integers

CONSTANTS NPeer,    \* bound on the peers an EndPoint ever creates
          Fd        \* the descriptor numbers left for sockets

ASSUME NPeerAssumption == NPeer \in Nat \ {0}
ASSUME FdAssumption    == Fd \subseteq Nat \ {0}

CLOSED == -1        \* "no descriptor" (IPeer.h, Epoll.h)
Free   == 0         \* owner of a number that is not open

Peer == 1..NPeer    \* position in EndPoint::_peer, counted from 1

Link == {"none", "pending", "up", "fin", "rst"}

VARIABLES owner,    \* the peer whose socket() call returned the number
          link,     \* the connection: not connected, in progress, established,
                    \* closed by the remote, reset (error not yet reported)
          data,     \* TRUE when unread bytes wait in the receive buffer
          watched,  \* TRUE when the socket is in the epoll interest list
          armed     \* TRUE when epoll has an edge it has not reported yet

kernelVars == <<owner, link, data, watched, armed>>

KernelInit ==
    /\ owner   = [f \in Fd |-> Free]
    /\ link    = [f \in Fd |-> "none"]
    /\ data    = [f \in Fd |-> FALSE]
    /\ watched = [f \in Fd |-> FALSE]
    /\ armed   = [f \in Fd |-> FALSE]

-----------------------------------------------------------------------------
IsOpen(f) == f \in Fd /\ owner[f] # Free

\* socket(2) returns the lowest number that is not open.
LowestFree(f) == ~IsOpen(f) /\ \A g \in Fd : g < f => IsOpen(g)

OpenSocket(f, p) ==
    /\ owner' = [owner EXCEPT ![f] = p]
    /\ UNCHANGED <<link, data, watched, armed>>

\* close(2).  Closing a number that is not open (EBADF) changes nothing;
\* closing one that was reused closes the socket it denotes now.
CloseFd(f) ==
    /\ owner'   = [g \in Fd |-> IF g = f THEN Free   ELSE owner[g]]
    /\ link'    = [g \in Fd |-> IF g = f THEN "none" ELSE link[g]]
    /\ data'    = [g \in Fd |-> IF g = f THEN FALSE  ELSE data[g]]
    /\ watched' = [g \in Fd |-> IF g = f THEN FALSE  ELSE watched[g]]
    /\ armed'   = [g \in Fd |-> IF g = f THEN FALSE  ELSE armed[g]]

\* EPOLLIN is raised by unread bytes and by either way of ending a connection.
Readable(f) == data[f] \/ link[f] \in {"fin", "rst"}

\* Any of EPOLLRDHUP, EPOLLERR, EPOLLHUP.  A socket that was never connected
\* reports EPOLLHUP and no EPOLLIN.
HungUp(f) == link[f] \in {"none", "fin", "rst"}

Ready(f) == Readable(f) \/ HungUp(f)

-----------------------------------------------------------------------------
(* The remote side of an established connection. *)

\* Bytes arrive.
Deliver(f) ==
    /\ IsOpen(f) /\ link[f] = "up" /\ ~data[f]
    /\ data'  = [data EXCEPT ![f] = TRUE]
    /\ armed' = [armed EXCEPT ![f] = watched[f]]
    /\ UNCHANGED <<owner, link, watched>>

\* The remote closes (FIN) or resets (RST) the connection.
RemoteEnds(f) ==
    /\ IsOpen(f) /\ link[f] = "up"
    /\ \E how \in {"fin", "rst"} : link' = [link EXCEPT ![f] = how]
    /\ armed' = [armed EXCEPT ![f] = watched[f]]
    /\ UNCHANGED <<owner, data, watched>>

Network(f) == Deliver(f) \/ RemoteEnds(f)

KernelTypeOK ==
    /\ owner   \in [Fd -> Peer \cup {Free}]
    /\ link    \in [Fd -> Link]
    /\ data    \in [Fd -> BOOLEAN]
    /\ watched \in [Fd -> BOOLEAN]
    /\ armed   \in [Fd -> BOOLEAN]
=============================================================================
