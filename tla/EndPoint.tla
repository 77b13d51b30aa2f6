------------------------------- MODULE EndPoint -------------------------------
(***************************************************************************)
(* EndPoint.cpp: the whole client process.  The stdIN thread pops command  *)
(* lines from the queue, interprets each one and offers the request to the *)
(* peers in the order they were created; a request no peer takes creates a *)
(* new peer.  The lines come from later instances of the program (through  *)
(* the message queue of main.cpp) and from the epoll waiter.  The timer    *)
(* thread calls timerCallback of every peer.                               *)
(*                                                                         *)
(* This module composes the threads: stdIN, timer, the epoll waiter        *)
(* (Epoll), one servant per peer (IO), and the remote sides of the         *)
(* connections (Descriptors).                                              *)
(***************************************************************************)
EXTENDS IO

CONSTANTS UserLine,   \* the lines later instances send
          Interpret,  \* what interpretRequest makes of a line
          MaxUser,    \* bound on the lines sent
          MaxNetwork  \* bound on the steps of the remote sides

\* A line is a request, or is ignored because of an argument that is not
\* expected, or lacks the value of its last option and makes stdIN throw.
Outcome == [kind : {"request", "ignored", "throws"},
            ip   : Addr \cup {NoAddr, HalfAddr},
            fd   : Int,
            req  : Req]

ASSUME InterpretAssumption ==
    /\ UserLine \subseteq Line
    /\ Interpret \in [Line -> Outcome]
    /\ MaxUser \in Nat /\ MaxNetwork \in Nat

\* What the waiter writes, stdIN reads back.
ASSUME EventAssumption ==
    \A f \in Fd :
        /\ Interpret[ReadLine[f]]  = [kind |-> "request", ip |-> NoAddr, fd |-> f, req |-> "READ"]
        /\ Interpret[CloseLine[f]] = [kind |-> "request", ip |-> NoAddr, fd |-> f, req |-> "CLOSE"]

VARIABLES n,       \* _peer.size()
          cmd,     \* the request stdIN is offering to the peers
          idx,     \* the peer it is offered to next; 0: stdIN waits for a line
          alive,   \* the process has not been terminated
          users,   \* lines sent so far
          network  \* steps of the remote sides so far

dispatchVars == <<n, cmd, idx, alive, users, network>>

vars == <<kernelVars, queue, peerVars, dispatchVars>>

NoCmd == [kind |-> "ignored", ip |-> NoAddr, fd |-> CLOSED, req |-> "CONNECT"]

Init ==
    /\ KernelInit
    /\ queue = <<>>
    /\ IOInit
    /\ n = 1 /\ cmd = NoCmd /\ idx = 0
    /\ alive = TRUE
    /\ users = 0 /\ network = 0

-----------------------------------------------------------------------------
(* The stdIN thread: interpretRequest(queue.pop()) for ever. *)

\* A line without the value of its last option throws in the thread, which
\* terminates the process.
Interpretation ==
    /\ idx = 0 /\ queue # <<>>
    /\ queue' = Tail(queue)
    /\ LET c == Interpret[Head(queue)] IN
         /\ alive' = (c.kind # "throws")
         /\ cmd' = IF c.kind = "request" THEN c ELSE NoCmd
         /\ idx' = IF c.kind = "request" THEN 1 ELSE 0
    /\ UNCHANGED <<kernelVars, peerVars, n, users, network>>

Taken(i) ==
    /\ Matches(i, cmd)
    /\ Accept(i, cmd)
    /\ cmd' = NoCmd /\ idx' = 0

Refused(i) ==
    /\ ~Matches(i, cmd)
    /\ idx' = i + 1
    /\ UNCHANGED <<peerVars, cmd>>

\* Faulty: hands the request over only when the servant waits for it.
OfferWhenIdle ==
    /\ idx \in 1..n /\ pc[idx] = "wait"
    /\ Taken(idx) \/ Refused(idx)
    /\ UNCHANGED <<kernelVars, queue, n, alive, users, network>>

\* _peer[i].get()->request(...): only one master has the address, so the first
\* peer that takes the request ends the loop.
Offer ==
    /\ idx \in 1..n
    /\ Taken(idx) \/ Refused(idx)
    /\ UNCHANGED <<kernelVars, queue, n, alive, users, network>>

\* Faulty: queues the request on the new peer, but gives it no master.
CreatePeerWithRequest ==
    /\ idx = n + 1 /\ n < NPeer
    /\ n' = n + 1
    /\ loc' = [loc EXCEPT ![n + 1] = cmd.ip]
    /\ que' = [que EXCEPT ![n + 1] = <<cmd.req>>]
    /\ \E a \in {Blank, Garbage} : addr' = [addr EXCEPT ![n + 1] = a]
    /\ cmd' = NoCmd /\ idx' = 0
    /\ UNCHANGED <<kernelVars, queue, fd, pc, sock, todo, eof, alive, users, network>>

\* Not found: a new peer, with the address of the request as the address to
\* bind.  The request itself goes nowhere.
CreatePeer ==
    /\ idx = n + 1 /\ n < NPeer
    /\ n' = n + 1
    /\ loc' = [loc EXCEPT ![n + 1] = cmd.ip]
    /\ \E a \in {Blank, Garbage} : addr' = [addr EXCEPT ![n + 1] = a]
    /\ cmd' = NoCmd /\ idx' = 0
    /\ UNCHANGED <<kernelVars, queue, fd, que, pc, sock, todo, eof,
                   alive, users, network>>

StdIn == Interpretation \/ Offer \/ CreatePeer

-----------------------------------------------------------------------------
(* The other threads and the environment. *)

\* timerCallback is not implemented: it throws on the first peer.
Timer ==
    /\ alive' = FALSE
    /\ UNCHANGED <<kernelVars, queue, peerVars, n, cmd, idx, users, network>>

Serve(p) == Servant(p) /\ UNCHANGED dispatchVars

Report == (\E f \in Fd : Waiter(f)) /\ UNCHANGED <<peerVars, dispatchVars>>

\* main.cpp: the message queue callback pushes the line of a later instance.
NewMsgQueue ==
    /\ users < MaxUser /\ users' = users + 1
    /\ \E l \in UserLine : queue' = Append(queue, l)
    /\ UNCHANGED <<kernelVars, peerVars, n, cmd, idx, alive, network>>

Remote ==
    /\ network < MaxNetwork /\ network' = network + 1
    /\ \E f \in Fd : Network(f)
    /\ UNCHANGED <<queue, peerVars, n, cmd, idx, alive, users>>

Next ==
    /\ alive
    /\ \/ StdIn
       \/ Timer
       \/ Report
       \/ NewMsgQueue
       \/ Remote
       \/ \E p \in Peer : Serve(p)

Spec == Init /\ [][Next]_vars

\* Every thread that can run is eventually scheduled.  Nothing is assumed of
\* the timer thread, whose first run ends the process, nor of users and remotes.
Fairness ==
    /\ WF_vars(alive /\ StdIn)
    /\ WF_vars(alive /\ Report)
    /\ \A p \in Peer : WF_vars(alive /\ Serve(p))

FairSpec == Spec /\ Fairness

-----------------------------------------------------------------------------
TypeOK ==
    /\ KernelTypeOK
    /\ queue \in Seq(Line)
    /\ IOTypeOK
    /\ n \in Peer
    /\ cmd \in Outcome
    /\ idx \in 0..(n + 1)
    /\ alive \in BOOLEAN
    /\ users \in 0..MaxUser /\ network \in 0..MaxNetwork

-----------------------------------------------------------------------------
(* Masters. *)

(***************************************************************************)
(* Only one master has same address (EndPoint.cpp:224): no two peers ever  *)
(* take the same master, though the descriptors the search also compares   *)
(* change under it.                                                        *)
(***************************************************************************)
AddressUnique ==
    \A i, j \in 1..n : i # j /\ addr[i] \in Addr => addr[i] # addr[j]

(***************************************************************************)
(* A peer without a master is idle: no request by descriptor reaches it    *)
(* and its servant never dials an empty address (IO.cpp:56-65, 323-335).   *)
(***************************************************************************)
Addressed ==
    \A p \in Peer : addr[p] \notin Addr \/ p > n =>
        addr[p] \in {Blank, Garbage} /\ fd[p] = CLOSED /\ que[p] = <<>> /\ pc[p] = "wait"

\* The master of every peer, Blank if it has none.
Master == [p \in Peer |-> IF addr[p] \in Addr THEN addr[p] ELSE Blank]

Registry == INSTANCE Directory WITH None <- Blank, master <- Master

(***************************************************************************)
(* "Assign master address" (IO.cpp:64) happens once for a peer, and never  *)
(* with the master of another: EndPoint implements Directory.              *)
(***************************************************************************)
MastersKept == Registry!Spec

\* While stdIN searches, the peers it has passed do not have the address of the
\* request, and a request without a descriptor passes no peer that could take it.
SearchOK ==
    idx > 0 /\ cmd.ip \in Addr =>
        \A i \in Peer : i < idx =>
            addr[i] # cmd.ip /\ (cmd.fd = CLOSED => addr[i] # Blank)

\* Masters are taken in the order of the peers.
MastersInOrder ==
    \A i, j \in Peer : i < j /\ addr[j] \in Addr => addr[i] # Blank

-----------------------------------------------------------------------------
(* Descriptors. *)

\* The servant opens a socket only while its peer has none, and uses `_fd' only
\* while it is set.
PhaseOK ==
    \A p \in Peer :
        /\ pc[p] \in Dialling \cup {"resolve"} => fd[p] = CLOSED
        /\ pc[p] \in {"notify", "read", "erase", "write", "close", "mark"} => fd[p] \in Fd

\* p will close f, or use it as its connection.
Holds(p, f) ==
    \/ fd[p] = f /\ pc[p] # "mark"
    \/ sock[p] = f /\ pc[p] \in {"setup", "dial", "select"}
    \/ sock[p] = f /\ pc[p] = "next" /\ todo[p] = 0

(***************************************************************************)
(* No socket is leaked: whatever becomes of a connection attempt (bind or  *)
(* connect refused, time-out, the next candidate, another attempt five     *)
(* seconds later) and of the closing of a connection, an open socket is    *)
(* still known to the peer that opened it (IO.cpp:106-279, 323-335, 395).  *)
(***************************************************************************)
NoSocketLeak == \A f \in Fd : IsOpen(f) => Holds(owner[f], f)

(***************************************************************************)
(* Every socket epoll watches is the connection of some peer, so that an   *)
(* event always finds somebody to serve it (EndPoint.cpp:128, IO.cpp:385,  *)
(* 397).                                                                   *)
(***************************************************************************)
RegisteredHeld ==
    \A f \in Fd : watched[f] => \E p \in Peer : fd[p] = f /\ pc[p] # "mark"

\* The inductive invariant.
Inv ==
    /\ TypeOK
    /\ Addressed /\ SearchOK /\ MastersInOrder /\ AddressUnique
    /\ PhaseOK /\ NoSocketLeak /\ RegisteredHeld

-----------------------------------------------------------------------------
(* Events. *)

\* A request to read from f is on its way to the peer p, or p is reading.
ReadUnderWay(p, f) ==
    \/ \E k \in DOMAIN queue : queue[k] = ReadLine[f]
    \/ idx > 0 /\ cmd = Interpret[ReadLine[f]]
    \/ fd[p] = f /\ (pc[p] \in {"read", "erase"} \/ \E k \in DOMAIN que[p] : que[p][k] = "READ")

(***************************************************************************)
(* Epoll reports an edge once.  Bytes that arrived on a connection whose   *)
(* edge was reported are read, or a request to read them is under way to   *)
(* the peer that holds the connection; else they wait until more arrive    *)
(* (IManager.h:16, Epoll.cpp:81, IO.cpp:337-366).                          *)
(***************************************************************************)
NoStalledData ==
    \A f \in Fd :
        watched[f] /\ data[f] /\ ~armed[f] /\ alive => ReadUnderWay(owner[f], f)

-----------------------------------------------------------------------------
(* Progress. *)

(***************************************************************************)
(* stdIN never waits for a peer: whatever the servants do, every line that *)
(* was pushed is interpreted, offered and done with (EndPoint.cpp:101-106, *)
(* IO.cpp:70).                                                             *)
(***************************************************************************)
LinesServed == []<>(~alive \/ (queue = <<>> /\ idx = 0))

(***************************************************************************)
(* Every attempt to connect ends: each candidate is tried once and waited  *)
(* for at most ten seconds (IO.cpp:106-279).                               *)
(***************************************************************************)
AttemptEnds ==
    \A p \in Peer : pc[p] = "resolve" ~> (pc[p] = "pause" \/ ~alive)

-----------------------------------------------------------------------------
(* What comments of the code say and the code does not do. *)

(***************************************************************************)
(* "Leave loop with first succesfully created socket" (IO.cpp:277): the    *)
(* descriptor of a connected peer is a socket that peer opened.            *)
(***************************************************************************)
DescriptorOwned ==
    \A p \in Peer : fd[p] \in Fd /\ pc[p] # "mark" => owner[fd[p]] = p

(***************************************************************************)
(* "errno == EAGAIN, that means we have read all data" (IO.cpp:345): the   *)
(* loop that reads a connection ends when nothing is left to read.         *)
(***************************************************************************)
ReadingEnds ==
    \A p \in Peer :
        pc[p] \in {"read", "erase"} ~> (pc[p] \notin {"read", "erase"} \/ ~alive)

(***************************************************************************)
(* "-f 3 -r (read from file descriptor)" (EndPoint.cpp:136): a read line is *)
(* for the connection it names.  Whichever peer holds that connection,     *)
(* bytes whose edge was reported are on their way to be read by somebody.  *)
(***************************************************************************)
DataServed ==
    \A f \in Fd :
        watched[f] /\ data[f] /\ ~armed[f] /\ alive => \E p \in Peer : ReadUnderWay(p, f)

(***************************************************************************)
(* "-i 172.22.77.70:2111 (connect with ip)" (EndPoint.cpp:138): a request  *)
(* to connect gives some peer that address as its master.                  *)
(***************************************************************************)
ConnectServed ==
    \A a \in Addr :
        (idx > 0 /\ cmd.ip = a /\ cmd.fd = CLOSED)
            ~> (~alive \/ \E p \in 1..n : addr[p] = a)
=============================================================================
