---------------------------------- MODULE IO ----------------------------------
(***************************************************************************)
(* The peers of an EndPoint (IO.cpp, IPeer.h).  Peer p has the address of  *)
(* its master, the descriptor of its connection, a queue of requests, and  *)
(* a servant thread (IO::threadFunc) that takes the requests one at a time *)
(* and runs connect, read, write and close on the descriptor.              *)
(*                                                                         *)
(* Every peer is created with ssl = false (EndPoint.cpp:97, 231), so       *)
(* `_tls() == nullptr' throughout and only the plain TCP branches are      *)
(* modelled here.                                                          *)
(*                                                                         *)
(* The servant's steps are cut where another thread can come in between    *)
(* with an effect that matters: around every call that opens or closes a   *)
(* descriptor, or blocks.                                                  *)
(***************************************************************************)
EXTENDS Epoll

CONSTANTS Addr,        \* ip:port pairs, ip not empty and port not 0
          MaxCandidate \* bound on the addresses getaddrinfo returns

\* Values of (_ip, _port) and (_locIp, _locPort) that are not an address.
Blank    == "blank"    \* ip empty, port 0
Garbage  == "garbage"  \* ip empty, port an indeterminate non-zero value: no
                       \* constructor initialises IPeer::_port
NoAddr   == "noaddr"   \* ip empty, port 0
HalfAddr == "halfaddr" \* ip empty, port not 0

ASSUME AddrAssumption ==
    Addr \cap {Blank, Garbage, NoAddr, HalfAddr} = {}
ASSUME CandidateAssumption == MaxCandidate \in Nat

Req == {"CONNECT", "CLOSE", "WRITE", "READ"}

VARIABLES addr,   \* (_ip, _port): the master the peer talks to
          loc,    \* (_locIp, _locPort): the local address to bind
          fd,     \* _fd
          que,    \* _que
          pc,     \* where the servant is
          sock,   \* the local variable `fd' of connectTCP
          todo,   \* candidate addresses connectTCP has not tried
          eof     \* READ: `request' was overwritten with CLOSE

peerVars == <<addr, loc, fd, que, pc, sock, todo, eof>>

\* The servant is inside connectTCP and `sock' is its current socket.
Dialling == {"next", "setup", "dial", "select"}

PC == {"wait", "resolve", "notify", "pause", "read", "erase", "write", "close", "mark"}
      \cup Dialling

IOInit ==
    /\ addr \in {[p \in Peer |-> IF p = 1 THEN a ELSE Blank] : a \in {Blank, Garbage}}
    /\ loc  \in {[p \in Peer |-> IF p = 1 THEN a ELSE NoAddr] :
                    a \in Addr \cup {NoAddr, HalfAddr}}
    /\ fd   = [p \in Peer |-> CLOSED]
    /\ que  = [p \in Peer |-> <<>>]
    /\ pc   = [p \in Peer |-> "wait"]
    /\ sock = [p \in Peer |-> CLOSED]
    /\ todo = [p \in Peer |-> 0]
    /\ eof  = [p \in Peer |-> FALSE]

Goto(p, l) == pc' = [pc EXCEPT ![p] = l]

-----------------------------------------------------------------------------
(* IO::request, called by the EndPoint's stdIN thread on each peer in turn. *)

\* Faulty: the peer that has the address is not looked for.
MatchesBlankOnly(p, c) ==
    \/ c.fd # CLOSED /\ c.fd = fd[p]
    \/ c.ip \in Addr /\ addr[p] = Blank /\ fd[p] = CLOSED /\ c.fd = fd[p]

\* c is a request: its address (ip), its descriptor (fd), what to do (req).
Matches(p, c) ==
    \/ c.ip \in Addr /\ addr[p] = c.ip
    \/ c.fd # CLOSED /\ c.fd = fd[p]
    \/ c.ip \in Addr /\ addr[p] = Blank /\ fd[p] = CLOSED /\ c.fd = fd[p]

\* Faulty: does not look whether there is a master already.
AcceptAnyway(p, c) ==
    /\ addr' = [addr EXCEPT ![p] = c.ip]
    /\ que'  = [que EXCEPT ![p] = Append(@, c.req)]
    /\ UNCHANGED <<loc, fd, pc, sock, todo, eof>>

\* A peer without a master takes the address of the request.
Accept(p, c) ==
    /\ addr' = [addr EXCEPT ![p] = IF @ = Blank THEN c.ip ELSE @]
    /\ que'  = [que EXCEPT ![p] = Append(@, c.req)]
    /\ UNCHANGED <<loc, fd, pc, sock, todo, eof>>

-----------------------------------------------------------------------------
(* IO::threadFunc: the servant takes the next request. *)

Pop(p) ==
    /\ pc[p] = "wait" /\ que[p] # <<>>
    /\ que' = [que EXCEPT ![p] = Tail(@)]
    /\ UNCHANGED <<addr, loc, fd, sock, todo, eof, kernelVars, queue>>

\* Close, read and write are dropped while disconnected; connect is a no-op
\* while connected.
Drop(p) ==
    /\ Pop(p)
    /\ (fd[p] = CLOSED) # (Head(que[p]) = "CONNECT")
    /\ UNCHANGED pc

\* Faulty: connects before it looks at _fd (do ... while).
TakeConnectAlways(p) ==
    /\ Pop(p)
    /\ Head(que[p]) = "CONNECT"
    /\ Goto(p, "resolve")

TakeConnect(p) ==
    /\ Pop(p)
    /\ fd[p] = CLOSED /\ Head(que[p]) = "CONNECT"
    /\ Goto(p, "resolve")

TakeTransfer(p) ==
    /\ Pop(p)
    /\ fd[p] # CLOSED
    /\ \/ Head(que[p]) = "READ"  /\ Goto(p, "read")
       \/ Head(que[p]) = "WRITE" /\ Goto(p, "write")
       \/ Head(que[p]) = "CLOSE" /\ Goto(p, "close")

-----------------------------------------------------------------------------
(* IO::connectTCP. *)

\* getaddrinfo: an error leaves the list empty.
Resolve(p) ==
    /\ pc[p] = "resolve"
    /\ \E k \in 0..MaxCandidate : todo' = [todo EXCEPT ![p] = k]
    /\ sock' = [sock EXCEPT ![p] = CLOSED]
    /\ Goto(p, "next")
    /\ UNCHANGED <<addr, loc, fd, que, eof, kernelVars, queue>>

\* Faulty: `continue' without ptr = ptr->ai_next.
NextCandidateAgain(p) ==
    /\ pc[p] = "next" /\ todo[p] > 0
    /\ \E f \in Fd :
         /\ LowestFree(f)
         /\ OpenSocket(f, p)
         /\ sock' = [sock EXCEPT ![p] = f]
    /\ Goto(p, "setup")
    /\ UNCHANGED <<addr, loc, fd, que, todo, eof, queue>>

\* The next candidate gets a new socket; sock keeps whatever number the last
\* candidate left in it until then.  socket() may fail: the process, or the
\* system, is out of descriptors, or of memory.
NextCandidate(p) ==
    /\ pc[p] = "next" /\ todo[p] > 0
    /\ todo' = [todo EXCEPT ![p] = @ - 1]
    /\ \/ \E f \in Fd :
            /\ LowestFree(f)
            /\ OpenSocket(f, p)
            /\ sock' = [sock EXCEPT ![p] = f]
            /\ Goto(p, "setup")
       \/ /\ sock' = [sock EXCEPT ![p] = CLOSED]
          /\ UNCHANGED <<pc, kernelVars>>
    /\ UNCHANGED <<addr, loc, fd, que, eof, queue>>

\* Faulty: continue without closeFd.
GiveUpOpen(p) ==
    /\ Goto(p, "next")
    /\ UNCHANGED <<kernelVars, todo, sock>>

\* closeFd(fd); continue;  The number stays in fd.
GiveUpKeepingNumber(p) ==
    /\ CloseFd(sock[p])
    /\ Goto(p, "next")
    /\ UNCHANGED <<todo, sock>>

\* closeFd(fd); fd = CLOSED; continue;
GiveUp(p) ==
    /\ CloseFd(sock[p])
    /\ Goto(p, "next")
    /\ sock' = [sock EXCEPT ![p] = CLOSED]
    /\ UNCHANGED todo

\* Connected: leave the loop over the candidates.
Succeed(p) ==
    /\ todo' = [todo EXCEPT ![p] = 0]
    /\ Goto(p, "next")
    /\ UNCHANGED <<sock, owner, data, watched, armed>>

\* setsockopt, bind to the local address if there is one, setNonBlock.
\* inet_pton rejects an empty local ip; bind may reject any local address.
SetUp(p) ==
    /\ pc[p] = "setup"
    /\ \/ /\ IsOpen(sock[p]) /\ loc[p] # HalfAddr
          /\ Goto(p, "dial")
          /\ UNCHANGED <<todo, sock, kernelVars>>
       \/ /\ ~IsOpen(sock[p]) \/ loc[p] # NoAddr
          /\ GiveUpKeepingNumber(p)
    /\ UNCHANGED <<addr, loc, fd, que, eof, queue>>

\* connect(2) on a non-blocking socket.
Dial(p) ==
    /\ pc[p] = "dial"
    /\ \/ /\ IsOpen(sock[p]) /\ link[sock[p]] = "none"
          /\ \/ Succeed(p) /\ link' = [link EXCEPT ![sock[p]] = "up"]
             \/ /\ link' = [link EXCEPT ![sock[p]] = "pending"]
                /\ Goto(p, "select")
                /\ UNCHANGED <<todo, sock, owner, data, watched, armed>>
       \/ GiveUpKeepingNumber(p)
    /\ UNCHANGED <<addr, loc, fd, que, eof, queue>>

\* select(2) waits at most 10 seconds.  It reports any socket that has no
\* connection in progress as writable, and the exceptset it is passed was never
\* initialised, so it may also fail or return for another descriptor.
Await(p) ==
    /\ pc[p] = "select"
    /\ \/ /\ IsOpen(sock[p]) /\ link[sock[p]] # "rst"   \* writable, SO_ERROR is 0
          /\ Succeed(p)
          /\ link' = [link EXCEPT ![sock[p]] = IF @ = "pending" THEN "up" ELSE @]
       \/ GiveUpKeepingNumber(p)                         \* select failed or timed out
       \/ GiveUp(p)                                      \* getsockopt, SO_ERROR, FD_ISSET
    /\ UNCHANGED <<addr, loc, fd, que, eof, queue>>

\* connect: _fd = connectTCP(); without a descriptor the loop sleeps.
Return(p) ==
    /\ pc[p] = "next" /\ todo[p] = 0
    /\ fd' = [fd EXCEPT ![p] = sock[p]]
    /\ sock' = [sock EXCEPT ![p] = CLOSED]
    /\ Goto(p, IF sock[p] = CLOSED THEN "pause" ELSE "notify")
    /\ UNCHANGED <<addr, loc, que, todo, eof, kernelVars, queue>>

\* notifyManager ignores whether the descriptor could be registered.
Notify(p) ==
    /\ pc[p] = "notify"
    /\ AddNew(fd[p])
    /\ Goto(p, "pause")
    /\ UNCHANGED <<addr, loc, fd, que, sock, todo, eof, queue>>

\* sleep(5), then the loop condition `_fd == CLOSED'.
Pause(p) ==
    /\ pc[p] = "pause"
    /\ Goto(p, IF fd[p] = CLOSED THEN "resolve" ELSE "wait")
    /\ UNCHANGED <<addr, loc, fd, que, sock, todo, eof, kernelVars, queue>>

-----------------------------------------------------------------------------
(* IO::read in the loop of threadFunc, IO::write, IO::close. *)

\* Bytes were read; the loop reads on.
ReadData(p) ==
    /\ pc[p] = "read" /\ IsOpen(fd[p]) /\ data[fd[p]]
    /\ data' = [data EXCEPT ![fd[p]] = FALSE]
    /\ UNCHANGED <<peerVars, owner, link, watched, armed, queue>>

\* read() returned 0: at the end of the stream, and also when it set EAGAIN,
\* which the code turns into 0.
ReadNothing(p) ==
    /\ pc[p] = "read" /\ IsOpen(fd[p])
    /\ ~data[fd[p]] /\ link[fd[p]] \in {"pending", "up", "fin"}
    /\ Goto(p, "erase")
    /\ UNCHANGED <<addr, loc, fd, que, sock, todo, eof, kernelVars, queue>>

\* Faulty: leaves the loop, and does not close.
EraseAndLeave(p) ==
    /\ pc[p] = "erase"
    /\ que' = [que EXCEPT ![p] = <<>>]
    /\ Goto(p, "wait")
    /\ UNCHANGED <<addr, loc, fd, sock, todo, eof, kernelVars, queue>>

\* The requests that wait by now are erased and the request becomes CLOSE, yet
\* the loop reads on.
Erase(p) ==
    /\ pc[p] = "erase"
    /\ que' = [que EXCEPT ![p] = <<>>]
    /\ eof' = [eof EXCEPT ![p] = TRUE]
    /\ Goto(p, "read")
    /\ UNCHANGED <<addr, loc, fd, sock, todo, kernelVars, queue>>

\* read() returned -1 with another error (EBADF, ENOTCONN, ECONNRESET): the
\* loop ends.  A reset is reported once.
ReadError(p) ==
    /\ pc[p] = "read"
    /\ \/ ~IsOpen(fd[p]) /\ UNCHANGED link
       \/ /\ IsOpen(fd[p]) /\ ~data[fd[p]]
          /\ \/ link[fd[p]] = "none" /\ UNCHANGED link
             \/ link[fd[p]] = "rst"  /\ link' = [link EXCEPT ![fd[p]] = "fin"]
    /\ Goto(p, IF eof[p] THEN "close" ELSE "wait")
    /\ eof' = [eof EXCEPT ![p] = FALSE]
    /\ UNCHANGED <<addr, loc, fd, que, sock, todo, owner, data, watched, armed, queue>>

\* The result of write() is not looked at; a reset it reports is lost.
Write(p) ==
    /\ pc[p] = "write"
    /\ link' = [f \in Fd |-> IF f = fd[p] /\ link[f] = "rst" THEN "fin" ELSE link[f]]
    /\ Goto(p, "wait")
    /\ UNCHANGED <<addr, loc, fd, que, sock, todo, eof,
                   owner, data, watched, armed, queue>>

\* Faulty: forgets the descriptor without closing it.
CloseForgets(p) ==
    /\ pc[p] = "close"
    /\ Goto(p, "mark")
    /\ UNCHANGED <<addr, loc, fd, que, sock, todo, eof, queue, kernelVars>>

Close(p) ==
    /\ pc[p] = "close"
    /\ CloseFd(fd[p])
    /\ Goto(p, "mark")
    /\ UNCHANGED <<addr, loc, fd, que, sock, todo, eof, queue>>

\* _fd = CLOSED, after the number was given back.
MarkClosed(p) ==
    /\ pc[p] = "mark"
    /\ fd' = [fd EXCEPT ![p] = CLOSED]
    /\ Goto(p, "wait")
    /\ UNCHANGED <<addr, loc, que, sock, todo, eof, kernelVars, queue>>

Connect(p) ==
    \/ Resolve(p) \/ NextCandidate(p) \/ SetUp(p) \/ Dial(p) \/ Await(p)
    \/ Return(p) \/ Notify(p) \/ Pause(p)

Transfer(p) ==
    \/ ReadData(p) \/ ReadNothing(p) \/ Erase(p) \/ ReadError(p)
    \/ Write(p) \/ Close(p) \/ MarkClosed(p)

Servant(p) ==
    Drop(p) \/ TakeConnect(p) \/ TakeTransfer(p) \/ Connect(p) \/ Transfer(p)

IOTypeOK ==
    /\ addr \in [Peer -> Addr \cup {Blank, Garbage}]
    /\ loc  \in [Peer -> Addr \cup {NoAddr, HalfAddr}]
    /\ fd   \in [Peer -> Fd \cup {CLOSED}]
    /\ que  \in [Peer -> Seq(Req)]
    /\ pc   \in [Peer -> PC]
    /\ sock \in [Peer -> Fd \cup {CLOSED}]
    /\ todo \in [Peer -> 0..MaxCandidate]
    /\ eof  \in [Peer -> BOOLEAN]
=============================================================================
