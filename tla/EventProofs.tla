----------------------------- MODULE EventProofs -----------------------------
(***************************************************************************)
(* Proofs about the events of EndPoint: no bytes wait whose edge was       *)
(* reported and that nobody is about to read.                              *)
(*                                                                         *)
(* It is first proved under the condition that numbers stand for one peer  *)
(* (NumbersApart), for any number of masters.  The two races that the runs *)
(* `owned' and `stalled' find are then shown to be the only ways to lose   *)
(* that, and a condition on the lines alone, that they name one master, to *)
(* ensure it.                                                              *)
(***************************************************************************)
EXTENDS EndPointProofs

USE NPeerAssumption, FdAssumption, LineAssumption, AddrAssumption,
    CandidateAssumption, InterpretAssumption

-----------------------------------------------------------------------------
(* What epoll watches is open. *)

WatchedOpen == \A f \in Fd : watched[f] => IsOpen(f)

LEMMA NextWatchedOpen ==
    ASSUME TypeOK, WatchedOpen, [Next]_vars
    PROVE  WatchedOpen'
  <1>1. ASSUME NEW f, CloseFd(f) PROVE WatchedOpen'
    BY <1>1 DEF CloseFd, WatchedOpen, IsOpen
  <1>2. ASSUME NEW f \in Fd, NEW p \in Peer, OpenSocket(f, p) PROVE WatchedOpen'
    BY <1>2 DEF OpenSocket, WatchedOpen, IsOpen, Peer, Free, TypeOK, KernelTypeOK
  <1>3. ASSUME NEW f, AddNew(f) PROVE WatchedOpen'
    BY <1>3 DEF AddNew, WatchedOpen, IsOpen
  <1>4. ASSUME UNCHANGED <<owner, watched>> PROVE WatchedOpen'
    BY <1>4 DEF WatchedOpen, IsOpen
  <1>5. ASSUME NEW p \in Peer, Servant(p) PROVE WatchedOpen'
    <2>1. CASE Drop(p) \/ TakeConnect(p) \/ TakeTransfer(p)
      BY <1>4, <2>1 DEF Drop, TakeConnect, TakeTransfer, Pop, kernelVars
    <2>2. CASE Resolve(p) \/ Return(p) \/ Pause(p)
      BY <1>4, <2>2 DEF Resolve, Return, Pause, kernelVars
    <2>3. CASE NextCandidate(p)
      BY <1>2, <1>4, <2>3 DEF NextCandidate, kernelVars
    <2>4. CASE SetUp(p) \/ Dial(p) \/ Await(p)
      BY <1>1, <1>4, <2>4 DEF SetUp, Dial, Await, GiveUpKeepingNumber, GiveUp, Succeed, kernelVars
    <2>5. CASE Notify(p)
      BY <1>3, <2>5 DEF Notify
    <2>6. CASE ReadData(p) \/ ReadNothing(p) \/ Erase(p) \/ ReadError(p)
      BY <1>4, <2>6 DEF ReadData, ReadNothing, Erase, ReadError, kernelVars
    <2>7. CASE Write(p) \/ MarkClosed(p)
      BY <1>4, <2>7 DEF Write, MarkClosed, kernelVars
    <2>8. CASE Close(p)
      BY <1>1, <2>8 DEF Close
    <2> QED
      BY <1>5, <2>1, <2>2, <2>3, <2>4, <2>5, <2>6, <2>7, <2>8
      DEF Servant, Connect, Transfer
  <1>6. CASE StdIn \/ Timer \/ Report \/ NewMsgQueue \/ Remote \/ UNCHANGED vars
    BY <1>4, <1>6
    DEF StdIn, Interpretation, Offer, CreatePeer, Timer, Report, Waiter, NewMsgQueue,
        Remote, Network, Deliver, RemoteEnds, vars, kernelVars
  <1> QED
    BY <1>5, <1>6 DEF Next, Serve

(***************************************************************************)
(* A socket leaves the interest list when it is closed, and only an open   *)
(* one is added.                                                           *)
(***************************************************************************)
LEMMA WatchedIsOpen == Spec => []WatchedOpen
  <1>1. Init => WatchedOpen
    BY DEF Init, KernelInit, WatchedOpen
  <1>2. TypeOK /\ WatchedOpen /\ [Next]_vars => WatchedOpen'
    BY NextWatchedOpen
  <1> QED
    BY <1>1, <1>2, TypeCorrect, PTL DEF Spec

-----------------------------------------------------------------------------
(* Bytes that wait, and the request to read them. *)

(***************************************************************************)
(* A number stands for one peer: the socket behind the `_fd' of a peer is  *)
(* its own, unless it is closed, and no other peer has that number.  The   *)
(* code relies on it wherever it goes by descriptor (IO.cpp:56-60,         *)
(* Epoll.cpp:81).                                                          *)
(***************************************************************************)
NumbersApart ==
    \A p \in Peer : fd[p] # CLOSED =>
        /\ owner[fd[p]] \in {p, Free}
        /\ \A q \in Peer \ {p} : fd[q] # fd[p]

\* Bytes wait on f and epoll will not report them again.
Awaited(f) == watched[f] /\ data[f] /\ ~armed[f]

\* READ is among the requests that wait for p.
ReadQueued(p) == \E k \in DOMAIN que[p] : que[p][k] = "READ"

\* The three places a request to read from f passes through on its way to p.  It
\* has not been offered to p yet while stdIN holds it.
Pushed(f) == \E k \in DOMAIN queue : queue[k] = ReadLine[f]
Offered(p, f) == idx \in 1..p /\ cmd = Interpret[ReadLine[f]]
Received(p, f) == fd[p] = f /\ (pc[p] \in {"read", "erase"} \/ ReadQueued(p))

\* The inductive invariant.
AwaitedServed ==
    alive => \A f \in Fd : Awaited(f) =>
        Pushed(f) \/ Offered(owner[f], f) \/ Received(owner[f], f)

\* What stdIN makes of the lines the waiter writes.
LEMMA ReadRequest ==
    ASSUME NEW f \in Fd
    PROVE  /\ Interpret[ReadLine[f]].kind = "request" /\ Interpret[ReadLine[f]].ip = NoAddr
           /\ Interpret[ReadLine[f]].fd = f /\ Interpret[ReadLine[f]].req = "READ"
  <1>1. Interpret[ReadLine[f]] = [kind |-> "request", ip |-> NoAddr, fd |-> f, req |-> "READ"]
    BY EventAssumption
  <1> QED
    BY <1>1

LEMMA CloseRequest ==
    ASSUME NEW f \in Fd
    PROVE  Interpret[CloseLine[f]].ip = NoAddr
  <1>1. Interpret[CloseLine[f]] = [kind |-> "request", ip |-> NoAddr, fd |-> f, req |-> "CLOSE"]
    BY EventAssumption
  <1> QED
    BY <1>1

Known == TypeOK /\ Addressed /\ Descs /\ WatchedOpen

\* The peer that is served.
LEMMA Holder ==
    ASSUME Known, NumbersApart, NEW f \in Fd, watched[f]
    PROVE  owner[f] \in Peer /\ owner[f] <= n /\ fd[owner[f]] = f /\ pc[owner[f]] # "mark"
  <1>1. PICK q \in Peer : fd[q] = f /\ pc[q] # "mark"
    BY DEF Known, Descs, RegisteredHeld
  <1>2. f # CLOSED
    BY DEF CLOSED
  <1>3. owner[f] = q
    BY <1>1, <1>2 DEF Known, WatchedOpen, IsOpen, NumbersApart
  <1>4. q <= n
    BY <1>1, <1>2 DEF Known, Addressed, TypeOK, Peer
  <1> QED
    BY <1>1, <1>3, <1>4

\* The servants raise no bytes, and give no number that is watched to another.
LEMMA ServantAwaits ==
    ASSUME TypeOK, WatchedOpen, NEW p \in Peer, Servant(p), NEW f \in Fd, Awaited(f)'
    PROVE  Awaited(f) /\ owner'[f] = owner[f]
  <1> KernelTypeOK
    BY DEF TypeOK
  <1> USE DEF Awaited, KernelTypeOK
  <1>1. ASSUME UNCHANGED <<owner, data, watched, armed>> PROVE Awaited(f) /\ owner'[f] = owner[f]
    BY <1>1
  <1>2. ASSUME NEW g, CloseFd(g) PROVE Awaited(f) /\ owner'[f] = owner[f]
    BY <1>2 DEF CloseFd
  <1>3. ASSUME NEW g \in Fd, ~IsOpen(g), OpenSocket(g, p) PROVE Awaited(f) /\ owner'[f] = owner[f]
    <2>1. watched[f] /\ data[f] /\ ~armed[f]
      BY <1>3 DEF OpenSocket
    <2>2. f # g
      BY <1>3, <2>1 DEF WatchedOpen
    <2> QED
      BY <1>3, <2>1, <2>2 DEF OpenSocket
  <1>4. ASSUME NEW g, AddNew(g) PROVE Awaited(f) /\ owner'[f] = owner[f]
    <2>1. data[f] /\ owner'[f] = owner[f]
      BY <1>4 DEF AddNew
    <2>2. Ready(f)
      BY <2>1 DEF Ready, Readable
    <2> QED
      BY <1>4, <2>1, <2>2 DEF AddNew
  <1>5. CASE Drop(p) \/ TakeConnect(p) \/ TakeTransfer(p)
    BY <1>1, <1>5 DEF Drop, TakeConnect, TakeTransfer, Pop, kernelVars
  <1>6. CASE Resolve(p) \/ Return(p) \/ Pause(p)
    BY <1>1, <1>6 DEF Resolve, Return, Pause, kernelVars
  <1>7. CASE NextCandidate(p)
    BY <1>1, <1>3, <1>7 DEF NextCandidate, LowestFree, kernelVars
  <1>8. CASE SetUp(p) \/ Dial(p) \/ Await(p)
    BY <1>1, <1>2, <1>8 DEF SetUp, Dial, Await, GiveUpKeepingNumber, GiveUp, Succeed, kernelVars
  <1>9. CASE Notify(p)
    BY <1>4, <1>9 DEF Notify
  <1>10. CASE ReadData(p)
    BY <1>10 DEF ReadData
  <1>11. CASE ReadNothing(p) \/ Erase(p) \/ ReadError(p)
    BY <1>1, <1>11 DEF ReadNothing, Erase, ReadError, kernelVars
  <1>12. CASE Write(p) \/ MarkClosed(p)
    BY <1>1, <1>12 DEF Write, MarkClosed, kernelVars
  <1>13. CASE Close(p)
    BY <1>2, <1>13 DEF Close
  <1> QED
    BY <1>5, <1>6, <1>7, <1>8, <1>9, <1>10, <1>11, <1>12, <1>13
    DEF Servant, Connect, Transfer

\* A servant loses no request to read while bytes wait: it drops READ only
\* without a descriptor, and leaves the loop only when the bytes are read.
LEMMA ServantReads ==
    ASSUME TypeOK, PhaseOK, WatchedOpen, NEW p \in Peer, Servant(p),
           NEW f \in Fd, Awaited(f)', fd[p] = f, pc[p] # "mark", Received(p, f)
    PROVE  Received(p, f)'
  <1> KernelTypeOK /\ IOTypeOK /\ f # CLOSED
    BY DEF TypeOK, CLOSED
  <1>1. Awaited(f) /\ IsOpen(f)
    BY ServantAwaits DEF WatchedOpen, Awaited
  <1> USE <1>1 DEF Received, Goto, IOTypeOK
  <1>2. ASSUME Pop(p), ReadQueued(p), Head(que[p]) # "READ" PROVE ReadQueued(p)'
    <2>1. que'[p] = Tail(que[p]) /\ que[p] \in Seq(Req) /\ que[p] # <<>>
      BY <1>2 DEF Pop
    <2>2. PICK k \in DOMAIN que[p] : que[p][k] = "READ"
      BY <1>2 DEF ReadQueued
    <2>3. k # 1
      BY <1>2, <2>1, <2>2
    <2>4. k - 1 \in DOMAIN Tail(que[p]) /\ Tail(que[p])[k - 1] = "READ"
      BY <2>1, <2>2, <2>3
    <2> QED
      BY <2>1, <2>4 DEF ReadQueued
  <1>3. pc[p] = "wait" => ReadQueued(p)
    OBVIOUS
  <1>4. CASE Drop(p)
    BY <1>2, <1>3, <1>4 DEF Drop, Pop
  <1>5. CASE TakeTransfer(p)
    <2>1. CASE Head(que[p]) = "READ"
      BY <1>5, <2>1 DEF TakeTransfer, Pop
    <2>2. CASE Head(que[p]) # "READ"
      BY <1>2, <1>3, <1>5, <2>2 DEF TakeTransfer, Pop
    <2> QED
      BY <2>1, <2>2
  <1>6. CASE TakeConnect(p)
    BY <1>6 DEF TakeConnect
  <1>7. ASSUME pc[p] \notin {"read", "erase"}, UNCHANGED <<que, fd>> PROVE Received(p, f)'
    BY <1>7 DEF ReadQueued
  <1>8. CASE Resolve(p) \/ NextCandidate(p) \/ SetUp(p) \/ Dial(p) \/ Await(p)
    BY <1>7, <1>8 DEF Resolve, NextCandidate, SetUp, Dial, Await
  <1>9. CASE Notify(p) \/ Pause(p) \/ Write(p) \/ Close(p)
    BY <1>7, <1>9 DEF Notify, Pause, Write, Close
  <1>10. CASE ReadData(p)
    BY <1>10 DEF ReadData, Awaited, TypeOK, KernelTypeOK
  <1>11. CASE ReadNothing(p) \/ Erase(p)
    BY <1>11 DEF ReadNothing, Erase
  <1>12. CASE ReadError(p)
    BY <1>12 DEF ReadError, Awaited
  <1>13. CASE MarkClosed(p)
    BY <1>13 DEF MarkClosed
  <1>14. CASE Return(p)
    BY <1>14 DEF Return, PhaseOK, Dialling
  <1> QED
    BY <1>4, <1>5, <1>6, <1>8, <1>9, <1>10, <1>11, <1>12, <1>13, <1>14
    DEF Servant, Connect, Transfer

LEMMA ServeServed ==
    ASSUME Known, NumbersApart, AwaitedServed, NEW p \in Peer, Serve(p)
    PROVE  AwaitedServed'
  <1> SUFFICES ASSUME alive', NEW f \in Fd, Awaited(f)'
               PROVE  (Pushed(f) \/ Offered(owner[f], f) \/ Received(owner[f], f))'
    BY DEF AwaitedServed
  <1>1. TypeOK /\ PhaseOK /\ WatchedOpen /\ Servant(p)
        /\ UNCHANGED <<queue, idx, cmd, alive>>
    BY ServantFrame DEF Known, Descs, Serve, dispatchVars
  <1>2. Awaited(f) /\ owner'[f] = owner[f]
    BY <1>1, ServantAwaits
  <1>3. fd[owner[f]] = f /\ pc[owner[f]] # "mark" /\ owner[f] \in Peer
    BY <1>2, Holder DEF Awaited
  <1>4. CASE Pushed(f) \/ Offered(owner[f], f)
    BY <1>1, <1>2, <1>4 DEF Pushed, Offered
  <1>5. CASE Received(owner[f], f)
    <2>1. CASE owner[f] = p
      <3>1. Received(p, f)'
        BY <1>1, <1>3, <1>5, <2>1, ServantReads
      <3> QED
        BY <1>2, <2>1, <3>1 DEF Received, ReadQueued
    <2>2. CASE owner[f] # p
      BY <1>1, <1>2, <1>3, <1>5, <2>2, ServantFrame DEF Received, ReadQueued
    <2> QED
      BY <2>1, <2>2
  <1> QED
    BY <1>1, <1>2, <1>4, <1>5 DEF AwaitedServed

\* stdIN changes no descriptor, so whoever was to be served still is.
LEMMA StdInFrame ==
    ASSUME Known, NumbersApart, AwaitedServed, alive, StdIn, NEW f \in Fd, Awaited(f)'
    PROVE  /\ owner'[f] = owner[f] /\ owner[f] \in Peer /\ owner[f] <= n
           /\ UNCHANGED <<fd, pc>> /\ fd[owner[f]] = f /\ f # CLOSED
           /\ \A p \in Peer \ {owner[f]} : fd[p] # f
           /\ Pushed(f) \/ Offered(owner[f], f) \/ Received(owner[f], f)
  <1>1. UNCHANGED kernelVars /\ UNCHANGED <<fd, pc>>
    BY DEF StdIn, Interpretation, Offer, CreatePeer, Taken, Refused, Accept, peerVars
  <1>2. Awaited(f) /\ owner'[f] = owner[f]
    BY <1>1 DEF Awaited, kernelVars
  <1>3. owner[f] \in Peer /\ owner[f] <= n /\ fd[owner[f]] = f /\ f # CLOSED
    BY <1>2, Holder DEF Awaited, CLOSED
  <1>4. \A p \in Peer \ {owner[f]} : fd[p] # f
    BY <1>3 DEF NumbersApart
  <1> QED
    BY <1>1, <1>2, <1>3, <1>4 DEF AwaitedServed

\* The line "-f f -r" becomes a request that is offered to the first peer.
LEMMA InterpretationServed ==
    ASSUME Known, NumbersApart, AwaitedServed, alive, Interpretation
    PROVE  AwaitedServed'
  <1> SUFFICES ASSUME NEW f \in Fd, Awaited(f)'
               PROVE  (Pushed(f) \/ Offered(owner[f], f) \/ Received(owner[f], f))'
    BY DEF AwaitedServed
  <1>1. /\ owner'[f] = owner[f] /\ owner[f] \in Peer
        /\ Pushed(f) \/ Offered(owner[f], f) \/ Received(owner[f], f)
    BY StdInFrame DEF StdIn
  <1>2. queue \in Seq(Line) /\ queue # <<>> /\ queue' = Tail(queue) /\ idx = 0
    BY DEF Interpretation, Known, TypeOK
  <1>3. CASE Received(owner[f], f)
    BY <1>1, <1>3 DEF Received, ReadQueued, Interpretation, peerVars
  <1>4. CASE Pushed(f) /\ Head(queue) = ReadLine[f]
    <2>1. Interpret[ReadLine[f]].kind = "request"
      BY ReadRequest
    <2>2. idx' = 1 /\ cmd' = Interpret[ReadLine[f]]
      BY <1>4, <2>1 DEF Interpretation
    <2>3. 1 \in 1..owner[f]
      BY <1>1 DEF Peer
    <2> QED
      BY <1>1, <2>2, <2>3 DEF Offered
  <1>5. CASE Pushed(f) /\ Head(queue) # ReadLine[f]
    <2>1. PICK k \in DOMAIN queue : queue[k] = ReadLine[f]
      BY <1>5 DEF Pushed
    <2>2. k # 1
      BY <1>2, <1>5, <2>1
    <2>3. k - 1 \in DOMAIN Tail(queue) /\ Tail(queue)[k - 1] = ReadLine[f]
      BY <1>2, <2>1, <2>2
    <2> QED
      BY <1>2, <2>3 DEF Pushed
  <1>6. ~Offered(owner[f], f)
    BY <1>2 DEF Offered
  <1> QED
    BY <1>1, <1>3, <1>4, <1>5, <1>6

\* No peer before the owner takes the request to read from f, and the owner
\* does not refuse it.
LEMMA OfferServed ==
    ASSUME Known, NumbersApart, AwaitedServed, alive, Offer
    PROVE  AwaitedServed'
  <1> SUFFICES ASSUME NEW f \in Fd, Awaited(f)'
               PROVE  (Pushed(f) \/ Offered(owner[f], f) \/ Received(owner[f], f))'
    BY DEF AwaitedServed
  <1>1. /\ owner'[f] = owner[f] /\ owner[f] \in Peer
        /\ UNCHANGED <<fd, pc>> /\ fd[owner[f]] = f /\ f # CLOSED
        /\ \A p \in Peer \ {owner[f]} : fd[p] # f
        /\ Pushed(f) \/ Offered(owner[f], f) \/ Received(owner[f], f)
    BY StdInFrame DEF StdIn
  <1>2. idx \in Peer /\ que \in [Peer -> Seq(Req)] /\ queue' = queue /\ cmd \in Outcome
    BY DEF Offer, Known, TypeOK, IOTypeOK, Peer
  <1>3. CASE Pushed(f)
    BY <1>2, <1>3 DEF Pushed
  <1>4. ASSUME ReadQueued(owner[f]) PROVE ReadQueued(owner[f])'
    <2>1. PICK k \in DOMAIN que[owner[f]] : que[owner[f]][k] = "READ"
      BY <1>4 DEF ReadQueued
    <2>2. CASE que'[owner[f]] = que[owner[f]]
      BY <1>1, <1>4, <2>2 DEF ReadQueued
    <2>3. CASE que'[owner[f]] = Append(que[owner[f]], cmd.req)
      <3>1. cmd.req \in Req
        BY <1>2 DEF Outcome
      <3>2. k \in DOMAIN que'[owner[f]] /\ que'[owner[f]][k] = "READ"
        BY <1>1, <1>2, <2>1, <2>3, <3>1
      <3> QED
        BY <1>1, <3>2 DEF ReadQueued
    <2>4. que'[owner[f]] \in {que[owner[f]], Append(que[owner[f]], cmd.req)}
      BY <1>1, <1>2 DEF Offer, Taken, Refused, Accept, peerVars
    <2> QED
      BY <2>2, <2>3, <2>4
  <1>5. CASE Received(owner[f], f)
    BY <1>1, <1>4, <1>5 DEF Received, ReadQueued
  <1>6. CASE Offered(owner[f], f)
    <2>1. cmd.ip = NoAddr /\ cmd.fd = f /\ cmd.req = "READ" /\ idx <= owner[f]
      BY <1>1, <1>2, <1>6, ReadRequest DEF Offered, Peer
    <2>2. cmd.ip \notin Addr
      BY <2>1
    <2>3. Matches(idx, cmd) <=> idx = owner[f]
      BY <1>1, <1>2, <2>1, <2>2 DEF Matches
    <2>4. CASE idx = owner[f]
      <3>1. Accept(idx, cmd)
        BY <2>3, <2>4 DEF Offer, Taken, Refused
      <3>2. que'[idx] = Append(que[idx], "READ") /\ que[idx] \in Seq(Req)
        BY <1>2, <2>1, <3>1 DEF Accept
      <3>3. Len(que[idx]) + 1 \in DOMAIN que'[idx] /\ que'[idx][Len(que[idx]) + 1] = "READ"
        BY <3>2 DEF Req
      <3> QED
        BY <1>1, <2>4, <3>3 DEF Received, ReadQueued
    <2>5. CASE idx # owner[f]
      <3>1. idx' = idx + 1 /\ cmd' = cmd
        BY <2>3, <2>5 DEF Offer, Taken, Refused
      <3> QED
        BY <1>1, <1>2, <1>6, <2>1, <2>5, <3>1 DEF Offered, Peer
    <2> QED
      BY <2>4, <2>5
  <1> QED
    BY <1>1, <1>3, <1>5, <1>6

\* A request that creates a peer has been refused by all: it was none to read
\* from a socket epoll watches.
LEMMA CreatePeerServed ==
    ASSUME Known, NumbersApart, AwaitedServed, alive, CreatePeer
    PROVE  AwaitedServed'
  <1> SUFFICES ASSUME NEW f \in Fd, Awaited(f)'
               PROVE  (Pushed(f) \/ Offered(owner[f], f) \/ Received(owner[f], f))'
    BY DEF AwaitedServed
  <1>1. /\ owner'[f] = owner[f] /\ owner[f] \in Peer /\ owner[f] <= n
        /\ UNCHANGED <<fd, pc>>
        /\ Pushed(f) \/ Offered(owner[f], f) \/ Received(owner[f], f)
    BY StdInFrame DEF StdIn
  <1>2. UNCHANGED <<queue, que>> /\ idx = n + 1 /\ n \in Peer
    BY DEF CreatePeer, Known, TypeOK
  <1>3. ~Offered(owner[f], f)
    BY <1>1, <1>2 DEF Offered, Peer
  <1> QED
    BY <1>1, <1>2, <1>3 DEF Pushed, Received, ReadQueued

\* The waiter pushes the line when it takes the edge away; bytes that arrive on
\* a watched socket raise a new edge.
LEMMA EventServed ==
    ASSUME Known, NumbersApart, AwaitedServed, alive,
           Timer \/ Report \/ NewMsgQueue \/ Remote \/ UNCHANGED vars
    PROVE  AwaitedServed'
  <1> SUFFICES ASSUME alive', NEW f \in Fd, Awaited(f)'
               PROVE  (Pushed(f) \/ Offered(owner[f], f) \/ Received(owner[f], f))'
    BY DEF AwaitedServed
  <1>1. UNCHANGED <<fd, pc, que, idx, cmd, owner, watched>>
    BY DEF Timer, Report, Waiter, NewMsgQueue, Remote, Network, Deliver, RemoteEnds,
           vars, kernelVars, peerVars, dispatchVars
  <1>2. queue \in Seq(Line) /\ KernelTypeOK
    BY DEF Known, TypeOK
  <1>3. ASSUME NEW l \in Line, queue' = Append(queue, l)
        PROVE  /\ Pushed(f) => Pushed(f)'
               /\ l = ReadLine[f] => Pushed(f)'
    <2>1. \A k \in DOMAIN queue : k \in DOMAIN queue' /\ queue'[k] = queue[k]
      BY <1>2, <1>3
    <2>2. Len(queue) + 1 \in DOMAIN queue' /\ queue'[Len(queue) + 1] = l
      BY <1>2, <1>3
    <2> QED
      BY <2>1, <2>2 DEF Pushed
  <1>4. ASSUME Pushed(f) => Pushed(f)', Awaited(f)
        PROVE  (Pushed(f) \/ Offered(owner[f], f) \/ Received(owner[f], f))'
    BY <1>1, <1>4 DEF AwaitedServed, Offered, Received, ReadQueued
  <1>5. CASE Report
    <2>1. PICK g \in Fd : Waiter(g)
      BY <1>5 DEF Report
    <2>2. EventLine(g) \in Line /\ UNCHANGED data
      BY <2>1 DEF EventLine, Waiter
    <2>3. Pushed(f) => Pushed(f)'
      BY <1>3, <2>1, <2>2 DEF Waiter, Pushed
    <2>4. CASE f = g
      <3>1. Readable(f) /\ Ready(f)
        BY <2>2 DEF Awaited, Readable, Ready
      <3>2. queue' = Append(queue, ReadLine[f])
        BY <2>1, <2>4, <3>1 DEF Waiter, EventLine
      <3> QED
        BY <1>3, <3>2
    <2>5. CASE f # g
      <3>1. Awaited(f)
        BY <1>2, <2>1, <2>5 DEF Awaited, Waiter, KernelTypeOK
      <3> QED
        BY <1>4, <2>3, <3>1
    <2> QED
      BY <2>4, <2>5
  <1>6. CASE Remote
    <2>1. PICK g \in Fd : Network(g)
      BY <1>6 DEF Remote
    <2>2. Awaited(f)
      BY <1>1, <1>2, <2>1 DEF Network, Deliver, RemoteEnds, Awaited, KernelTypeOK
    <2> QED
      BY <1>4, <1>6, <2>2 DEF Remote, Pushed
  <1>7. CASE NewMsgQueue
    <2>1. PICK l \in Line : queue' = Append(queue, l)
      BY <1>7 DEF NewMsgQueue
    <2>2. Awaited(f)
      BY <1>7 DEF NewMsgQueue, kernelVars, Awaited
    <2> QED
      BY <1>3, <1>4, <2>1, <2>2
  <1>8. CASE Timer
    BY <1>8 DEF Timer
  <1>9. CASE UNCHANGED vars
    BY <1>4, <1>9 DEF vars, kernelVars, Awaited, Pushed
  <1> QED
    BY <1>5, <1>6, <1>7, <1>8, <1>9

LEMMA NextServed ==
    ASSUME Known, NumbersApart, AwaitedServed, [Next]_vars
    PROVE  AwaitedServed'
  <1>1. CASE alive /\ Next
    BY <1>1, ServeServed, InterpretationServed, OfferServed, CreatePeerServed, EventServed
    DEF Next, StdIn
  <1>2. CASE UNCHANGED vars
    <2>1. CASE alive
      BY <1>2, <2>1, EventServed
    <2>2. CASE ~alive
      BY <1>2, <2>2 DEF AwaitedServed, vars, dispatchVars
    <2> QED
      BY <2>1, <2>2
  <1> QED
    BY <1>1, <1>2 DEF Next

(***************************************************************************)
(* As long as a number stands for one peer, bytes whose edge was reported  *)
(* have a request to read them on its way, or are being read; for any      *)
(* number of masters and connections.                                      *)
(***************************************************************************)
THEOREM ServedWhenApart == Spec /\ []NumbersApart => []NoStalledData
  <1>1. Init => AwaitedServed
    BY DEF Init, KernelInit, AwaitedServed, Awaited
  <1>2. Known /\ NumbersApart /\ AwaitedServed /\ [Next]_vars => AwaitedServed'
    BY NextServed
  <1>3. TypeOK /\ Addressed /\ Descs /\ WatchedOpen => Known
    BY DEF Known
  <1>4. AwaitedServed => NoStalledData
    BY DEF AwaitedServed, NoStalledData, Awaited, ReadUnderWay,
           Pushed, Offered, Received, ReadQueued
  <1> QED
    BY <1>1, <1>2, <1>3, <1>4, AddressedAlways, DescsAlways, WatchedIsOpen, PTL DEF Spec

-----------------------------------------------------------------------------
(* What keeps the numbers apart. *)

\* The window between closeFd(_fd) and _fd = CLOSED (IO.cpp:397-398) is never
\* hit: while a peer still has the number it closed, nobody opens it.
ClosedUnused == \A p \in Peer : pc[p] = "mark" => owner[fd[p]] = Free

\* Two peers in that window have different numbers.
MarksApart ==
    \A p, q \in Peer : p # q /\ pc[p] = "mark" /\ pc[q] = "mark" => fd[p] # fd[q]

\* A peer enters the window by closing its descriptor, one at a time.
LEMMA NextMark ==
    ASSUME TypeOK, [Next]_vars
    PROVE  \/ \A q \in Peer : pc'[q] = "mark" => pc[q] = "mark" /\ fd'[q] = fd[q]
           \/ \E p \in Peer :
                /\ pc[p] = "close" /\ fd' = fd
                /\ \A q \in Peer \ {p} : pc'[q] = pc[q]
  <1> IOTypeOK
    BY DEF TypeOK
  <1>1. ASSUME UNCHANGED <<fd, pc>>
        PROVE  \A q \in Peer : pc'[q] = "mark" => pc[q] = "mark" /\ fd'[q] = fd[q]
    BY <1>1
  <1>2. ASSUME NEW p \in Peer, NEW l \in PC \ {"mark"}, Goto(p, l),
               \A q \in Peer \ {p} : fd'[q] = fd[q]
        PROVE  \A q \in Peer : pc'[q] = "mark" => pc[q] = "mark" /\ fd'[q] = fd[q]
    BY <1>2 DEF Goto, IOTypeOK
  <1>3. ASSUME NEW p \in Peer, Servant(p)
        PROVE  \/ \A q \in Peer : pc'[q] = "mark" => pc[q] = "mark" /\ fd'[q] = fd[q]
               \/ pc[p] = "close" /\ fd' = fd /\ \A q \in Peer \ {p} : pc'[q] = pc[q]
    <2> USE DEF PC, Dialling
    <2>1. CASE Drop(p) \/ ReadData(p)
      BY <1>1, <2>1 DEF Drop, Pop, ReadData, peerVars
    <2>2. CASE TakeConnect(p) \/ TakeTransfer(p)
      BY <1>2, <2>2 DEF TakeConnect, TakeTransfer, Pop
    <2>3. CASE Resolve(p) \/ Notify(p) \/ Pause(p)
      BY <1>2, <2>3 DEF Resolve, Notify, Pause
    <2>4. CASE NextCandidate(p)
      BY <1>1, <1>2, <2>4 DEF NextCandidate
    <2>5. CASE SetUp(p)
      BY <1>2, <2>5 DEF SetUp, GiveUpKeepingNumber
    <2>6. CASE Dial(p)
      BY <1>2, <2>6 DEF Dial, GiveUpKeepingNumber, Succeed
    <2>7. CASE Await(p)
      BY <1>2, <2>7 DEF Await, GiveUpKeepingNumber, GiveUp, Succeed
    <2>8. CASE Return(p) \/ MarkClosed(p)
      BY <1>2, <2>8 DEF Return, MarkClosed, IOTypeOK
    <2>9. CASE ReadNothing(p) \/ Erase(p) \/ ReadError(p) \/ Write(p)
      BY <1>2, <2>9 DEF ReadNothing, Erase, ReadError, Write
    <2>10. CASE Close(p)
      BY <2>10 DEF Close, Goto, IOTypeOK
    <2> QED
      BY <1>3, <2>1, <2>2, <2>3, <2>4, <2>5, <2>6, <2>7, <2>8, <2>9, <2>10
      DEF Servant, Connect, Transfer
  <1>4. CASE StdIn \/ Timer \/ Report \/ NewMsgQueue \/ Remote \/ UNCHANGED vars
    <2>1. UNCHANGED <<fd, pc>>
      BY <1>4 DEF StdIn, Interpretation, Offer, Taken, Refused, Accept, CreatePeer, Timer,
                  Report, NewMsgQueue, Remote, vars, peerVars
    <2> QED
      BY <1>1, <2>1
  <1> QED
    BY <1>3, <1>4 DEF Next, Serve

\* The number a peer closes is its own, and so not that of a peer in the window.
LEMMA NextMarksApart ==
    ASSUME TypeOK, PhaseOK, DescriptorOwned, ClosedUnused, MarksApart, [Next]_vars
    PROVE  MarksApart'
  <1> SUFFICES ASSUME NEW p \in Peer, NEW q \in Peer, p # q, pc'[p] = "mark", pc'[q] = "mark"
               PROVE  fd'[p] # fd'[q]
    BY DEF MarksApart
  <1>1. CASE \A r \in Peer : pc'[r] = "mark" => pc[r] = "mark" /\ fd'[r] = fd[r]
    BY <1>1 DEF MarksApart
  <1>2. ASSUME NEW r \in Peer, pc[r] = "close", fd' = fd, \A s \in Peer \ {r} : pc'[s] = pc[s]
        PROVE  fd'[p] # fd'[q]
    <2>1. owner[fd[r]] = r /\ r # Free
      BY <1>2 DEF PhaseOK, DescriptorOwned, Peer, Free
    <2>2. ASSUME NEW s \in Peer, pc[s] = "mark" PROVE fd[s] # fd[r]
      BY <2>1, <2>2 DEF ClosedUnused
    <2> QED
      BY <1>2, <2>2 DEF MarksApart
  <1> QED
    BY <1>1, <1>2, NextMark

LEMMA OwnedApart ==
    ASSUME TypeOK, DescriptorOwned, ClosedUnused, MarksApart
    PROVE  NumbersApart
  <1> SUFFICES ASSUME NEW p \in Peer, fd[p] # CLOSED
               PROVE  /\ owner[fd[p]] \in {p, Free}
                      /\ \A q \in Peer \ {p} : fd[q] # fd[p]
    BY DEF NumbersApart
  <1>1. \A q \in Peer : q # Free
    BY DEF Peer, Free
  <1>2. fd[p] \in Fd
    BY DEF TypeOK, IOTypeOK
  <1> QED
    BY <1>1, <1>2 DEF DescriptorOwned, ClosedUnused, MarksApart

(***************************************************************************)
(* The two races are the only ones: as long as connectTCP returns a socket *)
(* of its own (IO.cpp:277) and no number is reused in the window of        *)
(* IO.cpp:397-398, bytes whose edge was reported have a request to read    *)
(* them on its way, or are being read.  For any number of masters, peers   *)
(* and connections.                                                        *)
(***************************************************************************)
THEOREM ServedWhenOwned == Spec /\ []DescriptorOwned /\ []ClosedUnused => []NoStalledData
  <1>1. Init => MarksApart
    BY DEF Init, IOInit, MarksApart
  <1>2. TypeOK /\ PhaseOK /\ DescriptorOwned /\ ClosedUnused /\ MarksApart /\ [Next]_vars
        => MarksApart'
    BY NextMarksApart
  <1>3. TypeOK /\ DescriptorOwned /\ ClosedUnused /\ MarksApart => NumbersApart
    BY OwnedApart
  <1>4. Descs => PhaseOK
    BY DEF Descs
  <1> QED
    BY <1>1, <1>2, <1>3, <1>4, TypeCorrect, DescsAlways, ServedWhenApart, PTL DEF Spec

-----------------------------------------------------------------------------
(* Lines that name one master keep the numbers apart. *)

Sent == UserLine \cup {ReadLine[f] : f \in Fd} \cup {CloseLine[f] : f \in Fd}

\* A master is an address that a line of a later instance names.
Named(a) == \E l \in UserLine : Interpret[l].ip = a

MastersNamed ==
    /\ queue \in Seq(Sent)
    /\ cmd.ip \in Addr => Named(cmd.ip)
    /\ \A p \in Peer : addr[p] \in Addr => Named(addr[p])

LEMMA SentNamed ==
    ASSUME NEW l \in Sent, Interpret[l].ip \in Addr
    PROVE  Named(Interpret[l].ip)
  <1>1. ASSUME NEW f \in Fd, l = ReadLine[f] \/ l = CloseLine[f] PROVE FALSE
    <2>1. Interpret[l].ip = NoAddr
      BY <1>1, ReadRequest, CloseRequest
    <2> QED
      BY <2>1
  <1> QED
    BY <1>1 DEF Sent, Named

LEMMA NextNamed ==
    ASSUME TypeOK, Addressed, MastersNamed, [Next]_vars
    PROVE  MastersNamed'
  <1>1. NoCmd.ip \notin Addr
    BY DEF NoCmd
  <1>2. ASSUME NEW l \in Sent, queue' = Append(queue, l) PROVE queue' \in Seq(Sent)
    BY <1>2 DEF MastersNamed
  <1>3. CASE Interpretation
    <2>1. Head(queue) \in Sent /\ queue' \in Seq(Sent)
      BY <1>3 DEF Interpretation, MastersNamed
    <2>2. cmd' \in {Interpret[Head(queue)], NoCmd} /\ addr' = addr
      BY <1>3 DEF Interpretation, peerVars
    <2>3. cmd'.ip \in Addr => Named(cmd'.ip)
      BY <1>1, <2>1, <2>2, SentNamed
    <2> QED
      BY <2>1, <2>2, <2>3 DEF MastersNamed, Named
  <1>4. CASE Offer
    <2>1. idx \in Peer /\ idx <= n /\ queue' = queue
      BY <1>4 DEF Offer, TypeOK, Peer
    <2>2. CASE Taken(idx)
      <3>1. cmd' = NoCmd /\ Matches(idx, cmd) /\ Accept(idx, cmd)
        BY <2>2 DEF Taken
      <3>2. \A p \in Peer : addr'[p] \in Addr => addr'[p] = addr[p] \/ (addr'[p] = cmd.ip)
        BY <2>1, <3>1, AcceptTyped
      <3>3. \A p \in Peer : addr'[p] \in Addr => Named(addr'[p])
        BY <3>2 DEF MastersNamed
      <3> QED
        BY <1>1, <2>1, <3>1, <3>3 DEF MastersNamed, Named
    <2>3. CASE Refused(idx)
      BY <2>1, <2>3 DEF Refused, peerVars, MastersNamed, Named
    <2> QED
      BY <1>4, <2>2, <2>3 DEF Offer
  <1>5. CASE CreatePeer
    <2>1. \A p \in Peer : addr'[p] \in {addr[p], Blank, Garbage}
      BY <1>5 DEF CreatePeer, TypeOK, IOTypeOK
    <2>2. queue' = queue /\ cmd' = NoCmd
      BY <1>5 DEF CreatePeer
    <2> QED
      BY <1>1, <2>1, <2>2 DEF MastersNamed, Named
  <1>6. CASE \E p \in Peer : Serve(p)
    <2>1. UNCHANGED <<addr, queue, cmd>>
      BY <1>6, ServantFrame DEF Serve, dispatchVars
    <2> QED
      BY <2>1 DEF MastersNamed, Named
  <1>7. CASE Report
    <2>1. PICK f \in Fd : Waiter(f)
      BY <1>7 DEF Report
    <2>2. EventLine(f) \in Sent
      BY DEF EventLine, Sent
    <2>3. queue' \in Seq(Sent) /\ UNCHANGED <<addr, cmd>>
      BY <1>2, <1>7, <2>1, <2>2 DEF Waiter, Report, peerVars, dispatchVars, MastersNamed
    <2> QED
      BY <2>3 DEF MastersNamed, Named
  <1>8. CASE NewMsgQueue
    <2>1. queue' \in Seq(Sent) /\ UNCHANGED <<addr, cmd>>
      BY <1>2, <1>8 DEF NewMsgQueue, Sent, peerVars
    <2> QED
      BY <2>1 DEF MastersNamed, Named
  <1>9. CASE Timer \/ Remote \/ UNCHANGED vars
    <2>1. UNCHANGED <<addr, queue, cmd>>
      BY <1>9 DEF Timer, Remote, vars, peerVars, dispatchVars
    <2> QED
      BY <2>1 DEF MastersNamed, Named
  <1> QED
    BY <1>3, <1>4, <1>5, <1>6, <1>7, <1>8, <1>9 DEF Next, StdIn

(***************************************************************************)
(* No peer takes a master that no line has named.                          *)
(***************************************************************************)
THEOREM OnlyNamedMasters == Spec => []MastersNamed
  <1>1. Init => MastersNamed
    <2> SUFFICES ASSUME Init PROVE MastersNamed
      OBVIOUS
    <2>1. queue \in Seq(Sent)
      BY DEF Init
    <2>2. cmd.ip \notin Addr /\ \A p \in Peer : addr[p] \notin Addr
      BY DEF Init, IOInit, NoCmd
    <2> QED
      BY <2>1, <2>2 DEF MastersNamed
  <1>2. TypeOK /\ Addressed /\ MastersNamed /\ [Next]_vars => MastersNamed'
    BY NextNamed
  <1> QED
    BY <1>1, <1>2, AddressedAlways, PTL DEF Spec

\* The lines of later instances name one master, whatever else they ask for.
OneMaster ==
    \A k, l \in UserLine :
        Interpret[k].ip \in Addr /\ Interpret[l].ip \in Addr => Interpret[k].ip = Interpret[l].ip

LEMMA OnePeerApart ==
    ASSUME OneMaster, TypeOK, Addressed, Masters, Descs, MastersNamed
    PROVE  NumbersApart
  <1> DEFINE Busy(p) == fd[p] # CLOSED \/ pc[p] # "wait"
  <1>1. ASSUME NEW p \in Peer, NEW q \in Peer, Busy(p), Busy(q) PROVE p = q
    <2>1. addr[p] \in Addr /\ p \in 1..n /\ addr[q] \in Addr /\ q \in 1..n
      BY <1>1 DEF Addressed, TypeOK, Peer
    <2>2. addr[p] = addr[q]
      BY <2>1 DEF MastersNamed, Named, OneMaster
    <2> QED
      BY <2>1, <2>2 DEF Masters, AddressUnique
  <1> SUFFICES ASSUME NEW p \in Peer, fd[p] # CLOSED
               PROVE  /\ owner[fd[p]] \in {p, Free}
                      /\ \A q \in Peer \ {p} : fd[q] # fd[p]
    BY DEF NumbersApart
  <1>2. fd[p] \in Fd
    BY DEF TypeOK, IOTypeOK
  <1>3. ASSUME owner[fd[p]] # Free PROVE owner[fd[p]] = p
    <2>1. Holds(owner[fd[p]], fd[p]) /\ owner[fd[p]] \in Peer
      BY <1>2, <1>3 DEF Descs, NoSocketLeak, IsOpen, TypeOK, KernelTypeOK
    <2>2. Busy(owner[fd[p]])
      BY <1>2, <2>1 DEF Holds, CLOSED
    <2> QED
      BY <1>1, <2>1, <2>2
  <1> QED
    BY <1>1, <1>3

(***************************************************************************)
(* With one master, a number stands for one peer: the sockets that are     *)
(* open and the descriptors in use are those of the only peer that has it. *)
(***************************************************************************)
LEMMA OneMasterApart == ASSUME OneMaster PROVE Spec => []NumbersApart
  <1>1. TypeOK /\ Addressed /\ Masters /\ Descs /\ MastersNamed => NumbersApart
    BY OnePeerApart
  <1> QED
    BY <1>1, AddressedAlways, MastersAlways, DescsAlways, OnlyNamedMasters, PTL

(***************************************************************************)
(* With one master, no bytes are stalled.                                  *)
(***************************************************************************)
THEOREM OneMasterServed == ASSUME OneMaster PROVE Spec => []NoStalledData
  BY OneMasterApart, ServedWhenApart, PTL

=============================================================================
