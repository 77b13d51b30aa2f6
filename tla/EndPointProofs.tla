---------------------------- MODULE EndPointProofs ----------------------------
(***************************************************************************)
(* Proofs about EndPoint, for any number of peers, descriptors, addresses, *)
(* lines and steps.  Inv is proved in three layers, each relative to the   *)
(* ones before it: types together with Addressed (a peer takes the address *)
(* of a request only while it is blank, and a blank peer is idle); the     *)
(* masters; the descriptors.                                               *)
(***************************************************************************)
EXTENDS EndPoint, TLAPS

USE NPeerAssumption, FdAssumption, LineAssumption, AddrAssumption,
    CandidateAssumption, InterpretAssumption

-----------------------------------------------------------------------------
(* Types. *)

LEMMA InitTyped == Init => TypeOK /\ Addressed
  <1> SUFFICES ASSUME Init PROVE TypeOK /\ Addressed
    OBVIOUS
  <1>1. KernelTypeOK
    BY DEF Init, KernelInit, KernelTypeOK, Free, Link
  <1>2. IOTypeOK
    BY DEF Init, IOInit, IOTypeOK, PC, Peer, CLOSED
  <1>3. queue \in Seq(Line) /\ n \in Peer /\ idx \in 0..(n + 1) /\ alive \in BOOLEAN
        /\ users \in 0..MaxUser /\ network \in 0..MaxNetwork
    BY DEF Init, Peer
  <1>4. cmd \in Outcome
    BY DEF Init, NoCmd, Outcome, Req, CLOSED
  <1>5. Addressed
    BY DEF Init, IOInit, Addressed, Peer
  <1> QED
    BY <1>1, <1>2, <1>3, <1>4, <1>5 DEF TypeOK

\* The calls that change the kernel keep its types.
LEMMA KernelTyped ==
    ASSUME KernelTypeOK, NEW f, NEW p \in Peer
    PROVE  /\ CloseFd(f) => KernelTypeOK'
           /\ OpenSocket(f, p) => KernelTypeOK'
           /\ AddNew(f) => KernelTypeOK'
           /\ Waiter(f) => KernelTypeOK'
           /\ Network(f) => KernelTypeOK'
           /\ UNCHANGED kernelVars => KernelTypeOK'
  <1>1. ASSUME CloseFd(f) PROVE KernelTypeOK'
    <2>1. owner' \in [Fd -> Peer \cup {Free}]
      BY <1>1 DEF CloseFd, KernelTypeOK
    <2>2. link' \in [Fd -> Link]
      BY <1>1 DEF CloseFd, KernelTypeOK, Link
    <2>3. data' \in [Fd -> BOOLEAN]
      BY <1>1 DEF CloseFd, KernelTypeOK
    <2>4. watched' \in [Fd -> BOOLEAN]
      BY <1>1 DEF CloseFd, KernelTypeOK
    <2>5. armed' \in [Fd -> BOOLEAN]
      BY <1>1 DEF CloseFd, KernelTypeOK
    <2> QED
      BY <2>1, <2>2, <2>3, <2>4, <2>5 DEF KernelTypeOK
  <1>2. OpenSocket(f, p) => KernelTypeOK'
    BY DEF OpenSocket, KernelTypeOK
  <1>3. AddNew(f) => KernelTypeOK'
    BY DEF AddNew, KernelTypeOK
  <1>4. Waiter(f) => KernelTypeOK'
    BY DEF Waiter, KernelTypeOK
  <1>5. Network(f) => KernelTypeOK'
    BY DEF Network, Deliver, RemoteEnds, KernelTypeOK, Link
  <1>6. UNCHANGED kernelVars => KernelTypeOK'
    BY DEF kernelVars, KernelTypeOK
  <1> QED
    BY <1>1, <1>2, <1>3, <1>4, <1>5, <1>6

\* A step of the servant of p, seen from outside: it leaves the masters alone
\* and touches only p's own variables; an idle servant does not move.
LEMMA ServantFrame ==
    ASSUME TypeOK, NEW p \in Peer, Servant(p)
    PROVE  /\ UNCHANGED <<addr, loc, queue>>
           /\ pc[p] # "wait" \/ que[p] # <<>>
           /\ \A q \in Peer \ {p} :
                /\ fd'[q] = fd[q] /\ que'[q] = que[q] /\ pc'[q] = pc[q]
                /\ sock'[q] = sock[q] /\ todo'[q] = todo[q] /\ eof'[q] = eof[q]
  <1> USE DEF Goto, TypeOK, IOTypeOK
  <1>1. CASE Drop(p)
    BY <1>1 DEF Drop, Pop
  <1>2. CASE TakeConnect(p)
    BY <1>2 DEF TakeConnect, Pop
  <1>3. CASE TakeTransfer(p)
    BY <1>3 DEF TakeTransfer, Pop
  <1>4. CASE Resolve(p)
    BY <1>4 DEF Resolve
  <1>5. CASE NextCandidate(p)
    BY <1>5 DEF NextCandidate
  <1>6. CASE SetUp(p)
    BY <1>6 DEF SetUp, GiveUpKeepingNumber
  <1>7. CASE Dial(p)
    BY <1>7 DEF Dial, GiveUpKeepingNumber, Succeed
  <1>8. CASE Await(p)
    BY <1>8 DEF Await, GiveUpKeepingNumber, GiveUp, Succeed
  <1>9. CASE Return(p)
    BY <1>9 DEF Return
  <1>10. CASE Notify(p)
    BY <1>10 DEF Notify
  <1>11. CASE Pause(p)
    BY <1>11 DEF Pause
  <1>12. CASE ReadData(p)
    BY <1>12 DEF ReadData, peerVars
  <1>13. CASE ReadNothing(p)
    BY <1>13 DEF ReadNothing
  <1>14. CASE Erase(p)
    BY <1>14 DEF Erase
  <1>15. CASE ReadError(p)
    BY <1>15 DEF ReadError
  <1>16. CASE Write(p)
    BY <1>16 DEF Write
  <1>17. CASE Close(p)
    BY <1>17 DEF Close
  <1>18. CASE MarkClosed(p)
    BY <1>18 DEF MarkClosed
  <1> QED
    BY <1>1, <1>2, <1>3, <1>4, <1>5, <1>6, <1>7, <1>8, <1>9, <1>10, <1>11, <1>12,
       <1>13, <1>14, <1>15, <1>16, <1>17, <1>18 DEF Servant, Connect, Transfer

\* The pieces connectTCP is made of, and the servant's pop.
LEMMA PieceTyped ==
    ASSUME KernelTypeOK, IOTypeOK, NEW p \in Peer
    PROVE  /\ GiveUpKeepingNumber(p) \/ GiveUp(p) =>
                KernelTypeOK' /\ pc' \in [Peer -> PC]
                /\ todo' \in [Peer -> 0..MaxCandidate] /\ sock' \in [Peer -> Fd \cup {CLOSED}]
           /\ Succeed(p) =>
                pc' \in [Peer -> PC]
                /\ todo' \in [Peer -> 0..MaxCandidate] /\ sock' \in [Peer -> Fd \cup {CLOSED}]
           /\ Pop(p) => que' \in [Peer -> Seq(Req)]
           /\ que' = [que EXCEPT ![p] = <<>>] => que' \in [Peer -> Seq(Req)]
  <1>1. GiveUpKeepingNumber(p) =>
            pc' \in [Peer -> PC] /\ todo' \in [Peer -> 0..MaxCandidate]
            /\ sock' \in [Peer -> Fd \cup {CLOSED}] /\ CloseFd(sock[p])
    BY DEF GiveUpKeepingNumber, IOTypeOK, Goto, PC, Dialling
  <1>2. GiveUp(p) =>
            pc' \in [Peer -> PC] /\ todo' \in [Peer -> 0..MaxCandidate]
            /\ sock' \in [Peer -> Fd \cup {CLOSED}] /\ CloseFd(sock[p])
    BY DEF GiveUp, IOTypeOK, Goto, PC, Dialling
  <1>3. Succeed(p) =>
            pc' \in [Peer -> PC] /\ todo' \in [Peer -> 0..MaxCandidate]
            /\ sock' \in [Peer -> Fd \cup {CLOSED}]
    BY DEF Succeed, IOTypeOK, Goto, PC, Dialling
  <1>4. ASSUME Pop(p) PROVE que' \in [Peer -> Seq(Req)]
    <2>1. que[p] \in Seq(Req) /\ que[p] # <<>> /\ que' = [que EXCEPT ![p] = Tail(que[p])]
      BY <1>4 DEF Pop, IOTypeOK
    <2>2. Tail(que[p]) \in Seq(Req)
      BY <2>1
    <2> QED
      BY <2>1, <2>2 DEF IOTypeOK
  <1>5. que' = [que EXCEPT ![p] = <<>>] => que' \in [Peer -> Seq(Req)]
    <2>1. <<>> \in Seq(Req)
      OBVIOUS
    <2> QED
      BY <2>1 DEF IOTypeOK
  <1> QED
    BY <1>1, <1>2, <1>3, <1>4, <1>5, KernelTyped

LEMMA ServantTyped ==
    ASSUME TypeOK, NEW p \in Peer, Servant(p)
    PROVE  KernelTypeOK' /\ IOTypeOK'
  <1> KernelTypeOK /\ IOTypeOK
    BY DEF TypeOK
  <1> USE DEF Goto, IOTypeOK, PC, Dialling
  <1>1. CASE Drop(p)
    <2>1. Pop(p) /\ pc' \in [Peer -> PC]
      BY <1>1 DEF Drop
    <2>2. que' \in [Peer -> Seq(Req)]
      BY <2>1, PieceTyped
    <2>3. KernelTypeOK'
      BY <2>1, KernelTyped DEF Pop
    <2> QED
      BY <2>1, <2>2, <2>3 DEF Pop
  <1>2. CASE TakeConnect(p)
    <2>1. Pop(p) /\ pc' \in [Peer -> PC]
      BY <1>2 DEF TakeConnect
    <2>2. que' \in [Peer -> Seq(Req)]
      BY <2>1, PieceTyped
    <2>3. KernelTypeOK'
      BY <2>1, KernelTyped DEF Pop
    <2> QED
      BY <2>1, <2>2, <2>3 DEF Pop
  <1>3. CASE TakeTransfer(p)
    <2>1. Pop(p) /\ pc' \in [Peer -> PC]
      BY <1>3 DEF TakeTransfer
    <2>2. que' \in [Peer -> Seq(Req)]
      BY <2>1, PieceTyped
    <2>3. KernelTypeOK'
      BY <2>1, KernelTyped DEF Pop
    <2> QED
      BY <2>1, <2>2, <2>3 DEF Pop
  <1>4. CASE Resolve(p)
    <2>1. KernelTypeOK'
      BY <1>4, KernelTyped DEF Resolve
    <2>2. todo' \in [Peer -> 0..MaxCandidate]
      BY <1>4 DEF Resolve
    <2>3. sock' \in [Peer -> Fd \cup {CLOSED}]
      BY <1>4 DEF Resolve
    <2>4. pc' \in [Peer -> PC]
      BY <1>4 DEF Resolve
    <2>5. UNCHANGED <<addr, loc, fd, que, eof>>
      BY <1>4 DEF Resolve
    <2>6. IOTypeOK'
      BY <2>2, <2>3, <2>4, <2>5
    <2> QED
      BY <2>1, <2>6
  <1>5. CASE NextCandidate(p)
    <2>1. KernelTypeOK'
      BY <1>5, KernelTyped DEF NextCandidate, LowestFree
    <2>2. todo' \in [Peer -> 0..MaxCandidate]
      <3>1. todo[p] \in 1..MaxCandidate /\ todo' = [todo EXCEPT ![p] = todo[p] - 1]
        BY <1>5 DEF NextCandidate
      <3> QED
        BY <3>1
    <2>3. sock' \in [Peer -> Fd \cup {CLOSED}]
      BY <1>5 DEF NextCandidate, LowestFree
    <2>4. pc' \in [Peer -> PC]
      BY <1>5 DEF NextCandidate
    <2>5. UNCHANGED <<addr, loc, fd, que, eof>>
      BY <1>5 DEF NextCandidate
    <2>6. IOTypeOK'
      BY <2>2, <2>3, <2>4, <2>5
    <2> QED
      BY <2>1, <2>6
  <1>6. CASE SetUp(p)
    <2>1. KernelTypeOK'
      BY <1>6, KernelTyped DEF SetUp, GiveUpKeepingNumber
    <2>2. IOTypeOK'
      BY <1>6 DEF SetUp, GiveUpKeepingNumber
    <2> QED
      BY <2>1, <2>2
  <1>7. CASE Dial(p)
    <2> USE <1>7, PieceTyped DEF Dial
    <2>1. CASE GiveUpKeepingNumber(p)
      BY <2>1
    <2>2. CASE Succeed(p) /\ link' = [link EXCEPT ![sock[p]] = "up"]
      <3>1. KernelTypeOK'
        BY <2>2 DEF Succeed, KernelTypeOK, Link
      <3> QED
        BY <2>2, <3>1
    <2>3. CASE /\ link' = [link EXCEPT ![sock[p]] = "pending"]
               /\ Goto(p, "select")
               /\ UNCHANGED <<todo, sock, owner, data, watched, armed>>
      BY <2>3 DEF KernelTypeOK, Link
    <2> QED
      BY <2>1, <2>2, <2>3
  <1>8. CASE Await(p)
    <2> USE <1>8, PieceTyped DEF Await
    <2>1. CASE GiveUpKeepingNumber(p) \/ GiveUp(p)
      BY <2>1
    <2>2. CASE /\ Succeed(p)
               /\ link' = [link EXCEPT ![sock[p]] = IF @ = "pending" THEN "up" ELSE @]
      <3>1. KernelTypeOK'
        BY <2>2 DEF Succeed, KernelTypeOK, Link
      <3> QED
        BY <2>2, <3>1
    <2> QED
      BY <2>1, <2>2
  <1>9. CASE Return(p)
    BY <1>9, KernelTyped DEF Return
  <1>10. CASE Notify(p)
    <2>1. KernelTypeOK'
      BY <1>10, KernelTyped DEF Notify
    <2>2. IOTypeOK'
      BY <1>10 DEF Notify
    <2> QED
      BY <2>1, <2>2
  <1>11. CASE Pause(p)
    BY <1>11, KernelTyped DEF Pause
  <1>12. CASE ReadData(p)
    BY <1>12 DEF ReadData, peerVars, KernelTypeOK, Link
  <1>13. CASE ReadNothing(p)
    BY <1>13, KernelTyped DEF ReadNothing
  <1>14. CASE Erase(p)
    <2>1. que' \in [Peer -> Seq(Req)]
      BY <1>14, PieceTyped DEF Erase
    <2>2. KernelTypeOK'
      BY <1>14, KernelTyped DEF Erase
    <2> QED
      BY <1>14, <2>1, <2>2 DEF Erase
  <1>15. CASE ReadError(p)
    BY <1>15 DEF ReadError, KernelTypeOK, Link
  <1>16. CASE Write(p)
    BY <1>16 DEF Write, KernelTypeOK, Link
  <1>17. CASE Close(p)
    <2>1. KernelTypeOK'
      BY <1>17, KernelTyped DEF Close
    <2>2. IOTypeOK'
      BY <1>17 DEF Close
    <2> QED
      BY <2>1, <2>2
  <1>18. CASE MarkClosed(p)
    BY <1>18, KernelTyped DEF MarkClosed
  <1> QED
    BY <1>1, <1>2, <1>3, <1>4, <1>5, <1>6, <1>7, <1>8, <1>9, <1>10, <1>11, <1>12,
       <1>13, <1>14, <1>15, <1>16, <1>17, <1>18 DEF Servant, Connect, Transfer

LEMMA InterpretationTyped ==
    ASSUME TypeOK, Interpretation
    PROVE  TypeOK'
  <1>1. /\ Head(queue) \in Line /\ queue' \in Seq(Line)
        /\ cmd' \in {Interpret[Head(queue)], NoCmd}
        /\ idx' \in {0, 1} /\ alive' \in BOOLEAN
        /\ UNCHANGED <<kernelVars, peerVars, n, users, network>>
    BY DEF Interpretation, TypeOK
  <1>2. cmd' \in Outcome
    <2>1. NoCmd \in Outcome
      BY DEF NoCmd, Outcome, Req, CLOSED
    <2>2. Interpret[Head(queue)] \in Outcome
      BY <1>1
    <2> QED
      BY <1>1, <2>1, <2>2
  <1>3. KernelTypeOK' /\ IOTypeOK'
    BY <1>1 DEF TypeOK, KernelTypeOK, IOTypeOK, kernelVars, peerVars
  <1>4. n' \in Peer /\ idx' \in 0..(n' + 1) /\ users' \in 0..MaxUser /\ network' \in 0..MaxNetwork
    BY <1>1 DEF TypeOK, Peer
  <1> QED
    BY <1>1, <1>2, <1>3, <1>4 DEF TypeOK

\* A request reaches a peer that has its master, or gives it one.
LEMMA AcceptTyped ==
    ASSUME TypeOK, Addressed, NEW p \in Peer, p <= n, Matches(p, cmd), Accept(p, cmd)
    PROVE  /\ IOTypeOK'
           /\ addr'[p] \in Addr
           /\ \A q \in Peer \ {p} : addr'[q] = addr[q] /\ que'[q] = que[q]
           /\ addr[p] \in Addr => addr' = addr
           /\ addr[p] \notin Addr =>
                addr[p] = Blank /\ cmd.ip \in Addr /\ cmd.fd = CLOSED /\ addr'[p] = cmd.ip
  <1>1. IOTypeOK /\ cmd \in Outcome
    BY DEF TypeOK
  <1>2. cmd.req \in Req /\ que[p] \in Seq(Req)
    BY <1>1 DEF Outcome, IOTypeOK
  <1>3. Append(que[p], cmd.req) \in Seq(Req)
    BY <1>2
  <1>4. que' \in [Peer -> Seq(Req)]
    BY <1>1, <1>3 DEF Accept, IOTypeOK
  <1>5. addr' = [addr EXCEPT ![p] = IF addr[p] = Blank THEN cmd.ip ELSE addr[p]]
    BY DEF Accept
  <1>6. CASE addr[p] \in Addr
    <2>1. addr[p] # Blank
      BY <1>6
    <2>2. addr' = addr
      BY <1>1, <1>5, <2>1 DEF IOTypeOK
    <2> QED
      BY <1>1, <1>4, <1>6, <2>2 DEF Accept, IOTypeOK
  <1>7. CASE addr[p] \notin Addr
    <2>1. fd[p] = CLOSED
      BY <1>7 DEF Addressed
    <2>2. cmd.ip \in Addr /\ addr[p] = Blank /\ cmd.fd = CLOSED
      BY <1>7, <2>1 DEF Matches
    <2>3. addr' = [addr EXCEPT ![p] = cmd.ip]
      BY <1>5, <2>2
    <2> QED
      BY <1>1, <1>4, <1>7, <2>2, <2>3 DEF Accept, IOTypeOK
  <1> QED
    BY <1>6, <1>7

LEMMA OfferTyped ==
    ASSUME TypeOK, Addressed, Offer
    PROVE  TypeOK' /\ Addressed'
  <1>1. idx \in Peer /\ idx <= n /\ n \in Peer
    BY DEF Offer, TypeOK, Peer
  <1>2. UNCHANGED <<kernelVars, queue, n, alive, users, network>>
    BY DEF Offer
  <1>3. KernelTypeOK'
    BY <1>1, <1>2, KernelTyped DEF TypeOK
  <1>4. CASE Taken(idx)
    <2>1. Matches(idx, cmd) /\ Accept(idx, cmd) /\ cmd' = NoCmd /\ idx' = 0
      BY <1>4 DEF Taken
    <2>2. IOTypeOK' /\ addr'[idx] \in Addr
          /\ \A q \in Peer \ {idx} : addr'[q] = addr[q] /\ que'[q] = que[q]
      BY <1>1, <2>1, AcceptTyped
    <2>3. cmd' \in Outcome
      BY <2>1 DEF NoCmd, Outcome, Req, CLOSED
    <2>4. TypeOK'
      BY <1>1, <1>2, <1>3, <2>1, <2>2, <2>3 DEF TypeOK, Peer
    <2>5. Addressed'
      BY <1>1, <1>2, <2>1, <2>2 DEF Addressed, Accept, Peer
    <2> QED
      BY <2>4, <2>5
  <1>5. CASE Refused(idx)
    <2>1. idx' = idx + 1 /\ UNCHANGED <<peerVars, cmd>>
      BY <1>5 DEF Refused
    <2>2. IOTypeOK'
      BY <2>1 DEF TypeOK, IOTypeOK, peerVars
    <2>3. TypeOK'
      BY <1>1, <1>2, <1>3, <2>1, <2>2 DEF TypeOK, Peer
    <2>4. Addressed'
      BY <1>2, <2>1 DEF Addressed, peerVars
    <2> QED
      BY <2>3, <2>4
  <1> QED
    BY <1>4, <1>5 DEF Offer

LEMMA CreatePeerTyped ==
    ASSUME TypeOK, Addressed, CreatePeer
    PROVE  TypeOK' /\ Addressed'
  <1>1. n \in Peer /\ n + 1 \in Peer /\ n' = n + 1 /\ idx' = 0 /\ cmd' = NoCmd /\ idx = n + 1
    BY DEF CreatePeer, TypeOK, Peer
  <1>2. PICK a \in {Blank, Garbage} : addr' = [addr EXCEPT ![n + 1] = a]
    BY DEF CreatePeer
  <1>3. UNCHANGED <<kernelVars, queue, fd, que, pc, sock, todo, eof, alive, users, network>>
    BY DEF CreatePeer
  <1>4. KernelTypeOK'
    BY <1>1, <1>3, KernelTyped DEF TypeOK
  <1>5. loc' \in [Peer -> Addr \cup {NoAddr, HalfAddr}]
    <2>1. cmd.ip \in Addr \cup {NoAddr, HalfAddr}
      BY DEF TypeOK, Outcome
    <2> QED
      BY <2>1 DEF CreatePeer, TypeOK, IOTypeOK
  <1>6. IOTypeOK'
    BY <1>1, <1>2, <1>3, <1>5 DEF TypeOK, IOTypeOK
  <1>7. cmd' \in Outcome
    BY <1>1 DEF NoCmd, Outcome, Req, CLOSED
  <1>8. TypeOK'
    BY <1>1, <1>3, <1>4, <1>6, <1>7 DEF TypeOK, Peer
  <1>9. Addressed'
    <2>1. \A q \in Peer \ {n + 1} : addr'[q] = addr[q]
      BY <1>2 DEF TypeOK, IOTypeOK
    <2>2. addr'[n + 1] \in {Blank, Garbage} /\ addr'[n + 1] \notin Addr
      BY <1>1, <1>2 DEF TypeOK, IOTypeOK
    <2>3. fd[n + 1] = CLOSED /\ que[n + 1] = <<>> /\ pc[n + 1] = "wait"
      BY <1>1 DEF Addressed, Peer
    <2>4. \A q \in Peer : q > n' => q > n
      BY <1>1 DEF Peer
    <2> QED
      BY <1>1, <1>3, <2>1, <2>2, <2>3, <2>4 DEF Addressed
  <1> QED
    BY <1>8, <1>9

LEMMA ServeTyped ==
    ASSUME TypeOK, Addressed, NEW p \in Peer, Serve(p)
    PROVE  TypeOK' /\ Addressed'
  <1>1. Servant(p) /\ UNCHANGED <<n, cmd, idx, alive, users, network>>
    BY DEF Serve, dispatchVars
  <1>2. KernelTypeOK' /\ IOTypeOK'
    BY <1>1, ServantTyped
  <1>3. /\ UNCHANGED <<addr, queue>>
        /\ pc[p] # "wait" \/ que[p] # <<>>
        /\ \A q \in Peer \ {p} : fd'[q] = fd[q] /\ que'[q] = que[q] /\ pc'[q] = pc[q]
    BY <1>1, ServantFrame
  <1>4. TypeOK'
    BY <1>1, <1>2, <1>3 DEF TypeOK
  <1>5. Addressed'
    BY <1>1, <1>3 DEF Addressed
  <1> QED
    BY <1>4, <1>5

LEMMA NextTyped ==
    ASSUME TypeOK, Addressed, [Next]_vars
    PROVE  TypeOK' /\ Addressed'
  <1>1. CASE Interpretation
    BY <1>1, InterpretationTyped DEF Interpretation, Addressed, peerVars
  <1>2. CASE Offer
    BY <1>2, OfferTyped
  <1>3. CASE CreatePeer
    BY <1>3, CreatePeerTyped
  <1>4. ASSUME NEW p \in Peer, Serve(p) PROVE TypeOK' /\ Addressed'
    BY <1>4, ServeTyped
  <1>5. CASE Timer
    BY <1>5 DEF Timer, TypeOK, KernelTypeOK, IOTypeOK, kernelVars, peerVars, Addressed
  <1>6. CASE Report
    <2>1. PICK f \in Fd : Waiter(f)
      BY <1>6 DEF Report
    <2>2. UNCHANGED <<peerVars, dispatchVars>>
      BY <1>6 DEF Report
    <2>3. KernelTypeOK'
      <3>1. NPeer \in Peer
        BY DEF Peer
      <3> QED
        BY <2>1, <3>1, KernelTyped DEF TypeOK
    <2>4. queue' \in Seq(Line)
      <3>1. EventLine(f) \in Line
        BY <2>1 DEF EventLine
      <3>2. queue \in Seq(Line) /\ queue' \in {queue, Append(queue, EventLine(f))}
        BY <2>1 DEF Waiter, TypeOK
      <3>3. Append(queue, EventLine(f)) \in Seq(Line)
        BY <3>1, <3>2
      <3> QED
        BY <3>2, <3>3
    <2>5. IOTypeOK'
      BY <2>2 DEF TypeOK, IOTypeOK, peerVars
    <2> QED
      BY <2>2, <2>3, <2>4, <2>5 DEF TypeOK, Addressed, dispatchVars, peerVars
  <1>7. CASE NewMsgQueue
    <2>1. PICK l \in UserLine : queue' = Append(queue, l)
      BY <1>7 DEF NewMsgQueue
    <2>2. queue' \in Seq(Line)
      <3>1. queue \in Seq(Line) /\ l \in Line
        BY <2>1 DEF TypeOK
      <3> QED
        BY <2>1, <3>1
    <2>3. /\ UNCHANGED <<kernelVars, peerVars, n, cmd, idx, alive, network>>
          /\ users' \in 0..MaxUser
      BY <1>7 DEF NewMsgQueue, TypeOK
    <2> QED
      BY <2>2, <2>3 DEF TypeOK, KernelTypeOK, IOTypeOK, kernelVars, peerVars, Addressed
  <1>8. CASE Remote
    <2>1. PICK f \in Fd : Network(f)
      BY <1>8 DEF Remote
    <2>2. /\ UNCHANGED <<queue, peerVars, n, cmd, idx, alive, users>>
          /\ network' \in 0..MaxNetwork
      BY <1>8 DEF Remote, TypeOK
    <2>3. KernelTypeOK'
      <3>1. NPeer \in Peer
        BY DEF Peer
      <3> QED
        BY <2>1, <3>1, KernelTyped DEF TypeOK
    <2> QED
      BY <2>2, <2>3 DEF TypeOK, IOTypeOK, peerVars, Addressed
  <1>9. CASE UNCHANGED vars
    BY <1>9 DEF vars, TypeOK, KernelTypeOK, IOTypeOK, kernelVars, peerVars, dispatchVars,
                Addressed
  <1> QED
    BY <1>1, <1>2, <1>3, <1>4, <1>5, <1>6, <1>7, <1>8, <1>9 DEF Next, StdIn

(***************************************************************************)
(* A peer without a master is idle, in every reachable state: requests by  *)
(* descriptor and events never reach it, and it never dials.               *)
(***************************************************************************)
THEOREM AddressedAlways == Spec => [](TypeOK /\ Addressed)
  <1>1. TypeOK /\ Addressed /\ [Next]_vars => TypeOK' /\ Addressed'
    BY NextTyped
  <1> QED
    BY InitTyped, <1>1, PTL DEF Spec

(***************************************************************************)
(* Every variable keeps its type.                                          *)
(***************************************************************************)
THEOREM TypeCorrect == Spec => []TypeOK
  BY AddressedAlways, PTL

-----------------------------------------------------------------------------
(* Masters. *)

Masters == SearchOK /\ MastersInOrder /\ AddressUnique

\* What stdIN does when a peer takes the request: the address of the request is
\* new, for no peer before or after this one has it.
LEMMA TakenMasters ==
    ASSUME TypeOK, Addressed, Masters, idx \in 1..n, Taken(idx), n' = n
    PROVE  Masters'
  <1>1. idx \in Peer /\ n \in Peer /\ idx > 0
    BY DEF TypeOK, Peer
  <1>2. Matches(idx, cmd) /\ Accept(idx, cmd) /\ idx' = 0
    BY DEF Taken
  <1>3. SearchOK'
    BY <1>2 DEF SearchOK
  <1>4. CASE addr[idx] \in Addr
    <2>1. addr' = addr
      BY <1>1, <1>2, <1>4, AcceptTyped
    <2> QED
      BY <1>3, <2>1 DEF Masters, MastersInOrder, AddressUnique
  <1>5. CASE addr[idx] \notin Addr
    <2>1. /\ addr[idx] = Blank /\ cmd.ip \in Addr /\ cmd.fd = CLOSED
          /\ addr'[idx] = cmd.ip
          /\ \A q \in Peer \ {idx} : addr'[q] = addr[q]
      BY <1>1, <1>2, <1>5, AcceptTyped
    <2>2. \A i \in Peer : i < idx => addr[i] # cmd.ip /\ addr[i] # Blank
      BY <1>1, <2>1 DEF Masters, SearchOK
    <2>3. \A j \in Peer : idx < j => addr[j] \notin Addr
      BY <1>1, <2>1 DEF Masters, MastersInOrder
    <2>4. \A i \in Peer \ {idx} : addr[i] # cmd.ip
      BY <1>1, <2>1, <2>2, <2>3 DEF Peer
    <2>5. AddressUnique'
      <3>1. 1..n \subseteq Peer
        BY <1>1 DEF Peer
      <3> QED
        BY <1>1, <2>1, <2>4, <3>1 DEF Masters, AddressUnique
    <2>6. MastersInOrder'
      <3> SUFFICES ASSUME NEW i \in Peer, NEW j \in Peer, i < j, addr'[j] \in Addr
                   PROVE  addr'[i] # Blank
        BY DEF MastersInOrder
      <3>1. CASE i = idx
        BY <2>1, <3>1
      <3>2. CASE j = idx
        BY <2>1, <2>2, <3>2 DEF Peer
      <3>3. CASE i # idx /\ j # idx
        BY <2>1, <3>3 DEF Masters, MastersInOrder
      <3> QED
        BY <3>1, <3>2, <3>3
    <2> QED
      BY <1>3, <2>5, <2>6 DEF Masters
  <1> QED
    BY <1>4, <1>5

LEMMA RefusedMasters ==
    ASSUME TypeOK, Addressed, Masters, idx \in 1..n, Refused(idx), n' = n
    PROVE  Masters'
  <1>1. idx \in Peer /\ n \in Peer
    BY DEF TypeOK, Peer
  <1>2. ~Matches(idx, cmd) /\ idx' = idx + 1 /\ UNCHANGED <<addr, cmd>>
    BY DEF Refused, peerVars
  <1>3. cmd.ip \in Addr => addr[idx] # cmd.ip
    BY <1>2 DEF Matches
  <1>4. cmd.ip \in Addr /\ cmd.fd = CLOSED => addr[idx] # Blank
    <2>1. addr[idx] = Blank => fd[idx] = CLOSED
      BY <1>1 DEF Addressed
    <2> QED
      BY <1>2, <2>1 DEF Matches
  <1>5. SearchOK'
    <2> SUFFICES ASSUME cmd.ip \in Addr, NEW i \in Peer, i < idx + 1
                 PROVE  addr[i] # cmd.ip /\ (cmd.fd = CLOSED => addr[i] # Blank)
      BY <1>2 DEF SearchOK
    <2>1. CASE i = idx
      BY <1>3, <1>4, <2>1
    <2>2. CASE i < idx
      BY <1>1, <2>2 DEF Masters, SearchOK, Peer
    <2> QED
      BY <1>1, <2>1, <2>2 DEF Peer
  <1> QED
    BY <1>2, <1>5 DEF Masters, MastersInOrder, AddressUnique

LEMMA CreatePeerMasters ==
    ASSUME TypeOK, Addressed, Masters, CreatePeer
    PROVE  Masters'
  <1>1. n \in Peer /\ n + 1 \in Peer /\ n' = n + 1 /\ idx' = 0
    BY DEF CreatePeer, TypeOK, Peer
  <1>2. addr'[n + 1] \in {Blank, Garbage} /\ \A q \in Peer \ {n + 1} : addr'[q] = addr[q]
    BY <1>1 DEF CreatePeer, TypeOK, IOTypeOK
  <1>3. \A q \in Peer : addr'[q] \in Addr => q <= n /\ addr[q] \in Addr
    <2>1. \A q \in Peer : q > n => addr[q] \notin Addr
      BY DEF Addressed
    <2>2. addr'[n + 1] \notin Addr
      BY <1>2
    <2> QED
      BY <1>1, <1>2, <2>1, <2>2 DEF Peer
  <1>4. SearchOK'
    BY <1>1 DEF SearchOK
  <1>5. MastersInOrder'
    <2> SUFFICES ASSUME NEW i \in Peer, NEW j \in Peer, i < j, addr'[j] \in Addr
                 PROVE  addr'[i] # Blank
      BY DEF MastersInOrder
    <2>1. j <= n /\ addr[j] \in Addr
      BY <1>3
    <2>2. i # n + 1
      BY <1>1, <2>1 DEF Peer
    <2> QED
      BY <1>2, <2>1, <2>2 DEF Masters, MastersInOrder
  <1>6. AddressUnique'
    <2> SUFFICES ASSUME NEW i \in 1..(n + 1), NEW j \in 1..(n + 1), i # j, addr'[i] \in Addr
                 PROVE  addr'[i] # addr'[j]
      BY <1>1 DEF AddressUnique
    <2>1. i \in Peer /\ j \in Peer
      BY <1>1 DEF Peer
    <2>2. i <= n /\ addr[i] \in Addr /\ addr'[i] = addr[i]
      BY <1>1, <1>2, <1>3, <2>1 DEF Peer
    <2>3. CASE j = n + 1
      BY <1>2, <2>2, <2>3
    <2>4. CASE j # n + 1
      <3>1. i \in 1..n /\ j \in 1..n /\ addr'[j] = addr[j]
        BY <1>1, <1>2, <2>1, <2>2, <2>4 DEF Peer
      <3> QED
        BY <2>2, <3>1 DEF Masters, AddressUnique
    <2> QED
      BY <2>3, <2>4
  <1> QED
    BY <1>4, <1>5, <1>6 DEF Masters

LEMMA NextMasters ==
    ASSUME TypeOK, Addressed, Masters, [Next]_vars
    PROVE  Masters'
  <1>1. CASE Interpretation
    <2>1. idx' \in {0, 1} /\ UNCHANGED <<addr, n>>
      BY <1>1 DEF Interpretation, peerVars
    <2> QED
      BY <2>1 DEF Masters, SearchOK, MastersInOrder, AddressUnique, Peer
  <1>2. CASE Offer
    BY <1>2, TakenMasters, RefusedMasters DEF Offer
  <1>3. CASE CreatePeer
    BY <1>3, CreatePeerMasters
  <1>4. CASE \E p \in Peer : Serve(p)
    <2>1. UNCHANGED <<addr, n, cmd, idx>>
      BY <1>4, ServantFrame DEF Serve, dispatchVars
    <2> QED
      BY <2>1 DEF Masters, SearchOK, MastersInOrder, AddressUnique
  <1>5. CASE Timer \/ Report \/ NewMsgQueue \/ Remote \/ UNCHANGED vars
    <2>1. UNCHANGED <<addr, n, cmd, idx>>
      BY <1>5 DEF Timer, Report, NewMsgQueue, Remote, vars, peerVars, dispatchVars
    <2> QED
      BY <2>1 DEF Masters, SearchOK, MastersInOrder, AddressUnique
  <1> QED
    BY <1>1, <1>2, <1>3, <1>4, <1>5 DEF Next, StdIn

(***************************************************************************)
(* The search for a peer and the masters taken so far agree.               *)
(***************************************************************************)
THEOREM MastersAlways == Spec => []Masters
  <1>1. Init => Masters
    <2> SUFFICES ASSUME Init PROVE Masters
      OBVIOUS
    <2>1. \A p \in Peer : addr[p] \notin Addr
      BY DEF Init, IOInit
    <2>2. idx = 0 /\ n \in Peer /\ 1..n \subseteq Peer
      BY DEF Init, Peer
    <2> QED
      BY <2>1, <2>2 DEF Masters, SearchOK, MastersInOrder, AddressUnique
  <1>2. TypeOK /\ Addressed /\ Masters /\ [Next]_vars => Masters'
    BY NextMasters
  <1> QED
    BY <1>1, <1>2, AddressedAlways, PTL DEF Spec

(***************************************************************************)
(* No two peers ever have the same master, whatever lines arrive and       *)
(* however the servants change the descriptors while stdIN searches.       *)
(***************************************************************************)
THEOREM OneMasterPerAddress == Spec => []AddressUnique
  <1>1. Masters => AddressUnique
    BY DEF Masters
  <1> QED
    BY <1>1, MastersAlways, PTL

\* A peer that takes its first request takes an address nobody has.
LEMMA FirstMaster ==
    ASSUME TypeOK, Addressed, Masters, idx \in 1..n, Taken(idx), addr[idx] \notin Addr
    PROVE  /\ addr[idx] = Blank /\ cmd.ip \in Addr /\ addr'[idx] = cmd.ip
           /\ \A q \in Peer \ {idx} : addr'[q] = addr[q] /\ addr[q] # cmd.ip
  <1>1. idx \in Peer /\ n \in Peer /\ idx > 0
    BY DEF TypeOK, Peer
  <1>2. Matches(idx, cmd) /\ Accept(idx, cmd)
    BY DEF Taken
  <1>3. /\ addr[idx] = Blank /\ cmd.ip \in Addr /\ cmd.fd = CLOSED
        /\ addr'[idx] = cmd.ip
        /\ \A q \in Peer \ {idx} : addr'[q] = addr[q]
    BY <1>1, <1>2, AcceptTyped
  <1>4. \A i \in Peer : i < idx => addr[i] # cmd.ip
    BY <1>1, <1>3 DEF Masters, SearchOK
  <1>5. \A j \in Peer : idx < j => addr[j] \notin Addr
    BY <1>1, <1>3 DEF Masters, MastersInOrder
  <1>6. \A i \in Peer \ {idx} : addr[i] # cmd.ip
    BY <1>1, <1>3, <1>4, <1>5 DEF Peer
  <1> QED
    BY <1>3, <1>6

LEMMA TakenRegisters ==
    ASSUME TypeOK, Addressed, Masters, idx \in 1..n, Taken(idx)
    PROVE  Registry!Next \/ Master' = Master
  <1>1. idx \in Peer
    BY DEF TypeOK, Peer
  <1>2. CASE addr[idx] \in Addr
    <2>1. addr' = addr
      BY <1>1, <1>2, AcceptTyped DEF Taken
    <2> QED
      BY <2>1 DEF Master
  <1>3. CASE addr[idx] \notin Addr
    <2>1. /\ addr[idx] = Blank /\ cmd.ip \in Addr /\ addr'[idx] = cmd.ip
          /\ \A q \in Peer \ {idx} : addr'[q] = addr[q] /\ addr[q] # cmd.ip
      BY <1>3, FirstMaster
    <2>2. Master[idx] = Blank
      BY <1>1, <1>3 DEF Master
    <2>3. \A q \in Peer : Master[q] # cmd.ip
      BY <1>3, <2>1 DEF Master
    <2>4. Master' = [Master EXCEPT ![idx] = cmd.ip]
      BY <1>1, <2>1 DEF Master
    <2>5. Registry!Take(idx, cmd.ip)
      BY <2>2, <2>3, <2>4 DEF Registry!Take
    <2> QED
      BY <1>1, <2>1, <2>5 DEF Registry!Next
  <1> QED
    BY <1>2, <1>3

LEMMA NextRegisters ==
    ASSUME TypeOK, Addressed, Masters, [Next]_vars
    PROVE  Registry!Next \/ Master' = Master
  <1>1. ASSUME addr' = addr PROVE Master' = Master
    BY <1>1 DEF Master
  <1>2. CASE Offer
    <2>1. CASE Taken(idx)
      BY <1>2, <2>1, TakenRegisters DEF Offer
    <2>2. CASE Refused(idx)
      BY <1>1, <2>2 DEF Refused, peerVars
    <2> QED
      BY <1>2, <2>1, <2>2 DEF Offer
  <1>3. CASE CreatePeer
    <2>1. n + 1 \in Peer /\ addr[n + 1] \notin Addr
      BY <1>3 DEF CreatePeer, TypeOK, Peer, Addressed
    <2>2. addr'[n + 1] \in {Blank, Garbage} /\ \A q \in Peer \ {n + 1} : addr'[q] = addr[q]
      BY <1>3, <2>1 DEF CreatePeer, TypeOK, IOTypeOK
    <2>3. \A q \in Peer : q # n + 1 => addr'[q] = addr[q]
      BY <2>2
    <2>4. addr'[n + 1] \notin Addr
      BY <2>2
    <2> QED
      BY <2>1, <2>3, <2>4 DEF Master
  <1>4. CASE Interpretation
    BY <1>1, <1>4 DEF Interpretation, peerVars
  <1>5. CASE \E p \in Peer : Serve(p)
    BY <1>1, <1>5, ServantFrame DEF Serve
  <1>6. CASE Timer \/ Report \/ NewMsgQueue \/ Remote \/ UNCHANGED vars
    BY <1>1, <1>6 DEF Timer, Report, NewMsgQueue, Remote, vars, peerVars
  <1> QED
    BY <1>2, <1>3, <1>4, <1>5, <1>6 DEF Next, StdIn

(***************************************************************************)
(* EndPoint implements Directory: a peer takes a master at most once, never *)
(* changes it, and never takes the master of another.                      *)
(***************************************************************************)
THEOREM RegistryRefined == Spec => MastersKept
  <1>1. Init => Registry!Init
    <2> SUFFICES ASSUME Init PROVE Registry!Init
      OBVIOUS
    <2>1. \A p \in Peer : addr[p] \notin Addr
      BY DEF Init, IOInit
    <2> QED
      BY <2>1 DEF Registry!Init, Master
  <1>2. TypeOK /\ Addressed /\ Masters /\ [Next]_vars => [Registry!Next]_Master
    BY NextRegisters
  <1> QED
    BY <1>1, <1>2, AddressedAlways, MastersAlways, PTL DEF Spec, MastersKept, Registry!Spec

-----------------------------------------------------------------------------
(* Descriptors. *)

Descs == PhaseOK /\ NoSocketLeak /\ RegisteredHeld

\* What a step of p's servant does to the descriptors: p stays in phase; a
\* number changes hands only to p or to nobody; p knows what it owns; and what
\* becomes or stays watched is p's connection, or is no concern of p's.
Keeps(p) ==
    /\ pc'[p] \in Dialling \cup {"resolve"} => fd'[p] = CLOSED
    /\ pc'[p] \in {"notify", "read", "erase", "write", "close", "mark"} => fd'[p] \in Fd
    /\ \A f \in Fd : owner'[f] \in {owner[f], p, Free}
    /\ \A f \in Fd : owner'[f] = p => Holds(p, f)'
    /\ \A f \in Fd : watched'[f] =>
         \/ fd'[p] = f /\ pc'[p] # "mark"
         \/ watched[f] /\ ~(fd[p] = f /\ pc[p] # "mark")

LEMMA ServantKeeps ==
    ASSUME TypeOK, Descs, NEW p \in Peer, Servant(p)
    PROVE  Keeps(p)
  <1>1. /\ CLOSED \notin Fd /\ p # Free
        /\ pc[p] \in Dialling \cup {"resolve"} => fd[p] = CLOSED
        /\ pc[p] \in {"notify", "read", "erase", "write", "close", "mark"} => fd[p] \in Fd
        /\ \A f \in Fd : owner[f] = p => Holds(p, f)
    BY DEF CLOSED, Peer, Free, Descs, PhaseOK, NoSocketLeak, IsOpen
  <1>2. KernelTypeOK /\ IOTypeOK
    BY DEF TypeOK
  <1> USE <1>1, <1>2 DEF Keeps, Holds, Goto, Dialling, IOTypeOK, KernelTypeOK
  <1>3. CASE Drop(p)
    BY <1>3 DEF Drop, Pop, kernelVars
  <1>4. CASE TakeConnect(p)
    BY <1>4 DEF TakeConnect, Pop, kernelVars
  <1>5. CASE TakeTransfer(p)
    BY <1>5 DEF TakeTransfer, Pop, kernelVars
  <1>6. CASE Resolve(p)
    BY <1>6 DEF Resolve, kernelVars
  <1>7. CASE NextCandidate(p)
    <2>1. pc[p] = "next" /\ todo[p] > 0 /\ UNCHANGED <<fd, watched>>
      BY <1>7 DEF NextCandidate, OpenSocket, kernelVars
    <2>2. \A f \in Fd : owner[f] # p
      <3>1. todo[p] # 0 /\ fd[p] \notin Fd
        BY <2>1
      <3> QED
        BY <2>1, <3>1
    <2>3. CASE UNCHANGED <<pc, kernelVars>>
      BY <2>1, <2>2, <2>3 DEF kernelVars
    <2>4. ASSUME NEW f \in Fd, OpenSocket(f, p), sock' = [sock EXCEPT ![p] = f], Goto(p, "setup")
          PROVE  Keeps(p)
      <3>1. owner' = [owner EXCEPT ![f] = p] /\ sock'[p] = f /\ pc'[p] = "setup"
        BY <2>4 DEF OpenSocket
      <3> QED
        BY <2>1, <2>2, <3>1
    <2> QED
      BY <1>7, <2>3, <2>4 DEF NextCandidate
  <1>8. CASE SetUp(p)
    <2>1. pc[p] = "setup" /\ fd' = fd
      BY <1>8 DEF SetUp
    <2>2. CASE GiveUpKeepingNumber(p)
      BY <2>1, <2>2 DEF GiveUpKeepingNumber, CloseFd
    <2>3. CASE Goto(p, "dial") /\ UNCHANGED <<todo, sock, kernelVars>>
      BY <2>1, <2>3 DEF kernelVars
    <2> QED
      BY <1>8, <2>2, <2>3 DEF SetUp
  <1>9. CASE Dial(p)
    <2>1. pc[p] = "dial" /\ fd' = fd
      BY <1>9 DEF Dial
    <2>2. CASE GiveUpKeepingNumber(p)
      BY <2>1, <2>2 DEF GiveUpKeepingNumber, CloseFd
    <2>3. CASE Succeed(p)
      BY <2>1, <2>3 DEF Succeed
    <2>4. CASE Goto(p, "select") /\ UNCHANGED <<todo, sock, owner, data, watched, armed>>
      BY <2>1, <2>4
    <2> QED
      BY <1>9, <2>2, <2>3, <2>4 DEF Dial
  <1>10. CASE Await(p)
    <2>1. pc[p] = "select" /\ fd' = fd
      BY <1>10 DEF Await
    <2>2. CASE GiveUpKeepingNumber(p)
      BY <2>1, <2>2 DEF GiveUpKeepingNumber, CloseFd
    <2>3. CASE GiveUp(p)
      <3>1. pc' = [pc EXCEPT ![p] = "next"] /\ CloseFd(sock[p])
        BY <2>3 DEF GiveUp
      <3>2. \A f \in Fd : owner'[f] # p
        BY <2>1, <3>1 DEF CloseFd
      <3> QED
        BY <2>1, <3>1, <3>2 DEF CloseFd
    <2>4. CASE Succeed(p)
      BY <2>1, <2>4 DEF Succeed
    <2> QED
      BY <1>10, <2>2, <2>3, <2>4 DEF Await
  <1>11. CASE Return(p)
    BY <1>11 DEF Return, kernelVars
  <1>12. CASE Notify(p)
    BY <1>12 DEF Notify, AddNew
  <1>13. CASE Pause(p)
    BY <1>13 DEF Pause, kernelVars
  <1>14. CASE ReadData(p)
    BY <1>14 DEF ReadData, peerVars
  <1>15. CASE ReadNothing(p)
    BY <1>15 DEF ReadNothing, kernelVars
  <1>16. CASE Erase(p)
    BY <1>16 DEF Erase, kernelVars
  <1>17. CASE ReadError(p)
    BY <1>17 DEF ReadError
  <1>18. CASE Write(p)
    BY <1>18 DEF Write
  <1>19. CASE Close(p)
    BY <1>19 DEF Close, CloseFd
  <1>20. CASE MarkClosed(p)
    BY <1>20 DEF MarkClosed, kernelVars
  <1> QED
    BY <1>3, <1>4, <1>5, <1>6, <1>7, <1>8, <1>9, <1>10, <1>11, <1>12,
       <1>13, <1>14, <1>15, <1>16, <1>17, <1>18, <1>19, <1>20 DEF Servant, Connect, Transfer

LEMMA ServeDescs ==
    ASSUME TypeOK, Descs, NEW p \in Peer, Servant(p)
    PROVE  Descs'
  <1>1. Keeps(p)
    BY ServantKeeps
  <1>2. \A q \in Peer \ {p} :
            fd'[q] = fd[q] /\ pc'[q] = pc[q] /\ sock'[q] = sock[q] /\ todo'[q] = todo[q]
    BY ServantFrame
  <1>3. PhaseOK'
    BY <1>1, <1>2 DEF Keeps, Descs, PhaseOK
  <1>4. NoSocketLeak'
    <2> SUFFICES ASSUME NEW f \in Fd, owner'[f] # Free PROVE Holds(owner[f], f)'
      BY DEF NoSocketLeak, IsOpen
    <2>1. CASE owner'[f] = p
      BY <1>1, <2>1 DEF Keeps, Holds
    <2>2. CASE owner'[f] # p
      <3>1. owner'[f] = owner[f] /\ owner[f] \in Peer \ {p}
        BY <1>1, <2>2 DEF Keeps, TypeOK, KernelTypeOK
      <3>2. Holds(owner[f], f)
        BY <3>1 DEF Descs, NoSocketLeak, IsOpen
      <3> QED
        BY <1>2, <3>1, <3>2 DEF Holds
    <2> QED
      BY <2>1, <2>2
  <1>5. RegisteredHeld'
    <2> SUFFICES ASSUME NEW f \in Fd, watched'[f]
                 PROVE  \E q \in Peer : fd'[q] = f /\ pc'[q] # "mark"
      BY DEF RegisteredHeld
    <2>1. CASE fd'[p] = f /\ pc'[p] # "mark"
      BY <2>1
    <2>2. CASE watched[f] /\ ~(fd[p] = f /\ pc[p] # "mark")
      <3>1. PICK q \in Peer : fd[q] = f /\ pc[q] # "mark"
        BY <2>2 DEF Descs, RegisteredHeld
      <3>2. q # p
        BY <2>2, <3>1
      <3> QED
        BY <1>2, <3>1, <3>2
    <2> QED
      BY <1>1, <2>1, <2>2 DEF Keeps
  <1> QED
    BY <1>3, <1>4, <1>5 DEF Descs

LEMMA NextDescs ==
    ASSUME TypeOK, Descs, [Next]_vars
    PROVE  Descs'
  <1>1. CASE \E p \in Peer : Serve(p)
    BY <1>1, ServeDescs DEF Serve
  <1>2. CASE StdIn \/ Timer \/ Report \/ NewMsgQueue \/ Remote \/ UNCHANGED vars
    <2>1. UNCHANGED <<owner, watched, fd, pc, sock, todo>>
      BY <1>2 DEF StdIn, Interpretation, Offer, Taken, Accept, Refused, CreatePeer,
                  Timer, Report, Waiter, NewMsgQueue, Remote, Network, Deliver, RemoteEnds,
                  vars, kernelVars, peerVars
    <2> QED
      BY <2>1 DEF Descs, PhaseOK, NoSocketLeak, RegisteredHeld, Holds, IsOpen
  <1> QED
    BY <1>1, <1>2 DEF Next

(***************************************************************************)
(* The servants keep to their phases, and know the sockets they own and    *)
(* the sockets epoll watches.                                              *)
(***************************************************************************)
THEOREM DescsAlways == Spec => []Descs
  <1>1. Init => Descs
    BY DEF Init, KernelInit, IOInit, Descs, PhaseOK, NoSocketLeak, RegisteredHeld, IsOpen, Dialling
  <1>2. TypeOK /\ Descs /\ [Next]_vars => Descs'
    BY NextDescs
  <1> QED
    BY <1>1, <1>2, TypeCorrect, PTL DEF Spec

(***************************************************************************)
(* No socket is leaked, on any path through connectTCP and close and       *)
(* whatever happens to the number meanwhile.                               *)
(***************************************************************************)
THEOREM NoLeak == Spec => []NoSocketLeak
  <1>1. Descs => NoSocketLeak
    BY DEF Descs
  <1> QED
    BY <1>1, DescsAlways, PTL

(***************************************************************************)
(* Every socket epoll watches is the connection of some peer.              *)
(***************************************************************************)
THEOREM WatchedIsHeld == Spec => []RegisteredHeld
  <1>1. Descs => RegisteredHeld
    BY DEF Descs
  <1> QED
    BY <1>1, DescsAlways, PTL

(***************************************************************************)
(* The inductive invariant as a whole.                                     *)
(***************************************************************************)
THEOREM Invariant == Spec => []Inv
  <1>1. TypeOK /\ Addressed /\ Masters /\ Descs => Inv
    BY DEF Inv, Masters, Descs
  <1> QED
    BY <1>1, AddressedAlways, MastersAlways, DescsAlways, PTL

=============================================================================
