--------------------------- MODULE SecurePeerProofs ---------------------------
(***************************************************************************)
(* Proofs about SecurePeer, for any number of requests and steps of the    *)
(* server.  Inv is inductive: PhaseOK says where the servant can be, which *)
(* gives the types and EraseJustified; NoStalledRecord needs in addition   *)
(* that a call which has to be tried again has left nothing unread.        *)
(***************************************************************************)
EXTENDS SecurePeer, TLAPS

USE BoundAssumption

-----------------------------------------------------------------------------
(* The calls of OpenSSL. *)

\* What a call leaves behind is of the right type.
LEMMA OutcomeTyped ==
    ASSUME NEW o \in Outcome
    PROVE  o.res \in Result /\ o.ssl \in Session /\ o.unread \in Unread
  BY DEF Outcome

\* Only what is to be tried again is positive.
LEMMA FailureSign == \A r \in Result : HandleIoFailure(r) > 0 <=> r = "want"
  BY DEF HandleIoFailure, Result

\* Handshakes go forward and never lose the session.
LEMMA HandshakeEffect ==
    ASSUME NEW o, Handshake(o)
    PROVE  /\ ssl \in {"fresh", "shaking", "broken"}
           /\ o.ssl \in {"fresh", "shaking", "ready", "ended", "broken"}
           /\ o.res \in {"ok", "want", "zero", "error"}
           /\ unread = "nothing" => o.unread = "nothing"
           /\ o.res = "want" => ssl # "broken" /\ o.ssl = "shaking" /\ link = "up"
           /\ o.res = "error" => link # "up" \/ o.ssl = "broken"
           /\ o.res = "zero" => o.ssl = "ended"
           /\ o.ssl = "fresh" => ssl = "fresh" /\ link # "up"
           /\ ssl = "shaking" => o.unread = "nothing"
           /\ ssl = "broken" => o.ssl = "broken" /\ o.unread = unread
  BY DEF Handshake

LEMMA ReadEffect ==
    ASSUME NEW o \in Outcome, SSLRead(o), ssl \in Session, ssl # "fresh"
    PROVE  /\ ssl \in {"shaking", "ready", "ended", "broken"}
           /\ o.ssl \in {"shaking", "ready", "ended", "broken"}
           /\ unread = "nothing" => o.unread = "nothing"
           /\ o.res = "want" => o.unread = "nothing"
           /\ o.res \in {"zero", "error"} => link # "up" \/ o.ssl \in {"ended", "broken"}
  <1>1. CASE ssl \in {"ready", "ended"}
    BY <1>1 DEF SSLRead, Exhausted, Outcome, Unread
  <1>2. CASE ssl \notin {"ready", "ended"} /\ Handshake(o)
    BY <1>2, HandshakeEffect DEF SSLRead, Session
  <1>3. CASE ssl \notin {"ready", "ended"} /\ ~Handshake(o)
    <2>1. o.res = Exhausted /\ Handshake([o EXCEPT !.res = "ok"])
      BY <1>3 DEF SSLRead
    <2> DEFINE r == [o EXCEPT !.res = "ok"]
    <2>2. r.res = "ok" /\ r.ssl = o.ssl /\ r.unread = o.unread
      BY DEF Outcome
    <2>3. ssl = "shaking" /\ o.ssl = "ready" /\ o.unread = "nothing"
      BY <2>1, <2>2 DEF Handshake
    <2> QED
      BY <2>1, <2>3 DEF Exhausted
  <1> QED
    BY <1>1, <1>2, <1>3

LEMMA WriteEffect ==
    ASSUME NEW o \in Outcome, SSLWrite(o), ssl \in Session, ssl # "fresh"
    PROVE  /\ o.ssl \in {"shaking", "ready", "ended", "broken"}
           /\ unread = "nothing" => o.unread = "nothing"
  BY HandshakeEffect DEF SSLWrite

LEMMA ConnectEffect ==
    ASSUME NEW ok \in BOOLEAN, TLSConnect(ok), TLSTypeOK, ssl # "null"
    PROVE  /\ unread' \in Unread /\ (unread = "nothing" => unread' = "nothing")
           /\ ok => /\ ssl' \in {"shaking", "ready", "ended"} /\ ctx' = ctx
                    /\ mine' \in BOOLEAN /\ (mine' => mine \/ link = "up")
           /\ ~ok => ssl' = "null" /\ ctx' = "null" /\ mine' = FALSE
  <1>1. CASE ~ok /\ KeepClear /\ unread' = unread
    BY <1>1 DEF KeepClear, TLSTypeOK
  <1>2. ASSUME NEW o \in Outcome, SSLConnect(o),
               ok = (o.res = "ok" \/ HandleIoFailure(o.res) > 0),
               IF ok THEN Becomes(o) ELSE KeepClear /\ unread' = o.unread
        PROVE  /\ unread' \in Unread /\ (unread = "nothing" => unread' = "nothing")
               /\ ok => /\ ssl' \in {"shaking", "ready", "ended"} /\ ctx' = ctx
                        /\ mine' \in BOOLEAN /\ (mine' => mine \/ link = "up")
               /\ ~ok => ssl' = "null" /\ ctx' = "null" /\ mine' = FALSE
    <2>1. o.unread \in Unread /\ (unread = "nothing" => o.unread = "nothing")
      BY <1>2, HandshakeEffect, OutcomeTyped DEF SSLConnect, TLSTypeOK
    <2>2. ok => o.res \in {"ok", "want"}
      <3>1. ok => o.res = "ok" \/ HandleIoFailure(o.res) > 0
        BY <1>2
      <3> QED
        BY <3>1, OutcomeTyped, FailureSign
    <2>3. o.res \in {"ok", "want"} =>
            /\ o.ssl \in {"shaking", "ready", "ended"}
            /\ ssl = "fresh" /\ o.ssl = "shaking" => link = "up"
      BY <1>2 DEF SSLConnect, Handshake
    <2>4. CASE ok
      BY <1>2, <2>1, <2>2, <2>3, <2>4 DEF Becomes, TLSTypeOK
    <2>5. CASE ~ok
      BY <1>2, <2>1, <2>5 DEF KeepClear
    <2> QED
      BY <2>4, <2>5
  <1> QED
    BY <1>1, <1>2 DEF TLSConnect

-----------------------------------------------------------------------------
(* Types and phases. *)

Steady == TypeOK /\ Paired /\ PhaseOK /\ EraseJustified

LEMMA InitSteady == Init => Steady
  <1> SUFFICES ASSUME Init PROVE Steady
    OBVIOUS
  <1>1. TypeOK
    <2>1. TLSTypeOK
      BY DEF Init, TLSInit, TLSTypeOK, Session, Unread
    <2>2. que \in Seq(Req) /\ pc \in PC
      BY DEF Init, PC, Constructing
    <2>3. lines \in Nat /\ users \in 0..MaxUser /\ network \in 0..MaxNetwork
      BY DEF Init
    <2> QED
      BY <2>1, <2>2, <2>3 DEF Init, TypeOK
  <1>2. Paired /\ PhaseOK /\ EraseJustified
    BY DEF Init, TLSInit, Paired, PhaseOK, EraseJustified, Constructing
  <1> QED
    BY <1>1, <1>2 DEF Steady

LEMMA ConstructSteady ==
    ASSUME Steady, CreateContext \/ Construct
    PROVE  Steady'
  <1>1. CASE CreateContext
    BY <1>1 DEF CreateContext, Steady, TypeOK, TLSTypeOK, Paired, PhaseOK, EraseJustified,
                connVars, PC, Constructing
  <1>2. CASE Construct
    <2>1. /\ UNCHANGED <<connVars, has, que, eof, worldVars>>
          /\ pc \in Constructing /\ pc' \in {"object", "wait"}
          /\ pc' = "wait" => CreateObject
          /\ ConfigureContext \/ CreateObject
      BY <1>2 DEF Construct, Constructing
    <2>2. ~has /\ ~mine /\ ctx \in {"null", "set"} /\ ssl \in Session /\ mine \in BOOLEAN
      BY <2>1 DEF Steady, PhaseOK, TypeOK, TLSTypeOK
    <2>3. KeepClear => ssl' = "null" /\ ctx' = "null" /\ ~mine'
      BY DEF KeepClear
    <2>4. /\ ssl' \in Session /\ ctx' \in {"null", "set"} /\ mine' \in BOOLEAN /\ ~mine'
          /\ CreateObject => (ctx' = "null" <=> ssl' = "null")
      <3>1. CASE KeepClear
        BY <2>3, <3>1 DEF KeepClear, Session
      <3>2. CASE UNCHANGED sessionVars /\ ~CreateObject
        BY <2>2, <3>2 DEF sessionVars
      <3>3. CASE ctx = "set" /\ ssl' = "fresh" /\ UNCHANGED <<ctx, mine>>
        BY <2>2, <3>3 DEF Session
      <3> QED
        BY <2>1, <3>1, <3>2, <3>3 DEF ConfigureContext, CreateObject
    <2>5. TypeOK' /\ EraseJustified'
      BY <2>1, <2>4 DEF Steady, TypeOK, TLSTypeOK, EraseJustified, connVars, worldVars, PC,
                        Constructing
    <2>6. Paired' /\ PhaseOK'
      BY <2>1, <2>2, <2>4 DEF Steady, Paired, PhaseOK, connVars, Constructing
    <2> QED
      BY <2>5, <2>6 DEF Steady
  <1> QED
    BY <1>1, <1>2

LEMMA PopSteady ==
    ASSUME Steady, Drop \/ Take
    PROVE  Steady'
  <1>1. que \in Seq(Req) /\ que # <<>> /\ que' = Tail(que)
    BY DEF Drop, Take, Pop, Steady, TypeOK
  <1>2. que' \in Seq(Req)
    BY <1>1
  <1> QED
    BY <1>2 DEF Drop, Take, Pop, Steady, TypeOK, TLSTypeOK, Paired, PhaseOK, EraseJustified,
                connVars, sessionVars, worldVars, PC, Constructing

LEMMA SecureSteady ==
    ASSUME Steady, Secure
    PROVE  Steady'
  <1>1. CASE ssl = "null"
    BY <1>1 DEF Secure, Steady, TypeOK, TLSTypeOK, Paired, PhaseOK, EraseJustified,
                sessionVars, worldVars, PC, Constructing
  <1>2. CASE ssl # "null" /\ TLSConnect(TRUE) /\ pc' = "notify"
    BY <1>2, ConnectEffect
       DEF Secure, Steady, TypeOK, TLSTypeOK, Paired, PhaseOK, EraseJustified, worldVars, PC,
           Constructing, Session
  <1>3. CASE ssl # "null" /\ TLSConnect(FALSE) /\ pc' = "pause"
    BY <1>3, ConnectEffect
       DEF Secure, Steady, TypeOK, TLSTypeOK, Paired, PhaseOK, EraseJustified, worldVars, PC,
           Constructing, Session
  <1> QED
    BY <1>1, <1>2, <1>3 DEF Secure

LEMMA ConnectSteady ==
    ASSUME Steady, Connect
    PROVE  Steady'
  <1>1. CASE Dial
    <2>1. ~has /\ link = "none" /\ ~watched /\ ~mine /\ unread = "nothing"
      BY <1>1 DEF Dial, Steady, PhaseOK
    <2>2. TypeOK'
      BY <1>1 DEF Dial, Steady, TypeOK, TLSTypeOK, sessionVars, worldVars, PC, Constructing
    <2>3. PhaseOK'
      BY <1>1, <2>1 DEF Dial, PhaseOK, sessionVars, Constructing
    <2>4. Paired' /\ EraseJustified'
      BY <1>1 DEF Dial, Steady, Paired, EraseJustified, sessionVars, Constructing
    <2> QED
      BY <2>2, <2>3, <2>4 DEF Steady
  <1>2. CASE Secure
    BY <1>2, SecureSteady
  <1>3. CASE SecureCrash
    BY <1>3 DEF SecureCrash, Steady, TypeOK, TLSTypeOK, Paired, PhaseOK, EraseJustified,
                sessionVars, connVars, peerVars
  <1>4. CASE Notify
    BY <1>4 DEF Notify, Readable, Steady, TypeOK, TLSTypeOK, Paired, PhaseOK, EraseJustified,
                sessionVars, worldVars, PC, Constructing
  <1>5. CASE Pause
    BY <1>5 DEF Pause, Steady, TypeOK, TLSTypeOK, Paired, PhaseOK, EraseJustified,
                sessionVars, connVars, worldVars, PC, Constructing
  <1> QED
    BY <1>1, <1>2, <1>3, <1>4, <1>5 DEF Connect

LEMMA ReadSteady ==
    ASSUME Steady, ReadSecure
    PROVE  Steady' /\ (pc' \in {"wait", "close"} => unread' = "nothing")
  <1>1. PICK o \in Outcome :
          /\ SSLRead(o) /\ Becomes(o)
          /\ LoopOn(IF o.res = "ok" THEN "data"
                    ELSE IF HandleIoFailure(o.res) > 0 THEN "minus" ELSE "zero")
    BY DEF ReadSecure, ReadResult
  <1>2. ssl \in {"shaking", "ready", "ended", "broken"} /\ pc = "read" /\ has
    <2>1. ssl # "fresh" /\ ssl \in Session
      BY DEF ReadSecure, Steady, PhaseOK, TypeOK, TLSTypeOK
    <2> QED
      BY <1>1, <2>1, ReadEffect DEF ReadSecure, Steady, PhaseOK
  <1>3. /\ o.ssl \in {"shaking", "ready", "ended", "broken"}
        /\ unread = "nothing" => o.unread = "nothing"
        /\ o.res = "want" => o.unread = "nothing"
        /\ o.res \in {"zero", "error"} => link # "up" \/ o.ssl \in {"ended", "broken"}
        /\ o.res \in Result /\ o.unread \in Unread
    BY <1>1, <1>2, ReadEffect, OutcomeTyped DEF Session
  <1>4. ssl' = o.ssl /\ unread' = o.unread /\ mine' = mine /\ ctx' = ctx
    BY <1>1, <1>2 DEF Becomes, Steady, TypeOK, TLSTypeOK
  <1>5. /\ pc' \in {"read", "erase", "wait", "close"} /\ eof' \in BOOLEAN
        /\ pc' \in {"wait", "close"} => o.res = "want"
        /\ pc' = "erase" => o.res \in {"zero", "error"}
    <2>1. CASE o.res = "ok"
      BY <1>1, <1>2, <2>1 DEF LoopOn, Steady, TypeOK
    <2>2. CASE o.res = "want"
      BY <1>1, <1>3, <2>2, FailureSign DEF LoopOn, LeaveLoop, Steady, TypeOK
    <2>3. CASE o.res \in {"zero", "error"}
      BY <1>1, <1>3, <2>3, FailureSign DEF LoopOn, Steady, TypeOK
    <2> QED
      BY <1>3, <2>1, <2>2, <2>3 DEF Result
  <1>6. UNCHANGED <<link, watched, armed, has, que, lines, alive, users, network>>
    BY DEF ReadSecure, worldVars
  <1> QED
    BY <1>2, <1>3, <1>4, <1>5, <1>6
       DEF Steady, TypeOK, TLSTypeOK, Paired, PhaseOK, EraseJustified, PC, Constructing, Session

LEMMA PlainSteady ==
    ASSUME Steady, ReadPlain
    PROVE  Steady' /\ (pc' \in {"wait", "close"} => unread' = "nothing")
  BY DEF ReadPlain, LoopOn, LeaveLoop, Steady, TypeOK, TLSTypeOK, Paired, PhaseOK,
         EraseJustified, sessionVars, worldVars, PC, Constructing, Unread

LEMMA WriteSteady ==
    ASSUME Steady, Write
    PROVE  Steady' /\ (unread = "nothing" => unread' = "nothing")
  <1>1. CASE ssl = "null"
    BY <1>1 DEF Write, Steady, TypeOK, TLSTypeOK, Paired, PhaseOK, EraseJustified,
                sessionVars, worldVars, PC, Constructing
  <1>2. CASE ssl # "null"
    <2>1. PICK o \in Outcome : SSLWrite(o) /\ Becomes(o)
      BY <1>2 DEF Write
    <2>2. ssl # "fresh" /\ ssl \in Session /\ has /\ pc = "write"
      BY DEF Write, Steady, PhaseOK, TypeOK, TLSTypeOK
    <2>3. /\ o.ssl \in {"shaking", "ready", "ended", "broken"} /\ o.unread \in Unread
          /\ unread = "nothing" => o.unread = "nothing"
      BY <2>1, <2>2, WriteEffect, OutcomeTyped
    <2>4. ssl' = o.ssl /\ unread' = o.unread /\ mine' = mine /\ ctx' = ctx
      BY <2>1, <2>2 DEF Becomes, Steady, TypeOK, TLSTypeOK
    <2>5. link' = link /\ pc' = "wait"
          /\ UNCHANGED <<watched, armed, has, que, eof, lines, alive, users, network>>
      BY <1>2 DEF Write, worldVars
    <2> QED
      BY <1>2, <2>2, <2>3, <2>4, <2>5
         DEF Steady, TypeOK, TLSTypeOK, Paired, PhaseOK, EraseJustified, PC, Constructing,
             Session
  <1> QED
    BY <1>1, <1>2

LEMMA EndSteady ==
    ASSUME Steady, Erase \/ Close \/ MarkClosed
    PROVE  Steady'
  <1>1. CASE Erase
    BY <1>1 DEF Erase, Steady, TypeOK, TLSTypeOK, Paired, PhaseOK, EraseJustified,
                sessionVars, connVars, worldVars, PC, Constructing
  <1>2. CASE Close
    BY <1>2 DEF Close, Steady, TypeOK, TLSTypeOK, Paired, PhaseOK, EraseJustified,
                worldVars, PC, Constructing, Unread
  <1>3. CASE MarkClosed
    BY <1>3 DEF MarkClosed, Steady, TypeOK, TLSTypeOK, Paired, PhaseOK, EraseJustified,
                sessionVars, connVars, worldVars, PC, Constructing
  <1> QED
    BY <1>1, <1>2, <1>3

LEMMA WorldSteady ==
    ASSUME Steady, Waiter \/ StdIn \/ User \/ Server
    PROVE  Steady'
  <1>1. CASE Waiter
    <2>1. lines' \in Nat
      BY <1>1 DEF Waiter, Steady, TypeOK
    <2> QED
      BY <1>1, <2>1 DEF Waiter, Steady, TypeOK, TLSTypeOK, Paired, PhaseOK, EraseJustified,
                        sessionVars, peerVars
  <1>2. CASE StdIn
    <2>1. que' \in Seq(Req)
      <3>1. Append(que, "READ") \in Seq(Req)
        BY DEF Steady, TypeOK, Req
      <3> QED
        BY <1>2, <3>1 DEF StdIn, Steady, TypeOK
    <2> QED
      BY <1>2, <2>1 DEF StdIn, Steady, TypeOK, TLSTypeOK, Paired, PhaseOK, EraseJustified,
                        sessionVars, connVars
  <1>3. CASE User
    <2>1. que' \in Seq(Req)
      BY <1>3 DEF User, Steady, TypeOK
    <2>2. users' \in 0..MaxUser
      BY <1>3 DEF User, Steady, TypeOK
    <2> QED
      BY <1>3, <2>1, <2>2 DEF User, Steady, TypeOK, TLSTypeOK, Paired, PhaseOK,
                              EraseJustified, sessionVars, connVars
  <1>4. CASE Server
    <2>1. network' \in 0..MaxNetwork
      BY <1>4 DEF Server, Steady, TypeOK
    <2> QED
      BY <1>4, <2>1 DEF Server, Deliver, ServerEnds, Steady, TypeOK, TLSTypeOK, Paired,
                        PhaseOK, EraseJustified, sessionVars, peerVars, Unread
  <1> QED
    BY <1>1, <1>2, <1>3, <1>4

LEMMA NextSteady ==
    ASSUME Steady, [Next]_vars
    PROVE  Steady'
  <1>1. CASE UNCHANGED vars
    BY <1>1 DEF vars, sessionVars, connVars, peerVars, worldVars, Steady, TypeOK, TLSTypeOK,
                Paired, PhaseOK, EraseJustified
  <1> QED
    BY <1>1, ConstructSteady, PopSteady, ConnectSteady, ReadSteady, PlainSteady, WriteSteady,
       EndSteady, WorldSteady DEF Next, Servant, Transfer

(***************************************************************************)
(* In every reachable state the variables have their types, session and    *)
(* context are set and freed together, and the servant handles a           *)
(* descriptor exactly while it has one.                                    *)
(***************************************************************************)
THEOREM SteadyAlways == Spec => []Steady
  BY InitSteady, NextSteady, PTL DEF Spec

(***************************************************************************)
(* Waiting requests are never erased merely because the session has to     *)
(* wait.                                                                   *)
(***************************************************************************)
THEOREM EraseAlways == Spec => []EraseJustified
  <1>1. Steady => EraseJustified
    BY DEF Steady
  <1> QED
    BY <1>1, SteadyAlways, PTL

-----------------------------------------------------------------------------
(* Nothing that was reported waits unread. *)

Waiting == watched /\ unread # "nothing" /\ ~armed

\* The request to read is in the queue.
Queued == \E k \in DOMAIN que : que[k] = "READ"

LEMMA AppendQueued ==
    ASSUME que \in Seq(Req), NEW r \in Req, que' = Append(que, r)
    PROVE  (Queued => Queued') /\ (r = "READ" => Queued')
  <1>1. Len(que') = Len(que) + 1 /\ que'[Len(que) + 1] = r
    OBVIOUS
  <1>2. \A k \in 1..Len(que) : que'[k] = que[k]
    OBVIOUS
  <1>3. DOMAIN que = 1..Len(que) /\ DOMAIN que' = 1..Len(que') /\ Len(que) \in Nat
    OBVIOUS
  <1> QED
    BY <1>1, <1>2, <1>3 DEF Queued

LEMMA TailQueued ==
    ASSUME que \in Seq(Req), que # <<>>, que' = Tail(que), Head(que) # "READ"
    PROVE  Queued => Queued'
  <1> SUFFICES ASSUME NEW k \in DOMAIN que, que[k] = "READ" PROVE Queued'
    BY DEF Queued
  <1>1. k \in 1..Len(que) /\ Len(que) \in Nat /\ k # 1
    OBVIOUS
  <1>2. k - 1 \in 1..Len(que')
    BY <1>1
  <1>3. que'[k - 1] = que[k]
    BY <1>1
  <1>4. DOMAIN que' = 1..Len(que')
    OBVIOUS
  <1> QED
    BY <1>2, <1>3, <1>4 DEF Queued

LEMMA NextServed ==
    ASSUME Steady, NoStalledRecord, [Next]_vars
    PROVE  NoStalledRecord'
  <1> SUFFICES ASSUME alive', watched', unread' # "nothing", ~armed'
               PROVE  ReadUnderWay'
    BY DEF NoStalledRecord
  <1>1. Waiting => lines > 0 \/ pc \in {"read", "erase"} \/ Queued
    <2>1. CASE UNCHANGED vars
      BY <2>1 DEF vars, worldVars, NoStalledRecord, Waiting, ReadUnderWay, Queued
    <2>2. CASE Next
      BY <2>2 DEF Next, NoStalledRecord, Waiting, ReadUnderWay, Queued
    <2> QED
      BY <2>1, <2>2
  <1>2. lines \in Nat /\ que \in Seq(Req) /\ unread \in Unread
    BY DEF Steady, TypeOK, TLSTypeOK
  <1> USE DEF ReadUnderWay
  <1>3. CASE CreateContext \/ Construct
    BY <1>1, <1>3 DEF CreateContext, Construct, connVars, worldVars, Waiting, Queued, Steady,
                      PhaseOK, Constructing
  <1>4. CASE Drop
    <2>1. has
      BY <1>4 DEF Drop, Pop, connVars, Steady, PhaseOK
    <2>2. Head(que) = "CONNECT" /\ que # <<>> /\ que' = Tail(que)
      BY <1>4, <2>1 DEF Drop, Pop
    <2> QED
      BY <1>1, <1>2, <1>4, <2>2, TailQueued
         DEF Drop, Pop, connVars, worldVars, Waiting, Queued
  <1>5. CASE Take
    <2>1. CASE pc' = "read"
      BY <2>1
    <2>2. CASE pc' # "read"
      <3>1. Head(que) # "READ" /\ que # <<>> /\ que' = Tail(que)
        BY <1>5, <2>2 DEF Take, Pop, connVars, Steady, PhaseOK
      <3> QED
        BY <1>1, <1>2, <1>5, <3>1, TailQueued
           DEF Take, Pop, connVars, worldVars, Waiting, Queued
    <2> QED
      BY <2>1, <2>2
  <1>6. CASE Dial
    BY <1>6 DEF Dial, Steady, PhaseOK
  <1>7. CASE Secure
    BY <1>7 DEF Secure, Steady, PhaseOK
  <1>8. CASE SecureCrash
    BY <1>8 DEF SecureCrash
  <1>9. CASE Notify
    BY <1>9 DEF Notify, Readable
  <1>10. CASE Pause
    BY <1>1, <1>10 DEF Pause, connVars, worldVars, Waiting, Queued
  <1>11. CASE ReadSecure
    <2>1. pc' \in {"read", "erase", "wait", "close"}
      BY <1>11 DEF ReadSecure, ReadResult, LoopOn, LeaveLoop
    <2> QED
      BY <1>11, <2>1, ReadSteady
  <1>12. CASE ReadPlain
    <2>1. pc' \in {"read", "erase", "wait", "close"}
      BY <1>12 DEF ReadPlain, LoopOn, LeaveLoop
    <2> QED
      BY <1>12, <2>1, PlainSteady
  <1>13. CASE Erase
    BY <1>13 DEF Erase
  <1>14. CASE Write
    <2>1. Waiting /\ pc = "write" /\ UNCHANGED <<que, lines>>
      BY <1>14, WriteSteady DEF Write, worldVars, Waiting
    <2> QED
      BY <1>1, <2>1 DEF Queued
  <1>15. CASE Close
    BY <1>15 DEF Close
  <1>16. CASE MarkClosed
    BY <1>16 DEF MarkClosed, connVars, Steady, PhaseOK
  <1>17. CASE Waiter
    BY <1>2, <1>17 DEF Waiter, Readable
  <1>18. CASE StdIn
    <2>1. has /\ que' = Append(que, "READ")
      BY <1>18 DEF StdIn, connVars, Steady, PhaseOK
    <2> QED
      BY <1>2, <2>1, AppendQueued DEF Req, Queued
  <1>19. CASE User
    <2>1. PICK r \in Req : que' = Append(que, r)
      BY <1>19 DEF User
    <2> QED
      BY <1>1, <1>2, <1>19, <2>1, AppendQueued DEF User, connVars, Waiting, Queued
  <1>20. CASE Server
    <2>1. armed' = watched /\ watched' = watched
      BY <1>20 DEF Server, Deliver, ServerEnds
    <2> QED
      BY <2>1
  <1>21. CASE UNCHANGED vars
    BY <1>1, <1>21 DEF vars, connVars, peerVars, worldVars, Waiting, Queued
  <1> QED
    BY <1>3, <1>4, <1>5, <1>6, <1>7, <1>8, <1>9, <1>10, <1>11, <1>12, <1>13, <1>14, <1>15,
       <1>16, <1>17, <1>18, <1>19, <1>20, <1>21 DEF Next, Servant, Connect, Transfer

(***************************************************************************)
(* Every part of a handshake and every record that epoll reported is on    *)
(* its way to be read.                                                     *)
(***************************************************************************)
THEOREM RecordsServed == Spec => []NoStalledRecord
  <1>1. Init => NoStalledRecord
    BY DEF Init, TLSInit, NoStalledRecord
  <1>2. Steady /\ NoStalledRecord /\ [Next]_vars => NoStalledRecord'
    BY NextServed
  <1> QED
    BY <1>1, <1>2, SteadyAlways, PTL DEF Spec

(***************************************************************************)
(* The inductive invariant as a whole.                                     *)
(***************************************************************************)
THEOREM SecureInvariant == Spec => []Inv
  <1>1. Steady /\ NoStalledRecord => Inv
    BY DEF Steady, Inv
  <1> QED
    BY <1>1, SteadyAlways, RecordsServed, PTL
=============================================================================
