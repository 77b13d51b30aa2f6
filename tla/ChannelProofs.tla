----------------------------- MODULE ChannelProofs -----------------------------
(***************************************************************************)
(* Inv is an invariant of ControlChannel, for any number of instances, any *)
(* capacity of the message queue and any number of processes killed.       *)
(***************************************************************************)
EXTENDS ControlChannel, FiniteSetTheorems, TLAPS

USE ChannelAssumption

\* The parts of Inv that do not count.
Typed == TypeOK /\ OneFirst /\ Unsent /\ HandOK

PCs == {"off", "lock", "create", "register", "drain", "serve",
        "open", "send", "sent", "failed"}

\* Removing the first message loses no other line, and appending one adds it.
LEMMA TailLines ==
    ASSUME NEW S, NEW s \in Seq(S), s # <<>>
    PROVE  /\ Tail(s) \in Seq(S) /\ Len(Tail(s)) = Len(s) - 1
           /\ Head(s) \in S
           /\ Lines(s) = Lines(Tail(s)) \cup {Head(s)}
<1>1. /\ Tail(s) \in Seq(S) /\ Len(Tail(s)) = Len(s) - 1 /\ Head(s) \in S
      /\ Head(s) = s[1] /\ DOMAIN s = 1..Len(s) /\ DOMAIN Tail(s) = 1..(Len(s) - 1)
      /\ \A k \in 1..(Len(s) - 1) : Tail(s)[k] = s[k + 1]
      /\ Len(s) \in Nat \ {0}
    OBVIOUS
<1>2. Lines(s) \subseteq Lines(Tail(s)) \cup {Head(s)}
  <2> SUFFICES ASSUME NEW k \in 1..Len(s), k # 1
               PROVE  s[k] \in Lines(Tail(s))
      BY <1>1 DEF Lines
  <2>1. k - 1 \in 1..(Len(s) - 1) /\ Tail(s)[k - 1] = s[k]
      BY <1>1
  <2>2. QED
      BY <1>1, <2>1 DEF Lines
<1>3. Lines(Tail(s)) \cup {Head(s)} \subseteq Lines(s)
  <2>1. Head(s) \in Lines(s)
      BY <1>1 DEF Lines
  <2>2. ASSUME NEW k \in 1..(Len(s) - 1)
        PROVE  Tail(s)[k] \in Lines(s)
      BY <1>1 DEF Lines
  <2>3. QED
      BY <1>1, <2>1, <2>2 DEF Lines
<1>4. QED
    BY <1>1, <1>2, <1>3

LEMMA AppendLines ==
    ASSUME NEW S, NEW s \in Seq(S), NEW x \in S
    PROVE  /\ Append(s, x) \in Seq(S) /\ Len(Append(s, x)) = Len(s) + 1
           /\ Lines(Append(s, x)) = Lines(s) \cup {x}
<1>1. /\ Append(s, x) \in Seq(S) /\ Len(Append(s, x)) = Len(s) + 1
      /\ DOMAIN s = 1..Len(s) /\ DOMAIN Append(s, x) = 1..(Len(s) + 1)
      /\ Append(s, x)[Len(s) + 1] = x
      /\ \A k \in 1..Len(s) : Append(s, x)[k] = s[k]
      /\ Len(s) \in Nat
    OBVIOUS
<1>2. Lines(Append(s, x)) \subseteq Lines(s) \cup {x}
  <2> SUFFICES ASSUME NEW k \in 1..(Len(s) + 1), k # Len(s) + 1
               PROVE  Append(s, x)[k] \in Lines(s)
      BY <1>1 DEF Lines
  <2>1. k \in 1..Len(s)
      BY <1>1
  <2>2. QED
      BY <1>1, <2>1 DEF Lines
<1>3. Lines(s) \cup {x} \subseteq Lines(Append(s, x))
  <2>1. x \in Lines(Append(s, x))
    <3>1. Len(s) + 1 \in 1..(Len(s) + 1)
        BY <1>1
    <3>2. QED
        BY <1>1, <3>1 DEF Lines
  <2>2. ASSUME NEW k \in 1..Len(s)
        PROVE  s[k] \in Lines(Append(s, x))
    <3>1. k \in 1..(Len(s) + 1) /\ Append(s, x)[k] = s[k]
        BY <1>1
    <3>2. QED
        BY <1>1, <3>1 DEF Lines
  <2>3. QED
      BY <1>1, <2>1, <2>2 DEF Lines
<1>4. QED
    BY <1>1, <1>2, <1>3

\* At first no process runs.
LEMMA InitTyped == Init => Typed
<1> SUFFICES ASSUME Init PROVE Typed
    OBVIOUS
<1>1. Lines(mq) = {} /\ Len(mq) = 0 /\ mq \in Seq(Instance)
      /\ queue \in Seq(Instance \cup {Garbage})
    BY DEF Init, Lines
<1>2. TypeOK
  <2>1. pc \in [Instance -> PCs] /\ cb \in [Instance -> {"none", "renew", "receive", "push"}]
        /\ hand \in [Instance -> Instance \cup {None, Garbage}]
      BY DEF Init, PCs
  <2>2. lock \in Instance \cup {None} /\ exists \in BOOLEAN /\ reg \in BOOLEAN
        /\ since \in SUBSET Instance /\ dropped \in SUBSET Instance
      BY DEF Init
  <2>3. Len(mq) <= MaxMsg /\ kills \in 0..MaxKill
      BY <1>1 DEF Init
  <2>4. QED
      BY <1>1, <2>1, <2>2, <2>3 DEF TypeOK, PCs
<1>3. OneFirst
    BY DEF Init, OneFirst
<1>4. Unsent /\ HandOK
    BY <1>1 DEF Init, Unsent, HandOK, Pending, Misled
<1>5. QED
    BY <1>2, <1>3, <1>4 DEF Typed

-----------------------------------------------------------------------------
(* Types, the lock, and where lines can be: one lemma per kind of step. *)

\* Steps of a process up to mq_notify or mq_send touch neither lines nor threads.
LEMMA ProcessTyped ==
    ASSUME Typed, NEW i \in Instance,
           Start(i) \/ TakeLock(i) \/ Create(i) \/ Register(i) \/ Fail(i) \/ Open(i)
    PROVE  Typed'
<1>1. /\ UNCHANGED <<mq, threadVars, historyVars, kills>>
      /\ pc[i] \notin {"sent", "serve", "drain"}
    BY DEF Start, TakeLock, Create, Register, Fail, Open, kernelVars, threadVars,
           historyVars
<1>2. pc' \in [Instance -> PCs] /\ lock' \in Instance \cup {None}
    BY DEF Typed, TypeOK, Start, TakeLock, Create, Register, Fail, Open, Goto, PCs
<1>3. exists' \in BOOLEAN /\ reg' \in BOOLEAN
    BY DEF Typed, TypeOK, Start, TakeLock, Create, Register, Fail, Open, kernelVars
<1>4. TypeOK'
    BY <1>1, <1>2, <1>3 DEF Typed, TypeOK, threadVars, historyVars, PCs
<1>5. OneFirst'
    BY DEF Typed, TypeOK, OneFirst, Start, TakeLock, Create, Register, Fail, Open, Goto
<1>6. \A j \in Instance : pc'[j] # "sent" => pc[j] # "sent"
    BY <1>1 DEF Typed, TypeOK, Start, TakeLock, Create, Register, Fail, Open, Goto
<1>7. Unsent'
    BY <1>1, <1>6 DEF Typed, Unsent, threadVars, historyVars
<1>8. Registered => Registered'
    BY <1>1 DEF Typed, TypeOK, OneFirst, Registered, Start, TakeLock, Create, Register,
                Fail, Open, Goto
<1>9. HandOK'
    BY <1>1, <1>8 DEF Typed, HandOK, Pending, Misled, threadVars
<1>10. QED
    BY <1>4, <1>5, <1>7, <1>9 DEF Typed

LEMMA DrainTyped ==
    ASSUME Typed, NEW i \in Instance, Drain(i)
    PROVE  Typed'
<1>1. CASE mq = <<>>
  <2>1. TypeOK'
      BY <1>1 DEF Typed, TypeOK, Drain, Goto, threadVars
  <2>2. OneFirst'
      BY <1>1 DEF Typed, TypeOK, OneFirst, Drain, Goto
  <2>3. Unsent'
      BY <1>1 DEF Typed, TypeOK, Unsent, Drain, Goto, threadVars
  <2>4. HandOK'
      BY <1>1 DEF Typed, TypeOK, OneFirst, HandOK, Pending, Misled, Registered, Drain,
                  Goto, threadVars
  <2>5. QED
      BY <2>1, <2>2, <2>3, <2>4 DEF Typed
<1>2. CASE mq # <<>>
  <2>1. /\ mq' = Tail(mq) /\ dropped' = dropped \cup {Head(mq)}
        /\ UNCHANGED <<pc, lock, kills, exists, reg, cb, hand, queue, since>>
      BY <1>2 DEF Drain, threadVars
  <2>2. /\ mq' \in Seq(Instance) /\ Len(mq') <= MaxMsg /\ Head(mq) \in Instance
        /\ Lines(mq) = Lines(mq') \cup {Head(mq)}
      BY <1>2, <2>1, TailLines DEF Typed, TypeOK
  <2>3. TypeOK'
      BY <2>1, <2>2 DEF Typed, TypeOK
  <2>4. OneFirst'
      BY <2>1 DEF Typed, OneFirst
  <2>5. Unsent'
      BY <2>1, <2>2 DEF Typed, Unsent
  <2>6. HandOK'
      BY <2>1 DEF Typed, HandOK, Pending, Misled, Registered
  <2>7. QED
      BY <2>3, <2>4, <2>5, <2>6 DEF Typed
<1>3. QED
    BY <1>1, <1>2

LEMMA SendTyped ==
    ASSUME Typed, NEW i \in Instance, Send(i)
    PROVE  Typed'
<1>1. /\ mq' \in Seq(Instance) /\ Len(mq') <= MaxMsg
      /\ Lines(mq') = Lines(mq) \cup {i}
    BY AppendLines DEF Typed, TypeOK, Send
<1>2. /\ pc' = [pc EXCEPT ![i] = "sent"] /\ since' \subseteq since \cup {i}
      /\ \/ reg' = FALSE /\ cb' = [cb EXCEPT ![i] = "renew"]
         \/ UNCHANGED <<reg, cb>>
      /\ UNCHANGED <<lock, kills, exists, hand, queue, dropped>>
      /\ pc[i] = "send"
    BY DEF Send, Goto
<1>3. TypeOK'
    BY <1>1, <1>2 DEF Typed, TypeOK
<1>4. OneFirst'
    BY <1>2 DEF Typed, TypeOK, OneFirst
<1>5. Unsent'
    BY <1>1, <1>2 DEF Typed, TypeOK, Unsent
<1>6. /\ Pending' \subseteq Pending \cup {i} /\ Misled' = Misled
      /\ \A t \in Instance : cb'[t] = "push" => cb[t] = "push"
    BY <1>2 DEF Typed, TypeOK, Pending, Misled
<1>7. Registered' = Registered
    BY <1>2 DEF Typed, TypeOK, Registered
<1>8. hand[i] = None
    BY <1>2 DEF Typed, Unsent
<1>9. HandOK'
    BY <1>2, <1>6, <1>7, <1>8 DEF Typed, HandOK
<1>10. QED
    BY <1>3, <1>4, <1>5, <1>9 DEF Typed

\* A thread of new_msg_queue was started for a line that was sent.
LEMMA ThreadTyped ==
    ASSUME Typed, NEW t \in Instance, NewMsgQueue(t), Registered
    PROVE  Typed'
<1>1. /\ cb[t] # "none" /\ pc[t] = "sent"
      /\ UNCHANGED <<pc, lock, kills, exists, since, dropped>>
    BY DEF Typed, Unsent, NewMsgQueue, Renew, Receive, Push, processVars, kernelVars,
           historyVars
<1>2. OneFirst' /\ Registered'
    BY <1>1 DEF Typed, OneFirst, Registered
<1>3. CASE Renew(t)
  <2>1. TypeOK'
      BY <1>1, <1>3 DEF Typed, TypeOK, Renew, historyVars
  <2>2. Unsent'
      BY <1>1, <1>3 DEF Typed, TypeOK, Unsent, Renew
  <2>3. HandOK'
      BY <1>2, <1>3 DEF Typed, TypeOK, HandOK, Pending, Renew
  <2>4. QED
      BY <1>2, <2>1, <2>2, <2>3 DEF Typed
<1>4. CASE Receive(t)
  <2>1. /\ mq' \in Seq(Instance) /\ Len(mq') <= MaxMsg /\ Lines(mq') \subseteq Lines(mq)
        /\ hand' \in [Instance -> Instance \cup {None, Garbage}]
    <3>1. CASE mq = <<>>
        BY <1>4, <3>1 DEF Typed, TypeOK, Receive, MqReceive
    <3>2. CASE mq # <<>>
      <4>1. mq' = Tail(mq) /\ hand' = [hand EXCEPT ![t] = Head(mq)]
          BY <1>4, <3>2 DEF Receive, MqReceive
      <4>2. Head(mq) \in Instance /\ Len(mq) \in Nat
          BY <3>2, TailLines DEF Typed, TypeOK
      <4>3. QED
          BY <3>2, <4>1, <4>2, TailLines DEF Typed, TypeOK
    <3>3. QED
        BY <3>1, <3>2
  <2>2. \A u \in Instance \ {t} : hand'[u] = hand[u] /\ cb'[u] = cb[u]
      BY <1>4 DEF Typed, TypeOK, Receive, MqReceive
  <2>3. TypeOK'
      BY <1>1, <1>4, <2>1 DEF Typed, TypeOK, Receive, historyVars
  <2>4. Unsent'
      BY <1>1, <2>1, <2>2 DEF Typed, Unsent
  <2>5. cb'[t] = "push" /\ hand'[t] # None
    <3>1. mq # <<>> => Head(mq) \in Instance
        BY TailLines DEF Typed, TypeOK
    <3>2. QED
        BY <1>4, <3>1 DEF Typed, TypeOK, Receive, MqReceive
  <2>6. HandOK'
      BY <1>2, <2>2, <2>5 DEF Typed, HandOK, Pending
  <2>7. QED
      BY <1>2, <2>3, <2>4, <2>6 DEF Typed
<1>5. CASE Push(t)
  <2>1. queue' \in Seq(Instance \cup {Garbage})
    <3>1. hand[t] \in Instance \cup {Garbage}
        BY <1>5 DEF Typed, TypeOK, HandOK, Push
    <3>2. QED
        BY <1>5, <3>1 DEF Typed, TypeOK, Push
  <2>2. TypeOK'
      BY <1>1, <1>5, <2>1 DEF Typed, TypeOK, Push, kernelVars
  <2>3. Unsent'
      BY <1>1, <1>5 DEF Typed, TypeOK, Unsent, Push, kernelVars
  <2>4. HandOK'
      BY <1>2, <1>5 DEF Typed, TypeOK, HandOK, Pending, Push
  <2>5. QED
      BY <1>2, <2>2, <2>3, <2>4 DEF Typed
<1>6. QED
    BY <1>3, <1>4, <1>5 DEF NewMsgQueue

\* With the first instance its threads and its registration end.
LEMMA KillTyped ==
    ASSUME Typed, NEW i \in Instance, Kill(i)
    PROVE  Typed'
<1>1. /\ pc' = [pc EXCEPT ![i] = "failed"] /\ pc[i] # "sent"
      /\ kills' \in 0..MaxKill
      /\ UNCHANGED <<exists, mq, queue, dropped>>
    BY DEF Typed, TypeOK, Kill, Goto
<1>2. CASE lock = i
  <2>1. /\ lock' = None /\ reg' = FALSE /\ since' = {}
        /\ cb' = [t \in Instance |-> "none"]
        /\ hand' = [t \in Instance |-> None]
      BY <1>2 DEF Kill
  <2>2. TypeOK'
      BY <1>1, <2>1 DEF Typed, TypeOK
  <2>3. OneFirst'
      BY <1>1, <1>2, <2>1 DEF Typed, TypeOK, OneFirst
  <2>4. Unsent'
      BY <1>1, <2>1 DEF Typed, TypeOK, Unsent
  <2>5. HandOK'
      BY <2>1 DEF HandOK, Pending, Misled
  <2>6. QED
      BY <2>2, <2>3, <2>4, <2>5 DEF Typed
<1>3. CASE lock # i
  <2>1. UNCHANGED <<lock, reg, since, cb, hand>>
      BY <1>3 DEF Kill, threadVars
  <2>2. TypeOK'
      BY <1>1, <2>1 DEF Typed, TypeOK
  <2>3. OneFirst'
      BY <1>1, <1>3, <2>1 DEF Typed, TypeOK, OneFirst
  <2>4. Unsent'
      BY <1>1, <2>1 DEF Typed, TypeOK, Unsent
  <2>5. HandOK'
      BY <1>1, <1>3, <2>1 DEF Typed, TypeOK, HandOK, Pending, Misled, Registered
  <2>6. QED
      BY <2>2, <2>3, <2>4, <2>5 DEF Typed
<1>4. QED
    BY <1>2, <1>3

\* Threads run only for a first instance that is past mq_notify.
LEMMA ThreadsServe ==
    ASSUME OneListener, NEW t \in Instance, NewMsgQueue(t)
    PROVE  Registered
BY DEF OneListener, NewMsgQueue, Renew, Receive, Push

LEMMA NextTyped == Typed /\ OneListener /\ [Next]_vars => Typed'
<1> SUFFICES ASSUME Typed, OneListener, [Next]_vars
             PROVE  Typed'
    OBVIOUS
<1>1. CASE UNCHANGED vars
    BY <1>1 DEF vars, processVars, kernelVars, threadVars, historyVars, Typed, TypeOK,
                OneFirst, Unsent, HandOK, Pending, Misled, Registered
<1>2. ASSUME NEW i \in Instance, Start(i) \/ Step(i) \/ Kill(i)
      PROVE  Typed'
    BY <1>2, ProcessTyped, DrainTyped, SendTyped, ThreadsServe, ThreadTyped, KillTyped
       DEF Step, First, Later
<1>3. QED
    BY <1>1, <1>2 DEF Next

-----------------------------------------------------------------------------
(* One registration. *)

\* The registration is used up by the thread that will renew it.
LEMMA SendListens ==
    ASSUME Typed, OneListener, NEW i \in Instance, Send(i)
    PROVE  OneListener'
<1>1. Registered' = Registered /\ cb[i] = "none"
    BY DEF Typed, TypeOK, Unsent, Registered, Send, Goto
<1>2. CASE mq = <<>> /\ reg
  <2>1. reg' = FALSE /\ cb' = [cb EXCEPT ![i] = "renew"] /\ Registered
      BY <1>2 DEF Send, OneListener
  <2>2. Cardinality(Renewing) = 0 /\ IsFiniteSet(Renewing)
    <3>1. Renewing \subseteq Instance
        BY DEF Renewing
    <3>2. QED
        BY <1>2, <2>1, <3>1, FS_Subset DEF OneListener
  <2>3. Renewing = {}
      BY <2>2, FS_EmptySet
  <2>4. Renewing' = {i}
      BY <2>1, <2>3 DEF Typed, TypeOK, Renewing
  <2>5. Cardinality(Renewing') = 1
      BY <2>4, FS_Singleton
  <2>6. QED
      BY <1>1, <2>1, <2>5 DEF OneListener
<1>3. CASE ~(mq = <<>> /\ reg)
  <2>1. UNCHANGED <<reg, cb>>
      BY <1>3 DEF Send
  <2>2. QED
      BY <1>1, <2>1 DEF OneListener, Renewing
<1>4. QED
    BY <1>2, <1>3

\* The thread registers and is no longer one that will.
LEMMA RenewListens ==
    ASSUME Typed, OneListener, NEW t \in Instance, Renew(t)
    PROVE  OneListener'
<1>1. Registered /\ Registered' /\ reg'
    BY ThreadsServe DEF Renew, NewMsgQueue, Registered, processVars
<1>2. Renewing \subseteq Instance /\ t \in Renewing
    BY DEF Renewing, Renew
<1>3. IsFiniteSet(Renewing) /\ Cardinality(Renewing) \in Nat
    BY <1>2, FS_Subset, FS_CardinalityType
<1>4. Cardinality(Renewing) = 1
  <2>1. Cardinality(Renewing) # 0
      BY <1>2, <1>3, FS_EmptySet
  <2>2. QED
      BY <1>1, <2>1 DEF OneListener
<1>5. Renewing' = Renewing \ {t}
    BY DEF Typed, TypeOK, Renewing, Renew
<1>6. Cardinality(Renewing') = 0
  <2>1. Cardinality(Renewing \ {t}) = Cardinality(Renewing) - 1
      BY <1>2, <1>3, FS_RemoveElement
  <2>2. QED
      BY <1>4, <1>5, <2>1
<1>7. QED
    BY <1>1, <1>6 DEF OneListener

LEMMA RegisterListens ==
    ASSUME Typed, OneListener, NEW i \in Instance, Register(i)
    PROVE  OneListener'
<1>1. lock = i /\ ~Registered
    BY DEF Typed, OneFirst, Registered, Register
<1>2. cb' = [t \in Instance |-> "none"] /\ reg' = TRUE /\ Registered'
    BY <1>1 DEF Typed, TypeOK, OneListener, Registered, Register, Goto, threadVars
<1>3. Renewing' = {}
    BY <1>2 DEF Renewing
<1>4. Cardinality(Renewing') = 0
    BY <1>3, FS_EmptySet
<1>5. QED
    BY <1>2, <1>4 DEF OneListener

\* Every other step leaves registration and renewals alone, or ends both.
LEMMA NextListens == Typed /\ OneListener /\ [Next]_vars => OneListener'
<1> SUFFICES ASSUME Typed, OneListener, [Next]_vars
             PROVE  OneListener'
    OBVIOUS
<1>1. CASE UNCHANGED vars
    BY <1>1 DEF vars, processVars, kernelVars, threadVars, OneListener, Registered,
                Renewing
<1>2. ASSUME NEW i \in Instance,
             Start(i) \/ TakeLock(i) \/ Create(i) \/ Fail(i) \/ Open(i) \/ Drain(i)
      PROVE  OneListener'
  <2>1. UNCHANGED <<reg, cb>>
      BY <1>2 DEF Start, TakeLock, Create, Fail, Open, Drain, kernelVars, threadVars
  <2>2. Registered' = Registered
      BY <1>2 DEF Typed, TypeOK, OneFirst, Registered, Start, TakeLock, Create, Fail,
                  Open, Drain, Goto
  <2>3. QED
      BY <2>1, <2>2 DEF OneListener, Renewing
<1>3. ASSUME NEW t \in Instance, Receive(t) \/ Push(t)
      PROVE  OneListener'
  <2>1. Registered /\ Registered'
      BY <1>3, ThreadsServe DEF NewMsgQueue, Registered, Receive, Push, processVars
  <2>2. Renewing' = Renewing /\ reg' = reg
      BY <1>3 DEF Typed, TypeOK, Renewing, Receive, Push, kernelVars
  <2>3. QED
      BY <2>1, <2>2 DEF OneListener
<1>4. ASSUME NEW i \in Instance, Kill(i)
      PROVE  OneListener'
  <2>1. CASE lock = i
      BY <1>4, <2>1 DEF OneListener, Registered, Kill
  <2>2. CASE lock # i
    <3>1. UNCHANGED <<lock, reg, cb>>
        BY <1>4, <2>2 DEF Kill, threadVars
    <3>2. Registered' = Registered
        BY <1>4, <2>2, <3>1 DEF Typed, TypeOK, Registered, Kill, Goto
    <3>3. QED
        BY <3>1, <3>2 DEF OneListener, Renewing
  <2>3. QED
      BY <2>1, <2>2
<1>5. QED
    BY <1>1, <1>2, <1>3, <1>4, SendListens, RenewListens, RegisterListens
       DEF Next, Step, First, Later, NewMsgQueue

-----------------------------------------------------------------------------
(* Every thread that found nothing is paid for by a line removed at start. *)

Owed == Pending \cup Misled

Stock == since \cap (Lines(mq) \cup dropped)

\* One element more or less changes the size by at most one.
LEMMA AddsOne ==
    ASSUME NEW S, IsFiniteSet(S), NEW x
    PROVE  IsFiniteSet(S \cup {x}) /\ Cardinality(S \cup {x}) <= Cardinality(S) + 1
<1>1. Cardinality(S) \in Nat
    BY FS_CardinalityType
<1>2. CASE x \in S
  <2>1. S \cup {x} = S
      BY <1>2
  <2>2. Cardinality(S \cup {x}) = Cardinality(S)
      BY <2>1
  <2>3. IsFiniteSet(S \cup {x})
      BY <2>1
  <2>4. QED
      BY <1>1, <2>2, <2>3
<1>3. CASE x \notin S
  <2>1. IsFiniteSet(S \cup {x}) /\ Cardinality(S \cup {x}) = Cardinality(S) + 1
      BY <1>3, FS_AddElement
  <2>2. QED
      BY <1>1, <2>1
<1>4. QED
    BY <1>2, <1>3

LEMMA TakesOne ==
    ASSUME NEW S, IsFiniteSet(S), NEW x
    PROVE  IsFiniteSet(S \ {x}) /\ Cardinality(S) <= Cardinality(S \ {x}) + 1
<1>1. Cardinality(S) \in Nat
    BY FS_CardinalityType
<1>2. CASE x \in S
  <2>1. IsFiniteSet(S \ {x}) /\ Cardinality(S \ {x}) = Cardinality(S) - 1
      BY <1>2, FS_RemoveElement
  <2>2. QED
      BY <1>1, <2>1
<1>3. CASE x \notin S
  <2>1. S \ {x} = S
      BY <1>3
  <2>2. Cardinality(S \ {x}) = Cardinality(S)
      BY <2>1
  <2>3. IsFiniteSet(S \ {x})
      BY <2>1
  <2>4. QED
      BY <1>1, <2>2, <2>3
<1>4. QED
    BY <1>2, <1>3

\* With no more threads and no fewer lines the balance stays.
LEMMA Keeps ==
    ASSUME Typed, Typed', Balanced, Owed' \subseteq Owed, Stock \subseteq Stock'
    PROVE  Balanced'
<1>1. IsFiniteSet(Owed) /\ IsFiniteSet(Stock')
  <2>1. Owed \subseteq Instance
      BY DEF Owed, Pending, Misled
  <2>2. Stock' \subseteq Instance
      BY DEF Typed, TypeOK, Stock
  <2>3. QED
      BY <2>1, <2>2, FS_Subset
<1>2. IsFiniteSet(Owed') /\ Cardinality(Owed') <= Cardinality(Owed)
    BY <1>1, FS_Subset
<1>3. IsFiniteSet(Stock) /\ Cardinality(Stock) <= Cardinality(Stock')
    BY <1>1, FS_Subset
<1>4. /\ Cardinality(Owed) \in Nat /\ Cardinality(Owed') \in Nat
      /\ Cardinality(Stock) \in Nat /\ Cardinality(Stock') \in Nat
    BY <1>1, <1>2, <1>3, FS_CardinalityType
<1>5. Cardinality(Owed) <= Cardinality(Stock)
    BY DEF Balanced, Owed, Stock
<1>6. Cardinality(Owed') <= Cardinality(Stock')
    BY <1>2, <1>3, <1>4, <1>5
<1>7. QED
    BY <1>6 DEF Balanced, Owed, Stock

\* A thread is started only for a line that is new in the queue.
LEMMA SendBalanced ==
    ASSUME Typed, Typed', OneListener, Balanced, NEW i \in Instance, Send(i)
    PROVE  Balanced'
<1>1. Lines(mq') = Lines(mq) \cup {i}
    BY AppendLines DEF Typed, TypeOK, Send
<1>2. hand' = hand /\ dropped' = dropped
    BY DEF Send
<1>3. CASE Registered
  <2>1. since' = since \cup {i}
      BY <1>3 DEF Send
  <2>2. i \notin Stock /\ Stock \cup {i} \subseteq Stock'
      BY <1>1, <1>2, <2>1 DEF Typed, Unsent, Stock, Send
  <2>3. Owed' \subseteq Owed \cup {i}
      BY <1>2 DEF Typed, TypeOK, Owed, Pending, Misled, Send
  <2>4. IsFiniteSet(Owed) /\ IsFiniteSet(Stock) /\ IsFiniteSet(Stock')
    <3>1. Owed \subseteq Instance
        BY DEF Owed, Pending, Misled
    <3>2. Stock \subseteq Instance /\ Stock' \subseteq Instance
        BY DEF Typed, TypeOK, Stock
    <3>3. QED
        BY <3>1, <3>2, FS_Subset
  <2>5. IsFiniteSet(Owed \cup {i}) /\ Cardinality(Owed \cup {i}) <= Cardinality(Owed) + 1
      BY <2>4, AddsOne
  <2>6. IsFiniteSet(Owed') /\ Cardinality(Owed') <= Cardinality(Owed \cup {i})
      BY <2>3, <2>5, FS_Subset
  <2>7. Cardinality(Stock \cup {i}) = Cardinality(Stock) + 1
      BY <2>2, <2>4, FS_AddElement
  <2>8. IsFiniteSet(Stock \cup {i}) /\ Cardinality(Stock \cup {i}) <= Cardinality(Stock')
      BY <2>2, <2>4, FS_Subset
  <2>9. /\ Cardinality(Owed) \in Nat /\ Cardinality(Owed') \in Nat
        /\ Cardinality(Owed \cup {i}) \in Nat /\ Cardinality(Stock \cup {i}) \in Nat
        /\ Cardinality(Stock) \in Nat /\ Cardinality(Stock') \in Nat
      BY <2>4, <2>5, <2>6, <2>8, FS_CardinalityType
  <2>10. Cardinality(Owed) <= Cardinality(Stock)
      BY DEF Balanced, Owed, Stock
  <2>11. Cardinality(Owed') <= Cardinality(Stock')
      BY <2>5, <2>6, <2>7, <2>8, <2>9, <2>10
  <2>12. QED
      BY <2>11 DEF Balanced, Owed, Stock
<1>4. CASE ~Registered
  <2>1. cb' = cb /\ since' = since
      BY <1>4 DEF Send, OneListener
  <2>2. Owed' \subseteq Owed /\ Stock \subseteq Stock'
      BY <1>1, <1>2, <2>1 DEF Owed, Pending, Misled, Stock
  <2>3. QED
      BY <2>2, Keeps
<1>5. QED
    BY <1>3, <1>4

\* A thread that receives takes one line for itself; one that finds nothing
\* stays owed.
LEMMA ReceiveBalanced ==
    ASSUME Typed, Typed', Balanced, NEW t \in Instance, Receive(t)
    PROVE  Balanced'
<1>1. /\ cb' = [cb EXCEPT ![t] = "push"] /\ since' = since /\ dropped' = dropped
      /\ t \in Owed
    BY DEF Receive, historyVars, Owed, Pending
<1>2. CASE mq = <<>>
  <2>1. hand' = [hand EXCEPT ![t] = Garbage] /\ mq' = mq
      BY <1>2 DEF Receive, MqReceive
  <2>2. Owed' \subseteq Owed
      BY <1>1, <2>1 DEF Typed, TypeOK, Owed, Pending, Misled
  <2>3. Stock' = Stock
      BY <1>1, <2>1 DEF Stock
  <2>4. QED
      BY <2>2, <2>3, Keeps
<1>3. CASE mq # <<>>
  <2>1. hand' = [hand EXCEPT ![t] = Head(mq)] /\ mq' = Tail(mq)
      BY <1>3 DEF Receive, MqReceive
  <2>2. Head(mq) \in Instance /\ Lines(mq) = Lines(mq') \cup {Head(mq)}
      BY <1>3, <2>1, TailLines DEF Typed, TypeOK
  <2>3. Owed' \subseteq Owed \ {t}
      BY <1>1, <2>1, <2>2 DEF Typed, TypeOK, Owed, Pending, Misled
  <2>4. Stock \ {Head(mq)} \subseteq Stock'
      BY <1>1, <2>2 DEF Stock
  <2>5. IsFiniteSet(Owed) /\ IsFiniteSet(Stock) /\ IsFiniteSet(Stock')
    <3>1. Owed \subseteq Instance
        BY DEF Owed, Pending, Misled
    <3>2. Stock \subseteq Instance /\ Stock' \subseteq Instance
        BY DEF Typed, TypeOK, Stock
    <3>3. QED
        BY <3>1, <3>2, FS_Subset
  <2>6. IsFiniteSet(Owed \ {t}) /\ Cardinality(Owed \ {t}) = Cardinality(Owed) - 1
      BY <1>1, <2>5, FS_RemoveElement
  <2>7. IsFiniteSet(Owed') /\ Cardinality(Owed') <= Cardinality(Owed \ {t})
      BY <2>3, <2>6, FS_Subset
  <2>8. /\ IsFiniteSet(Stock \ {Head(mq)})
        /\ Cardinality(Stock) <= Cardinality(Stock \ {Head(mq)}) + 1
      BY <2>5, TakesOne
  <2>9. Cardinality(Stock \ {Head(mq)}) <= Cardinality(Stock')
      BY <2>4, <2>5, FS_Subset
  <2>10. /\ Cardinality(Owed) \in Nat /\ Cardinality(Owed') \in Nat
         /\ Cardinality(Owed \ {t}) \in Nat /\ Cardinality(Stock \ {Head(mq)}) \in Nat
         /\ Cardinality(Stock) \in Nat /\ Cardinality(Stock') \in Nat
      BY <2>5, <2>6, <2>7, <2>8, FS_CardinalityType
  <2>11. Cardinality(Owed) <= Cardinality(Stock)
      BY DEF Balanced, Owed, Stock
  <2>12. Cardinality(Owed') <= Cardinality(Stock')
      BY <2>6, <2>7, <2>8, <2>9, <2>10, <2>11
  <2>13. QED
      BY <2>12 DEF Balanced, Owed, Stock
<1>4. QED
    BY <1>2, <1>3

\* The loop at start only moves a line from the queue to those removed.
LEMMA DrainBalanced ==
    ASSUME Typed, Typed', Balanced, NEW i \in Instance, Drain(i)
    PROVE  Balanced'
<1>1. cb' = cb /\ hand' = hand /\ since' = since
    BY DEF Drain, threadVars
<1>2. Owed' = Owed
    BY <1>1 DEF Owed, Pending, Misled
<1>3. Stock' = Stock
  <2>1. CASE mq = <<>>
      BY <1>1, <2>1 DEF Drain, Stock
  <2>2. CASE mq # <<>>
    <3>1. mq' = Tail(mq) /\ dropped' = dropped \cup {Head(mq)}
        BY <2>2 DEF Drain
    <3>2. Lines(mq) = Lines(mq') \cup {Head(mq)}
        BY <2>2, <3>1, TailLines DEF Typed, TypeOK
    <3>3. QED
        BY <1>1, <3>1, <3>2 DEF Stock
  <2>3. QED
      BY <2>1, <2>2
<1>4. QED
    BY <1>2, <1>3, Keeps

\* The other steps start no thread and remove no line.
LEMMA NextBalanced ==
    ASSUME Typed, Typed', OneListener, Balanced, [Next]_vars
    PROVE  Balanced'
<1>1. CASE UNCHANGED vars
    BY <1>1 DEF vars, processVars, kernelVars, threadVars, historyVars, Balanced,
                Pending, Misled
<1>2. ASSUME NEW i \in Instance,
             \/ Start(i) \/ TakeLock(i) \/ Create(i) \/ Register(i) \/ Fail(i) \/ Open(i)
      PROVE  Balanced'
  <2>1. UNCHANGED <<mq, cb, hand, since, dropped>>
      BY <1>2 DEF Start, TakeLock, Create, Register, Fail, Open, kernelVars, threadVars,
                  historyVars
  <2>2. QED
      BY <2>1 DEF Balanced, Pending, Misled
<1>3. ASSUME NEW t \in Instance, Renew(t) \/ Push(t)
      PROVE  Balanced'
  <2>1. UNCHANGED <<mq, hand, since, dropped>> /\ Pending' \subseteq Pending
      BY <1>3 DEF Typed, TypeOK, Pending, Renew, Push, historyVars, kernelVars
  <2>2. Owed' \subseteq Owed /\ Stock' = Stock
      BY <2>1 DEF Owed, Misled, Stock
  <2>3. QED
      BY <2>2, Keeps
<1>4. ASSUME NEW i \in Instance, Kill(i)
      PROVE  Balanced'
  <2>1. CASE lock = i
    <3>1. Owed' = {}
        BY <1>4, <2>1 DEF Owed, Pending, Misled, Kill
    <3>2. Stock' \subseteq Instance
        BY DEF Typed, TypeOK, Stock
    <3>3. Cardinality(Owed') = 0 /\ Cardinality(Stock') \in Nat
        BY <3>1, <3>2, FS_EmptySet, FS_Subset, FS_CardinalityType
    <3>4. QED
        BY <3>3 DEF Balanced, Owed, Stock
  <2>2. CASE lock # i
    <3>1. UNCHANGED <<mq, cb, hand, since, dropped>>
        BY <1>4, <2>2 DEF Kill, threadVars
    <3>2. QED
        BY <3>1 DEF Balanced, Pending, Misled
  <2>3. QED
      BY <2>1, <2>2
<1>5. QED
    BY <1>1, <1>2, <1>3, <1>4, SendBalanced, ReceiveBalanced, DrainBalanced
       DEF Next, Step, First, Later, NewMsgQueue

\* A thread that finds nothing finds the queue empty: all that balances it was
\* removed at start.
LEMMA NextPaid ==
    ASSUME Typed, Typed', OneListener, Balanced, Balanced', RubbishPaid, [Next]_vars
    PROVE  RubbishPaid'
<1>1. ASSUME Misled' \subseteq Misled, since \cap dropped \subseteq since' \cap dropped'
      PROVE  RubbishPaid'
  <2>1. Misled \subseteq Instance /\ since' \cap dropped' \subseteq Instance
      BY DEF Misled, Typed, TypeOK
  <2>2. IsFiniteSet(Misled) /\ IsFiniteSet(since' \cap dropped')
      BY <2>1, FS_Subset
  <2>3. IsFiniteSet(Misled') /\ Cardinality(Misled') <= Cardinality(Misled)
      BY <1>1, <2>2, FS_Subset
  <2>4. /\ IsFiniteSet(since \cap dropped)
        /\ Cardinality(since \cap dropped) <= Cardinality(since' \cap dropped')
      BY <1>1, <2>2, FS_Subset
  <2>5. /\ Cardinality(Misled) \in Nat /\ Cardinality(Misled') \in Nat
        /\ Cardinality(since \cap dropped) \in Nat
        /\ Cardinality(since' \cap dropped') \in Nat
      BY <2>2, <2>3, <2>4, FS_CardinalityType
  <2>6. Cardinality(Misled') <= Cardinality(since' \cap dropped')
      BY <2>3, <2>4, <2>5 DEF RubbishPaid
  <2>7. QED
      BY <2>6 DEF RubbishPaid
<1>2. ASSUME Misled' = {}
      PROVE  RubbishPaid'
  <2>1. since' \cap dropped' \subseteq Instance
      BY DEF Typed, TypeOK
  <2>2. Cardinality(Misled') = 0 /\ Cardinality(since' \cap dropped') \in Nat
      BY <1>2, <2>1, FS_EmptySet, FS_Subset, FS_CardinalityType
  <2>3. QED
      BY <2>2 DEF RubbishPaid
<1>3. CASE UNCHANGED vars
    BY <1>3 DEF vars, threadVars, historyVars, RubbishPaid, Misled
<1>4. ASSUME NEW i \in Instance,
             \/ Start(i) \/ TakeLock(i) \/ Create(i) \/ Register(i) \/ Fail(i) \/ Open(i)
             \/ Drain(i) \/ Send(i) \/ Renew(i) \/ Push(i)
      PROVE  RubbishPaid'
  <2>1. hand' = hand /\ since \subseteq since' /\ dropped \subseteq dropped'
      BY <1>4 DEF Start, TakeLock, Create, Register, Fail, Open, Drain, Send, Renew, Push,
                  threadVars, historyVars
  <2>2. Misled' = Misled /\ since \cap dropped \subseteq since' \cap dropped'
      BY <2>1 DEF Misled
  <2>3. QED
      BY <1>1, <2>2
<1>5. ASSUME NEW t \in Instance, Receive(t)
      PROVE  RubbishPaid'
  <2>1. since' = since /\ dropped' = dropped
      BY <1>5 DEF Receive, historyVars
  <2>2. CASE mq = <<>>
    <3>1. mq' = <<>>
        BY <1>5, <2>2 DEF Receive, MqReceive
    <3>2. Lines(mq') = {}
        BY <3>1 DEF Lines
    <3>3. Stock' = since' \cap dropped'
        BY <3>2 DEF Stock
    <3>4. Misled' \subseteq Owed' /\ Owed' \subseteq Instance
        BY DEF Owed, Pending, Misled
    <3>5. IsFiniteSet(Owed')
        BY <3>4, FS_Subset
    <3>6. IsFiniteSet(Misled') /\ Cardinality(Misled') <= Cardinality(Owed')
        BY <3>4, <3>5, FS_Subset
    <3>7. since' \cap dropped' \subseteq Instance
        BY DEF Typed, TypeOK
    <3>8. /\ Cardinality(Misled') \in Nat /\ Cardinality(Owed') \in Nat
          /\ Cardinality(since' \cap dropped') \in Nat
        BY <3>5, <3>6, <3>7, FS_Subset, FS_CardinalityType
    <3>9. Cardinality(Owed') <= Cardinality(Stock')
        BY DEF Balanced, Owed, Stock
    <3>10. Cardinality(Misled') <= Cardinality(since' \cap dropped')
        BY <3>3, <3>6, <3>8, <3>9
    <3>11. QED
        BY <3>10 DEF RubbishPaid
  <2>3. CASE mq # <<>>
    <3>1. hand' = [hand EXCEPT ![t] = Head(mq)] /\ Head(mq) \in Instance
        BY <1>5, <2>3, TailLines DEF Receive, MqReceive, Typed, TypeOK
    <3>2. Misled' \subseteq Misled
        BY <3>1 DEF Typed, TypeOK, Misled
    <3>3. QED
        BY <1>1, <2>1, <3>2
  <2>4. QED
      BY <2>2, <2>3
<1>6. ASSUME NEW i \in Instance, Kill(i)
      PROVE  RubbishPaid'
  <2>1. CASE lock = i
    <3>1. Misled' = {}
        BY <1>6, <2>1 DEF Misled, Kill
    <3>2. QED
        BY <1>2, <3>1
  <2>2. CASE lock # i
    <3>1. hand' = hand /\ since' = since /\ dropped' = dropped
        BY <1>6, <2>2 DEF Kill, threadVars
    <3>2. QED
        BY <3>1 DEF RubbishPaid, Misled
  <2>3. QED
      BY <2>1, <2>2
<1>7. QED
    BY <1>3, <1>4, <1>5, <1>6 DEF Next, Step, First, Later, NewMsgQueue

-----------------------------------------------------------------------------
(* What the threads hold is new. *)

\* Everything in the queue arrived since the registration, or the loop at start
\* has remains to remove and no thread runs.
AllNew == Lines(mq) \subseteq since
Remains == pc[lock] = "drain" /\ reg /\ \A t \in Instance : cb[t] = "none"

\* A step that takes nothing out of the loop at start and starts no thread.
LEMMA StaysFresh ==
    ASSUME Fresh, hand' = hand, since' = since, cb' = cb, reg' = reg,
           Lines(mq') \subseteq Lines(mq),
           Registered' => Registered /\ pc'[lock'] = pc[lock]
    PROVE  Fresh'
  BY DEF Fresh

LEMMA ProcessFresh ==
    ASSUME Typed, OneListener, Fresh, NEW i \in Instance,
           Start(i) \/ TakeLock(i) \/ Create(i) \/ Fail(i) \/ Open(i)
    PROVE  Fresh'
<1>1. hand' = hand /\ since' = since /\ cb' = cb /\ reg' = reg /\ mq' = mq
    BY DEF Start, TakeLock, Create, Fail, Open, kernelVars, threadVars, historyVars
<1>2. Registered' => Registered /\ pc'[lock'] = pc[lock]
    BY DEF Typed, TypeOK, OneFirst, Registered, Goto, Start, TakeLock, Create, Fail, Open
<1>3. QED
    BY <1>1, <1>2, StaysFresh

\* Before the registration no thread runs.
LEMMA RegisterFresh ==
    ASSUME Typed, OneListener, Fresh, NEW i \in Instance, Register(i)
    PROVE  Fresh'
<1>1. lock = i /\ ~Registered
    BY DEF Typed, TypeOK, OneFirst, Register, Registered
<1>2. cb = [t \in Instance |-> "none"]
    BY <1>1 DEF OneListener
<1>3. Remains'
    BY <1>1, <1>2 DEF Remains, Register, Goto, Typed, TypeOK, threadVars
<1>4. hand' = hand /\ since' = since
    BY DEF Register, threadVars, historyVars
<1>5. QED
    BY <1>3, <1>4 DEF Fresh, Remains

LEMMA DrainFresh ==
    ASSUME Typed, Fresh, NEW i \in Instance, Drain(i)
    PROVE  Fresh'
<1>1. hand' = hand /\ since' = since /\ cb' = cb /\ reg' = reg /\ lock' = lock
    BY DEF Drain, threadVars
<1>2. CASE mq = <<>>
  <2>1. Lines(mq') = {}
      BY <1>2 DEF Drain, Lines
  <2>2. QED
      BY <1>1, <2>1 DEF Fresh
<1>3. CASE mq # <<>>
  <2>1. pc' = pc /\ mq' = Tail(mq)
      BY <1>3 DEF Drain
  <2>2. Lines(mq') \subseteq Lines(mq)
      BY <1>3, <2>1, TailLines DEF Typed, TypeOK
  <2>3. QED
      BY <1>1, <2>1, <2>2, StaysFresh DEF Registered
<1>4. QED
    BY <1>2, <1>3

\* A message starts a thread only when it arrives in the empty queue.
LEMMA SendFresh ==
    ASSUME Typed, Fresh, NEW i \in Instance, Send(i)
    PROVE  Fresh'
<1>1. TypeOK /\ OneFirst
    BY DEF Typed
<1>2. hand' = hand /\ lock' = lock /\ since \subseteq since'
    BY DEF Send
<1>3. \A t \in Instance : hand'[t] \in Instance => hand'[t] \in since'
    BY <1>2 DEF Fresh
<1>4. lock # None => lock # i /\ pc'[lock] = pc[lock]
    BY <1>1 DEF TypeOK, OneFirst, Send, Goto
<1>5. Lines(mq') = Lines(mq) \cup {i}
    BY <1>1, AppendLines DEF TypeOK, Send
<1>6. ASSUME Registered' PROVE AllNew' \/ Remains'
  <2>1. Registered /\ since' = since \cup {i}
      BY <1>2, <1>4, <1>6 DEF Registered, Send
  <2>2. CASE AllNew
      BY <1>5, <2>1, <2>2 DEF AllNew
  <2>3. CASE ~AllNew
    <3>1. Remains /\ mq # <<>>
        BY <2>1, <2>3 DEF Fresh, AllNew, Remains, Lines
    <3>2. reg' = reg /\ cb' = cb
        BY <3>1 DEF Send
    <3>3. QED
        BY <1>2, <1>4, <2>1, <3>1, <3>2 DEF Remains, Registered
  <2>4. QED
      BY <2>2, <2>3
<1>7. QED
    BY <1>3, <1>6 DEF Fresh, AllNew, Remains

\* What a thread receives is new, since it runs.
LEMMA ThreadFresh ==
    ASSUME Typed, OneListener, Fresh, NEW t \in Instance, NewMsgQueue(t)
    PROVE  Fresh'
<1>1. TypeOK /\ HandOK
    BY DEF Typed
<1>2. cb[t] # "none"
    BY DEF NewMsgQueue, Renew, Receive, Push
<1>3. Registered
    BY <1>2 DEF OneListener
<1>4. AllNew
    BY <1>2, <1>3 DEF Fresh, AllNew
<1>5. since' = since
    BY DEF NewMsgQueue, Renew, Receive, Push, historyVars
<1>6. CASE Renew(t) \/ Push(t)
  <2>1. mq' = mq /\ hand' = hand
      BY <1>6 DEF Renew, Push, kernelVars
  <2>2. QED
      BY <1>4, <1>5, <2>1 DEF Fresh, AllNew
<1>7. CASE Receive(t) /\ mq = <<>>
  <2>1. mq' = mq /\ hand' = [hand EXCEPT ![t] = Garbage]
      BY <1>7 DEF Receive, MqReceive
  <2>2. QED
      BY <1>1, <1>4, <1>5, <2>1, ChannelAssumption DEF Fresh, AllNew, TypeOK
<1>8. CASE Receive(t) /\ mq # <<>>
  <2>1. mq' = Tail(mq) /\ hand' = [hand EXCEPT ![t] = Head(mq)]
      BY <1>8 DEF Receive, MqReceive
  <2>2. Lines(mq) = Lines(mq') \cup {Head(mq)}
      BY <1>1, <1>8, <2>1, TailLines DEF TypeOK
  <2>3. QED
      BY <1>1, <1>4, <1>5, <2>1, <2>2 DEF Fresh, AllNew, TypeOK
<1>9. QED
    BY <1>6, <1>7, <1>8 DEF NewMsgQueue

LEMMA KillFresh ==
    ASSUME Typed, Fresh, NEW i \in Instance, Kill(i)
    PROVE  Fresh'
<1>1. CASE lock = i
  <2>1. lock' = None /\ \A t \in Instance : hand'[t] = None
      BY <1>1 DEF Kill
  <2>2. QED
      BY <2>1, ChannelAssumption DEF Fresh, Registered
<1>2. CASE lock # i
  <2>1. hand' = hand /\ since' = since /\ cb' = cb /\ reg' = reg /\ mq' = mq /\ lock' = lock
      BY <1>2 DEF Kill, threadVars
  <2>2. lock # None => pc'[lock] = pc[lock]
      BY <1>2 DEF Kill, Goto, Typed, TypeOK
  <2>3. Registered' => Registered /\ pc'[lock'] = pc[lock]
      BY <2>1, <2>2 DEF Registered
  <2>4. QED
      BY <2>1, <2>3, StaysFresh
<1>3. QED
    BY <1>1, <1>2

LEMMA NextFresh == Typed /\ OneListener /\ Fresh /\ [Next]_vars => Fresh'
<1> SUFFICES ASSUME Typed, OneListener, Fresh, [Next]_vars PROVE Fresh'
    OBVIOUS
<1>1. CASE UNCHANGED vars
    BY <1>1 DEF vars, processVars, kernelVars, threadVars, historyVars, Fresh, Registered
<1>2. CASE Next
    BY <1>2, ProcessFresh, RegisterFresh, DrainFresh, SendFresh, ThreadFresh, KillFresh
    DEF Next, Step, First, Later
<1>3. QED
    BY <1>1, <1>2

\* The channel's invariant, inductive as it stands.
THEOREM ChannelInvariant == Spec => []Inv
<1>1. Init => Inv
  <2> SUFFICES ASSUME Init PROVE Inv
      OBVIOUS
  <2>1. Pending \cup Misled = {} /\ Misled = {} /\ since \cap (Lines(mq) \cup dropped) = {}
        /\ since \cap dropped = {}
      BY DEF Init, Pending, Misled
  <2>2. Balanced
      BY <2>1, FS_EmptySet DEF Balanced
  <2>3. RubbishPaid
      BY <2>1, FS_EmptySet DEF RubbishPaid
  <2>4. OneListener
      BY DEF Init, OneListener, Registered
  <2>5. Fresh
      BY ChannelAssumption DEF Init, Fresh, Registered
  <2>6. QED
      BY <2>2, <2>3, <2>4, <2>5, InitTyped DEF Inv, Typed
<1>2. Inv /\ [Next]_vars => Inv'
    BY NextTyped, NextListens, NextBalanced, NextPaid, NextFresh DEF Inv, Typed
<1>3. QED
    BY <1>1, <1>2, PTL DEF Spec

\* The registration is never lost and never doubled (main.cpp:58, 190).
THEOREM ListenerAlways == Spec => []OneListener
BY ChannelInvariant, PTL DEF Inv

\* new_msg_queue finds nothing to receive at most as often as the loop at start
\* removed a line that had just arrived (main.cpp:71, 208).
THEOREM RubbishAlways == Spec => []RubbishPaid
BY ChannelInvariant, PTL DEF Inv

\* What a thread pushes arrived since the first instance registered: a line that
\* an earlier first instance left behind is never obeyed (main.cpp:188-211).
THEOREM NewAlways == Spec => OnlyNew
<1>1. ASSUME Inv, [Next]_vars, queue' # queue
      PROVE  queue'[Len(queue')] \in since \cup {Garbage}
  <2>1. TypeOK /\ HandOK /\ Fresh
      BY <1>1 DEF Inv
  <2>2. PICK t \in Instance : Push(t)
      BY <1>1 DEF Next, Step, First, Later, NewMsgQueue, vars, historyVars,
                  Start, TakeLock, Create, Register, Drain, Fail, Open, Send,
                  Renew, Receive, Kill
  <2>3. hand[t] \in Instance \cup {Garbage} /\ queue' = Append(queue, hand[t])
      BY <2>1, <2>2 DEF TypeOK, HandOK, Push
  <2>4. queue \in Seq(Instance \cup {Garbage})
      BY <2>1 DEF TypeOK
  <2>5. queue'[Len(queue')] = hand[t]
      BY <2>3, <2>4
  <2>6. QED
      BY <2>1, <2>3, <2>5 DEF Fresh
<1>2. Inv /\ [Next]_vars => [queue' # queue => queue'[Len(queue')] \in since \cup {Garbage}]_vars
    BY <1>1
<1>3. QED
    BY <1>2, ChannelInvariant, PTL DEF Spec, OnlyNew
-----------------------------------------------------------------------------
(* A first instance that serves has a thread for the message that waits. *)

\* Without a registration a first instance that serves has a thread that is
\* about to register.
LEMMA SomeoneRenews ==
    ASSUME TypeOK, OneListener, Registered, ~reg
    PROVE  Pending # {}
<1>1. Cardinality(Renewing) = 1
    BY DEF OneListener
<1>2. Renewing # {}
    BY <1>1, FS_EmptySet
<1>3. QED
    BY <1>2 DEF Renewing, Pending

\* A step that moves no process into "serve", leaves the lock where it is or
\* free, adds nothing to the queue and ends no pending thread.
LEMMA StaysAttended ==
    ASSUME Attended, Pending \subseteq Pending',
           mq' # <<>> => mq # <<>>,
           lock' # None /\ pc'[lock'] = "serve" => lock' = lock /\ pc[lock] = "serve"
    PROVE  Attended'
  BY DEF Attended

LEMMA ProcessAttended ==
    ASSUME Typed, Attended, NEW i \in Instance,
           Start(i) \/ TakeLock(i) \/ Create(i) \/ Register(i) \/ Fail(i) \/ Open(i)
    PROVE  Attended'
<1>1. mq' = mq /\ cb' = cb
    BY DEF Start, TakeLock, Create, Register, Fail, Open,
           kernelVars, threadVars, historyVars
<1>2. Pending' = Pending
    BY <1>1 DEF Pending
<1>3. ASSUME lock' # None, pc'[lock'] = "serve"
      PROVE  lock' = lock /\ pc[lock] = "serve"
    BY <1>3 DEF Typed, TypeOK, OneFirst, Goto,
                Start, TakeLock, Create, Register, Fail, Open
<1>4. QED
    BY <1>1, <1>2, <1>3, StaysAttended

LEMMA SendAttended ==
    ASSUME Typed, OneListener, Attended, NEW i \in Instance, Send(i), Len(mq') <= 1
    PROVE  Attended'
<1> SUFFICES ASSUME lock' # None, pc'[lock'] = "serve"
             PROVE  Pending' # {}
    BY DEF Attended
<1>1. TypeOK /\ OneFirst
    BY DEF Typed
<1>2. lock' = lock /\ pc[lock] = "serve" /\ Registered
    BY <1>1 DEF Send, Goto, TypeOK, OneFirst, Registered
<1>3. mq = <<>>
    BY <1>1 DEF Send, TypeOK
<1>4. CASE reg
  <2>1. cb' = [cb EXCEPT ![i] = "renew"]
      BY <1>3, <1>4 DEF Send
  <2>2. QED
      BY <1>1, <2>1 DEF TypeOK, Pending
<1>5. CASE ~reg
  <2>1. cb' = cb
      BY <1>5 DEF Send
  <2>2. Pending # {}
      BY <1>1, <1>2, <1>5, SomeoneRenews
  <2>3. QED
      BY <2>1, <2>2 DEF Pending
<1>6. QED
    BY <1>4, <1>5

LEMMA ThreadAttended ==
    ASSUME Typed, Attended, Len(mq) <= 1, NEW t \in Instance, NewMsgQueue(t)
    PROVE  Attended'
<1>1. TypeOK /\ pc' = pc /\ lock' = lock
    BY DEF Typed, NewMsgQueue, Renew, Receive, Push, processVars
<1>2. CASE Renew(t)
  <2>1. Pending \subseteq Pending' /\ mq' = mq
      BY <1>1, <1>2 DEF TypeOK, Renew, Pending
  <2>2. QED
      BY <1>1, <2>1, StaysAttended
<1>3. CASE Receive(t)
  <2>1. mq' = <<>>
      BY <1>1, <1>3 DEF TypeOK, Receive, MqReceive
  <2>2. QED
      BY <2>1 DEF Attended
<1>4. CASE Push(t)
  <2>1. Pending \subseteq Pending' /\ mq' = mq
      BY <1>1, <1>4 DEF TypeOK, Push, Pending, kernelVars
  <2>2. QED
      BY <1>1, <2>1, StaysAttended
<1>5. QED
    BY <1>2, <1>3, <1>4 DEF NewMsgQueue

LEMMA NextAttended ==
    Inv /\ Sparse /\ Sparse' /\ Attended /\ [Next]_vars => Attended'
<1> SUFFICES ASSUME Inv, Len(mq) <= 1, Len(mq') <= 1, Attended, [Next]_vars
             PROVE  Attended'
    BY DEF Sparse
<1>1. Typed /\ TypeOK /\ OneFirst /\ OneListener
    BY DEF Inv, Typed
<1>2. ASSUME NEW i \in Instance,
             Start(i) \/ TakeLock(i) \/ Create(i) \/ Register(i) \/ Fail(i) \/ Open(i)
      PROVE  Attended'
    BY <1>1, <1>2, ProcessAttended
<1>3. ASSUME NEW i \in Instance, Drain(i)
      PROVE  Attended'
  <2>1. CASE mq = <<>>
    BY <1>3, <2>1 DEF Drain, Attended
  <2>2. CASE mq # <<>>
    <3>1. pc' = pc /\ lock' = lock /\ cb' = cb
        BY <1>3, <2>2 DEF Drain, threadVars
    <3>2. Pending' = Pending
        BY <3>1 DEF Pending
    <3>3. QED
        BY <2>2, <3>1, <3>2, StaysAttended
  <2>3. QED
      BY <2>1, <2>2
<1>4. ASSUME NEW i \in Instance, Send(i)
      PROVE  Attended'
    BY <1>1, <1>4, SendAttended
<1>5. ASSUME NEW i \in Instance, NewMsgQueue(i)
      PROVE  Attended'
    BY <1>1, <1>5, ThreadAttended
<1>6. ASSUME NEW i \in Instance, Kill(i)
      PROVE  Attended'
  <2>1. CASE lock = i
      BY <1>6, <2>1 DEF Kill, Attended
  <2>2. CASE lock # i
    <3>1. lock' = lock /\ mq' = mq /\ cb' = cb
        BY <1>6, <2>2 DEF Kill, threadVars
    <3>2. lock # None => pc'[lock] = pc[lock]
        BY <1>1, <1>6, <2>2 DEF Kill, Goto, TypeOK
    <3>3. Pending' = Pending
        BY <3>1 DEF Pending
    <3>4. QED
        BY <3>1, <3>2, <3>3, StaysAttended
  <2>3. QED
      BY <2>1, <2>2
<1>7. CASE UNCHANGED vars
    BY <1>7 DEF vars, processVars, kernelVars, threadVars, Attended, Pending
<1>8. QED
    BY <1>2, <1>3, <1>4, <1>5, <1>6, <1>7 DEF Next, Step, First, Later

\* As long as two messages never wait at once, a message that waits while the
\* first instance serves has a thread that is going to receive it: registering
\* (main.cpp:58) before receiving (main.cpp:71) loses no notification.
THEOREM SparseAlwaysAttended == Spec => SparseAttended
<1>1. Init => Attended
    BY DEF Init, Attended
<1>2. Inv /\ Sparse /\ Sparse' /\ Attended /\ [Next]_vars => Attended'
    BY NextAttended
<1>3. QED
    BY <1>1, <1>2, ChannelInvariant, PTL DEF Spec, SparseAttended

===============================================================================
