----------------------------- MODULE ControlChannel -----------------------------
(***************************************************************************)
(* main.cpp and ProcessInstance.h: how command lines travel from later     *)
(* instances of the program to the first one.  The instance that gets the  *)
(* lock on the pid file is the first; it opens the message queue, asks to  *)
(* be notified, removes what is left in the queue, and serves.  The others *)
(* send their line and end.  The kernel notifies once, when a message      *)
(* arrives in the empty queue, by a thread that runs new_msg_queue.        *)
(*                                                                         *)
(* An instance sends one line, which is named by the instance; so is the   *)
(* thread that is started when this line arrives.                          *)
(***************************************************************************)
EXTENDS Naturals, Sequences, FiniteSets

CONSTANTS Instance,  \* the processes
          None,      \* no process
          Garbage,   \* what a buffer holds that nothing was received into
          MaxMsg,    \* capacity of the message queue
          MaxKill    \* bound on the processes that are killed

ASSUME ChannelAssumption ==
    /\ IsFiniteSet(Instance)
    /\ None \notin Instance /\ Garbage \notin Instance /\ None # Garbage
    /\ MaxMsg \in Nat \ {0} /\ MaxKill \in Nat

VARIABLES pc,      \* where each process is
          lock,    \* the process that holds the lock on the pid file
          exists,  \* the message queue has been created
          mq,      \* the message queue
          reg,     \* the first instance is registered for a notification
          cb,      \* where the thread started by the instance's line is
          hand,    \* what that thread received
          queue,   \* what the threads pushed, of all first instances so far
          since,   \* lines that arrived since the first instance registered
          dropped, \* lines that were removed at start
          kills    \* processes killed so far

processVars == <<pc, lock, kills>>
kernelVars == <<exists, mq, reg>>
threadVars == <<cb, hand>>
historyVars == <<queue, since, dropped>>

vars == <<processVars, kernelVars, threadVars, historyVars>>

Lines(s) == {s[k] : k \in DOMAIN s}

Init ==
    /\ pc = [i \in Instance |-> "off"]
    /\ lock = None /\ kills = 0
    /\ exists = FALSE /\ mq = <<>> /\ reg = FALSE
    /\ cb = [i \in Instance |-> "none"]
    /\ hand = [i \in Instance |-> None]
    /\ queue = <<>> /\ since = {} /\ dropped = {}

Goto(i, l) == pc' = [pc EXCEPT ![i] = l]

-----------------------------------------------------------------------------
(* Every instance starts with ProcessInstance. *)

Start(i) ==
    /\ pc[i] = "off"
    /\ Goto(i, "lock")
    /\ UNCHANGED <<lock, kills, kernelVars, threadVars, historyVars>>

\* fcntl(F_SETLK) on the pid file decides which instance is the first.
TakeLock(i) ==
    /\ pc[i] = "lock"
    /\ IF lock = None THEN lock' = i /\ Goto(i, "create")
                      ELSE lock' = lock /\ Goto(i, "open")
    /\ UNCHANGED <<kills, kernelVars, threadVars, historyVars>>

-----------------------------------------------------------------------------
(* The first instance. *)

Create(i) ==
    /\ pc[i] = "create"
    /\ exists' = TRUE
    /\ Goto(i, "register")
    /\ UNCHANGED <<lock, kills, mq, reg, threadVars, historyVars>>

\* mq_notify would fail if someone were registered: see OneListener.
Register(i) ==
    /\ pc[i] = "register" /\ ~reg
    /\ reg' = TRUE
    /\ Goto(i, "drain")
    /\ UNCHANGED <<lock, kills, exists, mq, threadVars, historyVars>>

\* Faulty: registers again when the queue is empty.
DrainAndRegister(i) ==
    /\ pc[i] = "drain"
    /\ IF mq = <<>>
         THEN Goto(i, "serve") /\ reg' = TRUE /\ UNCHANGED <<mq, dropped>>
         ELSE /\ mq' = Tail(mq) /\ dropped' = dropped \cup {Head(mq)}
              /\ UNCHANGED <<pc, reg>>
    /\ UNCHANGED <<lock, kills, exists, threadVars, queue, since>>

\* Faulty: hands over what is left instead of removing it.
DrainIntoQueue(i) ==
    /\ pc[i] = "drain"
    /\ IF mq = <<>>
         THEN Goto(i, "serve") /\ UNCHANGED <<mq, queue>>
         ELSE mq' = Tail(mq) /\ queue' = Append(queue, Head(mq)) /\ pc' = pc
    /\ UNCHANGED <<lock, kills, exists, reg, threadVars, since, dropped>>

\* One turn of the loop that empties the queue.
Drain(i) ==
    /\ pc[i] = "drain"
    /\ IF mq = <<>>
         THEN Goto(i, "serve") /\ UNCHANGED <<mq, dropped>>
         ELSE /\ mq' = Tail(mq) /\ dropped' = dropped \cup {Head(mq)}
              /\ pc' = pc
    /\ UNCHANGED <<lock, kills, exists, reg, threadVars, queue, since>>

First(i) == Create(i) \/ Register(i) \/ Drain(i)

-----------------------------------------------------------------------------
(* The other instances. *)

\* No arguments, or no queue: the instance ends and says so.
Fail(i) ==
    /\ pc[i] = "open"
    /\ Goto(i, "failed")
    /\ UNCHANGED <<lock, kills, kernelVars, threadVars, historyVars>>

Open(i) ==
    /\ pc[i] = "open" /\ exists
    /\ Goto(i, "send")
    /\ UNCHANGED <<lock, kills, kernelVars, threadVars, historyVars>>

Registered == lock # None /\ pc[lock] \in {"drain", "serve"}

\* mq_send waits while the queue is full.  A message that arrives in the empty
\* queue uses up the registration and starts a thread.
Send(i) ==
    /\ pc[i] = "send" /\ Len(mq) < MaxMsg
    /\ mq' = Append(mq, i)
    /\ since' = IF Registered THEN since \cup {i} ELSE since
    /\ IF mq = <<>> /\ reg
         THEN reg' = FALSE /\ cb' = [cb EXCEPT ![i] = "renew"]
         ELSE UNCHANGED <<reg, cb>>
    /\ Goto(i, "sent")
    /\ UNCHANGED <<lock, kills, exists, hand, queue, dropped>>

Later(i) == Fail(i) \/ Open(i) \/ Send(i)

-----------------------------------------------------------------------------
(* new_msg_queue, in the thread that was started for the line t. *)

\* Faulty: forgets that a notification is given only once.
RenewNot(t) ==
    /\ cb[t] = "renew"
    /\ cb' = [cb EXCEPT ![t] = "receive"]
    /\ UNCHANGED <<processVars, kernelVars, hand, historyVars>>

\* mq_notify again; it would fail, and only say so, if someone were registered.
Renew(t) ==
    /\ cb[t] = "renew"
    /\ reg' = TRUE
    /\ cb' = [cb EXCEPT ![t] = "receive"]
    /\ UNCHANGED <<processVars, exists, mq, hand, historyVars>>

\* The descriptor does not block: with nothing to receive the error is printed
\* and the buffer stays as malloc returned it, but for the byte before it, which
\* `buf[rcv] = '\0'' writes (undefined behaviour; taken to harm nothing else).
MqReceive(t) ==
    IF mq = <<>> THEN hand' = [hand EXCEPT ![t] = Garbage] /\ mq' = mq
                 ELSE hand' = [hand EXCEPT ![t] = Head(mq)] /\ mq' = Tail(mq)

Receive(t) ==
    /\ cb[t] = "receive"
    /\ MqReceive(t)
    /\ cb' = [cb EXCEPT ![t] = "push"]
    /\ UNCHANGED <<processVars, exists, reg, historyVars>>

\* Faulty: reads on until nothing is left, and pushes that as well.
PushAndReadOn(t) ==
    /\ cb[t] = "push"
    /\ queue' = Append(queue, hand[t])
    /\ cb' = [cb EXCEPT ![t] = IF hand[t] = Garbage THEN "none" ELSE "receive"]
    /\ UNCHANGED <<processVars, kernelVars, hand, since, dropped>>

Push(t) ==
    /\ cb[t] = "push"
    /\ queue' = Append(queue, hand[t])
    /\ cb' = [cb EXCEPT ![t] = "none"]
    /\ UNCHANGED <<processVars, kernelVars, hand, since, dropped>>

\* Faulty: receives first and registers afterwards.
NewMsgQueueLate(t) ==
    \/ /\ cb[t] = "renew"
       /\ MqReceive(t)
       /\ cb' = [cb EXCEPT ![t] = "receive"]
       /\ UNCHANGED <<processVars, exists, reg, historyVars>>
    \/ /\ cb[t] = "receive"
       /\ reg' = TRUE
       /\ cb' = [cb EXCEPT ![t] = "push"]
       /\ UNCHANGED <<processVars, exists, mq, hand, historyVars>>
    \/ Push(t)

NewMsgQueue(t) == Renew(t) \/ Receive(t) \/ Push(t)

-----------------------------------------------------------------------------
\* The end of a process gives back its lock and its registration and ends its
\* threads; the message queue stays.
Kill(i) ==
    /\ pc[i] \notin {"off", "sent", "failed"} /\ kills < MaxKill
    /\ Goto(i, "failed")
    /\ kills' = kills + 1
    /\ IF lock = i
         THEN /\ lock' = None /\ reg' = FALSE /\ since' = {}
              /\ cb' = [t \in Instance |-> "none"]
              /\ hand' = [t \in Instance |-> None]
         ELSE UNCHANGED <<lock, reg, since, threadVars>>
    /\ UNCHANGED <<exists, mq, queue, dropped>>

Step(i) == TakeLock(i) \/ First(i) \/ Later(i) \/ NewMsgQueue(i)

Next == \E i \in Instance : Start(i) \/ Step(i) \/ Kill(i)

Spec == Init /\ [][Next]_vars

\* Processes and threads that were started go on.
FairSpec ==
    Spec /\ \A i \in Instance : WF_vars(TakeLock(i) \/ First(i) \/ Later(i))
                                /\ WF_vars(NewMsgQueue(i))

-----------------------------------------------------------------------------
(* Properties. *)

TypeOK ==
    /\ pc \in [Instance -> {"off", "lock", "create", "register", "drain", "serve",
                            "open", "send", "sent", "failed"}]
    /\ lock \in Instance \cup {None}
    /\ exists \in BOOLEAN /\ reg \in BOOLEAN
    /\ mq \in Seq(Instance) /\ Len(mq) <= MaxMsg
    /\ cb \in [Instance -> {"none", "renew", "receive", "push"}]
    /\ hand \in [Instance -> Instance \cup {None, Garbage}]
    /\ queue \in Seq(Instance \cup {Garbage})
    /\ since \in SUBSET Instance /\ dropped \in SUBSET Instance
    /\ kills \in 0..MaxKill

Renewing == {t \in Instance : cb[t] = "renew"}
Pending == {t \in Instance : cb[t] \in {"renew", "receive"}}
Misled == {t \in Instance : hand[t] = Garbage}

\* The registration is neither lost nor asked for twice: from the first
\* mq_notify on, the first instance is registered or exactly one thread is
\* about to register again; before it, and without a first instance, nobody is
\* and no thread runs.
OneListener ==
    IF Registered THEN Cardinality(Renewing) = IF reg THEN 0 ELSE 1
                  ELSE ~reg /\ cb = [t \in Instance |-> "none"]

\* A process that holds the lock is past TakeLock, and it alone.
OneFirst ==
    \A i \in Instance : pc[i] \in {"create", "register", "drain", "serve"} <=> lock = i

\* A line that was not sent is nowhere.
Unsent ==
    \A i \in Instance : pc[i] # "sent" => /\ cb[i] = "none" /\ hand[i] = None
                                         /\ i \notin Lines(mq) \cup since \cup dropped

\* What a thread holds belongs to the first instance and was just received.
HandOK ==
    /\ \A t \in Instance : cb[t] = "push" => hand[t] # None
    /\ \A t \in Pending : hand[t] = None
    /\ ~Registered => Misled = {}

\* A thread that will receive, or that found nothing, stands for a line that
\* arrived since the registration and is in the queue or was removed at start.
Balanced ==
    Cardinality(Pending \cup Misled) <= Cardinality(since \cap (Lines(mq) \cup dropped))

\* A thread finds nothing to receive only where the loop that empties the queue
\* took a line that had started a thread: it pushes no more rubbish than that.
RubbishPaid == Cardinality(Misled) <= Cardinality(since \cap dropped)

\* What a thread holds arrived since the registration, and a thread runs only when
\* everything in the queue did: while remains of earlier first instances are there,
\* no message arrives in the empty queue, and the loop at start removes them.
Fresh ==
    /\ \A t \in Instance : hand[t] \in Instance => hand[t] \in since
    /\ Registered => \/ Lines(mq) \subseteq since
                     \/ pc[lock] = "drain" /\ reg /\ \A t \in Instance : cb[t] = "none"

\* The invariant of the proofs.
Inv == /\ TypeOK /\ OneFirst /\ Unsent /\ HandOK
       /\ OneListener /\ Balanced /\ RubbishPaid /\ Fresh

(***************************************************************************)
(* A first instance obeys no line that was sent to an earlier one: what a  *)
(* thread pushes arrived after the first instance registered, however many *)
(* first instances were killed and whatever each left in the queue         *)
(* (main.cpp:188-211).                                                     *)
(***************************************************************************)
OnlyNew ==
    [][queue' # queue => queue'[Len(queue')] \in since \cup {Garbage}]_vars

\* Two messages do not wait at once.
Sparse == Len(mq) <= 1

\* A message that waits while the first instance serves has a thread that is
\* going to receive.
Attended == lock # None /\ pc[lock] = "serve" /\ mq # <<>> => Pending # {}

\* Registering before receiving, the threads miss no message, unless two wait at
\* once: the kernel tells of a message only when it arrives in the empty queue.
SparseAttended == []Sparse => []Attended

\* While there is never more than one message in the queue, every message is
\* pushed, or removed at start, or the first instance ends: registering before
\* receiving loses no notification then.
SparseDelivered ==
    []Sparse =>
        \A i \in Instance :
            i \in Lines(mq) /\ lock # None
                ~> i \in Lines(queue) \/ i \in dropped \/ lock = None

\* main.cpp:28, "container to transfer command lines from second instance to
\* EndPoint": every line that is sent is pushed.  Refuted by a burst.
Delivered ==
    \A i \in Instance :
        i \in Lines(mq) /\ lock # None
            ~> i \in Lines(queue) \/ i \in dropped \/ lock = None
===============================================================================
