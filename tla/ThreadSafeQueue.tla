---------------------------- MODULE ThreadSafeQueue ----------------------------
(***************************************************************************)
(* ThreadSafeQueue.h: a deque behind a mutex and a condition variable.     *)
(* Every function holds the mutex for the whole of its body; pop waits on  *)
(* the condition variable, which gives the mutex back and takes it again   *)
(* on waking.  A wake-up may be spurious, another thread may take the      *)
(* mutex before the one that was woken, and what it was woken for may be   *)
(* gone by then.                                                           *)
(***************************************************************************)
EXTENDS Naturals, Sequences, FiniteSets

CONSTANTS Thread,   \* the threads that share the queue
          Nobody,   \* no thread
          Value,
          None,     \* no value
          MayCall,  \* the calls each thread may make
          MaxCalls  \* bound on the calls of one thread

\* A call: the function and its argument.
Call == ({"push", "push_front"} \X Value) \cup ({"pop", "clear"} \X {None})

ASSUME QueueAssumption ==
    /\ IsFiniteSet(Thread) /\ Nobody \notin Thread
    /\ None \notin Value
    /\ MayCall \in [Thread -> SUBSET Call]
    /\ MaxCalls \in Nat

VARIABLES que,   \* the deque
          mtx,   \* the thread that holds the mutex, or Nobody
          pc,    \* where each thread is in its call; "wait" is in cv.wait
          call,  \* the call, its argument with it
          res,   \* the result of the thread's last pop
          calls  \* calls made so far

vars == <<que, mtx, pc, call, res, calls>>

PC == {"idle", "lock", "push", "notify", "test", "wait", "copy", "drop",
       "clear", "unlock"}

Init ==
    /\ que = <<>>
    /\ mtx = Nobody
    /\ pc = [t \in Thread |-> "idle"]
    /\ call \in [Thread -> {<<"clear", None>>}]
    /\ res = [t \in Thread |-> None]
    /\ calls = [t \in Thread |-> 0]

Goto(t, l) == pc' = [pc EXCEPT ![t] = l]

Invoke(t, c) ==
    /\ pc[t] = "idle" /\ calls[t] < MaxCalls
    /\ call' = [call EXCEPT ![t] = c]
    /\ calls' = [calls EXCEPT ![t] = @ + 1]
    /\ Goto(t, "lock")
    /\ UNCHANGED <<que, mtx, res>>

\* The first step of the body that the mutex protects.
Entry(t) == CASE call[t][1] \in {"push", "push_front"} -> "push"
              [] call[t][1] = "pop"   -> "test"
              [] call[t][1] = "clear" -> "clear"

\* At the head of a function, and in cv.wait after waking.
Lock(t) ==
    /\ pc[t] = "lock" /\ mtx = Nobody
    /\ mtx' = t
    /\ Goto(t, Entry(t))
    /\ UNCHANGED <<que, call, res, calls>>

\* Faulty: does not notify when it puts the value at the front.
PushSilently(t) ==
    /\ pc[t] = "push"
    /\ que' = IF call[t][1] = "push" THEN Append(que, call[t][2])
                                     ELSE <<call[t][2]>> \o que
    /\ Goto(t, IF call[t][1] = "push" THEN "notify" ELSE "unlock")
    /\ UNCHANGED <<mtx, call, res, calls>>

Push(t) ==
    /\ pc[t] = "push"
    /\ que' = IF call[t][1] = "push" THEN Append(que, call[t][2])
                                     ELSE <<call[t][2]>> \o que
    /\ Goto(t, "notify")
    /\ UNCHANGED <<mtx, call, res, calls>>

Waiting == {t \in Thread : pc[t] = "wait"}

\* Faulty: notifies only when the queue was empty.
NotifyFirst(t) ==
    /\ pc[t] = "notify"
    /\ IF Waiting = {} \/ Len(que) > 1
         THEN Goto(t, "unlock")
         ELSE \E w \in Waiting : pc' = [pc EXCEPT ![t] = "unlock", ![w] = "lock"]
    /\ UNCHANGED <<que, mtx, call, res, calls>>

\* notify_one: one of those that wait, if any, is to take the mutex again.
Notify(t) ==
    /\ pc[t] = "notify"
    /\ IF Waiting = {}
         THEN Goto(t, "unlock")
         ELSE \E w \in Waiting : pc' = [pc EXCEPT ![t] = "unlock", ![w] = "lock"]
    /\ UNCHANGED <<que, mtx, call, res, calls>>

\* The predicate of cv.wait; waiting gives the mutex back at the same instant.
Test(t) ==
    /\ pc[t] = "test"
    /\ IF que = <<>> THEN mtx' = Nobody /\ Goto(t, "wait")
                     ELSE mtx' = mtx /\ Goto(t, "copy")
    /\ UNCHANGED <<que, call, res, calls>>

\* Faulty: cv.wait without a predicate.
WakeupTrusted(t) ==
    /\ pc[t] = "wait" /\ mtx = Nobody
    /\ mtx' = t
    /\ Goto(t, "copy")
    /\ UNCHANGED <<que, call, res, calls>>

SpuriousWakeup(t) ==
    /\ pc[t] = "wait"
    /\ Goto(t, "lock")
    /\ UNCHANGED <<que, mtx, call, res, calls>>

\* Faulty: gives the mutex back before the front is removed.
CopyUnlocked(t) ==
    /\ pc[t] = "copy"
    /\ res' = [res EXCEPT ![t] = Head(que)]
    /\ mtx' = Nobody
    /\ Goto(t, "drop")
    /\ UNCHANGED <<que, call, calls>>

Copy(t) ==
    /\ pc[t] = "copy"
    /\ res' = [res EXCEPT ![t] = Head(que)]
    /\ Goto(t, "drop")
    /\ UNCHANGED <<que, mtx, call, calls>>

\* Faulty: removes the value at the back, not the one it copied.
DropBack(t) ==
    /\ pc[t] = "drop"
    /\ que' = SubSeq(que, 1, Len(que) - 1)
    /\ Goto(t, "unlock")
    /\ UNCHANGED <<mtx, call, res, calls>>

Drop(t) ==
    /\ pc[t] = "drop"
    /\ que' = Tail(que)
    /\ Goto(t, "unlock")
    /\ UNCHANGED <<mtx, call, res, calls>>

Clear(t) ==
    /\ pc[t] = "clear"
    /\ que' = <<>>
    /\ Goto(t, "unlock")
    /\ UNCHANGED <<mtx, call, res, calls>>

\* The end of the scope: the mutex is given back and the function returns.
Unlock(t) ==
    /\ pc[t] = "unlock"
    /\ mtx' = Nobody
    /\ Goto(t, "idle")
    /\ UNCHANGED <<que, call, res, calls>>

Body(t) ==
    \/ Lock(t) \/ Push(t) \/ Notify(t) \/ Test(t) \/ Copy(t) \/ Drop(t)
    \/ Clear(t) \/ Unlock(t)

Next ==
    \E t \in Thread :
        \/ \E c \in MayCall[t] : Invoke(t, c)
        \/ Body(t)
        \/ SpuriousWakeup(t)

Spec == Init /\ [][Next]_vars

\* A thread inside a call goes on; nobody has to call, nor to wake for nothing.
FairSpec == Spec /\ \A t \in Thread : WF_vars(Body(t))

-----------------------------------------------------------------------------
(* Properties. *)

TypeOK ==
    /\ que \in Seq(Value)
    /\ mtx \in Thread \cup {Nobody}
    /\ pc \in [Thread -> PC]
    /\ call \in [Thread -> Call]
    /\ res \in [Thread -> Value \cup {None}]
    /\ calls \in [Thread -> 0..MaxCalls]

Inside == {"push", "notify", "test", "copy", "drop", "clear", "unlock"}

\* The mutex belongs to the one thread that is inside a body, and to nobody
\* while all are outside or wait.
Exclusive == \A t \in Thread : pc[t] \in Inside <=> mtx = t

\* A thread is only where its call leads.
OnPath ==
    \A t \in Thread :
        /\ pc[t] \in {"push", "notify"} => call[t][1] \in {"push", "push_front"}
        /\ pc[t] \in {"test", "wait", "copy", "drop"} => call[t][1] = "pop"
        /\ pc[t] = "clear" => call[t][1] = "clear"

\* front() and pop_front() of an empty deque are undefined: whatever woke the
\* thread in pop, and whoever took the mutex in between, there is a value when
\* it takes one, and the value it removes is the one it returns.
FrontDefined ==
    \A t \in Thread : /\ pc[t] \in {"copy", "drop"} => que # <<>>
                      /\ pc[t] = "drop" => res[t] = Head(que)

\* Threads that are about to remove a value, or to wake one that will.
Awake == {t \in Thread : \/ pc[t] = "notify"
                        \/ /\ call[t][1] = "pop"
                           /\ pc[t] \in {"lock", "test", "copy", "drop"}}

\* No lost wake-up: while some thread sleeps in pop, every value in the deque
\* has a thread that is on its way to it, so that notify_one is enough.
WakeupsSuffice == Waiting # {} => Len(que) <= Cardinality(Awake)

\* The invariant of the proofs.
Inv == TypeOK /\ Exclusive /\ OnPath /\ FrontDefined /\ WakeupsSuffice

\* The deque behind the mutex is a sequence with calls that take effect at one
\* instant: push when it stores, pop when it copies, clear when it erases.
Content == IF \E t \in Thread : pc[t] = "drop" THEN Tail(que) ELSE que

PhaseAt(l) == IF l = "idle" THEN "idle"
              ELSE IF l \in {"notify", "drop", "unlock"} THEN "done"
              ELSE "called"

Queue == INSTANCE Fifo WITH items <- Content,
                            phase <- [t \in Thread |-> PhaseAt(pc[t])],
                            got   <- res

Linearizable == Queue!Spec

\* A thread that sleeps in pop while there is a value gets one, or others take
\* them all: the stdIN thread and the servants never sleep on work.
PopServed ==
    \A t \in Thread :
        (pc[t] = "wait" /\ que # <<>>) ~> (que = <<>> \/ pc[t] = "idle")
===============================================================================
