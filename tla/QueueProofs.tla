------------------------------ MODULE QueueProofs ------------------------------
(***************************************************************************)
(* Inv is an invariant of ThreadSafeQueue, and the queue implements Fifo,  *)
(* for any number of threads, values and calls.                            *)
(***************************************************************************)
EXTENDS ThreadSafeQueue, FiniteSetTheorems, TLAPS

USE QueueAssumption

\* The parts of Inv that do not count.
Typed == TypeOK /\ Exclusive /\ OnPath /\ FrontDefined

\* The invariant holds when no thread has called yet.
LEMMA InitTyped == Init => Typed
BY DEF Init, Typed, TypeOK, Exclusive, OnPath, FrontDefined, PC, Call, Inside

\* A call starts outside the mutex and leaves the deque alone.
LEMMA InvokeTyped ==
    ASSUME Typed, NEW t \in Thread, NEW c \in MayCall[t], Invoke(t, c)
    PROVE  Typed'
<1>1. TypeOK'
    BY DEF Typed, TypeOK, Invoke, Goto, PC
<1>2. Exclusive'
    BY DEF Typed, TypeOK, Exclusive, Invoke, Goto, Inside, PC
<1>3. OnPath'
    BY DEF Typed, TypeOK, OnPath, Invoke, Goto, PC
<1>4. FrontDefined'
    BY DEF Typed, TypeOK, FrontDefined, Invoke, Goto, PC
<1>5. QED
    BY <1>1, <1>2, <1>3, <1>4 DEF Typed

\* The step leads into the body of the function that was called.
LEMMA LockTyped ==
    ASSUME Typed, NEW t \in Thread, Lock(t)
    PROVE  Typed'
<1>1. /\ call[t] \in Call
      /\ call[t][1] \in {"push", "push_front", "pop", "clear"}
    BY DEF Typed, TypeOK, Call
<1>2. /\ Entry(t) \in {"push", "test", "clear"}
      /\ Entry(t) = "push" => call[t][1] \in {"push", "push_front"}
      /\ Entry(t) = "test" => call[t][1] = "pop"
      /\ Entry(t) = "clear" => call[t][1] = "clear"
    BY <1>1 DEF Entry
<1>3. TypeOK'
    BY <1>2 DEF Typed, TypeOK, Lock, Goto, PC
<1>4. Exclusive'
    BY <1>2 DEF Typed, TypeOK, Exclusive, Lock, Goto, Inside, PC
<1>5. OnPath'
    BY <1>2 DEF Typed, TypeOK, OnPath, Lock, Goto, PC
<1>6. FrontDefined'
    BY <1>2 DEF Typed, TypeOK, FrontDefined, Lock, Goto, PC
<1>7. QED
    BY <1>3, <1>4, <1>5, <1>6 DEF Typed

LEMMA PushTyped ==
    ASSUME Typed, NEW t \in Thread, Push(t)
    PROVE  Typed'
<1>1. mtx = t /\ call[t][1] \in {"push", "push_front"} /\ call[t][2] \in Value
    BY DEF Typed, TypeOK, Exclusive, OnPath, Push, Inside, Call
<1>2. que' \in Seq(Value)
    BY <1>1 DEF Typed, TypeOK, Push
<1>3. TypeOK'
    BY <1>2 DEF Typed, TypeOK, Push, Goto, PC
<1>4. Exclusive'
    BY DEF Typed, TypeOK, Exclusive, Push, Goto, Inside, PC
<1>5. OnPath'
    BY <1>1 DEF Typed, TypeOK, OnPath, Push, Goto, PC
<1>6. FrontDefined'
  <2> SUFFICES ASSUME NEW u \in Thread
               PROVE  pc'[u] \notin {"copy", "drop"}
      BY DEF FrontDefined
  <2> QED
      BY <1>1 DEF Typed, TypeOK, Exclusive, Push, Goto, Inside, PC
<1>7. QED
    BY <1>3, <1>4, <1>5, <1>6 DEF Typed

LEMMA NotifyTyped ==
    ASSUME Typed, NEW t \in Thread, Notify(t)
    PROVE  Typed'
<1>1. CASE Waiting = {}
  <2>1. TypeOK'
      BY <1>1 DEF Typed, TypeOK, Notify, Goto, PC
  <2>2. Exclusive'
      BY <1>1 DEF Typed, TypeOK, Exclusive, Notify, Goto, Inside, PC
  <2>3. OnPath' /\ FrontDefined'
      BY <1>1 DEF Typed, TypeOK, OnPath, FrontDefined, Notify, Goto, PC
  <2>4. QED
      BY <2>1, <2>2, <2>3 DEF Typed
<1>2. CASE Waiting # {}
  <2>1. PICK w \in Thread : /\ pc[w] = "wait" /\ w # t
                            /\ pc' = [pc EXCEPT ![t] = "unlock", ![w] = "lock"]
      BY <1>2 DEF Notify, Waiting
  <2>2. TypeOK'
      BY <2>1 DEF Typed, TypeOK, Notify, PC
  <2>3. Exclusive'
      BY <2>1 DEF Typed, TypeOK, Exclusive, Notify, Inside, PC
  <2>4. OnPath' /\ FrontDefined'
      BY <2>1 DEF Typed, TypeOK, OnPath, FrontDefined, Notify, PC
  <2>5. QED
      BY <2>2, <2>3, <2>4 DEF Typed
<1>3. QED
    BY <1>1, <1>2

LEMMA TestTyped ==
    ASSUME Typed, NEW t \in Thread, Test(t)
    PROVE  Typed'
<1>1. CASE que = <<>>
  <2>1. TypeOK'
      BY <1>1 DEF Typed, TypeOK, Test, Goto, PC
  <2>2. Exclusive'
      BY <1>1 DEF Typed, TypeOK, Exclusive, Test, Goto, Inside, PC
  <2>3. OnPath' /\ FrontDefined'
      BY <1>1 DEF Typed, TypeOK, OnPath, FrontDefined, Test, Goto, PC
  <2>4. QED
      BY <2>1, <2>2, <2>3 DEF Typed
<1>2. CASE que # <<>>
  <2>1. TypeOK'
      BY <1>2 DEF Typed, TypeOK, Test, Goto, PC
  <2>2. Exclusive'
      BY <1>2 DEF Typed, TypeOK, Exclusive, Test, Goto, Inside, PC
  <2>3. OnPath' /\ FrontDefined'
      BY <1>2 DEF Typed, TypeOK, OnPath, FrontDefined, Test, Goto, PC
  <2>4. QED
      BY <2>1, <2>2, <2>3 DEF Typed
<1>3. QED
    BY <1>1, <1>2

LEMMA WakeupTyped ==
    ASSUME Typed, NEW t \in Thread, SpuriousWakeup(t)
    PROVE  Typed'
<1>1. TypeOK'
    BY DEF Typed, TypeOK, SpuriousWakeup, Goto, PC
<1>2. Exclusive'
    BY DEF Typed, TypeOK, Exclusive, SpuriousWakeup, Goto, Inside, PC
<1>3. OnPath' /\ FrontDefined'
    BY DEF Typed, TypeOK, OnPath, FrontDefined, SpuriousWakeup, Goto, PC
<1>4. QED
    BY <1>1, <1>2, <1>3 DEF Typed

LEMMA CopyTyped ==
    ASSUME Typed, NEW t \in Thread, Copy(t)
    PROVE  Typed'
<1>1. que # <<>> /\ Head(que) \in Value
    BY DEF Typed, TypeOK, FrontDefined, Copy
<1>2. TypeOK'
    BY <1>1 DEF Typed, TypeOK, Copy, Goto, PC
<1>3. Exclusive'
    BY DEF Typed, TypeOK, Exclusive, Copy, Goto, Inside, PC
<1>4. OnPath'
    BY DEF Typed, TypeOK, OnPath, Copy, Goto, PC
<1>5. FrontDefined'
    BY <1>1 DEF Typed, TypeOK, FrontDefined, Copy, Goto, PC
<1>6. QED
    BY <1>2, <1>3, <1>4, <1>5 DEF Typed

\* No other thread is between Test and Drop: that is what the mutex is for.
LEMMA DropTyped ==
    ASSUME Typed, NEW t \in Thread, Drop(t) \/ Clear(t) \/ Unlock(t)
    PROVE  Typed'
<1>1. mtx = t
    BY DEF Typed, Exclusive, Drop, Clear, Unlock, Inside
<1>2. que' \in Seq(Value)
  <2>1. CASE Drop(t)
    <3>1. que \in Seq(Value) /\ que # <<>> /\ que' = Tail(que)
        BY <2>1 DEF Typed, TypeOK, FrontDefined, Drop
    <3>2. QED
        BY <3>1
  <2>2. CASE Clear(t)
      BY <2>2 DEF Clear
  <2>3. CASE Unlock(t)
      BY <2>3 DEF Typed, TypeOK, Unlock
  <2>4. QED
      BY <2>1, <2>2, <2>3
<1>3. TypeOK'
    BY <1>2 DEF Typed, TypeOK, Drop, Clear, Unlock, Goto, PC
<1>4. Exclusive'
    BY <1>1 DEF Typed, TypeOK, Exclusive, Drop, Clear, Unlock, Goto, Inside, PC
<1>5. OnPath'
    BY DEF Typed, TypeOK, OnPath, Drop, Clear, Unlock, Goto, PC
<1>6. FrontDefined'
  <2> SUFFICES ASSUME NEW u \in Thread
               PROVE  pc'[u] \notin {"copy", "drop"}
      BY DEF FrontDefined
  <2> QED
      BY <1>1 DEF Typed, TypeOK, Exclusive, Drop, Clear, Unlock, Goto, Inside, PC
<1>7. QED
    BY <1>3, <1>4, <1>5, <1>6 DEF Typed

LEMMA NextTyped == Typed /\ [Next]_vars => Typed'
<1> SUFFICES ASSUME Typed, [Next]_vars
             PROVE  Typed'
    OBVIOUS
<1>1. CASE UNCHANGED vars
    BY <1>1 DEF vars, Typed, TypeOK, Exclusive, OnPath, FrontDefined
<1>2. ASSUME NEW t \in Thread, NEW c \in MayCall[t], Invoke(t, c)
      PROVE  Typed'
    BY <1>2, InvokeTyped
<1>3. ASSUME NEW t \in Thread, Body(t) \/ SpuriousWakeup(t)
      PROVE  Typed'
    BY <1>3, LockTyped, PushTyped, NotifyTyped, TestTyped, WakeupTyped,
       CopyTyped, DropTyped DEF Body
<1>4. QED
    BY <1>1, <1>2, <1>3 DEF Next

\* Types, the mutex, the paths, and that front() and pop_front() are only
\* called on a deque that is not empty (ThreadSafeQueue.h:45-54).
THEOREM TypedAlways == Spec => []Typed
BY InitTyped, NextTyped, PTL DEF Spec

THEOREM FrontAlways == Spec => []FrontDefined
BY TypedAlways, PTL DEF Typed

-----------------------------------------------------------------------------
(* No wake-up is lost. *)

\* Awake is finite, so that threads can be counted in and out of it.
LEMMA AwakeFinite == IsFiniteSet(Awake) /\ Cardinality(Awake) \in Nat
<1>1. Awake \subseteq Thread
    BY DEF Awake
<1>2. QED
    BY <1>1, FS_Subset, FS_CardinalityType

\* A thread comes into Awake and none leaves.
LEMMA Joins ==
    ASSUME NEW t \in Thread, t \notin Awake, Awake' = Awake \cup {t}
    PROVE  Cardinality(Awake') = Cardinality(Awake) + 1
BY AwakeFinite, FS_AddElement

\* A thread leaves Awake and none comes.
LEMMA Leaves ==
    ASSUME NEW t \in Thread, t \in Awake, Awake' = Awake \ {t}
    PROVE  Cardinality(Awake') = Cardinality(Awake) - 1
BY AwakeFinite, FS_RemoveElement

\* Nobody sleeps or the deque is empty: then nobody has to be awake.
LEMMA Enough ==
    ASSUME Typed, \/ Waiting = {} \/ que = <<>>
    PROVE  WakeupsSuffice
BY AwakeFinite DEF WakeupsSuffice

\* push stores one value and is about to wake one thread for it.
LEMMA PushWakes ==
    ASSUME Typed, WakeupsSuffice, NEW t \in Thread, Push(t)
    PROVE  WakeupsSuffice'
<1>1. t \notin Awake /\ Awake' = Awake \cup {t}
    BY DEF Typed, TypeOK, OnPath, Push, Goto, Awake, PC
<1>2. Waiting' = Waiting
    BY DEF Typed, TypeOK, Push, Goto, Waiting, PC
<1>3. Len(que') = Len(que) + 1
    BY DEF Typed, TypeOK, Push, OnPath, Call
<1>4. Len(que) \in Nat
    BY DEF Typed, TypeOK
<1>5. Cardinality(Awake') = Cardinality(Awake) + 1
    BY <1>1, Joins
<1>6. QED
    BY <1>2, <1>3, <1>4, <1>5, AwakeFinite DEF WakeupsSuffice

\* The thread that is woken takes the place of the one that woke it.
LEMMA NotifyWakes ==
    ASSUME Typed, WakeupsSuffice, NEW t \in Thread, Notify(t)
    PROVE  WakeupsSuffice'
<1>1. CASE Waiting = {}
  <2>1. Waiting' = {}
      BY <1>1 DEF Typed, TypeOK, Notify, Goto, Waiting, PC
  <2>2. Typed'
      BY NotifyTyped
  <2>3. IsFiniteSet(Awake') /\ Cardinality(Awake') \in Nat
    <3>1. Awake' \subseteq Thread
        BY DEF Awake
    <3>2. QED
        BY <3>1, FS_Subset, FS_CardinalityType
  <2>4. QED
      BY <2>1 DEF WakeupsSuffice
<1>2. CASE Waiting # {}
  <2>1. PICK w \in Thread : /\ pc[w] = "wait" /\ w # t
                            /\ pc' = [pc EXCEPT ![t] = "unlock", ![w] = "lock"]
      BY <1>2 DEF Notify, Waiting
  <2>2. t \in Awake /\ w \notin Awake /\ call[w][1] = "pop" /\ call[t][1] # "pop"
      BY <2>1 DEF Typed, TypeOK, OnPath, Notify, Awake
  <2>3. Awake' = (Awake \ {t}) \cup {w}
      BY <2>1, <2>2 DEF Typed, TypeOK, Notify, Awake, PC
  <2>4. Cardinality(Awake \ {t}) = Cardinality(Awake) - 1 /\ IsFiniteSet(Awake \ {t})
      BY <2>2, AwakeFinite, FS_RemoveElement
  <2>5. w \notin Awake \ {t}
      BY <2>2
  <2>6. Cardinality((Awake \ {t}) \cup {w}) = Cardinality(Awake \ {t}) + 1
      BY <2>4, <2>5, FS_AddElement
  <2>7. Cardinality(Awake') = Cardinality(Awake)
      BY <2>3, <2>4, <2>6, AwakeFinite
  <2>8. que' = que
      BY DEF Notify
  <2>9. QED
      BY <1>2, <2>7, <2>8 DEF WakeupsSuffice
<1>3. QED
    BY <1>1, <1>2

\* pop goes to sleep only on an empty deque.
LEMMA TestWakes ==
    ASSUME Typed, WakeupsSuffice, NEW t \in Thread, Test(t)
    PROVE  WakeupsSuffice'
<1>1. CASE que = <<>>
  <2>1. que' = <<>>
      BY <1>1 DEF Test
  <2>2. Awake' \subseteq Thread
      BY DEF Awake
  <2>3. Cardinality(Awake') \in Nat
      BY <2>2, FS_Subset, FS_CardinalityType
  <2>4. QED
      BY <2>1, <2>3 DEF WakeupsSuffice
<1>2. CASE que # <<>>
  <2>1. Awake' = Awake /\ Waiting' = Waiting
      BY <1>2 DEF Typed, TypeOK, OnPath, Test, Goto, Awake, Waiting, PC
  <2>2. QED
      BY <2>1 DEF WakeupsSuffice, Test
<1>3. QED
    BY <1>1, <1>2

\* A thread that calls pop or wakes for no reason joins the others.
LEMMA JoinWakes ==
    ASSUME Typed, WakeupsSuffice, NEW t \in Thread,
           SpuriousWakeup(t) \/ \E c \in MayCall[t] : Invoke(t, c)
    PROVE  WakeupsSuffice'
<1>1. Waiting' \subseteq Waiting /\ que' = que
    BY DEF Typed, TypeOK, SpuriousWakeup, Invoke, Goto, Waiting, PC
<1>2. t \notin Awake
    BY DEF Typed, OnPath, SpuriousWakeup, Invoke, Awake
<1>3. Awake' = Awake \/ Awake' = Awake \cup {t}
    BY <1>2 DEF Typed, TypeOK, OnPath, SpuriousWakeup, Invoke, Goto, Awake, PC
<1>4. Len(que) \in Nat
    BY DEF Typed, TypeOK
<1>5. Waiting' # {} => Waiting # {}
    BY <1>1
<1>6. QED
    BY <1>1, <1>2, <1>3, <1>4, <1>5, Joins, AwakeFinite DEF WakeupsSuffice

\* pop removes the value it was awake for; clear removes all.
LEMMA RemovalWakes ==
    ASSUME Typed, WakeupsSuffice, NEW t \in Thread, Drop(t) \/ Clear(t)
    PROVE  WakeupsSuffice'
<1>1. CASE Drop(t)
  <2>1. t \in Awake /\ Awake' = Awake \ {t}
      BY <1>1 DEF Typed, TypeOK, OnPath, Drop, Goto, Awake, PC
  <2>2. Waiting' = Waiting
      BY <1>1 DEF Typed, TypeOK, Drop, Goto, Waiting, PC
  <2>3. Len(que') = Len(que) - 1 /\ Len(que) \in Nat
      BY <1>1 DEF Typed, TypeOK, FrontDefined, Drop
  <2>4. Cardinality(Awake') = Cardinality(Awake) - 1
      BY <2>1, Leaves
  <2>5. QED
      BY <2>2, <2>3, <2>4, AwakeFinite DEF WakeupsSuffice
<1>2. CASE Clear(t)
  <2>1. Awake' \subseteq Thread /\ que' = <<>>
      BY <1>2 DEF Awake, Clear
  <2>2. Cardinality(Awake') \in Nat
      BY <2>1, FS_Subset, FS_CardinalityType
  <2>3. QED
      BY <2>1, <2>2 DEF WakeupsSuffice
<1>3. QED
    BY <1>1, <1>2

\* The other steps neither put to sleep nor wake.
LEMMA OtherWakes ==
    ASSUME Typed, WakeupsSuffice, NEW t \in Thread,
           Lock(t) \/ Copy(t) \/ Unlock(t)
    PROVE  WakeupsSuffice'
<1>1. call[t][1] \in {"push", "push_front", "pop", "clear"}
    BY DEF Typed, TypeOK, Call
<1>2. Awake' = Awake
    BY <1>1 DEF Typed, TypeOK, OnPath, Lock, Entry, Copy, Unlock, Goto, Awake, PC
<1>3. Waiting' = Waiting /\ que' = que
    BY <1>1 DEF Typed, TypeOK, Lock, Entry, Copy, Unlock, Goto, Waiting, PC
<1>4. QED
    BY <1>2, <1>3 DEF WakeupsSuffice

\* The invariant of the queue is inductive.
LEMMA NextInv == Inv /\ [Next]_vars => Inv'
<1> SUFFICES ASSUME Typed, WakeupsSuffice, [Next]_vars
             PROVE  WakeupsSuffice'
    BY NextTyped DEF Inv, Typed
<1>1. CASE UNCHANGED vars
    BY <1>1 DEF vars, WakeupsSuffice, Waiting, Awake
<1>2. ASSUME NEW t \in Thread, Body(t) \/ SpuriousWakeup(t) \/ \E c \in MayCall[t] : Invoke(t, c)
      PROVE  WakeupsSuffice'
    BY <1>2, PushWakes, NotifyWakes, TestWakes, JoinWakes, RemovalWakes,
       OtherWakes DEF Body
<1>3. QED
    BY <1>1, <1>2 DEF Next

THEOREM QueueInvariant == Spec => []Inv
<1>1. Init => Inv
  <2> SUFFICES ASSUME Init PROVE Typed /\ Waiting = {}
      BY Enough DEF Inv, Typed
  <2> QED
      BY InitTyped DEF Init, Waiting
<1>2. QED
    BY <1>1, NextInv, PTL DEF Spec

\* While a thread sleeps in pop every value in the deque has a thread on its
\* way to it: notify_one under the mutex is enough (ThreadSafeQueue.h:29, 40).
THEOREM NoLostWakeup == Spec => []WakeupsSuffice
BY QueueInvariant, PTL DEF Inv

-----------------------------------------------------------------------------
(* The queue implements Fifo. *)

\* Where no thread is about to drop, the content is the deque.
LEMMA ContentIs ==
    ASSUME Typed, mtx = Nobody \/ \E t \in Thread : mtx = t /\ pc[t] # "drop"
    PROVE  Content = que
BY DEF Content, Typed, Exclusive, Inside

\* A step changes the phases as Fifo says when it does so for its thread and
\* leaves the phases of the others.
LEMMA PhasesAre ==
    ASSUME Typed, NEW t \in Thread, NEW l \in PC, Goto(t, l)
    PROVE  \A u \in Thread : PhaseAt(pc'[u]) = IF u = t THEN PhaseAt(l)
                                                      ELSE PhaseAt(pc[u])
BY DEF Typed, TypeOK, Goto

\* The initial state maps to the initial state of Fifo.
LEMMA InitRefines == Init => Queue!Init
BY DEF Init, Queue!Init, Content, PhaseAt

\* A call and a return of the queue are a call and a return of Fifo.
LEMMA InvokeRefines ==
    ASSUME Typed, Typed', NEW t \in Thread, NEW c \in MayCall[t], Invoke(t, c)
    PROVE  Queue!Invoke(t, c)
<1>1. \A u \in Thread : PhaseAt(pc'[u]) = IF u = t THEN "called" ELSE PhaseAt(pc[u])
    BY PhasesAre DEF Invoke, PhaseAt, PC
<1>2. PhaseAt(pc[t]) = "idle"
    BY DEF Invoke, PhaseAt
<1>3. Content' = Content
    BY DEF Typed, TypeOK, Content, Invoke, Goto, PC
<1>4. QED
    BY <1>1, <1>2, <1>3 DEF Invoke, Queue!Invoke

LEMMA UnlockRefines ==
    ASSUME Typed, Typed', NEW t \in Thread, Unlock(t)
    PROVE  Queue!Return(t)
<1>1. \A u \in Thread : PhaseAt(pc'[u]) = IF u = t THEN "idle" ELSE PhaseAt(pc[u])
    BY PhasesAre DEF Unlock, PhaseAt, PC
<1>2. PhaseAt(pc[t]) = "done"
    BY DEF Unlock, PhaseAt
<1>3. Content' = Content
    BY DEF Typed, TypeOK, Content, Unlock, Goto, PC
<1>4. QED
    BY <1>1, <1>2, <1>3 DEF Unlock, Queue!Return

\* push takes effect when it stores, clear when it erases, pop when it copies.
LEMMA PushRefines ==
    ASSUME Typed, Typed', NEW t \in Thread, Push(t)
    PROVE  Queue!Push(t) \/ Queue!PushFront(t)
<1>1. \A u \in Thread : PhaseAt(pc'[u]) = IF u = t THEN "done" ELSE PhaseAt(pc[u])
    BY PhasesAre DEF Push, PhaseAt, PC
<1>2. PhaseAt(pc[t]) = "called"
    BY DEF Push, PhaseAt
<1>3. mtx = t /\ mtx' = t /\ pc'[t] # "drop"
    BY DEF Typed, TypeOK, Exclusive, Push, Goto, Inside, PC
<1>4. Content = que /\ Content' = que'
    BY <1>3 DEF Content, Typed, Exclusive, Inside, Push
<1>5. call[t][1] \in {"push", "push_front"}
    BY DEF Typed, OnPath, Push
<1>6. QED
    BY <1>1, <1>2, <1>4, <1>5 DEF Push, Queue!Push, Queue!PushFront, Queue!Done

LEMMA ClearRefines ==
    ASSUME Typed, Typed', NEW t \in Thread, Clear(t)
    PROVE  Queue!Clear(t)
<1>1. \A u \in Thread : PhaseAt(pc'[u]) = IF u = t THEN "done" ELSE PhaseAt(pc[u])
    BY PhasesAre DEF Clear, PhaseAt, PC
<1>2. PhaseAt(pc[t]) = "called"
    BY DEF Clear, PhaseAt
<1>3. mtx' = t /\ pc'[t] # "drop"
    BY DEF Typed, TypeOK, Exclusive, Clear, Goto, Inside, PC
<1>4. Content' = que'
    BY <1>3 DEF Content, Typed, Exclusive, Inside
<1>5. QED
    BY <1>1, <1>2, <1>4 DEF Typed, OnPath, Clear, Queue!Clear, Queue!Done

LEMMA CopyRefines ==
    ASSUME Typed, Typed', NEW t \in Thread, Copy(t)
    PROVE  Queue!Pop(t)
<1>1. \A u \in Thread : PhaseAt(pc'[u]) = IF u = t THEN "done" ELSE PhaseAt(pc[u])
    BY PhasesAre DEF Copy, PhaseAt, PC
<1>2. PhaseAt(pc[t]) = "called"
    BY DEF Copy, PhaseAt
<1>3. Content = que
  <2>1. mtx = t
      BY DEF Typed, Exclusive, Copy, Inside
  <2>2. QED
      BY <2>1, ContentIs DEF Copy
<1>4. Content' = Tail(que)
  <2>1. pc'[t] = "drop" /\ que' = que
      BY DEF Typed, TypeOK, Copy, Goto
  <2>2. QED
      BY <2>1 DEF Content
<1>5. que # <<>> /\ call[t][1] = "pop"
    BY DEF Typed, FrontDefined, OnPath, Copy
<1>6. QED
    BY <1>1, <1>2, <1>3, <1>4, <1>5 DEF Copy, Queue!Pop, Queue!Done

\* The other steps take the mutex, wait, wake, or remove what was returned
\* already: Fifo does not move.
LEMMA SilentRefines ==
    ASSUME Typed, Typed', NEW t \in Thread,
           Lock(t) \/ Notify(t) \/ Test(t) \/ Drop(t) \/ SpuriousWakeup(t)
    PROVE  UNCHANGED <<Content, call, [u \in Thread |-> PhaseAt(pc[u])], res>>
<1>1. CASE Lock(t)
  <2>1. call[t][1] \in {"push", "push_front", "pop", "clear"}
      BY DEF Typed, TypeOK, Call
  <2>2. Entry(t) \in {"push", "test", "clear"}
      BY <2>1 DEF Entry
  <2>3. \A u \in Thread : PhaseAt(pc'[u]) = PhaseAt(pc[u])
      BY <1>1, <2>2, PhasesAre DEF Lock, PhaseAt, PC
  <2>4. Content' = Content
      BY <1>1, <2>2 DEF Typed, TypeOK, Content, Lock, Goto, PC
  <2>5. QED
      BY <1>1, <2>3, <2>4 DEF Lock
<1>2. CASE Notify(t)
  <2>1. \A u \in Thread : /\ PhaseAt(pc'[u]) = PhaseAt(pc[u])
                          /\ pc[u] = "drop" <=> pc'[u] = "drop"
    <3>1. CASE Waiting = {}
        BY <1>2, <3>1 DEF Typed, TypeOK, Notify, Goto, PhaseAt, PC
    <3>2. CASE Waiting # {}
      <4>1. PICK w \in Thread :
                /\ pc[w] = "wait"
                /\ pc' = [pc EXCEPT ![t] = "unlock", ![w] = "lock"]
          BY <1>2, <3>2 DEF Notify, Waiting
      <4>2. QED
          BY <1>2, <4>1 DEF Typed, TypeOK, Notify, PhaseAt, PC
    <3>3. QED
        BY <3>1, <3>2
  <2>2. Content' = Content
      BY <1>2, <2>1 DEF Content, Notify
  <2>3. QED
      BY <1>2, <2>1, <2>2 DEF Notify
<1>3. CASE Test(t)
  <2>1. \A u \in Thread : /\ PhaseAt(pc'[u]) = PhaseAt(pc[u])
                          /\ pc[u] = "drop" <=> pc'[u] = "drop"
      BY <1>3 DEF Typed, TypeOK, Test, Goto, PhaseAt, PC
  <2>2. Content' = Content
      BY <1>3, <2>1 DEF Content, Test
  <2>3. QED
      BY <1>3, <2>1, <2>2 DEF Test
<1>4. CASE Drop(t)
  <2>1. \A u \in Thread : PhaseAt(pc'[u]) = PhaseAt(pc[u])
      BY <1>4, PhasesAre DEF Drop, PhaseAt, PC
  <2>2. mtx' = t /\ pc'[t] # "drop"
      BY <1>4 DEF Typed, TypeOK, Exclusive, Drop, Goto, Inside, PC
  <2>3. Content' = Tail(que) /\ Content = Tail(que)
      BY <1>4, <2>2 DEF Content, Typed, Exclusive, Inside, Drop
  <2>4. QED
      BY <1>4, <2>1, <2>3 DEF Drop
<1>5. CASE SpuriousWakeup(t)
  <2>1. \A u \in Thread : PhaseAt(pc'[u]) = PhaseAt(pc[u])
      BY <1>5, PhasesAre DEF SpuriousWakeup, PhaseAt, PC
  <2>2. Content' = Content
      BY <1>5 DEF Typed, TypeOK, Content, SpuriousWakeup, Goto, PC
  <2>3. QED
      BY <1>5, <2>1, <2>2 DEF SpuriousWakeup
<1>6. QED
    BY <1>1, <1>2, <1>3, <1>4, <1>5

\* Every step of the queue is a step of Fifo or none.
LEMMA NextRefines == Typed /\ Typed' /\ [Next]_vars => [Queue!Next]_(Queue!vars)
<1> SUFFICES ASSUME Typed, Typed', [Next]_vars
             PROVE  Queue!Next \/ UNCHANGED Queue!vars
    OBVIOUS
<1>1. CASE UNCHANGED vars
    BY <1>1 DEF vars, Queue!vars, Content, PhaseAt
<1>2. ASSUME NEW t \in Thread, NEW c \in MayCall[t], Invoke(t, c)
      PROVE  Queue!Next
    BY <1>2, InvokeRefines DEF Queue!Next, Call, Queue!Call
<1>3. ASSUME NEW t \in Thread, Push(t) \/ Copy(t) \/ Clear(t) \/ Unlock(t)
      PROVE  Queue!Next
    BY <1>3, PushRefines, CopyRefines, ClearRefines, UnlockRefines DEF Queue!Next
<1>4. ASSUME NEW t \in Thread,
             Lock(t) \/ Notify(t) \/ Test(t) \/ Drop(t) \/ SpuriousWakeup(t)
      PROVE  UNCHANGED Queue!vars
    BY <1>4, SilentRefines DEF Queue!vars
<1>5. QED
    BY <1>1, <1>2, <1>3, <1>4 DEF Next, Body

\* The queue is linearizable: every call takes effect at one instant between
\* its call and its return, and pop returns what was at the front
\* (ThreadSafeQueue.h:20-65).
THEOREM Refinement == Spec => Linearizable
<1>1. Spec => [][Queue!Next]_(Queue!vars)
    BY TypedAlways, NextRefines, PTL DEF Spec
<1>2. QED
    BY <1>1, InitRefines, PTL DEF Spec, Linearizable, Queue!Spec
===============================================================================
