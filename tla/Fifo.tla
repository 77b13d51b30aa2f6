--------------------------------- MODULE Fifo ---------------------------------
(***************************************************************************)
(* What ThreadSafeQueue.h promises: a sequence on which every call takes   *)
(* effect at one instant between the call and its return.  A pop of the    *)
(* empty sequence has no effect yet.  EndPoint and IO use the queues of    *)
(* the client as such sequences.                                           *)
(***************************************************************************)
EXTENDS Sequences

CONSTANTS Thread, Value,
          None  \* no value

\* A call: the function and its argument.
Call == ({"push", "push_front"} \X Value) \cup ({"pop", "clear"} \X {None})

Phase == {"idle", "called", "done"}

VARIABLES items,  \* the content, the front first
          call,   \* the call a thread is in, or was in last
          phase,  \* whether it has taken effect
          got     \* what the thread's last pop returned

vars == <<items, call, phase, got>>

Init ==
    /\ items = <<>>
    /\ call \in [Thread -> {<<"clear", None>>}]
    /\ phase = [t \in Thread |-> "idle"]
    /\ got = [t \in Thread |-> None]

Invoke(t, c) ==
    /\ phase[t] = "idle"
    /\ phase' = [phase EXCEPT ![t] = "called"]
    /\ call' = [call EXCEPT ![t] = c]
    /\ UNCHANGED <<items, got>>

Done(t) == phase[t] = "called" /\ phase' = [phase EXCEPT ![t] = "done"]

Push(t) ==
    /\ Done(t) /\ call[t][1] = "push"
    /\ items' = Append(items, call[t][2])
    /\ UNCHANGED <<call, got>>

PushFront(t) ==
    /\ Done(t) /\ call[t][1] = "push_front"
    /\ items' = <<call[t][2]>> \o items
    /\ UNCHANGED <<call, got>>

Pop(t) ==
    /\ Done(t) /\ call[t][1] = "pop" /\ items # <<>>
    /\ got' = [got EXCEPT ![t] = Head(items)]
    /\ items' = Tail(items)
    /\ UNCHANGED call

Clear(t) ==
    /\ Done(t) /\ call[t][1] = "clear"
    /\ items' = <<>>
    /\ UNCHANGED <<call, got>>

Return(t) ==
    /\ phase[t] = "done"
    /\ phase' = [phase EXCEPT ![t] = "idle"]
    /\ UNCHANGED <<items, call, got>>

Next ==
    \E t \in Thread :
        \/ \E c \in Call : Invoke(t, c)
        \/ Push(t) \/ PushFront(t) \/ Pop(t) \/ Clear(t)
        \/ Return(t)

Spec == Init /\ [][Next]_vars
===============================================================================
