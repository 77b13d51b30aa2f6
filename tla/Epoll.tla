-------------------------------- MODULE Epoll --------------------------------
(***************************************************************************)
(* Epoll.cpp: addNew puts a connected socket into the interest list; the   *)
(* waiter thread turns every event epoll_wait reports into a command line, *)
(* "-f <fd> -r" or "-f <fd> -c", and pushes it on the queue the EndPoint   *)
(* reads.  The line carries the descriptor NUMBER: nothing ties it to the  *)
(* connection that raised the event.                                       *)
(*                                                                         *)
(* One step of Waiter is one iteration of the loop over the reported       *)
(* events.  epoll_wait hands over up to 64 of them at once; the time an    *)
(* event then spends in that array is not distinguished from the time its  *)
(* line spends in the queue.                                               *)
(***************************************************************************)
EXTENDS Descriptors, Sequences

CONSTANTS Line,        \* command lines
          ReadLine,    \* ReadLine[f] is the line "-f f -r"
          CloseLine    \* CloseLine[f] is the line "-f f -c"

ASSUME LineAssumption ==
    /\ ReadLine \in [Fd -> Line]
    /\ CloseLine \in [Fd -> Line]

VARIABLE queue         \* main.cpp: the ThreadSafeQueue<std::string>

\* epoll_ctl(EPOLL_CTL_ADD): fails on a number that is not open (EBADF) and on
\* a socket already in the list (EEXIST).  A socket that is ready when it is
\* added is reported at once.
AddNew(f) ==
    LET ok == IsOpen(f) /\ ~watched[f] IN
    /\ watched' = [g \in Fd |-> watched[g] \/ (ok /\ g = f)]
    /\ armed'   = [g \in Fd |-> armed[g] \/ (ok /\ g = f /\ Ready(g))]
    /\ UNCHANGED <<owner, link, data>>

\* What the waiter makes of the events reported for f.
EventLine(f) == IF HungUp(f) /\ ~Readable(f) THEN CloseLine[f] ELSE ReadLine[f]

\* epoll_wait reports f: the events are those that hold now, so an edge whose
\* cause was consumed meanwhile is not reported at all.
Waiter(f) ==
    /\ armed[f]
    /\ armed' = [armed EXCEPT ![f] = FALSE]
    /\ queue' = IF Ready(f) THEN Append(queue, EventLine(f)) ELSE queue
    /\ UNCHANGED <<owner, link, data, watched>>
=============================================================================
