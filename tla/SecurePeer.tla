------------------------------- MODULE SecurePeer -------------------------------
(***************************************************************************)
(* A peer of IO.cpp that was constructed with ssl = true: its constructor, *)
(* its servant thread with the TLS branches of connect, read, write and    *)
(* close, and the way an event on its connection takes through the epoll   *)
(* waiter and stdIN to the servant.  Module IO has the other peers; the    *)
(* servant's steps are cut in the same places.  connectTCP, whose failures *)
(* IO has in detail, is one step here.                                     *)
(***************************************************************************)
EXTENDS TLS, Sequences

CONSTANTS MaxUser,   \* bound on the requests of users
          MaxNetwork \* bound on the steps of the server

ASSUME BoundAssumption == MaxUser \in Nat /\ MaxNetwork \in Nat

Req == {"CONNECT", "CLOSE", "WRITE", "READ"}

VARIABLES has,     \* _fd # CLOSED
          que,     \* _que
          pc,      \* where the constructor, then the servant is
          eof,     \* READ: `request' was overwritten with CLOSE
          lines,   \* lines "-f n -r" on their way to stdIN
          alive,   \* the process has not ended
          users,   \* requests so far
          network  \* steps of the server so far

peerVars == <<has, que, pc, eof>>
worldVars == <<lines, alive, users, network>>
vars == <<sessionVars, connVars, peerVars, worldVars>>

Constructing == {"context", "configure", "object"}

PC == Constructing \cup {"wait", "dial", "tls", "notify", "pause", "read", "erase",
                         "write", "close", "mark"}

Init ==
    /\ TLSInit
    /\ has = FALSE /\ que = <<>> /\ pc = "context" /\ eof = FALSE
    /\ lines = 0 /\ alive = TRUE /\ users = 0 /\ network = 0

-----------------------------------------------------------------------------
(* IO::IO. *)

\* create_context: without a context the process exits.
CreateContext ==
    /\ pc = "context"
    /\ \/ ctx' = "set" /\ pc' = "configure" /\ UNCHANGED alive
       \/ alive' = FALSE /\ UNCHANGED <<ctx, pc>>
    /\ UNCHANGED <<ssl, mine, connVars, has, que, eof, lines, users, network>>

Construct ==
    /\ \/ pc = "configure" /\ ConfigureContext /\ pc' = "object"
       \/ pc = "object"    /\ CreateObject     /\ pc' = "wait"
    /\ UNCHANGED <<connVars, has, que, eof, worldVars>>

-----------------------------------------------------------------------------
(* IO::threadFunc: the servant takes the next request. *)

Pop ==
    /\ pc = "wait" /\ que # <<>>
    /\ que' = Tail(que)
    /\ UNCHANGED <<sessionVars, connVars, has, eof, worldVars>>

\* Faulty: does not read before the handshake is finished.
DropUntilReady ==
    /\ Pop
    /\ \/ has = (Head(que) = "CONNECT")
       \/ Head(que) = "READ" /\ ssl = "shaking"
    /\ UNCHANGED pc

Drop ==
    /\ Pop
    /\ has = (Head(que) = "CONNECT")
    /\ UNCHANGED pc

Take ==
    /\ Pop
    /\ \/ ~has /\ Head(que) = "CONNECT" /\ pc' = "dial"
       \/ has /\ Head(que) = "READ"     /\ pc' = "read"
       \/ has /\ Head(que) = "WRITE"    /\ pc' = "write"
       \/ has /\ Head(que) = "CLOSE"    /\ pc' = "close"

-----------------------------------------------------------------------------
(* IO::connect. *)

\* connectTCP: no descriptor, a connection, or the number of a socket that it
\* has closed.
Dial ==
    /\ pc = "dial"
    /\ \/ pc' = "pause" /\ UNCHANGED <<has, link>>
       \/ pc' = "tls" /\ has' = TRUE /\ link' \in {"none", "up"}
    /\ UNCHANGED <<sessionVars, unread, watched, armed, que, eof, worldVars>>

\* A peer whose session is gone connects without.  When the handshake fails the
\* descriptor stays in _fd, and is not registered.
Secure ==
    /\ pc = "tls"
    /\ \/ ssl = "null" /\ pc' = "notify" /\ UNCHANGED <<sessionVars, unread>>
       \/ ssl # "null" /\ TLSConnect(TRUE)  /\ pc' = "notify"
       \/ ssl # "null" /\ TLSConnect(FALSE) /\ pc' = "pause"
    /\ UNCHANGED <<link, watched, armed, has, que, eof, worldVars>>

\* SSL_connect with a null pointer may end the process.
SecureCrash ==
    /\ pc = "tls" /\ ssl # "null"
    /\ alive' = FALSE
    /\ UNCHANGED <<sessionVars, connVars, peerVars, lines, users, network>>

\* A descriptor that is ready when epoll gets it is reported at once.
Notify ==
    /\ pc = "notify"
    /\ pc' = "pause"
    /\ watched' = (link # "none")
    /\ armed' = (link # "none" /\ Readable)
    /\ UNCHANGED <<sessionVars, link, unread, has, que, eof, worldVars>>

\* Faulty: sleeps on until the handshake is finished.
PauseUntilReady ==
    /\ pc = "pause"
    /\ pc' = IF ~has THEN "dial" ELSE IF ssl = "shaking" THEN "pause" ELSE "wait"
    /\ UNCHANGED <<sessionVars, connVars, has, que, eof, worldVars>>

Pause ==
    /\ pc = "pause"
    /\ pc' = IF has THEN "wait" ELSE "dial"
    /\ UNCHANGED <<sessionVars, connVars, has, que, eof, worldVars>>

Connect == Dial \/ Secure \/ SecureCrash \/ Notify \/ Pause

-----------------------------------------------------------------------------
(* IO::read in the loop of threadFunc, IO::write, IO::close. *)

\* The loop is left: the request is the one that was taken, or CLOSE.
LeaveLoop ==
    /\ pc' = IF eof THEN "close" ELSE "wait"
    /\ eof' = FALSE

\* What the loop makes of the result of read().
LoopOn(res) ==
    \/ res = "data"  /\ UNCHANGED <<pc, eof>>
    \/ res = "zero"  /\ pc' = "erase" /\ UNCHANGED eof
    \/ res = "minus" /\ LeaveLoop

\* Faulty: a read that has to be tried again is an error like the others.
WantIsEnd(res) == IF res = "ok" THEN "data" ELSE "zero"

\* SSL_read: only what is to be tried again stays negative.
ReadResult(res) ==
    IF res = "ok" THEN "data" ELSE IF HandleIoFailure(res) > 0 THEN "minus" ELSE "zero"

ReadSecure ==
    /\ pc = "read" /\ ssl # "null"
    /\ \E o \in Outcome :
         /\ SSLRead(o) /\ Becomes(o)
         /\ LoopOn(ReadResult(o.res))
    /\ UNCHANGED <<link, watched, armed, has, que, worldVars>>

\* read(2), which has EAGAIN turned into 0 and leaves the other errors -1.  A
\* reset is reported once.
ReadPlain ==
    /\ pc = "read" /\ ssl = "null"
    /\ \/ unread # "nothing" /\ unread' = "nothing" /\ LoopOn("data")  /\ link' = link
       \/ /\ unread = "nothing" /\ unread' = unread
          /\ \/ link \in {"up", "fin"} /\ LoopOn("zero")  /\ link' = link
             \/ link = "none"          /\ LoopOn("minus") /\ link' = link
             \/ link = "rst"           /\ LoopOn("minus") /\ link' = "fin"
    /\ UNCHANGED <<sessionVars, watched, armed, has, que, worldVars>>

Erase ==
    /\ pc = "erase"
    /\ que' = <<>> /\ eof' = TRUE /\ pc' = "read"
    /\ UNCHANGED <<sessionVars, connVars, has, worldVars>>

\* The result is not looked at; a session to begin with goes on with its
\* handshake, a reset that write(2) reports is lost.
Write ==
    /\ pc = "write" /\ pc' = "wait"
    /\ IF ssl # "null"
         THEN link' = link /\ \E o \in Outcome : SSLWrite(o) /\ Becomes(o)
         ELSE /\ link' = (IF link = "rst" THEN "fin" ELSE link)
              /\ UNCHANGED <<sessionVars, unread>>
    /\ UNCHANGED <<watched, armed, has, que, eof, worldVars>>

\* The session outlives the connection.
Close ==
    /\ pc = "close" /\ pc' = "mark"
    /\ link' = "none" /\ unread' = "nothing" /\ watched' = FALSE /\ armed' = FALSE
    /\ mine' = FALSE
    /\ UNCHANGED <<ctx, ssl, has, que, eof, worldVars>>

MarkClosed ==
    /\ pc = "mark" /\ pc' = "wait"
    /\ has' = FALSE
    /\ UNCHANGED <<sessionVars, connVars, que, eof, worldVars>>

Transfer == ReadSecure \/ ReadPlain \/ Erase \/ Write \/ Close \/ MarkClosed

Servant == CreateContext \/ Construct \/ Drop \/ Take \/ Connect \/ Transfer

-----------------------------------------------------------------------------
(* The other threads and the environment. *)

Waiter ==
    /\ armed /\ armed' = FALSE
    /\ lines' = IF Readable THEN lines + 1 ELSE lines
    /\ UNCHANGED <<sessionVars, link, unread, watched, peerVars, alive, users, network>>

\* A line that names a descriptor the peer does not have is not for it.
StdIn ==
    /\ lines > 0 /\ lines' = lines - 1
    /\ que' = IF has THEN Append(que, "READ") ELSE que
    /\ UNCHANGED <<sessionVars, connVars, has, pc, eof, alive, users, network>>

\* A line with the address of the peer's master.
User ==
    /\ pc \notin Constructing
    /\ users < MaxUser /\ users' = users + 1
    /\ \E r \in Req : que' = Append(que, r)
    /\ UNCHANGED <<sessionVars, connVars, has, pc, eof, lines, alive, network>>

Server ==
    /\ network < MaxNetwork /\ network' = network + 1
    /\ Deliver \/ ServerEnds
    /\ UNCHANGED <<peerVars, lines, alive, users>>

Next == alive /\ (Servant \/ Waiter \/ StdIn \/ User \/ Server)

Spec == Init /\ [][Next]_vars

\* Threads that can run are eventually scheduled; nothing is assumed of users
\* and of the server.
Fairness == WF_vars(alive /\ Servant) /\ WF_vars(alive /\ Waiter) /\ WF_vars(alive /\ StdIn)

FairSpec == Spec /\ Fairness

-----------------------------------------------------------------------------
TypeOK ==
    /\ TLSTypeOK
    /\ has \in BOOLEAN /\ que \in Seq(Req) /\ pc \in PC /\ eof \in BOOLEAN
    /\ lines \in Nat /\ alive \in BOOLEAN
    /\ users \in 0..MaxUser /\ network \in 0..MaxNetwork

\* Session and context are set and freed together: neither is used, or freed
\* twice, when the other is gone.
Paired == pc \notin Constructing => (ctx = "null" <=> ssl = "null")

\* The servant is inside the handling of a descriptor exactly while it has one,
\* and what epoll watches is open.
PhaseOK ==
    /\ pc \in Constructing \cup {"dial"} => ~has
    /\ pc \in {"tls", "notify", "read", "erase", "write", "close", "mark"} => has
    /\ ~has => link = "none"
    /\ pc \in {"tls", "notify", "mark"} => ~watched
    /\ link = "none" => ~watched /\ ~mine /\ unread = "nothing"
    /\ pc = "mark" => link = "none"
    /\ has /\ pc # "tls" => ssl # "fresh"

(***************************************************************************)
(* The requests that wait are erased only when the connection or the       *)
(* session has come to its end, announced by the server or not, or the     *)
(* peer has no session: never because a session merely has to wait for     *)
(* more, in whatever state of the handshake (IO.cpp:416-427, 349-356).     *)
(***************************************************************************)
EraseJustified == pc = "erase" => link # "up" \/ ssl \in {"null", "ended", "broken"}

ReadUnderWay ==
    lines > 0 \/ pc \in {"read", "erase"} \/ \E k \in DOMAIN que : que[k] = "READ"

(***************************************************************************)
(* Bytes that epoll has reported, parts of the handshake as well as data,  *)
(* are on their way to be read (Epoll.cpp:81, IO.cpp:336-366, 413).        *)
(***************************************************************************)
NoStalledRecord ==
    alive /\ watched /\ unread # "nothing" /\ ~armed => ReadUnderWay

Inv == TypeOK /\ Paired /\ PhaseOK /\ EraseJustified /\ NoStalledRecord

-----------------------------------------------------------------------------
(***************************************************************************)
(* While neither the session nor the connection has come to its end, the   *)
(* loop that reads ends: a call that has to be tried again leaves it       *)
(* (IO.cpp:343-347, 412-428).  At the end it does not: every read reports  *)
(* the end again, and the loop has no break (as in EndPoint!ReadingEnds).  *)
(***************************************************************************)
ReadLeaves ==
    pc \in {"read", "erase"}
        ~> (\/ pc \notin {"read", "erase"} \/ ~alive
            \/ link # "up" \/ ssl \in {"null", "ended", "broken"})

(***************************************************************************)
(* A handshake that connect() left unfinished goes on: what the server     *)
(* sends on a watched connection is taken by some later call               *)
(* (TLS.cpp:89-101, IO.cpp:413).                                           *)
(***************************************************************************)
AnswerTaken ==
    (watched /\ unread # "nothing") ~> (unread = "nothing" \/ ssl = "broken" \/ ~alive)

(***************************************************************************)
(* "Start tls handshake" (TLS.h:39): the session of a connection that      *)
(* connect() reported as successful was begun on that connection.          *)
(***************************************************************************)
HandshakeBegun == watched /\ ssl # "null" => mine
=============================================================================
