# A verification project for client_epoll

`client_epoll` is a TCP client for Linux. The first instance of the program
keeps connections to several servers ("masters"); every later instance sends
its command line to the first one and ends. This directory models the first
instance, and the way to it, in TLA+, checks the models with TLC on small
instances, and proves the main safety properties with TLAPS for every size.

All source references are to `src/`.

## Inventory

| Component | State | Operations | Talks to |
|---|---|---|---|
| Control channel (`main.cpp`, `ProcessInstance.h`) | POSIX message queue, registration for its notification, lock on `/var/run/client.pid` | first instance: lock, open, register, drain; later instance: send; callback `new_msg_queue`: register again, receive, push | command queue |
| Command queue, request queues (`ThreadSafeQueue.h`) | deque, mutex, condition variable | `push`, `push_front`, `pop`, `clear` | every thread |
| Options of the first instance (`main.cpp`) | none | the loop over `getopt_long` | the first peer's local address |
| Command interpreter (`EndPoint.cpp`) | none | `interpretRequest` up to line 215, `validateAddrTCP` | EndPoint |
| EndPoint (`EndPoint.cpp/.h`) | vector of peers, stdIN thread, timer thread | interpret a line, offer it to the peers, create a peer, call the timers, register a descriptor | command queue, IO, Epoll |
| Peer (`IO.cpp/.h`, `IPeer.h`) | master and local address, `_fd`, request queue, servant thread | `request`, `threadFunc`, `connectTCP`, `connect`, `read`, `write`, `close` | kernel, EndPoint (registration) |
| Epoll waiter (`Epoll.cpp/.h`) | epoll instance, waiter thread | `addNew`, event loop | kernel, command queue |
| TLS session (`TLS.cpp/.h`) | SSL context and object, created with the peer | create, configure, connect, classify errors, clear | IO, OpenSSL |
| Windows parts (`MailSlot*`, `WinSockInit.h`, `Lock.*`, `IOCP.h`) | mail slot, winsock, mutex | counterparts of the control channel | command queue |
| Logger, DB, error strings | none | stubs | |

What is hard in it:

* five kinds of threads (stdIN, timer, waiter, one servant per peer, one
  notification thread per message) share the descriptor numbers and `_fd`, which
  is a plain `int`;
* a descriptor number is reused as soon as it is closed, while lines and requests
  that name it are still in queues;
* epoll is edge-triggered: an event that is lost is never repeated;
* a TLS handshake on a socket that does not block takes several calls, and the
  session object outlives the connection it was begun on;
* connecting fails in many ways, is retried over a list of candidates and then
  again every five seconds;
* one thread serves the requests for every peer.

What makes each part correct:

* interpreter: it finds the request, peer and message the line means, and refuses
  the rest;
* EndPoint: a master belongs to one peer, a peer without one does nothing, lines
  are always served;
* peer: no socket is leaked, the connection in use is the peer's own, every
  attempt and every read ends;
* TLS: a handshake that was begun is finished by later calls, waiting is never
  taken for the end, a session belongs to one connection, and is not used when
  it is gone;
* waiter and queues: bytes that arrived are read, whatever the other threads do;
* control channel: a line that was sent arrives, and nothing else does.

## Modules

```
Descriptors      kernel: descriptor table, TCP connections, epoll interest list
   Epoll         addNew, waiter thread
      IO         peers and their servant threads
         EndPoint        stdIN, timer, users, remotes; properties; Spec, FairSpec
            EndPointProofs   theorems: masters, descriptors
               EventProofs   theorems: events and bytes
            MCEndPoint       instances for TLC (with Command)
Directory        what an EndPoint promises about masters; EndPoint implements it
TLS              the session object, OpenSSL, and one connection
   SecurePeer    a peer constructed with ssl = true, waiter, stdIN, server
      SecurePeerProofs theorems
Command          interpretRequest and validateAddrTCP as functions
Arguments        the options of the first instance as a function
   MCCommand     definitions by positions; all lines and lists up to a length
      CommandProofs     theorems: the interpreter, for every line
         ArgumentProofs theorems: the options, for every list
Fifo             what a queue promises
ThreadSafeQueue  how it is done; implements Fifo
   QueueProofs   theorems
ControlChannel   lock, message queue, notification, callbacks
   ChannelProofs theorems
```

**Descriptors** is external: it models the calls the code makes, not code of the
repository. `owner[f]` is the peer whose `socket()` returned the number `f`, or
`Free`; `link[f]` the connection behind it; `data[f]` says that bytes are unread;
`watched[f]` that epoll has it; `armed[f]` that an edge is to be reported.
Numbers are handed out lowest first, `close` acts on what the number denotes
now, and closing removes it from epoll.

**Epoll**: `AddNew` is `Epoll::addNew`, `Waiter` one turn of the loop over the
events. The events that hold when `epoll_wait` looks decide between "-r" and
"-c". Up to 64 events are handed over at once; the time an event spends in that
array is not told apart from the time its line spends in the queue.

**IO**: `Matches` and `Accept` are `IO::request`. The servant's program counter
`pc[p]` has the values

| `pc` | in `IO.cpp` |
|---|---|
| `wait` | 314, `_que.pop()` |
| `resolve` | 91, before `getaddrinfo` |
| `next` | 106, head of the loop over the candidates, or behind it when `todo = 0` |
| `setup`, `dial`, `select` | 155-194, 201, 221 |
| `notify` | 385, `_fd` is set, not yet registered |
| `pause` | 329, `sleep(5)`, then the loop condition |
| `read`, `erase` | 342, and 352 after a read that returned 0 |
| `write`, `close` | 370, 374 |
| `mark` | 398, the socket is closed, `_fd` still has its number |

Steps are cut where another thread can get in with an effect that matters:
around the calls that open or close a descriptor or block, between `closeFd` and
`_fd = CLOSED`, between `read` and `_que.clear()`. `sock[p]` is the local
variable `fd` of `connectTCP`: `GiveUpKeepingNumber` are the paths that close
the socket and leave its number there, `GiveUp` those that reset it. A failing
`setNonBlock` (line 195, a `continue` without close) needs a descriptor that is
not open and has then nothing to close.

**EndPoint** composes the threads. `Interpretation` is the pop of a line and
the loop over its words, `Offer` one call of `request` (a peer takes the request
or the search goes on), `CreatePeer` the `emplace_back` behind the loop. A new
peer gets the address of the request as its *local* address; its own `_port` is
not initialised, so its master is `Blank` (port 0) or `Garbage`. What a line
means is the constant `Interpret`; `MCEndPoint` gives it as a table and assumes,
with TLC evaluating the assumption, that the table is what `Command` computes.
**Directory** is what the search in `interpretRequest` promises: a peer is given
a master at most once, keeps it, and nobody else has it. `EndPoint` implements
it with `addr`, where an address is one (`Master`).

**TLS** has the class and what it stands on. `ssl` is `null`, or how far the
session is: `fresh` after `SSL_new`, `shaking` once it has greeted a server,
`ready`, `ended` once the server's close_notify was read, `broken` after an
error that is final. `unread` says what waits in the receive buffer: a part of
the handshake, a record, or the end of the session (`notify`), which the server
may announce and keep the connection open; `SSL_read` then reports the end on
every call. A call of OpenSSL has a set of possible outcomes (`SSLConnect`, `SSLRead`, `SSLWrite`): its result as far as
`handle_io_failure` tells results apart, and what it leaves of the session and
of the receive buffer. `mine` says whether the session greeted the server of the
connection that is open now. The server answers only a client that greeted it.
`TLSConnect` is `TLS::connect`, with every way it may end.

**SecurePeer** is the peer around it: the three steps of the constructor
(`context`, `configure`, `object`), the servant with the program counter of IO,
`connectTCP` as one step with its three outcomes (no descriptor, a connection,
the number of a closed socket), and the TLS branches of `connect`, `read` and
`write`. The waiter and stdIN are kept as far as one connection needs them: an
edge becomes a line, a line becomes a READ if the peer has a descriptor.
`SSL_connect` on a null pointer, after `SSL_set_fd` has failed, is a failure or
the end of the process (`SecureCrash`).

**Command** keeps the loop of `interpretRequest` as a fold over the words, with
a state that says whether a value is awaited and whether "-m" was met.
**Arguments** does the same for the options of the first instance; `getopt_long`
is external and classifies the arguments. The result is the local address
with which `EndPoint!Init` starts: any address, none, or a port without an ip,
since a port that is not given is left to chance. **MCCommand** states what
both should find a second time, without a loop: which positions of the line are
values, options or message, and which of them counts (`KindSpecified`,
`RequestSpecified`, `MessageSpecified`, `OptionsSpecified`, each of any line).

**ThreadSafeQueue** has one step per statement under the mutex. `pc[t]` is
`lock` at the head of a function and in `cv.wait` after waking, `test` at the
predicate, `wait` asleep, `copy` and `drop` at lines 51 and 54. `Test` gives the
mutex back and goes to sleep in one step, as `wait` does; `SpuriousWakeup` may
come at any time. **Fifo** is the promise: a call takes effect at one instant
between `Invoke` and `Return`. The refinement maps `items` to the deque without
its front while a thread stands at `drop`, so that pop takes effect when it
copies. `queue` in Epoll and EndPoint and `que[p]` in IO are such sequences; a
step that pushes, pops or clears there is the step of Fifo in which the call
takes effect.

**ControlChannel** has every process from its start: `TakeLock` is the
constructor of `ProcessInstance`; the holder goes through `Create`, `Register`,
`Drain` (one turn of the loop) to `serve`; the others through `Open` and `Send`
or `Fail`. `Send` contains what the kernel does: a message that arrives in the
empty queue uses up the registration and starts a thread, `cb[i]`, which goes
through `Renew`, `Receive` and `Push`. `Kill` ends a process at any point;
for the first instance that takes lock, registration and threads with it, as
process ends do, and leaves the message queue. A failed `mq_receive` leaves
`Garbage` in the buffer, which is pushed; that `buf[rcv]` (main.cpp:78) is then
a byte before the buffer is undefined behaviour, taken to harm nothing else. An error at start (`mq_open`,
`mq_getattr`, `malloc`, `fcntl`) ends the process where it happens, as `Kill`
does. `since`, `dropped` and `queue` are
histories; `EndPoint!NewMsgQueue` is `Push` seen from the other side.

Definitions commented "Faulty" are variants of the definition below them with a
plausible mistake. They are used in no specification; with one of them in place
of the original, TLC finds the property it is named for violated.

## Properties and runs

`Spec` has no fairness. `FairSpec` of EndPoint adds weak fairness of stdIN, of the waiter
and of every servant: they are threads that the system schedules and that block
only on an empty queue or in calls that end (`select` has a time-out, `sleep`
ends). Nothing is assumed of users, of remotes, or of the timer thread, whose
first tick ends the process; so every progress property says "or the process
has ended", and the processes that matter are those in which it has not.
`FairSpec` of ThreadSafeQueue lets a thread inside a call go on; the mutex need
not be fair, because the number of calls is bounded, and starvation at the mutex
by endless calls is outside the model. `FairSpec` of ControlChannel lets started
processes and callbacks go on; nobody has to start or to be killed. `FairSpec`
of SecurePeer schedules the servant, the waiter and stdIN, and assumes nothing
of users and of the server.

| Run | Instance | Shows |
|---|---|---|
| `sockets` | 3 peers, 2 descriptors, 2 candidates per address, 4 lines to connect to either master (with and without a descriptor named) or close, 1 remote step | `AddressUnique`: no two peers have the same master; `Addressed`: a peer without master is idle; `MastersKept`: implements Directory; `NoSocketLeak`: an open socket is known to the peer that opened it; `RegisteredHeld`: what epoll watches is a peer's connection; `TypeOK`; `Inv`, the invariant of the proofs |
| `progress` | 6 peers, one master asked for, 1 descriptor, 2 candidates, 3 lines (malformed ones too), 2 remote steps, `FairSpec` | `NoStalledData`: bytes whose edge was reported are being read, or a request for it is under way; `LinesServed`: lines are always served; `AttemptEnds`: every attempt to connect ends |
| `queue` | 3 threads (a producer, a consumer that also clears, one that does both), 3 calls each, 2 values, `FairSpec` | `FrontDefined`: `front()` only on a deque that has one; `WakeupsSuffice`: no lost wake-up; `Linearizable`: implements Fifo; `PopServed`: who sleeps in pop is served while there is work; `Inv` |
| `channel` | 4 instances, capacity 2, 2 kills, `FairSpec` | `OneListener`: registration neither lost nor doubled; `RubbishPaid`: a callback finds nothing only where startup took a new line; `OnlyNew`: what a callback pushes arrived after the first instance registered, so that no line sent to an earlier one is obeyed; as long as two messages never wait at once, `SparseAttended`: one that waits has a callback that will receive it, and `SparseDelivered`: it is delivered; `Inv` |
| `tls` | one peer, 4 requests, 4 steps of the server, `FairSpec` | `NoStalledRecord`: bytes whose edge was reported, parts of the handshake included, have a read on its way; `EraseJustified`: requests are erased only when the connection or the session is over, announced or not, or the peer has no session; `ReadLeaves`: the read loop ends while they are not; `AnswerTaken`: a handshake left unfinished by `connect` goes on with what the server sends; `Inv`, with `Paired`: session and context live and die together |
| `command` | all lines of at most 5 words from 9, a malformed address among them, all lists of at most 5 options from 8 | interpreter and options agree with definitions by positions |

The bounds: two peers and two descriptors are the least with which a number can
be closed by one thread and reused by another while a third still names it; two
candidates are the least with which an attempt can fail and go on. The kernel may
refuse a socket to any candidate, for want of descriptors or of memory, so the
path after `socket()` fails (IO.cpp:145-150) is taken in both runs. `NPeer` is
larger than the number of lines in `progress`, events included,
so that stdIN is never stopped by the bound there. In `sockets` it can be,
which only shortens some behaviours. In `tls` four requests suffice to connect,
close, connect again and read or write; four steps of the server are two parts
of a handshake, a record, and the end. Three threads are the least with which one
pushes while two wait; with three calls a queue is filled, emptied and used
again. Four instances are a first one that is killed, the next one, and two
senders, whose lines are left over, meet the loop at start, or meet a callback.
The capacity 2 (the system's default is 10) is the least that allows a burst,
and fills. In every run there are states without a successor (the bounds are
used up, or the process is idle and nobody calls), so deadlock is not checked.

Six more runs look for what comments of the code promise, and TLC refutes each:

| Run | Promise | What happens |
|---|---|---|
| `owned` | IO.cpp:277 "leave loop with first succesfully created socket" | after a refusal or a time-out `connectTCP` returns the number of the socket it has closed, which becomes another peer's |
| `spin` | IO.cpp:345 "errno == EAGAIN, that means we have read all data" | EAGAIN is turned into 0, the loop ends only on -1: the servant reads for ever; so it does at end of stream (IO.cpp:354 "allow to get to close statement"), and a connection the remote closed is never closed |
| `unserved` | EndPoint.cpp:138 "-i 172.22.77.70:2111 (connect with ip)" | the request creates a peer and is dropped |
| `burst` | main.cpp:28 "container to transfer command lines from second instance to EndPoint" | a second line that arrives before the first is received stays in the message queue, and so do all later ones |
| `stalled` | EndPoint.cpp:136 "-f 3 -r (read from file descriptor)", Epoll.cpp:81 "pass read request with file descriptor" | between `closeFd` and `_fd = CLOSED` the number is already another peer's; the read line for it goes to the first of the two, which drops it; the bytes wait for ever |
| `rebound` | TLS.h:39 "start tls handshake" | after close and connect the old session is bound to the new connection; SSL_connect does not greet the new server and the connection is reported as successful |

They stop at the first violation and their bounds are those that suffice for it.
In the behaviour TLC shows for `stalled`, the number that is closed was itself a
stale one (`owned`), because that is shorter; a peer that closes its connection
on request has the same window. `EndPoint!NoStalledData`, the invariant of
`progress`, holds with one master; two are needed for the window.

Some things are plain from the source, or follow from a property, and have no
run. A line sent while the first instance empties the message queue is removed
with the "previous remains" (main.cpp:195), and its callback pushes a buffer
nothing was received into; `RubbishPaid` says how often. When a server ends the
TLS session and keeps the connection open, `SSL_read` reports the end on every
call, and the servant spins as in `spin`: `ReadLeaves` therefore says nothing of
a session that has ended or is broken. A peer whose session
was freed connects without TLS from then on (IO.cpp:383). What is written before
the handshake is finished is lost: the result of `SSL_write` is not looked at. A
handshake that fails leaves the descriptor set and unregistered. `--ssl` and
`--timer` set variables that nobody reads; "-p" without "-i" makes `inet_pton`
fail in every attempt to connect, although the Readme means to "bind" then.
`timerCallback` throws
(IO.cpp:43) in a thread that catches nothing, so the first tick of the timer
ends the process, although EndPoint.cpp:114 means to "call all available
master". What is said of EndPoint is said of the time until then.

## Proofs

`EndPointProofs` proves, from the assumptions on the constants only, that `Inv`
is an invariant of `Spec`. The layers, each relative to those before:

1. `TypeOK` and `Addressed` together. `Accept` assigns the address of the
   request to a blank peer; that it is an address needs that a blank peer has no
   descriptor the request could have matched, which is `Addressed`.
2. `AddressUnique` needs two facts. While stdIN searches (`SearchOK`), the peers
   it has passed do not have the address, and, when the request names no
   descriptor, are not blank; descriptors may change under the search,
   addresses may not. And masters are taken in the order of the peers
   (`MastersInOrder`), so a blank peer that takes a request knows that no later
   peer has its address.
3. `NoSocketLeak` and `RegisteredHeld` need that a servant opens sockets only
   while its peer has no descriptor (`PhaseOK`). One lemma, `ServantKeeps`, goes
   through the servant's steps; what it says of one peer is then lifted to all.

`RegistryRefined` is the refinement of Directory: a step leaves `Master` alone,
or is the `Offer` in which a blank peer takes a request, and then the master is
a real one (`FirstMaster`) that nobody has (`AddressUnique`).

`SecurePeerProofs` proves `Inv` of SecurePeer. `NoStalledRecord` needs that a
peer that has a connection in epoll never drops a READ, which is that `_fd` is
set whenever the descriptor is watched (`PhaseOK`), and that the queue is
cleared only by a servant that reads again afterwards. `EraseJustified` needs
that a session is never `fresh` once `connect` has gone on: `SSL_read` on a
connection that is up then ends with `want`, data, the end the server announced,
after which the session is `ended`, or an error, after which it is `broken`. The properties of the calls of OpenSSL are lemmas of their own.

`QueueProofs` proves `Inv` of ThreadSafeQueue and that it implements Fifo.
`Typed` (types, mutex, paths, and that a thread past the predicate finds a
value) is inductive by itself. `WakeupsSuffice` counts: with several consumers
"if one sleeps and there is a value, one is awake" is not inductive, because a
consumer that takes the first of two values would leave the second without one;
"as many awake as there are values" is. The refinement uses `Typed` only: the
mutex makes the deque stand still for all but its holder.

`ChannelProofs` proves `Inv` of ControlChannel. `OneListener` needs that threads
run only for a registered first instance; `RubbishPaid` follows from `Balanced`:
every callback that has not received, or found nothing, is matched by a line
that arrived since the registration and still waits or was removed at start.
Receiving takes one from both sides, the loop at start only moves a line; when a
callback finds nothing, nothing waits, so that what is left are the lines
removed. `OnlyNew` (`NewAlways`) follows from `Fresh`: a callback is started only
by a message that arrives in the empty queue, so while remains of an earlier first
instance are there none runs, and the loop at start removes them.
The assumptions are that there are finitely many threads or processes.

`SparseAlwaysAttended` is the safety half of `SparseDelivered`. `Attended` (a
message that waits while the first instance serves has a callback that will
receive it) is inductive relative to `Inv` while at most one message waits:
a message that arrives without a registration meets the callback that is about
to register (`OneListener` counts exactly one), and a callback that receives
leaves the queue empty. Without the hypothesis it is false, as `burst` shows.

`EventProofs` proves that no bytes are stalled. The inductive invariant is
`AwaitedServed`: bytes that wait in a watched socket and whose edge was reported
have a servant that reads, a READ in the queue of the peer that has the number,
the line in the hands of stdIN, not yet offered to that peer, or the line in the
command queue. The step that can break it is the one where a peer takes a line
that was meant for another, or where a peer drops a READ because its `_fd` says
something else; both need a number that stands for two peers. So
`ServedWhenApart` proves `NoStalledData` for any number of masters, peers and
descriptors as long as a number stands for one peer (`NumbersApart`). With two
masters it does not always, and there are two ways to lose it: `connectTCP`
returns the number of a socket it has closed (`DescriptorOwned`, refuted by
`owned`), or a number is reused between `closeFd` and `_fd = CLOSED`
(`ClosedUnused`, the window `stalled` uses). `ServedWhenOwned` proves that these
are the only ones: from `DescriptorOwned` and `ClosedUnused`, for any number of
masters, no bytes are stalled. It needs that two peers in that window have
different numbers (`MarksApart`), which holds because the number a peer closes is
its own. So a corrected `connectTCP` and a `close` that forgets the number first
would be enough.

A condition on the lines alone is `OneMaster`: when all of them name one master,
as in the run `progress`, there is one peer that ever opens a socket, since no
peer takes a master that no line has named (`OnlyNamedMasters`) and masters are
unique. `OneMasterServed` proves `NoStalledData` from it, without any hypothesis
on the descriptors. The proofs use two more facts: what epoll watches is open
(a lemma), and the waiter's lines are read back as what was written
(`EventAssumption`, which TLC evaluates for the table of every run).

`CommandProofs` and `ArgumentProofs` prove, for every line and every list of
options, of any length and over any words, what the run `command` checks up to
five. The library's induction takes a predicate as a parameter, which the provers
cannot instantiate; `Induction` takes a set instead, and is proved from the
fact that a one-to-one map of a finite set into itself is onto. A fold then is
the last of the states it goes through (`IterExists`, `Loop`), and an invariant
by positions says of each state what the words so far have given:
`ValueAt` is the set of values among them, the last option that counts is the
greatest of its positions, and the message is what `Picked` lists in order.
`ValueAt` itself is defined by `CHOOSE`, so that it exists is a lemma
(`ValuesExist`). That the lines and options of the run are as specified
(`LinesAsSpecified`, `ArgumentsAsSpecified`) follows. What `validateAddrTCP` does
with the converted parts of an address is a chain of guards that `Command`
translates and nothing is stated about.

What is only model-checked are the properties under fairness (`LinesServed`,
`AttemptEnds`, `PopServed`, `SparseDelivered`, `ReadLeaves`, `AnswerTaken`),
because liveness is beyond the prover, and the refutations.

## Not modelled

* The Windows parts. `MailSlot` has the part of the control channel there, but
  it does not compile (`return;` in a function that returns `int`,
  MailSlot.cpp:127; a thread over a queue that cannot be copied, line 61), and
  main.cpp calls nothing of it: there is no behaviour to be faithful to. `Lock`
  and `IOCP.h` do not compile either and are used by nobody; `WinSockInit.h` is
  one call.
* Logging, the database stub, the text of errors: interfaces without state.
* Lengths and contents of messages: partial writes, reads of more than
  `MAX_READ` bytes at once, records that SSL_read takes in several calls.
* Failures of `epoll_create1` and `epoll_wait`, and of `epoll_ctl` on good
  descriptors; `mq_getattr` and `malloc` in a callback.
* Undefined behaviour whose outcomes cannot be enumerated: the fifth octet of an
  address (EndPoint.cpp:54), the vector of peers read by the timer thread, the byte
  before the buffer that main.cpp:78 writes when nothing was received.

`main.cpp` does not compile as it stands (line 151 holds a stray token); it is
read without that line. No peer is created with `ssl = true` today
(EndPoint.cpp:97, 231), so what is said of TLS is said of the code of IO and
TLS, not of the program as it is started.

## Plan

Done: the core (EndPoint, its queues, the control channel), TLS, the options,
the registry of masters as an abstract specification, and proofs of every
safety invariant the runs check. What is left:

1. Proofs: that EndPoint's use of its queues is a use of Fifo.
2. Several connections of one SecurePeer at once with other peers, that is,
   TLS inside EndPoint, once the program creates such peers.
