------------------------------- MODULE Command -------------------------------
(***************************************************************************)
(* EndPoint::interpretRequest up to the search for a peer, and             *)
(* validateAddrTCP: what a command line asks for.  Pure functions.         *)
(*                                                                         *)
(* A word is a record: its text, and what std::from_chars and the split at *)
(* ':' and '.' find in it.  A conversion that fails finds {}, one that     *)
(* succeeds finds the set of its value.                                    *)
(*   text   the word                                                       *)
(*   num    the word as an int                                             *)
(*   sep    TRUE when there is a ':'                                       *)
(*   port   what follows the ':' as a uint16_t                             *)
(*   octet  the parts of what precedes it, each as a uint8_t               *)
(***************************************************************************)
EXTENDS Integers, SequencesExt

NoAddress   == "noaddr"    \* ip empty, port 0
HalfAddress == "halfaddr"  \* ip empty, port not 0
NoFd        == -1          \* CLOSED

\* An octet that is no number from 0 to 255 is refused, and so is a first
\* octet of 0; how many octets there are is not looked at.
GoodOctet(o, i) == o # {} /\ (i = 1 => o # {0})

\* Lines with more than four octets are left out: the code stores the fifth
\* past the end of its array.
ValidateAddrTCP(w) ==
    IF ~w.sep \/ w.port \in {{}, {0}} THEN NoAddress
    ELSE IF \E i \in DOMAIN w.octet : ~GoodOctet(w.octet[i], i) THEN HalfAddress
    ELSE w.text

-----------------------------------------------------------------------------
\* The local variables of interpretRequest.  `expect' is where the loop is:
\* at its head, or after "-i" or "-f"; `opt' is set once "-m" was met.
Start == [expect |-> "option", kind |-> "request", opt |-> FALSE,
          ip |-> NoAddress, fd |-> NoFd, req |-> "CONNECT", msg |-> <<>>]

\* The value after "-i" or "-f".  A descriptor that is no number leaves fd as
\* it was.
Value(s, w) ==
    IF s.expect = "ip"
      THEN [s EXCEPT !.expect = "option", !.ip = ValidateAddrTCP(w)]
      ELSE [s EXCEPT !.expect = "option",
                     !.fd = IF w.num = {} THEN @ ELSE CHOOSE v \in w.num : TRUE]

\* Faulty: "-r" and "-c" in a message are options.
OptionInMessage(s, w) ==
    CASE w.text = "-i" -> [s EXCEPT !.expect = "ip"]
      [] w.text = "-f" -> [s EXCEPT !.expect = "fd"]
      [] w.text = "-r" -> [s EXCEPT !.req = "READ"]
      [] w.text = "-c" -> [s EXCEPT !.req = "CLOSE"]
      [] w.text = "-m" /\ ~s.opt -> [s EXCEPT !.opt = TRUE, !.req = "WRITE"]
      [] w.text \notin {"-i", "-f", "-r", "-c"} /\ s.opt -> [s EXCEPT !.msg = Append(@, w.text)]
      [] OTHER -> [s EXCEPT !.kind = "ignored"]

\* Faulty: every "-m" starts the message anew.
OptionRestarts(s, w) ==
    CASE w.text = "-i" -> [s EXCEPT !.expect = "ip"]
      [] w.text = "-f" -> [s EXCEPT !.expect = "fd"]
      [] w.text = "-m" -> [s EXCEPT !.opt = TRUE, !.req = "WRITE", !.msg = <<>>]
      [] w.text # "-m" /\ s.opt /\ w.text \notin {"-i", "-f"} -> [s EXCEPT !.msg = Append(@, w.text)]
      [] w.text = "-r" /\ ~s.opt -> [s EXCEPT !.req = "READ"]
      [] w.text = "-c" /\ ~s.opt -> [s EXCEPT !.req = "CLOSE"]
      [] OTHER -> [s EXCEPT !.kind = "ignored"]

\* After "-m", every word but "-i" and "-f" belongs to the message.
Option(s, w) ==
    CASE w.text = "-i" -> [s EXCEPT !.expect = "ip"]
      [] w.text = "-f" -> [s EXCEPT !.expect = "fd"]
      [] w.text \notin {"-i", "-f"} /\ s.opt -> [s EXCEPT !.msg = Append(@, w.text)]
      [] w.text = "-m" /\ ~s.opt -> [s EXCEPT !.opt = TRUE, !.req = "WRITE"]
      [] w.text = "-r" /\ ~s.opt -> [s EXCEPT !.req = "READ"]
      [] w.text = "-c" /\ ~s.opt -> [s EXCEPT !.req = "CLOSE"]
      [] OTHER -> [s EXCEPT !.kind = "ignored"]

\* One iteration of the loop; after an argument that is not expected the
\* function has returned.
Step(s, w) ==
    IF s.kind = "ignored" THEN s
    ELSE IF s.expect = "option" THEN Option(s, w)
    ELSE Value(s, w)

\* Faulty: a missing value is not noticed.
InterpretLoosely(line) ==
    LET s == FoldLeft(Step, Start, line) IN
    [kind |-> s.kind, ip |-> s.ip, fd |-> s.fd, req |-> s.req, msg |-> s.msg]

\* The words run out: a value that is missing throws.
InterpretRequest(line) ==
    LET s == FoldLeft(Step, Start, line) IN
    [kind |-> IF s.kind = "request" /\ s.expect # "option" THEN "throws" ELSE s.kind,
     ip |-> s.ip, fd |-> s.fd, req |-> s.req, msg |-> s.msg]
=============================================================================
