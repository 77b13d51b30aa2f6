------------------------------ MODULE MCCommand ------------------------------
(***************************************************************************)
(* Command and Arguments on every line, and every list of options, of at   *)
(* most MaxWords words from a small vocabulary.  They grow one word at a   *)
(* time, so that every state is a line; the properties compare the         *)
(* functions with definitions that do not follow the loops of the code.    *)
(***************************************************************************)
EXTENDS Command, Arguments, FiniteSets

CONSTANT MaxWords

Word(text, num) ==
    [text |-> text, num |-> num, sep |-> FALSE, port |-> {}, octet |-> <<>>]
Address(text, octet, port) ==
    [text |-> text, num |-> {}, sep |-> TRUE, port |-> port, octet |-> octet]

Options == {Word(o, {}) : o \in {"-i", "-f", "-m", "-r", "-c"}}
Values  == {Word("adam", {}), Word("3", {3}),
            Address("10.0.0.1:80", <<{10}, {0}, {0}, {1}>>, {80}),
            Address(":80", <<{}>>, {80})}

\* Arguments of the first instance: options apart from and joined with their
\* values, values that look like options, ports that are no number, and "--".
Argument(opt, joined, text, port) ==
    [opt |-> opt, joined |-> joined, whole |-> [text |-> text, port |-> port]]

Arguments1 ==
    {Argument("ip",      {}, "-i", {}),
     Argument("port",    {}, "--port", {}),
     Argument("port",    {[text |-> "90", port |-> {90}]}, "-p90", {}),
     Argument("flag",    {}, "--ssl", {}),
     Argument("unknown", {}, "-x", {}),
     Argument("end",     {}, "--", {}),
     Argument("none",    {}, "10.0.0.1", {10}),
     Argument("none",    {}, "x", {})}

VARIABLES line, argv

vars == <<line, argv>>

Init == line = <<>> /\ argv = <<>>

\* The two inputs vary independently: a line and a list of options are never
\* built together.
Next ==
    \/ /\ Len(line) < MaxWords /\ argv = <<>>
       /\ \E w \in Options \cup Values : line' = Append(line, w)
       /\ UNCHANGED argv
    \/ /\ Len(argv) < MaxWords /\ line = <<>>
       /\ \E a \in Arguments1 : argv' = Append(argv, a)
       /\ UNCHANGED line

Spec == Init /\ [][Next]_vars

-----------------------------------------------------------------------------
\* The positions that are read as the value of the option before them.
ValueAt(l) ==
    CHOOSE V \in SUBSET DOMAIN l :
        \A i \in DOMAIN l :
            i \in V <=> i > 1 /\ i - 1 \notin V /\ l[i - 1].text \in {"-i", "-f"}

OptionAt(l, o) == {i \in DOMAIN l \ ValueAt(l) : l[i].text = o}

\* The message starts at the first "-m"; the words before it are options.
Head1(l) ==
    {i \in DOMAIN l : \A j \in OptionAt(l, "-m") : i <= j}

Unexpected(l) ==
    \E i \in Head1(l) \ ValueAt(l) : l[i].text \notin {"-i", "-f", "-m", "-r", "-c"}

LastOf(S) == CHOOSE i \in S : \A j \in S : j <= i

\* The positions of the words of the message.
InMessage(l) ==
    {i \in DOMAIN l \ Head1(l) : i \notin ValueAt(l) /\ l[i].text \notin {"-i", "-f"}}

\* The definitions by positions, for any line.
KindSpecified(l) ==
    InterpretRequest(l).kind =
        IF Unexpected(l) THEN "ignored"
        ELSE IF l # <<>> /\ Len(l) \in OptionAt(l, "-i") \cup OptionAt(l, "-f")
        THEN "throws" ELSE "request"

RequestSpecified(l) ==
    LET r == InterpretRequest(l)
        transfer == OptionAt(l, "-r") \cup OptionAt(l, "-c")
        fds == {i \in OptionAt(l, "-f") : l[i + 1].num # {}}
        ips == OptionAt(l, "-i")
    IN r.kind = "request" =>
        /\ r.req = IF OptionAt(l, "-m") # {} THEN "WRITE"
                   ELSE IF transfer = {} THEN "CONNECT"
                   ELSE IF l[LastOf(transfer)].text = "-r" THEN "READ" ELSE "CLOSE"
        /\ r.fd = IF fds = {} THEN -1 ELSE CHOOSE v \in l[LastOf(fds) + 1].num : TRUE
        /\ r.ip = IF ips = {} THEN "noaddr" ELSE ValidateAddrTCP(l[LastOf(ips) + 1])

MessageSpecified(l) ==
    LET r == InterpretRequest(l) IN
    r.kind = "request" =>
        r.msg = [k \in 1..Cardinality(InMessage(l)) |->
                    l[CHOOSE i \in InMessage(l) :
                        Cardinality({j \in InMessage(l) : j <= i}) = k].text]

(***************************************************************************)
(* A line is obeyed unless an argument before the message is not expected; *)
(* a line whose last option lacks its value throws (EndPoint.cpp:147-214). *)
(***************************************************************************)
KindAsSpecified == KindSpecified(line)

(***************************************************************************)
(* What a line asks for, stated on positions: a message makes it a write   *)
(* whatever else it says; otherwise the last of "-r" and "-c" counts; a    *)
(* line with neither connects.  The last "-i" and the last "-f" with a     *)
(* number name the peer, even when they stand inside the message           *)
(* (EndPoint.cpp:135-214).                                                 *)
(***************************************************************************)
RequestAsSpecified == RequestSpecified(line)

(***************************************************************************)
(* No word of a message is lost, repeated or moved: the message is the     *)
(* line after the first "-m" without the "-i" and "-f" options that stand  *)
(* in it (EndPoint.cpp:183-196).                                           *)
(***************************************************************************)
MessageAsSpecified == MessageSpecified(line)

\* The positions of a list of options that are read as values.
TakenAsValue(l) ==
    CHOOSE V \in SUBSET DOMAIN l :
        \A i \in DOMAIN l :
            i \in V <=> /\ i > 1 /\ i - 1 \notin V
                       /\ l[i - 1].opt \in {"ip", "port"} /\ l[i - 1].joined = {}

\* The positions at which the option o is given a value.  No option stands
\* behind a "--" that is none itself a value.
GivenAt(l, o) ==
    LET ends == {i \in DOMAIN l \ TakenAsValue(l) : l[i].opt = "end"} IN
    {i \in DOMAIN l \ TakenAsValue(l) :
        /\ l[i].opt = o /\ \A j \in ends : i < j
        /\ l[i].joined # {} \/ i + 1 \in DOMAIN l}

GivenValue(l, i) ==
    IF l[i].joined # {} THEN CHOOSE v \in l[i].joined : TRUE ELSE l[i + 1].whole

OptionsSpecified(l) ==
    LET r == ParseOptions(l)
        ips == GivenAt(l, "ip")
        ports == {i \in GivenAt(l, "port") : GivenValue(l, i).port # {}}
    IN /\ r.ip = IF ips = {} THEN "" ELSE GivenValue(l, LastOf(ips)).text
       /\ r.port = IF ports = {} THEN Indeterminate
                   ELSE CHOOSE k \in GivenValue(l, LastOf(ports)).port : TRUE

(***************************************************************************)
(* The first peer binds the last ip, and the last port that is a number;   *)
(* without such a port it is left to chance, whatever else is given        *)
(* (main.cpp:118-119, 223-275).                                            *)
(***************************************************************************)
OptionsAsSpecified == OptionsSpecified(argv)
=============================================================================
