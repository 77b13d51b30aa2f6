------------------------------ MODULE MCEndPoint ------------------------------
(***************************************************************************)
(* EndPoint for TLC: a few masters and descriptors, and lines that later   *)
(* instances may send.  A line is named by its text; what it asks for is   *)
(* what Command makes of its words.                                        *)
(***************************************************************************)
EXTENDS EndPoint, Command

A == "10.0.0.1:80"
B == "10.0.0.2:80"
OneAddr == {A}
TwoAddr == {A, B}

Word(text, num) ==
    [text |-> text, num |-> num, sep |-> FALSE, port |-> {}, octet |-> <<>>]
Address(text, octet, port) ==
    [text |-> text, num |-> {}, sep |-> TRUE, port |-> port, octet |-> octet]

Opt(o) == Word(o, {})
Num    == [f \in Fd |-> Word(ToString(f), {f})]
AddrA  == Address(A, <<{10}, {0}, {0}, {1}>>, {80})
AddrB  == Address(B, <<{10}, {0}, {0}, {2}>>, {80})
NoIp   == Address(":80", <<{}>>, {80})

\* "-f n -r" and "-f n -c", as the epoll waiter writes them.
MCReadLine  == [f \in Fd |-> "-f " \o ToString(f) \o " -r"]
MCCloseLine == [f \in Fd |-> "-f " \o ToString(f) \o " -c"]

ConnectA == "-i A"
ConnectB == "-i B"
WriteA   == "-i A -m hello"
CloseA   == "-i A -c"
BothOf   == [f \in Fd |-> "-i A -f " \o ToString(f)]
BadIp    == "-i :80"
Unknown  == "adam"
Cut      == "-f"

Words(l) ==
    CASE l = ConnectA -> <<Opt("-i"), AddrA>>
      [] l = ConnectB -> <<Opt("-i"), AddrB>>
      [] l = WriteA   -> <<Opt("-i"), AddrA, Opt("-m"), Opt("hello")>>
      [] l = CloseA   -> <<Opt("-i"), AddrA, Opt("-c")>>
      [] l = BadIp    -> <<Opt("-i"), NoIp>>
      [] l = Unknown  -> <<Opt("adam")>>
      [] l = Cut      -> <<Opt("-f")>>
      [] \E f \in Fd : l = MCReadLine[f]  ->
            LET f == CHOOSE f \in Fd : l = MCReadLine[f]  IN <<Opt("-f"), Num[f], Opt("-r")>>
      [] \E f \in Fd : l = MCCloseLine[f] ->
            LET f == CHOOSE f \in Fd : l = MCCloseLine[f] IN <<Opt("-f"), Num[f], Opt("-c")>>
      [] \E f \in Fd : l = BothOf[f] ->
            LET f == CHOOSE f \in Fd : l = BothOf[f] IN <<Opt("-i"), AddrA, Opt("-f"), Num[f]>>

UserText  == {ConnectA, ConnectB, WriteA, CloseA, BadIp, Unknown, Cut} \cup {BothOf[f] : f \in Fd}
EventText == {MCReadLine[f] : f \in Fd} \cup {MCCloseLine[f] : f \in Fd}
MCLine    == UserText \cup EventText

Asked(l) ==
    LET r == InterpretRequest(Words(l)) IN
    [kind |-> r.kind, ip |-> r.ip, fd |-> r.fd, req |-> r.req]

\* The same as a table.
Request(ip, f, req) == [kind |-> "request", ip |-> ip, fd |-> f, req |-> req]
Fails(kind)         == [kind |-> kind, ip |-> NoAddr, fd |-> CLOSED, req |-> "CONNECT"]

MCInterpret ==
    [l \in MCLine |->
        CASE l = ConnectA -> Request(A, CLOSED, "CONNECT")
          [] l = ConnectB -> Request(B, CLOSED, "CONNECT")
          [] l = WriteA   -> Request(A, CLOSED, "WRITE")
          [] l = CloseA   -> Request(A, CLOSED, "CLOSE")
          [] l = BadIp    -> Request(HalfAddr, CLOSED, "CONNECT")
          [] l = Unknown  -> Fails("ignored")
          [] l = Cut      -> Fails("throws")
          [] OTHER -> LET f == CHOOSE f \in Fd : l \in {MCReadLine[f], MCCloseLine[f], BothOf[f]}
                      IN IF l = BothOf[f] THEN Request(A, f, "CONNECT")
                         ELSE Request(NoAddr, f, IF l = MCReadLine[f] THEN "READ" ELSE "CLOSE")]

\* The table is what the code makes of the lines; in particular it reads back
\* what the waiter wrote.
ASSUME InterpretedAsCommand == \A l \in MCLine : MCInterpret[l] = Asked(l)

\* The lines a run may use.
Connects   == {ConnectA, ConnectB, BadIp}
Everyday   == {ConnectA, WriteA, CloseA}
TwoMasters == {ConnectA, ConnectB, CloseA}
Mixed      == TwoMasters \cup {BothOf[CHOOSE f \in Fd : TRUE]}
AnyLine    == {ConnectA, WriteA, CloseA, Unknown, Cut}
=============================================================================
