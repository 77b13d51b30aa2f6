------------------------------- MODULE Arguments -------------------------------
(***************************************************************************)
(* main.cpp: the options of the first instance, which become the address   *)
(* its first peer binds.  A pure function, like Command.                   *)
(*                                                                         *)
(* getopt_long is external; it looks at an argument in one of two ways, as *)
(* an option or as the value of the option before it, and an argument is a *)
(* record of both:                                                         *)
(*   opt     "ip" or "port" (-i, --ip, -p, --port), "flag" (--ssl,         *)
(*           --timer), "end" (--), "unknown" (reported as '?'), or "none"  *)
(*   joined  the value that stands in the same argument, if there is one   *)
(*   whole   the argument as a value                                       *)
(* A value is its text and what std::from_chars finds in it as a uint16_t, *)
(* {} when it fails.                                                       *)
(***************************************************************************)
EXTENDS Integers, SequencesExt

Indeterminate == -1 \* port is declared without a value

\* The local variables of main: `need' is the option whose value is the next
\* argument; "--" ends the options.
Defaults == [need |-> "none", ended |-> FALSE, ip |-> "", port |-> Indeterminate]

\* Faulty: a port that is no number becomes 0.
AssignOrZero(s, opt, v) ==
    IF opt = "ip" THEN [s EXCEPT !.ip = v.text]
    ELSE [s EXCEPT !.port = IF v.port = {} THEN 0 ELSE CHOOSE k \in v.port : TRUE]

\* case 'i' and case 'p'.  A port that is no number leaves what was there.
Assign(s, opt, v) ==
    IF opt = "ip" THEN [s EXCEPT !.ip = v.text]
    ELSE [s EXCEPT !.port = IF v.port = {} THEN @ ELSE CHOOSE k \in v.port : TRUE]

\* An argument where an option may stand.  Flags, unknown options and other
\* arguments change nothing the peers depend on; the search goes on after each.
AsOption(s, a) ==
    CASE a.opt \in {"ip", "port"} /\ a.joined = {} -> [s EXCEPT !.need = a.opt]
      [] a.opt \in {"ip", "port"} /\ a.joined # {} ->
            Assign(s, a.opt, CHOOSE v \in a.joined : TRUE)
      [] a.opt = "end" -> [s EXCEPT !.ended = TRUE]
      [] a.opt \in {"flag", "unknown", "none"} -> s

\* One argument; a value is taken whatever it looks like.
Consider(s, a) ==
    IF s.ended THEN s
    ELSE IF s.need # "none" THEN Assign([s EXCEPT !.need = "none"], s.need, a.whole)
    ELSE AsOption(s, a)

\* A value missing at the end is reported and changes nothing.
ParseOptions(argv) ==
    LET s == FoldLeft(Consider, Defaults, argv) IN [ip |-> s.ip, port |-> s.port]
=============================================================================
