---------------------------- MODULE ArgumentProofs ----------------------------
(***************************************************************************)
(* Proofs about Arguments: what the loop of main makes of its options is   *)
(* what the definitions by positions of MCCommand say, for every list of   *)
(* options of any length.  The argument is that of CommandProofs.          *)
(***************************************************************************)
EXTENDS CommandProofs

-----------------------------------------------------------------------------
(* The fold as a loop. *)

\* The function that FoldLeft applies to the positions of the list.
IsPass(g, l, n) ==
    g = [s \in SUBSET (1..n) |->
            IF s = {} THEN Defaults ELSE Consider(g[s \ {Max(s)}], l[Max(s)])]

LEMMA PassExists ==
    ASSUME NEW l, NEW n \in Nat
    PROVE  \E g : IsPass(g, l, n)
  <1> DEFINE T == {k \in Nat : \E g : IsPass(g, l, k)}
  <1>1. 0 \in T
    <2> DEFINE g == [s \in SUBSET (1..0) |-> Defaults]
    <2>1. \A s \in SUBSET (1..0) : s = {}
      OBVIOUS
    <2>2. IsPass(g, l, 0)
      BY <2>1 DEF IsPass
    <2> QED
      BY <2>2
  <1>2. ASSUME NEW k \in Nat, k \in T PROVE k + 1 \in T
    <2>1. PICK g : IsPass(g, l, k)
      BY <1>2
    <2> DEFINE h == [s \in SUBSET (1..(k + 1)) |->
                        IF k + 1 \in s THEN Consider(g[s \ {k + 1}], l[k + 1]) ELSE g[s]]
    <2>2. ASSUME NEW s \in SUBSET (1..(k + 1))
          PROVE  h[s] = IF s = {} THEN Defaults ELSE Consider(h[s \ {Max(s)}], l[Max(s)])
      <3>1. CASE k + 1 \in s
        <4>1. Max(s) = k + 1
          BY <3>1, MaxOfPrefix
        <4>2. s \ {k + 1} \in SUBSET (1..(k + 1)) /\ k + 1 \notin s \ {k + 1} /\ s # {}
          BY <3>1
        <4> QED
          BY <3>1, <4>1, <4>2
      <3>2. CASE k + 1 \notin s
        <4>1. s \in SUBSET (1..k) /\ s \ {Max(s)} \in SUBSET (1..(k + 1)) /\ k + 1 \notin s \ {Max(s)}
          <5>1. \A y \in s : y \in 1..k
            BY <3>2
          <5> QED
            BY <3>2, <5>1
        <4>2. h[s] = g[s] /\ h[s \ {Max(s)}] = g[s \ {Max(s)}]
          BY <3>2, <4>1
        <4>3. g[s] = IF s = {} THEN Defaults ELSE Consider(g[s \ {Max(s)}], l[Max(s)])
          BY <2>1, <4>1 DEF IsPass
        <4> QED
          BY <4>2, <4>3
      <3> QED
        BY <3>1, <3>2
    <2>3. IsPass(h, l, k + 1)
      <3>1. h = [s \in SUBSET (1..(k + 1)) |-> h[s]]
        OBVIOUS
      <3> HIDE DEF h
      <3> QED
        BY <2>2, <3>1 DEF IsPass
    <2> QED
      BY <2>3
  <1> HIDE DEF T
  <1>3. n \in T
    BY <1>1, <1>2, Induction
  <1> QED
    BY <1>3 DEF T

Pass(l) == CHOOSE g : IsPass(g, l, Len(l))

\* The local variables after k arguments.
After(l, k) == Pass(l)[1..k]

LEMMA PassLoop ==
    ASSUME NEW W, NEW l \in Seq(W)
    PROVE  /\ After(l, 0) = Defaults
           /\ \A k \in 0..Len(l) : k < Len(l) => After(l, k + 1) = Consider(After(l, k), l[k + 1])
           /\ FoldLeft(Consider, Defaults, l) = After(l, Len(l))
  <1>1. IsPass(Pass(l), l, Len(l))
    <2>1. Len(l) \in Nat
      OBVIOUS
    <2> QED
      BY <2>1, PassExists, Zenon DEF Pass
  <1>2. ASSUME NEW s \in SUBSET (1..Len(l))
        PROVE  Pass(l)[s] = IF s = {} THEN Defaults ELSE Consider(Pass(l)[s \ {Max(s)}], l[Max(s)])
    BY <1>1 DEF IsPass
  <1>3. After(l, 0) = Defaults
    <2>1. 1..0 = {} /\ 1..0 \in SUBSET (1..Len(l))
      OBVIOUS
    <2> QED
      BY <1>2, <2>1 DEF After
  <1>4. ASSUME NEW k \in 0..Len(l), k < Len(l)
        PROVE  After(l, k + 1) = Consider(After(l, k), l[k + 1])
    <2>1. 1..(k + 1) \in SUBSET (1..Len(l)) /\ 1..(k + 1) # {}
      <3>1. Len(l) \in Nat /\ k + 1 <= Len(l) /\ k \in Nat
        BY <1>4
      <3>2. 1 \in 1..(k + 1) /\ \A i \in 1..(k + 1) : i \in 1..Len(l)
        BY <3>1
      <3> QED
        BY <3>2, Zenon
    <2>2. Max(1..(k + 1)) = k + 1
      BY MaxOfPrefix
    <2>3. (1..(k + 1)) \ {k + 1} = 1..k
      OBVIOUS
    <2> QED
      BY <1>2, <2>1, <2>2, <2>3 DEF After
  <1>5. FoldLeft(Consider, Defaults, l) = After(l, Len(l))
    <2>1. DOMAIN l = 1..Len(l)
      OBVIOUS
    <2>2. FoldLeft(Consider, Defaults, l) =
            (CHOOSE g : g = [s \in SUBSET DOMAIN l |->
                IF s = {} THEN Defaults ELSE Consider(g[s \ {Max(s)}], l[Max(s)])])[DOMAIN l]
      BY DEF FoldLeft, MapThenFoldSet
    <2> QED
      BY <2>1, <2>2 DEF After, Pass, IsPass
  <1> QED
    BY <1>3, <1>4, <1>5

-----------------------------------------------------------------------------
(* One argument. *)

Kinds == {"ip", "port", "flag", "end", "unknown", "none"}

Joined(a) == CHOOSE v \in a.joined : TRUE
PortOf(v) == CHOOSE k \in v.port : TRUE

\* The values that the arguments of W can be or have.
ValuesOf(W) == {a.whole : a \in W} \cup {Joined(a) : a \in W}

\* The local variables of main, when ips are from I and ports from P.
Settings(I, P) ==
    [need : {"none", "ip", "port"}, ended : BOOLEAN, ip : I, port : P]

\* t is s with v given to the option o.
Gave(I, P, s, o, v, t) ==
    /\ t \in Settings(I, P)
    /\ t.need = s.need
    /\ t.ended = s.ended
    /\ t.ip = IF o = "ip" THEN v.text ELSE s.ip
    /\ t.port = IF o = "port" /\ v.port # {} THEN PortOf(v) ELSE s.port

LEMMA AssignDoes ==
    ASSUME NEW I, NEW P, NEW s \in Settings(I, P), NEW o \in {"ip", "port"},
           NEW v, v.text \in I, PortOf(v) \in P
    PROVE  Gave(I, P, s, o, v, Assign(s, o, v))
  <1>1. CASE o = "ip"
    <2>1. Assign(s, o, v) = [s EXCEPT !.ip = v.text]
      BY <1>1, Zenon DEF Assign
    <2> QED
      BY <1>1, <2>1, SMT DEF Settings, Gave
  <1>2. CASE o = "port" /\ v.port = {}
    <2>1. Assign(s, o, v) = [s EXCEPT !.port = s.port]
      BY <1>2, Zenon DEF Assign
    <2> QED
      BY <1>2, <2>1, SMT DEF Settings, Gave
  <1>3. CASE o = "port" /\ v.port # {}
    <2>1. Assign(s, o, v) = [s EXCEPT !.port = PortOf(v)]
      BY <1>3, Zenon DEF Assign, PortOf
    <2> QED
      BY <1>3, <2>1, SMT DEF Settings, Gave
  <1> QED
    BY <1>1, <1>2, <1>3

\* Whether the option o is given a value when the loop is at s and meets a, and
\* which.
Gives(s, a, o) ==
    ~s.ended /\ (s.need = o \/ (s.need = "none" /\ a.opt = o /\ a.joined # {}))

Given(s, a) == IF s.need = "none" THEN Joined(a) ELSE a.whole

\* t is what s becomes when the loop meets a.
Considered(I, P, s, a, t) ==
    /\ t \in Settings(I, P)
    /\ t.ended <=> s.ended \/ (s.need = "none" /\ a.opt = "end")
    /\ ~s.ended => t.need =
         IF s.need = "none" /\ a.opt \in {"ip", "port"} /\ a.joined = {} THEN a.opt ELSE "none"
    /\ t.ip = IF Gives(s, a, "ip") THEN Given(s, a).text ELSE s.ip
    /\ t.port = IF Gives(s, a, "port") /\ Given(s, a).port # {} THEN PortOf(Given(s, a))
                ELSE s.port

\* What one argument does to each variable.
LEMMA ConsiderDoes ==
    ASSUME NEW I, NEW P, NEW s \in Settings(I, P), NEW a, a.opt \in Kinds,
           a.whole.text \in I, PortOf(a.whole) \in P,
           Joined(a).text \in I, PortOf(Joined(a)) \in P
    PROVE  Considered(I, P, s, a, Consider(s, a))
  <1> DEFINE t == Consider(s, a)
  <1>0. s.need \in {"none", "ip", "port"} /\ s.ended \in BOOLEAN
    BY SMT DEF Settings
  <1> USE DEF Considered, Gives, Given
  <1>1. CASE s.ended
    <2>1. t = s
      BY <1>1, Zenon DEF Consider
    <2> QED
      BY <1>1, <2>1, Zenon
  <1>2. CASE ~s.ended /\ s.need # "none"
    <2> DEFINE s0 == [s EXCEPT !.need = "none"]
    <2>1. t = Assign(s0, s.need, a.whole)
      BY <1>2, Zenon DEF Consider
    <2>2. /\ s0 \in Settings(I, P) /\ s0.need = "none" /\ (s0.ended <=> s.ended)
          /\ s0.ip = s.ip /\ s0.port = s.port
      BY SMT DEF Settings
    <2>3. s.need \in {"ip", "port"}
      BY <1>0, <1>2
    <2> HIDE DEF s0
    <2>4. Gave(I, P, s0, s.need, a.whole, t)
      BY <2>1, <2>2, <2>3, AssignDoes
    <2> HIDE DEF t
    <2> QED
      BY <1>2, <2>2, <2>3, <2>4 DEF t, Gave
  <1>3. CASE ~s.ended /\ s.need = "none"
    <2>1. t = AsOption(s, a)
      BY <1>3, Zenon DEF Consider
    <2>2. CASE a.opt \in {"ip", "port"} /\ a.joined = {}
      <3>1. t = [s EXCEPT !.need = a.opt]
        BY <2>1, <2>2, Zenon DEF AsOption
      <3>2. /\ t \in Settings(I, P) /\ t.need = a.opt /\ (t.ended <=> s.ended)
            /\ t.ip = s.ip /\ t.port = s.port
        BY <2>2, <3>1, SMT DEF Settings
      <3> HIDE DEF t
      <3> QED
        BY <1>3, <2>2, <3>2 DEF t
    <2>3. CASE a.opt \in {"ip", "port"} /\ a.joined # {}
      <3>1. t = Assign(s, a.opt, Joined(a))
        BY <2>1, <2>3, Zenon DEF AsOption, Joined
      <3>2. Gave(I, P, s, a.opt, Joined(a), t)
        BY <2>3, <3>1, AssignDoes
      <3> HIDE DEF t
      <3> QED
        BY <1>0, <1>3, <2>3, <3>2 DEF t, Gave
    <2>4. CASE a.opt = "end"
      <3> DEFINE Set(b) == [s EXCEPT !.ended = b]
      <3>1. t = Set(TRUE)
        BY <2>1, <2>4, Zenon DEF AsOption
      <3>2. \A b \in BOOLEAN :
                /\ Set(b) \in Settings(I, P) /\ Set(b).need = s.need
                /\ Set(b).ended = b /\ Set(b).ip = s.ip /\ Set(b).port = s.port
        BY SMT DEF Settings
      <3> HIDE DEF Set, t
      <3>3. /\ t \in Settings(I, P) /\ t.need = s.need /\ t.ended
            /\ t.ip = s.ip /\ t.port = s.port
        BY <3>1, <3>2, Zenon
      <3> QED
        BY <1>3, <2>4, <3>3 DEF t
    <2>5. CASE a.opt \in {"flag", "unknown", "none"}
      <3>1. t = s
        BY <2>1, <2>5, Zenon DEF AsOption
      <3> HIDE DEF t
      <3> QED
        BY <1>0, <1>3, <2>5, <3>1 DEF t
    <2> QED
      BY <2>2, <2>3, <2>4, <2>5 DEF Kinds
  <1> QED
    BY <1>0, <1>1, <1>2, <1>3

-----------------------------------------------------------------------------
(* Where the loop is. *)

LEMMA TakenAsValueIs ==
    ASSUME NEW W, NEW l \in Seq(W)
    PROVE  /\ TakenAsValue(l) \in SUBSET DOMAIN l
           /\ \A i \in DOMAIN l :
                i \in TakenAsValue(l) <=>
                    /\ i > 1 /\ i - 1 \notin TakenAsValue(l)
                    /\ l[i - 1].opt \in {"ip", "port"} /\ l[i - 1].joined = {}
  <1> DEFINE O == {i \in DOMAIN l : l[i].opt \in {"ip", "port"} /\ l[i].joined = {}}
             P(V) == \A i \in DOMAIN l :
                        i \in V <=> /\ i > 1 /\ i - 1 \notin V
                                   /\ l[i - 1].opt \in {"ip", "port"} /\ l[i - 1].joined = {}
  <1>1. PICK V \in SUBSET (1..Len(l)) :
            \A i \in 1..Len(l) : i \in V <=> i > 1 /\ i - 1 \notin V /\ i - 1 \in O
    <2>1. Len(l) \in Nat
      OBVIOUS
    <2> HIDE DEF O
    <2> QED
      BY <2>1, ValuesExist
  <1>2. DOMAIN l = 1..Len(l)
    OBVIOUS
  <1>3. \A i \in 1..Len(l) : i > 1 => i - 1 \in 1..Len(l)
    OBVIOUS
  <1>4. P(V)
    BY <1>1, <1>2, <1>3
  <1>5. \E U \in SUBSET DOMAIN l : P(U)
    BY <1>1, <1>2, <1>4
  <1> QED
    BY <1>5, Zenon DEF TakenAsValue

\* The options o that wait for the next argument, and those that have a value.
Awaits(l, o) == {i \in DOMAIN l \ TakenAsValue(l) : l[i].opt = o /\ l[i].joined = {}}
Joins(l, o)  == {i \in DOMAIN l \ TakenAsValue(l) : l[i].opt = o /\ l[i].joined # {}}

Ends(l) == {i \in DOMAIN l \ TakenAsValue(l) : l[i].opt = "end"}

\* The variables that steer the loop, after k arguments.
Steered(l, k) ==
    /\ After(l, k).ended <=> \E j \in Ends(l) : j <= k
    /\ ~After(l, k).ended =>
        /\ After(l, k).need = "ip" <=> k \in Awaits(l, "ip")
        /\ After(l, k).need = "port" <=> k \in Awaits(l, "port")

\* The ips and ports of the arguments of W.
Ips(W)   == {v.text : v \in ValuesOf(W)} \cup {""}
Ports(W) == {PortOf(v) : v \in ValuesOf(W)} \cup {Indeterminate}

LEMMA ArgumentOk ==
    ASSUME NEW W, NEW a \in W
    PROVE  /\ a.whole.text \in Ips(W) /\ PortOf(a.whole) \in Ports(W)
           /\ Joined(a).text \in Ips(W) /\ PortOf(Joined(a)) \in Ports(W)
  <1>1. a.whole \in ValuesOf(W) /\ Joined(a) \in ValuesOf(W)
    BY Zenon DEF ValuesOf
  <1> QED
    BY <1>1, Zenon DEF Ips, Ports

\* How the positions next to k + 1 relate.
LEMMA Neighbours ==
    ASSUME NEW W, NEW l \in Seq(W), NEW k \in 0..Len(l), k < Len(l)
    PROVE  /\ k + 1 \in DOMAIN l
           /\ k + 1 \in TakenAsValue(l) <=> k \in Awaits(l, "ip") \/ k \in Awaits(l, "port")
           /\ (\E j \in Ends(l) : j <= k + 1) <=>
                (\E j \in Ends(l) : j <= k) \/ k + 1 \in Ends(l)
  <1>1. Len(l) \in Nat /\ DOMAIN l = 1..Len(l) /\ k \in Nat /\ k + 1 \in 1..Len(l)
    OBVIOUS
  <1>2. k + 1 \in TakenAsValue(l) <=>
            /\ k + 1 > 1 /\ (k + 1) - 1 \notin TakenAsValue(l)
            /\ l[(k + 1) - 1].opt \in {"ip", "port"} /\ l[(k + 1) - 1].joined = {}
    BY <1>1, TakenAsValueIs
  <1>3. (k + 1) - 1 = k /\ (k + 1 > 1 <=> k \in 1..Len(l))
    BY <1>1
  <1>4. k + 1 \in TakenAsValue(l) <=> k \in Awaits(l, "ip") \/ k \in Awaits(l, "port")
    BY <1>1, <1>2, <1>3 DEF Awaits
  <1>5. \A j \in Ends(l) : j \in Int /\ (j <= k + 1 <=> j <= k \/ j = k + 1)
    BY <1>1 DEF Ends
  <1>6. k + 1 <= k + 1
    BY <1>1
  <1> QED
    BY <1>1, <1>4, <1>5, <1>6, Zenon

LEMMA SteeredHolds ==
    ASSUME NEW W, \A a \in W : a.opt \in Kinds, NEW l \in Seq(W)
    PROVE  \A k \in 0..Len(l) : After(l, k) \in Settings(Ips(W), Ports(W)) /\ Steered(l, k)
  <1> DEFINE V == TakenAsValue(l)
             R == Settings(Ips(W), Ports(W))
             T == {k \in 0..Len(l) : After(l, k) \in R /\ Steered(l, k)}
  <1>1. Len(l) \in Nat /\ DOMAIN l = 1..Len(l)
    OBVIOUS
  <1>2. 0 \in T
    <2>1. After(l, 0) = Defaults
      BY PassLoop
    <2>2. Defaults \in R /\ Defaults.need = "none" /\ ~Defaults.ended
      <3>1. "" \in Ips(W) /\ Indeterminate \in Ports(W)
        BY Zenon DEF Ips, Ports
      <3>2. Defaults \in R
        BY <3>1 DEF Defaults, Settings
      <3>3. Defaults.need = "none" /\ ~Defaults.ended
        BY SMT DEF Defaults
      <3> QED
        BY <3>2, <3>3, Zenon
    <2>3. 0 \notin Awaits(l, "ip") /\ 0 \notin Awaits(l, "port") /\ \A j \in Ends(l) : ~(j <= 0)
      BY <1>1 DEF Awaits, Ends
    <2>4. Steered(l, 0)
      BY <2>1, <2>2, <2>3 DEF Steered
    <2>5. 0 \in 0..Len(l)
      BY <1>1
    <2> HIDE DEF R
    <2> QED
      BY <2>1, <2>2, <2>4, <2>5
  <1>3. ASSUME NEW k \in 0..Len(l), k < Len(l), k \in T PROVE k + 1 \in T
    <2> DEFINE s == After(l, k)
               t == After(l, k + 1)
               a == l[k + 1]
    <2>1. t = Consider(s, a)
      BY <1>3, PassLoop
    <2>2. s \in R /\ Steered(l, k)
      BY <1>3
    <2>3. /\ k + 1 \in DOMAIN l
          /\ k + 1 \in V <=> k \in Awaits(l, "ip") \/ k \in Awaits(l, "port")
          /\ (\E j \in Ends(l) : j <= k + 1) <=> (\E j \in Ends(l) : j <= k) \/ k + 1 \in Ends(l)
      BY <1>3, Neighbours
    <2>4. a \in W /\ a.opt \in Kinds
      BY <1>1, <2>3
    <2>5. Considered(Ips(W), Ports(W), s, a, t)
      <3>1. /\ a.whole.text \in Ips(W) /\ PortOf(a.whole) \in Ports(W)
            /\ Joined(a).text \in Ips(W) /\ PortOf(Joined(a)) \in Ports(W)
        BY <2>4, ArgumentOk
      <3> HIDE DEF s, a, t
      <3> QED
        BY <2>1, <2>2, <2>4, <3>1, ConsiderDoes
    <2>6. s.need \in {"none", "ip", "port"} /\ s.ended \in BOOLEAN
      BY <2>2, SMT DEF Settings
    <2>7. /\ \A o : k + 1 \in Awaits(l, o) <=> k + 1 \notin V /\ a.opt = o /\ a.joined = {}
          /\ k + 1 \in Ends(l) <=> k + 1 \notin V /\ a.opt = "end"
      BY <2>3, Zenon DEF Awaits, Ends
    <2>8. Steered(l, k + 1)
      <3> HIDE DEF s, t, a, V, R
      <3>1. CASE s.ended
        BY <2>2, <2>3, <2>5, <3>1 DEF Steered, Considered, s, t
      <3>2. CASE ~s.ended /\ s.need # "none"
        <4>1. k + 1 \in V /\ ~t.ended /\ t.need = "none"
          BY <2>2, <2>3, <2>5, <2>6, <3>2 DEF Steered, Considered, s
        <4> QED
          BY <2>2, <2>3, <2>7, <3>2, <4>1 DEF Steered, s, t
      <3>3. CASE ~s.ended /\ s.need = "none"
        <4>1. k + 1 \notin V
          BY <2>2, <2>3, <3>3 DEF Steered, s
        <4> QED
          BY <2>2, <2>3, <2>5, <2>7, <3>3, <4>1 DEF Steered, Considered, s, t
      <3> QED
        BY <2>6, <3>1, <3>2, <3>3
    <2> QED
      BY <1>1, <2>3, <2>5, <2>8 DEF Considered
  <1>4. 0..Len(l) \subseteq T
    <2> HIDE DEF T
    <2> QED
      BY <1>1, <1>2, <1>3, BoundedInduction
  <1> QED
    BY <1>4

-----------------------------------------------------------------------------
(* What the options make of the first peer. *)

\* The position of the value of the option at i.
Valued(l, i) == IF l[i].joined # {} THEN i ELSE i + 1

\* The value that stands at p, joined with its option or not.
ValueOf(l, p) == IF p \in TakenAsValue(l) THEN l[p].whole ELSE Joined(l[p])

\* The option o is given the value at position p.
GivesAt(l, o, p) ==
    /\ p \in Joins(l, o) \/ (p \in DOMAIN l /\ p - 1 \in Awaits(l, o))
    /\ ~\E j \in Ends(l) : j <= p - 1

\* One argument changes the ip and the port according to its position.
LEMMA ArgumentMoves ==
    ASSUME NEW W, \A a \in W : a.opt \in Kinds, NEW l \in Seq(W), NEW k \in 0..Len(l), k < Len(l)
    PROVE  /\ After(l, k + 1).ip = IF GivesAt(l, "ip", k + 1) THEN ValueOf(l, k + 1).text
                                   ELSE After(l, k).ip
           /\ After(l, k + 1).port =
                IF GivesAt(l, "port", k + 1) /\ ValueOf(l, k + 1).port # {}
                THEN PortOf(ValueOf(l, k + 1)) ELSE After(l, k).port
  <1> DEFINE s == After(l, k)
             t == After(l, k + 1)
             a == l[k + 1]
  <1>1. t = Consider(s, a)
    BY PassLoop
  <1>2. s \in Settings(Ips(W), Ports(W)) /\ Steered(l, k)
    BY SteeredHolds
  <1>3. /\ k + 1 \in DOMAIN l
        /\ k + 1 \in TakenAsValue(l) <=> k \in Awaits(l, "ip") \/ k \in Awaits(l, "port")
    BY Neighbours
  <1>4. a \in W /\ a.opt \in Kinds /\ (k + 1) - 1 = k
    BY <1>3
  <1>5. Considered(Ips(W), Ports(W), s, a, t)
    <2>1. /\ a.whole.text \in Ips(W) /\ PortOf(a.whole) \in Ports(W)
          /\ Joined(a).text \in Ips(W) /\ PortOf(Joined(a)) \in Ports(W)
      BY <1>4, ArgumentOk
    <2> HIDE DEF s, a, t
    <2> QED
      BY <1>1, <1>2, <1>4, <2>1, ConsiderDoes
  <1>6. s.need \in {"none", "ip", "port"} /\ s.ended \in BOOLEAN
    BY <1>2, SMT DEF Settings
  <1>7. \A o : k + 1 \in Joins(l, o) <=> k + 1 \notin TakenAsValue(l) /\ a.opt = o /\ a.joined # {}
    BY <1>3, Zenon DEF Joins
  <1> HIDE DEF s, t, a
  <1>8. ASSUME NEW o \in {"ip", "port"}
        PROVE  Gives(s, a, o) <=> GivesAt(l, o, k + 1)
    <2>1. GivesAt(l, o, k + 1) <=>
            (k + 1 \in Joins(l, o) \/ k \in Awaits(l, o)) /\ ~\E j \in Ends(l) : j <= k
      BY <1>3, <1>4, Zenon DEF GivesAt
    <2>2. CASE s.ended
      BY <1>2, <2>1, <2>2 DEF Gives, Steered, s
    <2>3. CASE ~s.ended
      BY <1>2, <1>3, <1>6, <1>7, <1>8, <2>1, <2>3 DEF Gives, Steered, s
    <2> QED
      BY <2>2, <2>3
  <1>9. ASSUME NEW o \in {"ip", "port"}, Gives(s, a, o)
        PROVE  Given(s, a) = ValueOf(l, k + 1)
    <2>1. s.need = "none" <=> k + 1 \notin TakenAsValue(l)
      BY <1>2, <1>3, <1>6, <1>9 DEF Steered, Gives, s
    <2> QED
      BY <2>1, Zenon DEF Given, ValueOf, a
  <1> QED
    BY <1>5, <1>8, <1>9 DEF Considered, s, t

\* A value is given to an option at the position of its value, and the order of
\* the values is that of their options.
LEMMA GivenIs ==
    ASSUME NEW W, NEW l \in Seq(W), NEW o \in {"ip", "port"}
    PROVE  /\ GivenAt(l, o) \subseteq DOMAIN l
           /\ \A i \in GivenAt(l, o) : /\ Valued(l, i) \in DOMAIN l
                                       /\ GivesAt(l, o, Valued(l, i))
                                       /\ ValueOf(l, Valued(l, i)) = GivenValue(l, i)
           /\ \A p \in DOMAIN l : GivesAt(l, o, p) => \E i \in GivenAt(l, o) : Valued(l, i) = p
           /\ \A i, j \in GivenAt(l, o) : i < j => Valued(l, i) < Valued(l, j)
  <1> DEFINE V == TakenAsValue(l)
  <1>1. Len(l) \in Nat /\ DOMAIN l = 1..Len(l)
    OBVIOUS
  <1>2. \A i \in GivenAt(l, o) :
            /\ i \in DOMAIN l /\ i \notin V /\ l[i].opt = o
            /\ \A j \in Ends(l) : i < j
            /\ l[i].joined # {} \/ i + 1 \in DOMAIN l
    BY Zenon DEF GivenAt, Ends
  <1>3. \A j \in Ends(l) : j \in DOMAIN l
    BY DEF Ends
  <1>4. ASSUME NEW i \in DOMAIN l, i + 1 \in DOMAIN l
        PROVE  i + 1 \in V <=> i \notin V /\ l[i].opt \in {"ip", "port"} /\ l[i].joined = {}
    <2>1. (i + 1) - 1 = i /\ i + 1 > 1
      BY <1>1
    <2> HIDE DEF V
    <2>2. i + 1 \in V <=> /\ i + 1 > 1 /\ (i + 1) - 1 \notin V
                          /\ l[(i + 1) - 1].opt \in {"ip", "port"} /\ l[(i + 1) - 1].joined = {}
      BY <1>4, TakenAsValueIs DEF V
    <2> QED
      BY <2>1, <2>2
  <1>5. ASSUME NEW i \in GivenAt(l, o)
        PROVE  /\ Valued(l, i) \in DOMAIN l
               /\ GivesAt(l, o, Valued(l, i))
               /\ ValueOf(l, Valued(l, i)) = GivenValue(l, i)
    <2>1. CASE l[i].joined # {}
      <3>1. Valued(l, i) = i /\ i \in Joins(l, o) /\ i \notin V
        BY <1>2, <2>1, Zenon DEF Valued, Joins
      <3>2. ~\E j \in Ends(l) : j <= i - 1
        BY <1>1, <1>2, <1>3
      <3>3. GivenValue(l, i) = Joined(l[i])
        BY <2>1, Zenon DEF GivenValue, Joined
      <3> QED
        BY <1>2, <3>1, <3>2, <3>3, Zenon DEF GivesAt, ValueOf
    <2>2. CASE l[i].joined = {}
      <3>1. Valued(l, i) = i + 1 /\ i + 1 \in DOMAIN l /\ i \in Awaits(l, o)
        BY <1>2, <2>2, Zenon DEF Valued, Awaits
      <3>2. (i + 1) - 1 = i /\ ~\E j \in Ends(l) : j <= i
        BY <1>1, <1>2, <1>3
      <3>3. i + 1 \in V
        BY <1>2, <1>4, <2>2, <3>1
      <3>4. GivenValue(l, i) = l[i + 1].whole
        BY <2>2, Zenon DEF GivenValue
      <3> QED
        BY <3>1, <3>2, <3>3, <3>4, Zenon DEF GivesAt, ValueOf
    <2> QED
      BY <2>1, <2>2
  <1>6. ASSUME NEW p \in DOMAIN l, GivesAt(l, o, p)
        PROVE  \E i \in GivenAt(l, o) : Valued(l, i) = p
    <2>1. CASE p \in Joins(l, o)
      <3>1. p \notin V /\ l[p].opt = o /\ l[p].joined # {}
        BY <2>1, Zenon DEF Joins
      <3>2. p \notin Ends(l)
        BY <3>1 DEF Ends
      <3>3. \A j \in Ends(l) : p < j
        BY <1>1, <1>3, <1>6, <3>2 DEF GivesAt
      <3>4. p \in GivenAt(l, o)
        BY <3>1, <3>3, Zenon DEF GivenAt, Ends
      <3> QED
        BY <3>1, <3>4, Zenon DEF Valued
    <2>2. CASE p - 1 \in Awaits(l, o)
      <3> DEFINE i == p - 1
      <3>1. i \in DOMAIN l /\ i \notin V /\ l[i].opt = o /\ l[i].joined = {}
        BY <2>2, Zenon DEF Awaits
      <3>2. i + 1 = p
        BY <1>1
      <3>3. \A j \in Ends(l) : i < j
        BY <1>1, <1>3, <1>6, <3>1 DEF GivesAt
      <3> HIDE DEF i
      <3>4. i \in GivenAt(l, o)
        BY <3>1, <3>2, <3>3, Zenon DEF GivenAt, Ends
      <3> QED
        BY <3>1, <3>2, <3>4, Zenon DEF Valued
    <2> QED
      BY <1>6, <2>1, <2>2 DEF GivesAt
  <1>7. ASSUME NEW i \in GivenAt(l, o), NEW j \in GivenAt(l, o), i < j
        PROVE  Valued(l, i) < Valued(l, j)
    <2>1. i \in DOMAIN l /\ j \in DOMAIN l /\ i \notin V /\ j \notin V /\ l[i].opt = o
      BY <1>2
    <2>2. l[i].joined = {} => i + 1 # j
      BY <1>4, <2>1
    <2> QED
      BY <1>1, <1>7, <2>1, <2>2 DEF Valued
  <1>8. GivenAt(l, o) \subseteq DOMAIN l
    BY <1>2, Zenon
  <1> QED
    BY <1>5, <1>6, <1>7, <1>8, Zenon

\* The value of the last of the options G stands at p.
LastValuedAt(l, G, p) == \E i \in G : LastOf(G) = i /\ Valued(l, i) = p

\* The last of the values is that of the last of the options.
LEMMA LastGiven ==
    ASSUME NEW W, NEW l \in Seq(W), NEW o \in {"ip", "port"},
           NEW G, G \subseteq GivenAt(l, o), NEW S, S = {Valued(l, i) : i \in G},
           NEW p \in S, \A q \in S : q <= p
    PROVE  LastValuedAt(l, G, p)
  <1>1. PICK i \in G : Valued(l, i) = p
    BY Zenon
  <1>2. Len(l) \in Nat /\ DOMAIN l = 1..Len(l)
    OBVIOUS
  <1>3. \A j \in G : j \in Int /\ Valued(l, j) \in Int
    <2>1. GivenAt(l, o) \subseteq DOMAIN l /\ \A j \in GivenAt(l, o) : Valued(l, j) \in DOMAIN l
      BY GivenIs
    <2> QED
      BY <1>2, <2>1
  <1>4. ASSUME NEW j \in G PROVE j <= i
    <2>1. i < j => Valued(l, i) < Valued(l, j)
      <3>1. i \in GivenAt(l, o) /\ j \in GivenAt(l, o)
        OBVIOUS
      <3> QED
        BY <3>1, GivenIs
    <2>2. Valued(l, j) <= Valued(l, i)
      BY <1>1, Zenon
    <2> QED
      BY <1>3, <2>1, <2>2
  <1>5. LastOf(G) = i
    <2>1. \A j \in G : j \in Int
      BY <1>3
    <2> QED
      BY <1>4, <2>1, LastIs
  <1> QED
    BY <1>1, <1>5, Zenon DEF LastValuedAt

(***************************************************************************)
(* Every list of options, however long, gives the first peer the ip and    *)
(* the port that OptionsSpecified says (main.cpp:118-119, 223-275).        *)
(***************************************************************************)
THEOREM EveryOption ==
    ASSUME NEW W, \A a \in W : a.opt \in Kinds, NEW l \in Seq(W)
    PROVE  OptionsSpecified(l)
  <1> DEFINE n == Len(l)
             r == ParseOptions(l)
             ips == GivenAt(l, "ip")
             ports == {i \in GivenAt(l, "port") : GivenValue(l, i).port # {}}
  <1>1. n \in Nat /\ DOMAIN l = 1..n /\ n \in 0..n /\ 0 \in 0..n
    OBVIOUS
  <1>2. /\ r.ip = After(l, n).ip /\ r.port = After(l, n).port
        /\ After(l, 0).ip = "" /\ After(l, 0).port = Indeterminate
    <2>1. FoldLeft(Consider, Defaults, l) = After(l, n) /\ After(l, 0) = Defaults
      BY PassLoop
    <2>2. r = [ip |-> After(l, n).ip, port |-> After(l, n).port]
      BY <2>1, Zenon DEF ParseOptions
    <2> HIDE DEF r
    <2>3. Defaults.ip = "" /\ Defaults.port = Indeterminate
      BY SMT DEF Defaults
    <2> QED
      BY <2>1, <2>2, <2>3
  <1>3. ASSUME NEW o \in {"ip", "port"}
        PROVE  /\ \A i \in GivenAt(l, o) : /\ Valued(l, i) \in DOMAIN l
                                           /\ GivesAt(l, o, Valued(l, i))
                                           /\ ValueOf(l, Valued(l, i)) = GivenValue(l, i)
               /\ \A p \in DOMAIN l : GivesAt(l, o, p) => \E i \in GivenAt(l, o) : Valued(l, i) = p
    BY GivenIs
  <1>4. r.ip = IF ips = {} THEN "" ELSE GivenValue(l, LastOf(ips)).text
    <2> DEFINE S == {p \in 1..n : GivesAt(l, "ip", p)}
               x == [k \in 0..n |-> After(l, k).ip]
               y == [p \in 1..n |-> ValueOf(l, p).text]
    <2>1. Assigned(n, S, x, y)
      <3> SUFFICES ASSUME NEW k \in 0..n, k < n
                   PROVE  x[k + 1] = IF k + 1 \in S THEN y[k + 1] ELSE x[k]
        BY DEF Assigned
      <3>1. k + 1 \in 0..n /\ k + 1 \in 1..n
        BY <1>1
      <3>2. x[k + 1] = After(l, k + 1).ip /\ x[k] = After(l, k).ip
            /\ y[k + 1] = ValueOf(l, k + 1).text
        BY <3>1
      <3>3. After(l, k + 1).ip =
              IF GivesAt(l, "ip", k + 1)
              THEN ValueOf(l, k + 1).text ELSE After(l, k).ip
        BY ArgumentMoves, Zenon
      <3>4. k + 1 \in S <=> GivesAt(l, "ip", k + 1)
        BY <3>1, Zenon
      <3> HIDE DEF x, y, S
      <3> QED
        BY <3>2, <3>3, <3>4, Zenon
    <2>2. LastCounts(n, S, x, y)
      <3>1. S \subseteq 1..n /\ n \in Nat
        BY <1>1
      <3> HIDE DEF n, S, x, y
      <3> QED
        BY <2>1, <3>1, LastAssigned
    <2>3. x[n] = r.ip /\ x[0] = ""
      <3>1. x[n] = After(l, n).ip /\ x[0] = After(l, 0).ip
        BY <1>1
      <3> QED
        BY <1>2, <3>1
    <2>4. ips \subseteq GivenAt(l, "ip") /\ S = {Valued(l, i) : i \in ips}
      <3> HIDE DEF n
      <3> QED
        BY <1>1, <1>3, Zenon
    <2>5. CASE ips = {}
      <3>1. S = {}
        <4> HIDE DEF S, ips
        <4> QED
          BY <2>4, <2>5, Zenon
      <3> QED
        BY <2>2, <2>3, <2>5, <3>1, Zenon DEF LastCounts
    <2>6. CASE ips # {}
      <3> HIDE DEF S, ips
      <3>1. S # {}
        BY <2>4, <2>6, Zenon
      <3> HIDE DEF n, x, y, r
      <3>2. PICK p \in S : (\A q \in S : q <= p) /\ x[n] = y[p]
        BY <2>2, <3>1 DEF LastCounts
      <3>3. PICK i \in ips : LastOf(ips) = i /\ Valued(l, i) = p
        <4>1. "ip" \in {"ip", "port"}
          OBVIOUS
        <4>2. LastValuedAt(l, ips, p)
          BY <2>4, <3>2, <4>1, LastGiven
        <4> QED
          BY <4>2, Zenon DEF LastValuedAt
      <3>4. p \in 1..n /\ y[p] = ValueOf(l, p).text
        BY <3>2 DEF S, y
      <3>5. ValueOf(l, p) = GivenValue(l, i)
        BY <1>3, <2>4, <3>3, Zenon
      <3> QED
        BY <2>3, <2>6, <3>2, <3>3, <3>4, <3>5, Zenon
    <2> QED
      BY <2>5, <2>6
  <1>5. r.port = IF ports = {} THEN Indeterminate
             ELSE CHOOSE k \in GivenValue(l, LastOf(ports)).port : TRUE
    <2> DEFINE S == {p \in 1..n : GivesAt(l, "port", p) /\ ValueOf(l, p).port # {}}
               x == [k \in 0..n |-> After(l, k).port]
               y == [p \in 1..n |-> PortOf(ValueOf(l, p))]
    <2>1. Assigned(n, S, x, y)
      <3> SUFFICES ASSUME NEW k \in 0..n, k < n
                   PROVE  x[k + 1] = IF k + 1 \in S THEN y[k + 1] ELSE x[k]
        BY DEF Assigned
      <3>1. k + 1 \in 0..n /\ k + 1 \in 1..n
        BY <1>1
      <3>2. x[k + 1] = After(l, k + 1).port /\ x[k] = After(l, k).port
            /\ y[k + 1] = PortOf(ValueOf(l, k + 1))
        BY <3>1
      <3>3. After(l, k + 1).port =
              IF GivesAt(l, "port", k + 1) /\ ValueOf(l, k + 1).port # {}
              THEN PortOf(ValueOf(l, k + 1)) ELSE After(l, k).port
        BY ArgumentMoves, Zenon
      <3>4. k + 1 \in S <=> GivesAt(l, "port", k + 1) /\ ValueOf(l, k + 1).port # {}
        BY <3>1, Zenon
      <3> HIDE DEF x, y, S
      <3> QED
        BY <3>2, <3>3, <3>4, Zenon
    <2>2. LastCounts(n, S, x, y)
      <3>1. S \subseteq 1..n /\ n \in Nat
        BY <1>1
      <3> HIDE DEF n, S, x, y
      <3> QED
        BY <2>1, <3>1, LastAssigned
    <2>3. x[n] = r.port /\ x[0] = Indeterminate
      <3>1. x[n] = After(l, n).port /\ x[0] = After(l, 0).port
        BY <1>1
      <3> QED
        BY <1>2, <3>1
    <2>4. ports \subseteq GivenAt(l, "port") /\ S = {Valued(l, i) : i \in ports}
      <3> HIDE DEF n
      <3> QED
        BY <1>1, <1>3, Zenon
    <2>5. CASE ports = {}
      <3>1. S = {}
        <4> HIDE DEF S, ports
        <4> QED
          BY <2>4, <2>5, Zenon
      <3> QED
        BY <2>2, <2>3, <2>5, <3>1, Zenon DEF LastCounts
    <2>6. CASE ports # {}
      <3> HIDE DEF S, ports
      <3>1. S # {}
        BY <2>4, <2>6, Zenon
      <3> HIDE DEF n, x, y, r
      <3>2. PICK p \in S : (\A q \in S : q <= p) /\ x[n] = y[p]
        BY <2>2, <3>1 DEF LastCounts
      <3>3. PICK i \in ports : LastOf(ports) = i /\ Valued(l, i) = p
        <4>1. "port" \in {"ip", "port"}
          OBVIOUS
        <4>2. LastValuedAt(l, ports, p)
          BY <2>4, <3>2, <4>1, LastGiven
        <4> QED
          BY <4>2, Zenon DEF LastValuedAt
      <3>4. p \in 1..n /\ y[p] = PortOf(ValueOf(l, p))
        BY <3>2 DEF S, y
      <3>5. ValueOf(l, p) = GivenValue(l, i)
        BY <1>3, <2>4, <3>3, Zenon
      <3> QED
        BY <2>3, <2>6, <3>2, <3>3, <3>4, <3>5, Zenon DEF PortOf
    <2> QED
      BY <2>5, <2>6
  <1> QED
    BY <1>4, <1>5, Zenon DEF OptionsSpecified

(***************************************************************************)
(* In the runs, whatever MaxWords: the first peer binds what               *)
(* OptionsAsSpecified says (main.cpp:118-119, 223-275).                    *)
(***************************************************************************)
THEOREM ArgumentsAsSpecified == Spec => []OptionsAsSpecified
  <1>1. \A a \in Arguments1 : a.opt \in Kinds
    BY SMT DEF Arguments1, Argument, Kinds
  <1>2. TypeOK => OptionsAsSpecified
    BY <1>1, EveryOption, Zenon DEF TypeOK, OptionsAsSpecified
  <1> QED
    BY <1>2, Typed, PTL

===============================================================================
