---------------------------- MODULE CommandProofs ----------------------------
(***************************************************************************)
(* Proofs about Command: what the loop of interpretRequest makes of a line *)
(* is what the definitions by positions of MCCommand say, for every line   *)
(* of any length over any set of words.                                    *)
(*                                                                         *)
(* The proofs are inductions over the words.  A theorem with a predicate   *)
(* as a parameter cannot be instantiated here, so induction is stated for  *)
(* sets of numbers and proved from the pigeonhole principle for finite     *)
(* sets.                                                                   *)
(***************************************************************************)
EXTENDS MCCommand, FiniteSetTheorems, TLAPS

-----------------------------------------------------------------------------
(* Induction. *)

(***************************************************************************)
(* A set with 0 and the successor of every number in it has every natural  *)
(* number.  If n were not in it, its elements up to n would be a finite    *)
(* set that adding one maps into itself, one-to-one, without reaching 0.   *)
(***************************************************************************)
THEOREM Induction ==
    ASSUME NEW T, 0 \in T, \A k \in Nat : k \in T => k + 1 \in T
    PROVE  Nat \subseteq T
  <1> SUFFICES ASSUME NEW n \in Nat, n \notin T PROVE FALSE
    OBVIOUS
  <1> DEFINE S == {k \in 0..n : k \in T}
             next == [k \in S |-> k + 1]
  <1>1. IsFiniteSet(S)
    <2>1. IsFiniteSet(0..n)
      BY FS_Interval
    <2> QED
      BY <2>1, FS_Subset
  <1>2. next \in [S -> S]
    BY SMT
  <1>3. next \in Injection(S, S)
    BY <1>2 DEF Injection, IsInjective
  <1>4. next \in Surjection(S, S)
    BY <1>1, <1>3, FS_Injection
  <1>5. 0 \in S
    OBVIOUS
  <1>6. PICK k \in S : next[k] = 0
    BY <1>4, <1>5 DEF Surjection
  <1> QED
    BY <1>6

\* The same up to a bound.
LEMMA BoundedInduction ==
    ASSUME NEW n \in Nat, NEW T, 0 \in T,
           \A k \in 0..n : k < n /\ k \in T => k + 1 \in T
    PROVE  0..n \subseteq T
  <1> DEFINE U == {k \in Nat : k <= n => k \in T}
  <1>1. 0 \in U /\ \A k \in Nat : k \in U => k + 1 \in U
    BY SMT
  <1>2. Nat \subseteq U
    <2> HIDE DEF U
    <2> QED
      BY <1>1, Induction
  <1> QED
    BY <1>2

-----------------------------------------------------------------------------
(* The fold as a loop. *)

\* The function that FoldLeft applies to the positions of the line.
IsIter(g, l, n) ==
    g = [s \in SUBSET (1..n) |->
            IF s = {} THEN Start ELSE Step(g[s \ {Max(s)}], l[Max(s)])]

LEMMA MaxOfPrefix ==
    ASSUME NEW n \in Nat, NEW s \in SUBSET (1..(n + 1)), n + 1 \in s
    PROVE  Max(s) = n + 1
  <1>1. \E x \in s : \A y \in s : x >= y
    BY SMT
  <1>2. Max(s) \in s /\ \A y \in s : Max(s) >= y
    BY <1>1, Zenon DEF Max
  <1>3. \A m \in s : (\A y \in s : m >= y) => m = n + 1
    BY SMT
  <1> QED
    BY <1>2, <1>3, Zenon

LEMMA IterExists ==
    ASSUME NEW l, NEW n \in Nat
    PROVE  \E g : IsIter(g, l, n)
  <1> DEFINE T == {k \in Nat : \E g : IsIter(g, l, k)}
  <1>1. 0 \in T
    <2> DEFINE g == [s \in SUBSET (1..0) |-> Start]
    <2>1. \A s \in SUBSET (1..0) : s = {}
      OBVIOUS
    <2>2. IsIter(g, l, 0)
      BY <2>1 DEF IsIter
    <2> QED
      BY <2>2
  <1>2. ASSUME NEW k \in Nat, k \in T PROVE k + 1 \in T
    <2>1. PICK g : IsIter(g, l, k)
      BY <1>2
    <2> DEFINE h == [s \in SUBSET (1..(k + 1)) |->
                        IF k + 1 \in s THEN Step(g[s \ {k + 1}], l[k + 1]) ELSE g[s]]
    <2>2. ASSUME NEW s \in SUBSET (1..(k + 1))
          PROVE  h[s] = IF s = {} THEN Start ELSE Step(h[s \ {Max(s)}], l[Max(s)])
      <3>1. CASE k + 1 \in s
        <4>1. Max(s) = k + 1
          BY <3>1, MaxOfPrefix
        <4>2. s \ {k + 1} \in SUBSET (1..(k + 1)) /\ k + 1 \notin s \ {k + 1} /\ s # {}
          BY <3>1
        <4> QED
          BY <3>1, <4>1, <4>2
      <3>2. CASE k + 1 \notin s
        <4>1. s \in SUBSET (1..k) /\ s \ {Max(s)} \in SUBSET (1..(k + 1)) /\ k + 1 \notin s \ {Max(s)}
          <5>1. \A y \in s : y \in 1..k
            BY <3>2
          <5> QED
            BY <3>2, <5>1
        <4>2. h[s] = g[s] /\ h[s \ {Max(s)}] = g[s \ {Max(s)}]
          BY <3>2, <4>1
        <4>3. g[s] = IF s = {} THEN Start ELSE Step(g[s \ {Max(s)}], l[Max(s)])
          BY <2>1, <4>1 DEF IsIter
        <4> QED
          BY <4>2, <4>3
      <3> QED
        BY <3>1, <3>2
    <2>3. IsIter(h, l, k + 1)
      <3>1. h = [s \in SUBSET (1..(k + 1)) |-> h[s]]
        OBVIOUS
      <3> HIDE DEF h
      <3> QED
        BY <2>2, <3>1 DEF IsIter
    <2> QED
      BY <2>3
  <1> HIDE DEF T
  <1>3. n \in T
    BY <1>1, <1>2, Induction
  <1> QED
    BY <1>3 DEF T

Iter(l) == CHOOSE g : IsIter(g, l, Len(l))

\* The local variables after k words.
State(l, k) == Iter(l)[1..k]

LEMMA Loop ==
    ASSUME NEW W, NEW l \in Seq(W)
    PROVE  /\ State(l, 0) = Start
           /\ \A k \in 0..Len(l) : k < Len(l) => State(l, k + 1) = Step(State(l, k), l[k + 1])
           /\ FoldLeft(Step, Start, l) = State(l, Len(l))
  <1>1. IsIter(Iter(l), l, Len(l))
    <2>1. Len(l) \in Nat
      OBVIOUS
    <2> QED
      BY <2>1, IterExists, Zenon DEF Iter
  <1>2. ASSUME NEW s \in SUBSET (1..Len(l))
        PROVE  Iter(l)[s] = IF s = {} THEN Start ELSE Step(Iter(l)[s \ {Max(s)}], l[Max(s)])
    BY <1>1 DEF IsIter
  <1>3. State(l, 0) = Start
    <2>1. 1..0 = {} /\ 1..0 \in SUBSET (1..Len(l))
      OBVIOUS
    <2> QED
      BY <1>2, <2>1 DEF State
  <1>4. ASSUME NEW k \in 0..Len(l), k < Len(l)
        PROVE  State(l, k + 1) = Step(State(l, k), l[k + 1])
    <2>1. 1..(k + 1) \in SUBSET (1..Len(l)) /\ 1..(k + 1) # {}
      <3>1. Len(l) \in Nat /\ k + 1 <= Len(l) /\ k \in Nat
        BY <1>4
      <3>2. 1 \in 1..(k + 1) /\ \A i \in 1..(k + 1) : i \in 1..Len(l)
        BY <3>1
      <3> QED
        BY <3>2, Zenon
    <2>2. Max(1..(k + 1)) = k + 1
      BY MaxOfPrefix
    <2>3. (1..(k + 1)) \ {k + 1} = 1..k
      OBVIOUS
    <2> QED
      BY <1>2, <2>1, <2>2, <2>3 DEF State
  <1>5. FoldLeft(Step, Start, l) = State(l, Len(l))
    <2>1. DOMAIN l = 1..Len(l)
      OBVIOUS
    <2>2. FoldLeft(Step, Start, l) =
            (CHOOSE g : g = [s \in SUBSET DOMAIN l |->
                IF s = {} THEN Start ELSE Step(g[s \ {Max(s)}], l[Max(s)])])[DOMAIN l]
      BY DEF FoldLeft, MapThenFoldSet
    <2> QED
      BY <2>1, <2>2 DEF State, Iter, IsIter
  <1> QED
    BY <1>3, <1>4, <1>5

-----------------------------------------------------------------------------
(* Values. *)

\* Among positions of which some (O) take the next one as their value, it can
\* be told which are values.
LEMMA ValuesExist ==
    ASSUME NEW O, NEW n \in Nat
    PROVE  \E V \in SUBSET (1..n) :
              \A i \in 1..n : i \in V <=> i > 1 /\ i - 1 \notin V /\ i - 1 \in O
  <1> DEFINE P(V, k) == \A i \in 1..k : i \in V <=> i > 1 /\ i - 1 \notin V /\ i - 1 \in O
             T == {k \in Nat : \E V \in SUBSET (1..k) : P(V, k)}
  <1>1. 0 \in T
    <2>1. {} \in SUBSET (1..0) /\ P({}, 0)
      OBVIOUS
    <2> QED
      BY <2>1
  <1>2. ASSUME NEW k \in Nat, k \in T PROVE k + 1 \in T
    <2>1. PICK V \in SUBSET (1..k) : P(V, k)
      BY <1>2
    <2> DEFINE U == IF k + 1 > 1 /\ k \notin V /\ k \in O THEN V \cup {k + 1} ELSE V
    <2>2. U \in SUBSET (1..(k + 1)) /\ \A i \in 1..k : i \in U <=> i \in V
      OBVIOUS
    <2>3. k + 1 \notin V
      OBVIOUS
    <2>4. k + 1 \in U <=> k + 1 > 1 /\ k \notin V /\ k \in O
      BY <2>3
    <2>5. \A i \in 1..k : i > 1 => (i - 1 \in U <=> i - 1 \in V)
      BY <2>2
    <2>6. k + 1 > 1 => (k \in U <=> k \in V)
      BY <2>2
    <2>7. P(U, k + 1)
      <3> SUFFICES ASSUME NEW i \in 1..(k + 1)
                   PROVE  i \in U <=> i > 1 /\ i - 1 \notin U /\ i - 1 \in O
        OBVIOUS
      <3> HIDE DEF U
      <3>1. CASE i = k + 1
        BY <2>4, <2>6, <3>1
      <3>2. CASE i # k + 1
        <4>1. i \in 1..k
          BY <3>2
        <4> QED
          BY <2>1, <2>2, <2>5, <4>1
      <3> QED
        BY <3>1, <3>2
    <2> QED
      BY <2>2, <2>7
  <1> HIDE DEF T
  <1>3. n \in T
    BY <1>1, <1>2, Induction
  <1> QED
    BY <1>3 DEF T

LEMMA ValueAtIs ==
    ASSUME NEW W, NEW l \in Seq(W)
    PROVE  /\ ValueAt(l) \in SUBSET DOMAIN l
           /\ \A i \in DOMAIN l :
                i \in ValueAt(l) <=>
                    i > 1 /\ i - 1 \notin ValueAt(l) /\ l[i - 1].text \in {"-i", "-f"}
  <1> DEFINE O == {i \in DOMAIN l : l[i].text \in {"-i", "-f"}}
             P(V) == \A i \in DOMAIN l :
                        i \in V <=> i > 1 /\ i - 1 \notin V /\ l[i - 1].text \in {"-i", "-f"}
  <1>1. PICK V \in SUBSET (1..Len(l)) :
            \A i \in 1..Len(l) : i \in V <=> i > 1 /\ i - 1 \notin V /\ i - 1 \in O
    <2>1. Len(l) \in Nat
      OBVIOUS
    <2> HIDE DEF O
    <2> QED
      BY <2>1, ValuesExist
  <1>2. DOMAIN l = 1..Len(l)
    OBVIOUS
  <1>3. \A i \in 1..Len(l) : i > 1 => i - 1 \in 1..Len(l)
    OBVIOUS
  <1>4. P(V)
    BY <1>1, <1>2, <1>3
  <1>5. \E U \in SUBSET DOMAIN l : P(U)
    BY <1>1, <1>2, <1>4
  <1> QED
    BY <1>5, Zenon DEF ValueAt

-----------------------------------------------------------------------------
(* One word. *)

Opts == {"-i", "-f", "-m", "-r", "-c"}

NumberOf(w) == CHOOSE v \in w.num : TRUE

\* The local variables, when the words are from W.
Locals(W) ==
    [expect : {"option", "ip", "fd"}, kind : {"request", "ignored"}, opt : BOOLEAN,
     ip : {ValidateAddrTCP(w) : w \in W} \cup {NoAddress},
     fd : {NumberOf(w) : w \in W} \cup {NoFd},
     req : {"CONNECT", "READ", "CLOSE", "WRITE"}, msg : Seq({w.text : w \in W})]

\* What an argument where an option may stand does to each variable.
LEMMA OptionDoes ==
    ASSUME NEW W, NEW s \in Locals(W), s.kind = "request", s.expect = "option", NEW w \in W
    PROVE  /\ Option(s, w) \in Locals(W)
           /\ Option(s, w).expect = IF w.text = "-i" THEN "ip" ELSE IF w.text = "-f" THEN "fd"
                                    ELSE "option"
           /\ Option(s, w).kind = IF s.opt \/ w.text \in Opts THEN "request" ELSE "ignored"
           /\ Option(s, w).opt <=> s.opt \/ w.text = "-m"
           /\ Option(s, w).ip = s.ip
           /\ Option(s, w).fd = s.fd
           /\ Option(s, w).req = IF s.opt \/ w.text \notin {"-m", "-r", "-c"} THEN s.req
                                 ELSE IF w.text = "-m" THEN "WRITE"
                                 ELSE IF w.text = "-r" THEN "READ" ELSE "CLOSE"
           /\ Option(s, w).msg = IF s.opt /\ w.text \notin {"-i", "-f"} THEN Append(s.msg, w.text)
                                 ELSE s.msg
  <1> DEFINE I == {ValidateAddrTCP(v) : v \in W} \cup {NoAddress}
             F == {NumberOf(v) : v \in W} \cup {NoFd}
             M == Seq({v.text : v \in W})
             L == [expect : {"option", "ip", "fd"}, kind : {"request", "ignored"}, opt : BOOLEAN,
                   ip : I, fd : F, req : {"CONNECT", "READ", "CLOSE", "WRITE"}, msg : M]
             t == Option(s, w)
             more == Append(s.msg, w.text)
  <1>0. s \in L /\ more \in M
    <2>1. s \in L
      BY Zenon DEF Locals
    <2>2. s.msg \in M
      <3> HIDE DEF I, F, M
      <3> QED
        BY <2>1, SMT
    <2>3. w.text \in {v.text : v \in W}
      BY Zenon
    <2> QED
      BY <2>1, <2>2, <2>3
  <1>1. CASE w.text = "-i"
    <2>1. t = [s EXCEPT !.expect = "ip"]
      BY <1>1, Zenon DEF Option
    <2>2. /\ t \in L
          /\ t.expect = "ip" /\ t.kind = s.kind /\ (t.opt <=> s.opt)
          /\ t.ip = s.ip /\ t.fd = s.fd /\ t.req = s.req
          /\ t.msg = s.msg
      <3> HIDE DEF I, F, M, t
      <3> QED
        BY <1>0, <2>1, SMT
    <2>3. t \in Locals(W)
      BY <2>2, Zenon DEF Locals
    <2> HIDE DEF L, t
    <2> QED
      BY <1>1, <2>2, <2>3, SMT DEF Opts, t
  <1>2. CASE w.text = "-f"
    <2>1. t = [s EXCEPT !.expect = "fd"]
      BY <1>2, Zenon DEF Option
    <2>2. /\ t \in L
          /\ t.expect = "fd" /\ t.kind = s.kind /\ (t.opt <=> s.opt)
          /\ t.ip = s.ip /\ t.fd = s.fd /\ t.req = s.req
          /\ t.msg = s.msg
      <3> HIDE DEF I, F, M, t
      <3> QED
        BY <1>0, <2>1, SMT
    <2>3. t \in Locals(W)
      BY <2>2, Zenon DEF Locals
    <2> HIDE DEF L, t
    <2> QED
      BY <1>2, <2>2, <2>3, SMT DEF Opts, t
  <1>3. CASE w.text \notin {"-i", "-f"} /\ s.opt
    <2>1. t = [s EXCEPT !.msg = more]
      BY <1>3, Zenon DEF Option
    <2>2. /\ t \in L
          /\ t.expect = s.expect /\ t.kind = s.kind /\ (t.opt <=> s.opt)
          /\ t.ip = s.ip /\ t.fd = s.fd /\ t.req = s.req
          /\ t.msg = more
      <3> HIDE DEF I, F, M, t, more
      <3> QED
        BY <1>0, <2>1, SMT
    <2>3. t \in Locals(W)
      BY <2>2, Zenon DEF Locals
    <2> HIDE DEF L, t
    <2> QED
      BY <1>3, <2>2, <2>3, SMT DEF Opts, t
  <1>4. CASE w.text = "-m" /\ ~s.opt
    <2> DEFINE Set(v) == [s EXCEPT !.opt = v]
               s0 == Set(TRUE)
    <2>9. \A v \in BOOLEAN :
            /\ Set(v) \in L /\ Set(v).expect = s.expect /\ Set(v).kind = s.kind /\ Set(v).opt = v
            /\ Set(v).ip = s.ip /\ Set(v).fd = s.fd /\ Set(v).req = s.req /\ Set(v).msg = s.msg
      <3> HIDE DEF I, F, M
      <3> QED
        BY <1>0, SMT
    <2>0. /\ s0 \in L /\ s0.expect = s.expect /\ s0.kind = s.kind /\ s0.opt
          /\ s0.ip = s.ip /\ s0.fd = s.fd /\ s0.req = s.req /\ s0.msg = s.msg
      <3> HIDE DEF Set, L
      <3> QED
        BY <2>9, Zenon
    <2>1. t = [s0 EXCEPT !.req = "WRITE"]
      BY <1>4, Zenon DEF Option
    <2>2. /\ t \in L
          /\ t.expect = s.expect /\ t.kind = s.kind /\ t.opt
          /\ t.ip = s.ip /\ t.fd = s.fd /\ t.req = "WRITE"
          /\ t.msg = s.msg
      <3> HIDE DEF I, F, M, t, s0
      <3> QED
        BY <2>0, <2>1, SMT
    <2>3. t \in Locals(W)
      BY <2>2, Zenon DEF Locals
    <2> HIDE DEF L, t
    <2> QED
      BY <1>4, <2>2, <2>3, SMT DEF Opts, t
  <1>5. CASE w.text = "-r" /\ ~s.opt
    <2>1. t = [s EXCEPT !.req = "READ"]
      BY <1>5, Zenon DEF Option
    <2>2. /\ t \in L
          /\ t.expect = s.expect /\ t.kind = s.kind /\ (t.opt <=> s.opt)
          /\ t.ip = s.ip /\ t.fd = s.fd /\ t.req = "READ"
          /\ t.msg = s.msg
      <3> HIDE DEF I, F, M, t
      <3> QED
        BY <1>0, <2>1, SMT
    <2>3. t \in Locals(W)
      BY <2>2, Zenon DEF Locals
    <2> HIDE DEF L, t
    <2> QED
      BY <1>5, <2>2, <2>3, SMT DEF Opts, t
  <1>6. CASE w.text = "-c" /\ ~s.opt
    <2>1. t = [s EXCEPT !.req = "CLOSE"]
      BY <1>6, Zenon DEF Option
    <2>2. /\ t \in L
          /\ t.expect = s.expect /\ t.kind = s.kind /\ (t.opt <=> s.opt)
          /\ t.ip = s.ip /\ t.fd = s.fd /\ t.req = "CLOSE"
          /\ t.msg = s.msg
      <3> HIDE DEF I, F, M, t
      <3> QED
        BY <1>0, <2>1, SMT
    <2>3. t \in Locals(W)
      BY <2>2, Zenon DEF Locals
    <2> HIDE DEF L, t
    <2> QED
      BY <1>6, <2>2, <2>3, SMT DEF Opts, t
  <1>7. CASE w.text \notin Opts /\ ~s.opt
    <2>1. t = [s EXCEPT !.kind = "ignored"]
      BY <1>7, Zenon DEF Option, Opts
    <2>2. /\ t \in L
          /\ t.expect = s.expect /\ t.kind = "ignored" /\ (t.opt <=> s.opt)
          /\ t.ip = s.ip /\ t.fd = s.fd /\ t.req = s.req
          /\ t.msg = s.msg
      <3> HIDE DEF I, F, M, t
      <3> QED
        BY <1>0, <2>1, SMT
    <2>3. t \in Locals(W)
      BY <2>2, Zenon DEF Locals
    <2> HIDE DEF L, t
    <2> QED
      BY <1>7, <2>2, <2>3, SMT DEF Opts, t
  <1> QED
    BY <1>1, <1>2, <1>3, <1>4, <1>5, <1>6, <1>7 DEF Opts

\* What a value does to each variable.
LEMMA ValueDoes ==
    ASSUME NEW W, NEW s \in Locals(W), s.kind = "request", s.expect \in {"ip", "fd"}, NEW w \in W
    PROVE  /\ Value(s, w) \in Locals(W)
           /\ Value(s, w).expect = "option"
           /\ Value(s, w).kind = "request"
           /\ Value(s, w).opt <=> s.opt
           /\ Value(s, w).ip = IF s.expect = "ip" THEN ValidateAddrTCP(w) ELSE s.ip
           /\ Value(s, w).fd = IF s.expect = "fd" /\ w.num # {} THEN NumberOf(w) ELSE s.fd
           /\ Value(s, w).req = s.req
           /\ Value(s, w).msg = s.msg
  <1> DEFINE I == {ValidateAddrTCP(v) : v \in W} \cup {NoAddress}
             F == {NumberOf(v) : v \in W} \cup {NoFd}
             M == Seq({v.text : v \in W})
             L == [expect : {"option", "ip", "fd"}, kind : {"request", "ignored"}, opt : BOOLEAN,
                   ip : I, fd : F, req : {"CONNECT", "READ", "CLOSE", "WRITE"}, msg : M]
             s0 == [s EXCEPT !.expect = "option"]
  <1>1. ValidateAddrTCP(w) \in I /\ NumberOf(w) \in F
    BY Zenon
  <1>2. s \in L
    BY Zenon DEF Locals
  <1>3. s0 \in L /\ s0.expect = "option" /\ s0.kind = "request" /\ s0.opt = s.opt
        /\ s0.ip = s.ip /\ s0.fd = s.fd /\ s0.req = s.req /\ s0.msg = s.msg
    <2> HIDE DEF I, F, M
    <2> QED
      BY <1>2, SMT
  <1>4. CASE s.expect = "ip"
    <2>1. Value(s, w) = [s0 EXCEPT !.ip = ValidateAddrTCP(w)]
      BY <1>4, Zenon DEF Value
    <2> HIDE DEF I, F, M, s0
    <2>2. /\ Value(s, w) \in L
          /\ Value(s, w).expect = "option" /\ Value(s, w).kind = "request"
          /\ Value(s, w).opt = s.opt /\ Value(s, w).ip = ValidateAddrTCP(w)
          /\ Value(s, w).fd = s.fd
          /\ Value(s, w).req = s.req /\ Value(s, w).msg = s.msg
      BY <1>1, <1>3, <2>1, SMT
    <2> QED
      BY <1>4, <2>2, Zenon DEF Locals, I, F, M
  <1>5. CASE s.expect = "fd" /\ w.num = {}
    <2>1. Value(s, w) = [s0 EXCEPT !.fd = s.fd]
      BY <1>5, Zenon DEF Value
    <2> HIDE DEF I, F, M, s0
    <2>2. /\ Value(s, w) \in L
          /\ Value(s, w).expect = "option" /\ Value(s, w).kind = "request"
          /\ Value(s, w).opt = s.opt /\ Value(s, w).ip = s.ip /\ Value(s, w).fd = s.fd
          /\ Value(s, w).req = s.req /\ Value(s, w).msg = s.msg
      BY <1>2, <1>3, <2>1, SMT
    <2> QED
      BY <1>5, <2>2, Zenon DEF Locals, I, F, M
  <1>6. CASE s.expect = "fd" /\ w.num # {}
    <2>1. Value(s, w) = [s0 EXCEPT !.fd = NumberOf(w)]
      BY <1>6, Zenon DEF Value, NumberOf
    <2> HIDE DEF I, F, M, s0
    <2>2. /\ Value(s, w) \in L
          /\ Value(s, w).expect = "option" /\ Value(s, w).kind = "request"
          /\ Value(s, w).opt = s.opt /\ Value(s, w).ip = s.ip
          /\ Value(s, w).fd = NumberOf(w)
          /\ Value(s, w).req = s.req /\ Value(s, w).msg = s.msg
      BY <1>1, <1>3, <2>1, SMT
    <2> QED
      BY <1>6, <2>2, Zenon DEF Locals, I, F, M
  <1> QED
    BY <1>4, <1>5, <1>6

LEMMA StartIs ==
    ASSUME NEW W
    PROVE  /\ Start \in Locals(W)
           /\ Start.expect = "option" /\ Start.kind = "request" /\ Start.opt = FALSE
           /\ Start.ip = NoAddress /\ Start.fd = NoFd /\ Start.req = "CONNECT"
           /\ Start.msg = <<>>
  BY SMT DEF Start, Locals

-----------------------------------------------------------------------------
(* Where the loop is. *)

\* By position k an argument was met that is not expected.
UnexpectedBy(l, k) ==
    \E i \in Head1(l) \ ValueAt(l) : i <= k /\ l[i].text \notin Opts

\* The variables that steer the loop, after k words: they tell what the k-th
\* word was, and whether the message has begun.
Control(l, k) ==
    /\ State(l, k).kind = "ignored" <=> UnexpectedBy(l, k)
    /\ State(l, k).kind = "request" =>
        /\ State(l, k).expect = "ip" <=> k \in OptionAt(l, "-i")
        /\ State(l, k).expect = "fd" <=> k \in OptionAt(l, "-f")
        /\ State(l, k).opt <=> \E j \in OptionAt(l, "-m") : j <= k

LEMMA ControlHolds ==
    ASSUME NEW W, NEW l \in Seq(W)
    PROVE  \A k \in 0..Len(l) : State(l, k) \in Locals(W) /\ Control(l, k)
  <1> DEFINE V == ValueAt(l)
             T == {k \in 0..Len(l) : State(l, k) \in Locals(W) /\ Control(l, k)}
  <1>1. Len(l) \in Nat /\ DOMAIN l = 1..Len(l)
    OBVIOUS
  <1>2. V \in SUBSET (1..Len(l))
    BY <1>1, ValueAtIs
  <1>3. 0 \in T
    <2>1. State(l, 0) = Start
      BY Loop
    <2>2. ~UnexpectedBy(l, 0)
      BY <1>1 DEF UnexpectedBy, Head1
    <2>3. 0 \notin OptionAt(l, "-i") /\ 0 \notin OptionAt(l, "-f")
          /\ \A j \in OptionAt(l, "-m") : ~(j <= 0)
      BY <1>1 DEF OptionAt
    <2>4. Control(l, 0)
      BY <2>1, <2>2, <2>3, StartIs DEF Control
    <2>5. State(l, 0) \in Locals(W)
      BY <2>1, StartIs
    <2> QED
      BY <1>1, <2>4, <2>5
  <1>4. ASSUME NEW k \in 0..Len(l), k < Len(l), k \in T PROVE k + 1 \in T
    <2> DEFINE s == State(l, k)
               t == State(l, k + 1)
               w == l[k + 1]
    <2>1. t = Step(s, w)
      BY <1>4, Loop
    <2>2. s \in Locals(W) /\ Control(l, k)
      BY <1>4
    <2>3. k \in Nat /\ k + 1 \in 1..Len(l) /\ w \in W
      BY <1>1, <1>4
    <2>4. k + 1 \in V <=> k \in OptionAt(l, "-i") \/ k \in OptionAt(l, "-f")
      <3>1. k + 1 \in V <=> k + 1 > 1 /\ (k + 1) - 1 \notin V /\ l[(k + 1) - 1].text \in {"-i", "-f"}
        BY <1>1, <2>3, ValueAtIs
      <3>2. (k + 1) - 1 = k /\ (k + 1 > 1 <=> k \in 1..Len(l))
        BY <1>1, <1>4
      <3> QED
        BY <1>1, <3>1, <3>2 DEF OptionAt
    <2>5. \A o : k + 1 \in OptionAt(l, o) <=> k + 1 \notin V /\ w.text = o
      BY <1>1, <2>3 DEF OptionAt
    <2>6. k + 1 \in Head1(l) <=> ~\E j \in OptionAt(l, "-m") : j <= k
      <3>1. \A j \in OptionAt(l, "-m") : j \in Int /\ (k + 1 <= j <=> ~(j <= k))
        BY <1>1, <2>3 DEF OptionAt
      <3> QED
        BY <1>1, <2>3, <3>1 DEF Head1
    <2>7. UnexpectedBy(l, k + 1) <=>
            UnexpectedBy(l, k) \/ (k + 1 \in Head1(l) /\ k + 1 \notin V /\ w.text \notin Opts)
      <3>1. \A i \in Head1(l) : i \in Int /\ (i <= k + 1 <=> i <= k \/ i = k + 1)
        BY <1>1, <2>3 DEF Head1
      <3> QED
        BY <3>1 DEF UnexpectedBy
    <2>8. (\E j \in OptionAt(l, "-m") : j <= k + 1) <=>
            (\E j \in OptionAt(l, "-m") : j <= k) \/ k + 1 \in OptionAt(l, "-m")
      <3>1. \A j \in OptionAt(l, "-m") : j \in Int /\ (j <= k + 1 <=> j <= k \/ j = k + 1)
        BY <1>1, <2>3 DEF OptionAt
      <3> QED
        BY <2>3, <3>1
    <2>9. t \in Locals(W) /\ Control(l, k + 1)
      <3> HIDE DEF s, t, w, V
      <3>1. CASE s.kind = "ignored"
        <4>1. t = s
          BY <2>1, <3>1 DEF Step
        <4> QED
          BY <2>2, <2>7, <3>1, <4>1 DEF Control, s, t
      <3>2. CASE s.kind = "request" /\ s.expect \in {"ip", "fd"}
        <4>1. t = Value(s, w)
          BY <2>1, <3>2 DEF Step
        <4>2. k + 1 \in V
          BY <2>2, <2>4, <3>2 DEF Control, s
        <4>3. t \in Locals(W) /\ t.kind = "request" /\ t.expect = "option" /\ (t.opt <=> s.opt)
          BY <2>2, <2>3, <3>2, <4>1, ValueDoes
        <4> QED
          BY <2>2, <2>5, <2>7, <2>8, <3>2, <4>2, <4>3 DEF Control, s, t
      <3>3. CASE s.kind = "request" /\ s.expect = "option"
        <4>1. t = Option(s, w)
          BY <2>1, <3>3 DEF Step
        <4>2. k + 1 \notin V
          BY <2>2, <2>4, <3>3 DEF Control, s
        <4>3. /\ t \in Locals(W)
              /\ t.expect = IF w.text = "-i" THEN "ip" ELSE IF w.text = "-f" THEN "fd" ELSE "option"
              /\ t.kind = IF s.opt \/ w.text \in Opts THEN "request" ELSE "ignored"
              /\ t.opt <=> s.opt \/ w.text = "-m"
          BY <2>2, <2>3, <3>3, <4>1, OptionDoes
        <4>4. k + 1 \in Head1(l) <=> ~s.opt
          BY <2>2, <2>6, <3>3 DEF Control, s
        <4>5. t.kind = "ignored" <=> UnexpectedBy(l, k + 1)
          BY <2>2, <2>7, <3>3, <4>2, <4>3, <4>4 DEF Control, s
        <4> QED
          BY <2>2, <2>5, <2>8, <3>3, <4>2, <4>3, <4>5 DEF Control, s, t
      <3> QED
        BY <2>2, <3>1, <3>2, <3>3 DEF Locals
    <2> QED
      BY <1>1, <2>3, <2>9
  <1>5. 0..Len(l) \subseteq T
    <2> HIDE DEF T
    <2> QED
      BY <1>1, <1>3, <1>4, BoundedInduction
  <1> QED
    BY <1>5

-----------------------------------------------------------------------------
(* What a line asks for. *)

LEMMA Interpreted ==
    ASSUME NEW W, NEW l \in Seq(W)
    PROVE  LET s == State(l, Len(l)) IN
           InterpretRequest(l) =
             [kind |-> IF s.kind = "request" /\ s.expect # "option" THEN "throws" ELSE s.kind,
              ip |-> s.ip, fd |-> s.fd, req |-> s.req, msg |-> s.msg]
  BY Loop, Zenon DEF InterpretRequest

(***************************************************************************)
(* Every line, however long and whatever its words, is obeyed, ignored or  *)
(* throws as KindSpecified says (EndPoint.cpp:147-214).                    *)
(***************************************************************************)
THEOREM EveryKind ==
    ASSUME NEW W, NEW l \in Seq(W)
    PROVE  KindSpecified(l)
  <1> DEFINE s == State(l, Len(l))
  <1>1. Len(l) \in 0..Len(l) /\ DOMAIN l = 1..Len(l) /\ Len(l) \in Nat
    OBVIOUS
  <1>2. s \in Locals(W) /\ Control(l, Len(l))
    BY <1>1, ControlHolds
  <1>3. InterpretRequest(l).kind =
            IF s.kind = "request" /\ s.expect # "option" THEN "throws" ELSE s.kind
    BY Interpreted
  <1>4. Unexpected(l) <=> UnexpectedBy(l, Len(l))
    <2>1. \A i \in Head1(l) : i <= Len(l)
      BY <1>1 DEF Head1
    <2> QED
      BY <2>1, Zenon DEF Unexpected, UnexpectedBy, Opts
  <1>5. l = <<>> => Len(l) \notin OptionAt(l, "-i") \cup OptionAt(l, "-f")
    BY <1>1 DEF OptionAt
  <1>6. s.kind \in {"request", "ignored"} /\ s.expect \in {"option", "ip", "fd"}
    BY <1>2 DEF Locals
  <1> HIDE DEF s
  <1>7. CASE s.kind = "ignored"
    BY <1>2, <1>3, <1>4, <1>7 DEF KindSpecified, Control, s
  <1>8. CASE s.kind = "request"
    BY <1>2, <1>3, <1>4, <1>5, <1>6, <1>8 DEF KindSpecified, Control, s
  <1> QED
    BY <1>6, <1>7, <1>8

\* A line that is obeyed never met an argument it did not expect; one word
\* changes each variable according to the position it stands at.
LEMMA Moves ==
    ASSUME NEW W, NEW l \in Seq(W), State(l, Len(l)).kind = "request",
           NEW k \in 0..Len(l), k < Len(l)
    PROVE  LET s == State(l, k)
               t == State(l, k + 1)
               w == l[k + 1]
           IN /\ t.ip = IF k \in OptionAt(l, "-i") THEN ValidateAddrTCP(w) ELSE s.ip
              /\ t.fd = IF k \in OptionAt(l, "-f") /\ w.num # {} THEN NumberOf(w) ELSE s.fd
              /\ t.msg = IF k + 1 \in InMessage(l) THEN Append(s.msg, w.text) ELSE s.msg
              /\ t.req = IF \E j \in OptionAt(l, "-m") : j <= k THEN s.req
                         ELSE IF k + 1 \in OptionAt(l, "-m") THEN "WRITE"
                         ELSE IF k + 1 \in OptionAt(l, "-r") THEN "READ"
                         ELSE IF k + 1 \in OptionAt(l, "-c") THEN "CLOSE" ELSE s.req
  <1> DEFINE s == State(l, k)
             t == State(l, k + 1)
             w == l[k + 1]
  <1>1. Len(l) \in Nat /\ DOMAIN l = 1..Len(l) /\ k \in Nat /\ k + 1 \in 1..Len(l) /\ w \in W
    OBVIOUS
  <1>2. t = Step(s, w)
    BY Loop
  <1>3. s \in Locals(W) /\ Control(l, k)
    BY ControlHolds
  <1>4. s.kind = "request"
    <2>1. Len(l) \in 0..Len(l)
      BY <1>1
    <2>2. ~UnexpectedBy(l, Len(l))
      BY <2>1, ControlHolds DEF Control
    <2>3. \A i \in Head1(l) : i <= Len(l)
      BY <1>1 DEF Head1
    <2>4. ~UnexpectedBy(l, k)
      BY <2>2, <2>3 DEF UnexpectedBy
    <2>5. s.kind # "ignored"
      BY <1>3, <2>4 DEF Control
    <2> QED
      BY <1>3, <2>5 DEF Locals
  <1>5. k + 1 \in ValueAt(l) <=> k \in OptionAt(l, "-i") \/ k \in OptionAt(l, "-f")
    <2>1. k + 1 \in ValueAt(l) <=>
            k + 1 > 1 /\ (k + 1) - 1 \notin ValueAt(l) /\ l[(k + 1) - 1].text \in {"-i", "-f"}
      BY <1>1, ValueAtIs
    <2>2. (k + 1) - 1 = k /\ (k + 1 > 1 <=> k \in 1..Len(l))
      BY <1>1
    <2> QED
      BY <1>1, <2>1, <2>2 DEF OptionAt
  <1>6. \A o : k + 1 \in OptionAt(l, o) <=> k + 1 \notin ValueAt(l) /\ w.text = o
    BY <1>1 DEF OptionAt
  <1>7. k + 1 \in Head1(l) <=> ~\E j \in OptionAt(l, "-m") : j <= k
    <2>1. \A j \in OptionAt(l, "-m") : j \in Int /\ (k + 1 <= j <=> ~(j <= k))
      BY <1>1 DEF OptionAt
    <2> QED
      BY <1>1, <2>1 DEF Head1
  <1>8. k + 1 \in InMessage(l) <=>
            k + 1 \notin Head1(l) /\ k + 1 \notin ValueAt(l) /\ w.text \notin {"-i", "-f"}
    BY <1>1 DEF InMessage
  <1>9. /\ s.expect \in {"option", "ip", "fd"}
        /\ s.expect = "ip" <=> k \in OptionAt(l, "-i")
        /\ s.expect = "fd" <=> k \in OptionAt(l, "-f")
        /\ s.opt <=> \E j \in OptionAt(l, "-m") : j <= k
    BY <1>3, <1>4 DEF Control, Locals
  <1> HIDE DEF s, t, w
  <1>10. CASE s.expect \in {"ip", "fd"}
    <2>1. t = Value(s, w)
      BY <1>2, <1>4, <1>10 DEF Step
    <2>2. /\ t.ip = IF s.expect = "ip" THEN ValidateAddrTCP(w) ELSE s.ip
          /\ t.fd = IF s.expect = "fd" /\ w.num # {} THEN NumberOf(w) ELSE s.fd
          /\ t.req = s.req
          /\ t.msg = s.msg
      BY <1>1, <1>3, <1>4, <1>10, <2>1, ValueDoes
    <2>3. k + 1 \in ValueAt(l)
      BY <1>5, <1>9, <1>10
    <2> QED
      BY <1>6, <1>8, <1>9, <2>2, <2>3 DEF s, t, w
  <1>11. CASE s.expect = "option"
    <2>1. t = Option(s, w)
      BY <1>2, <1>4, <1>11 DEF Step
    <2>2. /\ t.ip = s.ip
          /\ t.fd = s.fd
          /\ t.req = IF s.opt \/ w.text \notin {"-m", "-r", "-c"} THEN s.req
                     ELSE IF w.text = "-m" THEN "WRITE"
                     ELSE IF w.text = "-r" THEN "READ" ELSE "CLOSE"
          /\ t.msg = IF s.opt /\ w.text \notin {"-i", "-f"} THEN Append(s.msg, w.text) ELSE s.msg
      BY <1>1, <1>3, <1>4, <1>11, <2>1, OptionDoes
    <2>3. k + 1 \notin ValueAt(l) /\ k \notin OptionAt(l, "-i") /\ k \notin OptionAt(l, "-f")
      BY <1>5, <1>9, <1>11
    <2>4. k + 1 \in InMessage(l) <=> s.opt /\ w.text \notin {"-i", "-f"}
      BY <1>7, <1>8, <1>9, <2>3
    <2>5. t.msg = IF k + 1 \in InMessage(l) THEN Append(s.msg, w.text) ELSE s.msg
      BY <2>2, <2>4, Zenon
    <2>6. t.req = IF \E j \in OptionAt(l, "-m") : j <= k THEN s.req
                  ELSE IF k + 1 \in OptionAt(l, "-m") THEN "WRITE"
                  ELSE IF k + 1 \in OptionAt(l, "-r") THEN "READ"
                  ELSE IF k + 1 \in OptionAt(l, "-c") THEN "CLOSE" ELSE s.req
      BY <1>6, <1>9, <2>2, <2>3
    <2> QED
      BY <2>2, <2>3, <2>5, <2>6 DEF s, t, w
  <1> QED
    BY <1>9, <1>10, <1>11

LEMMA LastIs ==
    ASSUME NEW S, NEW i \in S, \A j \in S : j <= i, \A j \in S : j \in Int
    PROVE  LastOf(S) = i
  <1>1. LastOf(S) \in S /\ \A j \in S : j <= LastOf(S)
    BY Zenon DEF LastOf
  <1> HIDE DEF LastOf
  <1>2. LastOf(S) \in Int /\ i \in Int /\ LastOf(S) <= i /\ i <= LastOf(S)
    BY <1>1
  <1> QED
    BY <1>2

\* x is a variable after each of n words, which the words at the positions of S
\* set to y.
Assigned(n, S, x, y) ==
    \A k \in 0..n : k < n => x[k + 1] = IF k + 1 \in S THEN y[k + 1] ELSE x[k]

\* At the end x has the value of the last of these words, if there is one.
LastCounts(n, S, x, y) ==
    IF S = {} THEN x[n] = x[0]
    ELSE \E i \in S : (\A j \in S : j <= i) /\ x[n] = y[i]

LEMMA LastAssigned ==
    ASSUME NEW n \in Nat, NEW S, S \subseteq 1..n, NEW x, NEW y, Assigned(n, S, x, y)
    PROVE  LastCounts(n, S, x, y)
  <1> DEFINE None(k) == \A i \in S : ~(i <= k)
             LastBy(i, k) == i \in S /\ i <= k /\ \A j \in S : j <= k => j <= i
             T == {k \in 0..n : \/ None(k) /\ x[k] = x[0]
                                \/ \E i \in S : LastBy(i, k) /\ x[k] = y[i]}
  <1>0. \A i \in S : i \in Nat /\ 1 <= i /\ i <= n
    OBVIOUS
  <1>1. 0 \in T
    BY <1>0
  <1>2. ASSUME NEW k \in 0..n, k < n, k \in T PROVE k + 1 \in T
    <2>1. k + 1 \in 0..n /\ k \in Nat
      BY <1>2
    <2>2. CASE k + 1 \in S
      <3>1. LastBy(k + 1, k + 1)
        BY <1>0, <2>1, <2>2
      <3>2. x[k + 1] = y[k + 1]
        BY <1>2, <2>2 DEF Assigned
      <3> HIDE DEF LastBy, None
      <3> QED
        BY <2>1, <2>2, <3>1, <3>2
    <2>3. CASE k + 1 \notin S
      <3>1. \A i \in S : i <= k + 1 <=> i <= k
        BY <1>0, <2>1, <2>3
      <3>2. x[k + 1] = x[k]
        BY <1>2, <2>3 DEF Assigned
      <3>3. (None(k + 1) <=> None(k)) /\ \A i \in S : LastBy(i, k + 1) <=> LastBy(i, k)
        BY <3>1
      <3> HIDE DEF LastBy, None
      <3> QED
        BY <1>2, <2>1, <3>2, <3>3
    <2> QED
      BY <2>2, <2>3
  <1>3. n \in T
    <2> HIDE DEF T
    <2>1. 0..n \subseteq T
      BY <1>1, <1>2, BoundedInduction
    <2> QED
      BY <2>1
  <1>4. CASE S = {}
    BY <1>3, <1>4 DEF LastCounts
  <1>5. CASE S # {}
    BY <1>0, <1>3, <1>5 DEF LastCounts
  <1> QED
    BY <1>4, <1>5

(***************************************************************************)
(* Every line that is obeyed asks for what RequestSpecified says of its    *)
(* positions (EndPoint.cpp:135-214).                                       *)
(***************************************************************************)
THEOREM EveryRequest ==
    ASSUME NEW W, NEW l \in Seq(W)
    PROVE  RequestSpecified(l)
  <1> DEFINE n == Len(l)
             r == InterpretRequest(l)
             transfer == OptionAt(l, "-r") \cup OptionAt(l, "-c")
             fds == {i \in OptionAt(l, "-f") : l[i + 1].num # {}}
             ips == OptionAt(l, "-i")
  <1>1. n \in Nat /\ DOMAIN l = 1..n /\ n \in 0..n /\ \A o : OptionAt(l, o) \subseteq 1..n
    BY DEF OptionAt
  <1>2. SUFFICES ASSUME r.kind = "request"
        PROVE /\ r.req = IF OptionAt(l, "-m") # {} THEN "WRITE"
                         ELSE IF transfer = {} THEN "CONNECT"
                         ELSE IF l[LastOf(transfer)].text = "-r" THEN "READ" ELSE "CLOSE"
              /\ r.fd = IF fds = {} THEN -1 ELSE CHOOSE v \in l[LastOf(fds) + 1].num : TRUE
              /\ r.ip = IF ips = {} THEN "noaddr" ELSE ValidateAddrTCP(l[LastOf(ips) + 1])
    BY Zenon DEF RequestSpecified
  <1>3. /\ State(l, n).kind = "request" /\ State(l, n).expect = "option"
        /\ r.req = State(l, n).req /\ r.fd = State(l, n).fd /\ r.ip = State(l, n).ip
    BY <1>2, Interpreted
  <1>4. ips \subseteq 1..(n - 1) /\ fds \subseteq 1..(n - 1)
    <2>1. Control(l, n)
      BY <1>1, ControlHolds
    <2>2. n \notin OptionAt(l, "-i") /\ n \notin OptionAt(l, "-f")
      BY <1>3, <2>1 DEF Control
    <2> QED
      BY <1>1, <2>2
  <1>5. State(l, 0) = Start
    BY Loop
  <1>6. ASSUME NEW k \in 0..n, k < n
        PROVE  /\ State(l, k + 1).ip = IF k \in ips THEN ValidateAddrTCP(l[k + 1]) ELSE State(l, k).ip
               /\ State(l, k + 1).fd = IF k \in fds THEN NumberOf(l[k + 1]) ELSE State(l, k).fd
               /\ State(l, k + 1).req =
                    IF \E j \in OptionAt(l, "-m") : j <= k THEN State(l, k).req
                    ELSE IF k + 1 \in OptionAt(l, "-m") THEN "WRITE"
                    ELSE IF k + 1 \in OptionAt(l, "-r") THEN "READ"
                    ELSE IF k + 1 \in OptionAt(l, "-c") THEN "CLOSE" ELSE State(l, k).req
    BY <1>3, <1>6, Moves, Zenon
  <1>7. r.req = IF OptionAt(l, "-m") # {} THEN "WRITE"
                ELSE IF transfer = {} THEN "CONNECT"
                ELSE IF l[LastOf(transfer)].text = "-r" THEN "READ" ELSE "CLOSE"
    <2>1. CASE OptionAt(l, "-m") # {}
      <3> DEFINE T == {k \in 0..n : (\E j \in OptionAt(l, "-m") : j <= k) => State(l, k).req = "WRITE"}
      <3>1. 0 \in T
        BY <1>1
      <3>2. ASSUME NEW k \in 0..n, k < n, k \in T PROVE k + 1 \in T
        <4>1. k + 1 \in 0..n /\ k \in Nat
          BY <1>1, <3>2
        <4>2. \A j \in OptionAt(l, "-m") : j <= k + 1 <=> j <= k \/ j = k + 1
          BY <1>1, <4>1
        <4>3. CASE \E j \in OptionAt(l, "-m") : j <= k
          BY <1>6, <3>2, <4>1, <4>3
        <4>4. CASE ~\E j \in OptionAt(l, "-m") : j <= k
          BY <1>6, <3>2, <4>1, <4>2, <4>4
        <4> QED
          BY <4>3, <4>4
      <3>3. n \in T
        <4> HIDE DEF T
        <4>1. 0..n \subseteq T
          BY <1>1, <3>1, <3>2, BoundedInduction
        <4> QED
          BY <1>1, <4>1
      <3>4. PICK j \in OptionAt(l, "-m") : j <= n
        BY <1>1, <2>1
      <3> QED
        BY <1>3, <2>1, <3>3, <3>4
    <2>2. CASE OptionAt(l, "-m") = {}
      <3> DEFINE x == [k \in 0..n |-> State(l, k).req]
                 y == [k \in 1..n |-> IF l[k].text = "-r" THEN "READ" ELSE "CLOSE"]
      <3>1. Assigned(n, transfer, x, y)
        <4> SUFFICES ASSUME NEW k \in 0..n, k < n
                     PROVE  x[k + 1] = IF k + 1 \in transfer THEN y[k + 1] ELSE x[k]
          BY DEF Assigned
        <4>1. k + 1 \in 0..n /\ k + 1 \in 1..n
          BY <1>1
        <4>2. \A o : k + 1 \in OptionAt(l, o) => l[k + 1].text = o
          BY DEF OptionAt
        <4>3. x[k + 1] = State(l, k + 1).req /\ x[k] = State(l, k).req
              /\ y[k + 1] = IF l[k + 1].text = "-r" THEN "READ" ELSE "CLOSE"
          BY <4>1
        <4> HIDE DEF x, y
        <4> QED
          BY <1>6, <2>2, <4>2, <4>3
      <3>2. transfer \subseteq 1..n
        BY <1>1
      <3>3. LastCounts(n, transfer, x, y)
        <4>1. n \in Nat
          BY <1>1
        <4> HIDE DEF n, transfer, x, y
        <4> QED
          BY <3>1, <3>2, <4>1, LastAssigned
      <3>4. x[n] = r.req /\ x[0] = "CONNECT"
        <4>1. x[n] = State(l, n).req /\ x[0] = State(l, 0).req
          BY <1>1
        <4> QED
          BY <1>3, <1>5, <4>1, StartIs, Zenon
      <3>5. \A i \in 1..n : y[i] = IF l[i].text = "-r" THEN "READ" ELSE "CLOSE"
        OBVIOUS
      <3>6. CASE transfer = {}
        BY <2>2, <3>3, <3>4, <3>6, Zenon DEF LastCounts
      <3>7. CASE transfer # {}
        <4> HIDE DEF n, transfer, x, y, r
        <4>1. PICK i \in transfer : (\A j \in transfer : j <= i) /\ x[n] = y[i]
          BY <3>3, <3>7 DEF LastCounts
        <4>2. \A j \in transfer : j \in Int
          BY <3>2
        <4>3. LastOf(transfer) = i
          BY <4>1, <4>2, LastIs
        <4> QED
          BY <2>2, <3>2, <3>4, <3>5, <3>7, <4>1, <4>3
      <3> QED
        BY <3>6, <3>7
    <2> QED
      BY <2>1, <2>2
  <1>8. r.fd = IF fds = {} THEN -1 ELSE CHOOSE v \in l[LastOf(fds) + 1].num : TRUE
    <2>1. CASE n = 0
      <3>1. fds = {}
        BY <1>1, <1>4, <2>1
      <3> QED
        BY <1>3, <1>5, <2>1, <3>1, StartIs DEF NoFd
    <2>2. CASE n # 0
      <3> DEFINE m == n - 1
                 x == [k \in 0..m |-> State(l, k + 1).fd]
                 y == [k \in 1..m |-> NumberOf(l[k + 1])]
      <3>1. m \in Nat /\ m + 1 = n /\ m \in 0..m /\ 0 \in 0..m
        BY <1>1, <2>2
      <3>2. fds \subseteq 1..m
        BY <1>4
      <3>3. Assigned(m, fds, x, y)
        <4> SUFFICES ASSUME NEW k \in 0..m, k < m
                     PROVE  x[k + 1] = IF k + 1 \in fds THEN y[k + 1] ELSE x[k]
          BY DEF Assigned
        <4>1. k + 1 \in 0..m /\ k + 1 \in 1..m /\ k + 1 \in 0..n /\ k + 1 < n /\ (k + 1) + 1 = k + 2
          BY <3>1
        <4>2. x[k + 1] = State(l, (k + 1) + 1).fd /\ x[k] = State(l, k + 1).fd
              /\ y[k + 1] = NumberOf(l[(k + 1) + 1])
          BY <4>1
        <4> HIDE DEF m, x, y, fds
        <4> QED
          BY <1>6, <4>1, <4>2, Zenon
      <3>4. LastCounts(m, fds, x, y)
        <4>1. m \in Nat
          BY <3>1
        <4> HIDE DEF m, fds, x, y
        <4> QED
          BY <3>2, <3>3, <4>1, LastAssigned
      <3>5. x[m] = r.fd /\ x[0] = NoFd
        <4>1. x[m] = State(l, m + 1).fd /\ x[0] = State(l, 0 + 1).fd
          BY <3>1
        <4>2. 0 \in 0..n /\ 0 < n /\ 0 \notin fds
          BY <1>1, <1>4, <2>2
        <4>3. State(l, 0 + 1).fd = State(l, 0).fd
          <5> HIDE DEF fds
          <5> QED
            BY <1>6, <4>2, Zenon
        <4> QED
          BY <1>3, <1>5, <3>1, <4>1, <4>3, StartIs
      <3>6. \A i \in 1..m : y[i] = NumberOf(l[i + 1])
        OBVIOUS
      <3>7. CASE fds = {}
        BY <3>4, <3>5, <3>7, Zenon DEF LastCounts, NoFd
      <3>8. CASE fds # {}
        <4> HIDE DEF m, fds, x, y, r
        <4>1. PICK i \in fds : (\A j \in fds : j <= i) /\ x[m] = y[i]
          BY <3>4, <3>8 DEF LastCounts
        <4>2. \A j \in fds : j \in Int
          BY <3>2
        <4>3. LastOf(fds) = i
          BY <4>1, <4>2, LastIs
        <4>4. i \in 1..m
          BY <3>2
        <4>5. r.fd = NumberOf(l[i + 1])
          BY <3>5, <3>6, <4>1, <4>4, Zenon
        <4> QED
          BY <3>8, <4>3, <4>5, Zenon DEF NumberOf
      <3> QED
        BY <3>7, <3>8
    <2> QED
      BY <2>1, <2>2
  <1>9. r.ip = IF ips = {} THEN "noaddr" ELSE ValidateAddrTCP(l[LastOf(ips) + 1])
    <2>1. CASE n = 0
      <3>1. ips = {}
        BY <1>1, <1>4, <2>1
      <3> QED
        BY <1>3, <1>5, <2>1, <3>1, StartIs DEF NoAddress
    <2>2. CASE n # 0
      <3> DEFINE m == n - 1
                 x == [k \in 0..m |-> State(l, k + 1).ip]
                 y == [k \in 1..m |-> ValidateAddrTCP(l[k + 1])]
      <3>1. m \in Nat /\ m + 1 = n /\ m \in 0..m /\ 0 \in 0..m
        BY <1>1, <2>2
      <3>2. ips \subseteq 1..m
        BY <1>4
      <3>3. Assigned(m, ips, x, y)
        <4> SUFFICES ASSUME NEW k \in 0..m, k < m
                     PROVE  x[k + 1] = IF k + 1 \in ips THEN y[k + 1] ELSE x[k]
          BY DEF Assigned
        <4>1. k + 1 \in 0..m /\ k + 1 \in 1..m /\ k + 1 \in 0..n /\ k + 1 < n /\ (k + 1) + 1 = k + 2
          BY <3>1
        <4>2. x[k + 1] = State(l, (k + 1) + 1).ip /\ x[k] = State(l, k + 1).ip
              /\ y[k + 1] = ValidateAddrTCP(l[(k + 1) + 1])
          BY <4>1
        <4> HIDE DEF m, x, y, ips
        <4> QED
          BY <1>6, <4>1, <4>2, Zenon
      <3>4. LastCounts(m, ips, x, y)
        <4>1. m \in Nat
          BY <3>1
        <4> HIDE DEF m, ips, x, y
        <4> QED
          BY <3>2, <3>3, <4>1, LastAssigned
      <3>5. x[m] = r.ip /\ x[0] = NoAddress
        <4>1. x[m] = State(l, m + 1).ip /\ x[0] = State(l, 0 + 1).ip
          BY <3>1
        <4>2. 0 \in 0..n /\ 0 < n /\ 0 \notin ips
          BY <1>1, <1>4, <2>2
        <4>3. State(l, 0 + 1).ip = State(l, 0).ip
          <5> HIDE DEF ips
          <5> QED
            BY <1>6, <4>2, Zenon
        <4> QED
          BY <1>3, <1>5, <3>1, <4>1, <4>3, StartIs
      <3>6. \A i \in 1..m : y[i] = ValidateAddrTCP(l[i + 1])
        OBVIOUS
      <3>7. CASE ips = {}
        BY <3>4, <3>5, <3>7, Zenon DEF LastCounts, NoAddress
      <3>8. CASE ips # {}
        <4> HIDE DEF m, ips, x, y, r
        <4>1. PICK i \in ips : (\A j \in ips : j <= i) /\ x[m] = y[i]
          BY <3>4, <3>8 DEF LastCounts
        <4>2. \A j \in ips : j \in Int
          BY <3>2
        <4>3. LastOf(ips) = i
          BY <4>1, <4>2, LastIs
        <4>4. i \in 1..m
          BY <3>2
        <4>5. r.ip = ValidateAddrTCP(l[i + 1])
          BY <3>5, <3>6, <4>1, <4>4, Zenon
        <4> QED
          BY <3>8, <4>3, <4>5, Zenon
      <3> QED
        BY <3>7, <3>8
    <2> QED
      BY <2>1, <2>2
  <1> QED
    BY <1>7, <1>8, <1>9, Zenon

\* How many of S are at most i.
Rank(S, i) == Cardinality({j \in S : j <= i})

LEMMA RankIs ==
    ASSUME NEW n \in Nat, NEW S, S \subseteq 1..n
    PROVE  /\ \A k \in Nat : Rank(S, k) \in Nat
           /\ Rank(S, 0) = 0
           /\ Rank(S, n) = Cardinality(S)
           /\ \A k \in Nat : Rank(S, k + 1) = IF k + 1 \in S THEN Rank(S, k) + 1 ELSE Rank(S, k)
           /\ \A i, j \in S : Rank(S, i) = Rank(S, j) => i = j
  <1> DEFINE P(k) == {j \in S : j <= k}
  <1>0. \A i \in S : i \in Nat /\ 1 <= i /\ i <= n
    OBVIOUS
  <1>1. IsFiniteSet(S)
    <2>1. IsFiniteSet(1..n)
      BY FS_Interval
    <2> QED
      BY <2>1, FS_Subset
  <1>2. \A k : P(k) \subseteq S /\ IsFiniteSet(P(k))
    BY <1>1, FS_Subset
  <1>3. \A k \in Nat : Rank(S, k) \in Nat
    BY <1>2, FS_CardinalityType DEF Rank
  <1>4. Rank(S, 0) = 0
    <2>1. P(0) = {}
      <3>1. \A i \in S : ~(i <= 0)
        BY <1>0
      <3> QED
        BY <3>1, Zenon
    <2> QED
      BY <2>1, FS_EmptySet DEF Rank
  <1>5. Rank(S, n) = Cardinality(S)
    <2>1. P(n) = S
      BY <1>0
    <2> QED
      BY <2>1 DEF Rank
  <1>6. ASSUME NEW k \in Nat
        PROVE  Rank(S, k + 1) = IF k + 1 \in S THEN Rank(S, k) + 1 ELSE Rank(S, k)
    <2>1. CASE k + 1 \in S
      <3>1. P(k + 1) = P(k) \cup {k + 1} /\ k + 1 \notin P(k)
        <4>1. \A j \in S : j <= k + 1 <=> j <= k \/ j = k + 1
          BY <1>0
        <4>2. ~(k + 1 <= k)
          OBVIOUS
        <4> QED
          BY <2>1, <4>1, <4>2, Zenon
      <3>2. Cardinality(P(k) \cup {k + 1}) = Cardinality(P(k)) + 1
        <4> HIDE DEF P
        <4> QED
          BY <1>2, <3>1, FS_AddElement
      <3> QED
        BY <2>1, <3>1, <3>2 DEF Rank
    <2>2. CASE k + 1 \notin S
      <3>1. P(k + 1) = P(k)
        <4>1. \A j \in S : j <= k + 1 <=> j <= k
          BY <1>0, <2>2
        <4> QED
          BY <4>1, Zenon
      <3> QED
        BY <2>2, <3>1 DEF Rank
    <2> QED
      BY <2>1, <2>2
  <1>7. ASSUME NEW i \in S, NEW j \in S, i < j
        PROVE  Rank(S, i) # Rank(S, j)
    <2>1. j \in P(j) /\ P(i) \subseteq P(j) \ {j}
      <3>1. j <= j /\ \A h \in S : h <= i => h <= j /\ h # j
        BY <1>0, <1>7
      <3> QED
        BY <3>1, Zenon
    <2>2. IsFiniteSet(P(j)) /\ IsFiniteSet(P(j) \ {j})
      BY <1>2, FS_Subset
    <2>3. Cardinality(P(j) \ {j}) = Cardinality(P(j)) - 1
      <3> HIDE DEF P
      <3> QED
        BY <2>1, <2>2, FS_RemoveElement
    <2>4. Cardinality(P(i)) <= Cardinality(P(j) \ {j})
      <3> HIDE DEF P
      <3> QED
        BY <2>1, <2>2, FS_Subset
    <2>5. Rank(S, i) \in Nat /\ Rank(S, j) \in Nat
      BY <1>0, <1>3
    <2> QED
      BY <2>3, <2>4, <2>5 DEF Rank
  <1>8. \A i, j \in S : Rank(S, i) = Rank(S, j) => i = j
    <2> SUFFICES ASSUME NEW i \in S, NEW j \in S, Rank(S, i) = Rank(S, j), i # j PROVE FALSE
      OBVIOUS
    <2>1. i < j \/ j < i
      BY <1>0
    <2> QED
      BY <1>7, <2>1
  <1> QED
    BY <1>3, <1>4, <1>5, <1>6, <1>8

\* x is a sequence after each of n words, to which the words at the positions
\* of S append y.
Appended(n, S, x, y) ==
    \A k \in 0..n : k < n => x[k + 1] = IF k + 1 \in S THEN Append(x[k], y[k + 1]) ELSE x[k]

\* The position in S of rank k, and y at the positions of S in their order.
Picked(S, k) == CHOOSE i \in S : Rank(S, i) = k

InOrder(S, y, s) ==
    /\ \A k \in 1..Cardinality(S) : Picked(S, k) \in S
    /\ s = [k \in 1..Cardinality(S) |-> y[Picked(S, k)]]

LEMMA AllAppended ==
    ASSUME NEW n \in Nat, NEW S, S \subseteq 1..n, NEW A, NEW y, \A k \in S : y[k] \in A,
           NEW x, x[0] = <<>>, Appended(n, S, x, y)
    PROVE  InOrder(S, y, x[n])
  <1> DEFINE Good(k) == /\ x[k] \in Seq(A) /\ Len(x[k]) = Rank(S, k)
                        /\ \A j \in 1..Rank(S, k) : \E i \in S : Rank(S, i) = j /\ x[k][j] = y[i]
             T == {k \in 0..n : Good(k)}
  <1>0. \A i \in S : i \in Nat /\ 1 <= i /\ i <= n
    OBVIOUS
  <1>1. /\ \A k \in Nat : Rank(S, k) \in Nat
        /\ Rank(S, 0) = 0 /\ Rank(S, n) = Cardinality(S)
        /\ \A k \in Nat : Rank(S, k + 1) = IF k + 1 \in S THEN Rank(S, k) + 1 ELSE Rank(S, k)
        /\ \A i, j \in S : Rank(S, i) = Rank(S, j) => i = j
    BY RankIs
  <1>2. 0 \in T
    <2>1. 1..Rank(S, 0) = {} /\ 0 \in 0..n
      BY <1>1
    <2>2. x[0] \in Seq(A) /\ Len(x[0]) = 0
      OBVIOUS
    <2> QED
      BY <1>1, <2>1, <2>2
  <1>3. ASSUME NEW k \in 0..n, k < n, k \in T PROVE k + 1 \in T
    <2>1. k + 1 \in 0..n /\ k \in Nat
      BY <1>3
    <2>2. Good(k)
      BY <1>3
    <2>3. CASE k + 1 \in S
      <3>1. x[k + 1] = Append(x[k], y[k + 1]) /\ Rank(S, k + 1) = Rank(S, k) + 1
        BY <1>1, <1>3, <2>1, <2>3 DEF Appended
      <3>2. y[k + 1] \in A /\ Rank(S, k) \in Nat
        BY <1>1, <2>1, <2>3
      <3>3. /\ x[k + 1] \in Seq(A) /\ Len(x[k + 1]) = Rank(S, k) + 1
            /\ x[k + 1][Rank(S, k) + 1] = y[k + 1]
            /\ \A j \in 1..Rank(S, k) : x[k + 1][j] = x[k][j]
        BY <2>2, <3>1, <3>2
      <3>4. ASSUME NEW j \in 1..Rank(S, k + 1)
            PROVE  \E i \in S : Rank(S, i) = j /\ x[k + 1][j] = y[i]
        <4>1. CASE j = Rank(S, k) + 1
          BY <2>3, <3>1, <3>3, <4>1
        <4>2. CASE j # Rank(S, k) + 1
          <5>1. j \in 1..Rank(S, k)
            BY <3>1, <3>2, <4>2
          <5> QED
            BY <2>2, <3>3, <5>1
        <4> QED
          BY <4>1, <4>2
      <3>5. Good(k + 1)
        BY <3>1, <3>3, <3>4
      <3> QED
        BY <2>1, <3>5
    <2>4. CASE k + 1 \notin S
      <3>1. x[k + 1] = x[k] /\ Rank(S, k + 1) = Rank(S, k)
        BY <1>1, <1>3, <2>1, <2>4 DEF Appended
      <3>2. Good(k + 1)
        BY <2>2, <3>1
      <3> QED
        BY <2>1, <3>2
    <2> QED
      BY <2>3, <2>4
  <1>4. Good(n)
    <2>1. n \in T
      <3> HIDE DEF T
      <3>1. 0..n \subseteq T
        BY <1>2, <1>3, BoundedInduction
      <3> QED
        BY <3>1
    <2> QED
      BY <2>1
  <1>5. ASSUME NEW k \in 1..Cardinality(S)
        PROVE  Picked(S, k) \in S /\ x[n][k] = y[Picked(S, k)]
    <2>1. PICK i \in S : Rank(S, i) = k /\ x[n][k] = y[i]
      BY <1>1, <1>4
    <2>2. Picked(S, k) \in S /\ Rank(S, Picked(S, k)) = k
      BY <2>1, Zenon DEF Picked
    <2>3. Picked(S, k) = i
      BY <1>1, <2>1, <2>2
    <2> QED
      BY <2>1, <2>3
  <1>6. x[n] = [k \in 1..Cardinality(S) |-> x[n][k]]
    <2>1. \A s \in Seq(A) : s = [k \in 1..Len(s) |-> s[k]]
      OBVIOUS
    <2>2. x[n] \in Seq(A) /\ Len(x[n]) = Cardinality(S)
      BY <1>1, <1>4
    <2> QED
      BY <2>1, <2>2, Zenon
  <1> QED
    BY <1>5, <1>6, Zenon DEF InOrder

(***************************************************************************)
(* Every line that is obeyed has the message that MessageSpecified says:   *)
(* no word lost, repeated or moved, however long (EndPoint.cpp:183-196).   *)
(***************************************************************************)
THEOREM EveryMessage ==
    ASSUME NEW W, NEW l \in Seq(W)
    PROVE  MessageSpecified(l)
  <1> DEFINE n == Len(l)
             r == InterpretRequest(l)
             S == InMessage(l)
             A == {w.text : w \in W}
             x == [k \in 0..n |-> State(l, k).msg]
             y == [k \in 1..n |-> l[k].text]
  <1>1. n \in Nat /\ DOMAIN l = 1..n /\ 0 \in 0..n /\ n \in 0..n
    OBVIOUS
  <1>2. S \subseteq 1..n
    BY <1>1 DEF InMessage
  <1>3. SUFFICES ASSUME r.kind = "request"
        PROVE  r.msg = [k \in 1..Cardinality(S) |->
                    l[CHOOSE i \in S : Cardinality({j \in S : j <= i}) = k].text]
    BY Zenon DEF MessageSpecified
  <1>4. State(l, n).kind = "request" /\ r.msg = State(l, n).msg
    BY <1>3, Interpreted
  <1>5. x[0] = <<>> /\ x[n] = r.msg
    <2>1. x[0] = State(l, 0).msg /\ x[n] = State(l, n).msg
      BY <1>1
    <2>2. State(l, 0) = Start
      BY Loop
    <2> QED
      BY <1>4, <2>1, <2>2, StartIs, Zenon
  <1>6. Appended(n, S, x, y)
    <2> SUFFICES ASSUME NEW k \in 0..n, k < n
                 PROVE  x[k + 1] = IF k + 1 \in S THEN Append(x[k], y[k + 1]) ELSE x[k]
      BY DEF Appended
    <2>1. k + 1 \in 0..n /\ k + 1 \in 1..n
      BY <1>1
    <2>2. x[k + 1] = State(l, k + 1).msg /\ x[k] = State(l, k).msg /\ y[k + 1] = l[k + 1].text
      BY <2>1
    <2>3. State(l, k + 1).msg =
            IF k + 1 \in S THEN Append(State(l, k).msg, l[k + 1].text) ELSE State(l, k).msg
      BY <1>4, Moves, Zenon
    <2> HIDE DEF x, y, S
    <2> QED
      BY <2>2, <2>3, Zenon
  <1>7. \A k \in S : y[k] = l[k].text /\ y[k] \in A
    BY <1>2
  <1>8. InOrder(S, y, x[n])
    <2>1. n \in Nat /\ x[0] = <<>> /\ \A k \in S : y[k] \in A
      BY <1>1, <1>5, <1>7
    <2> HIDE DEF n, S, A, x, y
    <2> QED
      BY <1>2, <1>6, <2>1, AllAppended
  <1>9. \A k \in 1..Cardinality(S) : y[Picked(S, k)] = l[Picked(S, k)].text
    <2> HIDE DEF S, y, x
    <2> QED
      BY <1>7, <1>8, Zenon DEF InOrder
  <1>10. r.msg = [k \in 1..Cardinality(S) |-> l[Picked(S, k)].text]
    <2> HIDE DEF S, y, x, r
    <2> QED
      BY <1>5, <1>8, <1>9, Zenon DEF InOrder
  <1> QED
    BY <1>10, Zenon DEF Rank, Picked

-----------------------------------------------------------------------------
(* The runs. *)

TypeOK ==
    /\ line \in Seq(Options \cup Values)
    /\ argv \in Seq(Arguments1)

\* The inputs are lines and lists of options.
LEMMA Typed == Spec => []TypeOK
  <1>1. Init => TypeOK
    BY DEF Init, TypeOK
  <1>2. TypeOK /\ [Next]_vars => TypeOK'
    <2> SUFFICES ASSUME TypeOK, [Next]_vars PROVE TypeOK'
      OBVIOUS
    <2> USE DEF TypeOK
    <2>1. CASE UNCHANGED vars
      BY <2>1 DEF vars
    <2>2. CASE Next
      <3>2. ASSUME NEW w \in Options \cup Values, line' = Append(line, w), UNCHANGED argv
            PROVE  TypeOK'
        <4>1. Append(line, w) \in Seq(Options \cup Values)
          OBVIOUS
        <4> QED
          BY <3>2, <4>1, Zenon
      <3>3. ASSUME NEW a \in Arguments1, argv' = Append(argv, a), UNCHANGED line
            PROVE  TypeOK'
        <4>1. Append(argv, a) \in Seq(Arguments1)
          OBVIOUS
        <4> QED
          BY <3>3, <4>1, Zenon
      <3> QED
        BY <2>2, <3>2, <3>3, Zenon DEF Next
    <2> QED
      BY <2>1, <2>2
  <1> QED
    BY <1>1, <1>2, PTL DEF Spec

(***************************************************************************)
(* In the runs, whatever MaxWords: every line is interpreted as            *)
(* KindAsSpecified, RequestAsSpecified and MessageAsSpecified say          *)
(* (EndPoint.cpp:135-214).                                                 *)
(***************************************************************************)
THEOREM LinesAsSpecified ==
    Spec => [](KindAsSpecified /\ RequestAsSpecified /\ MessageAsSpecified)
  <1>1. TypeOK => KindAsSpecified /\ RequestAsSpecified /\ MessageAsSpecified
    BY EveryKind, EveryRequest, EveryMessage, Zenon
    DEF TypeOK, KindAsSpecified, RequestAsSpecified, MessageAsSpecified
  <1> QED
    BY <1>1, Typed, PTL

=============================================================================
