---------------------------- MODULE EndpointsProofs ----------------------------
(***************************************************************************)
(* For every config, and whatever is published and listening: the ranges   *)
(* taken from the config are ones iptables accepts, the ports command      *)
(* gives the first ports of them, and no service of the host that lost its *)
(* guests to a container goes unreported.                                  *)
(*                                                                         *)
(* The inputs change freely, so there is nothing to carry from one state   *)
(* to the next but their types; the argument is about the functions.  Two  *)
(* of them walk through a list with FoldLeft, and what they should give is *)
(* stated with FlattenSeq: recursive functions chosen by their equation,   *)
(* of which nothing is known before some function is shown to solve it.    *)
(* FoldExists builds one, the three Unfolds lemmas give the equations, the *)
(* three Steps lemmas turn them into sequences of intermediate values, and *)
(* ParseIs and AllowedIsFirst go along those by Induction.                 *)
(***************************************************************************)
EXTENDS Endpoints, TLAPS, SequenceTheorems, WellFoundedInduction

(* The types of the inputs, the first part of TypeOK.                      *)
InputType ==
    /\ config \in Seq(Line) /\ Len(config) <= MaxLines
    /\ nat \subseteq Rule /\ sockets \subseteq Listener
    /\ natRead \in BOOLEAN /\ ssRead \in BOOLEAN

(* What a line that the code accepts is.                                   *)
LEMMA AcceptedIsRange ==
    ASSUME NEW line \in Line, Accepted(line)
    PROVE  Start(line) \in Port /\ End(line) \in Start(line)..MAX_PORT
<1>1. MIN_PORT \in Nat /\ MAX_PORT \in Nat
  BY EndpointsAssumption
<1>2. ASSUME NEW p \in Digits, line = <<p>>
      PROVE  Start(line) \in Port /\ End(line) \in Start(line)..MAX_PORT
  <2>1. Len(line) = 1 /\ line[1] = p /\ p \in Nat
    BY <1>1, <1>2 DEF Digits
  <2>2. MIN_PORT <= p /\ p <= MAX_PORT
    BY <2>1 DEF Accepted, ValidPort
  <2> QED
    BY <2>1, <2>2, <1>1 DEF Start, End, Port
<1>3. ASSUME NEW a \in Digits, NEW b \in Digits, line = <<a, b>>
      PROVE  Start(line) \in Port /\ End(line) \in Start(line)..MAX_PORT
  <2>1. Len(line) = 2 /\ line[1] = a /\ line[2] = b /\ a \in Nat /\ b \in Nat
    BY <1>1, <1>3 DEF Digits
  <2>2. MIN_PORT <= a /\ a <= MAX_PORT /\ b <= MAX_PORT /\ a <= b
    BY <2>1 DEF Accepted, ValidPort
  <2> QED
    BY <2>1, <2>2, <1>1 DEF Start, End, Port
<1>4. line # <<>>
  BY DEF Accepted
<1> QED
  BY <1>2, <1>3, <1>4 DEF Line

(* Induction up to N for membership in a set: a least counterexample would *)
(* not be 0, and its predecessor would not be in the set either.           *)
LEMMA Induction ==
    ASSUME NEW N \in Nat, NEW S, 0 \in S, \A n \in 0..(N - 1) : n \in S => n + 1 \in S
    PROVE  \A n \in 0..N : n \in S
<1> DEFINE bad == {n \in 0..N : n \notin S}
           Less == OpToRel(<, Nat)
<1>1. SUFFICES ASSUME bad # {} PROVE FALSE
  OBVIOUS
<1>2. PICK m \in bad : \A n \in bad : ~(<<n, m>> \in Less)
  <2>1. bad \subseteq Nat
    OBVIOUS
  <2> HIDE DEF bad
  <2> QED
    BY <1>1, <2>1, NatLessThanWellFounded, WFMin
<1>3. m \in 0..N /\ m \notin S
  BY <1>2
<1>4. m # 0
  BY <1>3
<1>5. m - 1 \in 0..(N - 1) /\ (m - 1) + 1 = m /\ m - 1 < m /\ m - 1 \in Nat /\ m \in Nat
  BY <1>3, <1>4
<1>6. m - 1 \notin S
  BY <1>3, <1>5
<1>7. m - 1 \in bad
  BY <1>5, <1>6
<1>8. <<m - 1, m>> \in Less
  BY <1>5 DEF OpToRel
<1> QED
  BY <1>2, <1>7, <1>8

(* The largest of the first n indices.                                     *)
LEMMA MaxOfInterval ==
    ASSUME NEW n \in Nat \ {0}
    PROVE  Max(1..n) = n
<1>1. n \in 1..n /\ \A y \in 1..n : n >= y
  OBVIOUS
<1>2. \A x \in 1..n : (\A y \in 1..n : x >= y) => x = n
  OBVIOUS
<1> QED
  BY <1>1, <1>2 DEF Max

(* g folds the steps T over the sets of indices up to n, the way           *)
(* MapThenFoldSet goes through them: the largest last.                     *)
IsFold(g, n, base, T) ==
    \A s \in SUBSET (1..n) : g[s] = IF s = {} THEN base ELSE T[Max(s)][g[s \ {Max(s)}]]

(* Such a function exists for every n, from the one for n - 1.             *)
LEMMA FoldExists ==
    ASSUME NEW N \in Nat, NEW V, NEW base \in V, NEW T \in [1..N -> [V -> V]]
    PROVE  \E g \in [SUBSET (1..N) -> V] : IsFold(g, N, base, T)
<1> DEFINE S == {n \in 0..N : \E g \in [SUBSET (1..n) -> V] : IsFold(g, n, base, T)}
<1>1. 0 \in S
  <2>1. SUBSET (1..0) = {{}}
    OBVIOUS
  <2> DEFINE g == [s \in SUBSET (1..0) |-> base]
  <2>2. g \in [SUBSET (1..0) -> V] /\ IsFold(g, 0, base, T)
    BY <2>1 DEF IsFold
  <2>3. 0 \in 0..N
    OBVIOUS
  <2> HIDE DEF g
  <2> QED
    BY <2>2, <2>3
<1>2. ASSUME NEW n \in 0..(N - 1), n \in S PROVE n + 1 \in S
  <2>1. PICK g \in [SUBSET (1..n) -> V] : IsFold(g, n, base, T)
    BY <1>2
  <2> DEFINE h == [s \in SUBSET (1..(n + 1)) |->
                      IF n + 1 \in s THEN T[n + 1][g[s \ {n + 1}]] ELSE g[s]]
  <2>2. n + 1 \in 1..N /\ n \in Nat /\ T[n + 1] \in [V -> V]
    OBVIOUS
  <2>3. ASSUME NEW s \in SUBSET (1..(n + 1)) 
        PROVE  s \ {n + 1} \in SUBSET (1..n) /\ (n + 1 \notin s => s \in SUBSET (1..n))
    BY <2>2
  <2>4. h \in [SUBSET (1..(n + 1)) -> V]
    <3>1. \A s \in SUBSET (1..(n + 1)) :
             (IF n + 1 \in s THEN T[n + 1][g[s \ {n + 1}]] ELSE g[s]) \in V
      BY <2>1, <2>2, <2>3
    <3> QED
      BY <3>1
  <2>5. IsFold(h, n + 1, base, T)
    <3> SUFFICES ASSUME NEW s \in SUBSET (1..(n + 1))
                 PROVE  h[s] = IF s = {} THEN base ELSE T[Max(s)][h[s \ {Max(s)}]]
      BY DEF IsFold
    <3>1. CASE n + 1 \in s
      <4>1. Max(s) = n + 1
        <5>1. \A y \in s : n + 1 >= y
          BY <2>2
        <5>2. \A x \in s : (\A y \in s : x >= y) => x = n + 1
          BY <2>2, <3>1
        <5> QED
          BY <3>1, <5>1, <5>2 DEF Max
      <4>2. h[s \ {n + 1}] = g[s \ {n + 1}]
        BY <2>3
      <4> QED
        BY <3>1, <4>1, <4>2
    <3>2. CASE n + 1 \notin s
      <4>1. s \in SUBSET (1..n) /\ s \ {Max(s)} \in SUBSET (1..n)
        BY <2>3, <3>2
      <4>2. h[s] = g[s] /\ h[s \ {Max(s)}] = g[s \ {Max(s)}]
        BY <3>2, <4>1
      <4> QED
        BY <2>1, <4>1, <4>2 DEF IsFold
    <3> QED
      BY <3>1, <3>2
  <2> HIDE DEF h
  <2> QED
    BY <2>2, <2>4, <2>5
<1>3. N \in S
  <2> HIDE DEF S
  <2>1. \A n \in 0..N : n \in S
    BY <1>1, <1>2, Induction
  <2> QED
    BY <2>1
<1> QED
  BY <1>3

(* The same along the indices: f[n] is the value after the first n steps.  *)
IsRecurrence(f, N, base, T) == f[0] = base /\ \A n \in 1..N : f[n] = T[n][f[n - 1]]

(* The values that a fold has on 1..n are such a sequence.                 *)
LEMMA Recurrence ==
    ASSUME NEW N \in Nat, NEW V, NEW base \in V, NEW T \in [1..N -> [V -> V]]
    PROVE  \E f \in [0..N -> V] : IsRecurrence(f, N, base, T)
<1>1. PICK g \in [SUBSET (1..N) -> V] : IsFold(g, N, base, T)
  BY FoldExists
<1> DEFINE f == [n \in 0..N |-> g[1..n]]
<1>2. \A n \in 0..N : 1..n \in SUBSET (1..N)
  OBVIOUS
<1>3. \A n \in 0..N : g[1..n] = IF 1..n = {} THEN base
                                ELSE T[Max(1..n)][g[(1..n) \ {Max(1..n)}]]
  BY <1>1, <1>2, Zenon DEF IsFold
<1>4. f \in [0..N -> V]
  BY <1>2
<1>5. f[0] = base
  <2>1. 1..0 = {} /\ 0 \in 0..N
    OBVIOUS
  <2>2. g[1..0] = base
    BY <1>3, <2>1, Zenon
  <2> QED
    BY <2>1, <2>2
<1>6. ASSUME NEW n \in 1..N PROVE f[n] = T[n][f[n - 1]]
  <2>1. n \in 0..N /\ n - 1 \in 0..N /\ n \in Nat \ {0} /\ n \in 1..n
    OBVIOUS
  <2>2. (1..n) \ {n} = 1..(n - 1)
    OBVIOUS
  <2>3. g[1..n] = T[n][g[1..(n - 1)]]
    BY <1>3, <2>1, <2>2, MaxOfInterval, Zenon
  <2> QED
    BY <2>1, <2>3
<1>7. IsRecurrence(f, N, base, T)
  BY <1>5, <1>6 DEF IsRecurrence
<1> HIDE DEF f
<1> QED
  BY <1>4, <1>7

(* The equations that the recursive functions inside ParseConfig,          *)
(* AllowedPorts and FlattenSeq are chosen by.                              *)
IsParse(g) ==
    g = [s \in SUBSET (DOMAIN config) |->
            IF s = {} THEN <<>>
            ELSE IF Accepted(config[Max(s)])
                 THEN Append(g[s \ {Max(s)}], config[Max(s)]) ELSE g[s \ {Max(s)}]]

(* ParseConfig is the chosen fold, on all indices.                         *)
LEMMA ParseUnfolds == ParseConfig = (CHOOSE g : IsParse(g))[DOMAIN config]
BY DEF ParseConfig, FoldLeft, MapThenFoldSet, IsParse

IsAllow(g, ranges, count) ==
    g = [s \in SUBSET (DOMAIN ranges) |->
            IF s = {} THEN <<>>
            ELSE IF Len(g[s \ {Max(s)}]) >= count THEN g[s \ {Max(s)}]
                 ELSE g[s \ {Max(s)}] \o Span(ranges[Max(s)], count)]

(* So are the ports of AllowedPorts before the last cut.                   *)
LEMMA AllowUnfolds ==
    ASSUME NEW ranges, NEW count
    PROVE  AllowedPorts(ranges, count) =
               LET ports == (CHOOSE g : IsAllow(g, ranges, count))[DOMAIN ranges]
               IN  IF Len(ports) > count THEN SubSeq(ports, 1, count) ELSE ports
BY DEF AllowedPorts, FoldLeft, MapThenFoldSet, IsAllow

IsFlat(f, seqs) ==
    f = [i \in 1..Len(seqs) |-> IF i = 1 THEN seqs[i] ELSE f[i - 1] \o seqs[i]]

(* FlattenSeq of a sequence that is not empty is the last value of its     *)
(* function.                                                               *)
LEMMA FlatUnfolds ==
    ASSUME NEW seqs, Len(seqs) # 0
    PROVE  FlattenSeq(seqs) = (CHOOSE f : IsFlat(f, seqs))[Len(seqs)]
BY DEF FlattenSeq, IsFlat

(* Max of a set of indices is one of them.                                 *)
LEMMA MaxIsIn ==
    ASSUME NEW N \in Nat, NEW s \in SUBSET (1..N), s # {}
    PROVE  Max(s) \in s
<1> DEFINE S == {n \in 0..N : \A t \in SUBSET (1..n) : t # {} => Max(t) \in t}
<1>1. 0 \in S
  <2>1. 1..0 = {} /\ 0 \in 0..N
    OBVIOUS
  <2> QED
    BY <2>1
<1>2. ASSUME NEW n \in 0..(N - 1), n \in S PROVE n + 1 \in S
  <2> SUFFICES ASSUME NEW t \in SUBSET (1..(n + 1)), t # {} PROVE Max(t) \in t
    OBVIOUS
  <2>1. CASE n + 1 \in t
    <3>1. \A y \in t : n + 1 >= y
      OBVIOUS
    <3> QED
      BY <2>1, <3>1 DEF Max
  <2>2. CASE n + 1 \notin t
    <3>1. t \in SUBSET (1..n)
      BY <2>2
    <3> QED
      BY <3>1, <1>2
  <2> QED
    BY <2>1, <2>2
<1>3. N \in S
  <2>1. N \in 0..N
    OBVIOUS
  <2> HIDE DEF S
  <2> QED
    BY <1>1, <1>2, <2>1, Induction
<1> QED
  BY <1>3

(* What the equation of a fold says of 1..n needs these.                   *)
LEMMA Intervals ==
    ASSUME NEW N \in Nat
    PROVE  /\ 1..0 = {} /\ 1..0 \in SUBSET (1..N)
           /\ \A n \in 1..N : /\ 1..n # {} /\ 1..n \in SUBSET (1..N)
                              /\ Max(1..n) = n /\ (1..n) \ {n} = 1..(n - 1)
<1>1. 1..0 = {}
  OBVIOUS
<1>2. ASSUME NEW n \in 1..N
      PROVE  n \in 1..n /\ 1..n \in SUBSET (1..N) /\ (1..n) \ {n} = 1..(n - 1) /\ n \in Nat \ {0}
  OBVIOUS
<1>3. ASSUME NEW n \in 1..N PROVE Max(1..n) = n
  BY <1>2, MaxOfInterval
<1> QED
  BY <1>1, <1>2, <1>3

(* The lines parse_config keeps.                                           *)
Accepts == {line \in Line : Accepted(line)}

(* The loop of parse_config, line by line: kept[n] is what it has kept     *)
(* after the first n lines.                                                *)
LEMMA ParseSteps ==
    ASSUME config \in Seq(Line)
    PROVE  \E kept : /\ kept[0] = <<>>
                     /\ \A n \in 1..Len(config) :
                           kept[n] = IF Accepted(config[n]) THEN Append(kept[n - 1], config[n])
                                     ELSE kept[n - 1]
                     /\ ParseConfig = kept[Len(config)]
<1> DEFINE N == Len(config)
           V == Seq(Accepts)
           T == [n \in 1..N |->
                    [v \in V |-> IF Accepted(config[n]) THEN Append(v, config[n]) ELSE v]]
<1>1. N \in Nat /\ DOMAIN config = 1..N /\ \A n \in 1..N : config[n] \in Line
  OBVIOUS
<1>2. T \in [1..N -> [V -> V]] /\ <<>> \in V
  <2>1. ASSUME NEW n \in 1..N, NEW v \in V
        PROVE  (IF Accepted(config[n]) THEN Append(v, config[n]) ELSE v) \in V
    <3>1. Accepted(config[n]) => config[n] \in Accepts
      BY <1>1 DEF Accepts
    <3> QED
      BY <3>1
  <2> HIDE DEF V
  <2>2. T \in [1..N -> [V -> V]]
    BY <2>1
  <2> QED
    BY <2>2 DEF V
<1>3. PICK h \in [SUBSET (1..N) -> V] : IsFold(h, N, <<>>, T)
  <2> HIDE DEF N, V, T
  <2> QED
    BY <1>1, <1>2, FoldExists
<1>4. IsParse(h)
  <2>1. ASSUME NEW s \in SUBSET (1..N)
        PROVE  h[s] = IF s = {} THEN <<>>
                      ELSE IF Accepted(config[Max(s)])
                           THEN Append(h[s \ {Max(s)}], config[Max(s)]) ELSE h[s \ {Max(s)}]
    <3>1. h[s] = IF s = {} THEN <<>> ELSE T[Max(s)][h[s \ {Max(s)}]]
      BY <1>3, Zenon DEF IsFold
    <3>2. CASE s # {}
      <4>1. Max(s) \in 1..N
        BY <1>1, <3>2, MaxIsIn
      <4>2. h[s \ {Max(s)}] \in V
        <5>1. s \ {Max(s)} \in SUBSET (1..N)
          OBVIOUS
        <5> HIDE DEF V
        <5> QED
          BY <5>1, <1>3
      <4> HIDE DEF V
      <4> QED
        BY <3>1, <3>2, <4>1, <4>2
    <3> QED
      BY <3>1, <3>2
  <2> HIDE DEF N, V, T
  <2> QED
    BY <1>1, <1>3, <2>1, Zenon DEF IsParse
<1> DEFINE g == CHOOSE x : IsParse(x)
           kept == [n \in 0..N |-> g[1..n]]
<1>5. IsParse(g)
  BY <1>4, Zenon
<1> HIDE DEF g
<1>6. \A s \in SUBSET (1..N) :
          g[s] = IF s = {} THEN <<>>
                 ELSE IF Accepted(config[Max(s)])
                      THEN Append(g[s \ {Max(s)}], config[Max(s)]) ELSE g[s \ {Max(s)}]
  BY <1>1, <1>5, Zenon DEF IsParse
<1>7. kept[0] = <<>>
  <2>1. 0 \in 0..N /\ 1..0 = {} /\ 1..0 \in SUBSET (1..N)
    BY <1>1
  <2>2. g[1..0] = <<>>
    BY <1>6, <2>1, Zenon
  <2> QED
    BY <2>1, <2>2
<1>8. ASSUME NEW n \in 1..N
      PROVE  kept[n] = IF Accepted(config[n]) THEN Append(kept[n - 1], config[n]) ELSE kept[n - 1]
  <2>1. n \in 0..N /\ n - 1 \in 0..N
    BY <1>1
  <2>2. 1..n # {} /\ 1..n \in SUBSET (1..N) /\ Max(1..n) = n /\ (1..n) \ {n} = 1..(n - 1)
    BY <1>1, Intervals
  <2>3. g[1..n] = IF Accepted(config[n]) THEN Append(g[1..(n - 1)], config[n])
                  ELSE g[1..(n - 1)]
    BY <1>6, <2>2, Zenon
  <2>4. kept[n] = g[1..n] /\ kept[n - 1] = g[1..(n - 1)]
    BY <2>1
  <2> QED
    BY <2>3, <2>4, Zenon
<1>9. ParseConfig = kept[N]
  <2>1. N \in 0..N
    BY <1>1
  <2>2. kept[N] = g[1..N]
    BY <2>1
  <2> QED
    BY <2>2, <1>1, ParseUnfolds, Zenon DEF g
<1> QED
  BY <1>7, <1>8, <1>9

(* Sequences of ports, repetitions allowed.                                *)
Ports == Seq(Nat)

(* The cut inside a range loses nothing that was asked for: what the loop  *)
(* adds is the beginning of the range, and the whole of it unless it       *)
(* already has as many ports as were asked for.                            *)
LEMMA SpanIsPorts ==
    ASSUME NEW rng \in Accepts, NEW count \in Nat
    PROVE  /\ Span(rng, count) \in Ports /\ PortsOf(rng) \in Ports
           /\ Len(Span(rng, count)) <= Len(PortsOf(rng))
           /\ \A i \in 1..Len(Span(rng, count)) : Span(rng, count)[i] = PortsOf(rng)[i]
           /\ Len(Span(rng, count)) < Len(PortsOf(rng)) => Len(Span(rng, count)) >= count
<1> DEFINE a == Start(rng)
           b == End(rng)
           last == IF b <= a + count THEN b ELSE a + count
<1>1. a \in Nat /\ b \in Nat /\ a <= b
  BY AcceptedIsRange, EndpointsAssumption DEF Accepts, Port
<1>2. rng # <<>>
  BY DEF Accepts, Accepted
<1>3. Span(rng, count) = [i \in 1..(last - a + 1) |-> a + i - 1]
  BY DEF Span
<1>4. PortsOf(rng) = [i \in 1..(b - a + 1) |-> a + i - 1]
  BY <1>2 DEF PortsOf
<1> HIDE DEF a, b
<1>5. last \in Nat /\ a <= last /\ last <= b /\ (last < b => last = a + count)
  BY <1>1
<1> HIDE DEF last
<1>6. ASSUME NEW n \in Nat
      PROVE  /\ [i \in 1..n |-> a + i - 1] \in Ports
             /\ Len([i \in 1..n |-> a + i - 1]) = n
  <2>1. \A i \in 1..n : a + i - 1 \in Nat
    BY <1>1
  <2> QED
    BY <2>1 DEF Ports
<1>7. last - a + 1 \in Nat /\ b - a + 1 \in Nat /\ last - a + 1 <= b - a + 1
  BY <1>1, <1>5
<1>8. 1..(last - a + 1) \subseteq 1..(b - a + 1)
  BY <1>7
<1>9. /\ Span(rng, count) \in Ports /\ PortsOf(rng) \in Ports
      /\ Len(Span(rng, count)) = last - a + 1 /\ Len(PortsOf(rng)) = b - a + 1
  BY <1>3, <1>4, <1>6, <1>7
<1>10. \A i \in 1..(last - a + 1) : Span(rng, count)[i] = PortsOf(rng)[i]
  BY <1>3, <1>4, <1>8
<1>11. last - a + 1 < b - a + 1 => last - a + 1 >= count
  BY <1>1, <1>5
<1> QED
  BY <1>7, <1>9, <1>10, <1>11

(* The loop of the ports command, range by range: sofar[n] is what it has  *)
(* after the first n ranges.                                               *)
LEMMA AllowSteps ==
    ASSUME NEW ranges \in Seq(Accepts), NEW count \in Nat
    PROVE  \E sofar :
               /\ sofar[0] = <<>>
               /\ \A n \in 1..Len(ranges) :
                     sofar[n] = IF Len(sofar[n - 1]) >= count THEN sofar[n - 1]
                                ELSE sofar[n - 1] \o Span(ranges[n], count)
               /\ AllowedPorts(ranges, count) =
                     LET ports == sofar[Len(ranges)]
                     IN  IF Len(ports) > count THEN SubSeq(ports, 1, count) ELSE ports
<1> DEFINE N == Len(ranges)
           T == [n \in 1..N |->
                    [v \in Ports |-> IF Len(v) >= count THEN v ELSE v \o Span(ranges[n], count)]]
<1>1. N \in Nat /\ DOMAIN ranges = 1..N /\ \A n \in 1..N : ranges[n] \in Accepts
  OBVIOUS
<1>2. T \in [1..N -> [Ports -> Ports]] /\ <<>> \in Ports
  <2>1. ASSUME NEW n \in 1..N, NEW v \in Ports
        PROVE  (IF Len(v) >= count THEN v ELSE v \o Span(ranges[n], count)) \in Ports
    <3>1. Span(ranges[n], count) \in Ports
      BY <1>1, SpanIsPorts
    <3> QED
      BY <3>1 DEF Ports
  <2>2. T \in [1..N -> [Ports -> Ports]]
    BY <2>1
  <2> QED
    BY <2>2 DEF Ports
<1>3. PICK h \in [SUBSET (1..N) -> Ports] : IsFold(h, N, <<>>, T)
  <2> HIDE DEF N, T
  <2> QED
    BY <1>1, <1>2, FoldExists
<1>4. IsAllow(h, ranges, count)
  <2>1. ASSUME NEW s \in SUBSET (1..N)
        PROVE  h[s] = IF s = {} THEN <<>>
                      ELSE IF Len(h[s \ {Max(s)}]) >= count THEN h[s \ {Max(s)}]
                           ELSE h[s \ {Max(s)}] \o Span(ranges[Max(s)], count)
    <3>1. h[s] = IF s = {} THEN <<>> ELSE T[Max(s)][h[s \ {Max(s)}]]
      BY <1>3, Zenon DEF IsFold
    <3>2. CASE s # {}
      <4>1. Max(s) \in 1..N
        BY <1>1, <3>2, MaxIsIn
      <4>2. h[s \ {Max(s)}] \in Ports
        <5>1. s \ {Max(s)} \in SUBSET (1..N)
          OBVIOUS
        <5> QED
          BY <5>1, <1>3
      <4> QED
        BY <3>1, <3>2, <4>1, <4>2
    <3> QED
      BY <3>1, <3>2
  <2> HIDE DEF N, T
  <2> QED
    BY <1>1, <1>3, <2>1, Zenon DEF IsAllow
<1> DEFINE g == CHOOSE x : IsAllow(x, ranges, count)
           sofar == [n \in 0..N |-> g[1..n]]
<1>5. IsAllow(g, ranges, count)
  BY <1>4, Zenon
<1> HIDE DEF g
<1>6. \A s \in SUBSET (1..N) :
          g[s] = IF s = {} THEN <<>>
                 ELSE IF Len(g[s \ {Max(s)}]) >= count THEN g[s \ {Max(s)}]
                      ELSE g[s \ {Max(s)}] \o Span(ranges[Max(s)], count)
  BY <1>1, <1>5, Zenon DEF IsAllow
<1>7. sofar[0] = <<>>
  <2>1. 0 \in 0..N /\ 1..0 = {} /\ 1..0 \in SUBSET (1..N)
    BY <1>1
  <2>2. g[1..0] = <<>>
    BY <1>6, <2>1, Zenon
  <2> QED
    BY <2>1, <2>2
<1>8. ASSUME NEW n \in 1..N
      PROVE  sofar[n] = IF Len(sofar[n - 1]) >= count THEN sofar[n - 1]
                        ELSE sofar[n - 1] \o Span(ranges[n], count)
  <2>1. n \in 0..N /\ n - 1 \in 0..N
    BY <1>1
  <2>2. 1..n # {} /\ 1..n \in SUBSET (1..N) /\ Max(1..n) = n /\ (1..n) \ {n} = 1..(n - 1)
    BY <1>1, Intervals
  <2>3. g[1..n] = IF Len(g[1..(n - 1)]) >= count THEN g[1..(n - 1)]
                  ELSE g[1..(n - 1)] \o Span(ranges[n], count)
    BY <1>6, <2>2, Zenon
  <2>4. sofar[n] = g[1..n] /\ sofar[n - 1] = g[1..(n - 1)]
    BY <2>1
  <2> QED
    BY <2>3, <2>4, Zenon
<1>9. AllowedPorts(ranges, count) =
          LET ports == sofar[N] IN IF Len(ports) > count THEN SubSeq(ports, 1, count) ELSE ports
  <2>1. N \in 0..N
    BY <1>1
  <2>2. sofar[N] = g[1..N]
    BY <2>1
  <2>3. AllowedPorts(ranges, count) =
            LET ports == g[1..N] IN IF Len(ports) > count THEN SubSeq(ports, 1, count) ELSE ports
    BY <1>1, AllowUnfolds DEF g
  <2> HIDE DEF sofar, N
  <2> QED
    BY <2>2, <2>3, Zenon
<1> HIDE DEF sofar, N
<1> QED
  BY <1>7, <1>8, <1>9, Zenon DEF N

(* The ports of the first n ranges, for each n.                            *)
LEMMA FlatSteps ==
    ASSUME NEW N \in Nat, NEW seqs \in [1..N -> Ports]
    PROVE  \E all : /\ all[0] = <<>>
                    /\ \A n \in 1..N : all[n] = all[n - 1] \o seqs[n]
                    /\ all \in [0..N -> Ports]
                    /\ FlattenSeq(seqs) = all[N]
<1> DEFINE T == [n \in 1..N |-> [v \in Ports |-> v \o seqs[n]]]
<1>1. T \in [1..N -> [Ports -> Ports]] /\ <<>> \in Ports
  <2>1. ASSUME NEW n \in 1..N, NEW v \in Ports PROVE v \o seqs[n] \in Ports
    BY DEF Ports
  <2> QED
    BY <2>1 DEF Ports
<1>2. Len(seqs) = N /\ (N = 0 => seqs = <<>>)
  OBVIOUS
<1>3. PICK f \in [0..N -> Ports] : f[0] = <<>> /\ \A n \in 1..N : f[n] = T[n][f[n - 1]]
  <2> HIDE DEF T
  <2>1. PICK f \in [0..N -> Ports] : IsRecurrence(f, N, <<>>, T)
    BY <1>1, Recurrence
  <2> QED
    BY <2>1 DEF IsRecurrence
<1>4. ASSUME NEW n \in 1..N PROVE n - 1 \in 0..N /\ f[n] = f[n - 1] \o seqs[n]
  <2>1. n - 1 \in 0..N /\ f[n - 1] \in Ports
    OBVIOUS
  <2> QED
    BY <1>3, <2>1
<1> HIDE DEF T
<1>5. CASE N = 0
  BY <1>2, <1>3, <1>5 DEF FlattenSeq
<1>6. CASE N # 0
  <2> DEFINE F == CHOOSE x : IsFlat(x, seqs)
             S == {n \in 0..N : n # 0 => F[n] = f[n]}
             r == [i \in 1..N |-> f[i]]
  <2>1. r = [i \in 1..N |-> IF i = 1 THEN seqs[i] ELSE r[i - 1] \o seqs[i]]
    <3>1. ASSUME NEW i \in 1..N PROVE r[i] = IF i = 1 THEN seqs[i] ELSE r[i - 1] \o seqs[i]
      <4>1. CASE i = 1
        <5>1. seqs[1] \in Seq(Nat)
          BY <4>1 DEF Ports
        <5>2. f[1] = <<>> \o seqs[1]
          <6>1. 1 \in 1..N /\ 1 - 1 = 0
            BY <4>1
          <6>2. f[1] = f[1 - 1] \o seqs[1]
            BY <6>1, <1>4
          <6> QED
            BY <6>1, <6>2, <1>3
        <5>3. f[1] = seqs[1]
          BY <5>1, <5>2
        <5> QED
          BY <4>1, <5>3
      <4>2. CASE i # 1
        <5>1. i - 1 \in 1..N
          BY <4>2
        <5> QED
          BY <4>2, <5>1, <1>4
      <4> QED
        BY <4>1, <4>2
    <3> QED
      BY <3>1
  <2>2. IsFlat(r, seqs)
    <3> HIDE DEF r
    <3> QED
      BY <1>2, <2>1, Zenon DEF IsFlat
  <2>3. IsFlat(F, seqs)
    <3> HIDE DEF r
    <3> QED
      BY <2>2, Zenon
  <2> HIDE DEF F, r
  <2>4. \A i \in 1..N : F[i] = IF i = 1 THEN seqs[i] ELSE F[i - 1] \o seqs[i]
    BY <1>2, <2>3, Zenon DEF IsFlat
  <2>5. 0 \in S
    OBVIOUS
  <2>6. ASSUME NEW n \in 0..(N - 1), n \in S PROVE n + 1 \in S
    <3>1. n + 1 \in 1..N /\ (n + 1) - 1 = n /\ n + 1 \in 0..N
      OBVIOUS
    <3>2. CASE n = 0
      <4>1. 1 \in 1..N /\ seqs[1] \in Seq(Nat)
        BY <3>1, <3>2 DEF Ports
      <4>2. f[1] = <<>> \o seqs[1]
        <5>1. 1 - 1 = 0
          OBVIOUS
        <5>2. f[1] = f[1 - 1] \o seqs[1]
          BY <4>1, <1>4
        <5> QED
          BY <5>1, <5>2, <1>3
      <4>3. f[1] = seqs[1] /\ F[1] = seqs[1]
        BY <4>1, <4>2, <2>4
      <4> QED
        BY <3>1, <3>2, <4>3
    <3>3. CASE n # 0
      <4>1. F[n] = f[n] /\ n + 1 # 1
        BY <2>6, <3>3
      <4>2. F[n + 1] = F[n] \o seqs[n + 1] /\ f[n + 1] = f[n] \o seqs[n + 1]
        BY <3>1, <4>1, <2>4, <1>4
      <4> QED
        BY <3>1, <4>1, <4>2
    <3> QED
      BY <3>2, <3>3
  <2>7. \A n \in 0..N : n \in S
    <3> HIDE DEF S
    <3> QED
      BY <2>5, <2>6, Induction
  <2>8. F[N] = f[N]
    BY <2>7, <1>6
  <2>9. FlattenSeq(seqs) = F[N]
    BY <1>2, <1>6, FlatUnfolds DEF F
  <2> QED
    BY <1>3, <1>4, <2>8, <2>9
<1> QED
  BY <1>5, <1>6

(* What is parsed are accepted lines, and every accepted line is parsed.   *)
LEMMA ParseIs ==
    ASSUME config \in Seq(Line)
    PROVE  /\ ParseConfig \in Seq(Accepts)
           /\ \A j \in DOMAIN config :
                 Accepted(config[j]) => \E i \in DOMAIN ParseConfig : ParseConfig[i] = config[j]
<1> DEFINE N == Len(config)
<1>1. N \in Nat /\ DOMAIN config = 1..N /\ \A n \in 1..N : config[n] \in Line
  OBVIOUS
<1>2. PICK kept : /\ kept[0] = <<>>
                  /\ \A n \in 1..N : kept[n] = IF Accepted(config[n])
                                               THEN Append(kept[n - 1], config[n])
                                               ELSE kept[n - 1]
                  /\ ParseConfig = kept[N]
  BY ParseSteps
<1> HIDE DEF N
<1> DEFINE Has(n) == \A j \in 1..n :
                        Accepted(config[j]) => \E i \in DOMAIN kept[n] : kept[n][i] = config[j]
           S == {n \in 0..N : kept[n] \in Seq(Accepts) /\ Has(n)}
<1>3. 0 \in S
  <2>1. 0 \in 0..N /\ kept[0] \in Seq(Accepts)
    BY <1>1, <1>2
  <2> QED
    BY <2>1
<1>4. ASSUME NEW n \in 0..(N - 1), n \in S PROVE n + 1 \in S
  <2>1. n + 1 \in 1..N /\ n + 1 \in 0..N /\ (n + 1) - 1 = n /\ n \in Nat
    BY <1>1
  <2>2. kept[n + 1] = IF Accepted(config[n + 1]) THEN Append(kept[n], config[n + 1]) ELSE kept[n]
    BY <1>2, <2>1
  <2>3. kept[n] \in Seq(Accepts) /\ Has(n)
    BY <1>4
  <2>4. CASE Accepted(config[n + 1])
    <3>1. config[n + 1] \in Accepts
      BY <1>1, <2>1, <2>4 DEF Accepts
    <3>2. kept[n + 1] = Append(kept[n], config[n + 1])
      BY <2>2, <2>4
    <3>3. /\ kept[n + 1] \in Seq(Accepts) /\ Len(kept[n]) \in Nat
          /\ DOMAIN kept[n] = 1..Len(kept[n])
          /\ DOMAIN kept[n + 1] = 1..(Len(kept[n]) + 1)
          /\ kept[n + 1][Len(kept[n]) + 1] = config[n + 1]
          /\ \A i \in 1..Len(kept[n]) : kept[n + 1][i] = kept[n][i]
      BY <2>3, <3>1, <3>2
    <3>4. ASSUME NEW j \in 1..(n + 1), Accepted(config[j])
          PROVE  \E i \in DOMAIN kept[n + 1] : kept[n + 1][i] = config[j]
      <4>1. CASE j = n + 1
        <5>1. Len(kept[n]) + 1 \in DOMAIN kept[n + 1]
          BY <3>3
        <5> QED
          BY <3>3, <4>1, <5>1
      <4>2. CASE j # n + 1
        <5>1. j \in 1..n
          BY <4>2, <2>1
        <5>2. PICK i \in DOMAIN kept[n] : kept[n][i] = config[j]
          BY <2>3, <3>4, <5>1
        <5>3. i \in DOMAIN kept[n + 1] /\ kept[n + 1][i] = kept[n][i]
          BY <3>3
        <5> QED
          BY <5>2, <5>3
      <4> QED
        BY <4>1, <4>2
    <3>5. Has(n + 1)
      BY <3>4
    <3> HIDE DEF Has
    <3> QED
      BY <2>1, <3>3, <3>5
  <2>5. CASE ~Accepted(config[n + 1])
    <3>1. kept[n + 1] = kept[n]
      BY <2>2, <2>5
    <3>2. ASSUME NEW j \in 1..(n + 1), Accepted(config[j]) PROVE j \in 1..n
      <4>1. j # n + 1
        BY <2>5, <3>2
      <4> QED
        BY <4>1, <2>1
    <3>3. Has(n + 1)
      BY <2>3, <3>1, <3>2
    <3> HIDE DEF Has
    <3> QED
      BY <2>1, <2>3, <3>1, <3>3
  <2> QED
    BY <2>4, <2>5
<1>5. \A n \in 0..N : n \in S
  <2> HIDE DEF S
  <2> QED
    BY <1>1, <1>3, <1>4, Induction
<1>6. kept[N] \in Seq(Accepts) /\ Has(N)
  <2>1. N \in S
    BY <1>1, <1>5
  <2> QED
    BY <2>1
<1> QED
  BY <1>1, <1>2, <1>6

(* The loop that stops early and cuts inside a range gives the beginning   *)
(* of all the ports of the ranges. *)
LEMMA AllowedIsFirst ==
    ASSUME NEW ranges \in Seq(Accepts), NEW count \in Nat, NEW all,
           all = FlattenSeq([i \in DOMAIN ranges |-> PortsOf(ranges[i])])
    PROVE  /\ all \in Ports /\ (ranges = <<>> => all = <<>>)
           /\ AllowedPorts(ranges, count) =
                 IF count <= Len(all) THEN SubSeq(all, 1, count) ELSE all
<1> DEFINE N == Len(ranges)
           seqs == [i \in 1..N |-> PortsOf(ranges[i])]
<1>1. N \in Nat /\ DOMAIN ranges = 1..N /\ \A n \in 1..N : ranges[n] \in Accepts
  OBVIOUS
<1>2. ASSUME NEW n \in 1..N
      PROVE  /\ Span(ranges[n], count) \in Ports /\ PortsOf(ranges[n]) \in Ports
             /\ Len(Span(ranges[n], count)) <= Len(PortsOf(ranges[n]))
             /\ \A i \in 1..Len(Span(ranges[n], count)) :
                   Span(ranges[n], count)[i] = PortsOf(ranges[n])[i]
             /\ Len(Span(ranges[n], count)) < Len(PortsOf(ranges[n])) =>
                   Len(Span(ranges[n], count)) >= count
  BY <1>1, SpanIsPorts
<1>3. PICK sofar : /\ sofar[0] = <<>>
                   /\ \A n \in 1..N :
                         sofar[n] = IF Len(sofar[n - 1]) >= count THEN sofar[n - 1]
                                    ELSE sofar[n - 1] \o Span(ranges[n], count)
                   /\ AllowedPorts(ranges, count) =
                         LET ports == sofar[N]
                         IN  IF Len(ports) > count THEN SubSeq(ports, 1, count) ELSE ports
  BY AllowSteps
<1>4. seqs \in [1..N -> Ports]
  BY <1>2
<1>5. PICK flat : /\ flat[0] = <<>>
                  /\ \A n \in 1..N : flat[n] = flat[n - 1] \o seqs[n]
                  /\ flat \in [0..N -> Ports]
                  /\ FlattenSeq(seqs) = flat[N]
  <2> HIDE DEF seqs, N
  <2> QED
    BY <1>1, <1>4, FlatSteps
<1>6. all = flat[N]
  BY <1>1, <1>5
<1>7. \A n \in 1..N : flat[n] = flat[n - 1] \o PortsOf(ranges[n])
  BY <1>5
<1> HIDE DEF seqs, N
<1> DEFINE Begins(n) == /\ Len(sofar[n]) <= Len(flat[n])
                        /\ \A i \in 1..Len(sofar[n]) : sofar[n][i] = flat[n][i]
           S == {n \in 0..N : /\ sofar[n] \in Ports /\ Begins(n)
                              /\ Len(sofar[n]) < count => sofar[n] = flat[n]}
<1>8. 0 \in S
  <2>1. 0 \in 0..N /\ sofar[0] \in Ports /\ sofar[0] = flat[0] /\ Len(sofar[0]) \in Nat
    BY <1>1, <1>3, <1>5 DEF Ports
  <2> QED
    BY <2>1
<1>9. ASSUME NEW n \in 0..(N - 1), n \in S PROVE n + 1 \in S
  <2> DEFINE span == Span(ranges[n + 1], count)
             ports == PortsOf(ranges[n + 1])
  <2>1. n + 1 \in 1..N /\ n + 1 \in 0..N /\ (n + 1) - 1 = n /\ n \in 0..N
    BY <1>1
  <2>2. sofar[n + 1] = IF Len(sofar[n]) >= count THEN sofar[n] ELSE sofar[n] \o span
    BY <1>3, <2>1
  <2>3. flat[n + 1] = flat[n] \o ports
    BY <1>7, <2>1
  <2>4. /\ sofar[n] \in Ports /\ Begins(n)
        /\ Len(sofar[n]) < count => sofar[n] = flat[n]
    BY <1>9
  <2>5. flat[n] \in Ports
    BY <1>5, <2>1
  <2>6. /\ span \in Ports /\ ports \in Ports /\ Len(span) <= Len(ports)
        /\ \A i \in 1..Len(span) : span[i] = ports[i]
        /\ Len(span) < Len(ports) => Len(span) >= count
    BY <1>2, <2>1
  <2> HIDE DEF span, ports
  <2>7. ASSUME NEW s \in Ports, NEW t \in Ports
        PROVE  /\ s \o t \in Ports /\ Len(s \o t) = Len(s) + Len(t)
               /\ \A i \in 1..Len(s) : (s \o t)[i] = s[i]
               /\ \A i \in 1..Len(t) : (s \o t)[Len(s) + i] = t[i]
               /\ Len(s) \in Nat /\ Len(t) \in Nat
    BY DEF Ports
  <2>8. \A i \in 1..Len(flat[n]) :
           (flat[n] \o ports)[i] = flat[n][i] /\ (flat[n] \o span)[i] = flat[n][i]
    BY ONLY <2>5, <2>6, <2>7
  <2>9. /\ \A i \in 1..Len(span) : (flat[n] \o span)[Len(flat[n]) + i] = span[i]
        /\ \A i \in 1..Len(ports) : (flat[n] \o ports)[Len(flat[n]) + i] = ports[i]
    BY ONLY <2>5, <2>6, <2>7
  <2>10. CASE Len(sofar[n]) >= count
    <3>1. sofar[n + 1] = sofar[n]
      BY <2>2, <2>10
    <3>2. Begins(n + 1)
      <4>1. /\ Len(flat[n + 1]) = Len(flat[n]) + Len(ports)
            /\ Len(ports) \in Nat /\ Len(flat[n]) \in Nat
        BY <2>3, <2>5, <2>6, <2>7
      <4>2. \A i \in 1..Len(flat[n]) : flat[n + 1][i] = flat[n][i]
        BY <2>3, <2>8
      <4>3. Len(sofar[n]) \in Nat
        BY <2>4 DEF Ports
      <4> QED
        BY <3>1, <4>1, <4>2, <4>3, <2>4
    <3>3. ~(Len(sofar[n + 1]) < count)
      BY <3>1, <2>4, <2>10 DEF Ports
    <3> HIDE DEF Begins
    <3> QED
      BY <2>1, <2>4, <3>1, <3>2, <3>3
  <2>11. CASE ~(Len(sofar[n]) >= count)
    <3>1. Len(sofar[n]) < count /\ Len(sofar[n]) \in Nat
      BY <2>4, <2>11 DEF Ports
    <3>2. sofar[n + 1] = flat[n] \o span
      BY <2>2, <2>4, <2>11, <3>1
    <3>3. /\ sofar[n + 1] \in Ports
          /\ Len(sofar[n + 1]) = Len(flat[n]) + Len(span)
          /\ Len(flat[n + 1]) = Len(flat[n]) + Len(ports)
          /\ Len(flat[n]) \in Nat /\ Len(span) \in Nat /\ Len(ports) \in Nat
      <4>1. /\ flat[n] \o span \in Ports /\ Len(flat[n] \o span) = Len(flat[n]) + Len(span)
            /\ Len(flat[n]) \in Nat /\ Len(span) \in Nat
        BY ONLY <2>5, <2>6, <2>7
      <4>2. Len(flat[n] \o ports) = Len(flat[n]) + Len(ports) /\ Len(ports) \in Nat
        BY ONLY <2>5, <2>6, <2>7
      <4> QED
        BY <2>3, <3>2, <4>1, <4>2
    <3>4. ASSUME NEW i \in 1..Len(sofar[n + 1]) PROVE sofar[n + 1][i] = flat[n + 1][i]
      <4>1. CASE i <= Len(flat[n])
        <5>1. i \in 1..Len(flat[n])
          BY <3>3, <4>1
        <5> QED
          BY <5>1, <2>3, <2>8, <3>2
      <4>2. CASE ~(i <= Len(flat[n]))
        <5> DEFINE k == i - Len(flat[n])
        <5>1. k \in 1..Len(span) /\ k \in 1..Len(ports) /\ i = Len(flat[n]) + k
          BY <3>3, <4>2, <2>6
        <5> HIDE DEF k
        <5>2. sofar[n + 1][i] = span[k]
          BY <5>1, <2>9, <3>2
        <5>3. flat[n + 1][i] = ports[k]
          BY <5>1, <2>9, <2>3
        <5> QED
          BY <5>1, <5>2, <5>3, <2>6
      <4> QED
        BY <4>1, <4>2
    <3>5. Begins(n + 1)
      <4>1. Len(sofar[n + 1]) <= Len(flat[n + 1])
        BY <2>6, <3>3
      <4> QED
        BY ONLY <4>1, <3>4
    <3>6. ASSUME Len(sofar[n + 1]) < count PROVE sofar[n + 1] = flat[n + 1]
      <4>1. Len(span) = Len(ports)
        BY <3>3, <3>6, <2>6
      <4>2. span = ports
        BY <4>1, <2>6, SeqEqual DEF Ports
      <4> QED
        BY <4>2, <2>3, <3>2
    <3> HIDE DEF Begins
    <3> QED
      BY <2>1, <3>3, <3>5, <3>6
  <2> QED
    BY <2>10, <2>11
<1>10. \A n \in 0..N : n \in S
  <2> HIDE DEF S
  <2> QED
    BY <1>1, <1>8, <1>9, Induction
<1>11. /\ sofar[N] \in Ports /\ Begins(N)
       /\ Len(sofar[N]) < count => sofar[N] = flat[N]
  <2>1. N \in S
    BY <1>1, <1>10
  <2> QED
    BY <2>1
<1>12. all \in Ports
  BY <1>1, <1>5, <1>6
<1>13. ranges = <<>> => all = <<>>
  <2>1. ranges = <<>> => N = 0
    BY DEF N
  <2> QED
    BY <2>1, <1>5, <1>6
<1>14. Len(sofar[N]) \in Nat /\ Len(all) \in Nat
  BY <1>11, <1>12 DEF Ports
<1>15. CASE Len(sofar[N]) < count
  BY <1>3, <1>6, <1>11, <1>12, <1>13, <1>14, <1>15
<1>16. CASE ~(Len(sofar[N]) < count)
  <2>1. count <= Len(sofar[N]) /\ count <= Len(all)
    BY <1>6, <1>11, <1>14, <1>16
  <2>2. SubSeq(sofar[N], 1, count) = SubSeq(all, 1, count)
    <3>1. \A i \in 1..count : sofar[N][i] = all[i]
      BY <1>6, <1>11, <1>14, <2>1
    <3> QED
      BY <3>1, <2>1, <1>11, <1>12, <1>14 DEF Ports
  <2>3. Len(sofar[N]) = count => sofar[N] = SubSeq(sofar[N], 1, count)
    BY <1>11 DEF Ports
  <2>4. AllowedPorts(ranges, count) = SubSeq(all, 1, count)
    BY <1>3, <2>1, <2>2, <2>3, <1>14
  <2> QED
    BY <2>1, <2>4, <1>12, <1>13
<1> QED
  BY <1>15, <1>16

(* A port that a line of the config names is in one of the ranges.         *)
LEMMA AllowedIsInRange ==
    ASSUME config \in Seq(Line), NEW port \in Port, Allows(port)
    PROVE  InRange(port)
<1>1. MIN_PORT \in Nat /\ MAX_PORT \in Nat
  BY EndpointsAssumption
<1>2. PICK i \in DOMAIN config :
          \/ config[i] = <<port>>
          \/ \E a, b \in Port : config[i] = <<a, b>> /\ a <= port /\ port <= b
  BY DEF Allows
<1>3. ASSUME Accepted(config[i]), Start(config[i]) <= port, port <= End(config[i])
      PROVE  InRange(port)
  <2>1. PICK j \in DOMAIN ParseConfig : ParseConfig[j] = config[i]
    BY <1>3, ParseIs
  <2> QED
    BY <1>3, <2>1 DEF InRange
<1>4. CASE config[i] = <<port>>
  <2>1. Len(config[i]) = 1 /\ config[i][1] = port
    BY <1>4
  <2>2. ValidPort(port)
    BY <1>1 DEF ValidPort, Port
  <2> QED
    BY <2>1, <2>2, <1>1, <1>3 DEF Accepted, Start, End, Port
<1>5. ASSUME NEW a \in Port, NEW b \in Port, config[i] = <<a, b>>, a <= port, port <= b
      PROVE  InRange(port)
  <2>1. Len(config[i]) = 2 /\ config[i][1] = a /\ config[i][2] = b
    BY <1>5
  <2>2. ValidPort(a) /\ ValidPort(b) /\ a <= b
    BY <1>1, <1>5 DEF ValidPort, Port
  <2> QED
    BY <2>1, <2>2, <1>3, <1>5 DEF Accepted, Start, End
<1> QED
  BY <1>2, <1>4, <1>5

(* docker publishes on every address or on the gateway's: not on loopback. *)
LEMMA RewrittenIsConflict ==
    ASSUME natRead, NEW r \in nat, Rewritten(r), InRange(r.port)
    PROVE  r \in EndpointConflicts
<1>1. r.bind # "loopback"
  BY DEF Rewritten
<1> QED
  BY <1>1 DEF EndpointConflicts, PublishedPorts

(* A process that would be reached through the gateway is listed by ss.    *)
LEMMA ServedIsListener ==
    ASSUME sockets \subseteq Listener, NEW port, Served(port)
    PROVE  port \in HostListenerPorts
<1>1. PICK l \in sockets :
          l.port = port /\ l.process # "docker-proxy" /\ l.address \notin {"loopback", "other"}
  BY DEF Served
<1>2. l.address \in {"wildcard", "gateway"}
  BY <1>1 DEF Listener
<1> QED
  BY <1>1, <1>2 DEF HostListenerPorts, Reachable

(* A service cut off from its guests is among the shadowed ones.           *)
LEMMA Missed ==
    ASSUME InputType
    PROVE  NothingShadowedIsMissed
<1> SUFFICES ASSUME NEW r \in nat, natRead, Allows(r.port), Rewritten(r), Served(r.port)
             PROVE  r \in FindShadowedEndpoints.shadowing
  BY DEF NothingShadowedIsMissed
<1>1. r.port \in Port
  BY DEF InputType, Rule
<1>2. r \in EndpointConflicts
  BY <1>1, AllowedIsInRange, RewrittenIsConflict DEF InputType
<1>3. r.port \in HostListenerPorts
  BY ServedIsListener DEF InputType
<1>4. CASE ssRead
  BY <1>2, <1>3, <1>4 DEF FindShadowedEndpoints
<1>5. CASE ~ssRead
  BY <1>2, <1>5 DEF FindShadowedEndpoints
<1> QED
  BY <1>4, <1>5

(* The ports command gives the first ports of the config.                  *)
LEMMA First ==
    ASSUME InputType
    PROVE  FirstPorts
<1> SUFFICES ASSUME NEW count \in 1..(MaxLines * MAX_PORT)
             PROVE  PortsCommand(count) =
                       IF count <= Len(AllPorts)
                       THEN [exit |-> 0, out |-> SubSeq(AllPorts, 1, count)]
                       ELSE [exit |-> 1, out |-> <<>>]
  BY DEF FirstPorts
<1> DEFINE ports == AllowedPorts(ParseConfig, count)
<1>1. count \in Nat /\ count >= 1
  BY EndpointsAssumption
<1>2. ParseConfig \in Seq(Accepts)
  BY ParseIs DEF InputType
<1>3. /\ AllPorts \in Ports /\ (ParseConfig = <<>> => AllPorts = <<>>)
      /\ ports = IF count <= Len(AllPorts) THEN SubSeq(AllPorts, 1, count) ELSE AllPorts
  BY <1>1, <1>2, AllowedIsFirst DEF AllPorts
<1>4. PortsCommand(count) = IF ParseConfig = <<>> \/ Len(ports) < count
                            THEN [exit |-> 1, out |-> <<>>] ELSE [exit |-> 0, out |-> ports]
  BY DEF PortsCommand
<1> HIDE DEF ports
<1>5. CASE count <= Len(AllPorts)
  <2>1. ParseConfig # <<>>
    BY <1>1, <1>3, <1>5
  <2>2. ports = SubSeq(AllPorts, 1, count) /\ Len(ports) = count
    BY <1>1, <1>3, <1>5 DEF Ports
  <2> QED
    BY <1>1, <1>4, <1>5, <2>1, <2>2
<1>6. CASE ~(count <= Len(AllPorts))
  <2>1. Len(ports) < count
    BY <1>1, <1>3, <1>6 DEF Ports
  <2> QED
    BY <1>4, <1>6, <2>1
<1> QED
  BY <1>5, <1>6

(* The types hold at first.                                                *)
LEMMA InitType == Init => InputType
BY EndpointsAssumption DEF Init, InputType

(* They are kept.                                                          *)
LEMMA TypeStep == InputType /\ [Next]_vars => InputType'
<1> SUFFICES ASSUME InputType, [Next]_vars PROVE InputType'
  OBVIOUS
<1>1. CASE AddLine
  <2>1. PICK line \in Line : config' = Append(config, line)
    BY <1>1 DEF AddLine
  <2>2. config' \in Seq(Line) /\ Len(config') = Len(config) + 1 /\ Len(config) \in Nat
    BY <2>1 DEF InputType
  <2>3. Len(config') <= MaxLines
    BY <2>2, <1>1, EndpointsAssumption DEF AddLine
  <2> QED
    BY <2>2, <2>3, <1>1 DEF AddLine, InputType
<1>2. CASE PublishPort
  BY <1>2 DEF PublishPort, InputType
<1>3. CASE Listen
  BY <1>3 DEF Listen, InputType
<1>4. CASE ToolBreaks
  <2>1. natRead' \in BOOLEAN /\ ssRead' \in BOOLEAN
    BY <1>4, Zenon DEF ToolBreaks, InputType
  <2> QED
    BY <2>1, <1>4 DEF ToolBreaks, InputType
<1>5. CASE UNCHANGED vars
  BY <1>5 DEF vars, InputType
<1> QED
  BY <1>1, <1>2, <1>3, <1>4, <1>5 DEF Next

(* Every range the code takes from a config is one that iptables accepts.  *)
THEOREM TypeCorrect == Spec => []TypeOK
<1>1. ASSUME InputType PROVE TypeOK
  <2>1. ParseConfig \in Seq(Accepts)
    BY <1>1, ParseIs DEF InputType
  <2>2. ASSUME NEW i \in DOMAIN ParseConfig
        PROVE  LET rng == ParseConfig[i]
               IN  Start(rng) \in Port /\ End(rng) \in Start(rng)..MAX_PORT
    <3>1. ParseConfig[i] \in Line /\ Accepted(ParseConfig[i])
      BY <2>1 DEF Accepts
    <3> QED
      BY <3>1, AcceptedIsRange
  <2> QED
    BY <1>1, <2>2, Zenon DEF InputType, TypeOK
<1> QED
  BY <1>1, InitType, TypeStep, PTL DEF Spec

(* A service of the host that a container has cut off from the guests is   *)
(* reported, for every config and every set of published ports and         *)
(* listening sockets, as long as the nat table can be read. *)
THEOREM NothingShadowedIsEverMissed == Spec => []NothingShadowedIsMissed
<1> QED
  BY InitType, TypeStep, Missed, PTL DEF Spec

(* However many ports the operator asks for, and however many lines of the *)
(* config repeat or overlap: endpoints.py ports prints the beginning of    *)
(* the ports the config lists, or refuses when it lists fewer. *)
THEOREM FirstPortsAlways == Spec => []FirstPorts
<1> QED
  BY InitType, TypeStep, First, PTL DEF Spec
=============================================================================
