-------------------------- MODULE AuthServerProofs ---------------------------
(***************************************************************************)
(* For any number of connections and any requests on them: as long as the  *)
(* requests of a connection say how long they are, the answers are those   *)
(* of the requests, one to each and in their order.                        *)
(*                                                                         *)
(* The argument is about one connection at a time.  What its client has    *)
(* sent, or is about to send of the request it has begun, is a row of      *)
(* requests whose ends are known; and what is unread of it begins exactly  *)
(* where the handler believes it does.  That is lost in three ways, and    *)
(* none of them lets a wrong answer stand for a request that was framed:   *)
(* behind a request that was not; in one the client will never finish; and *)
(* once the handler has seen the end of the connection.                    *)
(***************************************************************************)
EXTENDS AuthServer, TLAPS, SequenceTheorems

-----------------------------------------------------------------------------
(* The inductive invariant, connection by connection: s are the requests   *)
(* begun, p what is still to be sent of the last, inb what was sent and is *)
(* unread, n the number of answers, at the place of the handler.           *)

(* Request j ends after bounds[j] tokens of all that the client sends.     *)
IsBounds(bounds, s) ==
    /\ \A j \in 1..Len(s) : bounds[j] = bounds[j - 1] + 1 + s[j].body
    /\ \A i, j \in 0..Len(s) : i < j => bounds[i] < bounds[j]

(* The unread u is all of it but the first r tokens.                       *)
IsUnread(bounds, r, s, u) ==
    /\ r + Len(u) = bounds[Len(s)]
    /\ \A j \in 1..Len(s) : \A i \in 1..(s[j].body + 1) :
          r < bounds[j - 1] + i => u[bounds[j - 1] + i - r] = Wire(s[j])[i]

(* The handler has answered n requests and read r tokens.                  *)
HasRead(bounds, r, s, n, at, cur, body) ==
    \/ at = "head" /\ r = bounds[n]
    \/ /\ at = "body" /\ n < Len(s) /\ r = bounds[n] + 1
       /\ cur = <<s[n + 1]>> /\ s[n + 1].method = "POST"
    \/ /\ at = "respond" /\ n < Len(s) /\ r = bounds[n + 1]
       /\ cur = <<s[n + 1]>>
       /\ s[n + 1].method = "POST" => body = Parts(s[n + 1])

Aligned(s, p, inb, n, at, cur, body) ==
    /\ n <= Len(s)
    /\ \E bounds \in [0..Len(s) -> Nat], r \in Nat :
          /\ IsBounds(bounds, s)
          /\ IsUnread(bounds, r, s, inb \o p)
          /\ Len(s) > 0 => bounds[Len(s) - 1] <= r + Len(inb)
          /\ HasRead(bounds, r, s, n, at, cur, body)

(* The request read next, or an earlier one, was not framed.               *)
OutOfStep(s, n) == \E m \in 1..Len(s) : m <= n + 1 /\ ~Framed(s[m])

(* The client has closed its end in the midst of the last request.         *)
CutShort(s, p, down, inb, n, at) ==
    /\ down /\ inb = <<>> /\ p # <<>>
    /\ \/ at = "head" /\ n = Len(s)
       \/ at = "respond" /\ n + 1 = Len(s)

Over(s, down, n, at) == at = "done" /\ down /\ n <= Len(s)

StreamOK(s, p, down, inb, n, at, cur, body) ==
    \/ OutOfStep(s, n)
    \/ Over(s, down, n, at)
    \/ CutShort(s, p, down, inb, n, at)
    \/ Aligned(s, p, inb, n, at, cur, body)

(* EachItsAnswer of one connection.                                        *)
AnswersOK(s, p, answers) ==
    \A i \in 1..Len(s) :
        /\ \A j \in 1..i : Framed(s[j])
        /\ i < Len(s) \/ (i = Len(s) /\ p = <<>>)
        /\ i <= Len(answers)
        => answers[i] = Answer(s[i], Parts(s[i]))

(* TypeOK, and what it leaves open: that the variables are functions, and  *)
(* that a handler past the head has a request.                             *)
TypeInv ==
    /\ sent \in [Connections -> Seq(Requests)]
    /\ pending \in [Connections -> Seq(Tokens)]
    /\ shut \in [Connections -> BOOLEAN]
    /\ inbox \in [Connections -> Seq(Tokens)]
    /\ replies \in [Connections -> Seq(Replies)]
    /\ pc \in [Connections -> {"head", "body", "respond", "done"}]
    /\ current \in [Connections -> Seq(Requests)]
    /\ payload \in [Connections -> Seq(Tokens)]
    /\ \A c \in Connections : pc[c] \in {"body", "respond"} => Len(current[c]) = 1

ConnectionOK(s, p, down, inb, answers, at, cur, body) ==
    /\ StreamOK(s, p, down, inb, Len(answers), at, cur, body)
    /\ AnswersOK(s, p, answers)

OKOf(c) ==
    ConnectionOK(sent[c], pending[c], shut[c], inbox[c], replies[c], pc[c], current[c],
                 payload[c])

IInv == TypeInv /\ \A c \in Connections : OKOf(c)

-----------------------------------------------------------------------------
(* Requests and what they look like on the wire.                           *)

(* The fields of a request.                                                *)
LEMMA RequestTyped ==
    ASSUME NEW r \in Requests
    PROVE  /\ r.body \in Nat /\ r.length \in Int
           /\ r.method \in {"POST", "GET", "PUT"}
           /\ r.says \in Usernames \cup {Unusable}
BY RequestsAssumption

(* What a client sends for a request: its head, then a part for each unit  *)
(* of its body, and nothing else.                                          *)
LEMMA WireIs ==
    ASSUME NEW r \in Requests
    PROVE  /\ Parts(r) \in Seq(Tokens) /\ Len(Parts(r)) = r.body
           /\ Wire(r) \in Seq(Tokens) /\ Len(Wire(r)) = r.body + 1
           /\ Wire(r)[1] = RequestHead(r)
           /\ \A i \in 1..r.body : Parts(r)[i] = Part(r) /\ Wire(r)[i + 1] = Part(r)
<1>1. r.body \in Nat
  BY RequestTyped
<1>2. Part(r) \in Tokens /\ RequestHead(r) \in Tokens
  BY DEF Part, RequestHead, Tokens
<1>3. Parts(r) \in Seq(Tokens) /\ Len(Parts(r)) = r.body
  BY <1>1, <1>2 DEF Parts
<1>4. \A i \in 1..r.body : Parts(r)[i] = Part(r)
  BY DEF Parts
<1>5. <<RequestHead(r)>> \in Seq(Tokens) /\ Len(<<RequestHead(r)>>) = 1
  BY <1>2
<1>6. Wire(r) \in Seq(Tokens) /\ Len(Wire(r)) = r.body + 1
  BY <1>1, <1>3, <1>5 DEF Wire
<1>7. Wire(r)[1] = RequestHead(r)
  BY <1>3, <1>5 DEF Wire
<1>8. \A i \in 1..r.body : Wire(r)[i + 1] = Parts(r)[i]
  BY <1>1, <1>3, <1>5 DEF Wire
<1> QED
  BY <1>3, <1>4, <1>6, <1>7, <1>8

(* Whatever was read of the body, an answer is a reply.                    *)
LEMMA AnswerTyped ==
    ASSUME NEW r \in Requests, NEW body
    PROVE  Answer(r, body) \in Replies
<1>1. Username(r, body) \in Usernames \cup {DEFAULT_USERNAME}
  BY RequestTyped DEF Username
<1> QED
  BY <1>1 DEF Answer, Reply, Replies

(* What ReadBody takes is the body, and all of it, if the request is framed. *)
LEMMA FramedLength ==
    ASSUME NEW r \in Requests, Framed(r)
    PROVE  /\ r.method = "POST" => Length(r) = r.body
           /\ r.method = "GET" => r.body = 0
           /\ r.method # "PUT"
BY RequestTyped DEF Framed, Length

-----------------------------------------------------------------------------
(* One connection: what each step makes of what is unread.                 *)

(* Where a token of the last request lies in what is unread: arithmetic    *)
(* for BeginKeeps.                                                         *)
LEMMA Within ==
    ASSUME NEW b \in Nat, NEW size \in Nat, NEW i \in 1..(size + 1), NEW r \in Nat,
           NEW l \in Nat, NEW top \in Nat,
           r < b + i, b + 1 + size <= top, r + l = top
    PROVE  b + i - r \in 1..l
OBVIOUS

(* A client that begins a request after the last keeps the connection      *)
(* aligned: the bounds get one more.                                       *)
LEMMA BeginKeeps ==
    ASSUME NEW s \in Seq(Requests), NEW inb \in Seq(Tokens), NEW n \in Nat, NEW at, NEW cur,
           NEW body, NEW r \in Requests,
           Aligned(s, <<>>, inb, n, at, cur, body)
    PROVE  Aligned(Append(s, r), Wire(r), inb, n, at, cur, body)
<1> DEFINE t == Append(s, r)
           N == Len(s)
<1>1. /\ t \in Seq(Requests) /\ N \in Nat /\ Len(t) = N + 1
      /\ t[N + 1] = r /\ \A i \in 1..N : t[i] = s[i]
  OBVIOUS
<1>2. PICK bounds \in [0..N -> Nat], k \in Nat :
          /\ IsBounds(bounds, s)
          /\ IsUnread(bounds, k, s, inb \o <<>>)
          /\ N > 0 => bounds[N - 1] <= k + Len(inb)
          /\ HasRead(bounds, k, s, n, at, cur, body)
  BY DEF Aligned
<1> DEFINE later == [j \in 0..(N + 1) |-> IF j <= N THEN bounds[j] ELSE bounds[N] + 1 + r.body]
<1>3. r.body \in Nat /\ bounds[N] \in Nat
  <2>1. N \in 0..N
    BY <1>1
  <2> HIDE DEF N
  <2> QED
    BY <2>1, <1>2, RequestTyped
<1>4. /\ later \in [0..(N + 1) -> Nat] /\ later[N + 1] = bounds[N] + 1 + r.body
      /\ \A j \in 0..N : later[j] = bounds[j]
  <2>1. N \in Nat
    BY <1>1
  <2> HIDE DEF N, t
  <2> QED
    BY ONLY <2>1, <1>3, bounds \in [0..N -> Nat] DEF later
<1>5. n <= N
  BY DEF Aligned
<1> HIDE DEF later, t, N
<1>6. IsBounds(later, t)
  <2>1. \A j \in 1..(N + 1) : later[j] = later[j - 1] + 1 + t[j].body
    <3> SUFFICES ASSUME NEW j \in 1..(N + 1) PROVE later[j] = later[j - 1] + 1 + t[j].body
      OBVIOUS
    <3>1. CASE j = N + 1
      BY <3>1, <1>1, <1>4
    <3>2. CASE j <= N
      <4>1. j \in 1..N /\ j - 1 \in 0..N /\ j \in 0..N
        BY <3>2, <1>1
      <4>2. bounds[j] = bounds[j - 1] + 1 + s[j].body
        BY <4>1, <1>2 DEF IsBounds, N
      <4> QED
        BY <4>1, <4>2, <1>1, <1>4
    <3> QED
      BY <3>1, <3>2, <1>1
  <2>2. \A i, j \in 0..(N + 1) : i < j => later[i] < later[j]
    <3> SUFFICES ASSUME NEW i \in 0..(N + 1), NEW j \in 0..(N + 1), i < j
                 PROVE  later[i] < later[j]
      OBVIOUS
    <3>1. i \in 0..N
      BY <1>1
    <3>2. \A a, b \in 0..N : a < b => bounds[a] < bounds[b]
      BY <1>2 DEF IsBounds, N
    <3>3. bounds[i] <= bounds[N]
      BY <3>1, <3>2, <1>1, <1>2
    <3>4. CASE j = N + 1
      <4>1. later[i] = bounds[i] /\ bounds[i] \in Nat
        BY <3>1, <1>2, <1>4 DEF N
      <4>2. later[j] = bounds[N] + 1 + r.body
        BY <3>4, <1>4
      <4> QED
        BY ONLY <4>1, <4>2, <3>3, <1>3
    <3>5. CASE j \in 0..N
      BY <3>1, <3>2, <3>5, <1>4
    <3> QED
      BY <3>4, <3>5, <1>1
  <2> QED
    BY <2>1, <2>2, <1>1 DEF IsBounds
<1>7. inb \o <<>> = inb
  OBVIOUS
<1>8. k + Len(inb) = bounds[N] /\ Len(inb) \in Nat /\ k \in Nat
  BY <1>2, <1>7 DEF IsUnread, N
<1>9. IsUnread(later, k, t, inb \o Wire(r))
  <2>1. /\ Wire(r) \in Seq(Tokens) /\ Len(Wire(r)) = r.body + 1
    BY WireIs
  <2>2. /\ Len(inb \o Wire(r)) = Len(inb) + r.body + 1
        /\ \A i \in 1..Len(inb) : (inb \o Wire(r))[i] = inb[i]
        /\ \A i \in 1..(r.body + 1) : (inb \o Wire(r))[Len(inb) + i] = Wire(r)[i]
    BY <2>1, <1>3, SMTT(30)
  <2>3. k + Len(inb \o Wire(r)) = later[Len(t)]
    <3>1. later[Len(t)] = bounds[N] + 1 + r.body
      BY <1>1, <1>4
    <3> QED
      <4>1. k + Len(inb \o Wire(r)) = k + (Len(inb) + r.body + 1)
        BY <2>2
      <4>2. k + (Len(inb) + r.body + 1) = (k + Len(inb)) + 1 + r.body
        BY <1>3, <1>8
      <4> QED
        BY <4>1, <4>2, <3>1, <1>8
  <2>4. ASSUME NEW j \in 1..Len(t), NEW i \in 1..(t[j].body + 1), k < later[j - 1] + i
        PROVE  (inb \o Wire(r))[later[j - 1] + i - k] = Wire(t[j])[i]
    <3>1. CASE j = N + 1
      <4>1. later[j - 1] = k + Len(inb) /\ t[j] = r
        BY <3>1, <1>1, <1>4, <1>8
      <4>2. later[j - 1] + i - k = Len(inb) + i
        BY <4>1, <1>2
      <4> QED
        BY <4>1, <4>2, <2>2
    <3>2. CASE j <= N
      <4>1. j \in 1..N /\ j - 1 \in 0..N /\ j \in 0..N /\ t[j] = s[j]
        BY <3>2, <1>1
      <4>2. /\ bounds[j] = bounds[j - 1] + 1 + s[j].body
            /\ j < N => bounds[j] < bounds[N]
        BY <4>1, <1>1, <1>2 DEF IsBounds, N
      <4>3. inb[bounds[j - 1] + i - k] = Wire(s[j])[i]
        <5>1. \A h \in 1..Len(s) : \A l \in 1..(s[h].body + 1) :
                 k < bounds[h - 1] + l => inb[bounds[h - 1] + l - k] = Wire(s[h])[l]
          BY <1>2, <1>7, Zenon DEF IsUnread
        <5>2. j \in 1..Len(s) /\ i \in 1..(s[j].body + 1) /\ k < bounds[j - 1] + i
          BY <4>1, <2>4, <1>4, Zenon DEF N
        <5> QED
          BY <5>1, <5>2, Zenon
      <4>4. s[j].body \in Nat
        BY <4>1, RequestTyped DEF N
      <4>5. bounds[j - 1] \in Nat /\ later[j - 1] = bounds[j - 1]
        BY <4>1, <1>2, <1>4
      <4>6. bounds[j - 1] + i - k \in 1..Len(inb)
        <5>1. bounds[j] \in Nat /\ bounds[j] <= bounds[N]
          <6>1. bounds[j] \in Nat
            BY <4>1, <1>2
          <6>2. j = N \/ j < N
            BY <4>1, <1>1
          <6> QED
            BY ONLY <6>1, <6>2, <4>2, <1>3
        <5>2. i \in 1..(s[j].body + 1)
          BY <4>1, <2>4
        <5>3. k < bounds[j - 1] + i
          BY <4>5, <2>4
        <5>4. bounds[j - 1] + 1 + s[j].body <= bounds[N]
          BY <5>1, <4>2
        <5> QED
          BY ONLY <5>2, <5>3, <5>4, <4>4, <4>5, <1>3, <1>8, Within
      <4> QED
        BY <4>1, <4>3, <4>5, <4>6, <2>2
    <3> QED
      <4>1. j = N + 1 \/ j <= N
        BY <2>4, <1>1
      <4> QED
        BY <4>1, <3>1, <3>2
  <2> QED
    BY <2>3, <2>4 DEF IsUnread
<1>10. later[Len(t) - 1] <= k + Len(inb)
  BY <1>1, <1>3, <1>4, <1>8
<1>11. HasRead(later, k, t, n, at, cur, body)
  <2>1. later[n] = bounds[n]
    BY <1>1, <1>4, <1>5
  <2>2. n < N => later[n + 1] = bounds[n + 1] /\ t[n + 1] = s[n + 1] /\ n < Len(t)
    BY <1>1, <1>4, <1>5
  <2> QED
    BY <2>1, <2>2, <1>2 DEF HasRead, N
<1>12. n <= Len(t) /\ Len(t) = N + 1
  BY <1>1, <1>5
<1> QED
  BY <1>4, <1>6, <1>9, <1>10, <1>11, <1>12, <1>2 DEF Aligned, t

(* So does one that sends the next token: what is unread and what is       *)
(* unsent together are the same.                                           *)
LEMMA SendKeeps ==
    ASSUME NEW s \in Seq(Requests), NEW p \in Seq(Tokens), NEW inb \in Seq(Tokens),
           NEW n \in Nat, NEW at, NEW cur, NEW body, p # <<>>,
           Aligned(s, p, inb, n, at, cur, body)
    PROVE  Aligned(s, Tail(p), Append(inb, p[1]), n, at, cur, body)
<1>1. Append(inb, p[1]) \o Tail(p) = inb \o p
  OBVIOUS
<1>2. Len(Append(inb, p[1])) = Len(inb) + 1 /\ Len(inb) \in Nat
  OBVIOUS
<1>3. PICK bounds \in [0..Len(s) -> Nat], r \in Nat :
          /\ IsBounds(bounds, s)
          /\ IsUnread(bounds, r, s, inb \o p)
          /\ Len(s) > 0 => bounds[Len(s) - 1] <= r + Len(inb)
          /\ HasRead(bounds, r, s, n, at, cur, body)
  BY DEF Aligned
<1>4. Len(s) > 0 => bounds[Len(s) - 1] <= r + Len(Append(inb, p[1]))
  <2>1. Len(s) > 0 => bounds[Len(s) - 1] \in Nat
    <3>1. Len(s) \in Nat
      OBVIOUS
    <3> QED
      BY <3>1, <1>3, SMTT(30)
  <2> QED
    BY <2>1, <1>2, <1>3
<1> QED
  BY <1>1, <1>3, <1>4 DEF Aligned

(* A later request ends no earlier.                                        *)
LEMMA BoundsGrow ==
    ASSUME NEW s \in Seq(Requests), NEW bounds \in [0..Len(s) -> Nat], IsBounds(bounds, s),
           NEW i \in 0..Len(s), NEW j \in 0..Len(s), i <= j
    PROVE  bounds[i] <= bounds[j]
<1>1. CASE i = j
  BY <1>1
<1>2. CASE i < j
  <2>1. bounds[i] < bounds[j]
    BY <1>2 DEF IsBounds
  <2>2. bounds[i] \in Nat /\ bounds[j] \in Nat
    OBVIOUS
  <2> QED
    BY <2>1, <2>2
<1> QED
  BY <1>1, <1>2

(* The first want of inb are got, the others are the rest.                 *)
IsCut(inb, want, got, rest) ==
    /\ want <= Len(inb)
    /\ Len(got) = want /\ \A i \in 1..want : got[i] = inb[i]
    /\ Len(rest) = Len(inb) - want /\ \A i \in 1..Len(rest) : rest[i] = inb[i + want]

(* The tokens of the second of two sequences put together.                 *)
LEMMA Behind ==
    ASSUME NEW a \in Seq(Tokens), NEW b \in Seq(Tokens), NEW i \in 1..Len(b)
    PROVE  (a \o b)[Len(a) + i] = b[i]
OBVIOUS

(* What has been cut off the front of the buffer stays cut off, whatever   *)
(* is still to come.                                                       *)
LEMMA Dropped ==
    ASSUME NEW inb \in Seq(Tokens), NEW p \in Seq(Tokens), NEW d \in Nat, NEW got,
           NEW rest \in Seq(Tokens), IsCut(inb, d, got, rest)
    PROVE  /\ inb \o p \in Seq(Tokens) /\ rest \o p \in Seq(Tokens)
           /\ IsCut(inb \o p, d, got, rest \o p)
<1>1. /\ Len(inb) \in Nat /\ Len(p) \in Nat /\ Len(rest) \in Nat /\ d \in 0..Len(inb)
      /\ Len(rest) = Len(inb) - d
  BY DEF IsCut
<1>2. /\ inb \o p \in Seq(Tokens) /\ rest \o p \in Seq(Tokens)
      /\ Len(inb \o p) = Len(inb) + Len(p) /\ Len(rest \o p) = Len(rest) + Len(p)
  BY ConcatProperties
<1>3. Len(rest \o p) = Len(inb \o p) - d /\ d \in 0..Len(inb \o p)
  BY <1>1, <1>2
<1>4. ASSUME NEW i \in 1..Len(rest), NEW j, j = i + d
      PROVE  (rest \o p)[i] = (inb \o p)[j]
  <2>1. j \in 1..Len(inb) /\ rest[i] = inb[j]
    BY <1>4, <1>1 DEF IsCut
  <2> QED
    BY <2>1
<1>5. ASSUME NEW i \in 1..Len(p)
      PROVE  (rest \o p)[Len(rest) + i] = p[i] /\ (inb \o p)[Len(inb) + i] = p[i]
  BY Behind
<1>6. ASSUME NEW i \in 1..Len(rest \o p) PROVE (rest \o p)[i] = (inb \o p)[i + d]
  <2>1. CASE i <= Len(rest)
    BY <2>1, <1>1, <1>2, <1>4
  <2>2. CASE i > Len(rest)
    <3>1. PICK m \in 1..Len(p) : i = Len(rest) + m
      <4>1. i - Len(rest) \in 1..Len(p) /\ i = Len(rest) + (i - Len(rest))
        BY <2>2, <1>1, <1>2
      <4> QED
        BY <4>1
    <3>2. i + d = Len(inb) + m
      BY <3>1, <1>1
    <3> QED
      BY <3>1, <3>2, <1>5
  <2> QED
    BY <2>1, <2>2, <1>1, <1>2
<1>7. Len(got) = d /\ \A i \in 1..d : got[i] = (inb \o p)[i]
  <2>1. Len(got) = d /\ \A i \in 1..d : got[i] = inb[i]
    BY DEF IsCut
  <2>2. \A i \in 1..Len(inb) : (inb \o p)[i] = inb[i]
    OBVIOUS
  <2> QED
    BY <2>1, <2>2, <1>1
<1> QED
  BY <1>2, <1>3, <1>6, <1>7 DEF IsCut

(* Reading d tokens leaves the rest where they were.                       *)
LEMMA ReadingOn ==
    ASSUME NEW s \in Seq(Requests), NEW bounds \in [0..Len(s) -> Nat], IsBounds(bounds, s),
           NEW r \in Nat, NEW u \in Seq(Tokens), IsUnread(bounds, r, s, u),
           NEW d \in Nat, NEW got, NEW rest \in Seq(Tokens), IsCut(u, d, got, rest)
    PROVE  IsUnread(bounds, r + d, s, rest)
<1>1. /\ Len(s) \in Nat /\ Len(u) \in Nat /\ Len(rest) \in Nat /\ d \in Nat
      /\ Len(rest) = Len(u) - d
  BY DEF IsCut
<1>2. r + Len(u) = bounds[Len(s)] /\ bounds[Len(s)] \in Nat
  BY <1>1 DEF IsUnread
<1>3. r + d + Len(rest) = bounds[Len(s)]
  BY <1>1, <1>2
<1>4. ASSUME NEW j \in 1..Len(s), NEW i \in 1..(s[j].body + 1), r + d < bounds[j - 1] + i
      PROVE  rest[bounds[j - 1] + i - (r + d)] = Wire(s[j])[i]
  <2>1. j - 1 \in 0..Len(s) /\ j \in 0..Len(s) /\ Len(s) \in 0..Len(s) /\ j <= Len(s)
    BY <1>1
  <2>2. s[j].body \in Nat /\ bounds[j - 1] \in Nat /\ bounds[j] \in Nat
    BY <2>1, RequestTyped
  <2>3. bounds[j] <= bounds[Len(s)]
    BY <2>1, BoundsGrow
  <2>4. bounds[j] = bounds[j - 1] + 1 + s[j].body
    BY DEF IsBounds
  <2>5. bounds[j - 1] + 1 + s[j].body <= bounds[Len(s)]
    BY <2>3, <2>4
  <2>6. r + d \in Nat
    BY <1>1
  <2>7. bounds[j - 1] + i - (r + d) \in 1..Len(rest)
    BY ONLY <1>1, <1>2, <1>3, <1>4, <2>2, <2>5, <2>6, Within
  <2>8. i \in Nat
    BY <2>2
  <2>9. r < bounds[j - 1] + i
    BY <1>1, <1>4, <2>2, <2>8
  <2>10. u[bounds[j - 1] + i - r] = Wire(s[j])[i]
    BY <2>9 DEF IsUnread
  <2>11. (bounds[j - 1] + i - (r + d)) + d = bounds[j - 1] + i - r
    BY <1>1, <2>2, <2>8
  <2>12. \A x \in 1..Len(rest) : rest[x] = u[x + d]
    BY DEF IsCut
  <2> QED
    BY <2>7, <2>10, <2>11, <2>12
<1> QED
  BY <1>3, <1>4 DEF IsUnread

(* Where a handler in step looks for a head it finds the next one.         *)
LEMMA HeadIsNext ==
    ASSUME NEW s \in Seq(Requests), NEW p \in Seq(Tokens), NEW inb \in Seq(Tokens),
           NEW n \in Nat, NEW cur, NEW body, inb # <<>>,
           Aligned(s, p, inb, n, "head", cur, body)
    PROVE  n < Len(s) /\ inb[1] = RequestHead(s[n + 1])
<1>1. PICK bounds \in [0..Len(s) -> Nat], r \in Nat :
          /\ IsBounds(bounds, s)
          /\ IsUnread(bounds, r, s, inb \o p)
          /\ r = bounds[n]
  BY DEF Aligned, HasRead
<1>2. n <= Len(s) /\ Len(s) \in Nat
  BY DEF Aligned
<1>3. Len(inb \o p) >= 1 /\ (inb \o p)[1] = inb[1] /\ Len(inb \o p) \in Nat
  OBVIOUS
<1>4. n # Len(s)
  <2>1. r + Len(inb \o p) = bounds[Len(s)]
    BY <1>1 DEF IsUnread
  <2> QED
    BY <2>1, <1>1, <1>3
<1>5. n + 1 \in 1..Len(s) /\ (n + 1) - 1 = n /\ n \in 0..Len(s)
  BY <1>2, <1>4
<1>6. s[n + 1] \in Requests
  BY <1>5
<1>7. 1 \in 1..(s[n + 1].body + 1)
  BY <1>6, RequestTyped
<1>8. bounds[n] \in Nat /\ r < bounds[(n + 1) - 1] + 1 /\ bounds[(n + 1) - 1] + 1 - r = 1
  BY <1>1, <1>5
<1>9. (inb \o p)[1] = Wire(s[n + 1])[1]
  <2>1. \A i \in 1..(s[n + 1].body + 1) :
            r < bounds[(n + 1) - 1] + i =>
                (inb \o p)[bounds[(n + 1) - 1] + i - r] = Wire(s[n + 1])[i]
    BY <1>1, <1>5 DEF IsUnread
  <2>2. (inb \o p)[bounds[(n + 1) - 1] + 1 - r] = Wire(s[n + 1])[1]
    BY <2>1, <1>7, <1>8
  <2> QED
    BY <2>2, <1>8
<1> QED
  BY <1>2, <1>3, <1>4, <1>6, <1>9, WireIs, SMTT(30)

(* A handler in step that reads a head reads that of the next request, and *)
(* is then before its body if it will read one.                            *)
LEMMA ReadHeadKeeps ==
    ASSUME NEW s \in Seq(Requests), NEW p \in Seq(Tokens), NEW inb \in Seq(Tokens),
           NEW n \in Nat, NEW cur, NEW body, NEW at, inb # <<>>,
           Aligned(s, p, inb, n, "head", cur, body),
           Framed(s[n + 1]),
           at = IF s[n + 1].method = "POST" THEN "body" ELSE "respond"
    PROVE  Aligned(s, p, Tail(inb), n, at, <<s[n + 1]>>, body)
<1>1. PICK bounds \in [0..Len(s) -> Nat], r \in Nat :
          /\ IsBounds(bounds, s)
          /\ IsUnread(bounds, r, s, inb \o p)
          /\ Len(s) > 0 => bounds[Len(s) - 1] <= r + Len(inb)
          /\ r = bounds[n]
  BY DEF Aligned, HasRead
<1>2. n < Len(s) /\ Len(s) \in Nat
  BY HeadIsNext, SMTT(30)
<1>3. /\ Len(inb) >= 1 /\ Len(inb) \in Nat /\ Tail(inb) \in Seq(Tokens)
      /\ Len(Tail(inb)) = Len(inb) - 1
  OBVIOUS
<1>4. /\ inb \o p \in Seq(Tokens) /\ Tail(inb) \o p \in Seq(Tokens)
      /\ IsCut(inb \o p, 1, <<inb[1]>>, Tail(inb) \o p)
  <2>1. IsCut(inb, 1, <<inb[1]>>, Tail(inb))
    BY <1>3 DEF IsCut
  <2> QED
    BY <2>1, <1>3, Dropped
<1>5. IsUnread(bounds, r + 1, s, Tail(inb) \o p)
  BY <1>1, <1>4, ReadingOn
<1>6. bounds[Len(s) - 1] <= (r + 1) + Len(Tail(inb))
  <2>1. (r + 1) + Len(Tail(inb)) = r + Len(inb)
    BY <1>3
  <2> QED
    BY <2>1, <1>1, <1>2
<1>7. s[n + 1] \in Requests /\ n + 1 \in 1..Len(s) /\ (n + 1) - 1 = n /\ n \in 0..Len(s)
  BY <1>2
<1>8. HasRead(bounds, r + 1, s, n, at, <<s[n + 1]>>, body)
  <2>1. CASE s[n + 1].method = "POST"
    BY <2>1, <1>1, <1>2 DEF HasRead
  <2>2. CASE s[n + 1].method # "POST"
    <3>1. s[n + 1].body = 0
      BY <2>2, <1>7, FramedLength, RequestTyped
    <3>2. bounds[n + 1] = bounds[(n + 1) - 1] + 1 + s[n + 1].body /\ bounds[n] \in Nat
      BY <1>1, <1>7 DEF IsBounds
    <3>3. bounds[n + 1] = r + 1
      BY <3>1, <3>2, <1>1, <1>7
    <3> QED
      BY <2>2, <3>3, <1>2 DEF HasRead
  <2> QED
    BY <2>1, <2>2
<1>9. r + 1 \in Nat /\ n <= Len(s)
  BY <1>2
<1> QED
  BY <1>1, <1>5, <1>6, <1>8, <1>9 DEF Aligned

(* Reading so many tokens and leaving the rest is a cut.                   *)
LEMMA SubSeqCuts ==
    ASSUME NEW inb \in Seq(Tokens), NEW want \in Nat, want <= Len(inb)
    PROVE  /\ SubSeq(inb, 1, want) \in Seq(Tokens)
           /\ SubSeq(inb, want + 1, Len(inb)) \in Seq(Tokens)
           /\ IsCut(inb, want, SubSeq(inb, 1, want), SubSeq(inb, want + 1, Len(inb)))
<1> DEFINE got == SubSeq(inb, 1, want)
           rest == SubSeq(inb, want + 1, Len(inb))
<1>1. \A i \in 1..Len(inb) : inb[i] \in Tokens
  OBVIOUS
<1>2. Len(inb) \in Nat /\ 1 \in Int /\ want \in Int /\ want + 1 \in Int /\ Len(inb) \in Int
  OBVIOUS
<1>3. got \in Seq(Tokens) /\ Len(got) = want /\ \A i \in 1..want : got[i] = inb[i]
  BY <1>1, <1>2
<1>4. \A i \in (want + 1)..Len(inb) : inb[i] \in Tokens
  BY <1>1, <1>2
<1>5. /\ rest \in Seq(Tokens)
      /\ Len(rest) = IF want + 1 <= Len(inb) THEN Len(inb) - (want + 1) + 1 ELSE 0
      /\ \A i \in 1..(Len(inb) - (want + 1) + 1) : rest[i] = inb[(want + 1) + i - 1]
  BY <1>2, <1>4, SubSeqProperties
<1> HIDE DEF rest, got
<1>6. Len(rest) = Len(inb) - want /\ Len(inb) - (want + 1) + 1 = Len(inb) - want
  BY <1>2, <1>5
<1>7. ASSUME NEW i \in 1..Len(rest) PROVE rest[i] = inb[i + want]
  <2>1. rest[i] = inb[(want + 1) + i - 1]
    BY <1>5, <1>6
  <2>2. (want + 1) + i - 1 = i + want
    BY <1>2, <1>6
  <2> QED
    BY <2>1, <2>2
<1>8. IsCut(inb, want, got, rest)
  BY <1>3, <1>6, <1>7 DEF IsCut
<1> QED
  BY <1>3, <1>5, <1>8 DEF rest, got

HasBody(q, size) == q.body = size

(* A body that is there is read, and nothing else.                         *)
LEMMA ReadBodyKeeps ==
    ASSUME NEW s \in Seq(Requests), NEW p \in Seq(Tokens), NEW inb \in Seq(Tokens),
           NEW n \in Nat, NEW cur, NEW body,
           Aligned(s, p, inb, n, "body", cur, body),
           Framed(s[n + 1]),
           NEW want \in Nat, HasBody(s[n + 1], want),
           NEW got \in Seq(Tokens), NEW rest \in Seq(Tokens), IsCut(inb, want, got, rest)
    PROVE  Aligned(s, p, rest, n, "respond", cur, got)
<1>1. PICK bounds \in [0..Len(s) -> Nat], r \in Nat :
          /\ IsBounds(bounds, s)
          /\ IsUnread(bounds, r, s, inb \o p)
          /\ Len(s) > 0 => bounds[Len(s) - 1] <= r + Len(inb)
          /\ n < Len(s) /\ r = bounds[n] + 1 /\ cur = <<s[n + 1]>>
          /\ s[n + 1].method = "POST"
  BY DEF Aligned, HasRead
<1>2. /\ n + 1 \in 1..Len(s) /\ (n + 1) - 1 = n /\ n \in 0..Len(s) /\ Len(s) \in Nat
      /\ s[n + 1] \in Requests /\ cur[1] = s[n + 1] /\ n + 1 \in 0..Len(s)
  BY <1>1
<1>3. want <= Len(inb) /\ Len(inb) \in Nat
  BY DEF IsCut
<1>4. Len(rest) = Len(inb) - want /\ \A i \in 1..Len(rest) : rest[i] = inb[i + want]
  BY DEF IsCut
<1>5. Len(got) = want /\ \A i \in 1..want : got[i] = inb[i]
  BY DEF IsCut
<1>6. /\ inb \o p \in Seq(Tokens) /\ rest \o p \in Seq(Tokens)
      /\ IsCut(inb \o p, want, got, rest \o p)
  BY Dropped
<1>7. IsUnread(bounds, r + want, s, rest \o p)
  BY <1>1, <1>6, ReadingOn
<1>8. bounds[Len(s) - 1] <= (r + want) + Len(rest)
  <2>1. (r + want) + Len(rest) = r + Len(inb)
    BY <1>3, <1>4
  <2> QED
    BY <2>1, <1>1, <1>2
<1>9. bounds[n + 1] = r + want
  <2>1. bounds[n + 1] = bounds[(n + 1) - 1] + 1 + s[n + 1].body /\ bounds[n] \in Nat
    BY <1>1, <1>2 DEF IsBounds
  <2>2. s[n + 1].body = want
    BY DEF HasBody
  <2>3. bounds[n + 1] = bounds[n] + 1 + want
    BY <2>1, <2>2, <1>2
  <2>4. r = bounds[n] + 1
    BY <1>1
  <2> QED
    BY <2>1, <2>3, <2>4
<1>10. got = Parts(s[n + 1])
  <2>1. /\ Parts(s[n + 1]) \in Seq(Tokens) /\ Len(Parts(s[n + 1])) = want
        /\ \A i \in 1..want : /\ Parts(s[n + 1])[i] = Part(s[n + 1])
                              /\ Wire(s[n + 1])[i + 1] = Part(s[n + 1])
    <3>1. s[n + 1].body = want
      BY DEF HasBody
    <3> QED
      BY <3>1, <1>2, WireIs
  <2>2. ASSUME NEW i \in 1..want
        PROVE  inb[i] = Part(s[n + 1])
    <3>1. i + 1 \in 1..(s[n + 1].body + 1) /\ i \in Nat /\ i >= 1
      BY DEF HasBody
    <3>2. bounds[n] \in Nat
      BY <1>2
    <3>3. r < bounds[(n + 1) - 1] + (i + 1) /\ bounds[(n + 1) - 1] + (i + 1) - r = i
      <4>1. r = bounds[(n + 1) - 1] + 1
        BY <1>1, <1>2
      <4>2. bounds[(n + 1) - 1] \in Nat
        BY <3>2, <1>2
      <4>3. i \in Nat /\ i >= 1
        BY <3>1
      <4>4. \A a \in Nat : a + 1 < a + (i + 1) /\ a + (i + 1) - (a + 1) = i
        BY ONLY <4>3
      <4> QED
        BY <4>1, <4>2, <4>4, Zenon
    <3>4. (inb \o p)[i] = Wire(s[n + 1])[i + 1]
      BY <3>1, <3>3, <1>1, <1>2 DEF IsUnread
    <3>5. (inb \o p)[i] = inb[i]
      BY <1>3
    <3> QED
      BY <3>4, <3>5, <2>1
  <2>3. Len(got) = Len(Parts(s[n + 1])) /\ \A i \in 1..Len(got) : got[i] = Parts(s[n + 1])[i]
    BY <2>1, <2>2, <1>5
  <2> QED
    BY <2>1, <2>3, <1>5, SeqEqual
<1>11. HasRead(bounds, r + want, s, n, "respond", cur, got)
  BY <1>1, <1>9, <1>10 DEF HasRead
<1>12. r + want \in Nat /\ n <= Len(s)
  BY <1>1, <1>2, SMTT(30)
<1> QED
  BY <1>1, <1>7, <1>8, <1>11, <1>12 DEF Aligned

(* A body that is not all there is that of the last request, and the       *)
(* client has not sent the rest. *)
LEMMA OnlyTheLastIsCut ==
    ASSUME NEW s \in Seq(Requests), NEW p \in Seq(Tokens), NEW inb \in Seq(Tokens),
           NEW n \in Nat, NEW cur, NEW body,
           Aligned(s, p, inb, n, "body", cur, body),
           Framed(s[n + 1]), Len(inb) < Length(cur[1])
    PROVE  p # <<>> /\ n + 1 = Len(s)
<1>1. PICK bounds \in [0..Len(s) -> Nat], r \in Nat :
          /\ IsBounds(bounds, s)
          /\ IsUnread(bounds, r, s, inb \o p)
          /\ Len(s) > 0 => bounds[Len(s) - 1] <= r + Len(inb)
          /\ n < Len(s) /\ r = bounds[n] + 1 /\ cur = <<s[n + 1]>>
          /\ s[n + 1].method = "POST"
  BY DEF Aligned, HasRead
<1>2. /\ n + 1 \in 1..Len(s) /\ (n + 1) - 1 = n /\ n \in 0..Len(s) /\ Len(s) \in Nat
      /\ s[n + 1] \in Requests /\ cur[1] = s[n + 1] /\ n + 1 \in 0..Len(s)
      /\ Len(s) \in 0..Len(s) /\ Len(s) - 1 \in 0..Len(s) /\ n + 1 <= Len(s) /\ Len(s) > 0
  BY <1>1, SMTT(30)
<1>3. Len(inb) < s[n + 1].body /\ s[n + 1].body \in Nat /\ Len(inb) \in Nat
  BY <1>1, <1>2, FramedLength, RequestTyped
<1>4. /\ bounds[n] \in Nat /\ bounds[n + 1] \in Nat /\ bounds[Len(s)] \in Nat
      /\ bounds[Len(s) - 1] \in Nat
  BY <1>2
<1>5. bounds[n + 1] = bounds[(n + 1) - 1] + 1 + s[n + 1].body
  BY <1>1, <1>2 DEF IsBounds
<1>6. r + Len(inb) < bounds[n + 1]
  <2>1. r = bounds[n] + 1 /\ bounds[n + 1] = bounds[n] + 1 + s[n + 1].body /\ r \in Nat
    BY <1>1, <1>2, <1>5, Zenon
  <2>2. \A a, b, l \in Nat : l < b => (a + 1) + l < a + 1 + b
    BY ONLY SMT
  <2> QED
    BY <2>1, <2>2, <1>3, <1>4, Zenon
<1>7. p # <<>>
  <2>1. SUFFICES ASSUME p = <<>> PROVE FALSE
    OBVIOUS
  <2>2. r + Len(inb) = bounds[Len(s)]
    BY <2>1, <1>1 DEF IsUnread
  <2>3. bounds[n + 1] <= bounds[Len(s)]
    BY <1>1, <1>2, BoundsGrow
  <2> QED
    BY <2>2, <2>3, <1>3, <1>4, <1>6
<1>8. n + 1 = Len(s)
  <2>1. SUFFICES ASSUME n + 1 # Len(s) PROVE FALSE
    OBVIOUS
  <2>2. n + 1 <= Len(s) - 1
    BY <2>1, <1>2
  <2>3. bounds[n + 1] <= bounds[Len(s) - 1]
    BY <2>2, <1>1, <1>2, BoundsGrow
  <2>4. bounds[Len(s) - 1] <= r + Len(inb)
    BY <1>1, <1>2
  <2> QED
    BY <2>3, <2>4, <1>3, <1>4, <1>6
<1> QED
  BY <1>7, <1>8

(* The answer is that of the request, and the next head is where it ended. *)
LEMMA RespondKeeps ==
    ASSUME NEW s \in Seq(Requests), NEW p \in Seq(Tokens), NEW inb \in Seq(Tokens),
           NEW n \in Nat, NEW cur, NEW body, NEW cur2, NEW body2,
           Aligned(s, p, inb, n, "respond", cur, body)
    PROVE  /\ Aligned(s, p, inb, n + 1, "head", cur2, body2)
           /\ n < Len(s)
           /\ Answer(cur[1], body) = Answer(s[n + 1], Parts(s[n + 1]))
<1>1. PICK bounds \in [0..Len(s) -> Nat], r \in Nat :
          /\ IsBounds(bounds, s)
          /\ IsUnread(bounds, r, s, inb \o p)
          /\ Len(s) > 0 => bounds[Len(s) - 1] <= r + Len(inb)
          /\ n < Len(s) /\ r = bounds[n + 1] /\ cur = <<s[n + 1]>>
          /\ s[n + 1].method = "POST" => body = Parts(s[n + 1])
  BY DEF Aligned, HasRead
<1>2. HasRead(bounds, r, s, n + 1, "head", cur2, body2) /\ n + 1 <= Len(s)
  BY <1>1 DEF HasRead
<1>3. cur[1] = s[n + 1]
  BY <1>1
<1>4. Answer(s[n + 1], body) = Answer(s[n + 1], Parts(s[n + 1]))
  <2>1. CASE s[n + 1].method = "POST"
    BY <2>1, <1>1
  <2>2. CASE s[n + 1].method # "POST"
    BY <2>2 DEF Answer
  <2> QED
    BY <2>1, <2>2
<1> QED
  BY <1>1, <1>2, <1>3, <1>4 DEF Aligned

-----------------------------------------------------------------------------
(* One connection: each step keeps what is said of it.                     *)

(* One lemma for each step, on the connection it is taken on: a client     *)
(* begins a request ...                                                    *)
LEMMA BeginOK ==
    ASSUME NEW s \in Seq(Requests), NEW inb \in Seq(Tokens), NEW answers \in Seq(Replies),
           NEW at, NEW cur, NEW body, NEW r \in Requests,
           ConnectionOK(s, <<>>, FALSE, inb, answers, at, cur, body)
    PROVE  ConnectionOK(Append(s, r), Wire(r), FALSE, inb, answers, at, cur, body)
<1> DEFINE n == Len(answers)
           t == Append(s, r)
<1>1. n \in Nat
  OBVIOUS
<1>2. Len(t) = Len(s) + 1 /\ Len(s) \in Nat /\ \A i \in 1..Len(s) : t[i] = s[i]
  OBVIOUS
<1> HIDE DEF n, t
<1>3. StreamOK(t, Wire(r), FALSE, inb, n, at, cur, body)
  <2>1. CASE OutOfStep(s, n)
    <3>1. PICK m \in 1..Len(s) : m <= n + 1 /\ ~Framed(s[m])
      BY <2>1 DEF OutOfStep
    <3>2. m \in 1..Len(t) /\ t[m] = s[m]
      BY <1>2
    <3> QED
      BY <3>1, <3>2 DEF StreamOK, OutOfStep
  <2>2. CASE Aligned(s, <<>>, inb, n, at, cur, body)
    BY <2>2, <1>1, BeginKeeps DEF StreamOK, t
  <2>3. ~Over(s, FALSE, n, at) /\ ~CutShort(s, <<>>, FALSE, inb, n, at)
    BY DEF Over, CutShort
  <2> QED
    BY <2>1, <2>2, <2>3 DEF ConnectionOK, StreamOK, n
<1>4. AnswersOK(t, Wire(r), answers)
  <2> SUFFICES ASSUME NEW i \in 1..Len(t), \A j \in 1..i : Framed(t[j]),
                      i < Len(t) \/ (i = Len(t) /\ Wire(r) = <<>>), i <= Len(answers)
               PROVE  answers[i] = Answer(t[i], Parts(t[i]))
    BY DEF AnswersOK
  <2>1. Wire(r) # <<>>
    <3>1. r.body \in Nat /\ Len(Wire(r)) = r.body + 1
      BY RequestTyped, WireIs
    <3>2. Len(Wire(r)) # 0
      BY <3>1
    <3> QED
      BY <3>2
  <2>2. i \in 1..Len(s) /\ (i < Len(s) \/ i = Len(s))
    BY <2>1, <1>2
  <2>3. \A j \in 1..i : Framed(s[j])
    <3>1. ASSUME NEW j \in 1..i PROVE t[j] = s[j]
      BY <2>2, <1>2
    <3> QED
      BY <3>1
  <2>4. answers[i] = Answer(s[i], Parts(s[i]))
    BY <2>2, <2>3 DEF ConnectionOK, AnswersOK
  <2> QED
    BY <2>2, <2>4, <1>2
<1> QED
  BY <1>3, <1>4 DEF ConnectionOK, n, t

(* A request that was not sent in full has not been answered.              *)
LEMMA SendOK ==
    ASSUME NEW s \in Seq(Requests), NEW p \in Seq(Tokens), NEW inb \in Seq(Tokens),
           NEW answers \in Seq(Replies), NEW at, NEW cur, NEW body, p # <<>>,
           ConnectionOK(s, p, FALSE, inb, answers, at, cur, body)
    PROVE  ConnectionOK(s, Tail(p), FALSE, Append(inb, p[1]), answers, at, cur, body)
<1> DEFINE n == Len(answers)
<1>1. n \in Nat /\ Len(s) \in Nat
  OBVIOUS
<1> HIDE DEF n
<1>2. OutOfStep(s, n) \/ Aligned(s, p, inb, n, at, cur, body)
  BY DEF ConnectionOK, StreamOK, Over, CutShort, n
<1>3. StreamOK(s, Tail(p), FALSE, Append(inb, p[1]), n, at, cur, body)
  BY <1>1, <1>2, SendKeeps DEF StreamOK
<1>4. AnswersOK(s, Tail(p), answers)
  <2> SUFFICES ASSUME NEW i \in 1..Len(s), \A j \in 1..i : Framed(s[j]),
                      i < Len(s) \/ i = Len(s), i <= n
               PROVE  answers[i] = Answer(s[i], Parts(s[i]))
    BY DEF AnswersOK, n
  <2>1. CASE i < Len(s)
    BY <2>1 DEF ConnectionOK, AnswersOK, n
  <2>2. CASE i = Len(s)
    <3>1. ~OutOfStep(s, n)
      BY <2>2 DEF OutOfStep
    <3>2. PICK bounds \in [0..Len(s) -> Nat], r \in Nat :
              /\ IsUnread(bounds, r, s, inb \o p)
              /\ HasRead(bounds, r, s, n, at, cur, body)
      BY <3>1, <1>2 DEF Aligned
    <3>3. n = Len(s)
      BY <3>1, <2>2, <1>1, <1>2 DEF Aligned
    <3>4. r = bounds[Len(s)]
      BY <3>2, <3>3, <1>1 DEF HasRead
    <3>5. r + Len(inb \o p) = r /\ Len(inb \o p) \in Nat
      BY <3>2, <3>4 DEF IsUnread
    <3>6. Len(inb \o p) = 0
      BY <3>5
    <3>7. Len(inb \o p) = Len(inb) + Len(p) /\ Len(inb) \in Nat /\ Len(p) \in Nat /\ Len(p) # 0
      OBVIOUS
    <3> QED
      BY <3>6, <3>7
  <2> QED
    BY <2>1, <2>2
<1> QED
  BY <1>3, <1>4 DEF ConnectionOK, n

(* ... closes its end: whatever it has not sent will not come ...          *)
LEMMA ShutOK ==
    ASSUME NEW s \in Seq(Requests), NEW p, NEW inb, NEW answers, NEW at, NEW cur, NEW body,
           ConnectionOK(s, p, FALSE, inb, answers, at, cur, body)
    PROVE  ConnectionOK(s, p, TRUE, inb, answers, at, cur, body)
BY DEF ConnectionOK, StreamOK, Over, CutShort

(* Whatever is answered out of step is promised to nobody.                 *)
LEMMA OutOfStepOK ==
    ASSUME NEW s \in Seq(Requests), NEW p, NEW answers \in Seq(Replies), NEW a \in Replies,
           AnswersOK(s, p, answers), OutOfStep(s, Len(answers)),
           NEW down, NEW inb, NEW at, NEW cur, NEW body
    PROVE  ConnectionOK(s, p, down, inb, Append(answers, a), at, cur, body)
<1>1. PICK m \in 1..Len(s) : m <= Len(answers) + 1 /\ ~Framed(s[m])
  BY DEF OutOfStep
<1>2. /\ Len(Append(answers, a)) = Len(answers) + 1 /\ Len(answers) \in Nat
      /\ \A i \in 1..Len(answers) : Append(answers, a)[i] = answers[i]
  OBVIOUS
<1>3. m <= Len(Append(answers, a)) + 1
  BY <1>1, <1>2
<1>4. StreamOK(s, p, down, inb, Len(Append(answers, a)), at, cur, body)
  BY <1>1, <1>3 DEF StreamOK, OutOfStep
<1>5. AnswersOK(s, p, Append(answers, a))
  <2> SUFFICES ASSUME NEW i \in 1..Len(s), \A j \in 1..i : Framed(s[j]),
                      i < Len(s) \/ (i = Len(s) /\ p = <<>>), i <= Len(Append(answers, a))
               PROVE  Append(answers, a)[i] = Answer(s[i], Parts(s[i]))
    BY DEF AnswersOK
  <2>1. ~(m <= i)
    BY <1>1
  <2>2. i \in 1..Len(answers)
    BY <2>1, <1>1, <1>2
  <2> QED
    BY <2>2, <1>2 DEF AnswersOK
<1> QED
  BY <1>4, <1>5 DEF ConnectionOK

(* In step, the request read next is framed.                               *)
LEMMA InStepIsFramed ==
    ASSUME NEW s \in Seq(Requests), NEW n \in Nat, n < Len(s), ~OutOfStep(s, n)
    PROVE  Framed(s[n + 1])
<1>1. n + 1 \in 1..Len(s) /\ n + 1 <= n + 1
  OBVIOUS
<1> QED
  BY <1>1 DEF OutOfStep

(* ... a handler reads a head, of the next request or, out of step, of     *)
(* anything ...                                                            *)
LEMMA ReadHeadOK ==
    ASSUME NEW s \in Seq(Requests), NEW p \in Seq(Tokens), NEW down \in BOOLEAN,
           NEW inb \in Seq(Tokens), NEW answers \in Seq(Replies), NEW cur, NEW body, NEW at,
           inb # <<>>, ConnectionOK(s, p, down, inb, answers, "head", cur, body),
           at = IF inb[1].of.method = "POST" THEN "body" ELSE "respond"
    PROVE  ConnectionOK(s, p, down, Tail(inb), answers, at, <<inb[1].of>>, body)
<1> DEFINE n == Len(answers)
<1>1. n \in Nat
  OBVIOUS
<1> HIDE DEF n
<1>2. OutOfStep(s, n) \/ Aligned(s, p, inb, n, "head", cur, body)
  BY DEF ConnectionOK, StreamOK, Over, CutShort, n
<1>3. CASE OutOfStep(s, n)
  BY <1>3 DEF ConnectionOK, StreamOK, n
<1>4. CASE ~OutOfStep(s, n)
  <2>1. Aligned(s, p, inb, n, "head", cur, body)
    BY <1>2, <1>4
  <2>2. n < Len(s) /\ inb[1] = RequestHead(s[n + 1])
    BY <2>1, <1>1, HeadIsNext
  <2>3. Framed(s[n + 1])
    BY <2>2, <1>1, <1>4, InStepIsFramed
  <2>4. inb[1].of = s[n + 1]
    BY <2>2 DEF RequestHead
  <2>5. at = IF s[n + 1].method = "POST" THEN "body" ELSE "respond"
    BY <2>4
  <2>6. Aligned(s, p, Tail(inb), n, at, <<s[n + 1]>>, body)
    BY <2>1, <2>3, <2>5, <1>1, ReadHeadKeeps
  <2> QED
    BY <2>4, <2>6 DEF ConnectionOK, StreamOK, n
<1> QED
  BY <1>3, <1>4

(* What a handler in step finds at a request line is a head it can serve.  *)
LEMMA RefuseOK ==
    ASSUME NEW s \in Seq(Requests), NEW p \in Seq(Tokens), NEW down \in BOOLEAN,
           NEW inb \in Seq(Tokens), NEW answers \in Seq(Replies), NEW cur, NEW body,
           NEW rest, NEW a \in Replies,
           inb # <<>>, ConnectionOK(s, p, down, inb, answers, "head", cur, body),
           inb[1].what = "part" \/ inb[1].of.method = "PUT"
    PROVE  ConnectionOK(s, p, down, rest, Append(answers, a), "done", cur, body)
<1> DEFINE n == Len(answers)
<1>1. n \in Nat
  OBVIOUS
<1> HIDE DEF n
<1>2. OutOfStep(s, n) \/ Aligned(s, p, inb, n, "head", cur, body)
  BY DEF ConnectionOK, StreamOK, Over, CutShort, n
<1>3. OutOfStep(s, n)
  <2> SUFFICES ASSUME ~OutOfStep(s, n) PROVE FALSE
    OBVIOUS
  <2>1. n < Len(s) /\ inb[1] = RequestHead(s[n + 1])
    BY <1>1, <1>2, HeadIsNext
  <2>2. Framed(s[n + 1])
    BY <2>1, <1>1, InStepIsFramed
  <2>3. inb[1].what = "head" /\ inb[1].of = s[n + 1]
    BY <2>1 DEF RequestHead
  <2>4. s[n + 1] \in Requests
    BY <2>1, <1>1
  <2> QED
    BY <2>2, <2>3, <2>4, FramedLength
<1>4. AnswersOK(s, p, answers)
  BY DEF ConnectionOK
<1> QED
  BY <1>3, <1>4, OutOfStepOK DEF n

(* ... sees the end of the input and is done ...                           *)
LEMMA ReadEndOK ==
    ASSUME NEW s \in Seq(Requests), NEW p, NEW inb, NEW answers, NEW cur, NEW body,
           ConnectionOK(s, p, TRUE, inb, answers, "head", cur, body)
    PROVE  ConnectionOK(s, p, TRUE, inb, answers, "done", cur, body)
<1>1. CASE OutOfStep(s, Len(answers))
  BY <1>1 DEF ConnectionOK, StreamOK
<1>2. CASE CutShort(s, p, TRUE, inb, Len(answers), "head")
  <2>1. Len(answers) <= Len(s)
    BY <1>2 DEF CutShort
  <2> QED
    BY <2>1 DEF ConnectionOK, StreamOK, Over
<1>3. CASE Aligned(s, p, inb, Len(answers), "head", cur, body)
  BY <1>3 DEF ConnectionOK, StreamOK, Over, Aligned
<1> QED
  BY <1>1, <1>2, <1>3 DEF ConnectionOK, StreamOK, Over

(* Of the have tokens sent, a read of want takes got.                       *)
Takes(down, inb, cur, have, want, got) ==
    /\ have = Len(inb) /\ want = Length(cur[1])
    /\ down \/ have >= want
    /\ got = IF have < want THEN have ELSE want

(* ... reads as much body as was announced, or what there is before the    *)
(* end ...                                                                 *)
LEMMA ReadBodyOK ==
    ASSUME NEW s \in Seq(Requests), NEW p \in Seq(Tokens), NEW down \in BOOLEAN,
           NEW inb \in Seq(Tokens), NEW answers \in Seq(Replies),
           NEW cur \in Seq(Requests), Len(cur) = 1, NEW body,
           ConnectionOK(s, p, down, inb, answers, "body", cur, body),
           NEW have, NEW want, NEW got, Takes(down, inb, cur, have, want, got)
    PROVE  ConnectionOK(s, p, down, SubSeq(inb, got + 1, have), answers, "respond", cur,
                        SubSeq(inb, 1, got))
<1> DEFINE n == Len(answers)
<1>0. /\ have = Len(inb) /\ want = Length(cur[1])
      /\ down \/ have >= want
      /\ got = IF have < want THEN have ELSE want
  BY DEF Takes
<1> USE <1>0
<1>1. n \in Nat
  OBVIOUS
<1> HIDE DEF n
<1>2. OutOfStep(s, n) \/ Aligned(s, p, inb, n, "body", cur, body)
  BY DEF ConnectionOK, StreamOK, Over, CutShort, n
<1>3. CASE OutOfStep(s, n)
  BY <1>3 DEF ConnectionOK, StreamOK, n
<1>4. CASE ~OutOfStep(s, n)
  <2>1. Aligned(s, p, inb, n, "body", cur, body)
    BY <1>2, <1>4
  <2>2. n < Len(s) /\ cur[1] = s[n + 1] /\ s[n + 1].method = "POST"
    BY <2>1 DEF Aligned, HasRead
  <2>3. Framed(s[n + 1]) /\ s[n + 1] \in Requests
    BY <2>2, <1>1, <1>4, InStepIsFramed
  <2>4. want = s[n + 1].body /\ want \in Nat
    BY <2>2, <2>3, FramedLength, RequestTyped
  <2>5. have \in Nat
    OBVIOUS
  <2>6. CASE want <= have
    <3>1. got = want
      BY <2>4, <2>5, <2>6
    <3>2. HasBody(s[n + 1], want)
      BY <2>4 DEF HasBody
    <3>3. /\ SubSeq(inb, 1, want) \in Seq(Tokens)
          /\ SubSeq(inb, want + 1, have) \in Seq(Tokens)
          /\ IsCut(inb, want, SubSeq(inb, 1, want), SubSeq(inb, want + 1, have))
      BY <2>4, <2>6, SubSeqCuts
    <3>4. Aligned(s, p, SubSeq(inb, want + 1, have), n, "respond", cur, SubSeq(inb, 1, want))
      BY <2>1, <2>3, <2>4, <3>2, <3>3, <1>1, ReadBodyKeeps
    <3> QED
      BY <3>1, <3>4 DEF ConnectionOK, StreamOK, n
  <2>7. CASE have < want
    <3>1. got = have
      BY <2>7
    <3>2. p # <<>> /\ n + 1 = Len(s)
      BY <2>1, <2>3, <2>7, <1>1, OnlyTheLastIsCut
    <3>3. SubSeq(inb, have + 1, have) = <<>>
      BY <2>5, SubSeqEmpty
    <3>4. down
      BY <2>4, <2>5, <2>7
    <3>5. CutShort(s, p, down, SubSeq(inb, have + 1, have), n, "respond")
      BY <3>2, <3>3, <3>4 DEF CutShort
    <3> QED
      BY <3>1, <3>5 DEF ConnectionOK, StreamOK, n
  <2> QED
    BY <2>4, <2>5, <2>6, <2>7
<1> QED
  BY <1>3, <1>4

(* ... and answers: the answer is the one to the request whose turn it is. *)
LEMMA RespondOK ==
    ASSUME NEW s \in Seq(Requests), NEW p \in Seq(Tokens), NEW down \in BOOLEAN,
           NEW inb \in Seq(Tokens), NEW answers \in Seq(Replies), NEW cur, NEW body,
           NEW a \in Replies, a = Answer(cur[1], body),
           ConnectionOK(s, p, down, inb, answers, "respond", cur, body)
    PROVE  ConnectionOK(s, p, down, inb, Append(answers, a), "head", <<>>, <<>>)
<1> DEFINE n == Len(answers)
           more == Append(answers, a)
<1>1. /\ n \in Nat /\ Len(more) = n + 1 /\ more[n + 1] = a
      /\ \A i \in 1..n : more[i] = answers[i]
  OBVIOUS
<1> HIDE DEF n, more
<1>2. AnswersOK(s, p, answers)
  BY DEF ConnectionOK
<1>3. CASE OutOfStep(s, n)
  BY <1>2, <1>3, OutOfStepOK DEF n
<1>4. ASSUME n + 1 <= Len(s),
             n + 1 < Len(s) \/ p = <<>> => a = Answer(s[n + 1], Parts(s[n + 1]))
      PROVE  AnswersOK(s, p, more)
  <2> SUFFICES ASSUME NEW i \in 1..Len(s), \A j \in 1..i : Framed(s[j]),
                      i < Len(s) \/ (i = Len(s) /\ p = <<>>), i <= Len(more)
               PROVE  more[i] = Answer(s[i], Parts(s[i]))
    BY DEF AnswersOK
  <2>1. CASE i = n + 1
    BY <2>1, <1>1, <1>4
  <2>2. CASE i # n + 1
    <3>1. i \in 1..n
      BY <2>2, <1>1
    <3>2. answers[i] = Answer(s[i], Parts(s[i]))
      BY <3>1, <1>2 DEF AnswersOK, n
    <3> QED
      BY <3>1, <3>2, <1>1
  <2> QED
    BY <2>1, <2>2
<1>5. CASE CutShort(s, p, down, inb, n, "respond")
  <2>1. down /\ inb = <<>> /\ p # <<>> /\ n + 1 = Len(s)
    BY <1>5 DEF CutShort
  <2>2. AnswersOK(s, p, more)
    BY <2>1, <1>1, <1>4
  <2>3. CutShort(s, p, down, inb, Len(more), "head")
    BY <2>1, <1>1 DEF CutShort
  <2> QED
    BY <2>2, <2>3 DEF ConnectionOK, StreamOK, more
<1>6. CASE Aligned(s, p, inb, n, "respond", cur, body)
  <2>1. /\ Aligned(s, p, inb, n + 1, "head", <<>>, <<>>)
        /\ n < Len(s)
        /\ Answer(cur[1], body) = Answer(s[n + 1], Parts(s[n + 1]))
    BY <1>1, <1>6, RespondKeeps
  <2>2. n + 1 <= Len(s)
    BY <2>1, <1>1
  <2>3. AnswersOK(s, p, more)
    BY <2>1, <2>2, <1>4
  <2>4. StreamOK(s, p, down, inb, Len(more), "head", <<>>, <<>>)
    BY <2>1, <1>1 DEF StreamOK
  <2> QED
    BY <2>3, <2>4 DEF ConnectionOK, more
<1> QED
  BY <1>3, <1>5, <1>6 DEF ConnectionOK, StreamOK, Over, n

-----------------------------------------------------------------------------
(* The system.                                                             *)

(* Connections begin with nothing sent, read or answered.                  *)
LEMMA InitInv == Init => IInv
<1> SUFFICES ASSUME Init PROVE IInv
  OBVIOUS
<1>1. TypeInv
  BY DEF Init, TypeInv
<1>2. ASSUME NEW c \in Connections
      PROVE  OKOf(c)
  <2> DEFINE bounds == [j \in 0..0 |-> 0]
  <2>1. /\ sent[c] = <<>> /\ pending[c] = <<>> /\ inbox[c] = <<>> /\ replies[c] = <<>>
        /\ pc[c] = "head"
    BY DEF Init
  <2>2. Len(<<>>) = 0 /\ <<>> \o <<>> = <<>>
    OBVIOUS
  <2>3. bounds \in [0..Len(<<>>) -> Nat] /\ bounds[0] = 0
    BY <2>2
  <2> HIDE DEF bounds
  <2>4. IsBounds(bounds, <<>>)
    BY <2>2, <2>3 DEF IsBounds
  <2>5. IsUnread(bounds, 0, <<>>, <<>>)
    BY <2>2, <2>3 DEF IsUnread
  <2>6. HasRead(bounds, 0, <<>>, 0, "head", current[c], payload[c])
    BY <2>3 DEF HasRead
  <2>7. Aligned(<<>>, <<>>, <<>>, 0, "head", current[c], payload[c])
    BY <2>2, <2>3, <2>4, <2>5, <2>6 DEF Aligned
  <2>8. AnswersOK(<<>>, <<>>, <<>>)
    BY <2>2 DEF AnswersOK
  <2> QED
    BY <2>1, <2>2, <2>7, <2>8 DEF OKOf, ConnectionOK, StreamOK
<1> QED
  BY <1>1, <1>2 DEF IInv

(* Every step of a client or a handler keeps the types.                    *)
LEMMA TypeStep ==
    ASSUME TypeInv, NEW c \in Connections, ClientStep(c) \/ HandlerStep(c)
    PROVE  TypeInv'
<1> USE DEF clientVars, handlerVars
<1>0. ASSUME NEW status \in {400, 404, 501} PROVE Reply(status, DEFAULT_USERNAME) \in Replies
  BY DEF Reply, Replies
<1>1. ASSUME NEW r \in Requests, Begin(c, r) PROVE TypeInv'
  <2>1. Wire(r) \in Seq(Tokens)
    BY WireIs
  <2> QED
    BY <1>1, <2>1 DEF Begin, TypeInv
<1>2. CASE Send(c)
  <2>1. pending[c] \in Seq(Tokens) /\ pending[c] # <<>>
    BY <1>2 DEF Send, TypeInv
  <2>2. Tail(pending[c]) \in Seq(Tokens) /\ pending[c][1] \in Tokens
    BY <2>1
  <2> QED
    BY <1>2, <2>2 DEF Send, TypeInv
<1>3. CASE Shut(c)
  <2>1. shut' \in [Connections -> BOOLEAN]
    BY <1>3 DEF Shut, TypeInv
  <2> QED
    BY <1>3, <2>1 DEF Shut, TypeInv
<1>4. CASE ReadHead(c)
  <2>1. inbox[c] \in Seq(Tokens) /\ inbox[c] # <<>>
    BY <1>4 DEF ReadHead, TypeInv
  <2>2. Tail(inbox[c]) \in Seq(Tokens) /\ inbox[c][1] \in Tokens
    BY <2>1
  <2>3. inbox[c][1].of \in Requests
    BY <2>2 DEF Tokens
  <2>4. CASE inbox[c][1].of.method = "PUT"
    <3>1. /\ replies' = [replies EXCEPT ![c] = Append(replies[c], Reply(501, DEFAULT_USERNAME))]
          /\ pc' = [pc EXCEPT ![c] = "done"] /\ current' = current /\ payload' = payload
          /\ inbox' = [inbox EXCEPT ![c] = Tail(inbox[c])]
          /\ sent' = sent /\ pending' = pending /\ shut' = shut
      BY <1>4, <2>4 DEF ReadHead, Refuse
    <3> QED
      BY <3>1, <2>2, <1>0 DEF TypeInv
  <2>5. CASE inbox[c][1].of.method # "PUT"
    <3>1. /\ replies' = replies /\ payload' = payload
          /\ pc' = [pc EXCEPT ![c] =
                       IF inbox[c][1].of.method = "POST" THEN "body" ELSE "respond"]
          /\ current' = [current EXCEPT ![c] = <<inbox[c][1].of>>]
          /\ inbox' = [inbox EXCEPT ![c] = Tail(inbox[c])]
          /\ sent' = sent /\ pending' = pending /\ shut' = shut
      BY <1>4, <2>5 DEF ReadHead
    <3>2. <<inbox[c][1].of>> \in Seq(Requests) /\ Len(<<inbox[c][1].of>>) = 1
      BY <2>3
    <3> QED
      BY <3>1, <3>2, <2>2 DEF TypeInv
  <2> QED
    BY <2>4, <2>5
<1>5. CASE ReadGarbage(c)
  <2>0. PICK status \in {400, 501} : Refuse(c, status)
    BY <1>5, Zenon DEF ReadGarbage
  <2>1. /\ replies' = [replies EXCEPT ![c] = Append(replies[c], Reply(status, DEFAULT_USERNAME))]
        /\ pc' = [pc EXCEPT ![c] = "done"] /\ current' = current /\ payload' = payload
        /\ inbox' = [inbox EXCEPT ![c] = <<>>]
        /\ sent' = sent /\ pending' = pending /\ shut' = shut
    <3>1. inbox' = [inbox EXCEPT ![c] = <<>>] /\ UNCHANGED <<sent, pending, shut>>
      BY <1>5 DEF ReadGarbage, clientVars
    <3> QED
      BY ONLY <2>0, <3>1 DEF Refuse
  <2>2. Reply(status, DEFAULT_USERNAME) \in Replies
    BY <1>0
  <2> QED
    BY <2>1, <2>2 DEF TypeInv
<1>6. CASE ReadEnd(c)
  BY <1>6 DEF ReadEnd, TypeInv
<1>7. CASE ReadBody(c)
  <2>1. inbox[c] \in Seq(Tokens) /\ current[c] \in Seq(Requests) /\ Len(current[c]) = 1
    BY <1>7 DEF ReadBody, TypeInv
  <2>2. current[c][1] \in Requests
    BY <2>1
  <2> DEFINE have == Len(inbox[c])
             want == Length(current[c][1])
             got == IF have < want THEN have ELSE want
  <2>3. have \in Nat /\ want \in Nat
    BY <2>1, <2>2, RequestTyped DEF Length
  <2>4. got \in Nat /\ got <= have
    BY <2>3
  <2>5. /\ payload' = [payload EXCEPT ![c] = SubSeq(inbox[c], 1, got)]
        /\ inbox' = [inbox EXCEPT ![c] = SubSeq(inbox[c], got + 1, have)]
        /\ pc' = [pc EXCEPT ![c] = "respond"] /\ current' = current
        /\ sent' = sent /\ pending' = pending /\ shut' = shut /\ replies' = replies
    BY <1>7 DEF ReadBody
  <2> HIDE DEF got, have
  <2>6. SubSeq(inbox[c], 1, got) \in Seq(Tokens) /\ SubSeq(inbox[c], got + 1, have) \in Seq(Tokens)
    BY <2>1, <2>4, SubSeqCuts DEF have
  <2> QED
    BY <2>1, <2>5, <2>6 DEF TypeInv
<1>8. CASE Respond(c)
  <2>1. current[c] \in Seq(Requests) /\ Len(current[c]) = 1
    BY <1>8 DEF Respond, TypeInv
  <2>2. Answer(current[c][1], payload[c]) \in Replies
    BY <2>1, AnswerTyped
  <2> QED
    BY <1>8, <2>2 DEF Respond, TypeInv
<1> QED
  BY <1>1, <1>2, <1>3, <1>4, <1>5, <1>6, <1>7, <1>8 DEF ClientStep, HandlerStep

(* A step on one connection is none on the others.                         *)
LEMMA OthersRest ==
    ASSUME TypeInv, NEW c \in Connections, ClientStep(c) \/ HandlerStep(c),
           NEW d \in Connections \ {c}
    PROVE  /\ sent'[d] = sent[d] /\ pending'[d] = pending[d] /\ shut'[d] = shut[d]
           /\ inbox'[d] = inbox[d] /\ replies'[d] = replies[d] /\ pc'[d] = pc[d]
           /\ current'[d] = current[d] /\ payload'[d] = payload[d]
<1> USE DEF clientVars, handlerVars, TypeInv
<1>1. CASE ClientStep(c)
  <2>1. shut' = shut \/ shut' = [shut EXCEPT ![c] = TRUE]
    BY <1>1 DEF ClientStep, Begin, Send, Shut
  <2>2. shut'[d] = shut[d]
    BY <2>1, Zenon
  <2> QED
    BY <1>1, <2>2 DEF ClientStep, Begin, Send, Shut
<1>2. CASE HandlerStep(c)
  <2>1. shut' = shut
    BY <1>2 DEF HandlerStep, ReadHead, ReadGarbage, ReadEnd, ReadBody, Respond
  <2>2. shut'[d] = shut[d]
    BY <2>1, Zenon
  <2> QED
    <3>1. CASE ReadHead(c)
      BY <3>1, <2>2 DEF ReadHead, Refuse
    <3>2. CASE ReadGarbage(c)
      BY <3>2, <2>2 DEF ReadGarbage, Refuse
    <3>3. CASE ReadEnd(c)
      BY <3>3, <2>2 DEF ReadEnd
    <3>4. CASE ReadBody(c)
      BY <3>4, <2>2 DEF ReadBody
    <3>5. CASE Respond(c)
      BY <3>5, <2>2 DEF Respond
    <3> QED
      BY <1>2, <3>1, <3>2, <3>3, <3>4, <3>5 DEF HandlerStep
<1> QED
  BY <1>1, <1>2

(* The client's steps, from the lemmas above.                              *)
LEMMA ClientStepOK ==
    ASSUME TypeInv, NEW c \in Connections, ClientStep(c), OKOf(c)
    PROVE  OKOf(c)'
<1> USE DEF clientVars, handlerVars
<1>0. /\ sent[c] \in Seq(Requests) /\ pending[c] \in Seq(Tokens) /\ inbox[c] \in Seq(Tokens)
      /\ replies[c] \in Seq(Replies)
  BY DEF TypeInv
<1>1. ASSUME NEW r \in Requests, Begin(c, r) PROVE OKOf(c)'
  <2>1. pending[c] = <<>> /\ shut[c] = FALSE
    BY <1>1, Zenon DEF Begin, TypeInv
  <2>2. shut'[c] = FALSE
    BY <1>1, <2>1, Zenon DEF Begin
  <2>3. /\ sent'[c] = Append(sent[c], r) /\ pending'[c] = Wire(r)
        /\ inbox'[c] = inbox[c] /\ replies'[c] = replies[c] /\ pc'[c] = pc[c]
        /\ current'[c] = current[c] /\ payload'[c] = payload[c]
    BY <1>1 DEF Begin, TypeInv
  <2>4. ConnectionOK(sent[c], <<>>, FALSE, inbox[c], replies[c], pc[c], current[c], payload[c])
    BY <2>1, Zenon DEF OKOf
  <2>5. ConnectionOK(Append(sent[c], r), Wire(r), FALSE, inbox[c], replies[c], pc[c],
                     current[c], payload[c])
    BY <2>4, <1>0, BeginOK
  <2> QED
    BY <2>2, <2>3, <2>5, Zenon DEF OKOf
<1>2. CASE Send(c)
  <2>1. pending[c] # <<>> /\ shut[c] = FALSE
    BY <1>2, Zenon DEF Send, TypeInv
  <2>2. shut'[c] = FALSE
    BY <1>2, <2>1, Zenon DEF Send
  <2>3. /\ sent'[c] = sent[c] /\ pending'[c] = Tail(pending[c])
        /\ inbox'[c] = Append(inbox[c], pending[c][1]) /\ replies'[c] = replies[c]
        /\ pc'[c] = pc[c] /\ current'[c] = current[c] /\ payload'[c] = payload[c]
    BY <1>2 DEF Send, TypeInv
  <2>4. ConnectionOK(sent[c], pending[c], FALSE, inbox[c], replies[c], pc[c], current[c],
                     payload[c])
    BY <2>1, Zenon DEF OKOf
  <2>5. ConnectionOK(sent[c], Tail(pending[c]), FALSE, Append(inbox[c], pending[c][1]),
                     replies[c], pc[c], current[c], payload[c])
    BY <2>1, <2>4, <1>0, SendOK
  <2> QED
    BY <2>2, <2>3, <2>5, Zenon DEF OKOf
<1>3. CASE Shut(c)
  <2>1. shut[c] = FALSE
    BY <1>3, Zenon DEF Shut, TypeInv
  <2>2. shut'[c] = TRUE
    BY <1>3, Zenon DEF Shut, TypeInv
  <2>3. /\ sent'[c] = sent[c] /\ pending'[c] = pending[c]
        /\ inbox'[c] = inbox[c] /\ replies'[c] = replies[c] /\ pc'[c] = pc[c]
        /\ current'[c] = current[c] /\ payload'[c] = payload[c]
    BY <1>3 DEF Shut
  <2>4. ConnectionOK(sent[c], pending[c], FALSE, inbox[c], replies[c], pc[c], current[c],
                     payload[c])
    BY <2>1, Zenon DEF OKOf
  <2>5. ConnectionOK(sent[c], pending[c], TRUE, inbox[c], replies[c], pc[c], current[c],
                     payload[c])
    BY <2>4, <1>0, ShutOK
  <2> QED
    BY <2>2, <2>3, <2>5, Zenon DEF OKOf
<1> QED
  BY <1>1, <1>2, <1>3 DEF ClientStep

(* The handler's.                                                          *)
LEMMA HandlerStepOK ==
    ASSUME TypeInv, NEW c \in Connections, HandlerStep(c), OKOf(c)
    PROVE  OKOf(c)'
<1> USE DEF clientVars
<1>0. /\ sent[c] \in Seq(Requests) /\ pending[c] \in Seq(Tokens) /\ inbox[c] \in Seq(Tokens)
      /\ replies[c] \in Seq(Replies) /\ current[c] \in Seq(Requests)
  BY DEF TypeInv
<1>1. shut[c] \in BOOLEAN
  BY Zenon DEF TypeInv
<1>2. sent'[c] = sent[c] /\ pending'[c] = pending[c]
  BY DEF HandlerStep, ReadHead, ReadGarbage, ReadEnd, ReadBody, Respond
<1>3. shut'[c] = shut[c]
  <2>1. shut' = shut
    BY DEF HandlerStep, ReadHead, ReadGarbage, ReadEnd, ReadBody, Respond
  <2> QED
    BY <2>1, Zenon
<1>4. ASSUME NEW status \in {400, 404, 501} PROVE Reply(status, DEFAULT_USERNAME) \in Replies
  BY DEF Reply, Replies
<1>5. CASE ReadHead(c)
  <2>1. pc[c] = "head" /\ inbox[c] # <<>> /\ inbox'[c] = Tail(inbox[c])
    BY <1>5 DEF ReadHead, TypeInv
  <2>2. ConnectionOK(sent[c], pending[c], shut[c], inbox[c], replies[c], "head", current[c],
                     payload[c])
    BY <2>1, Zenon DEF OKOf
  <2>3. CASE inbox[c][1].of.method = "PUT"
    <3>1. /\ replies'[c] = Append(replies[c], Reply(501, DEFAULT_USERNAME))
          /\ pc'[c] = "done" /\ current'[c] = current[c] /\ payload'[c] = payload[c]
      BY <1>5, <2>3 DEF ReadHead, Refuse, TypeInv
    <3>2. ConnectionOK(sent[c], pending[c], shut[c], Tail(inbox[c]),
                       Append(replies[c], Reply(501, DEFAULT_USERNAME)), "done", current[c],
                       payload[c])
      BY <2>1, <2>2, <2>3, <1>0, <1>1, <1>4, RefuseOK
    <3> QED
      BY <3>1, <3>2, <2>1, <1>2, <1>3, Zenon DEF OKOf
  <2>4. CASE inbox[c][1].of.method # "PUT"
    <3>1. /\ pc'[c] = IF inbox[c][1].of.method = "POST" THEN "body" ELSE "respond"
          /\ current'[c] = <<inbox[c][1].of>> /\ payload'[c] = payload[c]
          /\ replies'[c] = replies[c]
      BY <1>5, <2>4 DEF ReadHead, TypeInv
    <3>2. ConnectionOK(sent[c], pending[c], shut[c], Tail(inbox[c]), replies[c], pc'[c],
                       <<inbox[c][1].of>>, payload[c])
      BY <3>1, <2>1, <2>2, <1>0, <1>1, ReadHeadOK
    <3> QED
      BY <3>1, <3>2, <2>1, <1>2, <1>3, Zenon DEF OKOf
  <2> QED
    BY <2>3, <2>4
<1>6. CASE ReadGarbage(c)
  <2>1. PICK status \in {400, 501} :
          /\ pc[c] = "head" /\ inbox[c] # <<>> /\ inbox[c][1].what = "part"
          /\ replies'[c] = Append(replies[c], Reply(status, DEFAULT_USERNAME))
          /\ pc'[c] = "done" /\ current'[c] = current[c] /\ payload'[c] = payload[c]
    BY <1>6 DEF ReadGarbage, Refuse, TypeInv
  <2>2. ConnectionOK(sent[c], pending[c], shut[c], inbox[c], replies[c], "head", current[c],
                     payload[c])
    BY <2>1, Zenon DEF OKOf
  <2>3. ConnectionOK(sent[c], pending[c], shut[c], inbox'[c],
                     Append(replies[c], Reply(status, DEFAULT_USERNAME)), "done", current[c],
                     payload[c])
    <3>1. Reply(status, DEFAULT_USERNAME) \in Replies
      BY <2>1, <1>4
    <3> QED
      BY <2>1, <2>2, <3>1, <1>0, <1>1, RefuseOK
  <2> QED
    BY <2>1, <2>3, <1>2, <1>3, Zenon DEF OKOf
<1>7. CASE ReadEnd(c)
  <2>1. shut[c] = TRUE
    BY <1>7, <1>1, Zenon DEF ReadEnd
  <2>2. /\ pc[c] = "head" /\ pc'[c] = "done" /\ inbox'[c] = inbox[c]
        /\ replies'[c] = replies[c] /\ current'[c] = current[c] /\ payload'[c] = payload[c]
    BY <1>7 DEF ReadEnd, TypeInv
  <2>3. ConnectionOK(sent[c], pending[c], TRUE, inbox[c], replies[c], "head", current[c],
                     payload[c])
    BY <2>1, <2>2, Zenon DEF OKOf
  <2>4. ConnectionOK(sent[c], pending[c], TRUE, inbox[c], replies[c], "done", current[c],
                     payload[c])
    BY <2>3, <1>0, ReadEndOK
  <2> QED
    BY <2>1, <2>2, <2>4, <1>2, <1>3, Zenon DEF OKOf
<1>8. CASE ReadBody(c)
  <2>1. pc[c] = "body" /\ Len(current[c]) = 1
    BY <1>8 DEF ReadBody, TypeInv
  <2>2. PICK have, want, got :
            /\ have = Len(inbox[c]) /\ want = Length(current[c][1])
            /\ got = (IF have < want THEN have ELSE want)
    OBVIOUS
  <2>3. shut[c] \/ have >= want
    BY <1>8, <2>2, Zenon DEF ReadBody
  <2>4. /\ payload'[c] = SubSeq(inbox[c], 1, got)
        /\ inbox'[c] = SubSeq(inbox[c], got + 1, have)
        /\ pc'[c] = "respond" /\ replies'[c] = replies[c] /\ current'[c] = current[c]
    BY <1>8, <2>2 DEF ReadBody, TypeInv
  <2>5. ConnectionOK(sent[c], pending[c], shut[c], inbox[c], replies[c], "body", current[c],
                     payload[c])
    BY <2>1, Zenon DEF OKOf
  <2>6. Takes(shut[c], inbox[c], current[c], have, want, got)
    BY <2>2, <2>3, Zenon DEF Takes
  <2>7. ConnectionOK(sent[c], pending[c], shut[c], SubSeq(inbox[c], got + 1, have), replies[c],
                     "respond", current[c], SubSeq(inbox[c], 1, got))
    BY <2>1, <2>5, <2>6, <1>0, <1>1, ReadBodyOK, Zenon
  <2> QED
    BY <2>4, <2>7, <1>2, <1>3, Zenon DEF OKOf
<1>9. CASE Respond(c)
  <2>1. pc[c] = "respond" /\ Len(current[c]) = 1
    BY <1>9 DEF Respond, TypeInv
  <2>2. PICK a \in Replies : a = Answer(current[c][1], payload[c])
    BY <2>1, <1>0, AnswerTyped
  <2>3. /\ replies'[c] = Append(replies[c], a) /\ pc'[c] = "head" /\ current'[c] = <<>>
        /\ payload'[c] = <<>> /\ inbox'[c] = inbox[c]
    BY <1>9, <2>2 DEF Respond, TypeInv
  <2>4. ConnectionOK(sent[c], pending[c], shut[c], inbox[c], replies[c], "respond", current[c],
                     payload[c])
    BY <2>1, Zenon DEF OKOf
  <2>5. ConnectionOK(sent[c], pending[c], shut[c], inbox[c], Append(replies[c], a), "head",
                     <<>>, <<>>)
    BY <2>2, <2>4, <1>0, <1>1, RespondOK
  <2> QED
    BY <2>3, <2>5, <1>2, <1>3, Zenon DEF OKOf
<1> QED
  BY <1>5, <1>6, <1>7, <1>8, <1>9 DEF HandlerStep

(* A step is one of a client or a handler on one connection, and leaves    *)
(* the others as they are.                                                 *)
LEMMA StepInv == IInv /\ [Next]_vars => IInv'
<1> SUFFICES ASSUME IInv, [Next]_vars PROVE IInv'
  OBVIOUS
<1>1. ASSUME NEW c \in Connections, ClientStep(c) \/ HandlerStep(c) PROVE IInv'
  <2>1. TypeInv /\ OKOf(c)
    BY DEF IInv
  <2>2. TypeInv'
    BY <1>1, <2>1, TypeStep
  <2>3. OKOf(c)'
    BY <1>1, <2>1, ClientStepOK, HandlerStepOK
  <2>4. ASSUME NEW d \in Connections \ {c} PROVE OKOf(d)'
    <3>1. OKOf(d)
      BY DEF IInv
    <3>2. /\ sent'[d] = sent[d] /\ pending'[d] = pending[d] /\ shut'[d] = shut[d]
          /\ inbox'[d] = inbox[d] /\ replies'[d] = replies[d] /\ pc'[d] = pc[d]
          /\ current'[d] = current[d] /\ payload'[d] = payload[d]
      BY <1>1, <2>1, OthersRest
    <3> QED
      BY <3>1, <3>2, Zenon DEF OKOf
  <2>5. \A d \in Connections : OKOf(d)'
    BY <2>3, <2>4
  <2> QED
    BY <2>2, <2>5 DEF IInv
<1>2. CASE UNCHANGED vars
  BY <1>2 DEF vars, clientVars, handlerVars, IInv, TypeInv, OKOf
<1> QED
  BY <1>1, <1>2 DEF Next

(* The inductive invariant holds: where each handler is in what its client *)
(* has sent, and which of its answers are the right ones. *)
THEOREM InvariantHolds == Spec => []IInv
<1> QED
  BY InitInv, StepInv, PTL DEF Spec

(* Every variable keeps its type, and a username is a string, whatever the *)
(* clients send. *)
THEOREM TypeCorrect == Spec => []TypeOK
<1>1. ASSUME IInv PROVE TypeOK
  <2>1. \A c \in Connections : shut[c] \in BOOLEAN
    BY <1>1, Zenon DEF IInv, TypeInv
  <2>2. \A c \in Connections :
            /\ sent[c] \in Seq(Requests) /\ pending[c] \in Seq(Tokens)
            /\ inbox[c] \in Seq(Tokens) /\ replies[c] \in Seq(Replies)
            /\ pc[c] \in {"head", "body", "respond", "done"}
            /\ current[c] \in Seq(Requests) /\ payload[c] \in Seq(Tokens)
    BY <1>1 DEF IInv, TypeInv
  <2> QED
    BY <2>1, <2>2, Zenon DEF TypeOK
<1> QED
  BY <1>1, InvariantHolds, PTL

(* On a kept-alive connection, requests that say how long they are get the *)
(* answers that are theirs, in their order, however they are cut into      *)
(* pieces, and whatever comes after them or on other connections. *)
THEOREM EachAlwaysItsAnswer == Spec => []EachItsAnswer
<1>1. IInv => EachItsAnswer
  BY DEF IInv, OKOf, ConnectionOK, AnswersOK, EachItsAnswer, InStep, Complete
<1> QED
  BY <1>1, InvariantHolds, PTL
=============================================================================
