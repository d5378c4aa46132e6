--------------------------- MODULE Session_proofs ---------------------------
(* Theorems about Session, for any number of processes over time, any        *)
(* modulus of sequence numbers and any number of datagrams in the sockets.   *)
EXTENDS Session, CommonLemmas

-----------------------------------------------------------------------------
\* The inductive invariant.

\* The outer packets of process f in socket q.
DataOf(q, f) == {i \in 1 .. Len(q) : q[i].type = "data" /\ q[i].from = f}

\* Each goes on where the one before it, from the same process, stopped.
Chained(q) ==
    \A i, j \in 1 .. Len(q) :
        LET f == q[i].from IN
        /\ i \in DataOf(q, f) /\ j \in DataOf(q, f) /\ i < j
        /\ \A k \in DataOf(q, f) : k <= i \/ j <= k
        => q[j].seq = NextSeq(q[i].seq) /\ q[j].head = q[i].tail

\* The first one of the process whose inner packet p is in progress goes on with
\* p, unless sequence numbers wrap here.
Awaiting(q, p) ==
    p.left > 0 /\ p.seq + 1 < SeqMod =>
        \A i \in DataOf(q, p.from) : (\A j \in DataOf(q, p.from) : i <= j) =>
            q[i].seq = p.seq + 1 /\ q[i].head = p.left

\* The next one that process f will send, number s and going on with c, goes on
\* where the last one stopped, be it in q or taken already.
Continuing(q, p, f, s, c) ==
    /\ \A i \in DataOf(q, f) : (\A j \in DataOf(q, f) : j <= i) =>
            s = NextSeq(q[i].seq) /\ c = q[i].tail
    /\ DataOf(q, f) = {} /\ p.left > 0 /\ p.from = f /\ p.seq + 1 < SeqMod =>
            s = p.seq + 1 /\ c = p.left

\* Nothing of process f is here.
Unheard(q, p, f) == DataOf(q, f) = {} /\ (p.left > 0 => p.from # f)

\* An outer packet that goes on with an inner packet beyond its end has no room for
\* another.
Shaped(d) == d.type = "data" /\ d.head > 1 => d.tail = d.head - 1

\* The inner packet in progress, as long as nothing was mistaken for its rest.
Prog(n) == IF blind[n] THEN NoPkt ELSE m[n]

\* What reaches end n.
Into(n) ==
    LET o == Other(n) IN
    /\ Chained(sock[n])
    /\ \A i \in 1 .. Len(sock[n]) : Shaped(sock[n][i]) /\ sock[n][i].from <= starts[o]
    /\ m[n].from <= starts[o]
    /\ Awaiting(sock[n], Prog(n))
    /\ Prog(n).left > 0 => Prog(n).pure
    /\ m[n].left > 0 => ack[n].last \in {0, m[n].seq}
    /\ Writing(o) /\ Reaches(o) => Continuing(sock[n], Prog(n), starts[o], seq[o], carry[o])
    /\ pc[o] \in {"bound", "peeked", "connected"} \/ (Writing(o) /\ Reaches(o) /\ soerr[o]) =>
         Unheard(sock[n], Prog(n), starts[o])
    /\ pc[n] = "off" => sock[n] = << >> /\ m[n] = NoPkt
    /\ fate[n] \in {"assert", "spliced"} => blind[n]

\* A client that is being set up has had no report, and its server may not send it one.
Unready == {"connected", "ingress", "egress"}
Calm ==
    /\ pc["client"] \in Unready =>
         /\ \A i \in 1 .. Len(sock["client"]) : sock["client"][i].type = "data"
         /\ peeraddr = starts["client"] => ~due["server"]
    /\ ~Reading("server") => ~due["server"]
    /\ ClientAveragesReady

Typed ==
    /\ TypeOK
    /\ sock \in [Ends -> Seq(Datagrams)]
    /\ \A n \in Ends : pc[n] # "off" => starts[n] > 0
    /\ starts["client"] + starts["server"] <= MaxStarts
    /\ peeraddr <= starts["client"]
    /\ pc["client"] \notin {"bound", "peeked"}

IInv == Typed /\ (\A n \in Ends : Into(n)) /\ Calm

-----------------------------------------------------------------------------
\* Sockets as sequences.

\* The fields of a datagram.
LEMMA DatagramFacts ==
    ASSUME NEW d \in Datagrams
    PROVE  /\ d.type \in {"data", "ack"}
           /\ d.from \in 1 .. MaxStarts
           /\ d.type = "data" => /\ d.seq \in 0 .. SeqMod - 1
                                 /\ d.head \in 0 .. MaxLeft /\ d.tail \in 0 .. MaxLeft
           /\ MaxStarts \in Nat /\ SeqMod \in Nat \ {0, 1} /\ MaxLeft \in Nat
BY SessionAssumption DEF Datagrams

\* A report in a socket disturbs nobody.
LEMMA AppendAck ==
    ASSUME NEW q \in Seq(Datagrams), NEW r \in Datagrams, r.type = "ack"
    PROVE  LET q2 == Append(q, r) IN
           /\ Chained(q) => Chained(q2)
           /\ \A p : Awaiting(q, p) => Awaiting(q2, p)
           /\ \A p, f, s, c : Continuing(q, p, f, s, c) => Continuing(q2, p, f, s, c)
           /\ \A p, f : Unheard(q, p, f) => Unheard(q2, p, f)
<1> DEFINE q2 == Append(q, r)
<1>1. /\ Len(q2) = Len(q) + 1 /\ Len(q) \in Nat /\ q2[Len(q) + 1] = r
      /\ \A i \in 1 .. Len(q) : q2[i] = q[i]
  OBVIOUS
<1> HIDE DEF q2
<1>2. \A f : DataOf(q2, f) = DataOf(q, f)
  BY <1>1 DEF DataOf
<1>3. \A f : \A i \in DataOf(q, f) : i \in 1 .. Len(q) /\ q2[i] = q[i]
  BY <1>1 DEF DataOf
<1>4. Chained(q) => Chained(q2)
  <2> SUFFICES ASSUME Chained(q), NEW i \in 1 .. Len(q2), NEW j \in 1 .. Len(q2),
                      i \in DataOf(q2, q2[i].from), j \in DataOf(q2, q2[i].from), i < j,
                      \A k \in DataOf(q2, q2[i].from) : k <= i \/ j <= k
               PROVE  q2[j].seq = NextSeq(q2[i].seq) /\ q2[j].head = q2[i].tail
    BY DEF Chained
  <2>1. i \in DataOf(q, q2[i].from) /\ j \in DataOf(q, q2[i].from)
    BY <1>2
  <2>2. i \in 1 .. Len(q) /\ j \in 1 .. Len(q) /\ q2[i] = q[i] /\ q2[j] = q[j]
    BY <2>1, <1>3
  <2>3. \A k \in DataOf(q, q[i].from) : k <= i \/ j <= k
    BY <2>2, <1>2
  <2> QED
    BY <2>1, <2>2, <2>3 DEF Chained
<1>5. \A p : Awaiting(q, p) => Awaiting(q2, p)
  BY <1>2, <1>3 DEF Awaiting
<1>6. \A p, f, s, c : Continuing(q, p, f, s, c) => Continuing(q2, p, f, s, c)
  BY <1>2, <1>3 DEF Continuing
<1>7. \A p, f : Unheard(q, p, f) => Unheard(q2, p, f)
  BY <1>2 DEF Unheard
<1> QED
  BY <1>4, <1>5, <1>6, <1>7 DEF q2

\* Nor does an outer packet that goes on where the last one of its process stopped.
LEMMA AppendData ==
    ASSUME NEW q \in Seq(Datagrams), NEW d \in Datagrams, d.type = "data",
           NEW p, Chained(q), Awaiting(q, p), Continuing(q, p, d.from, d.seq, d.head)
    PROVE  LET q2 == Append(q, d) IN
           /\ Chained(q2) /\ Awaiting(q2, p)
           /\ Continuing(q2, p, d.from, NextSeq(d.seq), d.tail)
<1> DEFINE q2 == Append(q, d)
           new == Len(q) + 1
<1>1. /\ Len(q2) = new /\ Len(q) \in Nat /\ q2[new] = d
      /\ \A i \in 1 .. Len(q) : q2[i] = q[i]
  OBVIOUS
<1> HIDE DEF q2
<1>2. \A f : DataOf(q2, f) = DataOf(q, f) \cup (IF d.from = f THEN {new} ELSE {})
  BY <1>1 DEF DataOf
<1>3. \A f : \A i \in DataOf(q, f) : i \in 1 .. Len(q) /\ q2[i] = q[i] /\ q[i].from = f
  BY <1>1 DEF DataOf
<1>4. Chained(q2)
  <2> SUFFICES ASSUME NEW i \in 1 .. Len(q2), NEW j \in 1 .. Len(q2),
                      i \in DataOf(q2, q2[i].from), j \in DataOf(q2, q2[i].from), i < j,
                      \A k \in DataOf(q2, q2[i].from) : k <= i \/ j <= k
               PROVE  q2[j].seq = NextSeq(q2[i].seq) /\ q2[j].head = q2[i].tail
    BY DEF Chained
  <2> DEFINE f == q2[i].from
  <2>1. i \in 1 .. Len(q) /\ q2[i] = q[i]
    BY <1>1
  <2>2. i \in DataOf(q, f)
    BY <2>1, <1>2, <1>1
  <2>3. \A k \in DataOf(q, f) : k <= i \/ j <= k
    BY <1>2
  <2>4. CASE j = new
    <3>1. d.from = f
      BY <2>4, <1>1, <1>2, <1>3
    <3>2. \A k \in DataOf(q, f) : k <= i
      BY <2>3, <2>4, <1>3, <1>1
    <3> QED
      BY <3>1, <3>2, <2>1, <2>2, <2>4, <1>1 DEF Continuing
  <2>5. CASE j # new
    <3>1. j \in DataOf(q, f)
      BY <2>5, <1>2
    <3>2. q2[j] = q[j] /\ j \in 1 .. Len(q)
      BY <3>1, <1>3
    <3> QED
      BY <3>1, <3>2, <2>1, <2>2, <2>3 DEF Chained
  <2> QED
    BY <2>4, <2>5
<1>5. Awaiting(q2, p)
  <2> SUFFICES ASSUME p.left > 0, p.seq + 1 < SeqMod, NEW i \in DataOf(q2, p.from),
                      \A j \in DataOf(q2, p.from) : i <= j
               PROVE  q2[i].seq = p.seq + 1 /\ q2[i].head = p.left
    BY DEF Awaiting
  <2>1. CASE i \in DataOf(q, p.from)
    <3>1. \A j \in DataOf(q, p.from) : i <= j
      BY <1>2
    <3> QED
      BY <2>1, <3>1, <1>3 DEF Awaiting
  <2>2. CASE i \notin DataOf(q, p.from)
    <3>1. i = new /\ d.from = p.from
      BY <2>2, <1>2
    <3>2. \A j \in DataOf(q, p.from) : j \in 1 .. Len(q) /\ i <= j
      BY <1>2, <1>3
    <3>3. ASSUME NEW j \in DataOf(q, p.from) PROVE FALSE
      BY <3>1, <3>2, <1>1
    <3>4. DataOf(q, p.from) = {}
      BY <3>3
    <3> QED
      BY <3>1, <3>4, <1>1 DEF Continuing
  <2> QED
    BY <2>1, <2>2
<1>6. Continuing(q2, p, d.from, NextSeq(d.seq), d.tail)
  <2>1. new \in DataOf(q2, d.from)
    BY <1>2
  <2>2. ASSUME NEW i \in DataOf(q2, d.from), \A j \in DataOf(q2, d.from) : j <= i
        PROVE  i = new
    BY <2>1, <2>2, <1>1, <1>2, <1>3
  <2> QED
    BY <2>1, <2>2, <1>1 DEF Continuing
<1> QED
  BY <1>4, <1>5, <1>6 DEF q2

\* What is left in a socket when its first datagram is read.
LEMMA TailFacts ==
    ASSUME NEW q \in Seq(Datagrams), q # << >>
    PROVE  /\ Tail(q) \in Seq(Datagrams) /\ Len(q) \in Nat /\ Len(q) > 0
           /\ Len(Tail(q)) = Len(q) - 1
           /\ q[1] = Head(q) /\ Head(q) \in Datagrams
           /\ \A i \in 1 .. Len(q) - 1 : Tail(q)[i] = q[i + 1]
           /\ \A f : \A i \in DataOf(Tail(q), f) :
                 /\ i \in 1 .. Len(q) - 1 /\ i + 1 \in DataOf(q, f)
                 /\ Tail(q)[i] = q[i + 1] /\ q[i + 1].from = f
           /\ \A f : \A i \in DataOf(q, f) : i > 1 => i - 1 \in DataOf(Tail(q), f)
           /\ \A f : \A i \in DataOf(q, f) : i \in 1 .. Len(q)
<1> DEFINE t == Tail(q)
<1>1. /\ t \in Seq(Datagrams) /\ Len(q) \in Nat /\ Len(q) > 0 /\ Len(t) = Len(q) - 1
      /\ q[1] = Head(q) /\ Head(q) \in Datagrams
      /\ \A i \in 1 .. Len(q) - 1 : t[i] = q[i + 1]
  OBVIOUS
<1> HIDE DEF t
<1>2. ASSUME NEW f, NEW i \in DataOf(t, f)
      PROVE  /\ i \in 1 .. Len(q) - 1 /\ i + 1 \in DataOf(q, f)
             /\ t[i] = q[i + 1] /\ q[i + 1].from = f
  BY <1>1, <1>2 DEF DataOf
<1>3. ASSUME NEW f, NEW i \in DataOf(q, f), i > 1
      PROVE  i - 1 \in DataOf(t, f)
  <2>1. i \in 1 .. Len(q) /\ q[i].type = "data" /\ q[i].from = f
    BY <1>3 DEF DataOf
  <2>2. i - 1 \in 1 .. Len(q) - 1 /\ i - 1 + 1 = i
    BY <2>1, <1>3, <1>1
  <2>3. t[i - 1] = q[i]
    BY <2>2, <1>1
  <2> QED
    BY <2>1, <2>2, <2>3, <1>1 DEF DataOf
<1>4. \A f : \A i \in DataOf(q, f) : i \in 1 .. Len(q)
  BY DEF DataOf
<1> QED
  BY <1>1, <1>2, <1>3, <1>4 DEF t

\* Reading the first datagram leaves the others chained.
LEMMA TailChained ==
    ASSUME NEW q \in Seq(Datagrams), q # << >>, Chained(q)
    PROVE  Chained(Tail(q))
<1> DEFINE t == Tail(q)
<1> SUFFICES ASSUME NEW i \in 1 .. Len(t), NEW j \in 1 .. Len(t),
                    i \in DataOf(t, t[i].from), j \in DataOf(t, t[i].from), i < j,
                    \A k \in DataOf(t, t[i].from) : k <= i \/ j <= k
             PROVE  t[j].seq = NextSeq(t[i].seq) /\ t[j].head = t[i].tail
  BY DEF Chained
<1> DEFINE f == t[i].from
<1>1. /\ i \in 1 .. Len(q) - 1 /\ i + 1 \in DataOf(q, f) /\ t[i] = q[i + 1]
      /\ j \in 1 .. Len(q) - 1 /\ j + 1 \in DataOf(q, f) /\ t[j] = q[j + 1]
      /\ Len(q) \in Nat /\ q[i + 1].from = f
  BY TailFacts
<1>2. ASSUME NEW k \in DataOf(q, f)
      PROVE  k <= i + 1 \/ j + 1 <= k
  <2>1. k \in 1 .. Len(q)
    BY TailFacts
  <2>2. CASE k > 1
    <3>1. k - 1 <= i \/ j <= k - 1
      BY <2>2, TailFacts
    <3> QED
      BY <3>1, <2>1, <1>1
  <2> QED
    BY <2>1, <2>2, <1>1
<1>3. i + 1 \in 1 .. Len(q) /\ j + 1 \in 1 .. Len(q) /\ i + 1 < j + 1
  BY <1>1
<1> HIDE DEF t, f
<1> QED
  BY <1>1, <1>2, <1>3 DEF Chained

\* A report, or an outer packet that does not go on with the inner packet in
\* progress, may be read without being taken.
LEMMA TailSkip ==
    ASSUME NEW q \in Seq(Datagrams), q # << >>, NEW p, Awaiting(q, p),
           \/ Head(q).type # "data"
           \/ ~(p.left > 0 /\ p.from = Head(q).from /\ Head(q).seq = p.seq + 1)
    PROVE  /\ Awaiting(Tail(q), p)
           /\ \A f, s, c : Continuing(q, p, f, s, c) => Continuing(Tail(q), p, f, s, c)
           /\ \A f : Unheard(q, p, f) => Unheard(Tail(q), p, f)
<1> DEFINE t == Tail(q)
           goes == p.left > 0 /\ p.seq + 1 < SeqMod
<1> HIDE DEF t
<1>1. goes => 1 \notin DataOf(q, p.from)
  <2> SUFFICES ASSUME goes, 1 \in DataOf(q, p.from)
               PROVE  FALSE
    OBVIOUS
  <2>1. \A j \in DataOf(q, p.from) : 1 <= j
    BY DEF DataOf
  <2>2. q[1].seq = p.seq + 1
    BY <2>1 DEF Awaiting
  <2>3. q[1] = Head(q) /\ q[1].type = "data" /\ q[1].from = p.from
    BY TailFacts DEF DataOf
  <2> QED
    BY <2>2, <2>3
<1>2. \A f : /\ \A i \in DataOf(t, f) :
                   /\ i \in Nat /\ i + 1 \in DataOf(q, f) /\ t[i] = q[i + 1]
             /\ \A i \in DataOf(q, f) : i \in Nat /\ i >= 1 /\ (i > 1 => i - 1 \in DataOf(t, f))
  BY TailFacts DEF t
<1>3. Awaiting(t, p)
  <2> SUFFICES ASSUME goes, NEW i \in DataOf(t, p.from), \A j \in DataOf(t, p.from) : i <= j
               PROVE  t[i].seq = p.seq + 1 /\ t[i].head = p.left
    BY DEF Awaiting
  <2>1. ASSUME NEW j \in DataOf(q, p.from)
        PROVE  i + 1 <= j
    <3>1. j \in Nat /\ j > 1 /\ j - 1 \in DataOf(t, p.from)
      BY <1>1, <1>2
    <3>2. i <= j - 1
      BY <3>1
    <3> QED
      BY <3>1, <3>2, <1>2
  <2>2. i + 1 \in DataOf(q, p.from) /\ t[i] = q[i + 1]
    BY <1>2
  <2> QED
    BY <2>1, <2>2 DEF Awaiting
<1>4. ASSUME NEW f, NEW s, NEW c, Continuing(q, p, f, s, c)
      PROVE  Continuing(t, p, f, s, c)
  <2>1. ASSUME NEW i \in DataOf(t, f), \A j \in DataOf(t, f) : j <= i
        PROVE  s = NextSeq(t[i].seq) /\ c = t[i].tail
    <3>1. i \in Nat /\ i + 1 \in DataOf(q, f) /\ t[i] = q[i + 1]
      BY <1>2
    <3>2. ASSUME NEW j \in DataOf(q, f)
          PROVE  j <= i + 1
      <4>1. j \in Nat /\ (j > 1 => j - 1 \in DataOf(t, f))
        BY <1>2
      <4>2. j > 1 => j - 1 <= i
        BY <4>1, <2>1
      <4> QED
        BY <4>1, <4>2, <3>1
    <3> QED
      BY <3>1, <3>2, <1>4 DEF Continuing
  <2>2. ASSUME DataOf(t, f) = {}, goes, p.from = f
        PROVE  s = p.seq + 1 /\ c = p.left
    <3>1. ASSUME NEW j \in DataOf(q, f) PROVE FALSE
      BY <2>2, <1>1, <1>2
    <3>2. DataOf(q, f) = {}
      BY <3>1
    <3> QED
      BY <3>2, <2>2, <1>4 DEF Continuing
  <2> QED
    BY <2>1, <2>2 DEF Continuing
<1>5. ASSUME NEW f, Unheard(q, p, f)
      PROVE  Unheard(t, p, f)
  <2>1. ASSUME NEW i \in DataOf(t, f) PROVE FALSE
    BY <1>2, <1>5 DEF Unheard
  <2> QED
    BY <2>1, <1>5 DEF Unheard
<1> QED
  BY <1>3, <1>4, <1>5 DEF t

\* When an outer packet is taken, what it leaves in progress goes on in the next
\* one of its process.
LEMMA TailTake ==
    ASSUME NEW q \in Seq(Datagrams), q # << >>, NEW p, NEW r, Chained(q),
           Head(q).type = "data",
           r.left > 0 => /\ r.from = Head(q).from /\ r.seq = Head(q).seq
                         /\ r.left = Head(q).tail
    PROVE  /\ Awaiting(Tail(q), r)
           /\ \A f, s, c : Continuing(q, p, f, s, c) => Continuing(Tail(q), r, f, s, c)
           /\ \A f : Unheard(q, p, f) => Unheard(Tail(q), r, f)
<1> DEFINE t == Tail(q)
           d == Head(q)
           goes == r.left > 0 /\ r.seq + 1 < SeqMod
<1>0. /\ d \in Datagrams /\ q[1] = d /\ d.seq \in 0 .. SeqMod - 1
      /\ SeqMod \in Nat /\ Len(q) \in Nat /\ Len(q) > 0
      /\ 1 \in DataOf(q, d.from) /\ 1 \in 1 .. Len(q)
  BY TailFacts, DatagramFacts DEF DataOf
<1>next. goes => NextSeq(d.seq) = r.seq + 1
  <2> SUFFICES ASSUME goes PROVE NextSeq(d.seq) = r.seq + 1
    OBVIOUS
  <2>1. r.seq = d.seq /\ d.seq + 1 \in 0 .. SeqMod - 1 /\ SeqMod \in Nat \ {0}
    BY <1>0
  <2> QED
    BY <2>1, ModSmall DEF NextSeq
<1> HIDE DEF t, d
<1>2. \A f : /\ \A i \in DataOf(t, f) :
                   /\ i \in Nat /\ i + 1 \in DataOf(q, f) /\ t[i] = q[i + 1]
             /\ \A i \in DataOf(q, f) : i \in Nat /\ i >= 1 /\ (i > 1 => i - 1 \in DataOf(t, f))
  BY TailFacts DEF t
<1>in. \A f : \A i \in DataOf(q, f) : i \in 1 .. Len(q)
  BY DEF DataOf
<1>3. Awaiting(t, r)
  <2> SUFFICES ASSUME goes, NEW i \in DataOf(t, r.from), \A j \in DataOf(t, r.from) : i <= j
               PROVE  t[i].seq = r.seq + 1 /\ t[i].head = r.left
    BY DEF Awaiting
  <2>0. r.from = d.from /\ r.seq = d.seq /\ r.left = d.tail
    BY DEF d
  <2>1. ASSUME NEW j \in DataOf(q, d.from)
        PROVE  j <= 1 \/ i + 1 <= j
    <3>1. j \in Nat /\ i \in Nat /\ (j > 1 => j - 1 \in DataOf(t, r.from))
      BY <1>2, <2>0
    <3>2. j > 1 => i <= j - 1
      BY <3>1
    <3> QED
      BY <3>1, <3>2
  <2>2. i + 1 \in DataOf(q, d.from) /\ t[i] = q[i + 1] /\ i \in Nat /\ i + 1 \in 1 .. Len(q)
    BY <1>2, <2>0, <1>in
  <2>3. i >= 1
    BY DEF DataOf
  <2>4. q[i + 1].seq = NextSeq(d.seq) /\ q[i + 1].head = d.tail
    <3>1. 1 < i + 1
      BY <2>2, <2>3
    <3> QED
      BY <2>1, <2>2, <3>1, <1>0 DEF Chained
  <2> QED
    BY <2>0, <2>2, <2>4, <1>next
<1>4. ASSUME NEW f, NEW s, NEW c, Continuing(q, p, f, s, c)
      PROVE  Continuing(t, r, f, s, c)
  <2>1. ASSUME NEW i \in DataOf(t, f), \A j \in DataOf(t, f) : j <= i
        PROVE  s = NextSeq(t[i].seq) /\ c = t[i].tail
    <3>1. i \in Nat /\ i + 1 \in DataOf(q, f) /\ t[i] = q[i + 1]
      BY <1>2
    <3>2. ASSUME NEW j \in DataOf(q, f)
          PROVE  j <= i + 1
      <4>1. j \in Nat /\ (j > 1 => j - 1 \in DataOf(t, f))
        BY <1>2
      <4>2. j > 1 => j - 1 <= i
        BY <4>1, <2>1
      <4> QED
        BY <4>1, <4>2, <3>1
    <3> QED
      BY <3>1, <3>2, <1>4 DEF Continuing
  <2>2. ASSUME DataOf(t, f) = {}, goes, r.from = f
        PROVE  s = r.seq + 1 /\ c = r.left
    <3>0. r.from = d.from /\ r.seq = d.seq /\ r.left = d.tail
      BY <2>2 DEF d
    <3>1. ASSUME NEW j \in DataOf(q, f) PROVE j <= 1
      <4>1. j \in Nat /\ ~(j > 1)
        BY <2>2, <1>2
      <4> QED
        BY <4>1
    <3>2. s = NextSeq(q[1].seq) /\ c = q[1].tail
      BY <3>0, <3>1, <2>2, <1>0, <1>4 DEF Continuing
    <3> QED
      BY <3>0, <3>2, <2>2, <1>0, <1>next
  <2> QED
    BY <2>1, <2>2 DEF Continuing
<1>5. ASSUME NEW f, Unheard(q, p, f)
      PROVE  Unheard(t, r, f)
  <2>1. ASSUME NEW i \in DataOf(t, f) PROVE FALSE
    BY <1>2, <1>5 DEF Unheard
  <2>2. r.left > 0 => r.from # f
    BY <1>0, <1>5 DEF Unheard, d
  <2> QED
    BY <2>1, <2>2 DEF Unheard
<1> QED
  BY <1>3, <1>4, <1>5 DEF t

\* Nothing is in an empty socket, and nothing that was not sent yet in any.
LEMMA Nothing ==
    ASSUME NEW p, ~(p.left > 0)
    PROVE  /\ Chained(<< >>)
           /\ \A q : Awaiting(q, p)
           /\ \A f, s, c : Continuing(<< >>, p, f, s, c)
           /\ \A f : Unheard(<< >>, p, f)
<1>1. \A f : DataOf(<< >>, f) = {}
  BY DEF DataOf
<1> QED
  BY <1>1 DEF Chained, Awaiting, Continuing, Unheard

\* A process nobody has heard of may go on with anything.
LEMMA UnheardContinues ==
    ASSUME NEW q, NEW p, NEW f, NEW s, NEW c, Unheard(q, p, f)
    PROVE  Continuing(q, p, f, s, c)
BY DEF Unheard, Continuing

-----------------------------------------------------------------------------
\* The two ends.

\* There are two ends.
LEMMA EndsFacts ==
    ASSUME NEW n \in Ends
    PROVE  /\ Other(n) \in Ends /\ Other(n) # n /\ Other(Other(n)) = n
           /\ \A k \in Ends : k = n \/ k = Other(n)
BY DEF Ends, Other

AckType == [start : 0 .. SeqMod - 1, last : 0 .. SeqMod - 1]
PktType == [from : 0 .. MaxStarts, seq : 0 .. SeqMod - 1, left : 0 .. MaxLeft, pure : BOOLEAN]

\* TypeOK without the sockets.
LEMMA TypedParts ==
    ASSUME Typed
    PROVE  /\ \A n \in Ends : Len(sock[n]) <= MaxSock
           /\ sock \in [Ends -> Seq(Datagrams)]
           /\ starts \in [Ends -> 0 .. MaxStarts]
           /\ soerr \in [Ends -> BOOLEAN] /\ due \in [Ends -> BOOLEAN]
           /\ seq \in [Ends -> 0 .. SeqMod - 1] /\ carry \in [Ends -> 0 .. MaxLeft]
           /\ ack \in [Ends -> AckType] /\ m \in [Ends -> PktType]
           /\ blind \in [Ends -> BOOLEAN]
           /\ MaxStarts \in Nat /\ SeqMod \in Nat \ {0, 1} /\ MaxLeft \in Nat /\ MaxSock \in Nat
BY SessionAssumption DEF Typed, TypeOK, AckType, PktType

\* An empty ackinfo, and no inner packet in progress.
LEMMA NothingTyped ==
    /\ NoAck \in AckType /\ NoAck.last = 0 /\ NoAck.start = 0
    /\ NoPkt \in PktType /\ NoPkt.left = 0 /\ NoPkt.from = 0 /\ ~(NoPkt.left > 0)
BY SessionAssumption DEF NoAck, NoPkt, AckType, PktType

\* The top of the loop sends at most one report, and a failed one leaves an error
\* only if it reached nobody.
ReportFacts(n, a, q) ==
    LET o == Other(n) IN
    /\ sock' \in [Ends -> Seq(Datagrams)]
    /\ \A k \in Ends : Len(sock'[k]) <= MaxSock
    /\ sock'[n] = q[n]
    /\ \/ sock'[o] = sock[o]
       \/ (due[n] \/ Quiet) /\ Reaches(n)
          /\ \E r \in Datagrams : r.type = "ack" /\ r.from = starts[n] /\ sock'[o] = Append(sock[o], r)
    /\ ack' \in [Ends -> AckType] /\ ack'[n] \in {a, NoAck} /\ ack'[o] = ack[o]
    /\ due' \in [Ends -> BOOLEAN] /\ (due'[n] => due[n]) /\ due'[o] = due[o]
    /\ soerr' \in [Ends -> BOOLEAN] /\ soerr'[o] = soerr[o] /\ (soerr'[n] => ~Reaches(n))

\* The top of the loop does what ReportFacts says.
LEMMA LoopTopFacts ==
    ASSUME Typed, NEW n \in Ends, pc[n] # "off", NEW a \in AckType,
           NEW q \in [Ends -> Seq(Datagrams)], q[Other(n)] = sock[Other(n)],
           Len(q[n]) <= MaxSock, LoopTop(n, a, q, FALSE)
    PROVE  ReportFacts(n, a, q)
<1> DEFINE o == Other(n)
           report == [type |-> "ack", from |-> starts[n], ok |-> a.last >= a.start]
<1>1. /\ o \in Ends /\ o # n /\ \A k \in Ends : k = n \/ k = o
  BY EndsFacts
<1>2. PICK expired \in {FALSE, due[n] \/ Quiet} :
        LET sending == expired /\ a.start # 0 IN
        /\ due' = [due EXCEPT ![n] = @ /\ ~expired]
        /\ ack' = [ack EXCEPT ![n] = IF sending THEN AfterReport(a) ELSE a]
        /\ sock' = IF sending /\ ~FALSE /\ Reaches(n) /\ Room(q)
                   THEN [q EXCEPT ![o] = Append(@, report)] ELSE q
        /\ \E f \in IF ~sending THEN {FALSE} ELSE IF FALSE \/ Reaches(n) THEN {FALSE} ELSE BOOLEAN :
             soerr' = [soerr EXCEPT ![n] = f]
  BY DEF LoopTop
<1> DEFINE sending == expired /\ a.start # 0
<1>3. PICK f \in IF ~sending THEN {FALSE} ELSE IF Reaches(n) THEN {FALSE} ELSE BOOLEAN :
             soerr' = [soerr EXCEPT ![n] = f]
  BY <1>2
<1>4. /\ soerr' \in [Ends -> BOOLEAN] /\ soerr'[o] = soerr[o] /\ (soerr'[n] => ~Reaches(n))
  BY <1>1, <1>3, TypedParts
<1>5. /\ due' \in [Ends -> BOOLEAN] /\ (due'[n] => due[n]) /\ due'[o] = due[o]
  BY <1>1, <1>2, TypedParts
<1>6. /\ ack' \in [Ends -> AckType] /\ ack'[n] \in {a, NoAck} /\ ack'[o] = ack[o]
  BY <1>1, <1>2, TypedParts, NothingTyped DEF AfterReport
<1>7. report \in Datagrams /\ report.type = "ack" /\ report.from = starts[n]
  <2>1. starts[n] \in 1 .. MaxStarts
    BY TypedParts, SMTT(30) DEF Typed
  <2> HIDE DEF Typed
  <2>2. (a.last >= a.start) \in BOOLEAN
    OBVIOUS
  <2> QED
    BY <2>1, <2>2 DEF Datagrams
<1>8. CASE sending /\ Reaches(n) /\ Room(q)
  <2>1. sock' = [q EXCEPT ![o] = Append(@, report)]
    BY <1>2, <1>8
  <2>2. sock' \in [Ends -> Seq(Datagrams)] /\ sock'[n] = q[n] /\ sock'[o] = Append(sock[o], report)
    BY <2>1, <1>1, <1>7
  <2>3. Len(sock'[o]) = Len(q[o]) + 1 /\ Len(q[o]) \in Nat /\ Len(q[n]) \in Nat
    BY <2>2, <1>1, <1>7
  <2>4. Len(q[o]) + Len(q[n]) < MaxSock
    <3>1. Len(q["client"]) + Len(q["server"]) < MaxSock
      BY <1>8 DEF Room
    <3>2. (n = "client" /\ o = "server") \/ (n = "server" /\ o = "client")
      BY DEF Other, Ends
    <3> HIDE DEF o
    <3>3. PICK x \in Nat : x = Len(q["client"])
      BY <3>2, <2>3
    <3>4. PICK y \in Nat : y = Len(q["server"])
      BY <3>2, <2>3
    <3>5. x + y < MaxSock
      BY <3>1, <3>3, <3>4
    <3>6. (Len(q[n]) = x /\ Len(q[o]) = y) \/ (Len(q[n]) = y /\ Len(q[o]) = x)
      BY <3>2, <3>3, <3>4
    <3> QED
      BY <3>5, <3>6, SessionAssumption
  <2>5. \A k \in Ends : Len(sock'[k]) <= MaxSock
    <3>1. Len(sock'[o]) <= MaxSock
      BY <2>3, <2>4, TypedParts
    <3>2. Len(sock'[n]) <= MaxSock
      BY <2>2
    <3> HIDE DEF o
    <3> QED
      BY <3>1, <3>2, <1>1
  <2>6. due[n] \/ Quiet
    BY <1>8
  <2> QED
    BY <2>2, <2>5, <2>6, <1>4, <1>5, <1>6, <1>7, <1>8 DEF ReportFacts
<1>9. CASE ~(sending /\ Reaches(n) /\ Room(q))
  <2>1. sock' = q
    BY <1>2, <1>9
  <2>2. \A k \in Ends : Len(sock'[k]) <= MaxSock
    BY <2>1, <1>1, TypedParts
  <2> QED
    BY <2>1, <2>2, <1>4, <1>5, <1>6 DEF ReportFacts
<1> QED
  BY <1>8, <1>9

-----------------------------------------------------------------------------
\* Steps of the reading thread, seen from its peer and from itself.

\* A report goes to the peer, or none.
LEMMA ReportOut ==
    ASSUME Typed, NEW n \in Ends, Into(Other(n)), NEW a, NEW q, ReportFacts(n, a, q),
           UNCHANGED <<pc, starts, peeraddr>>, seq'[n] = seq[n], carry'[n] = carry[n],
           m'[Other(n)] = m[Other(n)], blind'[Other(n)] = blind[Other(n)],
           fate'[Other(n)] = fate[Other(n)]
    PROVE  Into(Other(n))'
<1> DEFINE o == Other(n)
           q2 == sock'[o]
           p == Prog(o)
<1>1. o \in Ends /\ o # n /\ Other(o) = n
  BY EndsFacts
<1>2. sock[o] \in Seq(Datagrams) /\ starts[n] \in Nat /\ Len(sock[o]) \in Nat
  BY <1>1, TypedParts
<1>3. Prog(o)' = p
  BY DEF Prog
<1>4. /\ Chained(q2) /\ Awaiting(q2, p)
      /\ \A f, s, c : Continuing(sock[o], p, f, s, c) => Continuing(q2, p, f, s, c)
      /\ \A f : Unheard(sock[o], p, f) => Unheard(q2, p, f)
      /\ \A i \in 1 .. Len(q2) : Shaped(q2[i]) /\ q2[i].from <= starts[n]
      /\ pc[o] = "off" => q2 = << >>
  <2>0. /\ Chained(sock[o]) /\ Awaiting(sock[o], p)
        /\ \A i \in 1 .. Len(sock[o]) : Shaped(sock[o][i]) /\ sock[o][i].from <= starts[n]
        /\ pc[o] = "off" => sock[o] = << >>
    BY <1>1 DEF Into
  <2>1. CASE q2 = sock[o]
    BY <2>0, <2>1
  <2>2. CASE q2 # sock[o]
    <3>1. Reaches(n)
      BY <2>2 DEF ReportFacts
    <3>2. PICK r \in Datagrams : r.type = "ack" /\ r.from = starts[n] /\ q2 = Append(sock[o], r)
      BY <2>2 DEF ReportFacts
    <3>3. pc[o] # "off"
      BY <3>1 DEF Reaches, Other, Ends
    <3>4. /\ Len(q2) = Len(sock[o]) + 1 /\ q2[Len(sock[o]) + 1] = r
          /\ \A i \in 1 .. Len(sock[o]) : q2[i] = sock[o][i]
      BY <3>2, <1>2
    <3>5. Shaped(r)
      BY <3>2 DEF Shaped
    <3> HIDE DEF q2, p
    <3>6. \A i \in 1 .. Len(q2) : Shaped(q2[i]) /\ q2[i].from <= starts[n]
      BY <3>4, <3>5, <2>0, <3>2, <1>2
    <3>7. /\ Chained(q2) /\ Awaiting(q2, p)
          /\ \A f, s, c : Continuing(sock[o], p, f, s, c) => Continuing(q2, p, f, s, c)
          /\ \A f : Unheard(sock[o], p, f) => Unheard(q2, p, f)
      BY <3>2, <2>0, <1>2, AppendAck
    <3> QED
      BY <3>3, <3>6, <3>7
  <2> QED
    BY <2>1, <2>2
<1>5. Reaches(n)' <=> Reaches(n)
  BY DEF Reaches, Connected
<1>6. Writing(n)' <=> Writing(n)
  BY DEF Writing
<1>7. ack'[o] = ack[o] /\ (soerr'[n] => ~Reaches(n))
  BY DEF ReportFacts
<1>8. /\ pc' = pc /\ starts' = starts /\ seq'[n] = seq[n] /\ carry'[n] = carry[n]
      /\ m'[o] = m[o] /\ blind'[o] = blind[o] /\ fate'[o] = fate[o]
  OBVIOUS
<1>9. /\ m[o].from <= starts[n]
      /\ p.left > 0 => p.pure
      /\ m[o].left > 0 => ack[o].last \in {0, m[o].seq}
      /\ Writing(n) /\ Reaches(n) => Continuing(sock[o], p, starts[n], seq[n], carry[n])
      /\ pc[n] \in {"bound", "peeked", "connected"} \/ (Writing(n) /\ Reaches(n) /\ soerr[n]) =>
           Unheard(sock[o], p, starts[n])
      /\ pc[o] = "off" => m[o] = NoPkt
      /\ fate[o] \in {"assert", "spliced"} => blind[o]
  BY <1>1 DEF Into
<1> HIDE DEF q2, p, o
<1> QED
  BY <1>1, <1>3, <1>4, <1>5, <1>6, <1>7, <1>8, <1>9 DEF Into, q2, o

\* What the reader itself keeps, when it takes nothing and the datagram it read, if
\* any, is a report or an old outer packet.
LEMMA SkipIn ==
    ASSUME Typed, NEW n \in Ends, Into(n), NEW a, NEW q, ReportFacts(n, a, q),
           a.last = ack[n].last, pc[n] # "off",
           \/ q[n] = sock[n]
           \/ /\ sock[n] # << >> /\ q[n] = Tail(sock[n])
              /\ Head(sock[n]).type # "data" \/ Head(sock[n]).seq <= ack[n].last,
           UNCHANGED <<pc, starts, peeraddr, seq, carry>>,
           m'[n] = m[n], blind'[n] = blind[n], fate'[n] = fate[n]
    PROVE  Into(n)'
<1> DEFINE o == Other(n)
           q2 == sock'[n]
           p == Prog(n)
<1>1. o \in Ends /\ o # n /\ Other(o) = n
  BY EndsFacts
<1>2. /\ sock[n] \in Seq(Datagrams) /\ starts[o] \in Nat /\ Len(sock[n]) \in Nat
      /\ m[n] \in PktType /\ ack[n] \in AckType /\ SeqMod \in Nat
  BY <1>1, TypedParts
<1>3. Prog(n)' = p
  BY DEF Prog
<1>q. q2 = q[n]
  BY DEF ReportFacts
<1>9. /\ Chained(sock[n])
      /\ \A i \in 1 .. Len(sock[n]) : Shaped(sock[n][i]) /\ sock[n][i].from <= starts[o]
      /\ m[n].from <= starts[o]
      /\ Awaiting(sock[n], p)
      /\ p.left > 0 => p.pure
      /\ m[n].left > 0 => ack[n].last \in {0, m[n].seq}
      /\ Writing(o) /\ Reaches(o) => Continuing(sock[n], p, starts[o], seq[o], carry[o])
      /\ pc[o] \in {"bound", "peeked", "connected"} \/ (Writing(o) /\ Reaches(o) /\ soerr[o]) =>
           Unheard(sock[n], p, starts[o])
      /\ fate[n] \in {"assert", "spliced"} => blind[n]
  BY DEF Into
<1>4. /\ Chained(q2) /\ Awaiting(q2, p)
      /\ \A f, s, c : Continuing(sock[n], p, f, s, c) => Continuing(q2, p, f, s, c)
      /\ \A f : Unheard(sock[n], p, f) => Unheard(q2, p, f)
      /\ \A i \in 1 .. Len(q2) : Shaped(q2[i]) /\ q2[i].from <= starts[o]
  <2>1. CASE q[n] = sock[n]
    BY <2>1, <1>9, <1>q
  <2>2. CASE q[n] # sock[n]
    <3>1. /\ sock[n] # << >> /\ q2 = Tail(sock[n])
          /\ Head(sock[n]).type # "data" \/ Head(sock[n]).seq <= ack[n].last
      BY <2>2, <1>q
    <3>2. ASSUME Head(sock[n]).type = "data", p.left > 0, Head(sock[n]).seq = p.seq + 1
          PROVE  FALSE
      <4>1. p = m[n] /\ p.seq \in Nat /\ ack[n].last \in {0, p.seq}
        BY <3>2, <1>2, <1>9, NothingTyped DEF Prog, PktType
      <4>2. p.seq + 1 <= ack[n].last
        BY <3>1, <3>2
      <4> HIDE DEF p
      <4> QED
        BY <4>1, <4>2
    <3>3. \A i \in 1 .. Len(q2) : q2[i] = sock[n][i + 1] /\ i + 1 \in 1 .. Len(sock[n])
      BY <3>1, <1>2, TailFacts
    <3> HIDE DEF p, q2
    <3>4. \A i \in 1 .. Len(q2) : Shaped(q2[i]) /\ q2[i].from <= starts[o]
      BY <3>3, <1>9
    <3>5. Chained(q2)
      BY <3>1, <1>2, <1>9, TailChained
    <3>6. \/ Head(sock[n]).type # "data"
          \/ ~(p.left > 0 /\ p.from = Head(sock[n]).from /\ Head(sock[n]).seq = p.seq + 1)
      BY <3>2
    <3> QED
      BY <3>1, <3>4, <3>5, <3>6, <1>2, <1>9, TailSkip
  <2> QED
    BY <2>1, <2>2
<1>5. Reaches(o)' <=> Reaches(o)
  BY DEF Reaches, Connected
<1>6. Writing(o)' <=> Writing(o)
  BY DEF Writing
<1>7. ack'[n].last \in {ack[n].last, 0} /\ soerr'[o] = soerr[o]
  BY NothingTyped DEF ReportFacts
<1>8. /\ pc' = pc /\ starts' = starts /\ seq'[o] = seq[o] /\ carry'[o] = carry[o]
      /\ m'[n] = m[n] /\ blind'[n] = blind[n] /\ fate'[n] = fate[n] /\ pc[n] # "off"
  OBVIOUS
<1>10. m'[n].left > 0 => ack'[n].last \in {0, m'[n].seq}
  BY <1>7, <1>8, <1>9
<1> HIDE DEF q2, p, o
<1> QED
  BY <1>1, <1>3, <1>4, <1>5, <1>6, <1>7, <1>8, <1>9, <1>10 DEF Into, q2, o

\* What add_to_inner_packet leaves in progress, in any case and when the outer packet
\* goes on with the inner packet in progress.
LEMMA UnpackFacts ==
    ASSUME NEW d \in Datagrams, d.type = "data", Shaped(d), NEW p \in PktType,
           NEW r \in Unpack(d, p)
    PROVE  /\ r.pkt \in PktType /\ r.fate \in {"ok", "assert", "spliced"}
           /\ r.pkt.from \in {0, p.from, d.from}
           /\ r.fate # "assert" /\ r.pkt.left > 0 => r.pkt.seq = d.seq
           /\ (p.left > 0 => p.pure /\ Follows(d, p) /\ d.head = p.left) =>
                /\ r.fate = "ok"
                /\ r.pkt.left > 0 => /\ r.pkt.from = d.from /\ r.pkt.left = d.tail
                                     /\ r.pkt.pure
<1> DEFINE belongs == p.pure /\ Follows(d, p)
           done == [pkt |-> Begin(d), fate |-> IF belongs THEN "ok" ELSE "spliced"]
           failed == [pkt |-> p, fate |-> "assert"]
           fits == p.left > 0 => p.pure /\ Follows(d, p) /\ d.head = p.left
<1>1. /\ d.from \in 1 .. MaxStarts /\ d.seq \in 0 .. SeqMod - 1
      /\ d.head \in 0 .. MaxLeft /\ d.tail \in 0 .. MaxLeft
      /\ MaxStarts \in Nat /\ SeqMod \in Nat \ {0, 1} /\ MaxLeft \in Nat
  BY DatagramFacts
<1>2. /\ p.left \in 0 .. MaxLeft /\ p.pure \in BOOLEAN /\ p.from \in 0 .. MaxStarts
      /\ p.seq \in 0 .. SeqMod - 1
  BY DEF PktType
<1>3. /\ Begin(d) \in PktType /\ Begin(d).from \in {0, d.from}
      /\ Begin(d).left > 0 => /\ Begin(d).seq = d.seq /\ Begin(d).from = d.from
                              /\ Begin(d).left = d.tail /\ Begin(d).pure
  <2>1. CASE d.tail = 0
    BY <2>1, NothingTyped DEF Begin
  <2>2. CASE d.tail # 0
    BY <2>2, <1>1 DEF Begin, PktType
  <2> QED
    BY <2>1, <2>2
<1>4. belongs \in BOOLEAN
  OBVIOUS
<1>a. CASE p.left = 0
  <2>1. r = [pkt |-> IF d.head > 1 THEN NoPkt ELSE Begin(d), fate |-> "ok"]
    BY <1>a DEF Unpack
  <2>2. r.fate = "ok" /\ (r.pkt = NoPkt \/ r.pkt = Begin(d))
    BY <2>1
  <2> QED
    BY <2>2, <1>3, NothingTyped
<1>b. CASE p.left > 0 /\ d.head > 1 /\ p.left > 1
  <2> DEFINE k == [from |-> p.from, seq |-> d.seq, left |-> p.left - 1, pure |-> belongs]
  <2>1. r = [pkt |-> [p EXCEPT !.seq = d.seq, !.left = @ - 1, !.pure = belongs], fate |-> "ok"]
    BY <1>b, <1>1, <1>2 DEF Unpack
  <2>2. r.fate = "ok" /\ r.pkt = [p EXCEPT !.seq = d.seq, !.left = @ - 1, !.pure = belongs]
    BY <2>1
  <2> HIDE DEF belongs
  <2>3. r.pkt = k
    BY <2>2 DEF PktType
  <2>4. k \in PktType
    BY <1>1, <1>2, <1>4, <1>b DEF PktType
  <2>5. fits => d.from = p.from /\ d.tail = p.left - 1 /\ belongs
    BY <1>b DEF Follows, Shaped, belongs
  <2> QED
    BY <2>2, <2>3, <2>4, <2>5
<1>c. CASE p.left = 1 /\ d.head > 1
  <2>1. r = [done EXCEPT !.pkt = NoPkt]
    BY <1>c, <1>1, <1>2 DEF Unpack
  <2>2. r.pkt = NoPkt /\ r.fate \in {"ok", "spliced"}
    BY <2>1
  <2>3. ~fits
    BY <1>c
  <2> QED
    BY <2>2, <2>3, NothingTyped
<1>d. CASE p.left > 0 /\ d.head < 2 /\ p.left # d.head
  <2>1. r = failed
    BY <1>d, <1>1, <1>2 DEF Unpack
  <2>2. r.pkt = p /\ r.fate = "assert"
    BY <2>1
  <2>3. ~fits
    BY <1>d
  <2> QED
    BY <2>2, <2>3
<1>e. CASE p.left = 1 /\ d.head = 1
  <2>1. r \in IF belongs THEN {done} ELSE {done, failed}
    BY <1>e, <1>1, <1>2 DEF Unpack
  <2>2. CASE r = done
    <3>1. r.pkt = Begin(d) /\ r.fate = IF belongs THEN "ok" ELSE "spliced"
      BY <2>2
    <3>2. fits => belongs
      BY <1>e
    <3> QED
      BY <3>1, <3>2, <1>3
  <2>3. CASE r # done
    <3>1. r = failed /\ ~belongs
      BY <2>1, <2>3
    <3>2. r.pkt = p /\ r.fate = "assert"
      BY <3>1
    <3>3. ~fits
      BY <3>1, <1>e
    <3> QED
      BY <3>2, <3>3
  <2> QED
    BY <2>2, <2>3
<1> QED
  BY <1>1, <1>2, <1>a, <1>b, <1>c, <1>d, <1>e

\* What the reader overlooks is just what does not follow.
LEMMA OverlooksFacts ==
    ASSUME Typed, NEW n \in Ends, Into(n), NEW d, d.seq \in 0 .. SeqMod - 1, d.seq > ack[n].last,
           NEW p, p = InProgress(n, d.seq)
    PROVE  Overlooks(n, d, p) <=> p.left > 0 /\ ~Follows(d, p)
<1>1. /\ m[n] \in PktType /\ ack[n] \in AckType /\ SeqMod \in Nat
  BY TypedParts
<1>2. m[n].left > 0 => ack[n].last \in {0, m[n].seq}
  BY DEF Into
<1>3. CASE p.left > 0 /\ ack[n].last # 0
  <2>1. p = m[n] /\ d.seq = NextSeq(ack[n].last) /\ ack[n].last = p.seq
    BY <1>2, <1>3, NothingTyped DEF InProgress, Gap
  <2>2. ack[n].last \in 0 .. SeqMod - 1
    BY <1>1 DEF AckType
  <2>3. NextSeq(ack[n].last) \in {ack[n].last + 1, 0}
    BY <2>2, <1>1 DEF NextSeq
  <2>4. d.seq = p.seq + 1
    BY <2>1, <2>2, <2>3
  <2> QED
    BY <1>3, <2>4 DEF Overlooks, Follows
<1>4. CASE ~(p.left > 0 /\ ack[n].last # 0)
  BY <1>4 DEF Overlooks, Follows
<1> QED
  BY <1>3, <1>4

\* An outer packet is taken.
LEMMA TakeIn ==
    ASSUME Typed, NEW n \in Ends, Into(n), sock[n] # << >>, pc[n] # "off",
           NEW a, NEW q, ReportFacts(n, a, q), q[n] = Tail(sock[n]),
           NEW d, d = Head(sock[n]), d.type = "data", a.last = d.seq,
           NEW p, p = InProgress(n, d.seq), NEW r \in Unpack(d, p), r.fate # "assert",
           m'[n] = r.pkt, fate'[n] = (IF r.fate = "ok" THEN fate[n] ELSE r.fate),
           blind'[n] = (blind[n] \/ (p.left > 0 /\ ~Follows(d, p))),
           UNCHANGED <<pc, starts, peeraddr, seq, carry>>
    PROVE  Into(n)'
<1> DEFINE o == Other(n)
           q2 == sock'[n]
           P == Prog(n)
           P2 == IF blind'[n] THEN NoPkt ELSE r.pkt
<1>1. o \in Ends /\ o # n /\ Other(o) = n
  BY EndsFacts
<1>2. /\ sock[n] \in Seq(Datagrams) /\ starts[o] \in Nat /\ Len(sock[n]) \in Nat
      /\ m[n] \in PktType /\ ack[n] \in AckType /\ SeqMod \in Nat /\ blind[n] \in BOOLEAN
  BY <1>1, TypedParts
<1>3. Prog(n)' = P2
  BY DEF Prog
<1>q. q2 = Tail(sock[n])
  BY DEF ReportFacts
<1>9. /\ Chained(sock[n])
      /\ \A i \in 1 .. Len(sock[n]) : Shaped(sock[n][i]) /\ sock[n][i].from <= starts[o]
      /\ m[n].from <= starts[o]
      /\ Awaiting(sock[n], P)
      /\ P.left > 0 => P.pure
      /\ Writing(o) /\ Reaches(o) => Continuing(sock[n], P, starts[o], seq[o], carry[o])
      /\ pc[o] \in {"bound", "peeked", "connected"} \/ (Writing(o) /\ Reaches(o) /\ soerr[o]) =>
           Unheard(sock[n], P, starts[o])
      /\ fate[n] \in {"assert", "spliced"} => blind[n]
  BY DEF Into
<1>d. /\ d \in Datagrams /\ d.from \in 1 .. MaxStarts /\ d.seq \in 0 .. SeqMod - 1
      /\ sock[n][1] = d /\ 1 \in 1 .. Len(sock[n]) /\ Shaped(d) /\ d.from <= starts[o]
  <2>1. d \in Datagrams /\ sock[n][1] = d /\ 1 \in 1 .. Len(sock[n])
    BY <1>2, TailFacts
  <2> QED
    BY <2>1, <1>9, DatagramFacts
<1>p. p \in PktType /\ (p = m[n] \/ p = NoPkt)
  BY <1>2, NothingTyped DEF InProgress
\* Unless the reader is blind, the outer packet goes on with the inner one.
<1>sound. ASSUME ~blind'[n], p.left > 0
          PROVE  p.pure /\ Follows(d, p) /\ d.head = p.left
  <2>1. ~blind[n] /\ Follows(d, p) /\ p = m[n] /\ P = m[n]
    BY <1>sound, <1>p, NothingTyped DEF Prog
  <2>2. d.from = p.from /\ d.seq = p.seq + 1
    BY <2>1 DEF Follows
  <2>3. p.seq \in Nat /\ p.seq + 1 < SeqMod
    BY <2>2, <1>d, <1>p, <1>2 DEF PktType
  <2>4. 1 \in DataOf(sock[n], p.from) /\ \A j \in DataOf(sock[n], p.from) : 1 <= j
    BY <1>d, <2>2 DEF DataOf
  <2>5. d.head = p.left
    BY <2>1, <2>3, <2>4, <1>9, <1>d, <1>sound DEF Awaiting
  <2> QED
    BY <2>1, <2>5, <1>9, <1>sound
<1>u. /\ r.pkt \in PktType /\ r.fate \in {"ok", "assert", "spliced"}
      /\ r.pkt.from \in {0, p.from, d.from}
      /\ r.pkt.left > 0 => r.pkt.seq = d.seq
      /\ ~blind'[n] => r.fate = "ok"
      /\ ~blind'[n] /\ r.pkt.left > 0 => /\ r.pkt.from = d.from /\ r.pkt.left = d.tail
                                         /\ r.pkt.pure
  BY <1>sound, <1>d, <1>p, UnpackFacts
<1>w. P2.left > 0 => /\ P2.from = d.from /\ P2.seq = d.seq /\ P2.left = d.tail /\ P2.pure
  BY <1>u, NothingTyped
<1> HIDE DEF P, P2
<1>4. /\ Chained(q2) /\ Awaiting(q2, P2)
      /\ \A f, s, c : Continuing(sock[n], P, f, s, c) => Continuing(q2, P2, f, s, c)
      /\ \A f : Unheard(sock[n], P, f) => Unheard(q2, P2, f)
      /\ \A i \in 1 .. Len(q2) : Shaped(q2[i]) /\ q2[i].from <= starts[o]
  <2>1. \A i \in 1 .. Len(q2) : q2[i] = sock[n][i + 1] /\ i + 1 \in 1 .. Len(sock[n])
    BY <1>q, <1>2, TailFacts
  <2> HIDE DEF q2
  <2>2. \A i \in 1 .. Len(q2) : Shaped(q2[i]) /\ q2[i].from <= starts[o]
    BY <2>1, <1>9
  <2>3. Chained(q2)
    BY <1>q, <1>2, <1>9, TailChained
  <2> QED
    BY <2>2, <2>3, <1>q, <1>2, <1>9, <1>w, TailTake
<1>5. Reaches(o)' <=> Reaches(o)
  BY DEF Reaches, Connected
<1>6. Writing(o)' <=> Writing(o)
  BY DEF Writing
<1>7. ack'[n].last \in {d.seq, 0} /\ soerr'[o] = soerr[o]
  BY NothingTyped DEF ReportFacts
<1>8. /\ pc' = pc /\ starts' = starts /\ seq'[o] = seq[o] /\ carry'[o] = carry[o] /\ pc[n] # "off"
  OBVIOUS
<1>10. m'[n].left > 0 => ack'[n].last \in {0, m'[n].seq}
  BY <1>7, <1>u
<1>11. m'[n].from <= starts[o]
  <2>1. p.from <= starts[o]
    BY <1>9, <1>p, <1>2, NothingTyped
  <2> QED
    BY <2>1, <1>d, <1>2, <1>u
<1>12. fate'[n] \in {"assert", "spliced"} => blind'[n]
  BY <1>9, <1>u
<1> HIDE DEF q2, o
<1> QED
  BY <1>1, <1>3, <1>4, <1>5, <1>6, <1>7, <1>8, <1>9, <1>10, <1>11, <1>12, <1>w DEF Into, q2, o

-----------------------------------------------------------------------------
\* Steps of main and of the writing thread.

\* Direction n is the same as before, but for what the sender may do: it no longer
\* writes or reaches anybody it did not write to or reach already.
LEMMA Quieter ==
    ASSUME NEW n \in Ends, Into(n), sock'[n] = sock[n], m'[n] = m[n], blind'[n] = blind[n],
           ack'[n] = ack[n], fate'[n] = fate[n], starts'[Other(n)] = starts[Other(n)],
           seq'[Other(n)] = seq[Other(n)], carry'[Other(n)] = carry[Other(n)],
           pc'[n] = "off" => pc[n] = "off",
           (Writing(Other(n)) /\ Reaches(Other(n)))' => Writing(Other(n)) /\ Reaches(Other(n)),
           \/ pc'[Other(n)] \in {"bound", "peeked", "connected"}
           \/ (Writing(Other(n)) /\ Reaches(Other(n)))' /\ soerr'[Other(n)]
           => \/ pc[Other(n)] \in {"bound", "peeked", "connected"}
              \/ Writing(Other(n)) /\ Reaches(Other(n)) /\ soerr[Other(n)]
    PROVE  Into(n)'
<1>1. Prog(n)' = Prog(n)
  BY DEF Prog
<1> QED
  BY <1>1 DEF Into

\* A process is gone.
LEMMA GoneInto ==
    ASSUME Typed, NEW n \in Ends, \A k \in Ends : Into(k), Gone(n),
           UNCHANGED <<starts, peeraddr>>,
           blind'[Other(n)] = blind[Other(n)], fate'[Other(n)] = fate[Other(n)],
           fate'[n] \in {"assert", "spliced"} => blind'[n]
    PROVE  \A k \in Ends : Into(k)'
<1> DEFINE o == Other(n)
<1>1. o \in Ends /\ o # n /\ Other(o) = n /\ \A k \in Ends : k = n \/ k = o
  BY EndsFacts
<1>2. /\ pc'[n] = "off" /\ pc'[o] = pc[o] /\ sock'[n] = << >> /\ sock'[o] = sock[o]
      /\ soerr'[o] = soerr[o] /\ m'[n] = NoPkt /\ m'[o] = m[o]
      /\ ack'[n] = NoAck /\ ack'[o] = ack[o] /\ seq'[o] = seq[o] /\ carry'[o] = carry[o]
  <2>1. pc \in [Ends -> {"off", "bound", "peeked", "connected", "ingress", "egress", "ready"}]
    BY DEF Typed, TypeOK
  <2> QED
    BY <2>1, <1>1, TypedParts DEF Gone
<1>3. Into(n)'
  <2>1. Prog(n)' = NoPkt
    BY <1>2 DEF Prog
  <2>2. starts'[o] = starts[o] /\ starts[o] \in Nat
    BY <1>1, TypedParts
  <2>3. Len(<< >>) = 0
    OBVIOUS
  <2> QED
    BY <1>2, <2>1, <2>2, <2>3, Nothing, NothingTyped DEF Into
<1>4. Into(o)'
  <2>1. ~Writing(n)' /\ pc'[n] \notin {"bound", "peeked", "connected"}
    BY <1>2 DEF Writing
  <2>2. Prog(o)' = Prog(o)
    BY <1>2 DEF Prog
  <2>3. Into(o)
    BY <1>1
  <2> QED
    BY <1>1, <1>2, <2>1, <2>2, <2>3 DEF Into
<1> QED
  BY <1>1, <1>3, <1>4

\* A process is started.  Nobody has heard of it.
LEMMA StartInto ==
    ASSUME Typed, NEW n \in Ends, \A k \in Ends : Into(k), Start(n)
    PROVE  \A k \in Ends : Into(k)'
<1> DEFINE o == Other(n)
<1>1. o \in Ends /\ o # n /\ Other(o) = n /\ \A k \in Ends : k = n \/ k = o
  BY EndsFacts
<1>2. /\ pc[n] = "off" /\ pc'[n] # "off" /\ pc'[o] = pc[o] /\ ~Writing(n)'
      /\ starts'[n] = starts[n] + 1 /\ starts'[o] = starts[o]
      /\ starts[n] \in Nat /\ starts[o] \in Nat
      /\ fate'[n] = "ok" /\ fate'[o] = fate[o] /\ blind'[n] = FALSE /\ blind'[o] = blind[o]
      /\ UNCHANGED <<sock, soerr, seq, carry, ack, m>>
  <2>1. /\ pc \in [Ends -> {"off", "bound", "peeked", "connected", "ingress", "egress", "ready"}]
        /\ fate \in [Ends -> {"ok", "assert", "null", "spliced"}]
    BY DEF Typed, TypeOK
  <2> QED
    BY <2>1, <1>1, TypedParts DEF Start, network, sender, Writing
<1>3. Into(n)'
  <2>1. sock[n] = << >> /\ m[n] = NoPkt
    BY <1>2 DEF Into
  <2>2. Prog(n)' = NoPkt
    BY <1>2, <2>1 DEF Prog
  <2>3. Len(<< >>) = 0
    OBVIOUS
  <2> QED
    BY <1>2, <2>1, <2>2, <2>3, Nothing, NothingTyped DEF Into
<1>4. Into(o)'
  <2>0. Into(o)
    BY <1>1
  <2>1. Prog(o)' = Prog(o)
    BY <1>2 DEF Prog
  <2>2. m[o].from \in Nat /\ m[o].from <= starts[n] /\ sock[o] \in Seq(Datagrams)
    BY <2>0, <1>1, TypedParts DEF Into, PktType
  <2>3. \A i \in 1 .. Len(sock[o]) : /\ Shaped(sock[o][i]) /\ sock[o][i].from \in Nat
                                     /\ sock[o][i].from <= starts[n]
    <3>1. \A i \in 1 .. Len(sock[o]) : sock[o][i] \in Datagrams
      BY <2>2
    <3> QED
      BY <3>1, <2>0, <1>1, DatagramFacts DEF Into
  <2>4. Unheard(sock[o], Prog(o), starts[n] + 1)
    <3>1. Prog(o).left > 0 => Prog(o).from # starts[n] + 1
      BY <1>2, <2>2, NothingTyped DEF Prog
    <3>2. ASSUME NEW i \in DataOf(sock[o], starts[n] + 1) PROVE FALSE
      <4>1. i \in 1 .. Len(sock[o]) /\ sock[o][i].from = starts[n] + 1
        BY DEF DataOf
      <4> QED
        BY <4>1, <2>3, <1>2
    <3> QED
      BY <3>1, <3>2 DEF Unheard
  <2>5. \A i \in 1 .. Len(sock[o]) : Shaped(sock[o][i]) /\ sock[o][i].from <= starts[n] + 1
    BY <2>3, <1>2
  <2>6. m[o].from <= starts[n] + 1
    BY <2>2, <1>2
  <2> QED
    BY <1>1, <1>2, <2>0, <2>1, <2>4, <2>5, <2>6 DEF Into
<1> QED
  BY <1>1, <1>3, <1>4

\* A datagram is sent, to a socket or to nobody.
LEMMA SendInto ==
    ASSUME Typed, NEW n \in Ends, \A k \in Ends : Into(k), Send(n)
    PROVE  /\ \A k \in Ends : Into(k)'
           /\ sock' \in [Ends -> Seq(Datagrams)]
           /\ \A k \in Ends : Len(sock'[k]) <= MaxSock
           /\ carry' \in [Ends -> 0 .. MaxLeft] /\ soerr' \in [Ends -> BOOLEAN]
           /\ sock'["client"] # sock["client"] => n = "server" /\
                \E d \in Datagrams : d.type = "data" /\ sock'["client"] = Append(sock["client"], d)
<1> DEFINE o == Other(n)
<1>1. o \in Ends /\ o # n /\ Other(o) = n /\ \A k \in Ends : k = n \/ k = o
  BY EndsFacts
<1> DEFINE D(t) == [type |-> "data", from |-> starts[n], seq |-> seq[n],
                    head |-> carry[n], tail |-> t]
<1>2. PICK t \in Tails(n) :
        /\ carry' = [carry EXCEPT ![n] = t]
        /\ IF Reaches(n)
           THEN /\ Room(sock)
                /\ sock' = [sock EXCEPT ![o] = Append(@, D(t))]
                /\ UNCHANGED soerr
           ELSE Unreachable(n)
  BY DEF Send
<1> DEFINE d == D(t)
<1>3. /\ Writing(n) /\ ~soerr[n] /\ seq' = [seq EXCEPT ![n] = NextSeq(@)]
      /\ UNCHANGED <<pc, starts, peeraddr, busy, ack, due, m, fate, blind>>
  BY DEF Send, receiver
<1>4. /\ t \in 0 .. MaxLeft /\ (carry[n] > 1 => t = carry[n] - 1) /\ carry[n] \in 0 .. MaxLeft
  BY <1>2, TypedParts DEF Tails
<1>5. /\ carry' \in [Ends -> 0 .. MaxLeft] /\ carry'[n] = t /\ carry'[o] = carry[o]
      /\ seq'[n] = NextSeq(seq[n]) /\ seq'[o] = seq[o]
  BY <1>1, <1>2, <1>3, <1>4, TypedParts
<1>6. /\ d \in Datagrams /\ d.type = "data" /\ d.from = starts[n] /\ d.seq = seq[n]
      /\ d.head = carry[n] /\ d.tail = t /\ Shaped(d) /\ starts[n] \in Nat
  <2>1. starts[n] \in 1 .. MaxStarts /\ seq[n] \in 0 .. SeqMod - 1
    <3>1. pc[n] # "off"
      BY <1>3 DEF Writing
    <3>2. starts[n] > 0
      BY <3>1 DEF Typed
    <3> QED
      BY <3>2, TypedParts
  <2> HIDE DEF Typed
  <2> QED
    BY <2>1, <1>4 DEF Datagrams, Shaped
<1> HIDE DEF D, d
<1>7. /\ sock \in [Ends -> Seq(Datagrams)] /\ soerr \in [Ends -> BOOLEAN] /\ MaxSock \in Nat
      /\ \A k \in Ends : Len(sock[k]) <= MaxSock
  BY TypedParts
<1>8. /\ Writing(n)' /\ (Writing(o)' <=> Writing(o)) /\ (Reaches(n)' <=> Reaches(n))
      /\ (Reaches(o)' <=> Reaches(o))
      /\ Prog(n)' = Prog(n) /\ Prog(o)' = Prog(o)
  BY <1>3 DEF Writing, Reaches, Connected, Prog
<1>9. Into(n) /\ Into(o)
  BY <1>1
<1>10. pc[n] \notin {"off", "bound", "peeked", "connected"}
  BY <1>3 DEF Writing
<1>11. CASE Reaches(n)
  <2>1. Room(sock) /\ sock' = [sock EXCEPT ![o] = Append(@, d)] /\ soerr' = soerr
    BY <1>2, <1>11 DEF d
  <2>2. sock' \in [Ends -> Seq(Datagrams)] /\ sock'[n] = sock[n] /\ sock'[o] = Append(sock[o], d)
    BY <2>1, <1>1, <1>6, <1>7
  <2>3. /\ Chained(sock'[o]) /\ Awaiting(sock'[o], Prog(o))
        /\ Continuing(sock'[o], Prog(o), starts[n], NextSeq(seq[n]), t)
    <3>1. /\ sock[o] \in Seq(Datagrams) /\ Chained(sock[o]) /\ Awaiting(sock[o], Prog(o))
          /\ Continuing(sock[o], Prog(o), d.from, d.seq, d.head)
      BY <1>1, <1>3, <1>6, <1>7, <1>9, <1>11 DEF Into
    <3> QED
      BY <3>1, <1>6, <2>2, AppendData
  <2>4. /\ Len(sock[o]) \in Nat /\ Len(sock'[o]) = Len(sock[o]) + 1
        /\ sock'[o][Len(sock[o]) + 1] = d
        /\ \A i \in 1 .. Len(sock[o]) : sock'[o][i] = sock[o][i]
    BY <2>2, <1>1, <1>6, <1>7
  <2>5. \A i \in 1 .. Len(sock'[o]) : Shaped(sock'[o][i]) /\ sock'[o][i].from <= starts[n]
    <3>1. \A i \in 1 .. Len(sock[o]) : Shaped(sock[o][i]) /\ sock[o][i].from <= starts[n]
      BY <1>1, <1>9 DEF Into
    <3>2. starts[n] <= starts[n]
      BY <1>6
    <3> HIDE DEF o
    <3> QED
      BY <2>4, <3>1, <3>2, <1>6
  <2>6. pc[o] # "off"
    BY <1>11 DEF Reaches, Ends, Other
  <2>7. Into(o)'
    BY <1>1, <1>3, <1>5, <1>8, <1>9, <1>10, <2>1, <2>3, <2>5, <2>6 DEF Into
  <2>8. Into(n)'
    BY <1>1, <1>3, <1>5, <1>8, <1>9, <2>1, <2>2 DEF Into
  <2>9. \A k \in Ends : Len(sock'[k]) <= MaxSock
    <3>1. Len(sock[o]) < MaxSock
      <4>1. PICK x \in Nat : x = Len(sock["client"])
        BY <1>7 DEF Ends
      <4>2. PICK y \in Nat : y = Len(sock["server"])
        BY <1>7 DEF Ends
      <4>3. x + y < MaxSock
        BY <2>1, <4>1, <4>2 DEF Room
      <4>4. Len(sock[o]) = x \/ Len(sock[o]) = y
        BY <1>1, <4>1, <4>2 DEF Ends
      <4> QED
        BY <4>3, <4>4, <1>7
    <3>2. Len(sock'[o]) <= MaxSock
      BY <3>1, <2>4, <1>7
    <3> QED
      BY <3>2, <2>2, <1>1, <1>7
  <2>10. sock'["client"] # sock["client"] => n = "server" /\
                \E e \in Datagrams : e.type = "data" /\ sock'["client"] = Append(sock["client"], e)
    <3>1. CASE n = "server"
      <4>1. o = "client"
        BY <3>1 DEF Other
      <4> QED
        BY <3>1, <4>1, <2>2, <1>6
    <3>2. CASE n = "client"
      BY <3>2, <2>2
    <3> QED
      BY <3>1, <3>2 DEF Ends
  <2> QED
    BY <1>1, <1>5, <1>7, <2>1, <2>2, <2>7, <2>8, <2>9, <2>10
<1>12. CASE ~Reaches(n)
  <2>1. PICK e \in {soerr[n], TRUE} : soerr' = [soerr EXCEPT ![n] = e]
    BY <1>2, <1>12 DEF Unreachable
  <2>2. sock' = sock /\ soerr' \in [Ends -> BOOLEAN] /\ soerr'[o] = soerr[o]
    BY <2>1, <1>1, <1>2, <1>7, <1>12 DEF Unreachable
  <2>3. Into(o)'
    BY <1>1, <1>3, <1>5, <1>8, <1>9, <1>10, <1>12, <2>2 DEF Into
  <2>4. Into(n)'
    BY <1>1, <1>3, <1>5, <1>8, <1>9, <2>2 DEF Into
  <2> QED
    BY <1>1, <1>5, <1>7, <2>2, <2>3, <2>4
<1> QED
  BY <1>11, <1>12

\* A send fails.  Either nobody has heard of the process, or nobody will again.
LEMMA SendFailsInto ==
    ASSUME Typed, NEW n \in Ends, \A k \in Ends : Into(k), SendFails(n)
    PROVE  \A k \in Ends : Into(k)'
<1> DEFINE o == Other(n)
<1>1. o \in Ends /\ o # n /\ Other(o) = n /\ \A k \in Ends : k = n \/ k = o
  BY EndsFacts
<1>2. /\ Writing(n) /\ soerr[n] /\ UNCHANGED <<pc, starts, peeraddr, sock, ack, m, fate, blind>>
      /\ soerr'[n] = FALSE /\ soerr'[o] = soerr[o] /\ seq'[o] = seq[o] /\ carry'[o] = carry[o]
  BY <1>1, TypedParts DEF SendFails, receiver
<1>3. /\ Writing(n)' /\ (Writing(o)' <=> Writing(o)) /\ (Reaches(n)' <=> Reaches(n))
      /\ (Reaches(o)' <=> Reaches(o))
      /\ Prog(n)' = Prog(n) /\ Prog(o)' = Prog(o)
  BY <1>2 DEF Writing, Reaches, Connected, Prog
<1>4. Into(n) /\ Into(o) /\ pc[n] \notin {"off", "bound", "peeked", "connected"}
  BY <1>1, <1>2 DEF Writing
<1>5. Into(n)'
  BY <1>1, <1>2, <1>3, <1>4 DEF Into
<1>6. Writing(n) /\ Reaches(n) => Continuing(sock[o], Prog(o), starts[n], seq'[n], carry'[n])
  <2>1. Writing(n) /\ Reaches(n) => Unheard(sock[o], Prog(o), starts[n])
    BY <1>1, <1>2, <1>4 DEF Into
  <2> QED
    BY <2>1, UnheardContinues
<1>7. Into(o)'
  BY <1>1, <1>2, <1>3, <1>4, <1>6 DEF Into
<1> QED
  BY <1>1, <1>5, <1>7

\* Both directions when a server takes note of a peer, connects, or starts a thread.
LEMMA SetUpInto ==
    ASSUME Typed, \A k \in Ends : Into(k),
           Peek \/ Connect \/ \E n \in Ends : SetUp(n)
    PROVE  \A k \in Ends : Into(k)'
<1>0. pc \in [Ends -> {"off", "bound", "peeked", "connected", "ingress", "egress", "ready"}]
  BY DEF Typed, TypeOK
<1>s. {"client", "server"} = Ends /\ Other("client") = "server" /\ Other("server") = "client"
  BY DEF Ends, Other
<1>1. CASE Peek
  <2>1. /\ pc["server"] = "bound" /\ pc'["server"] = "peeked" /\ pc'["client"] = pc["client"]
        /\ UNCHANGED <<starts, sock, soerr, seq, carry, ack, m, fate, blind>>
    BY <1>1, <1>0 DEF Peek, network, sender, receiver, Ends
  <2>2. /\ ~Writing("server")' /\ ~Writing("server")
        /\ (Writing("client")' <=> Writing("client"))
        /\ (Reaches("client")' <=> Reaches("client"))
    BY <2>1 DEF Writing, Reaches, Connected
  <2>3. Into("client")'
    BY <2>1, <2>2, <1>s, Quieter
  <2>4. Into("server")'
    BY <2>1, <2>2, <1>s, Quieter
  <2> QED
    BY <2>3, <2>4 DEF Ends
<1>2. CASE Connect
  <2>1. /\ pc["server"] = "peeked" /\ pc'["server"] = "connected" /\ pc'["client"] = pc["client"]
        /\ UNCHANGED <<starts, peeraddr, sock, soerr, seq, carry, ack, m, fate, blind>>
    BY <1>2, <1>0 DEF Connect, network, sender, receiver, Ends
  <2>2. /\ ~Writing("server")' /\ ~Writing("server")
        /\ (Writing("client")' <=> Writing("client"))
        /\ (Reaches("client")' => Reaches("client"))
    BY <2>1 DEF Writing, Reaches, Connected
  <2>3. Into("client")'
    BY <2>1, <2>2, <1>s, Quieter
  <2>4. Into("server")'
    BY <2>1, <2>2, <1>s, Quieter
  <2> QED
    BY <2>3, <2>4 DEF Ends
<1>3. ASSUME NEW n \in Ends, SetUp(n)
      PROVE  \A k \in Ends : Into(k)'
  <2> DEFINE o == Other(n)
  <2>1. o \in Ends /\ o # n /\ Other(o) = n /\ \A k \in Ends : k = n \/ k = o
    BY EndsFacts
  <2>2. Into(n) /\ Into(o)
    BY <2>1
  <2>3. /\ UNCHANGED <<starts, peeraddr, sock, soerr, fate, blind>>
        /\ pc'[o] = pc[o] /\ seq'[o] = seq[o] /\ carry'[o] = carry[o]
        /\ m'[o] = m[o] /\ ack'[o] = ack[o]
        /\ pc[n] \notin {"off", "bound", "peeked"}
        /\ pc'[n] \in {"ingress", "egress", "ready"}
    BY <1>3, <1>0, <2>1, TypedParts, SMTT(30)
       DEF SetUp, StartIngress, StartEgress, MakeAverages, network, sender, receiver
  <2>4. /\ (m'[n] = m[n] /\ ack'[n] = ack[n]) \/ m'[n] = NoPkt
        /\ pc[n] = "connected" \/ (seq'[n] = seq[n] /\ carry'[n] = carry[n])
        /\ pc[n] # "connected" => Writing(n)
    BY <1>3, <1>0, <2>1, TypedParts
       DEF SetUp, StartIngress, StartEgress, MakeAverages, network, sender, receiver, Writing
  <2>5. /\ (Writing(o)' <=> Writing(o)) /\ (Reaches(n)' <=> Reaches(n))
        /\ (Reaches(o)' <=> Reaches(o))
    BY <2>1, <2>3 DEF Writing, Reaches, Connected, Ends
  <2>6. Into(o)'
    <3>1. Prog(o)' = Prog(o)
      BY <2>3 DEF Prog
    <3>2. CASE pc[n] = "connected"
      <4>1. Unheard(sock[o], Prog(o), starts[n])
        BY <3>2, <2>1, <2>2 DEF Into
      <4>2. Continuing(sock[o], Prog(o), starts[n], seq'[n], carry'[n])
        BY <4>1, UnheardContinues
      <4> QED
        BY <4>1, <4>2, <3>1, <2>1, <2>2, <2>3, <2>5 DEF Into
    <3>3. CASE pc[n] # "connected"
      BY <3>1, <3>3, <2>1, <2>2, <2>3, <2>4, <2>5 DEF Into
    <3> QED
      BY <3>2, <3>3
  <2>7. Into(n)'
    <3>0. pc'[n] # "off"
      BY <2>3
    <3>1. CASE m'[n] = m[n] /\ ack'[n] = ack[n]
      <4>1. Prog(n)' = Prog(n)
        BY <2>3, <3>1 DEF Prog
      <4> QED
        BY <4>1, <3>0, <3>1, <2>1, <2>2, <2>3, <2>5 DEF Into
    <3>2. CASE m'[n] = NoPkt
      <4>1. Prog(n)' = NoPkt /\ starts[o] \in Nat
        BY <2>1, <2>3, <3>2, TypedParts DEF Prog
      <4>2. Awaiting(sock[n], NoPkt)
        BY Nothing, NothingTyped
      <4>3. \A p, f, s, c : Continuing(sock[n], p, f, s, c) => Continuing(sock[n], NoPkt, f, s, c)
        BY NothingTyped DEF Continuing
      <4>4. \A p, f : Unheard(sock[n], p, f) => Unheard(sock[n], NoPkt, f)
        BY NothingTyped DEF Unheard
      <4> QED
        BY <4>1, <4>2, <4>3, <4>4, <3>0, <3>2, <2>1, <2>2, <2>3, <2>5, NothingTyped DEF Into
    <3> QED
      BY <3>1, <3>2, <2>4
  <2> QED
    BY <2>1, <2>6, <2>7
<1> QED
  BY <1>1, <1>2, <1>3

-----------------------------------------------------------------------------
\* Types, and reports to a client that is being set up.

States == {"off", "bound", "peeked", "connected", "ingress", "egress", "ready"}
Fates == {"ok", "assert", "null", "spliced"}

\* The types of what main sets, and of what the threads keep.
MainTyped ==
    /\ pc \in [Ends -> States]
    /\ starts \in [Ends -> 0 .. MaxStarts] /\ peeraddr \in 0 .. MaxStarts /\ busy \in Ends
    /\ \A n \in Ends : pc[n] # "off" => starts[n] > 0
    /\ starts["client"] + starts["server"] <= MaxStarts
    /\ peeraddr <= starts["client"]
    /\ pc["client"] \notin {"bound", "peeked"}

ThreadsTyped ==
    /\ sock \in [Ends -> Seq(Datagrams)] /\ \A n \in Ends : Len(sock[n]) <= MaxSock
    /\ soerr \in [Ends -> BOOLEAN]
    /\ seq \in [Ends -> 0 .. SeqMod - 1] /\ carry \in [Ends -> 0 .. MaxLeft]
    /\ ack \in [Ends -> AckType] /\ due \in [Ends -> BOOLEAN] /\ blind \in [Ends -> BOOLEAN]
    /\ m \in [Ends -> PktType] /\ fate \in [Ends -> Fates]

\* Together they are the types of the invariant.
LEMMA TypedSplit == Typed <=> MainTyped /\ ThreadsTyped
<1>1. sock \in [Ends -> Seq(Datagrams)] =>
        \A n \in Ends : \A i \in DOMAIN sock[n] : sock[n][i] \in Datagrams
  OBVIOUS
<1> QED
  BY <1>1 DEF Typed, TypeOK, MainTyped, ThreadsTyped, AckType, PktType, States, Fates

\* The reading thread goes on.
LEMMA ReadCalm ==
    ASSUME Typed, Calm, NEW n \in Ends, Reading(n), NEW a, NEW q, ReportFacts(n, a, q),
           q[n] = sock[n] \/ (sock[n] # << >> /\ q[n] = Tail(sock[n])),
           UNCHANGED <<pc, starts, peeraddr, busy, seq, carry>>,
           m' \in [Ends -> PktType], blind' \in [Ends -> BOOLEAN], fate' \in [Ends -> Fates],
           fate'["client"] # "null"
    PROVE  Typed' /\ Calm'
<1>1. MainTyped' /\ ThreadsTyped'
  BY TypedSplit DEF MainTyped, ThreadsTyped, ReportFacts
<1>2. Typed'
  BY <1>1, TypedSplit, PTL
<1>3. ~Reading("server")' => ~due'["server"]
  <2>1. CASE n = "server"
    BY <2>1 DEF Reading
  <2>2. CASE n = "client"
    <3>1. due'["server"] = due["server"]
      BY <2>2 DEF ReportFacts, Other
    <3> QED
      BY <3>1 DEF Calm, Reading
  <2> QED
    BY <2>1, <2>2 DEF Ends
<1>4. ASSUME pc["client"] \in Unready
      PROVE  /\ \A i \in 1 .. Len(sock'["client"]) : sock'["client"][i].type = "data"
             /\ peeraddr = starts["client"] => ~due'["server"]
  <2>0. /\ \A i \in 1 .. Len(sock["client"]) : sock["client"][i].type = "data"
        /\ peeraddr = starts["client"] => ~due["server"]
    BY <1>4 DEF Calm
  <2>1. CASE n = "server"
    <3>1. Other(n) = "client"
      BY <2>1 DEF Other
    <3>2. ~Quiet
      BY <1>4 DEF Quiet, Unready, Ends
    <3>3. due'["server"] => due["server"]
      BY <2>1 DEF ReportFacts
    <3>4. sock'["client"] = sock["client"]
      <4>1. ~((due[n] \/ Quiet) /\ Reaches(n))
        BY <2>0, <2>1, <3>2 DEF Reaches
      <4> QED
        BY <4>1, <3>1 DEF ReportFacts
    <3> QED
      BY <2>0, <3>3, <3>4
  <2>2. CASE n = "client"
    <3>1. Other(n) = "server"
      BY <2>2 DEF Other
    <3>2. due'["server"] = due["server"] /\ sock'["client"] = q["client"]
      BY <2>2, <3>1 DEF ReportFacts
    <3>3. CASE q[n] = sock[n]
      BY <2>0, <2>2, <3>2, <3>3
    <3>4. CASE sock[n] # << >> /\ q[n] = Tail(sock[n])
      <4>1. sock[n] \in Seq(Datagrams)
        BY TypedParts
      <4>2. \A i \in 1 .. Len(Tail(sock[n])) : /\ Tail(sock[n])[i] = sock[n][i + 1]
                                               /\ i + 1 \in 1 .. Len(sock[n])
        BY <3>4, <4>1, TailFacts
      <4> QED
        BY <2>0, <2>2, <3>2, <3>4, <4>2
    <3> QED
      BY <3>3, <3>4
  <2> QED
    BY <2>1, <2>2 DEF Ends
<1> QED
  BY <1>2, <1>3, <1>4 DEF Calm, ClientAveragesReady

\* A process is gone.
LEMMA GoneCalm ==
    ASSUME Typed, Calm, NEW n \in Ends, Gone(n), UNCHANGED <<starts, peeraddr, busy>>,
           blind' \in [Ends -> BOOLEAN], fate' \in [Ends -> Fates], fate'["client"] # "null"
    PROVE  Typed' /\ Calm'
<1>0. MainTyped /\ ThreadsTyped /\ Len(<< >>) = 0 /\ << >> \in Seq(Datagrams)
      /\ MaxSock \in Nat /\ 1 \in 0 .. SeqMod - 1 /\ 0 \in 0 .. MaxLeft
  BY TypedSplit, SessionAssumption
<1>1. MainTyped'
  BY <1>0 DEF MainTyped, Gone, States, Ends
<1>2. ThreadsTyped'
  <2>1. \A k \in Ends : sock'[k] = (IF k = n THEN << >> ELSE sock[k])
    BY <1>0 DEF Gone, ThreadsTyped
  <2>2. sock' \in [Ends -> Seq(Datagrams)] /\ \A k \in Ends : Len(sock'[k]) <= MaxSock
    BY <1>0, <2>1 DEF Gone, ThreadsTyped
  <2> QED
    BY <1>0, <2>2, NothingTyped DEF ThreadsTyped, Gone
<1>3. Typed'
  BY <1>1, <1>2, TypedSplit, PTL
<1>4. CASE n = "client"
  <2>1. pc'["client"] = "off" /\ pc'["server"] = pc["server"] /\ due'["server"] = due["server"]
    BY <1>0, <1>4 DEF Gone, MainTyped, ThreadsTyped, Ends
  <2> QED
    BY <2>1, <1>3 DEF Calm, Unready, Reading, ClientAveragesReady
<1>5. CASE n = "server"
  <2>1. /\ pc'["client"] = pc["client"] /\ due'["server"] = FALSE
        /\ sock'["client"] = sock["client"]
    BY <1>0, <1>5 DEF Gone, MainTyped, ThreadsTyped, Ends
  <2> QED
    BY <2>1, <1>3 DEF Calm, Unready, Reading, ClientAveragesReady
<1> QED
  BY <1>4, <1>5 DEF Ends

-----------------------------------------------------------------------------
\* The invariant is kept.

\* One round of read_tfs_pkts.
LEMMA RecvKeeps ==
    ASSUME IInv, NEW n \in Ends, Recv(n)
    PROVE  IInv'
<1> DEFINE o == Other(n)
<1>0. Typed /\ Calm /\ Into(n) /\ Into(o) /\ \A k \in Ends : Into(k)
  BY EndsFacts DEF IInv
<1>1. o \in Ends /\ o # n /\ Other(o) = n /\ \A k \in Ends : k = n \/ k = o
  BY EndsFacts
<1>2. Reading(n) /\ pc[n] # "off"
  BY DEF Recv, RecvError, RecvAck, RecvOld, Take, Reading
<1>3. /\ ThreadsTyped /\ ack[n] \in AckType /\ sock[n] \in Seq(Datagrams) /\ sock[o] \in Seq(Datagrams)
      /\ m[n] \in PktType /\ blind[n] \in BOOLEAN /\ Len(sock[n]) <= MaxSock /\ MaxSock \in Nat
  BY <1>0, <1>1, TypedSplit, SessionAssumption DEF ThreadsTyped
<1>q. ASSUME sock[n] # << >>
      PROVE  /\ Received(n) \in [Ends -> Seq(Datagrams)] /\ Received(n)[n] = Tail(sock[n])
             /\ Received(n)[o] = sock[o] /\ Len(Received(n)[n]) <= MaxSock
             /\ Head(sock[n]) \in Datagrams
  <2>1. Tail(sock[n]) \in Seq(Datagrams) /\ Len(Tail(sock[n])) = Len(sock[n]) - 1
        /\ Len(sock[n]) \in Nat /\ Head(sock[n]) \in Datagrams
    BY <1>q, <1>3, TailFacts
  <2>2. /\ Received(n) \in [Ends -> Seq(Datagrams)] /\ Received(n)[n] = Tail(sock[n])
        /\ Received(n)[o] = sock[o]
    BY <2>1, <1>1, <1>3 DEF Received, ThreadsTyped
  <2> QED
    BY <2>1, <2>2, <1>3
\* Nothing is taken.
<1>skip. ASSUME NEW a \in AckType, a.last = ack[n].last, NEW q \in [Ends -> Seq(Datagrams)],
                q[o] = sock[o], Len(q[n]) <= MaxSock, LoopTop(n, a, q, FALSE),
                \/ q[n] = sock[n]
                \/ /\ sock[n] # << >> /\ q[n] = Tail(sock[n])
                   /\ Head(sock[n]).type # "data" \/ Head(sock[n]).seq <= ack[n].last,
                UNCHANGED <<pc, starts, peeraddr, busy, seq, carry, m, fate, blind>>
         PROVE  IInv'
  <2>1. ReportFacts(n, a, q)
    BY <1>0, <1>2, <1>skip, LoopTopFacts
  <2>2. Into(n)'
    BY <2>1, <1>0, <1>2, <1>skip, SkipIn
  <2>3. Into(o)'
    BY <2>1, <1>0, <1>skip, ReportOut
  <2>4. /\ m' \in [Ends -> PktType] /\ blind' \in [Ends -> BOOLEAN] /\ fate' \in [Ends -> Fates]
        /\ fate'["client"] # "null"
    BY <1>0, <1>3, <1>skip DEF ThreadsTyped, Calm, ClientAveragesReady
  <2>5. Typed' /\ Calm'
    BY <2>1, <2>4, <1>0, <1>2, <1>skip, ReadCalm
  <2> QED
    BY <2>2, <2>3, <2>5, <1>1 DEF IInv
\* The process dies, of something other than a report.
<1>die. ASSUME Gone(n), UNCHANGED <<starts, peeraddr, busy>>,
               NEW how \in {"assert"}, fate' = [fate EXCEPT ![n] = how],
               NEW b \in BOOLEAN, blind' = [blind EXCEPT ![n] = b], b
        PROVE  IInv'
  <2>1. /\ blind' \in [Ends -> BOOLEAN] /\ fate' \in [Ends -> Fates] /\ fate'["client"] # "null"
        /\ blind'[o] = blind[o] /\ fate'[o] = fate[o] /\ blind'[n] = TRUE
    BY <1>0, <1>1, <1>3, <1>die DEF ThreadsTyped, Fates, Calm, ClientAveragesReady, Ends
  <2>2. \A k \in Ends : Into(k)'
    BY <2>1, <1>0, <1>die, GoneInto
  <2>3. Typed' /\ Calm'
    BY <2>1, <1>0, <1>die, GoneCalm
  <2> QED
    BY <2>2, <2>3 DEF IInv
<1>4. CASE RecvError(n)
  <2>1. LoopTop(n, ack[n], sock, FALSE)
        /\ UNCHANGED <<pc, starts, peeraddr, busy, seq, carry, m, fate, blind>>
    BY <1>4 DEF RecvError, sender
  <2> QED
    BY <2>1, <1>3, <1>skip DEF ThreadsTyped
<1>5. CASE RecvAck(n)
  <2>1. sock[n] # << >> /\ Head(sock[n]).type = "ack" /\ UNCHANGED <<starts, peeraddr, busy, blind>>
    BY <1>5 DEF RecvAck
  <2>2. CASE Head(sock[n]).ok /\ pc[n] = "egress"
    <3>1. Gone(n) /\ fate' = [fate EXCEPT ![n] = "null"]
      BY <1>5, <2>2 DEF RecvAck, Die
    <3>2. n # "client"
      <4> SUFFICES ASSUME n = "client" PROVE FALSE
        OBVIOUS
      <4>1. \A i \in 1 .. Len(sock[n]) : sock[n][i].type = "data"
        BY <1>0, <2>2 DEF Calm, Unready
      <4>2. 1 \in 1 .. Len(sock[n]) /\ sock[n][1] = Head(sock[n])
        BY <1>3, <2>1, TailFacts
      <4> QED
        BY <4>1, <4>2, <2>1
    <3>3. /\ blind' \in [Ends -> BOOLEAN] /\ fate' \in [Ends -> Fates] /\ fate'["client"] # "null"
          /\ blind'[o] = blind[o] /\ fate'[o] = fate[o] /\ fate'[n] = "null"
      BY <1>0, <1>1, <1>3, <2>1, <3>1, <3>2 DEF ThreadsTyped, Fates, Calm, ClientAveragesReady, Ends
    <3>4. \A k \in Ends : Into(k)'
      BY <1>0, <2>1, <3>1, <3>3, GoneInto
    <3>5. Typed' /\ Calm'
      BY <1>0, <2>1, <3>1, <3>3, GoneCalm
    <3> QED
      BY <3>4, <3>5 DEF IInv
  <2>3. CASE ~(Head(sock[n]).ok /\ pc[n] = "egress")
    <3>1. LoopTop(n, ack[n], Received(n), FALSE)
          /\ UNCHANGED <<pc, starts, peeraddr, busy, seq, carry, m, fate, blind>>
      BY <1>5, <2>3 DEF RecvAck, sender
    <3>2. Head(sock[n]).type # "data"
      BY <2>1
    <3> QED
      BY <3>1, <3>2, <2>1, <1>3, <1>q, <1>skip
  <2> QED
    BY <2>2, <2>3
<1>6. CASE RecvOld(n)
  <2> DEFINE d == Head(sock[n])
             a == Started(ack[n], d.seq)
  <2>1. /\ sock[n] # << >> /\ d.type = "data" /\ d.seq <= ack[n].last
        /\ LoopTop(n, a, Received(n), FALSE)
        /\ UNCHANGED <<pc, starts, peeraddr, busy, seq, carry, m, fate, blind>>
    BY <1>6 DEF RecvOld, sender
  <2>2. d.seq \in 0 .. SeqMod - 1
    BY <2>1, <1>q, DatagramFacts
  <2>3. a \in AckType /\ a.last = ack[n].last
    BY <2>2, <1>3 DEF Started, AckType
  <2> HIDE DEF a, d
  <2> QED
    BY <2>1, <2>3, <1>q, <1>skip DEF d
<1>7. CASE Take(n)
  <2> DEFINE d == Head(sock[n])
             p == InProgress(n, d.seq)
             a == [Started(ack[n], d.seq) EXCEPT !.last = d.seq]
             b == blind[n] \/ (p.left > 0 /\ ~Follows(d, p))
  <2>0. sock[n] # << >> /\ d.type = "data" /\ d.seq > ack[n].last
    BY <1>7 DEF Take
  <2>b. Overlooks(n, d, p) <=> p.left > 0 /\ ~Follows(d, p)
    <3>1. d.seq \in 0 .. SeqMod - 1
      BY <2>0, <1>q, DatagramFacts
    <3> QED
      BY <2>0, <3>1, <1>0, OverlooksFacts
  <2>1. /\ sock[n] # << >> /\ d.type = "data" /\ d.seq > ack[n].last
        /\ blind' = [blind EXCEPT ![n] = b] /\ UNCHANGED <<starts, peeraddr, busy>>
    BY <1>7, <2>b DEF Take
  <2>2. PICK r \in Unpack(d, p) :
                IF r.fate = "assert"
                THEN Die(n, "assert")
                ELSE /\ m' = [m EXCEPT ![n] = r.pkt]
                     /\ LoopTop(n, a, Received(n), FALSE)
                     /\ fate' = [fate EXCEPT ![n] = IF r.fate = "ok" THEN @ ELSE r.fate]
                     /\ UNCHANGED <<pc, sender>>
    BY <1>7 DEF Take
  <2>3. /\ d \in Datagrams /\ d.seq \in 0 .. SeqMod - 1 /\ sock[n][1] = d /\ 1 \in 1 .. Len(sock[n])
        /\ Shaped(d)
    <3>1. d \in Datagrams /\ sock[n][1] = d /\ 1 \in 1 .. Len(sock[n])
      BY <2>1, <1>3, TailFacts
    <3> QED
      BY <3>1, <2>1, <1>0, DatagramFacts DEF Into
  <2>4. p \in PktType /\ b \in BOOLEAN
    BY <1>3, NothingTyped DEF InProgress
  <2>5. a \in AckType /\ a.last = d.seq
    BY <2>3, <1>3 DEF Started, AckType
  <2>6. r.pkt \in PktType /\ r.fate \in {"ok", "assert", "spliced"}
    BY <2>1, <2>3, <2>4, UnpackFacts
  <2> HIDE DEF d, p, a
  <2>7. CASE r.fate = "assert"
    <3>1. Gone(n) /\ fate' = [fate EXCEPT ![n] = "assert"]
      BY <2>2, <2>7 DEF Die
    <3>2. b
      <4> SUFFICES ASSUME ~b, p.left > 0 PROVE p.pure /\ Follows(d, p) /\ d.head = p.left
        BY <2>1, <2>2, <2>3, <2>4, <2>7, UnpackFacts
      <4>1. p = m[n] /\ Prog(n) = p /\ Follows(d, p)
        BY NothingTyped DEF Prog, InProgress, p
      <4>2. d.from = p.from /\ d.seq = p.seq + 1
        BY <4>1 DEF Follows
      <4>3. p.seq \in Nat /\ p.seq + 1 < SeqMod
        BY <4>2, <2>3, <2>4, SessionAssumption DEF PktType
      <4>4. 1 \in DataOf(sock[n], p.from) /\ \A j \in DataOf(sock[n], p.from) : 1 <= j
        BY <2>1, <2>3, <4>2 DEF DataOf
      <4>5. Awaiting(sock[n], p) /\ p.pure
        BY <1>0, <4>1 DEF Into
      <4> QED
        BY <4>1, <4>3, <4>4, <4>5, <2>3 DEF Awaiting
    <3> QED
      BY <3>1, <3>2, <2>1, <2>4, <1>die
  <2>8. CASE r.fate # "assert"
    <3>1. /\ m' = [m EXCEPT ![n] = r.pkt] /\ LoopTop(n, a, Received(n), FALSE)
          /\ fate' = [fate EXCEPT ![n] = IF r.fate = "ok" THEN @ ELSE r.fate]
          /\ UNCHANGED <<pc, seq, carry>>
      BY <2>2, <2>8 DEF sender
    <3> HIDE DEF b
    <3>2. /\ m' \in [Ends -> PktType] /\ m'[n] = r.pkt /\ m'[o] = m[o]
          /\ blind' \in [Ends -> BOOLEAN] /\ blind'[n] = b /\ blind'[o] = blind[o]
      BY <3>1, <2>1, <2>4, <2>6, <1>1, <1>3 DEF ThreadsTyped
    <3>3. /\ fate' \in [Ends -> Fates] /\ fate'[o] = fate[o]
          /\ fate'[n] = (IF r.fate = "ok" THEN fate[n] ELSE r.fate)
          /\ fate'["client"] # "null"
      BY <3>1, <2>6, <1>0, <1>1, <1>3 DEF ThreadsTyped, Fates, Calm, ClientAveragesReady, Ends
    <3>4. ReportFacts(n, a, Received(n))
      BY <3>1, <2>1, <2>5, <1>0, <1>2, <1>q, LoopTopFacts
    <3>5. Into(n)'
      <4>1. Received(n)[n] = Tail(sock[n])
        BY <2>1, <1>q
      <4> QED
        BY <4>1, <3>1, <3>2, <3>3, <3>4, <2>1, <2>5, <2>8, <1>0, <1>2, TakeIn DEF d, p, b
    <3>6. Into(o)'
      BY <3>1, <3>2, <3>3, <3>4, <2>1, <1>0, ReportOut
    <3>7. Typed' /\ Calm'
      BY <3>1, <3>2, <3>3, <3>4, <2>1, <1>0, <1>2, <1>q, ReadCalm
    <3> QED
      BY <3>5, <3>6, <3>7, <1>1 DEF IInv
  <2> QED
    BY <2>7, <2>8
<1> QED
  BY <1>4, <1>5, <1>6, <1>7 DEF Recv

\* One outer packet of write_tfs_pkts, sent or not.
LEMMA WriteKeeps ==
    ASSUME IInv, NEW n \in Ends, Send(n) \/ SendFails(n)
    PROVE  IInv'
<1>0. Typed /\ Calm /\ (\A k \in Ends : Into(k)) /\ MainTyped /\ ThreadsTyped
  BY TypedSplit DEF IInv
<1>1. UNCHANGED <<pc, starts, peeraddr, busy, ack, due, m, fate, blind>>
      /\ seq' = [seq EXCEPT ![n] = NextSeq(@)]
  BY DEF Send, SendFails, receiver
<1>2. MainTyped'
  BY <1>0, <1>1 DEF MainTyped
<1>3. seq' \in [Ends -> 0 .. SeqMod - 1]
  <2>1. \A s \in 0 .. SeqMod - 1 : NextSeq(s) \in 0 .. SeqMod - 1
    BY SessionAssumption, DivMod DEF NextSeq
  <2> QED
    BY <2>1, <1>0, <1>1 DEF ThreadsTyped
<1>4. CASE Send(n)
  <2>1. /\ \A k \in Ends : Into(k)'
        /\ sock' \in [Ends -> Seq(Datagrams)]
        /\ \A k \in Ends : Len(sock'[k]) <= MaxSock
        /\ carry' \in [Ends -> 0 .. MaxLeft] /\ soerr' \in [Ends -> BOOLEAN]
        /\ sock'["client"] # sock["client"] => n = "server" /\
             \E d \in Datagrams : d.type = "data" /\ sock'["client"] = Append(sock["client"], d)
    BY <1>0, <1>4, SendInto
  <2>2. ThreadsTyped'
    BY <2>1, <1>0, <1>1, <1>3 DEF ThreadsTyped
  <2>3. Typed'
    BY <2>2, <1>2, TypedSplit, PTL
  <2>4. (\A i \in 1 .. Len(sock["client"]) : sock["client"][i].type = "data") =>
           \A i \in 1 .. Len(sock'["client"]) : sock'["client"][i].type = "data"
    <3>1. CASE sock'["client"] = sock["client"]
      BY <3>1
    <3>2. CASE sock'["client"] # sock["client"]
      <4>1. PICK d \in Datagrams : d.type = "data" /\ sock'["client"] = Append(sock["client"], d)
        BY <3>2, <2>1
      <4>2. sock["client"] \in Seq(Datagrams)
        BY <1>0 DEF ThreadsTyped, Ends
      <4>3. /\ Len(sock["client"]) \in Nat /\ Len(sock'["client"]) = Len(sock["client"]) + 1
            /\ sock'["client"][Len(sock["client"]) + 1] = d
            /\ \A i \in 1 .. Len(sock["client"]) : sock'["client"][i] = sock["client"][i]
        BY <4>1, <4>2, AppendFacts
      <4> QED
        BY <4>1, <4>3
    <3> QED
      BY <3>1, <3>2
  <2>5. Calm'
    BY <2>4, <1>0, <1>1 DEF Calm, Reading, ClientAveragesReady
  <2> QED
    BY <2>1, <2>3, <2>5 DEF IInv
<1>5. CASE SendFails(n)
  <2>1. /\ sock' = sock /\ soerr' = [soerr EXCEPT ![n] = FALSE]
        /\ carry' = [carry EXCEPT ![n] = 0] /\ 0 \in 0 .. MaxLeft
    BY <1>5, SessionAssumption DEF SendFails
  <2>2. ThreadsTyped'
    BY <2>1, <1>0, <1>1, <1>3 DEF ThreadsTyped
  <2>3. Typed'
    BY <2>2, <1>2, TypedSplit, PTL
  <2>4. Calm'
    BY <2>1, <1>0, <1>1 DEF Calm, Reading, ClientAveragesReady
  <2>5. \A k \in Ends : Into(k)'
    BY <1>0, <1>5, SendFailsInto
  <2> QED
    BY <2>3, <2>4, <2>5 DEF IInv
<1> QED
  BY <1>4, <1>5

\* Start, set-up and exit of a process.
LEMMA MainKeeps ==
    ASSUME IInv, Peek \/ Connect \/ \E n \in Ends : Start(n) \/ SetUp(n) \/ Exit(n)
    PROVE  IInv'
<1>0. Typed /\ Calm /\ (\A k \in Ends : Into(k)) /\ MainTyped /\ ThreadsTyped
  BY TypedSplit DEF IInv
<1>1. /\ pc \in [Ends -> States] /\ starts \in [Ends -> 0 .. MaxStarts] /\ peeraddr \in 0 .. MaxStarts
      /\ MaxStarts \in Nat /\ "client" \in Ends /\ "server" \in Ends
      /\ starts["client"] \in Nat /\ starts["server"] \in Nat
  BY <1>0, SessionAssumption DEF MainTyped, Ends
<1>w. Waited \in [Ends -> BOOLEAN] /\ (Waited["server"] => due["server"] \/ Reading("server"))
  BY <1>0, <1>1 DEF Waited, ThreadsTyped
<1>2. CASE Peek
  <2>1. /\ pc["server"] = "bound" /\ pc' = [pc EXCEPT !["server"] = "peeked"]
        /\ sock["server"] # << >> /\ peeraddr' = Head(sock["server"]).from
        /\ due' = Waited
        /\ UNCHANGED <<starts, sock, soerr, busy, seq, carry, ack, m, fate, blind>>
    BY <1>2 DEF Peek, network, sender
  <2>2. peeraddr' \in 0 .. MaxStarts /\ peeraddr' <= starts["client"]
    <3>1. sock["server"] \in Seq(Datagrams)
      BY <1>0, <1>1 DEF ThreadsTyped
    <3>2. Head(sock["server"]) \in Datagrams /\ sock["server"][1] = Head(sock["server"])
          /\ 1 \in 1 .. Len(sock["server"])
      BY <3>1, <2>1, TailFacts
    <3>3. Head(sock["server"]).from \in 1 .. MaxStarts
      BY <3>2, DatagramFacts
    <3>4. sock["server"][1].from <= starts["client"]
      BY <3>2, <1>0, <1>1 DEF Into, Other
    <3> QED
      BY <3>2, <3>3, <3>4, <2>1, <1>1
  <2>3. MainTyped' /\ ThreadsTyped'
    BY <2>1, <2>2, <1>0, <1>w DEF MainTyped, ThreadsTyped, States, Ends
  <2>4. Typed'
    BY <2>3, TypedSplit, PTL
  <2>5. ~due'["server"] /\ pc'["client"] = pc["client"] /\ pc'["server"] = "peeked"
    BY <1>0, <1>1, <1>w, <2>1 DEF Calm, Reading
  <2>6. Calm'
    BY <2>1, <2>5, <1>0 DEF Calm, Reading, ClientAveragesReady
  <2>7. \A k \in Ends : Into(k)'
    BY <1>0, <1>2, SetUpInto
  <2> QED
    BY <2>4, <2>6, <2>7 DEF IInv
<1>3. CASE Connect
  <2>1. /\ pc["server"] = "peeked" /\ pc' = [pc EXCEPT !["server"] = "connected"]
        /\ UNCHANGED <<starts, peeraddr, sock, soerr, busy, seq, carry, ack, due, m, fate, blind>>
    BY <1>3 DEF Connect, network, sender, receiver
  <2>2. MainTyped' /\ ThreadsTyped'
    BY <2>1, <1>0 DEF MainTyped, ThreadsTyped, States, Ends
  <2>3. Typed'
    BY <2>2, TypedSplit, PTL
  <2>4. pc'["client"] = pc["client"] /\ pc'["server"] = "connected"
    BY <1>1, <2>1
  <2>5. Calm'
    BY <2>1, <2>4, <1>0 DEF Calm, Reading, ClientAveragesReady
  <2>6. \A k \in Ends : Into(k)'
    BY <1>0, <1>3, SetUpInto
  <2> QED
    BY <2>3, <2>5, <2>6 DEF IInv
<1>4. ASSUME NEW n \in Ends, Start(n)
      PROVE  IInv'
  <2>1. /\ pc[n] = "off" /\ starts["client"] + starts["server"] < MaxStarts
        /\ starts' = [starts EXCEPT ![n] = @ + 1]
        /\ pc' = [pc EXCEPT ![n] = IF n = "client" THEN "connected" ELSE "bound"]
        /\ peeraddr' = IF n = "server" THEN 0 ELSE peeraddr
        /\ fate' = [fate EXCEPT ![n] = "ok"] /\ blind' = [blind EXCEPT ![n] = FALSE]
        /\ due' = Waited
        /\ UNCHANGED <<sock, soerr, busy, seq, carry, ack, m>>
    BY <1>4 DEF Start, MayStart, network, sender
  <2>2. ThreadsTyped'
    BY <2>1, <1>0, <1>w DEF ThreadsTyped, Fates
  <2>3. MainTyped'
    <3>1. CASE n = "client"
      <4>1. /\ pc' = [pc EXCEPT !["client"] = "connected"] /\ peeraddr' = peeraddr
            /\ starts' = [starts EXCEPT !["client"] = @ + 1]
        BY <3>1, <2>1
      <4>2. /\ starts'["client"] = starts["client"] + 1 /\ starts'["server"] = starts["server"]
            /\ pc'["client"] = "connected" /\ pc'["server"] = pc["server"]
            /\ pc' \in [Ends -> States]
        BY <4>1, <1>1 DEF Ends, States
      <4>3. starts["client"] + 1 \in 0 .. MaxStarts
        BY <2>1, <1>1
      <4>4. starts' \in [Ends -> 0 .. MaxStarts]
        BY <4>1, <4>3, <1>1
      <4>5. starts["client"] + 1 + starts["server"] <= MaxStarts /\ peeraddr <= starts["client"] + 1
        BY <2>1, <1>1, <1>0 DEF MainTyped
      <4>6. busy' \in Ends /\ (pc["server"] # "off" => starts["server"] > 0)
        BY <2>1, <1>0, <1>1 DEF MainTyped
      <4>7. \A k \in Ends : pc'[k] # "off" => starts'[k] > 0
        BY <4>2, <4>6, <1>1 DEF Ends
      <4> QED
        BY <4>1, <4>2, <4>4, <4>5, <4>6, <4>7, <1>1 DEF MainTyped
    <3>2. CASE n = "server"
      <4>1. /\ pc' = [pc EXCEPT !["server"] = "bound"] /\ peeraddr' = 0
            /\ starts' = [starts EXCEPT !["server"] = @ + 1]
        BY <3>2, <2>1
      <4>2. /\ starts'["server"] = starts["server"] + 1 /\ starts'["client"] = starts["client"]
            /\ pc'["server"] = "bound" /\ pc'["client"] = pc["client"]
            /\ pc' \in [Ends -> States]
        BY <4>1, <1>1 DEF Ends, States
      <4>3. starts["server"] + 1 \in 0 .. MaxStarts
        BY <2>1, <1>1
      <4>4. starts' \in [Ends -> 0 .. MaxStarts]
        BY <4>1, <4>3, <1>1
      <4>5. starts["client"] + (starts["server"] + 1) <= MaxStarts /\ 0 <= starts["client"]
        BY <2>1, <1>1
      <4>6. busy' \in Ends /\ (pc["client"] # "off" => starts["client"] > 0)
            /\ pc["client"] \notin {"bound", "peeked"} /\ 0 \in 0 .. MaxStarts
        BY <2>1, <1>0, <1>1 DEF MainTyped
      <4>7. \A k \in Ends : pc'[k] # "off" => starts'[k] > 0
        BY <4>2, <4>6, <1>1 DEF Ends
      <4> QED
        BY <4>1, <4>2, <4>4, <4>5, <4>6, <4>7 DEF MainTyped
    <3> QED
      BY <3>1, <3>2 DEF Ends
  <2>4. Typed'
    BY <2>2, <2>3, TypedSplit, PTL
  <2>5. Calm'
    <3>1. CASE n = "client"
      <4>1. /\ peeraddr' # starts'["client"] /\ pc'["server"] = pc["server"]
            /\ fate'["client"] = "ok"
        <5>1. peeraddr <= starts["client"] /\ peeraddr \in Nat /\ starts'["client"] = starts["client"] + 1
          BY <3>1, <2>1, <1>0, <1>1 DEF MainTyped
        <5>2. peeraddr' = peeraddr /\ pc'["server"] = pc["server"] /\ fate'["client"] = "ok"
          BY <3>1, <2>1, <1>0, <1>1 DEF ThreadsTyped
        <5> QED
          BY <5>1, <5>2, <1>1
      <4>2. sock["client"] = << >> /\ Len(<< >>) = 0
        BY <3>1, <2>1, <1>0, <1>1 DEF Into
      <4>3. \A i \in 1 .. Len(sock["client"]) : FALSE
        BY <4>2
      <4> QED
        BY <4>1, <4>3, <2>1, <1>0, <1>w DEF Calm, Reading, ClientAveragesReady
    <3>2. CASE n = "server"
      <4>1. /\ ~due'["server"] /\ pc'["client"] = pc["client"] /\ fate'["client"] = fate["client"]
        BY <3>2, <2>1, <1>0, <1>1, <1>w DEF Calm, Reading, ThreadsTyped
      <4> QED
        BY <4>1, <2>1, <1>0 DEF Calm, ClientAveragesReady
    <3> QED
      BY <3>1, <3>2 DEF Ends
  <2>6. \A k \in Ends : Into(k)'
    BY <1>0, <1>4, StartInto
  <2> QED
    BY <2>4, <2>5, <2>6 DEF IInv
<1>5. ASSUME NEW n \in Ends, SetUp(n)
      PROVE  IInv'
  <2>1. /\ UNCHANGED <<starts, peeraddr, sock, soerr, busy, fate, blind>>
        /\ pc[n] \in {"connected", "ingress", "egress"}
        /\ \E s \in {"ingress", "egress", "ready"} : pc' = [pc EXCEPT ![n] = s]
        /\ \E k \in 0 .. SeqMod - 1 : seq' = [seq EXCEPT ![n] = k]
        /\ \E k \in 0 .. MaxLeft : carry' = [carry EXCEPT ![n] = k]
        /\ \E k \in AckType : ack' = [ack EXCEPT ![n] = k]
        /\ \E k \in PktType : m' = [m EXCEPT ![n] = k]
    <3>1. /\ seq = [seq EXCEPT ![n] = seq[n]] /\ carry = [carry EXCEPT ![n] = carry[n]]
          /\ ack = [ack EXCEPT ![n] = ack[n]] /\ m = [m EXCEPT ![n] = m[n]]
          /\ seq[n] \in 0 .. SeqMod - 1 /\ carry[n] \in 0 .. MaxLeft
          /\ ack[n] \in AckType /\ m[n] \in PktType
          /\ 1 \in 0 .. SeqMod - 1 /\ 0 \in 0 .. MaxLeft
      BY <1>0, SessionAssumption DEF ThreadsTyped
    <3>2. CASE StartIngress(n)
      BY <3>1, <3>2 DEF StartIngress, network, receiver
    <3>3. CASE StartEgress(n)
      BY <3>1, <3>3, NothingTyped DEF StartEgress, network, sender
    <3>4. CASE MakeAverages(n)
      BY <3>1, <3>4 DEF MakeAverages, network, sender, receiver
    <3> QED
      BY <3>2, <3>3, <3>4, <1>5 DEF SetUp
  <2>2. /\ due' \in [Ends -> BOOLEAN]
        /\ \A k \in Ends : k # n => due'[k] = due[k]
        /\ due'[n] => due[n]
    <3>0. due \in [Ends -> BOOLEAN]
      BY <1>0 DEF ThreadsTyped
    <3>1. CASE due' = due
      BY <3>0, <3>1
    <3>2. CASE StartEgress(n)
      BY <3>0, <3>2 DEF StartEgress
    <3> QED
      BY <3>1, <3>2, <1>5 DEF SetUp, StartIngress, MakeAverages, receiver
  <2>3. ThreadsTyped'
    BY <2>1, <2>2, <1>0 DEF ThreadsTyped
  <2>4. PICK s \in {"ingress", "egress", "ready"} : pc' = [pc EXCEPT ![n] = s]
    BY <2>1
  <2>5. /\ pc' \in [Ends -> States] /\ pc'[n] = s /\ pc[n] # "off"
        /\ \A k \in Ends : k # n => pc'[k] = pc[k]
    BY <2>1, <2>4, <1>1 DEF States
  <2>6. MainTyped'
    <3>1. \A k \in Ends : pc'[k] # "off" => starts[k] > 0
      BY <2>5, <1>0 DEF MainTyped
    <3>2. pc'["client"] \notin {"bound", "peeked"}
      BY <2>4, <2>5, <1>0, <1>1 DEF MainTyped
    <3> QED
      BY <3>1, <3>2, <2>1, <2>5, <1>0 DEF MainTyped
  <2>7. Typed'
    BY <2>3, <2>6, TypedSplit, PTL
  <2>8. Calm'
    <3>1. CASE n = "client"
      <4>1. pc'["server"] = pc["server"] /\ due'["server"] = due["server"] /\ pc["client"] \in Unready
        BY <3>1, <2>1, <2>2, <2>5, <1>1 DEF Unready
      <4> QED
        BY <4>1, <2>1, <1>0 DEF Calm, Reading, ClientAveragesReady
    <3>2. CASE n = "server"
      <4>1. pc'["client"] = pc["client"] /\ Other(n) = "client"
        BY <3>2, <2>5, <1>1 DEF Other
      <4>2. due'["server"] => due["server"] /\ Reading("server")
        BY <3>2, <2>2, <1>0 DEF Calm
      <4>3. Reading("server") => Reading("server")'
        BY <3>2, <1>0, <1>1, <1>5 DEF Reading, SetUp, StartIngress, StartEgress, MakeAverages
      <4> QED
        BY <4>1, <4>2, <4>3, <2>1, <1>0 DEF Calm, Reading, ClientAveragesReady
    <3> QED
      BY <3>1, <3>2 DEF Ends
  <2>9. \A k \in Ends : Into(k)'
    BY <1>0, <1>5, SetUpInto
  <2> QED
    BY <2>7, <2>8, <2>9 DEF IInv
<1>6. ASSUME NEW n \in Ends, Exit(n)
      PROVE  IInv'
  <2>1. Gone(n) /\ UNCHANGED <<starts, peeraddr, busy, fate, blind>>
    BY <1>6 DEF Exit
  <2>2. /\ blind' \in [Ends -> BOOLEAN] /\ fate' \in [Ends -> Fates] /\ fate'["client"] # "null"
        /\ fate'[n] \in {"assert", "spliced"} => blind'[n]
    BY <2>1, <1>0 DEF ThreadsTyped, Calm, ClientAveragesReady, Into
  <2>3. \A k \in Ends : Into(k)'
    BY <2>1, <2>2, <1>0, GoneInto
  <2>4. Typed' /\ Calm'
    BY <2>1, <2>2, <1>0, GoneCalm
  <2> QED
    BY <2>3, <2>4 DEF IInv
<1> QED
  BY <1>2, <1>3, <1>4, <1>5, <1>6

\* Init, every step and every stuttering step.
LEMMA SessionInvariance == Spec => []IInv
<1>1. Init => IInv
  <2> SUFFICES ASSUME Init PROVE IInv
    OBVIOUS
  <2>1. /\ << >> \in Seq(Datagrams) /\ Len(<< >>) = 0 /\ MaxSock \in Nat /\ MaxStarts \in Nat
        /\ 1 \in 0 .. SeqMod - 1 /\ 0 \in 0 .. MaxLeft /\ 0 \in 0 .. MaxStarts
    BY SessionAssumption
  <2>2. MainTyped
    BY <2>1 DEF Init, MainTyped, States, Ends
  <2>3. ThreadsTyped
    BY <2>1, NothingTyped DEF Init, ThreadsTyped, Fates, Ends
  <2>4. Typed
    BY <2>2, <2>3, TypedSplit
  <2>5. ASSUME NEW n \in Ends PROVE Into(n)
    <3>1. /\ Other(n) \in Ends /\ sock[n] = << >> /\ m[n] = NoPkt /\ Prog(n) = NoPkt
          /\ starts[Other(n)] = 0 /\ fate[n] = "ok"
      BY EndsFacts DEF Init, Prog
    <3> QED
      BY <3>1, <2>1, Nothing, NothingTyped DEF Into
  <2>6. Calm
    <3>1. pc["client"] = "off" /\ due["server"] = FALSE /\ fate["client"] = "ok"
      BY DEF Init, Ends
    <3> QED
      BY <3>1 DEF Calm, Unready, ClientAveragesReady
  <2> QED
    BY <2>4, <2>5, <2>6 DEF IInv
<1>2. IInv /\ [Next]_vars => IInv'
  <2> SUFFICES ASSUME IInv, [Next]_vars PROVE IInv'
    OBVIOUS
  <2>1. CASE UNCHANGED vars
    BY <2>1, ZenonT(60) DEF vars, IInv, Typed, TypeOK, Into, Calm, Prog, Writing, Reading, Reaches, Connected,
       ClientAveragesReady
  <2>2. CASE Next
    BY <2>2, MainKeeps, WriteKeeps, RecvKeeps DEF Next
  <2> QED
    BY <2>1, <2>2
<1> QED
  BY <1>1, <1>2, PTL DEF Spec

-----------------------------------------------------------------------------
\* What follows from it.

\* Whatever is started, stopped and sent in whatever order, sockets, sequence numbers
\* and the state of both threads keep their types.
THEOREM TypeCorrect == Spec => []TypeOK
<1>1. IInv => TypeOK
  BY DEF IInv, Typed
<1> QED
  BY <1>1, SessionInvariance, PTL

\* However often either end restarts, whoever else sends to the server before it is
\* connected, and however often sequence numbers wrap, read_tfs_pkts never joins
\* pieces of different inner packets and no assertion of add_to_inner_packet fails,
\* unless it took an outer packet that does not follow for the next one.
THEOREM RestartsAreSound == Spec => []SoundUnlessBlind
<1>1. IInv => SoundUnlessBlind
  BY DEF IInv, Into, SoundUnlessBlind
<1> QED
  BY <1>1, SessionInvariance, PTL

\* recv_ack never runs in a client before tfs_tunnel_egress has allocated the
\* averages, whatever servers came before.
THEOREM ClientIsReady == Spec => []ClientAveragesReady
<1>1. IInv => ClientAveragesReady
  BY DEF IInv, Calm
<1> QED
  BY <1>1, SessionInvariance, PTL
=============================================================================
