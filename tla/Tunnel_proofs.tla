---------------------------- MODULE Tunnel_proofs ---------------------------
(* Theorems about Tunnel, for packets of any number and length, any payload  *)
(* size and any faults: what the sender puts together, what the receiver     *)
(* may find, and how losses are counted.                                     *)
EXTENDS Tunnel, CommonLemmas, FiniteSetTheorems

-----------------------------------------------------------------------------
\* The inductive invariant.

\* A byte of an inner packet.
Byte == {x \in Pkts \X Nat : x[2] \in 1 .. PktLen[x[1]]}
Cell == Byte \cup {PAD}

\* Consecutive bytes of one packet.
Piece(s) ==
    /\ s \in Seq(Byte)
    /\ \A i \in 1 .. Len(s) : i > 1 => s[i - 1] = <<s[i][1], s[i][2] - 1>>

\* It starts with the first byte of a packet.
Fresh(s) == s[1][2] = 1

\* A payload, or the beginning of one, that agrees with block offset off.
Formed(b, off) ==
    /\ b \in Seq(Cell)
    /\ off < Len(b) => b[off + 1] = PAD \/ b[off + 1][2] = 1
    /\ \A i \in 1 .. Len(b) :
         /\ i <= off => b[i] # PAD
         /\ i > 1 /\ b[i] # PAD /\ (i <= off \/ b[i][2] # 1) =>
              b[i - 1] = <<b[i][1], b[i][2] - 1>>

Outers == [seq : 0 .. SeqMod - 1, offset : Nat, body : Seq(Cell)]
Outer == {o \in Outers : Len(o.body) = Payload /\ Formed(o.body, o.offset)}

InFlight == net \in Seq(Outer) /\ faults \in Nat

Queued ==
    /\ outq \in Seq(Seq(Byte))
    /\ \A k \in 1 .. Len(outq) : Piece(outq[k]) /\ Len(outq[k]) # 0 /\ Fresh(outq[k])

\* What the writer has in hand, by where it is in its loop.
Packing ==
    /\ wpc \in {"idle", "fill", "send"}
    /\ Piece(wm) /\ Piece(leftover)
    /\ offset \in Nat /\ seq \in 0 .. SeqMod - 1
    /\ wpc = "idle" => Len(body) = 0 /\ Len(wm) = 0
    /\ wpc = "fill" =>
         /\ Len(leftover) = 0
         /\ Len(body) < Payload
         /\ Len(wm) # 0 => Room > MinRoom
         /\ Len(body) = 0 => Len(wm) # 0 /\ ((offset = 0 /\ Fresh(wm)) \/ offset = Len(wm))
         /\ Len(body) # 0 => offset <= Len(body) /\ (Len(wm) # 0 => Fresh(wm))
    /\ wpc = "send" => Len(wm) = 0 /\ Len(body) = Payload
    /\ Formed(body, offset) \/ wpc = "idle"
    /\ body \in Seq(Cell)

\* The counters, and what TypeOK says of the interface reader.
Counting ==
    /\ todo \subseteq Pkts
    /\ rd \in {"pop", "read"}
    /\ nfree \in Nat /\ nfreem \in Nat /\ lost \in 0 .. MaxZero
    /\ empties \in 0 .. MaxEmpty
    /\ sentall \subseteq Pkts
    /\ BuffersConserved

\* An inner packet under construction: its pieces but the first fill an outer
\* packet each, and what is left of its length does not grow.
Miovs == [data : Seq(Cell), left : Nat, niov : Nat]
InSlots(mi) ==
    /\ mi \in Miovs
    /\ Len(mi.data) = 0 <=> mi.niov = 0
    /\ mi.niov # 0 => (mi.niov - 1) * Payload + mi.left < MaxBuf

Acks == [start : Nat, last : Nat, ndrop : Nat]

Receiving ==
    /\ rpc \in {"top", "recv", "add", "abort"}
    /\ ack \in Acks
    /\ tb \in Seq(Cell) /\ Len(tb) <= Payload
    /\ toff \in Nat /\ (toff # 0 => Len(tb) = Payload)
    /\ rpc \in {"top", "recv"} => tb = << >>
    /\ m = NULL \/ InSlots(m)
    /\ accepted \subseteq 0 .. SeqMod - 1

\* The report under way, until limit() drops a packet or the receiver is blind: it
\* ends with the newest packet, and counts the numbers that are missing in it.
Losses ==
    /\ nlimited \in Nat /\ newest \in Nat
    /\ nlimited = 0 /\ ~blind =>
       /\ accepted \subseteq 0 .. newest
       /\ newest = 0 => accepted = {}
       /\ ack.start = 0 => ack.last = 0 /\ ack.ndrop = 0
       /\ ack.start # 0 =>
            /\ ack.last = newest /\ newest \in accepted /\ ack.start <= newest
            /\ ack.ndrop = Missing(ack.start, ack.last)

IInv ==
    /\ InFlight /\ Queued /\ Packing /\ Counting /\ Receiving /\ Losses

-----------------------------------------------------------------------------
\* Sequences, pieces and payloads.

\* The constants, in the form the proofs use.
LEMMA Sizes ==
    /\ Payload \in Nat /\ MinRoom \in Nat /\ LenBytes \in Nat \ {0}
    /\ SeqMod \in Nat \ {0, 1} /\ MinRoom < Payload /\ LenBytes <= MinRoom + 1
    /\ \A p \in Pkts : PktLen[p] \in Nat /\ PktLen[p] > MinRoom /\ PktLen[p] <= MaxBuf
    /\ MaxBuf \in Nat /\ HdrLen \in Nat
BY SizeAssumption, ReassemblyAssumption

\* A sequence is empty if its length is zero.
LEMMA EmptyLen ==
    ASSUME NEW S, NEW s \in Seq(S)
    PROVE  Len(s) \in Nat /\ (s = << >> <=> Len(s) = 0)
BY EmptySeq

\* The first n elements.
LEMMA TakeFacts ==
    ASSUME NEW S, NEW s \in Seq(S), NEW n \in 0 .. Len(s)
    PROVE  /\ SubSeq(s, 1, n) \in Seq(S) /\ Len(SubSeq(s, 1, n)) = n
           /\ \A i \in 1 .. n : SubSeq(s, 1, n)[i] = s[i]
<1>1. Len(s) \in Nat /\ \A i \in 1 .. Len(s) : s[i] \in S
  BY ElementOfSeq
<1>2. n \in Int /\ 1 \in Int /\ \A i \in 1 .. n : s[i] \in S
  BY <1>1
<1>3. /\ SubSeq(s, 1, n) \in Seq(S)
      /\ Len(SubSeq(s, 1, n)) = IF 1 <= n THEN n - 1 + 1 ELSE 0
      /\ \A i \in 1 .. n - 1 + 1 : SubSeq(s, 1, n)[i] = s[1 + i - 1]
  BY <1>2, SubSeqProperties
<1>4. n - 1 + 1 = n /\ (IF 1 <= n THEN n - 1 + 1 ELSE 0) = n
  BY <1>1
<1>5. \A i \in 1 .. n : 1 + i - 1 = i
  BY <1>2
<1> QED
  BY <1>3, <1>4, <1>5

\* All but the first n elements.
LEMMA DropFacts ==
    ASSUME NEW S, NEW s \in Seq(S), NEW n \in Nat
    PROVE  /\ Drop(s, n) \in Seq(S)
           /\ n <= Len(s) => Len(Drop(s, n)) = Len(s) - n
           /\ n > Len(s) => Len(Drop(s, n)) = 0
           /\ \A i \in 1 .. Len(s) - n : Drop(s, n)[i] = s[n + i]
<1>1. Len(s) \in Nat /\ \A i \in 1 .. Len(s) : s[i] \in S
  BY ElementOfSeq
<1> DEFINE a == n + 1
           b == Len(s)
<1>2. a \in Int /\ b \in Int /\ \A i \in a .. b : s[i] \in S
  BY <1>1
<1> HIDE DEF a, b
<1>3. /\ SubSeq(s, a, b) \in Seq(S)
      /\ Len(SubSeq(s, a, b)) = IF a <= b THEN b - a + 1 ELSE 0
      /\ \A i \in 1 .. b - a + 1 : SubSeq(s, a, b)[i] = s[a + i - 1]
  BY <1>2, SubSeqProperties
<1>4. b - a + 1 = Len(s) - n /\ \A i \in 1 .. Len(s) - n : a + i - 1 = n + i
  BY <1>1 DEF a, b
<1>5. Drop(s, n) = SubSeq(s, a, b)
  BY DEF Drop, a, b
<1>6. /\ n <= Len(s) => (IF a <= b THEN b - a + 1 ELSE 0) = Len(s) - n
      /\ n > Len(s) => (IF a <= b THEN b - a + 1 ELSE 0) = 0
  BY <1>1 DEF a, b
<1> QED
  BY <1>3, <1>4, <1>5, <1>6

\* Bytes of a sequence.
LEMMA ByteFacts ==
    ASSUME NEW x \in Byte
    PROVE  x[1] \in Pkts /\ x[2] \in 1 .. PktLen[x[1]] /\ x = <<x[1], x[2]>> /\ x # PAD
<1>1. x \in Pkts \X Nat /\ x[2] \in 1 .. PktLen[x[1]]
  BY DEF Byte
<1>2. x # PAD
  BY <1>1, SizeAssumption
<1> QED
  BY <1>1, <1>2

LEMMA PieceTake ==
    ASSUME NEW s, Piece(s), NEW n \in 0 .. Len(s)
    PROVE  Piece(SubSeq(s, 1, n))
<1> DEFINE t == SubSeq(s, 1, n)
<1>1. s \in Seq(Byte) /\ Len(s) \in Nat /\ n <= Len(s) /\ n \in Nat
  BY EmptyLen DEF Piece
<1>2. t \in Seq(Byte) /\ Len(t) = n /\ \A i \in 1 .. n : t[i] = s[i]
  BY <1>1, TakeFacts
<1> HIDE DEF t
<1>3. \A i \in 1 .. n : i > 1 => i \in 1 .. Len(s) /\ i - 1 \in 1 .. n
  BY <1>1
<1>4. \A i \in 1 .. n : i > 1 => t[i - 1] = <<t[i][1], t[i][2] - 1>>
  BY <1>2, <1>3 DEF Piece
<1>5. Piece(t)
  BY <1>2, <1>4 DEF Piece
<1> QED
  BY <1>5 DEF t

LEMMA PieceDrop ==
    ASSUME NEW s, Piece(s), NEW n \in 0 .. Len(s)
    PROVE  Piece(Drop(s, n)) /\ Len(Drop(s, n)) = Len(s) - n
<1> DEFINE t == Drop(s, n)
<1>1. s \in Seq(Byte) /\ Len(s) \in Nat /\ n <= Len(s) /\ n \in Nat
  BY EmptyLen DEF Piece
<1>2. t \in Seq(Byte) /\ Len(t) = Len(s) - n /\ \A i \in 1 .. Len(s) - n : t[i] = s[n + i]
  BY <1>1, DropFacts
<1> HIDE DEF t
<1>3. \A i \in 1 .. Len(s) - n : i > 1 =>
         n + i \in 1 .. Len(s) /\ n + i > 1 /\ i - 1 \in 1 .. Len(s) - n /\ n + (i - 1) = n + i - 1
  BY <1>1
<1>4. \A i \in 1 .. Len(s) - n : i > 1 => t[i - 1] = <<t[i][1], t[i][2] - 1>>
  <2> TAKE i \in 1 .. Len(s) - n
  <2> HAVE i > 1
  <2>1. t[i - 1] = s[n + i - 1] /\ t[i] = s[n + i]
    BY <1>2, <1>3
  <2>2. s[n + i - 1] = <<s[n + i][1], s[n + i][2] - 1>>
    BY <1>3 DEF Piece
  <2> QED
    BY <2>1, <2>2
<1>5. Piece(t) /\ Len(t) = Len(s) - n
  BY <1>2, <1>4 DEF Piece
<1> QED
  BY <1>5 DEF t

LEMMA BytesFacts ==
    ASSUME NEW p \in Pkts
    PROVE  Piece(Bytes(p)) /\ Len(Bytes(p)) = PktLen[p] /\ Len(Bytes(p)) # 0 /\ Fresh(Bytes(p))
<1> DEFINE s == Bytes(p)
           n == PktLen[p]
<1>1. n \in Nat /\ n # 0
  BY Sizes
<1> HIDE DEF n
<1>2. s = [i \in 1 .. n |-> <<p, i>>]
  BY DEF Bytes, n
<1>3. \A i \in 1 .. n : <<p, i>> \in Byte
  BY <1>1 DEF Byte, n
<1> HIDE DEF s
<1>4. s \in Seq(Byte) /\ Len(s) = n
  <2>1. s \in [1 .. n -> Byte]
    BY <1>2, <1>3
  <2> QED
    BY <1>1, <2>1, IsASeq, LenProperties
<1>5. \A i \in 1 .. n : s[i] = <<p, i>>
  BY <1>2
<1>6. \A i \in 1 .. n : i > 1 => s[i - 1] = <<s[i][1], s[i][2] - 1>>
  <2> TAKE i \in 1 .. n
  <2> HAVE i > 1
  <2>1. i - 1 \in 1 .. n
    BY <1>1
  <2> QED
    BY <1>5, <2>1
<1>7. Piece(s)
  BY <1>4, <1>6 DEF Piece
<1>8. Fresh(s)
  BY <1>1, <1>5 DEF Fresh
<1> QED
  BY <1>1, <1>4, <1>7, <1>8 DEF s, n

LEMMA PaddingFacts ==
    ASSUME NEW n \in Nat
    PROVE  Padding(n) \in Seq(Cell) /\ Len(Padding(n)) = n /\ \A i \in 1 .. n : Padding(n)[i] = PAD
<1> DEFINE s == Padding(n)
<1>1. s = [i \in 1 .. n |-> PAD] /\ PAD \in Cell
  BY DEF Padding, Cell
<1> HIDE DEF s
<1>2. s \in [1 .. n -> Cell]
  BY <1>1
<1>3. s \in Seq(Cell) /\ Len(s) = n
  BY <1>2, IsASeq, LenProperties
<1> QED
  BY <1>1, <1>3 DEF s

LEMMA FormedEmpty ==
    ASSUME NEW off \in Nat
    PROVE  Formed(<< >>, off)
<1>1. << >> \in Seq(Cell) /\ Len(<< >>) = 0 /\ 1 .. 0 = {}
  BY EmptySeq
<1> QED
  BY <1>1 DEF Formed

\* A whole packet, or the rest of one at the very start, goes into a payload.
LEMMA FormedAppend ==
    ASSUME NEW b, NEW off \in Nat, Formed(b, off), NEW s, Piece(s), Len(s) # 0,
           \/ off <= Len(b) /\ Fresh(s)
           \/ Len(b) = 0 /\ off >= Len(s)
    PROVE  Formed(b \o s, off) /\ Len(b \o s) = Len(b) + Len(s)
<1> DEFINE t == b \o s
           n == Len(b)
           k == Len(s)
<1>1. b \in Seq(Cell) /\ s \in Seq(Byte) /\ s \in Seq(Cell)
  <2>1. Byte \subseteq Cell
    BY DEF Cell
  <2> QED
    BY <2>1, SeqMonotonic DEF Formed, Piece
<1>2. n \in Nat /\ k \in Nat /\ k # 0
  BY <1>1, EmptyLen
<1>3. /\ t \in Seq(Cell) /\ Len(t) = n + k
      /\ \A i \in 1 .. n + k : t[i] = IF i <= n THEN b[i] ELSE s[i - n]
  BY <1>1, ConcatProperties
<1>4. \A j \in 1 .. k : s[j] \in Byte /\ s[j] # PAD
  BY <1>1, ElementOfSeq, ByteFacts
<1>5. /\ off < n => b[off + 1] = PAD \/ b[off + 1][2] = 1
      /\ \A i \in 1 .. n :
           /\ i <= off => b[i] # PAD
           /\ i > 1 /\ b[i] # PAD /\ (i <= off \/ b[i][2] # 1) =>
                b[i - 1] = <<b[i][1], b[i][2] - 1>>
  BY DEF Formed
<1>6. \A j \in 1 .. k : j > 1 => s[j - 1] = <<s[j][1], s[j][2] - 1>>
  BY DEF Piece
<1>7. \/ off <= n /\ s[1][2] = 1
      \/ n = 0 /\ off >= k
  BY DEF Fresh
<1> HIDE DEF t, n, k
<1>8. off < n + k => t[off + 1] = PAD \/ t[off + 1][2] = 1
  <2> HAVE off < n + k
  <2>1. CASE off < n
    <3>1. off + 1 \in 1 .. n + k /\ off + 1 <= n
      BY <1>2, <2>1
    <3> QED
      BY <1>3, <1>5, <2>1, <3>1
  <2>2. CASE off >= n
    <3>1. off = n /\ s[1][2] = 1
      BY <1>2, <1>7, <2>2
    <3>2. n + 1 \in 1 .. n + k /\ ~(n + 1 <= n) /\ (n + 1) - n = 1
      BY <1>2
    <3>3. t[n + 1] = s[1]
      BY <1>3, <3>2
    <3> QED
      BY <3>1, <3>3
  <2> QED
    BY <1>2, <2>1, <2>2
<1>9. ASSUME NEW i \in 1 .. n + k
      PROVE  /\ i <= off => t[i] # PAD
             /\ i > 1 /\ t[i] # PAD /\ (i <= off \/ t[i][2] # 1) =>
                  t[i - 1] = <<t[i][1], t[i][2] - 1>>
  <2>1. CASE i <= n
    <3>1. i \in 1 .. n /\ t[i] = b[i]
      BY <1>2, <1>3, <2>1
    <3>2. i > 1 => i - 1 \in 1 .. n + k /\ i - 1 <= n
      BY <1>2, <2>1
    <3>3. i > 1 => t[i - 1] = b[i - 1]
      BY <1>3, <3>2
    <3> QED
      BY <1>5, <3>1, <3>3
  <2>2. CASE ~(i <= n)
    <3> DEFINE j == i - n
    <3>1. j \in 1 .. k /\ t[i] = s[j]
      BY <1>2, <1>3, <2>2
    <3> HIDE DEF j
    <3>2. t[i] # PAD
      BY <1>4, <3>1
    <3>3. CASE j > 1
      <4>1. i - 1 \in 1 .. n + k /\ ~(i - 1 <= n) /\ i - 1 - n = j - 1
        BY <1>2, <3>1, <3>3 DEF j
      <4>2. t[i - 1] = s[j - 1]
        BY <1>3, <4>1
      <4> QED
        BY <1>6, <3>1, <3>2, <3>3, <4>2
    <3>4. CASE j = 1
      <4>1. i = n + 1
        BY <1>2, <3>4 DEF j
      <4>2. off <= n => ~(i <= off)
        BY <1>2, <4>1
      <4>3. n = 0 => ~(i > 1)
        BY <4>1
      <4> QED
        BY <1>7, <3>1, <3>2, <3>4, <4>2, <4>3
    <3> QED
      BY <3>1, <3>3, <3>4
  <2> QED
    BY <2>1, <2>2
<1>10. Formed(t, off) /\ Len(t) = n + k
  BY <1>3, <1>8, <1>9 DEF Formed
<1> QED
  BY <1>10 DEF t, n, k

\* Padding goes behind whatever is there.
LEMMA FormedPad ==
    ASSUME NEW b, NEW off \in Nat, Formed(b, off), off <= Len(b), NEW k \in Nat
    PROVE  Formed(b \o Padding(k), off) /\ Len(b \o Padding(k)) = Len(b) + k
<1> DEFINE s == Padding(k)
           t == b \o s
           n == Len(b)
<1>1. b \in Seq(Cell)
  BY DEF Formed
<1>2. n \in Nat /\ off <= n
  BY <1>1, EmptyLen
<1>3. s \in Seq(Cell) /\ Len(s) = k /\ \A i \in 1 .. k : s[i] = PAD
  BY PaddingFacts
<1> HIDE DEF s
<1>4. /\ t \in Seq(Cell) /\ Len(t) = n + k
      /\ \A i \in 1 .. n + k : t[i] = IF i <= n THEN b[i] ELSE s[i - n]
  BY <1>1, <1>3, ConcatProperties
<1>5. /\ off < n => b[off + 1] = PAD \/ b[off + 1][2] = 1
      /\ \A i \in 1 .. n :
           /\ i <= off => b[i] # PAD
           /\ i > 1 /\ b[i] # PAD /\ (i <= off \/ b[i][2] # 1) =>
                b[i - 1] = <<b[i][1], b[i][2] - 1>>
  BY DEF Formed
<1> HIDE DEF t, n
<1>6. \A i \in 1 .. n + k : ~(i <= n) => t[i] = PAD
  <2> TAKE i \in 1 .. n + k
  <2> HAVE ~(i <= n)
  <2>1. i - n \in 1 .. k
    BY <1>2
  <2> QED
    BY <1>3, <1>4, <2>1
<1>7. off < n + k => t[off + 1] = PAD \/ t[off + 1][2] = 1
  <2> HAVE off < n + k
  <2>1. off + 1 \in 1 .. n + k
    BY <1>2
  <2>2. CASE off < n
    <3>1. off + 1 <= n
      BY <1>2, <2>2
    <3> QED
      BY <1>4, <1>5, <2>1, <2>2, <3>1
  <2>3. CASE ~(off < n)
    <3>1. ~(off + 1 <= n)
      BY <1>2, <2>3
    <3> QED
      BY <1>6, <2>1, <3>1
  <2> QED
    BY <2>2, <2>3
<1>8. ASSUME NEW i \in 1 .. n + k
      PROVE  /\ i <= off => t[i] # PAD
             /\ i > 1 /\ t[i] # PAD /\ (i <= off \/ t[i][2] # 1) =>
                  t[i - 1] = <<t[i][1], t[i][2] - 1>>
  <2>1. CASE i <= n
    <3>1. i \in 1 .. n /\ t[i] = b[i]
      BY <1>2, <1>4, <2>1
    <3>2. i > 1 => i - 1 \in 1 .. n + k /\ i - 1 <= n
      BY <1>2, <2>1
    <3>3. i > 1 => t[i - 1] = b[i - 1]
      BY <1>4, <3>2
    <3> QED
      BY <1>5, <3>1, <3>3
  <2>2. CASE ~(i <= n)
    <3>1. ~(i <= off)
      BY <1>2, <2>2
    <3> QED
      BY <1>6, <2>2, <3>1
  <2> QED
    BY <2>1, <2>2
<1>9. Formed(t, off) /\ Len(t) = n + k
  BY <1>4, <1>7, <1>8 DEF Formed
<1> QED
  BY <1>9 DEF t, n, s

\* Adding the next outer packet to the path, and what the path may do to it.
LEMMA Flight ==
    ASSUME NEW S, NEW q \in Seq(S)
    PROVE  /\ \A o \in S : Append(q, o) \in Seq(S)
           /\ q # << >> => Head(q) \in S /\ Tail(q) \in Seq(S)
           /\ \A i \in DOMAIN q : SubSeq(q, 1, i - 1) \o Drop(q, i) \in Seq(S)
           /\ \A i \in DOMAIN q : SubSeq(q, 1, i) \o <<q[i]>> \o Drop(q, i) \in Seq(S)
           /\ \A i \in DOMAIN q \ {Len(q)} :
                [q EXCEPT ![i] = q[i + 1], ![i + 1] = q[i]] \in Seq(S)
<1>1. Len(q) \in Nat /\ DOMAIN q = 1 .. Len(q) /\ \A i \in 1 .. Len(q) : q[i] \in S
  BY LenProperties, ElementOfSeq
<1>2. \A o \in S : Append(q, o) \in Seq(S)
  BY AppendProperties
<1>3. q # << >> => Head(q) \in S /\ Tail(q) \in Seq(S)
  BY HeadTailProperties
<1>4. ASSUME NEW i \in DOMAIN q
      PROVE  /\ SubSeq(q, 1, i - 1) \in Seq(S) /\ SubSeq(q, 1, i) \in Seq(S)
             /\ Drop(q, i) \in Seq(S) /\ <<q[i]>> \in Seq(S)
  <2>1. i - 1 \in 0 .. Len(q) /\ i \in 0 .. Len(q) /\ i \in Nat
    BY <1>1
  <2>2. <<q[i]>> \in Seq(S)
    BY <1>1
  <2> QED
    BY <2>1, <2>2, TakeFacts, DropFacts
<1>5. \A i \in DOMAIN q : SubSeq(q, 1, i - 1) \o Drop(q, i) \in Seq(S)
  BY <1>4, ConcatProperties
<1>6. \A i \in DOMAIN q : SubSeq(q, 1, i) \o <<q[i]>> \o Drop(q, i) \in Seq(S)
  BY <1>4, ConcatProperties
<1>7. ASSUME NEW i \in DOMAIN q \ {Len(q)}
      PROVE  [q EXCEPT ![i] = q[i + 1], ![i + 1] = q[i]] \in Seq(S)
  <2>1. i \in 1 .. Len(q) /\ i + 1 \in 1 .. Len(q)
    BY <1>1
  <2>2. q[i] \in S /\ q[i + 1] \in S
    BY <1>1, <2>1
  <2>3. q \in [1 .. Len(q) -> S]
    BY LenProperties
  <2>4. [q EXCEPT ![i] = q[i + 1], ![i + 1] = q[i]] \in [1 .. Len(q) -> S]
    BY <2>1, <2>2, <2>3
  <2> QED
    BY <1>1, <2>4, IsASeq
<1> QED
  BY <1>2, <1>3, <1>5, <1>6, <1>7

-----------------------------------------------------------------------------
\* The sender.

Sending == InFlight /\ Queued /\ Packing /\ Counting

LEMMA OneFacts ==
    ASSUME NEW s \in Seq(Byte)
    PROVE  One(s) = IF Len(s) = 0 THEN 0 ELSE 1
BY EmptyLen DEF One

\* The lengths and types in Packing, and the count of buffers by lengths.
LEMMA SendingFacts ==
    ASSUME Sending
    PROVE  /\ wm \in Seq(Byte) /\ leftover \in Seq(Byte) /\ outq \in Seq(Seq(Byte))
           /\ body \in Seq(Cell)
           /\ Len(wm) \in Nat /\ Len(leftover) \in Nat /\ Len(outq) \in Nat /\ Len(body) \in Nat
           /\ wm = << >> <=> Len(wm) = 0
           /\ leftover = << >> <=> Len(leftover) = 0
           /\ outq = << >> <=> Len(outq) = 0
           /\ One(wm) = (IF Len(wm) = 0 THEN 0 ELSE 1)
           /\ One(leftover) = (IF Len(leftover) = 0 THEN 0 ELSE 1)
           /\ net \in Seq(Outer)
<1>1. /\ wm \in Seq(Byte) /\ leftover \in Seq(Byte) /\ outq \in Seq(Seq(Byte))
      /\ body \in Seq(Cell) /\ net \in Seq(Outer)
  BY DEF Sending, Packing, Piece, Queued, InFlight
<1>2. Len(wm) \in Nat /\ (wm = << >> <=> Len(wm) = 0)
  BY <1>1, EmptyLen
<1>3. Len(leftover) \in Nat /\ (leftover = << >> <=> Len(leftover) = 0)
  BY <1>1, EmptyLen
<1>4. Len(outq) \in Nat /\ (outq = << >> <=> Len(outq) = 0)
  BY <1>1, EmptyLen
<1>5. Len(body) \in Nat
  BY <1>1, EmptyLen
<1>6. /\ One(wm) = (IF Len(wm) = 0 THEN 0 ELSE 1)
      /\ One(leftover) = (IF Len(leftover) = 0 THEN 0 ELSE 1)
  BY <1>1, OneFacts
<1> QED
  BY <1>1, <1>2, <1>3, <1>4, <1>5, <1>6

\* The top of outq, and the rest.
LEMMA QueueTop ==
    ASSUME Sending, outq # << >>
    PROVE  /\ Piece(Top(outq)) /\ Len(Top(outq)) \in Nat \ {0} /\ Fresh(Top(outq))
           /\ Below(outq) \in Seq(Seq(Byte)) /\ Len(Below(outq)) = Len(outq) - 1
           /\ \A k \in 1 .. Len(outq) - 1 :
                Piece(Below(outq)[k]) /\ Len(Below(outq)[k]) # 0 /\ Fresh(Below(outq)[k])
<1> DEFINE n == Len(outq)
<1>1. outq \in Seq(Seq(Byte)) /\ n \in Nat /\ n # 0
  BY SendingFacts
<1>2. \A k \in 1 .. n : Piece(outq[k]) /\ Len(outq[k]) # 0 /\ Fresh(outq[k])
  BY DEF Sending, Queued
<1>3. n - 1 \in 0 .. Len(outq) /\ n \in 1 .. n /\ \A k \in 1 .. n - 1 : k \in 1 .. n
  BY <1>1
<1>4. /\ Below(outq) \in Seq(Seq(Byte)) /\ Len(Below(outq)) = n - 1
      /\ \A k \in 1 .. n - 1 : Below(outq)[k] = outq[k]
  BY <1>1, <1>3, TakeFacts DEF Below
<1>5. Top(outq) = outq[n]
  BY DEF Top
<1>6. Piece(Top(outq)) /\ Len(Top(outq)) # 0 /\ Fresh(Top(outq))
  BY <1>2, <1>3, <1>5
<1>7. Len(Top(outq)) \in Nat
  BY <1>6, EmptyLen DEF Piece
<1> QED
  BY <1>2, <1>3, <1>4, <1>6, <1>7

\* Whoever leaves the writer and the path alone keeps what is said of them.
LEMMA PackingSame ==
    ASSUME Packing, UNCHANGED <<wpc, wm, leftover, offset, body, seq>>
    PROVE  Packing'
BY DEF Packing, Room

LEMMA IntfStep ==
    ASSUME Sending, IntfReader
    PROVE  Sending'
<1> DEFINE nout == Len(outq)
           nwm == Len(wm)
           nleft == Len(leftover)
           reading == IF rd = "read" THEN 1 ELSE 0
<1>1. /\ UNCHANGED <<wpc, wm, leftover, offset, body, seq>> /\ UNCHANGED <<net, faults>>
      /\ UNCHANGED <<nfreem, empties, sentall>>
  BY DEF IntfReader, IntfPop, IntfRead, IntfReadError, IntfReadZero, wvars, netvars
<1>2. Packing' /\ InFlight'
  BY <1>1, PackingSame DEF Sending, InFlight
<1>3. /\ nout \in Nat /\ One(wm) \in Nat /\ One(leftover) \in Nat /\ outq \in Seq(Seq(Byte))
      /\ One(wm)' = One(wm) /\ One(leftover)' = One(leftover)
  BY <1>1, SendingFacts DEF One
<1>4. /\ todo \subseteq Pkts /\ rd \in {"pop", "read"}
      /\ nfree \in Nat /\ nfreem \in Nat /\ lost \in 0 .. MaxZero
      /\ empties \in 0 .. MaxEmpty /\ sentall \subseteq Pkts
      /\ nfree + nout + reading + One(wm) + One(leftover) + nfreem + lost = Pool
  BY DEF Sending, Counting, BuffersConserved
<1>5. Pool \in Nat /\ MaxZero \in Nat /\ lost \in Nat
  BY <1>4, IngressAssumption
<1>6. CASE IntfPop
  <2>1. /\ rd = "pop" /\ rd' = "read" /\ nfree > 0 /\ nfree' = nfree - 1
        /\ UNCHANGED <<todo, outq, lost>>
    BY <1>6 DEF IntfPop
  <2>2. Queued'
    BY <2>1 DEF Sending, Queued
  <2>3. BuffersConserved'
    BY <1>1, <1>3, <1>4, <1>5, <2>1 DEF BuffersConserved
  <2>4. Counting'
    BY <1>1, <1>4, <2>1, <2>3 DEF Counting
  <2> QED
    BY <1>2, <2>2, <2>4 DEF Sending
<1>7. CASE IntfRead
  <2>1. PICK p \in todo : /\ todo' = todo \ {p} /\ outq' = Append(outq, Bytes(p))
                          /\ rd = "read" /\ rd' = "pop" /\ UNCHANGED <<nfree, lost>>
    BY <1>7 DEF IntfRead
  <2> DEFINE e == Bytes(p)
  <2>2. Piece(e) /\ Len(e) # 0 /\ Fresh(e) /\ e \in Seq(Byte)
    BY <1>4, BytesFacts DEF Piece
  <2> HIDE DEF e
  <2>3. /\ outq' \in Seq(Seq(Byte)) /\ Len(outq') = nout + 1
        /\ \A k \in 1 .. nout : outq'[k] = outq[k]
        /\ outq'[nout + 1] = e
    BY <1>3, <2>1, <2>2, AppendFacts DEF e
  <2>4. \A k \in 1 .. nout + 1 : Piece(outq'[k]) /\ Len(outq'[k]) # 0 /\ Fresh(outq'[k])
    <3> TAKE k \in 1 .. nout + 1
    <3>1. CASE k = nout + 1
      BY <2>2, <2>3, <3>1
    <3>2. CASE k # nout + 1
      <4>1. k \in 1 .. nout
        BY <1>3, <3>2
      <4> QED
        BY <2>3, <4>1 DEF Sending, Queued
    <3> QED
      BY <3>1, <3>2
  <2>5. Queued'
    BY <2>3, <2>4 DEF Queued
  <2>6. BuffersConserved'
    BY <1>1, <1>3, <1>4, <1>5, <2>1, <2>3 DEF BuffersConserved
  <2>7. Counting'
    BY <1>1, <1>4, <2>1, <2>6 DEF Counting
  <2> QED
    BY <1>2, <2>5, <2>7 DEF Sending
<1>8. CASE IntfReadError
  <2>1. rd = "read" /\ rd' = "pop" /\ nfree' = nfree + 1 /\ UNCHANGED <<todo, outq, lost>>
    BY <1>8 DEF IntfReadError
  <2>2. Queued'
    BY <2>1 DEF Sending, Queued
  <2>3. BuffersConserved'
    BY <1>1, <1>3, <1>4, <1>5, <2>1 DEF BuffersConserved
  <2>4. Counting'
    BY <1>1, <1>4, <2>1, <2>3 DEF Counting
  <2> QED
    BY <1>2, <2>2, <2>4 DEF Sending
<1>9. CASE IntfReadZero
  <2>1. /\ rd = "read" /\ rd' = "pop" /\ lost < MaxZero /\ lost' = lost + 1
        /\ UNCHANGED <<todo, outq, nfree>>
    BY <1>9 DEF IntfReadZero
  <2>2. Queued'
    BY <2>1 DEF Sending, Queued
  <2>3. BuffersConserved'
    <3>1. nfree + nout + 0 + One(wm) + One(leftover) + nfreem + (lost + 1)
            = nfree + nout + 1 + One(wm) + One(leftover) + nfreem + lost
      <4>2. /\ nfree \in Int /\ nout \in Int /\ One(wm) \in Int /\ One(leftover) \in Int
            /\ nfreem \in Int /\ lost \in Int
        BY <1>3, <1>4, <1>5
      <4>3. PICK a \in Int, b \in Int, w \in Int, l \in Int, f \in Int, t \in Int :
              /\ a = nfree /\ b = nout /\ w = One(wm) /\ l = One(leftover) /\ f = nfreem /\ t = lost
        BY <4>2
      <4>4. a + b + 0 + w + l + f + (t + 1) = a + b + 1 + w + l + f + t
        OBVIOUS
      <4> QED
        BY <4>3, <4>4
    <3> QED
      BY <1>1, <1>3, <1>4, <2>1, <3>1 DEF BuffersConserved
  <2>4. Counting'
    BY <1>1, <1>4, <1>5, <2>1, <2>3 DEF Counting
  <2> QED
    BY <1>2, <2>2, <2>4 DEF Sending
<1> QED
  BY <1>6, <1>7, <1>8, <1>9 DEF IntfReader

\* The count of buffers after a step of the writer, by lengths.
LEMMA Recount ==
    ASSUME Counting, NEW dn \in Int, NEW dq \in Int, NEW dw \in Int, NEW dl \in Int, NEW df \in Int,
           Len(outq) \in Nat, One(wm) \in Nat, One(leftover) \in Nat,
           nfree' = nfree + dn, Len(outq') = Len(outq) + dq, One(wm') = One(wm) + dw,
           One(leftover') = One(leftover) + dl, nfreem' = nfreem + df,
           nfree' \in Nat, nfreem' \in Nat,
           dn + dq + dw + dl + df = 0,
           UNCHANGED <<todo, rd, lost>>, empties' \in 0 .. MaxEmpty, sentall' \subseteq Pkts
    PROVE  Counting'
<1> DEFINE nout == Len(outq)
           reading == IF rd = "read" THEN 1 ELSE 0
<1>1. /\ nfree \in Nat /\ nfreem \in Nat /\ lost \in 0 .. MaxZero
      /\ nfree + nout + reading + One(wm) + One(leftover) + nfreem + lost = Pool
      /\ todo \subseteq Pkts /\ rd \in {"pop", "read"}
  BY DEF Counting, BuffersConserved
<1>2. Pool \in Nat /\ lost \in Nat /\ reading \in Nat
  BY <1>1, IngressAssumption
<1> HIDE DEF nout, reading
<1>3. nfree' + Len(outq') + reading + One(wm') + One(leftover') + nfreem' + lost = Pool
  <2>2. (nfree + dn) + (nout + dq) + reading + (One(wm) + dw) + (One(leftover) + dl) + (nfreem + df) + lost
          = nfree + nout + reading + One(wm) + One(leftover) + nfreem + lost
    <3>1. /\ nfree \in Int /\ nout \in Int /\ reading \in Int /\ One(wm) \in Int
          /\ One(leftover) \in Int /\ nfreem \in Int /\ lost \in Int
      BY <1>1, <1>2 DEF nout
    <3>2. PICK a \in Int, b \in Int, r \in Int, w \in Int, l \in Int, f \in Int, t \in Int :
            /\ a = nfree /\ b = nout /\ r = reading /\ w = One(wm) /\ l = One(leftover)
            /\ f = nfreem /\ t = lost
      BY <3>1
    <3>3. (a + dn) + (b + dq) + r + (w + dw) + (l + dl) + (f + df) + t = a + b + r + w + l + f + t
      OBVIOUS
    <3> QED
      BY <3>2, <3>3
  <2> QED
    BY <1>1, <2>2 DEF nout
<1>4. One(wm)' = One(wm') /\ One(leftover)' = One(leftover')
  BY DEF One
<1>5. BuffersConserved'
  BY <1>3, <1>4 DEF BuffersConserved, reading
<1> QED
  BY <1>1, <1>5 DEF Counting

LEMMA WStartStep ==
    ASSUME Sending, WStartLeftover \/ WStartNew
    PROVE  Sending'
<1>1. /\ wm \in Seq(Byte) /\ leftover \in Seq(Byte) /\ outq \in Seq(Seq(Byte))
      /\ Len(wm) \in Nat /\ Len(leftover) \in Nat /\ Len(outq) \in Nat
      /\ leftover = << >> <=> Len(leftover) = 0
      /\ One(wm) = (IF Len(wm) = 0 THEN 0 ELSE 1)
      /\ One(leftover) = (IF Len(leftover) = 0 THEN 0 ELSE 1)
  BY SendingFacts
<1>2. /\ wpc = "idle" /\ wpc' = "fill" /\ body' = << >> /\ UNCHANGED <<seq, net, faults>>
      /\ UNCHANGED <<todo, rd, lost, nfree, nfreem, empties, sentall>>
  BY DEF WStartLeftover, WStartNew, netvars
<1>3. Len(wm) = 0 /\ Piece(leftover) /\ seq \in 0 .. SeqMod - 1 /\ One(wm) = 0
  BY <1>1, <1>2 DEF Sending, Packing
<1>4. InFlight' /\ Counting /\ Queued
  BY <1>2 DEF Sending, InFlight
<1>5. Payload \in Nat /\ MinRoom < Payload /\ MinRoom \in Nat
  BY Sizes
<1>6. body' \in Seq(Cell) /\ Len(body') = 0 /\ Room' = Payload
  BY <1>2, <1>5, EmptySeq DEF Room
<1>7. nfree \in Nat /\ nfreem \in Nat /\ empties \in 0 .. MaxEmpty /\ sentall \subseteq Pkts
  BY <1>4 DEF Counting
<1>8. \A off \in Nat : Formed(body', off)
  BY <1>2, FormedEmpty
<1>9. CASE WStartLeftover
  <2>1. /\ leftover # << >> /\ wm' = leftover /\ leftover' = << >>
        /\ offset' = Len(leftover) /\ UNCHANGED <<outq, txorder>>
    BY <1>9 DEF WStartLeftover
  <2>2. Len(leftover) # 0 /\ Piece(wm') /\ Len(wm') = Len(leftover) /\ offset' \in Nat
    BY <1>1, <1>3, <2>1
  <2>3. Len(leftover') = 0 /\ leftover' \in Seq(Byte)
    BY <2>1, EmptySeq
  <2>4. Piece(leftover')
    BY <2>3 DEF Piece
  <2>5. Packing'
    BY <1>2, <1>3, <1>5, <1>6, <1>8, <2>1, <2>2, <2>3, <2>4 DEF Packing
  <2>6. Queued'
    BY <1>4, <2>1 DEF Queued
  <2>7. One(wm') = 1 /\ One(leftover') = 0 /\ One(leftover) = 1
    BY <1>1, <2>1, <2>2, <2>3, OneFacts
  <2>8. Counting'
    <3>1. /\ nfree' = nfree + 0 /\ Len(outq') = Len(outq) + 0 /\ One(wm') = One(wm) + 1
          /\ One(leftover') = One(leftover) + -1 /\ nfreem' = nfreem + 0
          /\ 0 + 0 + 1 + -1 + 0 = 0 /\ 0 \in Int /\ 1 \in Int /\ -1 \in Int
          /\ One(wm) \in Nat /\ One(leftover) \in Nat
      BY <1>1, <1>2, <1>3, <1>7, <2>1, <2>7
    <3> QED
      BY <1>1, <1>2, <1>4, <1>7, <3>1, Recount
  <2> QED
    BY <1>4, <2>5, <2>6, <2>8 DEF Sending
<1>10. CASE WStartNew
  <2>1. /\ leftover = << >> /\ outq # << >> /\ wm' = Top(outq) /\ outq' = Below(outq)
        /\ offset' = 0 /\ leftover' = leftover
    BY <1>10 DEF WStartNew, TakeFromQueue
  <2>2. /\ Piece(wm') /\ Len(wm') \in Nat \ {0} /\ Fresh(wm')
        /\ outq' \in Seq(Seq(Byte)) /\ Len(outq') = Len(outq) - 1
        /\ \A k \in 1 .. Len(outq) - 1 : Piece(outq'[k]) /\ Len(outq'[k]) # 0 /\ Fresh(outq'[k])
    BY <2>1, QueueTop
  <2>3. Len(leftover') = 0 /\ Piece(leftover')
    BY <1>1, <1>3, <2>1
  <2>4. Packing'
    BY <1>2, <1>3, <1>5, <1>6, <1>8, <2>1, <2>2, <2>3 DEF Packing
  <2>5. Queued'
    BY <2>2 DEF Queued
  <2>6. One(wm') = 1
    BY <2>2, OneFacts DEF Piece
  <2>7. Counting'
    <3>1. /\ nfree' = nfree + 0 /\ Len(outq') = Len(outq) + -1 /\ One(wm') = One(wm) + 1
          /\ One(leftover') = One(leftover) + 0 /\ nfreem' = nfreem + 0
          /\ 0 + -1 + 1 + 0 + 0 = 0 /\ 0 \in Int /\ 1 \in Int /\ -1 \in Int
          /\ One(wm) \in Nat /\ One(leftover) \in Nat
      BY <1>1, <1>2, <1>3, <1>7, <2>1, <2>2, <2>6
    <3> QED
      BY <1>1, <1>2, <1>4, <1>7, <3>1, Recount
  <2> QED
    BY <1>4, <2>4, <2>5, <2>7 DEF Sending
<1> QED
  BY <1>9, <1>10

\* An outer packet that is handed to the path.
LEMMA TransmitOuter ==
    ASSUME NEW s \in 0 .. SeqMod - 1, NEW off \in Nat, NEW b, Formed(b, off), Len(b) = Payload
    PROVE  [seq |-> s, offset |-> off, body |-> b] \in Outer
<1>1. b \in Seq(Cell)
  BY DEF Formed
<1> QED
  BY <1>1 DEF Outer, Outers

LEMMA NextSeqType ==
    ASSUME NEW s \in 0 .. SeqMod - 1
    PROVE  (s + 1) % SeqMod \in 0 .. SeqMod - 1
BY Sizes

LEMMA WEmptyStep ==
    ASSUME Sending, WEmpty
    PROVE  Sending'
<1>1. /\ wpc = "idle" /\ empties < MaxEmpty /\ empties' = empties + 1
      /\ net' = Append(net, [seq |-> seq, offset |-> 0, body |-> Padding(Payload)])
      /\ seq' = (seq + 1) % SeqMod
      /\ UNCHANGED <<todo, rd, nfree, outq, lost, wpc, wm, leftover, offset, body,
                     nfreem, txorder, carriers, sentall, faults>>
  BY DEF WEmpty, Transmit
<1>2. seq \in 0 .. SeqMod - 1 /\ net \in Seq(Outer) /\ faults \in Nat /\ Counting /\ Packing
  BY DEF Sending, Packing, InFlight
<1>3. Formed(<< >>, 0) /\ Len(<< >>) = 0 /\ << >> \in Seq(Cell)
  BY FormedEmpty, EmptySeq
<1> DEFINE pad == Padding(Payload)
<1>4. pad \in Seq(Cell) /\ Payload \in Nat
  BY PaddingFacts, Sizes
<1>5. Formed(pad, 0) /\ Len(pad) = Payload
  <2>1. << >> \o pad = pad
    BY <1>4, ConcatEmptySeq
  <2>2. Formed(<< >> \o pad, 0) /\ Len(<< >> \o pad) = Len(<< >>) + Payload
    <3>1. 0 \in Nat /\ 0 <= Len(<< >>)
      BY <1>3
    <3> QED
      BY <1>3, <1>4, <3>1, FormedPad, Zenon
  <2> QED
    BY <1>3, <1>4, <2>1, <2>2
<1> HIDE DEF pad
<1>6. InFlight'
  <2>1. [seq |-> seq, offset |-> 0, body |-> pad] \in Outer
    BY <1>2, <1>5, TransmitOuter
  <2> QED
    BY <1>1, <1>2, <2>1, Flight DEF InFlight, pad
<1>7. seq' \in 0 .. SeqMod - 1
  BY <1>1, <1>2, NextSeqType
<1>8. Packing'
  BY <1>1, <1>2, <1>7 DEF Packing, Room
<1>9. Queued'
  BY <1>1 DEF Sending, Queued
<1>10. Counting'
  <2>1. empties' \in 0 .. MaxEmpty
    BY <1>1, <1>2, IngressAssumption DEF Counting
  <2> QED
    BY <1>1, <1>2, <2>1 DEF Counting, BuffersConserved, One
<1> QED
  BY <1>6, <1>8, <1>9, <1>10 DEF Sending

\* What holds while an outer packet is being filled.
LEMMA Filling ==
    ASSUME Sending, wpc = "fill"
    PROVE  /\ Len(leftover) = 0 /\ leftover = << >> /\ One(leftover) = 0
           /\ Len(body) < Payload /\ Room \in Nat \ {0} /\ Payload \in Nat
           /\ Room = Payload - Len(body)
           /\ Piece(wm) /\ wm \in Seq(Byte) /\ Len(wm) \in Nat
           /\ Len(body) \in Nat /\ body \in Seq(Cell) /\ Formed(body, offset) /\ offset \in Nat
           /\ wm = << >> <=> Len(wm) = 0
           /\ Len(wm) # 0 => Room > MinRoom
           /\ Len(body) = 0 => Len(wm) # 0 /\ ((offset = 0 /\ Fresh(wm)) \/ offset = Len(wm))
           /\ Len(body) # 0 => offset <= Len(body) /\ (Len(wm) # 0 => Fresh(wm))
           /\ seq \in 0 .. SeqMod - 1
           /\ nfree \in Nat /\ nfreem \in Nat /\ empties \in 0 .. MaxEmpty /\ sentall \subseteq Pkts
<1>1. /\ Len(body) \in Nat /\ body \in Seq(Cell) /\ Len(wm) \in Nat /\ wm \in Seq(Byte)
      /\ wm = << >> <=> Len(wm) = 0
      /\ leftover = << >> <=> Len(leftover) = 0
      /\ One(leftover) = IF Len(leftover) = 0 THEN 0 ELSE 1
  BY SendingFacts
<1>2. /\ Len(leftover) = 0 /\ Len(body) < Payload /\ Piece(wm)
      /\ Formed(body, offset) /\ offset \in Nat
      /\ Len(wm) # 0 => Room > MinRoom
      /\ Len(body) = 0 => Len(wm) # 0 /\ ((offset = 0 /\ Fresh(wm)) \/ offset = Len(wm))
      /\ Len(body) # 0 => offset <= Len(body) /\ (Len(wm) # 0 => Fresh(wm))
      /\ seq \in 0 .. SeqMod - 1
  BY DEF Sending, Packing
<1>3. Payload \in Nat
  BY Sizes
<1>4. Room = Payload - Len(body) /\ Room \in Nat \ {0}
  BY <1>1, <1>2, <1>3 DEF Room
<1>5. nfree \in Nat /\ nfreem \in Nat /\ empties \in 0 .. MaxEmpty /\ sentall \subseteq Pkts
  BY DEF Sending, Counting
<1> QED
  BY <1>1, <1>2, <1>3, <1>4, <1>5

LEMMA WPadStep ==
    ASSUME Sending, WPad
    PROVE  Sending'
<1>1. /\ wpc = "fill" /\ wpc' = "send"
      /\ Room <= MinRoom \/ wm = << >>
      /\ body' = body \o Padding(Room)
      /\ UNCHANGED <<todo, rd, nfree, outq, lost, wm, leftover, offset, nfreem,
                     seq, empties, txorder, carriers, sentall, net, faults>>
  BY DEF WPad, netvars
<1>2. /\ Len(leftover) = 0 /\ Room \in Nat \ {0} /\ Payload \in Nat
      /\ Room = Payload - Len(body) /\ Piece(wm) /\ Len(wm) \in Nat /\ Len(body) \in Nat
      /\ wm = << >> <=> Len(wm) = 0
      /\ Len(wm) # 0 => Room > MinRoom
      /\ Len(body) = 0 => Len(wm) # 0
      /\ Len(body) # 0 => offset <= Len(body)
      /\ Formed(body, offset) /\ offset \in Nat
  BY <1>1, Filling
<1>3. Len(wm) = 0 /\ offset <= Len(body)
  BY <1>1, <1>2, Sizes
<1>4. Formed(body', offset) /\ Len(body') = Len(body) + Room
  BY <1>1, <1>2, <1>3, FormedPad
<1>5. Len(body') = Payload /\ body' \in Seq(Cell)
  BY <1>2, <1>4 DEF Formed
<1>6. Packing'
  BY <1>1, <1>3, <1>4, <1>5 DEF Sending, Packing
<1>7. Queued' /\ InFlight' /\ Counting'
  BY <1>1 DEF Sending, Queued, InFlight, Counting, BuffersConserved, One
<1> QED
  BY <1>6, <1>7 DEF Sending

LEMMA WPartialStep ==
    ASSUME Sending, WPartial
    PROVE  Sending'
<1>1. /\ wpc = "fill" /\ wpc' = "send" /\ wm # << >> /\ Len(wm) > Room
      /\ body' = body \o SubSeq(wm, 1, Room)
      /\ leftover' = Drop(wm, Room) /\ wm' = << >>
      /\ UNCHANGED <<todo, rd, nfree, outq, lost, offset, nfreem, seq, empties,
                     txorder, carriers, sentall, net, faults>>
  BY DEF WPartial, netvars
<1>2. /\ One(leftover) = 0 /\ Room \in Nat \ {0} /\ Payload \in Nat
      /\ Room = Payload - Len(body) /\ Piece(wm) /\ wm \in Seq(Byte)
      /\ Len(wm) \in Nat /\ Len(body) \in Nat
      /\ Len(body) = 0 => ((offset = 0 /\ Fresh(wm)) \/ offset = Len(wm))
      /\ Len(body) # 0 => offset <= Len(body) /\ (Len(wm) # 0 => Fresh(wm))
      /\ Formed(body, offset) /\ offset \in Nat /\ seq \in 0 .. SeqMod - 1
      /\ nfree \in Nat /\ nfreem \in Nat /\ empties \in 0 .. MaxEmpty /\ sentall \subseteq Pkts
  BY <1>1, Filling
<1> DEFINE s == SubSeq(wm, 1, Room)
<1>3. Room \in 0 .. Len(wm) /\ 1 \in 1 .. Room
  BY <1>1, <1>2
<1>4. Piece(s) /\ Len(s) = Room /\ s[1] = wm[1]
  BY <1>2, <1>3, PieceTake, TakeFacts
<1>5. Piece(leftover') /\ Len(leftover') = Len(wm) - Room
  BY <1>1, <1>2, <1>3, PieceDrop
<1> HIDE DEF s
<1>6. Len(s) # 0 /\ (Fresh(wm) => Fresh(s))
  BY <1>2, <1>4 DEF Fresh
<1>7. \/ offset <= Len(body) /\ Fresh(s)
      \/ Len(body) = 0 /\ offset >= Len(s)
  BY <1>1, <1>2, <1>4, <1>6
<1>8. Formed(body \o s, offset) /\ Len(body \o s) = Len(body) + Len(s)
  BY <1>2, <1>4, <1>6, <1>7, FormedAppend
<1>9. Formed(body', offset) /\ Len(body') = Payload /\ body' \in Seq(Cell)
  <2>1. body' = body \o s
    BY <1>1 DEF s
  <2>2. Formed(body', offset) /\ Len(body') = Len(body) + Room
    BY <1>4, <1>8, <2>1
  <2> QED
    BY <1>2, <2>2 DEF Formed
<1>10. Piece(wm') /\ Len(wm') = 0 /\ wm' \in Seq(Byte)
  BY <1>1, EmptySeq DEF Piece
<1>11. Packing'
  BY <1>1, <1>2, <1>5, <1>9, <1>10 DEF Packing
<1>12. Queued' /\ InFlight' /\ Counting
  BY <1>1 DEF Sending, Queued, InFlight
<1>13. Counting'
  <2>1. One(wm) = 1 /\ One(wm') = 0
    BY <1>1 DEF One
  <2>2. One(leftover') = 1
    BY <1>1, <1>2, <1>5, OneFacts DEF Piece
  <2>3. /\ nfree' = nfree + 0 /\ Len(outq') = Len(outq) + 0 /\ One(wm') = One(wm) + -1
        /\ One(leftover') = One(leftover) + 1 /\ nfreem' = nfreem + 0
        /\ 0 + 0 + -1 + 1 + 0 = 0 /\ 0 \in Int /\ 1 \in Int /\ -1 \in Int
        /\ Len(outq) \in Nat /\ One(wm) \in Nat /\ One(leftover) \in Nat
    BY <1>1, <1>2, <2>1, <2>2, SendingFacts
  <2> QED
    <3>1. /\ nfree' \in Nat /\ nfreem' \in Nat /\ UNCHANGED <<todo, rd, lost>>
          /\ empties' \in 0 .. MaxEmpty /\ sentall' \subseteq Pkts
      BY <1>1, <1>2
    <3> QED
      BY <1>12, <2>3, <3>1, Recount
<1> QED
  BY <1>11, <1>12, <1>13 DEF Sending

LEMMA WFullStep ==
    ASSUME Sending, WFull
    PROVE  Sending'
<1> DEFINE room == Room - Len(wm)
           more == room > MinRoom /\ ~OneOnly /\ outq # << >>
<1>1. /\ wpc = "fill" /\ wm # << >> /\ Len(wm) <= Room
      /\ body' = body \o wm /\ nfreem' = nfreem + 1
      /\ IF more
         THEN wm' = Top(outq) /\ outq' = Below(outq)
         ELSE wm' = << >> /\ UNCHANGED <<outq, txorder>>
      /\ wpc' = IF room = 0 THEN "send" ELSE "fill"
      /\ UNCHANGED <<todo, rd, nfree, lost, leftover, offset, seq, empties,
                     carriers, sentall, net, faults>>
  BY DEF WFull, TakeFromQueue, netvars
<1>2. /\ One(leftover) = 0 /\ Len(leftover) = 0 /\ Room \in Nat \ {0} /\ Payload \in Nat
      /\ Room = Payload - Len(body) /\ Piece(wm) /\ wm \in Seq(Byte)
      /\ Len(wm) \in Nat /\ Len(body) \in Nat
      /\ wm = << >> <=> Len(wm) = 0
      /\ Len(body) = 0 => ((offset = 0 /\ Fresh(wm)) \/ offset = Len(wm))
      /\ Len(body) # 0 => offset <= Len(body) /\ (Len(wm) # 0 => Fresh(wm))
      /\ Formed(body, offset) /\ offset \in Nat /\ seq \in 0 .. SeqMod - 1
      /\ nfree \in Nat /\ nfreem \in Nat /\ empties \in 0 .. MaxEmpty /\ sentall \subseteq Pkts
  BY <1>1, Filling
<1>3. Len(wm) # 0
  BY <1>1, <1>2
<1>4. \/ offset <= Len(body) /\ Fresh(wm)
      \/ Len(body) = 0 /\ offset >= Len(wm)
  BY <1>2, <1>3
<1>5. Formed(body', offset) /\ Len(body') = Len(body) + Len(wm)
  BY <1>1, <1>2, <1>3, <1>4, FormedAppend
<1>6. /\ body' \in Seq(Cell) /\ Len(body') # 0 /\ Len(body') <= Payload /\ offset <= Len(body')
      /\ room = Payload - Len(body') /\ room \in Nat /\ Len(body') \in Nat
  BY <1>1, <1>2, <1>3, <1>4, <1>5 DEF Formed
<1>7. Room' = room
  BY <1>6 DEF Room
<1>8. Queued /\ Counting /\ Len(outq) \in Nat /\ MinRoom \in Nat /\ Piece(leftover)
  BY SendingFacts, Sizes DEF Sending, Packing
<1>9. /\ Piece(wm') /\ Len(wm') \in Nat
      /\ Len(wm') # 0 => Fresh(wm') /\ room > MinRoom
      /\ Queued' /\ Len(outq') \in Nat
      /\ Len(outq') + One(wm') = Len(outq)
      /\ One(wm') \in {0, 1}
  <2>1. CASE more
    <3>1. wm' = Top(outq) /\ outq' = Below(outq) /\ outq # << >> /\ room > MinRoom
      BY <1>1, <2>1
    <3>2. /\ Piece(wm') /\ Len(wm') \in Nat \ {0} /\ Fresh(wm')
          /\ outq' \in Seq(Seq(Byte)) /\ Len(outq') = Len(outq) - 1
          /\ \A k \in 1 .. Len(outq) - 1 : Piece(outq'[k]) /\ Len(outq'[k]) # 0 /\ Fresh(outq'[k])
      BY <3>1, QueueTop
    <3>3. Queued'
      BY <3>2 DEF Queued
    <3>4. One(wm') = 1
      BY <3>2, OneFacts DEF Piece
    <3>5. Len(outq') \in Nat
      BY <3>2, EmptyLen
    <3> QED
      BY <1>8, <3>1, <3>2, <3>3, <3>4, <3>5
  <2>2. CASE ~more
    <3>1. wm' = << >> /\ outq' = outq
      BY <1>1, <2>2
    <3>2. Len(wm') = 0 /\ wm' \in Seq(Byte) /\ One(wm') = 0
      BY <3>1, EmptySeq DEF One
    <3>3. Piece(wm')
      BY <3>2 DEF Piece
    <3>4. Queued'
      BY <1>8, <3>1 DEF Queued
    <3> QED
      BY <1>8, <3>1, <3>2, <3>3, <3>4
  <2> QED
    BY <2>1, <2>2
<1> HIDE DEF room, more
<1>10. room = 0 => Len(wm') = 0
  BY <1>8, <1>9
<1>11. wpc' = "send" => Len(wm') = 0 /\ Len(body') = Payload
  BY <1>1, <1>2, <1>6, <1>10
<1>12. wpc' = "fill" => Len(body') < Payload
  <2>1. wpc' = "fill" => room # 0
    BY <1>1
  <2> QED
    BY <1>2, <1>6, <2>1
<1>13. wpc' \in {"fill", "send"}
  BY <1>1
<1>14. Piece(leftover') /\ Len(leftover') = 0 /\ offset' = offset /\ seq' = seq
  BY <1>1, <1>2, <1>8
<1>15. Packing'
  BY <1>2, <1>5, <1>6, <1>7, <1>9, <1>11, <1>12, <1>13, <1>14 DEF Packing
<1>16. InFlight'
  BY <1>1 DEF Sending, InFlight
<1>17. Counting'
  <2>1. One(wm) = 1
    BY <1>1 DEF One
  <2> DEFINE dq == Len(outq') - Len(outq)
             dw == One(wm') - One(wm)
  <2>2. dq \in Int /\ dw \in Int /\ 0 + dq + dw + 0 + 1 = 0 /\ 0 \in Int /\ 1 \in Int
    BY <1>8, <1>9, <2>1
  <2>3. /\ nfree' = nfree + 0 /\ Len(outq') = Len(outq) + dq /\ One(wm') = One(wm) + dw
        /\ One(leftover') = One(leftover) + 0 /\ nfreem' = nfreem + 1
        /\ One(wm) \in Nat /\ One(leftover) \in Nat /\ nfree' \in Nat /\ nfreem' \in Nat
    BY <1>1, <1>2, <1>8, <1>9, <2>1
  <2> HIDE DEF dq, dw
  <2> QED
    BY <1>1, <1>2, <1>8, <2>2, <2>3, Recount
<1> QED
  BY <1>9, <1>15, <1>16, <1>17 DEF Sending

LEMMA SentType ==
    ASSUME Sending, Record
    PROVE  sentall' \subseteq Pkts
BY DEF Sending, Counting, Record, PktsEndingIn

LEMMA WSendStep ==
    ASSUME Sending, WSend \/ WSendShort
    PROVE  Sending'
<1> DEFINE o == [seq |-> seq, offset |-> offset, body |-> body]
<1>1. /\ wpc = "send" /\ wpc' = "idle" /\ Record
      /\ seq' = (seq + 1) % SeqMod /\ nfreem' = 0 /\ body' = << >> /\ offset' = 0
      /\ UNCHANGED <<todo, rd, outq, lost, wm, empties, txorder>>
  BY DEF WSend, WSendShort
<1>2. /\ \/ net' = Append(net, o) /\ faults' = faults
         \/ net' = net /\ faults' = faults + 1
      /\ \/ leftover' = leftover /\ nfree' = nfree + nfreem
         \/ leftover' = << >> /\ nfree' = nfree + (nfreem + One(leftover))
  BY DEF WSend, WSendShort, Transmit, Fault, One
<1>3. /\ net \in Seq(Outer) /\ faults \in Nat /\ seq \in 0 .. SeqMod - 1 /\ offset \in Nat
      /\ Formed(body, offset) /\ Len(body) = Payload /\ Len(wm) = 0 /\ Piece(wm) /\ Piece(leftover)
  BY <1>1 DEF Sending, InFlight, Packing
<1>4. o \in Outer
  BY <1>3, TransmitOuter
<1> HIDE DEF o
<1>5. InFlight'
  <2>1. Append(net, o) \in Seq(Outer)
    BY <1>3, <1>4, Flight
  <2>2. net' \in Seq(Outer)
    BY <1>2, <1>3, <2>1, Zenon
  <2>3. faults' = faults \/ faults' = faults + 1
    BY <1>2, Zenon
  <2>4. faults' \in Nat
    BY <1>3, <2>3
  <2> QED
    BY <2>2, <2>4 DEF InFlight
<1>6. seq' \in 0 .. SeqMod - 1
  BY <1>1, <1>3, NextSeqType
<1>7. Len(body') = 0 /\ body' \in Seq(Cell)
  BY <1>1, EmptySeq
<1>8. Piece(leftover') /\ One(leftover') \in Nat /\ One(leftover) \in Nat
  <2>1. CASE leftover' = leftover
    BY <1>3, <2>1 DEF One
  <2>2. CASE leftover' = << >>
    <3>1. leftover' \in Seq(Byte) /\ Len(leftover') = 0
      BY <2>2, EmptySeq
    <3> QED
      BY <3>1 DEF Piece, One
  <2> QED
    BY <1>2, <2>1, <2>2
<1>9. Packing'
  BY <1>1, <1>3, <1>6, <1>7, <1>8 DEF Packing
<1>10. Queued' /\ Counting
  BY <1>1 DEF Sending, Queued
<1>11. sentall' \subseteq Pkts
  BY <1>1, SentType
<1>12. /\ Len(outq) \in Nat /\ nfree \in Nat /\ nfreem \in Nat /\ One(wm) \in Nat
       /\ empties \in 0 .. MaxEmpty
  BY <1>10, SendingFacts DEF One, Counting
<1>13. Counting'
  <2> DEFINE dn == nfree' - nfree
             dl == One(leftover') - One(leftover)
             df == 0 - nfreem
  <2>1. /\ nfree' \in Nat /\ dn \in Int /\ dl \in Int /\ df \in Int /\ 0 \in Int
        /\ dn + 0 + 0 + dl + df = 0
    <3>1. CASE leftover' = leftover /\ nfree' = nfree + nfreem
      <4>1. One(leftover') = One(leftover)
        BY <3>1
      <4> HIDE DEF One
      <4> QED
        BY <1>8, <1>12, <3>1, <4>1
    <3>2. CASE leftover' = << >> /\ nfree' = nfree + (nfreem + One(leftover))
      <4>1. One(leftover') = 0
        BY <3>2 DEF One
      <4>2. PICK l \in Nat : l = One(leftover)
        BY <1>8
      <4>3. PICK f \in Nat, n \in Nat : f = nfreem /\ n = nfree
        BY <1>12
      <4>4. nfree' = n + (f + l)
        BY <3>2, <4>2, <4>3
      <4>5. dn = f + l /\ dl = 0 - l /\ df = 0 - f
        BY <4>1, <4>2, <4>3, <4>4
      <4> HIDE DEF dn, dl, df
      <4> QED
        BY <4>4, <4>5
    <3> QED
      BY <1>2, <3>1, <3>2
  <2>2. nfree' = nfree + dn /\ One(leftover') = One(leftover) + dl
    <3>1. \A x, y \in Nat : y = x + (y - x)
      OBVIOUS
    <3> QED
      BY <1>8, <1>12, <2>1, <3>1
  <2>3. nfreem' = nfreem + df /\ nfreem' \in Nat
    BY <1>1, <1>12
  <2>4. Len(outq') = Len(outq) + 0 /\ One(wm') = One(wm) + 0
    BY <1>1, <1>12
  <2> HIDE DEF dn, dl, df
  <2> QED
    BY <1>1, <1>8, <1>10, <1>11, <1>12, <2>1, <2>2, <2>3, <2>4, Recount
<1> QED
  BY <1>5, <1>9, <1>10, <1>13 DEF Sending

\* The path only reorders, repeats and forgets.
LEMMA NetStep ==
    ASSUME InFlight, NetNext
    PROVE  InFlight'
<1>1. net \in Seq(Outer) /\ faults \in Nat
  BY DEF InFlight
<1>2. faults' \in Nat
  BY <1>1 DEF NetNext, NetLose, NetDup, NetReorder, Fault
<1>3. net' \in Seq(Outer)
  <2>1. CASE NetLose
    <3>1. PICK i \in DOMAIN net : net' = SubSeq(net, 1, i - 1) \o Drop(net, i)
      BY <2>1 DEF NetLose
    <3> QED
      BY <1>1, <3>1, Flight
  <2>2. CASE NetDup
    <3>1. PICK i \in DOMAIN net : net' = SubSeq(net, 1, i) \o <<net[i]>> \o Drop(net, i)
      BY <2>2 DEF NetDup
    <3> QED
      BY <1>1, <3>1, Flight
  <2>3. CASE NetReorder
    <3>1. PICK i \in DOMAIN net \ {Len(net)} :
            net' = [net EXCEPT ![i] = net[i + 1], ![i + 1] = net[i]]
      BY <2>3 DEF NetReorder
    <3> QED
      BY <1>1, <3>1, Flight
  <2> QED
    BY <2>1, <2>2, <2>3 DEF NetNext
<1> QED
  BY <1>2, <1>3 DEF InFlight

LEMMA SendingStep ==
    ASSUME Sending, IngressNext
    PROVE  Sending'
BY IntfStep, WStartStep, WEmptyStep, WPadStep, WPartialStep, WFullStep, WSendStep
   DEF IngressNext, TfsWriter

-----------------------------------------------------------------------------
\* The receiver.

LEMMA HeadOuter ==
    ASSUME InFlight, net # << >>
    PROVE  /\ Head(net).seq \in 0 .. SeqMod - 1 /\ Head(net).seq \in Nat
           /\ Head(net).seq < SeqMod /\ Head(net).offset \in Nat
           /\ Head(net).body \in Seq(Cell) /\ Len(Head(net).body) = Payload
           /\ Formed(Head(net).body, Head(net).offset)
           /\ Tail(net) \in Seq(Outer)
<1>1. Head(net) \in Outer /\ Tail(net) \in Seq(Outer)
  BY Flight DEF InFlight
<1> DEFINE o == Head(net)
<1> HIDE DEF o
<1>2. o \in Outers /\ Len(o.body) = Payload /\ Formed(o.body, o.offset)
  BY <1>1 DEF Outer, o
<1>3. o.seq \in 0 .. SeqMod - 1 /\ o.offset \in Nat /\ o.body \in Seq(Cell)
  BY <1>2 DEF Outers
<1>4. o.seq \in Nat /\ o.seq < SeqMod
  BY <1>3, Sizes
<1> QED
  BY <1>1, <1>2, <1>3, <1>4 DEF o

\* The inner packet in progress, or an empty one.
LEMMA InProgress ==
    ASSUME Receiving
    PROVE  /\ InSlots(M) /\ InSlots(EmptyMiov)
           /\ M.data \in Seq(Cell) /\ M.left \in Nat /\ M.niov \in Nat /\ Len(M.data) \in Nat
           /\ M.data = << >> <=> Len(M.data) = 0
           /\ M.data = << >> <=> M.niov = 0
<1>1. << >> \in Seq(Cell) /\ Len(<< >>) = 0
  BY EmptySeq
<1>2. InSlots(EmptyMiov)
  BY <1>1 DEF InSlots, EmptyMiov, Miovs
<1>3. InSlots(M)
  BY <1>2 DEF Receiving, M
<1>4. /\ M.data \in Seq(Cell) /\ M.left \in Nat /\ M.niov \in Nat
      /\ Len(M.data) = 0 <=> M.niov = 0
  BY <1>3 DEF InSlots, Miovs
<1>5. Len(M.data) \in Nat /\ (M.data = << >> <=> Len(M.data) = 0)
  BY <1>4, EmptyLen
<1> QED
  BY <1>2, <1>3, <1>4, <1>5

\* miov_addmbuf.
LEMMA AddMbufFacts ==
    ASSUME NEW mi \in Miovs, NEW s \in Seq(Cell), NEW n \in 0 .. Len(s)
    PROVE  AddMbuf(mi, s, n) = [data |-> mi.data \o SubSeq(s, 1, n), left |-> mi.left,
                                niov |-> mi.niov + 1]
           /\ mi.data \o SubSeq(s, 1, n) \in Seq(Cell)
           /\ Len(mi.data \o SubSeq(s, 1, n)) = Len(mi.data) + n
<1> DEFINE d == mi.data
           t == SubSeq(s, 1, n)
<1>1. d \in Seq(Cell) /\ mi.left \in Nat /\ mi.niov \in Nat
  BY DEF Miovs
<1>2. t \in Seq(Cell) /\ Len(t) = n
  BY TakeFacts
<1>3. mi = [data |-> d, left |-> mi.left, niov |-> mi.niov]
  BY DEF Miovs
<1> HIDE DEF d, t
<1>4. d \o t \in Seq(Cell) /\ Len(d \o t) = Len(d) + n
  BY <1>1, <1>2, ConcatProperties
<1>5. AddMbuf(mi, s, n) = [mi EXCEPT !.data = d \o t, !.niov = mi.niov + 1]
  BY DEF AddMbuf, d, t
<1>6. AddMbuf(mi, s, n) = [data |-> d \o t, left |-> mi.left, niov |-> mi.niov + 1]
  BY <1>3, <1>5
<1> QED
  BY <1>4, <1>6 DEF d, t

\* The rest of an outer packet from n on.
LEMMA DropTb ==
    ASSUME NEW s \in Seq(Cell), Len(s) <= Payload, NEW n \in Nat
    PROVE  Drop(s, n) \in Seq(Cell) /\ Len(Drop(s, n)) \in Nat /\ Len(Drop(s, n)) <= Payload
<1>1. Len(s) \in Nat
  BY EmptyLen
<1>2. /\ Drop(s, n) \in Seq(Cell)
      /\ n <= Len(s) => Len(Drop(s, n)) = Len(s) - n
      /\ n > Len(s) => Len(Drop(s, n)) = 0
  BY DropFacts
<1>3. Payload \in Nat
  BY Sizes
<1> QED
  BY <1>1, <1>2, <1>3

\* An inner packet is finished.
LEMMA FinishStep ==
    ASSUME Receiving, rpc = "add", NEW mi, NEW rest, Finish(mi, rest),
           rest \in Seq(Cell), Len(rest) <= Payload, UNCHANGED <<ack, accepted>>
    PROVE  Receiving'
<1>1. << >> \in Seq(Cell) /\ Len(<< >>) = 0 /\ 0 <= Payload
  BY EmptySeq, Sizes
<1>2. /\ m' = NULL /\ toff' = 0 /\ rpc' \in {"add", "top"}
      /\ tb' \in Seq(Cell) /\ Len(tb') <= Payload
      /\ rpc' = "top" => tb' = << >>
  BY <1>1 DEF Finish, OuterDone
<1> QED
  BY <1>2 DEF Receiving

\* It is not: the outer packet is used up.
LEMMA OuterDoneStep ==
    ASSUME Receiving, OuterDone, InSlots(m'), UNCHANGED <<ack, accepted>>
    PROVE  Receiving'
<1>1. << >> \in Seq(Cell) /\ Len(<< >>) = 0 /\ 0 <= Payload
  BY EmptySeq, Sizes
<1>2. toff' = 0 /\ rpc' = "top" /\ tb' = << >>
  BY DEF OuterDone
<1>3. tb' \in Seq(Cell) /\ Len(tb') <= Payload
  BY <1>1, <1>2
<1> QED
  BY <1>2, <1>3 DEF Receiving

LEMMA AbortStep ==
    ASSUME Receiving, Abort, UNCHANGED <<ack, accepted>>
    PROVE  Receiving'
BY DEF Receiving, Abort

\* The length of the packet that starts at a byte.
LEMMA IpLenFacts ==
    ASSUME NEW s \in Seq(Cell), Len(s) # 0, s[1] # PAD
    PROVE  s[1] \in Byte /\ IpLen(s) \in Nat /\ IpLen(s) <= MaxBuf /\ 0 < MaxBuf
<1>1. 1 \in 1 .. Len(s)
  BY EmptyLen
<1>2. s[1] \in Byte
  BY <1>1, ElementOfSeq DEF Cell
<1>3. s[1][1] \in Pkts
  BY <1>2, ByteFacts
<1>4. PktLen[s[1][1]] \in Nat /\ PktLen[s[1][1]] <= MaxBuf /\ 0 < MaxBuf /\ MaxBuf \in Nat
  BY <1>3, Sizes
<1> QED
  BY <1>2, <1>4 DEF IpLen

LEMMA AddStartStep ==
    ASSUME Receiving, AddStart
    PROVE  Receiving'
<1> DEFINE start == Drop(tb, toff)
           iplen == IpLen(start)
<1>1. /\ rpc = "add" /\ M.data = << >> /\ toff < Len(tb) /\ start[1] # PAD
      /\ IF ~HeaderAt(start)
         THEN Abort
         ELSE IF iplen # 0 /\ iplen <= Len(start)
              THEN Finish(AddMbuf(M, start, iplen), Drop(start, iplen))
              ELSE /\ m' = [AddMbuf(M, start, Len(start)) EXCEPT
                              !.left = IF iplen = 0 THEN 0 ELSE iplen - Len(start)]
                   /\ OuterDone
      /\ UNCHANGED <<ack, accepted>>
  BY DEF AddStart
<1>2. tb \in Seq(Cell) /\ Len(tb) <= Payload /\ toff \in Nat /\ Len(tb) \in Nat
  BY EmptyLen DEF Receiving
<1>3. start \in Seq(Cell) /\ Len(start) \in Nat /\ Len(start) <= Payload /\ Len(start) # 0
  BY <1>1, <1>2, DropTb, DropFacts
<1>4. iplen \in Nat /\ iplen <= MaxBuf /\ 0 < MaxBuf /\ MaxBuf \in Nat
  BY <1>1, <1>3, IpLenFacts, Sizes
<1>5. InSlots(M) /\ M \in Miovs /\ M.niov = 0 /\ Len(M.data) = 0
  BY <1>1, InProgress DEF InSlots
<1> HIDE DEF start, iplen
<1>6. CASE Abort
  BY <1>1, <1>6, AbortStep
<1>7. CASE Finish(AddMbuf(M, start, iplen), Drop(start, iplen))
  <2>1. Drop(start, iplen) \in Seq(Cell) /\ Len(Drop(start, iplen)) <= Payload
    BY <1>3, <1>4, DropTb
  <2> QED
    BY <1>1, <1>7, <2>1, FinishStep
<1>8. CASE /\ ~(iplen # 0 /\ iplen <= Len(start))
           /\ m' = [AddMbuf(M, start, Len(start)) EXCEPT
                      !.left = IF iplen = 0 THEN 0 ELSE iplen - Len(start)]
           /\ OuterDone
  <2> DEFINE left == IF iplen = 0 THEN 0 ELSE iplen - Len(start)
             data == M.data \o SubSeq(start, 1, Len(start))
  <2>1. Len(start) \in 0 .. Len(start)
    BY <1>3
  <2>2. /\ AddMbuf(M, start, Len(start)) = [data |-> data, left |-> M.left, niov |-> M.niov + 1]
        /\ data \in Seq(Cell) /\ Len(data) = Len(M.data) + Len(start)
    BY <1>3, <1>5, <2>1, AddMbufFacts
  <2>3. left \in Nat /\ left < MaxBuf
    BY <1>3, <1>4, <1>8
  <2> HIDE DEF left, data
  <2>4. m' = [data |-> data, left |-> left, niov |-> 1]
    BY <1>5, <1>8, <2>2 DEF left
  <2>5. Len(data) # 0
    BY <1>3, <1>5, <2>2
  <2>6. (1 - 1) * Payload + left < MaxBuf
    BY <2>3, Sizes
  <2>7. InSlots(m')
    BY <2>2, <2>3, <2>4, <2>5, <2>6 DEF InSlots, Miovs
  <2> QED
    BY <1>1, <1>8, <2>7, OuterDoneStep
<1> QED
  BY <1>1, <1>6, <1>7, <1>8

LEMMA AddMoreStep ==
    ASSUME Receiving, AddMore
    PROVE  Receiving'
<1>1. /\ rpc = "add" /\ M.data # << >> /\ toff > Len(tb)
      /\ IF M.left = 0
         THEN Abort
         ELSE IF M.left > Len(tb)
              THEN /\ m' = [AddMbuf(M, tb, Len(tb)) EXCEPT !.left = @ - Len(tb)]
                   /\ OuterDone
              ELSE Finish([AddMbuf(M, tb, M.left) EXCEPT !.left = 0], << >>)
      /\ UNCHANGED <<ack, accepted>>
  BY DEF AddMore
<1>2. /\ tb \in Seq(Cell) /\ Len(tb) \in Nat /\ toff \in Nat
      /\ toff # 0 => Len(tb) = Payload
  BY EmptyLen DEF Receiving
<1>3. Len(tb) = Payload /\ Payload \in Nat
  BY <1>1, <1>2
<1>4. /\ InSlots(M) /\ M \in Miovs /\ M.niov # 0 /\ M.niov \in Nat /\ M.left \in Nat
      /\ Len(M.data) \in Nat /\ Len(M.data) # 0
      /\ (M.niov - 1) * Payload + M.left < MaxBuf
  BY <1>1, InProgress DEF InSlots
<1>5. CASE Abort
  BY <1>1, <1>5, AbortStep
<1>6. CASE Finish([AddMbuf(M, tb, M.left) EXCEPT !.left = 0], << >>)
  <2>1. << >> \in Seq(Cell) /\ Len(<< >>) <= Payload
    BY <1>3, EmptySeq
  <2> QED
    BY <1>1, <1>6, <2>1, FinishStep
<1>7. CASE /\ M.left > Len(tb)
           /\ m' = [AddMbuf(M, tb, Len(tb)) EXCEPT !.left = @ - Len(tb)]
           /\ OuterDone
  <2> DEFINE data == M.data \o SubSeq(tb, 1, Len(tb))
             n == M.niov
             left == M.left
  <2>1. Len(tb) \in 0 .. Len(tb)
    BY <1>2
  <2>2. /\ AddMbuf(M, tb, Len(tb)) = [data |-> data, left |-> left, niov |-> n + 1]
        /\ data \in Seq(Cell) /\ Len(data) = Len(M.data) + Len(tb)
    BY <1>2, <1>4, <2>1, AddMbufFacts
  <2>3. m' = [data |-> data, left |-> left - Payload, niov |-> n + 1]
    <3>1. m' = [[data |-> data, left |-> left, niov |-> n + 1] EXCEPT !.left = @ - Payload]
      BY <1>3, <1>7, <2>2
    <3> HIDE DEF data, left, n
    <3> QED
      BY <3>1
  <2>4. /\ n \in Nat /\ n # 0 /\ left \in Nat /\ left > Payload
        /\ (n - 1) * Payload + left < MaxBuf /\ MaxBuf \in Nat
    BY <1>3, <1>4, <1>7, Sizes
  <2>5. Len(data) # 0
    <3> HIDE DEF data
    <3> QED
      BY <1>2, <1>4, <2>2
  <2> HIDE DEF data, n, left
  <2>6. n * Payload = (n - 1) * Payload + Payload
    BY <1>3, <2>4
  <2>7. PICK x \in Int : x = (n - 1) * Payload
    BY <1>3, <2>4
  <2>8. (n + 1) - 1 = n /\ n * Payload + (left - Payload) < MaxBuf
    BY <1>3, <2>4, <2>6, <2>7
  <2>9. m' \in Miovs /\ m'.niov # 0 /\ Len(m'.data) # 0
    BY <1>3, <2>2, <2>3, <2>4, <2>5 DEF Miovs
  <2>10. (m'.niov - 1) * Payload + m'.left < MaxBuf
    BY <2>3, <2>8
  <2>11. InSlots(m')
    BY <2>9, <2>10 DEF InSlots
  <2> QED
    BY <1>1, <1>7, <2>11, OuterDoneStep
<1> QED
  BY <1>1, <1>5, <1>6, <1>7

LEMMA AddTailStep ==
    ASSUME Receiving, AddTail
    PROVE  Receiving'
<1>1. /\ rpc = "add" /\ M.data # << >>
      /\ IF M.left = 0 \/ M.left # toff
         THEN Abort
         ELSE Finish([AddMbuf(M, tb, M.left) EXCEPT !.left = 0], Drop(tb, M.left))
      /\ UNCHANGED <<ack, accepted>>
  BY DEF AddTail
<1>2. tb \in Seq(Cell) /\ Len(tb) <= Payload /\ M.left \in Nat
  BY InProgress DEF Receiving
<1>3. Drop(tb, M.left) \in Seq(Cell) /\ Len(Drop(tb, M.left)) <= Payload
  BY <1>2, DropTb
<1> QED
  BY <1>1, <1>3, AbortStep, FinishStep

LEMMA AddSkipStep ==
    ASSUME Receiving, AddSkip
    PROVE  Receiving'
<1>1. m' = M /\ OuterDone /\ UNCHANGED <<ack, accepted>>
  BY DEF AddSkip, history
<1> QED
  BY <1>1, InProgress, OuterDoneStep

\* The loss report after a packet with number s is taken.
LEMMA TakeAck ==
    ASSUME Receiving, InFlight, RTake
    PROVE  \E s \in Nat :
             /\ s = Head(net).seq /\ s < SeqMod /\ s > ack.last /\ Missed(s) \in Nat
             /\ ack' = [start |-> IF ack.start = 0 THEN s ELSE ack.start, last |-> s,
                        ndrop |-> ack.ndrop + Missed(s)]
             /\ accepted' = accepted \cup {s}
<1> DEFINE s == Head(net).seq
<1>1. /\ net # << >> /\ s > ack.last
      /\ ack' = [Started(s) EXCEPT !.ndrop = @ + Missed(s), !.last = s]
      /\ accepted' = accepted \cup {s}
  BY DEF RTake
<1>2. s \in Nat /\ s < SeqMod
  BY <1>1, HeadOuter
<1> HIDE DEF s
<1>3. ack.start \in Nat /\ ack.last \in Nat /\ ack.ndrop \in Nat
  BY DEF Receiving, Acks
<1>4. Started(s) = [start |-> IF ack.start = 0 THEN s ELSE ack.start, last |-> ack.last,
                    ndrop |-> ack.ndrop]
  BY DEF Started, Receiving, Acks
<1>5. Missed(s) \in Nat
  BY <1>1, <1>2, <1>3 DEF Missed
<1>6. ack' = [start |-> IF ack.start = 0 THEN s ELSE ack.start, last |-> s,
              ndrop |-> ack.ndrop + Missed(s)]
  <2> DEFINE st == IF ack.start = 0 THEN s ELSE ack.start
             d == ack.ndrop
  <2>1. ack' = [[start |-> st, last |-> ack.last, ndrop |-> d]
                  EXCEPT !.ndrop = @ + Missed(s), !.last = s]
    BY <1>1, <1>4
  <2> HIDE DEF st, d
  <2>2. ack' = [start |-> st, last |-> s, ndrop |-> d + Missed(s)]
    BY <2>1
  <2> QED
    BY <2>2 DEF st, d
<1>7. s = Head(net).seq
  BY DEF s
<1> QED
  BY <1>1, <1>2, <1>5, <1>6, <1>7, Zenon

LEMMA OldAck ==
    ASSUME Receiving, InFlight, ROld
    PROVE  \E s \in Nat :
             /\ s <= ack.last
             /\ ack' = [start |-> IF ack.start = 0 THEN s ELSE ack.start, last |-> ack.last,
                        ndrop |-> ack.ndrop]
<1> DEFINE s == Head(net).seq
<1>1. net # << >> /\ s <= ack.last /\ ack' = Started(s)
  BY DEF ROld
<1>2. s \in Nat
  BY <1>1, HeadOuter
<1> HIDE DEF s
<1>3. Started(s) = [start |-> IF ack.start = 0 THEN s ELSE ack.start, last |-> ack.last,
                    ndrop |-> ack.ndrop]
  BY DEF Started, Receiving, Acks
<1> WITNESS s \in Nat
<1> QED
  BY <1>1, <1>3

LEMMA LimitedAck ==
    ASSUME Receiving, RLimited
    PROVE  ack' = [start |-> ack.start, last |-> ack.last, ndrop |-> ack.ndrop + 1]
<1>1. ack' = [ack EXCEPT !.ndrop = @ + 1]
  BY DEF RLimited
<1>2. ack = [start |-> ack.start, last |-> ack.last, ndrop |-> ack.ndrop]
  BY DEF Receiving, Acks
<1> QED
  BY <1>1, <1>2

LEMMA ReceivingStep ==
    ASSUME Receiving, InFlight, ReassemblyNext
    PROVE  Receiving' /\ InFlight'
<1>0. ack.start \in Nat /\ ack.last \in Nat /\ ack.ndrop \in Nat
  BY DEF Receiving, Acks
<1>1. CASE RTop
  <2>1. ack' = ack \/ ack' = NoAck
    BY <1>1 DEF RTop
  <2>2. ack' \in Acks
    BY <2>1 DEF Receiving, NoAck, Acks
  <2>3. rpc = "top" /\ rpc' = "recv" /\ UNCHANGED <<tb, toff, m, accepted, net, faults>>
    BY <1>1 DEF RTop, netvars
  <2> QED
    BY <2>2, <2>3 DEF Receiving, InFlight
<1>2. CASE RLimited
  <2>1. /\ rpc = "recv" /\ rpc' = "top" /\ net # << >> /\ net' = Tail(net)
        /\ UNCHANGED <<tb, toff, m, accepted, faults>>
    BY <1>2 DEF RLimited
  <2>2. ack' \in Acks
    BY <1>0, <1>2, LimitedAck DEF Acks
  <2>3. net' \in Seq(Outer)
    BY <2>1, HeadOuter
  <2> QED
    BY <2>1, <2>2, <2>3 DEF Receiving, InFlight
<1>3. CASE ROld
  <2>1. /\ rpc = "recv" /\ rpc' = "top" /\ net # << >> /\ net' = Tail(net)
        /\ UNCHANGED <<tb, toff, m, accepted, faults>>
    BY <1>3 DEF ROld, history
  <2>2. PICK s \in Nat : ack' = [start |-> IF ack.start = 0 THEN s ELSE ack.start,
                                 last |-> ack.last, ndrop |-> ack.ndrop]
    BY <1>3, OldAck
  <2>3. ack' \in Acks
    BY <1>0, <2>2 DEF Acks
  <2>4. net' \in Seq(Outer)
    BY <2>1, HeadOuter
  <2> QED
    BY <2>1, <2>3, <2>4 DEF Receiving, InFlight
<1>4. CASE RTake
  <2>1. /\ rpc' = "add" /\ net # << >> /\ net' = Tail(net)
        /\ tb' = Head(net).body /\ toff' = Head(net).offset /\ faults' = faults
        /\ m' = OnGap(Head(net).seq)
    BY <1>4 DEF RTake
  <2>2. PICK s \in Nat :
          /\ s < SeqMod /\ Missed(s) \in Nat
          /\ ack' = [start |-> IF ack.start = 0 THEN s ELSE ack.start, last |-> s,
                     ndrop |-> ack.ndrop + Missed(s)]
          /\ accepted' = accepted \cup {s}
    BY <1>4, TakeAck
  <2>3. ack' \in Acks
    BY <1>0, <2>2 DEF Acks
  <2>4. accepted' \subseteq 0 .. SeqMod - 1
    <3>1. s \in 0 .. SeqMod - 1
      BY <2>2, Sizes
    <3> QED
      BY <2>2, <3>1 DEF Receiving
  <2>5. /\ net' \in Seq(Outer) /\ tb' \in Seq(Cell) /\ Len(tb') = Payload /\ toff' \in Nat
        /\ Payload \in Nat
    BY <2>1, HeadOuter, Sizes
  <2>6. m' = NULL \/ InSlots(m')
    BY <2>1, InProgress DEF OnGap, Receiving
  <2> QED
    BY <2>1, <2>3, <2>4, <2>5, <2>6 DEF Receiving, InFlight
<1>5. CASE AddSkip \/ AddStart \/ AddMore \/ AddTail
  <2>1. net' = net /\ faults' = faults
    BY <1>5 DEF AddSkip, AddStart, AddMore, AddTail, netvars
  <2>2. Receiving'
    BY <1>5, AddSkipStep, AddStartStep, AddMoreStep, AddTailStep
  <2> QED
    BY <2>1, <2>2 DEF InFlight
<1>6. CASE WriteIntf
  BY <1>6 DEF WriteIntf, Receiving, InFlight, history, netvars
<1> QED
  BY <1>1, <1>2, <1>3, <1>4, <1>5, <1>6 DEF ReassemblyNext, TfsReader

-----------------------------------------------------------------------------
\* Losses.

\* The numbers passed over when s is taken after b.
LEMMA MissingStep ==
    ASSUME NEW A, NEW a \in Nat, NEW b \in Nat, NEW s \in Nat, A \subseteq a .. b, b \in A, b < s
    PROVE  /\ Cardinality((a .. s) \ (A \cup {s})) = Cardinality((a .. b) \ A) + (s - (b + 1))
           /\ Cardinality((a .. b) \ A) \in Nat
<1> DEFINE P == (a .. b) \ A
           Q == (b + 1) .. (s - 1)
           R == (a .. s) \ (A \cup {s})
<1>1. a <= b
  OBVIOUS
<1>2. IsFiniteSet(P) /\ Cardinality(P) \in Nat
  <2>1. IsFiniteSet(a .. b)
    BY FS_Interval
  <2>2. IsFiniteSet(P)
    BY <2>1, FS_Difference
  <2> QED
    BY <2>2, FS_CardinalityType
<1>3. IsFiniteSet(Q) /\ Cardinality(Q) = s - (b + 1)
  <2>1. b + 1 \in Int /\ s - 1 \in Int
    OBVIOUS
  <2>2. /\ IsFiniteSet(Q)
        /\ Cardinality(Q) = IF b + 1 > s - 1 THEN 0 ELSE (s - 1) - (b + 1) + 1
    BY <2>1, FS_Interval
  <2> QED
    BY <2>2
<1>4. R = P \cup Q
  BY <1>1
<1>5. P \cap Q = {}
  OBVIOUS
<1> HIDE DEF P, Q, R
<1>6. Cardinality(R) = Cardinality(P) + Cardinality(Q) - Cardinality(P \cap Q)
  BY <1>2, <1>3, <1>4, FS_Union
<1>7. Cardinality(P \cap Q) = 0
  BY <1>5, FS_EmptySet
<1>8. Cardinality(R) = Cardinality(P) + (s - (b + 1))
  BY <1>2, <1>3, <1>6, <1>7
<1> QED
  BY <1>2, <1>8 DEF P, R

\* Steps that leave the report alone.
LEMMA LossesSame ==
    ASSUME Losses, UNCHANGED <<ack, accepted, nlimited, newest, blind>>
    PROVE  Losses'
BY DEF Losses, Missing

\* Outer packet s is taken.
LEMMA LossesTake ==
    ASSUME Losses, Receiving, InFlight, RTake
    PROVE  Losses'
<1>1. nlimited' = nlimited /\ nlimited \in Nat /\ newest \in Nat
  BY DEF RTake, Losses
<1>2. PICK s \in Nat :
        /\ s < SeqMod /\ s > ack.last /\ s = Head(net).seq
        /\ ack' = [start |-> IF ack.start = 0 THEN s ELSE ack.start, last |-> s,
                   ndrop |-> ack.ndrop + Missed(s)]
        /\ accepted' = accepted \cup {s}
  BY TakeAck
<1>3. ack.start \in Nat /\ ack.last \in Nat /\ ack.ndrop \in Nat /\ SeqMod \in Nat
  BY Sizes DEF Receiving, Acks
<1>4. /\ ack'.last = s /\ ack'.ndrop = ack.ndrop + Missed(s) /\ newest' = s /\ s # 0
      /\ blind' = (blind \/ (Unnoticed(s) /\ (s <= newest \/ M.data # << >>)))
  <2>1. /\ newest' = Head(net).seq
        /\ blind' = (blind \/ (Unnoticed(Head(net).seq)
                               /\ (Head(net).seq <= newest \/ M.data # << >>)))
    BY DEF RTake
  <2>2. ack'.last = s /\ ack'.ndrop = ack.ndrop + Missed(s) /\ s # 0
    BY <1>2, <1>3
  <2> QED
    BY <1>2, <2>1, <2>2
<1> SUFFICES ASSUME nlimited = 0, ~blind'
             PROVE  /\ accepted' \subseteq 0 .. s
                    /\ ack'.start # 0 /\ s \in accepted' /\ ack'.start <= s
                    /\ ack'.ndrop = Cardinality((ack'.start .. s) \ accepted')
  BY <1>1, <1>4 DEF Losses, Missing
<1>b. ~blind /\ (Unnoticed(s) => s > newest)
  <2>1. ~blind /\ ~(Unnoticed(s) /\ s <= newest)
    BY <1>4, Zenon
  <2> QED
    BY <1>1, <1>2, <2>1
<1>5. CASE ack.start = 0
  <2>1. ack.last = 0 /\ ack.ndrop = 0 /\ accepted \subseteq 0 .. newest
    BY <1>5, <1>b DEF Losses
  <2>2. Missed(s) = 0 /\ newest <= s
    BY <1>1, <1>b, <1>4, <2>1 DEF Missed, Gap, Unnoticed
  <2>3. ack'.start = s /\ ack'.ndrop = 0
    BY <1>2, <1>4, <1>5, <2>1, <2>2
  <2>4. accepted' \subseteq 0 .. s /\ s \in accepted' /\ (s .. s) \ accepted' = {}
    <3>1. 0 .. newest \subseteq 0 .. s /\ s \in 0 .. s /\ s .. s = {s}
      BY <1>1, <1>2, <2>2
    <3> QED
      BY <1>2, <2>1, <3>1
  <2>5. (ack'.start .. s) \ accepted' = {} /\ ack'.start <= s
    BY <2>3, <2>4
  <2>6. Cardinality((ack'.start .. s) \ accepted') = 0
    BY <2>5, FS_EmptySet
  <2> QED
    BY <1>4, <2>3, <2>4, <2>5, <2>6
<1>6. CASE ack.start # 0
  <2> DEFINE a == ack.start
             b == newest
             A == accepted \cap (a .. b)
  <2>1. /\ accepted \subseteq 0 .. b /\ b \in accepted /\ ack.last = b /\ a <= b
        /\ ack.ndrop = Cardinality((a .. b) \ accepted)
    BY <1>6, <1>b DEF Losses, Missing
  <2>2. a \in Nat /\ b \in Nat /\ b < s /\ b # 0 /\ a # 0
    BY <1>1, <1>2, <1>3, <1>6, <2>1
  <2>3. Missed(s) = s - (b + 1)
    <3>1. (b + 1) % SeqMod = b + 1
      BY <1>2, <1>3, <2>2
    <3> QED
      BY <1>2, <2>1, <2>2, <3>1 DEF Missed, Gap
  <2>4. ack'.start = a
    BY <1>2, <1>6
  <2>5. A \subseteq a .. b /\ b \in A
    BY <2>1, <2>2
  <2>6. /\ (a .. b) \ A = (a .. b) \ accepted
        /\ (a .. s) \ (A \cup {s}) = (a .. s) \ accepted'
    BY <1>2, <2>1, <2>2
  <2> HIDE DEF a, b, A
  <2>7. /\ Cardinality((a .. s) \ (A \cup {s})) = Cardinality((a .. b) \ A) + (s - (b + 1))
        /\ Cardinality((a .. b) \ A) \in Nat
    <3>1. a \in Nat /\ b \in Nat /\ s \in Nat /\ b < s
      BY <2>2, <1>2
    <3> QED
      BY <3>1, <2>5, MissingStep
  <2>8. ack'.ndrop = Cardinality((a .. s) \ accepted')
    BY <1>4, <2>1, <2>3, <2>6, <2>7
  <2>9. accepted' \subseteq 0 .. s /\ s \in accepted' /\ a <= s
    <3>1. 0 .. b \subseteq 0 .. s /\ s \in 0 .. s /\ a <= s
      BY <1>2, <2>1, <2>2
    <3> QED
      BY <1>2, <2>1, <3>1
  <2> QED
    BY <2>2, <2>4, <2>8, <2>9
<1> QED
  BY <1>5, <1>6

LEMMA LossesStep ==
    ASSUME Losses, Receiving, InFlight, ReassemblyNext
    PROVE  Losses'
<1>0. /\ ack.start \in Nat /\ ack.last \in Nat /\ ack.ndrop \in Nat /\ nlimited \in Nat
  BY DEF Receiving, Acks, Losses
<1>1. CASE RTop
  <2>1. UNCHANGED <<accepted, nlimited, newest, blind>> /\ ack' \in {ack, NoAck}
    BY <1>1 DEF RTop
  <2>2. CASE ack' = ack
    BY <2>1, <2>2, LossesSame
  <2>3. CASE ack' = NoAck
    <3>1. ack'.start = 0 /\ ack'.last = 0 /\ ack'.ndrop = 0
      BY <2>3 DEF NoAck
    <3> QED
      BY <2>1, <3>1 DEF Losses
  <2> QED
    BY <2>1, <2>2, <2>3
<1>2. CASE AddSkip \/ AddStart \/ AddMore \/ AddTail \/ WriteIntf
  <2>1. UNCHANGED <<ack, accepted, nlimited, newest, blind>>
    BY <1>2 DEF AddSkip, AddStart, AddMore, AddTail, WriteIntf, history
  <2> QED
    BY <2>1, LossesSame
<1>3. CASE RLimited
  <2>1. nlimited' = nlimited + 1 /\ newest' = newest
    BY <1>3 DEF RLimited
  <2>2. nlimited' \in Nat /\ nlimited' # 0
    BY <1>0, <2>1
  <2> QED
    BY <2>1, <2>2 DEF Losses
<1>4. CASE ROld
  <2>1. PICK s \in Nat :
          /\ s <= ack.last
          /\ ack' = [start |-> IF ack.start = 0 THEN s ELSE ack.start, last |-> ack.last,
                     ndrop |-> ack.ndrop]
    BY <1>4, OldAck
  <2>2. UNCHANGED <<accepted, nlimited, newest, blind>>
    BY <1>4 DEF ROld, history
  <2>3. CASE nlimited = 0 /\ ~blind
    <3>1. ack.start = 0 => s = 0
      BY <1>0, <2>1, <2>3 DEF Losses
    <3>2. ack' = [start |-> ack.start, last |-> ack.last, ndrop |-> ack.ndrop]
      BY <2>1, <3>1
    <3>3. ack' = ack
      BY <3>2 DEF Receiving, Acks
    <3> QED
      BY <2>2, <3>3, LossesSame
  <2>4. CASE ~(nlimited = 0 /\ ~blind)
    BY <2>2, <2>4 DEF Losses
  <2> QED
    BY <2>3, <2>4
<1>5. CASE RTake
  BY <1>5, LossesTake
<1> QED
  BY <1>1, <1>2, <1>3, <1>4, <1>5 DEF ReassemblyNext, TfsReader

-----------------------------------------------------------------------------
\* The invariant.

LEMMA TunnelInit == Init => IInv
<1> SUFFICES ASSUME Init PROVE IInv
  OBVIOUS
<1>1. NetInit /\ IngressInit /\ ReassemblyInit
  BY DEF Init
<1>2. /\ << >> \in Seq(Outer) /\ << >> \in Seq(Byte) /\ << >> \in Seq(Cell)
      /\ << >> \in Seq(Seq(Byte)) /\ Len(<< >>) = 0 /\ 1 .. 0 = {}
  BY EmptySeq
<1>3. InFlight
  BY <1>1, <1>2 DEF NetInit, InFlight
<1>4. Queued
  BY <1>1, <1>2 DEF IngressInit, Queued
<1>5. Packing
  <2>1. Piece(<< >>)
    BY <1>2 DEF Piece
  <2>2. 1 \in 0 .. SeqMod - 1
    BY Sizes
  <2> QED
    BY <1>1, <1>2, <2>1, <2>2 DEF IngressInit, Packing
<1>6. Counting
  <2>1. nfree = Pool /\ outq = << >> /\ rd = "pop" /\ wm = << >> /\ leftover = << >>
        /\ nfreem = 0 /\ lost = 0 /\ todo = Pkts /\ empties = 0 /\ sentall = {}
    BY <1>1 DEF IngressInit
  <2>2. Pool \in Nat /\ MaxZero \in Nat /\ MaxEmpty \in Nat
    BY IngressAssumption
  <2>3. Len(outq) = 0 /\ One(wm) = 0 /\ One(leftover) = 0
    BY <1>2, <2>1 DEF One
  <2>4. BuffersConserved
    BY <2>1, <2>2, <2>3 DEF BuffersConserved
  <2> QED
    BY <2>1, <2>2, <2>4 DEF Counting
<1>7. Receiving
  <2>1. 0 <= Payload
    BY Sizes
  <2> QED
    BY <1>1, <1>2, <2>1 DEF ReassemblyInit, Receiving, NoAck, Acks
<1>8. Losses
  BY <1>1 DEF ReassemblyInit, NoAck, Losses
<1> QED
  BY <1>3, <1>4, <1>5, <1>6, <1>7, <1>8 DEF IInv

LEMMA TunnelStep == IInv /\ [Next]_vars => IInv'
<1> SUFFICES ASSUME IInv, [Next]_vars PROVE IInv'
  OBVIOUS
<1>0. Sending /\ InFlight /\ Receiving /\ Losses
  BY DEF IInv, Sending
<1>1. ASSUME UNCHANGED outvars
      PROVE  Receiving' /\ Losses'
  <2>1. UNCHANGED <<rpc, ack, tb, toff, m, accepted, nlimited, newest, blind>>
    BY <1>1 DEF outvars
  <2>2. Receiving'
    BY <1>0, <2>1 DEF Receiving
  <2> QED
    BY <1>0, <2>1, <2>2, LossesSame
<1>2. ASSUME UNCHANGED invars
      PROVE  Queued' /\ Packing' /\ Counting'
  <2>1. UNCHANGED <<todo, rd, nfree, outq, lost, wpc, wm, leftover, offset, body,
                    nfreem, seq, empties, sentall>>
    BY <1>2 DEF invars
  <2>2. Queued'
    BY <2>1 DEF IInv, Queued
  <2>3. Packing'
    BY <2>1, PackingSame DEF IInv
  <2>4. Counting'
    BY <2>1 DEF IInv, Counting, BuffersConserved, One
  <2> QED
    BY <2>2, <2>3, <2>4
<1>3. CASE IngressNext /\ UNCHANGED outvars
  BY <1>0, <1>1, <1>3, SendingStep DEF IInv, Sending
<1>4. CASE ReassemblyNext /\ UNCHANGED invars
  BY <1>0, <1>2, <1>4, ReceivingStep, LossesStep DEF IInv
<1>5. CASE NetNext /\ UNCHANGED <<invars, outvars>>
  BY <1>0, <1>1, <1>2, <1>5, NetStep DEF IInv
<1>6. CASE UNCHANGED vars
  <2>1. UNCHANGED <<net, faults>> /\ UNCHANGED invars /\ UNCHANGED outvars
    BY <1>6 DEF vars, netvars
  <2>2. InFlight'
    BY <1>0, <2>1 DEF InFlight
  <2> QED
    BY <1>1, <1>2, <2>1, <2>2 DEF IInv
<1> QED
  BY <1>3, <1>4, <1>5, <1>6 DEF Next

LEMMA TunnelInvariance == Spec => []IInv
BY TunnelInit, TunnelStep, PTL DEF Spec

-----------------------------------------------------------------------------
\* What follows from it.

\* No buffer of the sending side is lost or returned twice, whatever mix of whole,
\* partial, padded and failed sends write_tfs_pkt goes through.
THEOREM BuffersReturnOnce == Spec => []BuffersConserved
<1>1. IInv => BuffersConserved
  BY DEF IInv, Counting
<1> QED
  BY <1>1, TunnelInvariance, PTL

\* The state of both ends keeps its types; write_tfs_pkt never goes on to send with
\* a packet in hand.
THEOREM TypeCorrect == Spec => []TypeOK
<1>1. IInv => TypeOK
  <2> SUFFICES ASSUME IInv PROVE TypeOK
    OBVIOUS
  <2>1. Sending /\ Receiving
    BY DEF IInv, Sending
  <2>2. nfree \in 0 .. Pool
    <3>1. /\ nfree \in Nat /\ Len(outq) \in Nat /\ One(wm) \in Nat /\ One(leftover) \in Nat
          /\ nfreem \in Nat /\ lost \in Nat
          /\ nfree + Len(outq) + (IF rd = "read" THEN 1 ELSE 0)
               + One(wm) + One(leftover) + nfreem + lost = Pool
      <4>1. /\ nfree \in Nat /\ nfreem \in Nat /\ lost \in 0 .. MaxZero
            /\ nfree + Len(outq) + (IF rd = "read" THEN 1 ELSE 0)
                 + One(wm) + One(leftover) + nfreem + lost = Pool
        BY <2>1 DEF Sending, Counting, BuffersConserved
      <4>2. Len(outq) \in Nat /\ One(wm) \in Nat /\ One(leftover) \in Nat
        BY <2>1, SendingFacts DEF One
      <4>3. lost \in Nat
        BY <4>1, IngressAssumption
      <4> QED
        BY <4>1, <4>2, <4>3, Zenon
    <3>2. Pool \in Nat
      BY IngressAssumption
    <3>3. PICK r \in Nat : r = IF rd = "read" THEN 1 ELSE 0
      OBVIOUS
    <3>4. PICK a \in Nat, b \in Nat, w \in Nat, l \in Nat, f \in Nat, t \in Nat :
            /\ a = nfree /\ b = Len(outq) /\ w = One(wm) /\ l = One(leftover)
            /\ f = nfreem /\ t = lost
      BY <3>1
    <3>5. a + b + r + w + l + f + t = Pool
      BY <3>1, <3>3, <3>4
    <3>6. a <= Pool
      BY <3>2, <3>5
    <3> QED
      BY <3>2, <3>4, <3>6
  <2>3. wm # << >> => wpc = "fill"
    BY <2>1, SendingFacts DEF Sending, Packing
  <2>4. IngressTypeOK
    BY <2>1, <2>2, <2>3 DEF Sending, Counting, Packing, IngressTypeOK
  <2>5. m # NULL => m.left \in Nat /\ m.niov \in Nat
    BY <2>1 DEF Receiving, InSlots, Miovs
  <2>6. ReassemblyTypeOK
    BY <2>1, <2>5 DEF Receiving, Acks, ReassemblyTypeOK
  <2> QED
    BY <2>4, <2>6 DEF TypeOK
<1> QED
  BY <1>1, TunnelInvariance, PTL

\* Every outer packet that write_tfs_pkt sends has the configured size and a block
\* offset that points at the start of a packet, at padding or past the end, for
\* inner packets of any length and any sequence of cuts, leftovers and failures.
THEOREM OuterPacketsFormed == Spec => []WellFormedOuter
<1>1. IInv => WellFormedOuter
  <2> SUFFICES ASSUME IInv, NEW k \in DOMAIN net
               PROVE  LET o == net[k] IN
                      /\ Len(o.body) = Payload
                      /\ o.offset < Payload =>
                           o.body[o.offset + 1] = PAD \/ o.body[o.offset + 1][2] = 1
                      /\ \A i \in 1 .. Payload :
                           /\ i <= o.offset => o.body[i] # PAD
                           /\ i > 1 /\ o.body[i] # PAD /\ (i <= o.offset \/ o.body[i][2] # 1) =>
                                o.body[i - 1] = <<o.body[i][1], o.body[i][2] - 1>>
    BY DEF WellFormedOuter
  <2>1. net[k] \in Outer
    BY LenProperties, ElementOfSeq DEF IInv, InFlight
  <2>2. Len(net[k].body) = Payload /\ Formed(net[k].body, net[k].offset)
    BY <2>1 DEF Outer
  <2> QED
    BY <2>2 DEF Formed
<1> QED
  BY <1>1, TunnelInvariance, PTL

\* Whatever was lost, duplicated, reordered or reported before, the drop count of a
\* report is exact, unless the receiver was blind or limit() dropped packets.
THEOREM DropCountExact == Spec => []DropsExact
<1>1. IInv => DropsExact
  BY DEF IInv, Losses, DropsExact
<1> QED
  BY <1>1, TunnelInvariance, PTL

\* An inner packet of the largest size has at most this many whole payloads between
\* its first and its last piece.
Middle == (MaxBuf - 1) \div Payload

\* If the quotient that tfs_tunnel_egress computes with the size of the whole outer
\* packet covers them, miov_addmbuf never runs out of slots, blind or not.
THEOREM SlotsSuffice == Middle <= MaxBuf \div (Payload + HdrLen) => (Spec => []IovFits)
<1> SUFFICES ASSUME Middle <= MaxBuf \div (Payload + HdrLen) PROVE Spec => []IovFits
  OBVIOUS
<1>1. IInv => IovFits
  <2> SUFFICES ASSUME IInv, m # NULL PROVE m.niov < MaxIov
    BY DEF IovFits
  <2>1. InSlots(m)
    BY DEF IInv, Receiving
  <2>2. /\ m.niov \in Nat /\ m.left \in Nat
        /\ m.niov # 0 => (m.niov - 1) * Payload + m.left < MaxBuf
    BY <2>1 DEF InSlots, Miovs
  <2>3. /\ Payload \in Nat /\ 0 < Payload /\ MaxBuf \in Nat /\ HdrLen \in Nat
        /\ MinRoom \in Nat /\ MinRoom < Payload
    BY Sizes
  <2> DEFINE q == MaxBuf \div (Payload + HdrLen)
  <2>4. q \in Nat /\ MaxIov = q + 2 /\ Middle <= q
    BY <2>3 DEF MaxIov
  <2> HIDE DEF q
  <2>5. CASE m.niov = 0
    BY <2>4, <2>5
  <2>6. CASE m.niov # 0
    <3> DEFINE k == m.niov - 1
    <3>1. k \in Nat /\ k * Payload <= MaxBuf - 1 /\ MaxBuf - 1 \in Nat
      <4>1. PICK x \in Nat : x = k * Payload
        BY <2>2, <2>3, <2>6
      <4>2. x + m.left < MaxBuf
        BY <2>2, <2>6, <4>1
      <4> QED
        BY <2>2, <2>3, <2>6, <4>1, <4>2
    <3> HIDE DEF k
    <3>2. k <= Middle
      <4>1. /\ Middle \in Nat /\ (MaxBuf - 1) % Payload \in 0 .. Payload - 1
            /\ MaxBuf - 1 = Middle * Payload + ((MaxBuf - 1) % Payload)
        BY <2>3, <3>1, DivMod DEF Middle
      <4>2. MaxBuf - 1 < Middle * Payload + Payload
        BY <2>3, <4>1
      <4>3. Middle * Payload + Payload = (Middle + 1) * Payload
        BY <2>3, <4>1
      <4>4. k * Payload < (Middle + 1) * Payload
        BY <2>3, <3>1, <4>1, <4>2, <4>3
      <4>5. k < Middle + 1
        BY <2>3, <3>1, <4>1, <4>4
      <4> QED
        BY <3>1, <4>1, <4>5
    <3>3. Middle \in Nat
      BY <2>3, <3>1, DivMod DEF Middle
    <3>4. m.niov = k + 1
      BY <2>2 DEF k
    <3> QED
      BY <2>4, <3>1, <3>2, <3>3, <3>4
  <2> QED
    BY <2>5, <2>6
<1> QED
  BY <1>1, TunnelInvariance, PTL
=============================================================================
