-------------------------- MODULE TunnelSound_proofs ------------------------
(* Theorems about Tunnel: the receiver puts together what the sender cut,    *)
(* finishes packets in the sender's order and each once, reports what it     *)
(* missed, and loses only what was missed.  They hold as long as sequence    *)
(* numbers have not wrapped.                                                 *)
EXTENDS Tunnel_proofs

\* No sequence number was used twice: seq is 0 when it wraps.
NoWrap == seq # 0

-----------------------------------------------------------------------------
\* Payloads.

\* The byte that has to follow payload b, PAD if b ends with padding or with the
\* end of a packet.
Cont(b) ==
    LET c == b[Len(b)]
    IN  IF c = PAD \/ c[2] = PktLen[c[1]] THEN PAD ELSE <<c[1], c[2] + 1>>

\* The byte that a payload with block offset off goes on with.
Opens(b, off) == IF off = 0 THEN PAD ELSE b[1]

\* A packet that goes on does so in the next byte.
Solid(b) ==
    \A i \in 1 .. Len(b) - 1 :
        b[i] # PAD /\ b[i][2] # PktLen[b[i][1]] => b[i + 1] = <<b[i][1], b[i][2] + 1>>

\* A packet starts only where more than MinRoom of n bytes are left.
Roomy(b, n) == \A i \in 1 .. Len(b) : b[i] # PAD /\ b[i][2] = 1 => n - i >= MinRoom

\* The offset is the distance to the end of the packet that goes on.
Reaching(b, off) == off # 0 => off = PktLen[b[1][1]] - b[1][2] + 1

Sound(b, off, n) == Formed(b, off) /\ Solid(b) /\ Roomy(b, n) /\ (Len(b) # 0 => Reaching(b, off))

\* A piece that includes the end of its packet.
Ends(s) == Len(s) # 0 => s[Len(s)][2] = PktLen[s[Len(s)][1]]

-----------------------------------------------------------------------------
\* The sender.

\* What the outer packet with number seq goes on with.
Pending ==
    IF wpc = "idle" THEN (IF Len(leftover) = 0 THEN PAD ELSE leftover[1])
    ELSE IF Len(body) = 0 THEN Opens(wm, offset) ELSE Opens(body, offset)

Cutting ==
    /\ \A k \in 1 .. Len(outq) : Ends(outq[k])
    /\ Ends(wm) /\ Ends(leftover)
    /\ wpc # "idle" => Sound(body, offset, Payload)
    /\ wpc = "fill" /\ Len(body) # 0 => Cont(body) = PAD
    /\ wpc = "send" => Cont(body) = IF Len(leftover) = 0 THEN PAD ELSE leftover[1]

-----------------------------------------------------------------------------
\* The path.

Elems(q) == {q[k] : k \in DOMAIN q}
Flying == Elems(net)

\* After outer packet s byte c is next, where the outer packets F are in flight and
\* number q, yet to be sent, goes on with byte d.
Follows(F, q, d, s, c) ==
    /\ \A o \in F : o.seq = s + 1 => Opens(o.body, o.offset) = c
    /\ s + 1 = q => d = c
Expecting(s, c) == Follows(Flying, seq, Pending, s, c)

Flow ==
    \A o \in Flying :
        /\ o.seq # 0 /\ o.seq < seq
        /\ Sound(o.body, o.offset, Payload)
        /\ Expecting(o.seq, Cont(o.body))

-----------------------------------------------------------------------------
\* The receiver.

\* The first k bytes of a packet.
FirstBytes(p, k) == [i \in 1 .. k |-> <<p, i>>]

\* An inner packet in progress: the first bytes of a packet, and the rest missing.
InHand(mi) ==
    \E p \in Pkts : \E k \in 1 .. PktLen[p] - 1 :
        mi.data = FirstBytes(p, k) /\ mi.left = PktLen[p] - k

\* The byte it needs next.
Wanted(mi) == <<mi.data[1][1], Len(mi.data) + 1>>

Joining ==
    /\ rpc # "abort"
    /\ newest \in Nat /\ newest < seq /\ ack.last \in {0, newest}
    /\ newest = 0 => m = NULL
    /\ rpc = "add" =>
         /\ newest # 0 /\ Len(tb) # 0
         /\ Sound(tb, toff, Len(tb)) /\ Expecting(newest, Cont(tb))
         /\ M.data # << >> => InHand(M) /\ toff # 0 /\ tb[1] = Wanted(M)
    /\ rpc # "add" /\ M.data # << >> => InHand(M) /\ Expecting(newest, Wanted(M))

JInv == Cutting /\ Flow /\ (~blind => Joining) /\ (~UseAcks => ~blind /\ ack.last = newest)
-----------------------------------------------------------------------------
\* Payloads.

\* What a payload holds.
LEMMA CellFacts ==
    ASSUME NEW b \in Seq(Cell), NEW i \in 1 .. Len(b)
    PROVE  /\ b[i] = PAD \/ b[i] \in Byte
           /\ b[i] # PAD => /\ b[i][1] \in Pkts /\ b[i][2] \in 1 .. PktLen[b[i][1]]
                            /\ b[i] = <<b[i][1], b[i][2]>> /\ PktLen[b[i][1]] \in Nat
<1>1. b[i] \in Cell
  OBVIOUS
<1> QED
  BY <1>1, ByteFacts, Sizes DEF Cell

\* A byte of a packet is not padding.
LEMMA PairFacts ==
    ASSUME NEW p \in Pkts, NEW i \in Nat
    PROVE  <<p, i>> # PAD /\ <<p, i>>[1] = p /\ <<p, i>>[2] = i
BY SizeAssumption

\* A packet that goes on does so to its end.
LEMMA Run ==
    ASSUME NEW b \in Seq(Cell), Solid(b), NEW p \in Pkts, NEW j0 \in 1 .. Len(b),
           NEW i0 \in 1 .. PktLen[p], b[j0] = <<p, i0>>
    PROVE  \A j \in 0 .. Len(b) - j0 : i0 + j <= PktLen[p] => b[j0 + j] = <<p, i0 + j>>
<1> DEFINE n == Len(b) - j0
           S == {j \in 0 .. n : i0 + j <= PktLen[p] => b[j0 + j] = <<p, i0 + j>>}
<1>1. Len(b) \in Nat /\ n \in Nat /\ PktLen[p] \in Nat /\ j0 \in Nat /\ i0 \in Nat
  BY Sizes
<1>2. 0 \in S
  BY <1>1
<1>3. ASSUME NEW k \in 0 .. n - 1, k \in S
      PROVE  k + 1 \in S
  <2> SUFFICES ASSUME i0 + (k + 1) <= PktLen[p]
               PROVE  b[j0 + (k + 1)] = <<p, i0 + (k + 1)>>
    BY <1>1
  <2>1. i0 + k \in Nat /\ i0 + k < PktLen[p] /\ j0 + k \in 1 .. Len(b) - 1
    BY <1>1, <1>3
  <2>2. b[j0 + k] = <<p, i0 + k>>
    BY <1>3, <2>1, <1>1
  <2>3. b[j0 + k] # PAD /\ b[j0 + k][1] = p /\ b[j0 + k][2] = i0 + k
    BY <2>1, <2>2, PairFacts
  <2>4. b[j0 + k + 1] = <<p, i0 + k + 1>>
    BY <2>1, <2>3, <1>1 DEF Solid
  <2>5. j0 + k + 1 = j0 + (k + 1) /\ i0 + k + 1 = i0 + (k + 1)
    <3>1. k \in Nat /\ j0 \in Nat /\ i0 \in Nat
      BY <1>1
    <3>2. \A x, y \in Nat : x + y + 1 = x + (y + 1)
      OBVIOUS
    <3> QED
      BY <3>1, <3>2
  <2> QED
    BY <2>4, <2>5
<1> HIDE DEF S
<1>4. 0 .. n \subseteq S
  BY <1>1, <1>2, <1>3, SetInduction
<1> QED
  BY <1>4 DEF S

\* The bytes of a piece.
LEMMA PieceRun ==
    ASSUME NEW s, Piece(s), Len(s) # 0
    PROVE  /\ s \in Seq(Byte) /\ Len(s) \in Nat
           /\ s[1][1] \in Pkts /\ s[1][2] \in 1 .. PktLen[s[1][1]] /\ PktLen[s[1][1]] \in Nat
           /\ \A i \in 1 .. Len(s) : /\ s[i] = <<s[1][1], s[1][2] + i - 1>>
                                     /\ s[i] \in Byte
                                     /\ s[1][2] + i - 1 <= PktLen[s[1][1]]
<1> DEFINE p == s[1][1]
           a == s[1][2]
           n == Len(s) - 1
           S == {i \in 0 .. n : s[i + 1] = <<p, a + i>>}
<1>1. /\ s \in Seq(Byte) /\ Len(s) \in Nat /\ n \in Nat /\ s[1] \in Byte
      /\ \A i \in 1 .. Len(s) : s[i] \in Byte
  BY DEF Piece
<1>2. p \in Pkts /\ a \in 1 .. PktLen[p] /\ PktLen[p] \in Nat /\ s[1] = <<p, a>> /\ a \in Nat
  BY <1>1, ByteFacts, Sizes
<1> HIDE DEF p, a
<1>3. 0 \in S
  BY <1>1, <1>2
<1>4. ASSUME NEW k \in 0 .. n - 1, k \in S
      PROVE  k + 1 \in S
  <2>1. /\ k + 2 \in 1 .. Len(s) /\ k + 2 > 1 /\ k + 2 - 1 = k + 1 /\ k + 1 + 1 = k + 2
        /\ k + 1 \in 0 .. n
    BY <1>1, <1>4
  <2>2. s[k + 1] = <<s[k + 2][1], s[k + 2][2] - 1>>
    BY <2>1 DEF Piece
  <2>3. s[k + 1] = <<p, a + k>>
    BY <1>4
  <2>4. s[k + 2] \in Byte
    BY <2>1, <1>1
  <2>5. s[k + 2] = <<s[k + 2][1], s[k + 2][2]>> /\ s[k + 2][2] \in Nat
    BY <2>4, ByteFacts, Sizes
  <2>6. s[k + 2][1] = p /\ s[k + 2][2] - 1 = a + k
    BY <2>2, <2>3
  <2>7. s[k + 2][2] = a + (k + 1)
    BY <2>5, <2>6, <1>2, <1>4
  <2> QED
    BY <2>1, <2>5, <2>6, <2>7
<1> HIDE DEF S
<1>5. 0 .. n \subseteq S
  BY <1>1, <1>3, <1>4, SetInduction
<1>6. ASSUME NEW i \in 1 .. Len(s)
      PROVE  s[i] = <<p, a + i - 1>> /\ s[i] \in Byte /\ a + i - 1 <= PktLen[p]
  <2>1. i - 1 \in 0 .. n /\ i - 1 + 1 = i /\ a + (i - 1) = a + i - 1
    BY <1>1, <1>2
  <2>2. s[i] = <<p, a + i - 1>>
    BY <2>1, <1>5 DEF S
  <2>3. s[i] \in Byte
    BY <1>1
  <2>4. s[i][2] <= PktLen[s[i][1]]
    BY <2>3, ByteFacts, Sizes
  <2> QED
    BY <2>2, <2>3, <2>4
<1> QED
  BY <1>1, <1>2, <1>6 DEF p, a

\* What a payload ends with, and goes on with.
LEMMA ContFacts ==
    ASSUME NEW b \in Seq(Cell), Len(b) # 0
    PROVE  /\ Cont(b) = PAD <=>
                b[Len(b)] = PAD \/ b[Len(b)][2] = PktLen[b[Len(b)][1]]
           /\ \A p \in Pkts : \A i \in 1 .. PktLen[p] : b[Len(b)] = <<p, i>> =>
                Cont(b) = IF i = PktLen[p] THEN PAD ELSE <<p, i + 1>>
<1> DEFINE c == b[Len(b)]
<1>1. Len(b) \in 1 .. Len(b)
  BY EmptyLen
<1>2. /\ c = PAD \/ c \in Byte
      /\ c # PAD => c[1] \in Pkts /\ c[2] \in 1 .. PktLen[c[1]] /\ PktLen[c[1]] \in Nat
  BY <1>1, CellFacts
<1>3. Cont(b) = IF c = PAD \/ c[2] = PktLen[c[1]] THEN PAD ELSE <<c[1], c[2] + 1>>
  BY DEF Cont
<1> HIDE DEF c
<1>4. c # PAD => <<c[1], c[2] + 1>> # PAD
  BY <1>2, PairFacts
<1>5. ASSUME NEW p \in Pkts, NEW i \in 1 .. PktLen[p], c = <<p, i>>
      PROVE  Cont(b) = IF i = PktLen[p] THEN PAD ELSE <<p, i + 1>>
  <2>1. c # PAD /\ c[1] = p /\ c[2] = i
    BY <1>5, PairFacts
  <2> QED
    BY <1>3, <2>1
<1> QED
  BY <1>3, <1>4, <1>5 DEF c

\* A packet, or the rest of one at the very start, goes into a payload.
LEMMA SoundAppend ==
    ASSUME NEW b, NEW off \in Nat, NEW n \in Nat, Sound(b, off, n),
           Len(b) # 0 => Cont(b) = PAD,
           NEW s, Piece(s), Len(s) # 0, n - Len(b) > MinRoom,
           \/ off <= Len(b) /\ Fresh(s)
           \/ Len(b) = 0 /\ off >= Len(s) /\ off = PktLen[s[1][1]] - s[1][2] + 1
    PROVE  /\ Sound(b \o s, off, n) /\ Len(b \o s) = Len(b) + Len(s)
           /\ Opens(b \o s, off) = IF Len(b) = 0 THEN Opens(s, off) ELSE Opens(b, off)
           /\ (b \o s)[Len(b) + Len(s)] = s[Len(s)]
<1> DEFINE t == b \o s
           l == Len(b)
           k == Len(s)
           p == s[1][1]
           a == s[1][2]
<1>1. Formed(t, off) /\ Len(t) = l + k
  BY FormedAppend DEF Sound
<1>2. b \in Seq(Cell) /\ s \in Seq(Byte) /\ s \in Seq(Cell)
  <2>1. Byte \subseteq Cell
    BY DEF Cell
  <2> QED
    BY <2>1, SeqMonotonic DEF Formed, Sound, Piece
<1>3. l \in Nat /\ k \in Nat /\ k # 0 /\ MinRoom \in Nat
  BY <1>2, EmptyLen, Sizes
<1>4. \A i \in 1 .. l + k : t[i] = IF i <= l THEN b[i] ELSE s[i - l]
  BY <1>2, ConcatProperties
<1>5. /\ p \in Pkts /\ a \in 1 .. PktLen[p] /\ PktLen[p] \in Nat
      /\ \A i \in 1 .. k : s[i] = <<p, a + i - 1>> /\ a + i - 1 <= PktLen[p]
  BY PieceRun
<1>6. Len(b) # 0 => b[l] = PAD \/ b[l][2] = PktLen[b[l][1]]
  BY <1>2, ContFacts
<1>7. /\ \A i \in 1 .. l - 1 :
           b[i] # PAD /\ b[i][2] # PktLen[b[i][1]] => b[i + 1] = <<b[i][1], b[i][2] + 1>>
      /\ \A i \in 1 .. l : b[i] # PAD /\ b[i][2] = 1 => n - i >= MinRoom
      /\ l # 0 => (off # 0 => off = PktLen[b[1][1]] - b[1][2] + 1)
  BY DEF Sound, Solid, Roomy, Reaching
<1>8. l = 0 => off = 0 \/ off = PktLen[p] - a + 1
  BY <1>3
<1>9. n - l > MinRoom
  OBVIOUS
<1> HIDE DEF t, l, k, p, a
<1>10. Solid(t)
  <2> SUFFICES ASSUME NEW i \in 1 .. l + k - 1, t[i] # PAD, t[i][2] # PktLen[t[i][1]]
               PROVE  t[i + 1] = <<t[i][1], t[i][2] + 1>>
    BY <1>1, <1>3 DEF Solid
  <2>1. i \in 1 .. l + k /\ i + 1 \in 1 .. l + k
    BY <1>3
  <2>2. CASE i < l
    <3>1. i \in 1 .. l - 1 /\ i <= l /\ i + 1 <= l
      BY <1>3, <2>2
    <3> QED
      BY <1>4, <1>7, <2>1, <3>1
  <2>3. CASE i = l
    <3>1. l # 0 /\ i <= l
      BY <2>3
    <3>2. t[i] = b[l]
      BY <1>4, <2>1, <2>3, <3>1
    <3> QED
      BY <1>6, <3>1, <3>2 DEF l
  <2>4. CASE i > l
    <3>1. i - l \in 1 .. k /\ i + 1 - l \in 1 .. k /\ ~(i <= l) /\ ~(i + 1 <= l)
      BY <1>3, <2>4
    <3>2. t[i] = s[i - l] /\ t[i + 1] = s[i + 1 - l]
      BY <1>3, <1>4, <2>1, <3>1
    <3>3. t[i] = <<p, a + (i - l) - 1>> /\ t[i + 1] = <<p, a + (i + 1 - l) - 1>>
      BY <1>5, <3>1, <3>2
    <3>4. a + (i + 1 - l) - 1 = a + (i - l) - 1 + 1
      BY <1>3, <1>5
    <3> QED
      BY <3>3, <3>4
  <2> QED
    BY <1>3, <2>2, <2>3, <2>4
<1>11. Roomy(t, n)
  <2> SUFFICES ASSUME NEW i \in 1 .. l + k, t[i] # PAD, t[i][2] = 1
               PROVE  n - i >= MinRoom
    BY <1>1 DEF Roomy
  <2>1. CASE i <= l
    BY <1>3, <1>4, <1>7, <2>1
  <2>2. CASE ~(i <= l)
    <3>1. i - l \in 1 .. k
      BY <1>3, <2>2
    <3>2. t[i] = s[i - l]
      BY <1>4, <2>2
    <3>3. t[i][2] = a + (i - l) - 1
      BY <1>5, <3>1, <3>2
    <3>4. i = l + 1
      BY <1>3, <1>5, <3>1, <3>3
    <3> QED
      BY <1>3, <1>9, <3>4
  <2> QED
    BY <2>1, <2>2
<1>12. 1 \in 1 .. l + k /\ t[1] = IF l = 0 THEN s[1] ELSE b[1]
  <2>1. 1 \in 1 .. l + k /\ (l # 0 => 1 <= l) /\ (l = 0 => ~(1 <= l) /\ 1 - l = 1)
    BY <1>3
  <2> QED
    BY <1>4, <2>1
<1>13. Reaching(t, off)
  BY <1>7, <1>8, <1>12 DEF Reaching, p, a
<1>14. Opens(t, off) = IF l = 0 THEN Opens(s, off) ELSE Opens(b, off)
  BY <1>12 DEF Opens
<1>15. t[l + k] = s[k]
  <2>1. l + k \in 1 .. l + k /\ ~(l + k <= l) /\ l + k - l = k
    BY <1>3
  <2>2. t[l + k] = s[l + k - l]
    BY <1>3, <1>4, <2>1
  <2> QED
    BY <2>1, <2>2
<1> QED
  BY <1>1, <1>10, <1>11, <1>13, <1>14, <1>15 DEF Sound, t, l, k

\* Padding goes behind whatever is there.
LEMMA SoundPad ==
    ASSUME NEW b, NEW off \in Nat, NEW n \in Nat, Sound(b, off, n), off <= Len(b),
           Len(b) # 0 => Cont(b) = PAD, NEW k \in Nat \ {0}
    PROVE  /\ Sound(b \o Padding(k), off, n) /\ Len(b \o Padding(k)) = Len(b) + k
           /\ Cont(b \o Padding(k)) = PAD
           /\ Opens(b \o Padding(k), off) = IF Len(b) = 0 THEN PAD ELSE Opens(b, off)
<1> DEFINE s == Padding(k)
           t == b \o s
           l == Len(b)
<1>1. Formed(t, off) /\ Len(t) = l + k
  BY FormedPad DEF Sound
<1>2. b \in Seq(Cell)
  BY DEF Formed, Sound
<1>3. l \in Nat /\ k \in Nat /\ k # 0
  BY <1>2, EmptyLen
<1>4. s \in Seq(Cell) /\ Len(s) = k /\ \A i \in 1 .. k : s[i] = PAD
  BY PaddingFacts
<1> HIDE DEF s
<1>5. \A i \in 1 .. l + k : t[i] = IF i <= l THEN b[i] ELSE s[i - l]
  BY <1>2, <1>4, ConcatProperties
<1>6. Len(b) # 0 => b[l] = PAD \/ b[l][2] = PktLen[b[l][1]]
  BY <1>2, ContFacts
<1>7. /\ \A i \in 1 .. l - 1 :
           b[i] # PAD /\ b[i][2] # PktLen[b[i][1]] => b[i + 1] = <<b[i][1], b[i][2] + 1>>
      /\ \A i \in 1 .. l : b[i] # PAD /\ b[i][2] = 1 => n - i >= MinRoom
      /\ l # 0 => (off # 0 => off = PktLen[b[1][1]] - b[1][2] + 1)
  BY DEF Sound, Solid, Roomy, Reaching
<1>8. l = 0 => off = 0
  BY <1>3
<1> HIDE DEF t, l
<1>9. \A i \in 1 .. l + k : i > l => t[i] = PAD
  <2> TAKE i \in 1 .. l + k
  <2> HAVE i > l
  <2>1. ~(i <= l) /\ i - l \in 1 .. k
    BY <1>3
  <2> QED
    BY <1>4, <1>5, <2>1
<1>10. Solid(t)
  <2> SUFFICES ASSUME NEW i \in 1 .. l + k - 1, t[i] # PAD, t[i][2] # PktLen[t[i][1]]
               PROVE  t[i + 1] = <<t[i][1], t[i][2] + 1>>
    BY <1>1, <1>3, SMTT(30) DEF Solid
  <2>1. i \in 1 .. l + k /\ i + 1 \in 1 .. l + k
    BY <1>3
  <2>2. i <= l
    BY <1>3, <1>9, <2>1
  <2>3. t[i] = b[i]
    BY <1>5, <2>1, <2>2
  <2>4. i # l
    BY <1>6, <2>1, <2>3 DEF l
  <2>5. i \in 1 .. l - 1 /\ i + 1 <= l
    BY <1>3, <2>2, <2>4
  <2> QED
    BY <1>5, <1>7, <2>1, <2>3, <2>5
<1>11. Roomy(t, n)
  <2> SUFFICES ASSUME NEW i \in 1 .. l + k, t[i] # PAD, t[i][2] = 1
               PROVE  n - i >= MinRoom
    BY <1>1 DEF Roomy
  <2>1. i <= l
    BY <1>3, <1>9
  <2> QED
    BY <1>3, <1>5, <1>7, <2>1
<1>12. 1 \in 1 .. l + k /\ (l # 0 => t[1] = b[1])
  <2>1. 1 \in 1 .. l + k /\ (l # 0 => 1 <= l)
    BY <1>3
  <2> QED
    BY <1>5, <2>1
<1>13. Reaching(t, off)
  BY <1>7, <1>8, <1>12 DEF Reaching
<1>14. Opens(t, off) = IF l = 0 THEN PAD ELSE Opens(b, off)
  BY <1>8, <1>12 DEF Opens
<1>15. Cont(t) = PAD
  <2>1. l + k \in 1 .. l + k /\ l + k > l
    BY <1>3
  <2>2. t[Len(t)] = PAD
    BY <1>1, <1>9, <2>1
  <2> QED
    BY <2>2 DEF Cont
<1> QED
  BY <1>1, <1>10, <1>11, <1>13, <1>14, <1>15 DEF Sound, t, l, s

\* Behind the last byte of a packet is padding, or the first byte of a packet.
LEMMA AfterEnd ==
    ASSUME NEW b, NEW off \in Nat, Formed(b, off), NEW j \in 1 .. Len(b) - 1,
           b[j] = PAD \/ b[j][2] = PktLen[b[j][1]]
    PROVE  b[j + 1] = PAD \/ b[j + 1][2] = 1
<1> SUFFICES ASSUME b[j + 1] # PAD, b[j + 1][2] # 1 PROVE FALSE
  OBVIOUS
<1>1. b \in Seq(Cell) /\ Len(b) \in Nat
  BY EmptyLen DEF Formed
<1>2. j + 1 \in 1 .. Len(b) /\ j + 1 > 1 /\ j + 1 - 1 = j
  BY <1>1
<1>3. b[j] = <<b[j + 1][1], b[j + 1][2] - 1>>
  BY <1>2 DEF Formed
<1>4. /\ b[j + 1][1] \in Pkts /\ b[j + 1][2] \in 1 .. PktLen[b[j + 1][1]]
      /\ PktLen[b[j + 1][1]] \in Nat
  BY <1>1, <1>2, CellFacts
<1>5. b[j + 1][2] - 1 \in Nat /\ b[j + 1][2] - 1 # PktLen[b[j + 1][1]]
  BY <1>4
<1>6. b[j] # PAD /\ b[j][1] = b[j + 1][1] /\ b[j][2] = b[j + 1][2] - 1
  BY <1>3, <1>4, <1>5, PairFacts
<1> QED
  BY <1>5, <1>6

\* The rest of a payload from a packet, or padding, on.
LEMMA SoundDrop ==
    ASSUME NEW b, NEW off \in Nat, Sound(b, off, Len(b)), NEW j \in 0 .. Len(b) - 1,
           b[j + 1] = PAD \/ b[j + 1][2] = 1
    PROVE  /\ Sound(Drop(b, j), 0, Len(Drop(b, j))) /\ Len(Drop(b, j)) = Len(b) - j
           /\ Drop(b, j) \in Seq(Cell)
           /\ \A i \in 1 .. Len(b) - j : Drop(b, j)[i] = b[j + i]
           /\ Cont(Drop(b, j)) = Cont(b)
<1> DEFINE t == Drop(b, j)
           l == Len(b)
<1>1. b \in Seq(Cell) /\ l \in Nat /\ j \in Nat /\ j < l
  BY EmptyLen DEF Sound, Formed
<1>2. t \in Seq(Cell) /\ Len(t) = l - j /\ \A i \in 1 .. l - j : t[i] = b[j + i]
  <2>1. b \in Seq(Cell) /\ j \in Nat /\ j <= Len(b)
    BY <1>1
  <2>2. /\ t \in Seq(Cell)
        /\ j <= Len(b) => Len(t) = Len(b) - j
        /\ \A i \in 1 .. Len(b) - j : t[i] = b[j + i]
    BY <2>1, DropFacts
  <2> QED
    BY <2>1, <2>2
<1>3. /\ \A i \in 1 .. l : i > 1 /\ b[i] # PAD /\ (i <= off \/ b[i][2] # 1) =>
           b[i - 1] = <<b[i][1], b[i][2] - 1>>
      /\ \A i \in 1 .. l - 1 :
           b[i] # PAD /\ b[i][2] # PktLen[b[i][1]] => b[i + 1] = <<b[i][1], b[i][2] + 1>>
      /\ \A i \in 1 .. l : b[i] # PAD /\ b[i][2] = 1 => l - i >= MinRoom
  BY DEF Sound, Formed, Solid, Roomy
<1> HIDE DEF t, l
<1>4. Formed(t, 0)
  <2>1. 0 < Len(t) => t[0 + 1] = PAD \/ t[0 + 1][2] = 1
    BY <1>1, <1>2
  <2>2. ASSUME NEW i \in 1 .. l - j
        PROVE  /\ i <= 0 => t[i] # PAD
               /\ i > 1 /\ t[i] # PAD /\ (i <= 0 \/ t[i][2] # 1) =>
                    t[i - 1] = <<t[i][1], t[i][2] - 1>>
    <3>1. ~(i <= 0)
      OBVIOUS
    <3>2. ASSUME i > 1, t[i] # PAD, t[i][2] # 1
          PROVE  t[i - 1] = <<t[i][1], t[i][2] - 1>>
      <4>1. j + i \in 1 .. l /\ j + i > 1 /\ i - 1 \in 1 .. l - j /\ j + (i - 1) = j + i - 1
        BY <1>1, <3>2
      <4>2. t[i] = b[j + i] /\ t[i - 1] = b[j + i - 1]
        BY <1>2, <4>1
      <4> QED
        BY <1>3, <3>2, <4>1, <4>2, SMTT(30)
    <3> QED
      BY <3>1, <3>2
  <2> QED
    BY <1>2, <2>1, <2>2 DEF Formed
<1>5a. \A i \in 1 .. l - j - 1 :
         /\ j + i \in 1 .. l - 1 /\ i \in 1 .. l - j /\ i + 1 \in 1 .. l - j
         /\ j + (i + 1) = j + i + 1
  <2> TAKE i \in 1 .. l - j - 1
  <2>1. i \in Nat /\ 1 <= i /\ i + 1 <= l - j /\ l \in Nat /\ j \in Nat
    BY <1>1
  <2>2. j + i \in 1 .. l - 1
    BY <2>1
  <2>3. i \in 1 .. l - j /\ i + 1 \in 1 .. l - j /\ j + (i + 1) = j + i + 1
    BY <2>1
  <2> QED
    BY <2>2, <2>3
<1>5. Solid(t)
  <2> SUFFICES ASSUME NEW i \in 1 .. l - j - 1, t[i] # PAD, t[i][2] # PktLen[t[i][1]]
               PROVE  t[i + 1] = <<t[i][1], t[i][2] + 1>>
    BY <1>1, <1>2 DEF Solid
  <2>1. /\ j + i \in 1 .. l - 1 /\ i \in 1 .. l - j /\ i + 1 \in 1 .. l - j
        /\ j + (i + 1) = j + i + 1
    BY <1>5a
  <2>2. t[i] = b[j + i] /\ t[i + 1] = b[j + i + 1]
    BY <1>2, <2>1
  <2> QED
    BY <1>3, <2>1, <2>2
<1>6. Roomy(t, Len(t))
  <2> SUFFICES ASSUME NEW i \in 1 .. l - j, t[i] # PAD, t[i][2] = 1
               PROVE  l - j - i >= MinRoom
    BY <1>2 DEF Roomy
  <2>1. j + i \in 1 .. l /\ l - j - i = l - (j + i)
    BY <1>1
  <2>2. t[i] = b[j + i]
    BY <1>2
  <2> QED
    BY <1>3, <2>1, <2>2
<1>7. Cont(t) = Cont(b)
  <2>1. l - j \in 1 .. l - j /\ j + (l - j) = l
    BY <1>1
  <2>2. t[Len(t)] = b[Len(b)]
    BY <1>2, <2>1 DEF l
  <2> QED
    BY <2>2 DEF Cont
<1> QED
  BY <1>2, <1>4, <1>5, <1>6, <1>7 DEF Sound, Reaching, t, l

-----------------------------------------------------------------------------
\* The sender.

\* A step that sends nothing.
Building == Cutting' /\ Pending' = Pending /\ seq' = seq /\ net' = net

\* A step that sends outer packet o, and one that uses up its number.
Shipping(o) ==
    /\ Cutting' /\ net' = Append(net, o) /\ seq' = seq + 1
    /\ o \in Outer /\ o.seq = seq /\ Sound(o.body, o.offset, Payload)
    /\ Opens(o.body, o.offset) = Pending /\ Cont(o.body) = Pending'
Skipping == Cutting' /\ net' = net /\ seq' = seq + 1

SenderDoes == Building \/ Skipping \/ \E o \in Outer : Shipping(o)

LEMMA NextNumber ==
    ASSUME NEW s \in 0 .. SeqMod - 1, (s + 1) % SeqMod # 0
    PROVE  (s + 1) % SeqMod = s + 1
<1>1. SeqMod \in Nat \ {0, 1}
  BY Sizes
<1>2. CASE s + 1 = SeqMod
  BY <1>1, <1>2
<1>3. CASE s + 1 < SeqMod
  BY <1>1, <1>3
<1> QED
  BY <1>1, <1>2, <1>3

\* A piece without bytes, and a whole packet.
LEMMA EndsFacts ==
    /\ Ends(<< >>)
    /\ \A p \in Pkts : Ends(Bytes(p))
<1>1. Len(<< >>) = 0
  BY EmptySeq
<1>2. ASSUME NEW p \in Pkts
      PROVE  Ends(Bytes(p))
  <2>1. PktLen[p] \in 1 .. PktLen[p] /\ Len(Bytes(p)) = PktLen[p]
    BY BytesFacts, Sizes
  <2>2. Bytes(p)[PktLen[p]] = <<p, PktLen[p]>>
    BY <2>1 DEF Bytes
  <2> QED
    BY <2>1, <2>2 DEF Ends
<1> QED
  BY <1>1, <1>2 DEF Ends

\* The interface reader adds whole packets to the queue.
LEMMA IntfBuilds ==
    ASSUME Sending, Cutting, IntfReader
    PROVE  Building
<1>1. UNCHANGED <<wpc, wm, leftover, offset, body, seq, net>>
  BY DEF IntfReader, IntfPop, IntfRead, IntfReadError, IntfReadZero, wvars, netvars
<1>2. Pending' = Pending
  BY <1>1 DEF Pending, Opens
<1>3. \A k \in 1 .. Len(outq') : Ends(outq'[k])
  <2>1. CASE outq' = outq
    BY <2>1 DEF Cutting
  <2>2. CASE \E p \in Pkts : outq' = Append(outq, Bytes(p))
    <3>1. PICK p \in Pkts : outq' = Append(outq, Bytes(p))
      BY <2>2
    <3>2. outq \in Seq(Seq(Byte)) /\ Len(outq) \in Nat /\ Bytes(p) \in Seq(Byte)
      BY SendingFacts, BytesFacts DEF Piece
    <3>3. /\ Len(outq') = Len(outq) + 1 /\ outq'[Len(outq) + 1] = Bytes(p)
          /\ \A i \in 1 .. Len(outq) : outq'[i] = outq[i]
      BY <3>1, <3>2, AppendFacts
    <3>4. \A k \in 1 .. Len(outq) + 1 : k \in 1 .. Len(outq) \/ k = Len(outq) + 1
      BY <3>2
    <3>5. /\ Ends(Bytes(p))
          /\ \A k \in 1 .. Len(outq) : Ends(outq[k])
      BY EndsFacts DEF Cutting
    <3> QED
      BY <3>3, <3>4, <3>5
  <2> QED
    <3>1. todo \subseteq Pkts
      BY DEF Sending, Counting
    <3> QED
      BY <2>1, <2>2, <3>1 DEF IntfReader, IntfPop, IntfRead, IntfReadError, IntfReadZero
<1>4. Cutting'
  BY <1>1, <1>3 DEF Cutting
<1> QED
  BY <1>1, <1>2, <1>4 DEF Building

\* What is left of the queue, and its top.
LEMMA QueueEnds ==
    ASSUME Sending, Cutting, outq # << >>
    PROVE  Ends(Top(outq)) /\ \A k \in 1 .. Len(Below(outq)) : Ends(Below(outq)[k])
<1> DEFINE n == Len(outq)
<1>1. outq \in Seq(Seq(Byte)) /\ n \in Nat /\ n # 0
  BY SendingFacts
<1>2. n - 1 \in 0 .. Len(outq) /\ n \in 1 .. n /\ \A k \in 1 .. n - 1 : k \in 1 .. n
  BY <1>1
<1>3. Len(Below(outq)) = n - 1 /\ \A k \in 1 .. n - 1 : Below(outq)[k] = outq[k]
  BY <1>1, <1>2, TakeFacts DEF Below
<1>4. \A k \in 1 .. n : Ends(outq[k])
  BY DEF Cutting
<1> QED
  BY <1>2, <1>3, <1>4 DEF Top

LEMMA SoundEmpty ==
    ASSUME NEW off \in Nat
    PROVE  Sound(<< >>, off, Payload) /\ Len(<< >>) = 0
<1>1. Len(<< >>) = 0 /\ 1 .. 0 = {} /\ 1 .. 0 - 1 = {}
  BY EmptySeq
<1> QED
  BY <1>1, FormedEmpty DEF Sound, Solid, Roomy

\* An outer packet is begun.
LEMMA StartBuilds ==
    ASSUME Sending, Cutting, WStartLeftover \/ WStartNew
    PROVE  Building
<1>1. wpc = "idle" /\ wpc' = "fill" /\ body' = << >> /\ UNCHANGED <<seq, net>>
  BY DEF WStartLeftover, WStartNew, netvars
<1>2. /\ Len(leftover) \in Nat
      /\ leftover = << >> <=> Len(leftover) = 0
      /\ Pending = IF Len(leftover) = 0 THEN PAD ELSE leftover[1]
  BY <1>1, SendingFacts DEF Pending
<1>3. Len(body') = 0 /\ \A off \in Nat : Sound(body', off, Payload)
  BY <1>1, SoundEmpty
<1>4. CASE WStartLeftover
  <2>1. /\ leftover # << >> /\ wm' = leftover /\ leftover' = << >>
        /\ offset' = Len(leftover) /\ outq' = outq
    BY <1>4 DEF WStartLeftover
  <2>2. Pending' = Pending
    <3>1. Pending' = Opens(wm', offset')
      BY <1>1, <1>3 DEF Pending, Opens
    <3> QED
      BY <1>2, <2>1, <3>1 DEF Opens
  <2>3. Ends(wm') /\ Ends(leftover') /\ \A k \in 1 .. Len(outq') : Ends(outq'[k])
    BY <2>1, EndsFacts DEF Cutting
  <2>4. Cutting'
    BY <1>1, <1>2, <1>3, <2>1, <2>3 DEF Cutting
  <2> QED
    BY <1>1, <2>2, <2>4 DEF Building
<1>5. CASE WStartNew
  <2>1. /\ leftover = << >> /\ outq # << >> /\ wm' = Top(outq) /\ outq' = Below(outq)
        /\ offset' = 0 /\ leftover' = leftover
    BY <1>5 DEF WStartNew, TakeFromQueue
  <2>2. Pending' = Pending
    <3>1. Pending' = Opens(wm', offset')
      BY <1>1, <1>3 DEF Pending, Opens
    <3> QED
      BY <1>2, <2>1, <3>1 DEF Opens
  <2>3. Ends(wm') /\ \A k \in 1 .. Len(outq') : Ends(outq'[k])
    BY <2>1, QueueEnds
  <2>4. Cutting'
    BY <1>1, <1>3, <2>1, <2>3 DEF Cutting
  <2> QED
    BY <1>1, <2>2, <2>4 DEF Building
<1> QED
  BY <1>4, <1>5

\* What SoundAppend needs of the packet being added.
LEMMA ReadyToAdd ==
    ASSUME Sending, Cutting, wpc = "fill", Len(wm) # 0,
           NEW s, Piece(s), Len(s) # 0, Len(s) <= Len(wm), s[1] = wm[1]
    PROVE  /\ Sound(body, offset, Payload) /\ offset \in Nat /\ Payload \in Nat
           /\ Len(body) # 0 => Cont(body) = PAD
           /\ Payload - Len(body) > MinRoom
           /\ \/ offset <= Len(body) /\ Fresh(s)
              \/ Len(body) = 0 /\ offset >= Len(s) /\ offset = PktLen[s[1][1]] - s[1][2] + 1
           /\ Pending = IF Len(body) = 0 THEN Opens(s, offset) ELSE Opens(body, offset)
<1>1. /\ Room = Payload - Len(body) /\ Piece(wm) /\ wm \in Seq(Byte) /\ Payload \in Nat
      /\ Len(wm) \in Nat /\ Len(body) \in Nat /\ offset \in Nat
      /\ Len(wm) # 0 => Room > MinRoom
      /\ Len(body) = 0 => ((offset = 0 /\ Fresh(wm)) \/ offset = Len(wm))
      /\ Len(body) # 0 => offset <= Len(body) /\ (Len(wm) # 0 => Fresh(wm))
  BY Filling
<1>2. Sound(body, offset, Payload) /\ (Len(body) # 0 => Cont(body) = PAD) /\ Ends(wm)
  BY DEF Cutting
<1>3. Len(s) \in Nat /\ (Fresh(wm) <=> Fresh(s))
  BY EmptyLen DEF Fresh, Piece
<1>4. Len(wm) = PktLen[s[1][1]] - s[1][2] + 1
  <2> DEFINE p == wm[1][1]
             a == wm[1][2]
  <2>1. /\ p \in Pkts /\ a \in 1 .. PktLen[p] /\ PktLen[p] \in Nat
        /\ \A i \in 1 .. Len(wm) : wm[i] = <<p, a + i - 1>>
    BY <1>1, PieceRun
  <2>2. Len(wm) \in 1 .. Len(wm)
    BY <1>1
  <2>3. wm[Len(wm)][2] = PktLen[wm[Len(wm)][1]]
    BY <1>2 DEF Ends
  <2>4. wm[Len(wm)] = <<p, a + Len(wm) - 1>>
    BY <2>1, <2>2
  <2> HIDE DEF p, a
  <2>5. a + Len(wm) - 1 = PktLen[p]
    BY <2>3, <2>4
  <2>6. Len(wm) = PktLen[p] - a + 1
    BY <1>1, <2>1, <2>5, SMTT(30)
  <2> QED
    BY <2>6 DEF p, a
<1>5. \/ offset <= Len(body) /\ Fresh(s)
      \/ Len(body) = 0 /\ offset >= Len(s) /\ offset = PktLen[s[1][1]] - s[1][2] + 1
  BY <1>1, <1>3, <1>4
<1>6. Pending = IF Len(body) = 0 THEN Opens(s, offset) ELSE Opens(body, offset)
  BY DEF Pending, Opens
<1> QED
  BY <1>1, <1>2, <1>5, <1>6

\* The outer packet is filled up with padding.
LEMMA PadBuilds ==
    ASSUME Sending, Cutting, WPad
    PROVE  Building
<1>1. /\ wpc = "fill" /\ wpc' = "send" /\ body' = body \o Padding(Room)
      /\ Room <= MinRoom \/ wm = << >>
      /\ UNCHANGED <<outq, wm, leftover, offset, seq, net>>
  BY DEF WPad, netvars
<1>2. /\ Len(leftover) = 0 /\ Room \in Nat \ {0} /\ Payload \in Nat /\ MinRoom \in Nat
      /\ Len(wm) \in Nat /\ Len(body) \in Nat
      /\ wm = << >> <=> Len(wm) = 0
      /\ Len(wm) # 0 => Room > MinRoom
      /\ Len(body) = 0 => Len(wm) # 0
      /\ Len(body) # 0 => offset <= Len(body)
      /\ offset \in Nat
  BY <1>1, Filling, Sizes
<1>3. Len(wm) = 0 /\ Len(body) # 0 /\ offset <= Len(body)
  BY <1>1, <1>2
<1>4. Sound(body, offset, Payload) /\ Cont(body) = PAD
  BY <1>1, <1>3 DEF Cutting
<1>5. /\ Sound(body', offset, Payload) /\ Len(body') = Len(body) + Room
      /\ Cont(body') = PAD /\ Opens(body', offset) = Opens(body, offset)
  BY <1>1, <1>2, <1>3, <1>4, SoundPad
<1>6. Len(body') # 0
  BY <1>2, <1>3, <1>5
<1>7. Cutting'
  BY <1>1, <1>2, <1>5 DEF Cutting
<1>8. Pending = Opens(body, offset)
  BY <1>1, <1>3 DEF Pending
<1>9. Pending' = Opens(body', offset)
  BY <1>1, <1>6 DEF Pending, Opens
<1> QED
  BY <1>1, <1>5, <1>7, <1>8, <1>9 DEF Building

\* A packet is cut.
LEMMA PartialBuilds ==
    ASSUME Sending, Cutting, WPartial
    PROVE  Building
<1>1. /\ wpc = "fill" /\ wpc' = "send" /\ wm # << >> /\ Len(wm) > Room
      /\ body' = body \o SubSeq(wm, 1, Room)
      /\ leftover' = Drop(wm, Room) /\ wm' = << >>
      /\ UNCHANGED <<outq, offset, seq, net>>
  BY DEF WPartial, netvars
<1>2. /\ Room \in Nat \ {0} /\ Piece(wm) /\ wm \in Seq(Byte)
      /\ Len(wm) \in Nat /\ Len(body) \in Nat
  BY <1>1, Filling
<1> DEFINE s == SubSeq(wm, 1, Room)
<1>3. Room \in 0 .. Len(wm) /\ 1 \in 1 .. Room /\ Room \in 1 .. Room /\ Len(wm) # 0 /\ Room <= Len(wm)
  BY <1>1, <1>2
<1>4. Piece(s) /\ Len(s) = Room /\ s[1] = wm[1] /\ s[Room] = wm[Room]
  BY <1>2, <1>3, PieceTake, TakeFacts
<1> HIDE DEF s
<1>5. Len(s) # 0 /\ Len(s) <= Len(wm)
  BY <1>2, <1>3, <1>4
<1>6. /\ Sound(body, offset, Payload) /\ offset \in Nat /\ Payload \in Nat
      /\ Len(body) # 0 => Cont(body) = PAD
      /\ Payload - Len(body) > MinRoom
      /\ \/ offset <= Len(body) /\ Fresh(s)
         \/ Len(body) = 0 /\ offset >= Len(s) /\ offset = PktLen[s[1][1]] - s[1][2] + 1
      /\ Pending = IF Len(body) = 0 THEN Opens(s, offset) ELSE Opens(body, offset)
  BY <1>1, <1>3, <1>4, <1>5, ReadyToAdd
<1>7. body' = body \o s
  BY <1>1 DEF s
<1>8. /\ Sound(body', offset, Payload) /\ Len(body') = Len(body) + Len(s)
      /\ Opens(body', offset) = Pending
      /\ body'[Len(body')] = s[Room]
  <2>1. /\ Sound(body \o s, offset, Payload) /\ Len(body \o s) = Len(body) + Len(s)
        /\ Opens(body \o s, offset) = IF Len(body) = 0 THEN Opens(s, offset) ELSE Opens(body, offset)
        /\ (body \o s)[Len(body) + Len(s)] = s[Len(s)]
    BY <1>4, <1>5, <1>6, SoundAppend
  <2> QED
    BY <1>4, <1>6, <1>7, <2>1
<1>9. Len(body') # 0 /\ body' \in Seq(Cell)
  BY <1>2, <1>4, <1>8 DEF Sound, Formed
<1>10. Pending' = Pending
  <2>1. Pending' = Opens(body', offset)
    BY <1>1, <1>9 DEF Pending, Opens
  <2> QED
    BY <1>8, <2>1
<1> DEFINE p == wm[1][1]
           a == wm[1][2]
<1>11. /\ p \in Pkts /\ a \in 1 .. PktLen[p] /\ PktLen[p] \in Nat
       /\ \A i \in 1 .. Len(wm) : wm[i] = <<p, a + i - 1>> /\ a + i - 1 <= PktLen[p]
  BY <1>2, <1>3, PieceRun
<1> HIDE DEF p, a
<1>12. /\ Len(leftover') = Len(wm) - Room
       /\ \A i \in 1 .. Len(wm) - Room : leftover'[i] = wm[Room + i]
  BY <1>1, <1>2, <1>3, DropFacts
<1>13. /\ Room \in 1 .. Len(wm) /\ Room + 1 \in 1 .. Len(wm) /\ 1 \in 1 .. Len(wm) - Room
       /\ Len(wm) - Room \in 1 .. Len(wm) - Room /\ Room + (Len(wm) - Room) = Len(wm)
       /\ Len(leftover') # 0
  BY <1>1, <1>2, <1>12
<1>14. Ends(leftover')
  <2>1. leftover'[Len(leftover')] = wm[Len(wm)]
    BY <1>12, <1>13
  <2>2. wm[Len(wm)][2] = PktLen[wm[Len(wm)][1]]
    BY <1>3 DEF Cutting, Ends
  <2> QED
    BY <2>1, <2>2 DEF Ends
<1>15. Cont(body') = leftover'[1]
  <2>1. leftover'[1] = <<p, a + (Room + 1) - 1>> /\ a + (Room + 1) - 1 <= PktLen[p]
    BY <1>11, <1>12, <1>13
  <2>2. body'[Len(body')] = <<p, a + Room - 1>>
    BY <1>4, <1>8, <1>11, <1>13
  <2>3. /\ a + Room - 1 \in 1 .. PktLen[p] /\ a + Room - 1 # PktLen[p]
        /\ a + Room - 1 + 1 = a + (Room + 1) - 1
    BY <1>2, <1>11, <2>1
  <2>4. Cont(body') = <<p, a + Room - 1 + 1>>
    BY <1>9, <1>11, <2>2, <2>3, ContFacts
  <2> QED
    BY <2>1, <2>3, <2>4
<1>16. Cutting'
  <2>1. Ends(wm') /\ \A k \in 1 .. Len(outq') : Ends(outq'[k])
    BY <1>1, EndsFacts DEF Cutting
  <2> QED
    BY <1>1, <1>8, <1>13, <1>14, <1>15, <2>1 DEF Cutting
<1> QED
  BY <1>1, <1>10, <1>16 DEF Building

\* A packet fits.
LEMMA FullBuilds ==
    ASSUME Sending, Cutting, WFull
    PROVE  Building
<1> DEFINE room == Room - Len(wm)
           more == room > MinRoom /\ ~OneOnly /\ outq # << >>
<1>1. /\ wpc = "fill" /\ wm # << >> /\ Len(wm) <= Room
      /\ body' = body \o wm
      /\ \/ outq # << >> /\ wm' = Top(outq) /\ outq' = Below(outq)
         \/ wm' = << >> /\ outq' = outq
      /\ wpc' \in {"send", "fill"}
      /\ UNCHANGED <<leftover, offset, seq, net>>
  BY DEF WFull, TakeFromQueue, netvars
<1>2. /\ Len(leftover) = 0 /\ Piece(wm) /\ wm \in Seq(Byte)
      /\ Len(wm) \in Nat /\ Len(body) \in Nat
      /\ wm = << >> <=> Len(wm) = 0
  BY <1>1, Filling
<1>3. Len(wm) # 0 /\ Len(wm) <= Len(wm)
  BY <1>1, <1>2
<1>4. /\ Sound(body, offset, Payload) /\ offset \in Nat /\ Payload \in Nat
      /\ Len(body) # 0 => Cont(body) = PAD
      /\ Payload - Len(body) > MinRoom
      /\ \/ offset <= Len(body) /\ Fresh(wm)
         \/ Len(body) = 0 /\ offset >= Len(wm) /\ offset = PktLen[wm[1][1]] - wm[1][2] + 1
      /\ Pending = IF Len(body) = 0 THEN Opens(wm, offset) ELSE Opens(body, offset)
  BY <1>1, <1>2, <1>3, ReadyToAdd
<1>5. /\ Sound(body', offset, Payload) /\ Len(body') = Len(body) + Len(wm)
      /\ Opens(body', offset) = Pending
      /\ body'[Len(body')] = wm[Len(wm)]
  BY <1>1, <1>2, <1>3, <1>4, SoundAppend
<1>6. Len(body') # 0 /\ body' \in Seq(Cell)
  BY <1>2, <1>3, <1>5 DEF Sound, Formed
<1>7. Pending' = Pending
  <2>1. Pending' = Opens(body', offset)
    BY <1>1, <1>6 DEF Pending, Opens
  <2> QED
    BY <1>5, <2>1
<1>8. Cont(body') = PAD
  <2>1. wm[Len(wm)][2] = PktLen[wm[Len(wm)][1]]
    BY <1>3 DEF Cutting, Ends
  <2> QED
    BY <1>5, <1>6, <2>1, ContFacts
<1>9. Ends(wm') /\ \A k \in 1 .. Len(outq') : Ends(outq'[k])
  <2>1. CASE outq # << >> /\ wm' = Top(outq) /\ outq' = Below(outq)
    BY <2>1, QueueEnds
  <2>2. CASE wm' = << >> /\ outq' = outq
    BY <2>2, EndsFacts DEF Cutting
  <2> QED
    BY <1>1, <2>1, <2>2
<1>10. Cutting'
  BY <1>1, <1>2, <1>5, <1>8, <1>9 DEF Cutting
<1> QED
  BY <1>1, <1>7, <1>10 DEF Building

\* The outer packet is sent, or its number used up in vain.
LEMMA SendShips ==
    ASSUME Sending, Cutting, WSend \/ WSendShort, seq' # 0
    PROVE  Skipping \/ \E o \in Outer : Shipping(o)
<1> DEFINE o == [seq |-> seq, offset |-> offset, body |-> body]
<1>1. /\ wpc = "send" /\ wpc' = "idle"
      /\ seq' = (seq + 1) % SeqMod /\ body' = << >> /\ UNCHANGED <<outq, wm>>
      /\ \/ WSend /\ net' = Append(net, o) /\ leftover' = leftover
         \/ WSendShort /\ net' = net /\ leftover' = << >>
  BY DEF WSend, WSendShort, Transmit
<1>2. /\ seq \in 0 .. SeqMod - 1 /\ offset \in Nat
      /\ Formed(body, offset) /\ Len(body) = Payload
  BY <1>1 DEF Sending, Packing
<1>3. o \in Outer
  BY <1>2, TransmitOuter
<1>4. seq' = seq + 1
  BY <1>1, <1>2, NextNumber
<1>5. Ends(leftover') /\ Ends(wm') /\ \A k \in 1 .. Len(outq') : Ends(outq'[k])
  BY <1>1, EndsFacts DEF Cutting
<1>6. Cutting'
  BY <1>1, <1>5 DEF Cutting
<1>7. ASSUME net' = Append(net, o), leftover' = leftover
      PROVE  Shipping(o)
  <2>1. /\ Sound(body, offset, Payload)
        /\ Cont(body) = IF Len(leftover) = 0 THEN PAD ELSE leftover[1]
    BY <1>1 DEF Cutting
  <2>2. Pending' = IF Len(leftover) = 0 THEN PAD ELSE leftover[1]
    BY <1>1, <1>7 DEF Pending
  <2>3. Len(body) # 0
    BY <1>2, Sizes
  <2>4. Pending = Opens(body, offset)
    BY <1>1, <2>3 DEF Pending
  <2>5. o.seq = seq /\ o.offset = offset /\ o.body = body
    OBVIOUS
  <2> QED
    BY <1>3, <1>4, <1>6, <1>7, <2>1, <2>2, <2>4, <2>5 DEF Shipping
<1> HIDE DEF o
<1>8. ASSUME net' = net
      PROVE  Skipping
  BY <1>4, <1>6, <1>8 DEF Skipping
<1> QED
  BY <1>1, <1>3, <1>7, <1>8

\* An outer packet of padding is sent.
LEMMA EmptyShips ==
    ASSUME Sending, Cutting, WEmpty, seq' # 0
    PROVE  \E o \in Outer : Shipping(o)
<1> DEFINE b == Padding(Payload)
           o == [seq |-> seq, offset |-> 0, body |-> b]
<1>1. /\ wpc = "idle" /\ leftover = << >> /\ net' = Append(net, o)
      /\ seq' = (seq + 1) % SeqMod
      /\ UNCHANGED <<outq, wpc, wm, leftover, offset, body>>
  BY DEF WEmpty, Transmit
<1>2. seq \in 0 .. SeqMod - 1
  BY DEF Sending, Packing
<1>3. /\ Payload \in Nat /\ Payload # 0 /\ b \in Seq(Cell) /\ Len(b) = Payload
      /\ \A i \in 1 .. Payload : b[i] = PAD
  BY Sizes, PaddingFacts
<1> HIDE DEF b
<1>4. Sound(b, 0, Payload) /\ Cont(b) = PAD /\ Opens(b, 0) = PAD
  <2>1. 1 .. Len(b) - 1 \subseteq 1 .. Payload /\ 1 \in 1 .. Payload /\ Payload \in 1 .. Payload
    BY <1>3
  <2>2. Formed(b, 0)
    BY <1>3, <2>1 DEF Formed
  <2>3. Solid(b) /\ Roomy(b, Payload) /\ Reaching(b, 0)
    BY <1>3, <2>1 DEF Solid, Roomy, Reaching
  <2>4. b[Len(b)] = PAD
    BY <1>3, <2>1
  <2> QED
    BY <2>2, <2>3, <2>4 DEF Sound, Cont, Opens
<1>5. o \in Outer
  BY <1>2, <1>3, <1>4, TransmitOuter DEF Sound
<1>6. seq' = seq + 1
  BY <1>1, <1>2, NextNumber
<1>7. Cutting'
  BY <1>1 DEF Cutting
<1>8. Pending = PAD /\ Pending' = PAD
  <2>1. Len(leftover) = 0
    BY <1>1, SendingFacts
  <2> QED
    BY <1>1, <2>1 DEF Pending
<1>9. o.seq = seq /\ o.offset = 0 /\ o.body = b
  OBVIOUS
<1> HIDE DEF o
<1>10. Shipping(o)
  BY <1>1, <1>4, <1>5, <1>6, <1>7, <1>8, <1>9 DEF Shipping
<1> QED
  BY <1>5, <1>10

LEMMA SenderStep ==
    ASSUME Sending, Cutting, IngressNext, seq' # 0
    PROVE  SenderDoes
BY IntfBuilds, StartBuilds, PadBuilds, PartialBuilds, FullBuilds, SendShips, EmptyShips
   DEF IngressNext, TfsWriter, SenderDoes

-----------------------------------------------------------------------------
\* The path.

\* The elements of a sequence to which one is added, from which some are taken, or in
\* which some are repeated or reordered.
LEMMA ElemsIn ==
    ASSUME NEW T, NEW r \in Seq(T)
    PROVE  Elems(r) \subseteq T
BY LenProperties, ElementOfSeq DEF Elems

LEMMA ElemsAppend ==
    ASSUME NEW S, NEW q \in Seq(S), NEW o \in S
    PROVE  Elems(Append(q, o)) = Elems(q) \cup {o}
<1> DEFINE r == Append(q, o)
<1>1. Len(q) \in Nat /\ DOMAIN q = 1 .. Len(q)
  BY LenProperties
<1>2. /\ Len(r) = Len(q) + 1 /\ \A i \in 1 .. Len(q) : r[i] = q[i]
      /\ r[Len(q) + 1] = o /\ r \in Seq(S)
  BY AppendFacts
<1> HIDE DEF r
<1>3. DOMAIN r = 1 .. Len(q) + 1
  BY <1>2, LenProperties
<1>4. 1 .. Len(q) + 1 = (1 .. Len(q)) \cup {Len(q) + 1}
  BY <1>1
<1>5. Elems(r) = Elems(q) \cup {o}
  BY <1>1, <1>2, <1>3, <1>4 DEF Elems
<1> QED
  BY <1>5 DEF r

LEMMA ElemsFewer ==
    ASSUME NEW S, NEW q \in Seq(S)
    PROVE  /\ q # << >> => Head(q) \in Elems(q) /\ Elems(Tail(q)) \subseteq Elems(q)
           /\ \A i \in DOMAIN q : Elems(SubSeq(q, 1, i - 1) \o Drop(q, i)) \subseteq Elems(q)
           /\ \A i \in DOMAIN q :
                Elems(SubSeq(q, 1, i) \o <<q[i]>> \o Drop(q, i)) \subseteq Elems(q)
           /\ \A i \in DOMAIN q \ {Len(q)} :
                Elems([q EXCEPT ![i] = q[i + 1], ![i + 1] = q[i]]) \subseteq Elems(q)
<1> DEFINE F == Elems(q)
<1>1. Len(q) \in Nat /\ DOMAIN q = 1 .. Len(q) /\ \A i \in 1 .. Len(q) : q[i] \in F
  BY LenProperties DEF Elems
<1>2. q \in Seq(F)
  BY <1>1, LenProperties, IsASeq
<1> HIDE DEF F
<1>3. q # << >> => Head(q) \in F /\ Elems(Tail(q)) \subseteq F
  BY <1>2, Flight, ElemsIn
<1>4. \A i \in DOMAIN q : Elems(SubSeq(q, 1, i - 1) \o Drop(q, i)) \subseteq F
  BY <1>2, Flight, ElemsIn
<1>5. \A i \in DOMAIN q : Elems(SubSeq(q, 1, i) \o <<q[i]>> \o Drop(q, i)) \subseteq F
  BY <1>2, Flight, ElemsIn
<1>6. \A i \in DOMAIN q \ {Len(q)} : Elems([q EXCEPT ![i] = q[i + 1], ![i + 1] = q[i]]) \subseteq F
  BY <1>2, Flight, ElemsIn
<1> QED
  BY <1>3, <1>4, <1>5, <1>6 DEF F

LEMMA NetFlying ==
    ASSUME InFlight, NetNext
    PROVE  Flying' \subseteq Flying
<1>1. net \in Seq(Outer)
  BY DEF InFlight
<1>2. CASE NetLose
  <2>1. PICK i \in DOMAIN net : net' = SubSeq(net, 1, i - 1) \o Drop(net, i)
    BY <1>2 DEF NetLose
  <2> QED
    BY <1>1, <2>1, ElemsFewer DEF Flying
<1>3. CASE NetDup
  <2>1. PICK i \in DOMAIN net : net' = SubSeq(net, 1, i) \o <<net[i]>> \o Drop(net, i)
    BY <1>3 DEF NetDup
  <2> QED
    BY <1>1, <2>1, ElemsFewer DEF Flying
<1>4. CASE NetReorder
  <2>1. PICK i \in DOMAIN net \ {Len(net)} :
          net' = [net EXCEPT ![i] = net[i + 1], ![i + 1] = net[i]]
    BY <1>4 DEF NetReorder
  <2> QED
    BY <1>1, <2>1, ElemsFewer DEF Flying
<1> QED
  BY <1>2, <1>3, <1>4 DEF NetNext

\* The receiver only takes outer packets away.
LEMMA ReceiverFlying ==
    ASSUME InFlight, ReassemblyNext
    PROVE  Flying' \subseteq Flying
<1>1. net \in Seq(Outer)
  BY DEF InFlight
<1>2. net' = net \/ (net # << >> /\ net' = Tail(net))
  BY DEF ReassemblyNext, TfsReader, RTop, RLimited, ROld, RTake, AddSkip, AddStart, AddMore,
         AddTail, WriteIntf, netvars
<1>3. CASE net' = net
  BY <1>3 DEF Flying
<1>4. CASE net # << >> /\ net' = Tail(net)
  BY <1>1, <1>4, ElemsFewer DEF Flying
<1> QED
  BY <1>2, <1>3, <1>4

\* What follows an outer packet that was sent stays the same.
LEMMA ExpectingStep ==
    ASSUME Sending, NEW s \in Nat, s < seq, NEW c, Expecting(s, c),
           \/ SenderDoes
           \/ Flying' \subseteq Flying /\ seq' = seq /\ Pending' = Pending
    PROVE  Follows(Flying', seq', Pending', s, c)
<1>1. seq \in Nat /\ net \in Seq(Outer)
  BY Sizes, SendingFacts DEF Sending, Packing
<1>2. /\ \A o \in Flying : o.seq = s + 1 => Opens(o.body, o.offset) = c
      /\ s + 1 = seq => Pending = c
  BY DEF Expecting, Follows
<1>3. CASE Flying' \subseteq Flying /\ seq' = seq /\ Pending' = Pending
  BY <1>2, <1>3 DEF Expecting, Follows
<1>4. CASE Building
  BY <1>2, <1>4 DEF Building, Expecting, Follows, Flying
<1>5. CASE Skipping
  <2>1. Flying' = Flying /\ s + 1 # seq'
    BY <1>1, <1>5 DEF Skipping, Flying
  <2> QED
    BY <1>2, <2>1 DEF Expecting, Follows
<1>6. ASSUME NEW o \in Outer, Shipping(o)
      PROVE  Follows(Flying', seq', Pending', s, c)
  <2>1. Flying' = Flying \cup {o}
    <3>1. net' = Append(net, o)
      BY <1>6 DEF Shipping
    <3> QED
      BY <1>1, <3>1, ElemsAppend DEF Flying
  <2>2. /\ s + 1 # seq'
        /\ o.seq = s + 1 => Opens(o.body, o.offset) = c
    BY <1>1, <1>2, <1>6 DEF Shipping
  <2> QED
    BY <1>2, <2>1, <2>2 DEF Expecting, Follows
<1> QED
  BY <1>3, <1>4, <1>5, <1>6 DEF SenderDoes

\* Outer packets keep fitting together.
LEMMA FlowStep ==
    ASSUME Sending, Flow, seq # 0,
           \/ SenderDoes
           \/ Flying' \subseteq Flying /\ seq' = seq /\ Pending' = Pending
    PROVE  Flow'
<1>1. seq \in Nat /\ net \in Seq(Outer)
  BY Sizes, SendingFacts DEF Sending, Packing
<1>2. \A o \in Flying : o \in Outer /\ o.seq \in Nat
  <2>1. \A o \in Flying : o \in Outer
    BY <1>1, LenProperties, ElementOfSeq DEF Flying, Elems
  <2>2. \A o \in Outer : o.seq \in 0 .. SeqMod - 1
    BY DEF Outer, Outers
  <2> QED
    BY <2>1, <2>2, Sizes
<1>3. seq' \in Nat /\ seq' >= seq
  BY <1>1 DEF SenderDoes, Building, Skipping, Shipping
<1>4. ASSUME NEW o \in Flying
      PROVE  /\ o.seq # 0 /\ o.seq < seq' /\ Sound(o.body, o.offset, Payload)
             /\ Follows(Flying', seq', Pending', o.seq, Cont(o.body))
  <2>1. /\ o.seq # 0 /\ o.seq < seq /\ Sound(o.body, o.offset, Payload) /\ o.seq \in Nat
        /\ Expecting(o.seq, Cont(o.body))
    BY <1>2 DEF Flow
  <2>2. Follows(Flying', seq', Pending', o.seq, Cont(o.body))
    BY <2>1, ExpectingStep
  <2> QED
    BY <1>1, <1>3, <2>1, <2>2
<1>5. CASE Flying' \subseteq Flying
  BY <1>4, <1>5 DEF Flow, Expecting
<1>6. ASSUME NEW x \in Outer, Shipping(x)
      PROVE  Flow'
  <2>1. Flying' = Flying \cup {x}
    <3>1. net' = Append(net, x)
      BY <1>6 DEF Shipping
    <3> QED
      BY <1>1, <3>1, ElemsAppend DEF Flying
  <2>2. /\ x.seq # 0 /\ x.seq < seq' /\ Sound(x.body, x.offset, Payload)
        /\ x.seq = seq /\ Pending' = Cont(x.body)
    BY <1>1, <1>6 DEF Shipping
  <2>3. \A o \in Flying' : o.seq # x.seq + 1
    <3>1. \A o \in Flying : o.seq < seq /\ o.seq \in Nat
      BY <1>2 DEF Flow
    <3> QED
      BY <1>1, <2>1, <2>2, <3>1
  <2>4. Follows(Flying', seq', Pending', x.seq, Cont(x.body))
    BY <2>2, <2>3 DEF Expecting, Follows
  <2> QED
    BY <1>4, <2>1, <2>2, <2>4 DEF Flow, Expecting
<1>7. CASE Building \/ Skipping
  BY <1>5, <1>7 DEF Building, Skipping, Flying
<1> QED
  BY <1>5, <1>6, <1>7 DEF SenderDoes

-----------------------------------------------------------------------------
\* The receiver.

\* All but the first j and k elements.
LEMMA DropDrop ==
    ASSUME NEW S, NEW s \in Seq(S), NEW j \in Nat, NEW k \in Nat, j + k <= Len(s)
    PROVE  Drop(Drop(s, j), k) = Drop(s, j + k)
<1> DEFINE t == Drop(s, j)
           u == Drop(t, k)
           v == Drop(s, j + k)
           n == Len(s)
<1>1. n \in Nat /\ j + k \in Nat /\ j <= n /\ j + k <= n
  BY EmptyLen
<1>2. t \in Seq(S) /\ Len(t) = n - j /\ \A i \in 1 .. n - j : t[i] = s[j + i]
  BY <1>1, DropFacts
<1>3. v \in Seq(S) /\ Len(v) = n - (j + k) /\ \A i \in 1 .. n - (j + k) : v[i] = s[j + k + i]
  BY <1>1, DropFacts
<1> HIDE DEF t
<1>4. k <= Len(t) /\ n - j - k = n - (j + k)
  BY <1>1, <1>2
<1>5. u \in Seq(S) /\ Len(u) = Len(t) - k /\ \A i \in 1 .. Len(t) - k : u[i] = t[k + i]
  <2>1. t \in Seq(S) /\ k <= Len(t) /\ k \in Nat
    BY <1>2, <1>4
  <2>2. /\ Drop(t, k) \in Seq(S)
        /\ k <= Len(t) => Len(Drop(t, k)) = Len(t) - k
        /\ \A i \in 1 .. Len(t) - k : Drop(t, k)[i] = t[k + i]
    BY <2>1, DropFacts
  <2> QED
    BY <2>1, <2>2
<1> HIDE DEF u, v, n
<1>6. Len(u) = Len(v)
  BY <1>2, <1>3, <1>4, <1>5
<1>7. \A i \in 1 .. Len(u) : u[i] = v[i]
  <2> TAKE i \in 1 .. Len(u)
  <2>1. i \in 1 .. Len(t) - k /\ k + i \in 1 .. n - j /\ i \in 1 .. n - (j + k) /\ j + (k + i) = j + k + i
    BY <1>1, <1>2, <1>4, <1>5
  <2>2. u[i] = t[k + i] /\ t[k + i] = s[j + (k + i)] /\ v[i] = s[j + k + i]
    BY <1>2, <1>3, <1>5, <2>1
  <2> QED
    BY <2>1, <2>2
<1>8. u = v
  BY <1>3, <1>5, <1>6, <1>7, SeqEqual
<1> QED
  BY <1>8 DEF t, u, v

\* The next bytes of a packet behind its first k.
LEMMA Joined ==
    ASSUME NEW d \in Seq(Cell), NEW p \in Pkts, \A i \in 1 .. Len(d) : d[i] = <<p, i>>,
           NEW b \in Seq(Cell), NEW n \in 0 .. Len(b),
           \A j \in 1 .. n : b[j] = <<p, Len(d) + j>>
    PROVE  d \o SubSeq(b, 1, n) = FirstBytes(p, Len(d) + n)
<1> DEFINE s == SubSeq(b, 1, n)
           k == Len(d)
           t == d \o s
           u == FirstBytes(p, k + n)
<1>1. s \in Seq(Cell) /\ Len(s) = n /\ \A i \in 1 .. n : s[i] = b[i]
  BY TakeFacts
<1>2. k \in Nat /\ n \in Nat
  BY EmptyLen
<1> HIDE DEF s
<1>3. /\ t \in Seq(Cell) /\ Len(t) = k + n
      /\ \A i \in 1 .. k + n : t[i] = IF i <= k THEN d[i] ELSE s[i - k]
  BY <1>1, ConcatProperties
<1>4. DOMAIN t = 1 .. k + n /\ t = [i \in DOMAIN t |-> t[i]]
  <2>1. t \in [1 .. Len(t) -> Cell]
    BY <1>3, LenProperties
  <2> QED
    BY <1>3, <2>1
<1> HIDE DEF t
<1>5. \A i \in 1 .. k + n : t[i] = <<p, i>>
  <2> TAKE i \in 1 .. k + n
  <2>1. CASE i <= k
    <3>1. i \in 1 .. k
      BY <1>2, <2>1
    <3> QED
      BY <1>3, <2>1, <3>1
  <2>2. CASE ~(i <= k)
    <3>1. i - k \in 1 .. n /\ k + (i - k) = i
      BY <1>2, <2>2
    <3>2. t[i] = s[i - k]
      BY <1>3, <2>2
    <3>3. s[i - k] = b[i - k]
      BY <1>1, <3>1
    <3>4. b[i - k] = <<p, k + (i - k)>>
      BY <3>1
    <3> QED
      BY <3>1, <3>2, <3>3, <3>4
  <2> QED
    BY <2>1, <2>2
<1>6. t = u
  BY <1>4, <1>5 DEF FirstBytes
<1> QED
  BY <1>6 DEF t, s

\* An inner packet in progress.
LEMMA InHandFacts ==
    ASSUME NEW mi, InHand(mi)
    PROVE  \E p \in Pkts : \E k \in 1 .. PktLen[p] - 1 :
             /\ mi.data = FirstBytes(p, k) /\ mi.left = PktLen[p] - k
             /\ Len(mi.data) = k /\ \A i \in 1 .. k : mi.data[i] = <<p, i>>
             /\ Wanted(mi) = <<p, k + 1>> /\ Wanted(mi) # PAD
             /\ PktLen[p] \in Nat /\ k \in Nat
<1>1. PICK p \in Pkts : \E k \in 1 .. PktLen[p] - 1 :
        mi.data = FirstBytes(p, k) /\ mi.left = PktLen[p] - k
  BY DEF InHand
<1>2. PICK k \in 1 .. PktLen[p] - 1 :
        mi.data = FirstBytes(p, k) /\ mi.left = PktLen[p] - k
  BY <1>1
<1>3. PktLen[p] \in Nat /\ k \in Nat /\ 1 \in 1 .. k
  BY Sizes
<1>4. \A i \in 1 .. k : mi.data[i] = <<p, i>>
  BY <1>2 DEF FirstBytes
<1>5. Len(mi.data) = k
  <2>1. mi.data \in [1 .. k -> Pkts \X Nat]
    BY <1>2, <1>3 DEF FirstBytes
  <2>2. mi.data \in Seq(Pkts \X Nat)
    BY <1>3, <2>1, IsASeq
  <2> QED
    BY <1>3, <2>1, <2>2, LenProperties
<1>6. Wanted(mi) = <<p, k + 1>>
  BY <1>3, <1>4, <1>5 DEF Wanted
<1>7. Wanted(mi) # PAD
  BY <1>3, <1>6, PairFacts
<1> QED
  BY <1>2, <1>3, <1>4, <1>5, <1>6, <1>7

\* What add_to_inner_packet does when nothing went wrong: it uses up the outer
\* packet, with or without an inner packet in progress after it, or finishes one.
UsesUp ==
    /\ OuterDone /\ UNCHANGED <<iovoutq, rxorder>>
    /\ M'.data # << >> => InHand(M') /\ Wanted(M') = Cont(tb)
Finishes(p, n) ==
    /\ tb[n] = <<p, PktLen[p]>>
    /\ iovoutq' = Append(iovoutq, Bytes(p)) /\ rxorder' = Append(rxorder, p)
    /\ m' = NULL
    /\ IF n = Len(tb)
       THEN OuterDone
       ELSE tb' = Drop(tb, n) /\ toff' = 0 /\ rpc' = "add"
AddDoes == UsesUp \/ \E p \in Pkts : \E n \in 1 .. Len(tb) : Finishes(p, n)

\* The end of a packet.
LEMMA FinishDoes ==
    ASSUME rpc = "add", tb \in Seq(Cell), NEW p \in Pkts, NEW n \in 1 .. Len(tb),
           tb[n] = <<p, PktLen[p]>>, NEW mi, mi.data = Bytes(p),
           NEW rest, rest = Drop(tb, n), Finish(mi, rest)
    PROVE  AddDoes
<1>1. Len(tb) \in Nat /\ n \in Nat /\ n <= Len(tb)
  BY EmptyLen
<1>2. rest \in Seq(Cell) /\ Len(rest) = Len(tb) - n
  BY <1>1, DropFacts
<1>3. rest = << >> <=> n = Len(tb)
  <2>1. rest = << >> <=> Len(rest) = 0
    BY <1>2, EmptyLen
  <2> QED
    BY <1>1, <1>2, <2>1
<1>4. Bytes(p)[1] = <<p, 1>>
  <2>1. 1 \in 1 .. PktLen[p]
    BY Sizes
  <2> QED
    BY <2>1 DEF Bytes
<1>5. /\ iovoutq' = Append(iovoutq, Bytes(p)) /\ rxorder' = Append(rxorder, p) /\ m' = NULL
      /\ IF rest = << >> THEN OuterDone ELSE tb' = rest /\ toff' = 0 /\ rpc' = rpc
  BY <1>4 DEF Finish
<1>6. Finishes(p, n)
  BY <1>3, <1>5 DEF Finishes
<1> QED
  BY <1>6 DEF AddDoes

LEMMA SkipDoes ==
    ASSUME AddSkip
    PROVE  AddDoes
<1>1. M.data = << >> /\ m' = M /\ OuterDone /\ UNCHANGED <<iovoutq, rxorder>>
  BY DEF AddSkip, history
<1>2. M'.data = << >>
  BY <1>1 DEF M, EmptyMiov
<1> QED
  BY <1>1, <1>2 DEF AddDoes, UsesUp

\* What the outer packet has of a packet that starts at the offset: all of its length
\* field at least.
LEMMA StartInTb ==
    ASSUME Receiving, Joining, rpc = "add", M.data = << >>, toff < Len(tb),
           Drop(tb, toff)[1] # PAD
    PROVE  \E p \in Pkts :
             /\ PktLen[p] \in Nat \ {0}
             /\ Drop(tb, toff) \in Seq(Cell) /\ Len(Drop(tb, toff)) = Len(tb) - toff
             /\ HeaderAt(Drop(tb, toff)) /\ IpLen(Drop(tb, toff)) = PktLen[p]
             /\ \A j \in 1 .. Len(tb) - toff : j <= PktLen[p] => tb[toff + j] = <<p, j>>
             /\ \A n \in 0 .. Len(Drop(tb, toff)) : n <= PktLen[p] =>
                  AddMbuf(M, Drop(tb, toff), n) = [data |-> FirstBytes(p, n), left |-> M.left,
                                                   niov |-> M.niov + 1]
<1> DEFINE start == Drop(tb, toff)
           iplen == IpLen(start)
           l == Len(tb)
           p == tb[toff + 1][1]
<1>1. M.data = << >> /\ toff < l /\ start[1] # PAD
  OBVIOUS
<1>2. tb \in Seq(Cell) /\ toff \in Nat /\ l \in Nat
  BY EmptyLen DEF Receiving
<1>3. Formed(tb, toff) /\ Solid(tb) /\ Roomy(tb, l)
  BY DEF Joining, Sound
<1>4. /\ start \in Seq(Cell) /\ Len(start) = l - toff
      /\ \A i \in 1 .. l - toff : start[i] = tb[toff + i]
  <2>1. toff <= l
    BY <1>1, <1>2
  <2> QED
    BY <1>2, <2>1, DropFacts
<1>5. 1 \in 1 .. l - toff /\ toff + 1 \in 1 .. l
  BY <1>1, <1>2
<1>6. start[1] = tb[toff + 1] /\ tb[toff + 1] # PAD
  BY <1>1, <1>4, <1>5
<1>7. tb[toff + 1][2] = 1
  BY <1>1, <1>3, <1>6 DEF Formed
<1>8. p \in Pkts /\ PktLen[p] \in Nat /\ PktLen[p] # 0 /\ tb[toff + 1] = <<p, 1>> /\ 1 \in 1 .. PktLen[p]
  BY <1>2, <1>5, <1>6, <1>7, CellFacts, Sizes
<1>9. l - (toff + 1) >= MinRoom
  BY <1>3, <1>5, <1>6, <1>7 DEF Roomy
<1>10. Len(start) >= LenBytes
  BY <1>2, <1>4, <1>9, Sizes
<1>11. HeaderAt(start) /\ iplen = PktLen[p]
  BY <1>6, <1>7, <1>10 DEF HeaderAt, IpLen
<1>12. \A j \in 0 .. l - (toff + 1) : 1 + j <= PktLen[p] => tb[toff + 1 + j] = <<p, 1 + j>>
  BY <1>2, <1>3, <1>5, <1>8, Run
<1>13. M \in Miovs /\ Len(M.data) = 0 /\ M.data \in Seq(Cell)
  BY <1>1, InProgress DEF InSlots
<1> HIDE DEF start, iplen, p, l
<1>14. \A j \in 1 .. l - toff : j <= PktLen[p] => start[j] = <<p, j>>
  <2> TAKE j \in 1 .. l - toff
  <2> HAVE j <= PktLen[p]
  <2>1. j - 1 \in 0 .. l - (toff + 1) /\ 1 + (j - 1) = j /\ toff + 1 + (j - 1) = toff + j
    BY <1>2
  <2>2. tb[toff + 1 + (j - 1)] = <<p, 1 + (j - 1)>>
    BY <1>12, <2>1
  <2> QED
    BY <1>4, <2>1, <2>2
<1>15. \A n \in 0 .. Len(start) : n <= PktLen[p] =>
          /\ AddMbuf(M, start, n) = [data |-> FirstBytes(p, n), left |-> M.left,
                                     niov |-> M.niov + 1]
  <2> TAKE n \in 0 .. Len(start)
  <2> HAVE n <= PktLen[p]
  <2>1. AddMbuf(M, start, n) = [data |-> M.data \o SubSeq(start, 1, n), left |-> M.left,
                                niov |-> M.niov + 1]
    BY <1>4, <1>13, AddMbufFacts
  <2>2. \A i \in 1 .. Len(M.data) : M.data[i] = <<p, i>>
    BY <1>13
  <2>3. \A j \in 1 .. n : start[j] = <<p, Len(M.data) + j>>
    <3> TAKE j \in 1 .. n
    <3>1. j \in 1 .. l - toff /\ j <= PktLen[p] /\ 0 + j = j
      BY <1>2, <1>4, <1>8
    <3> QED
      BY <1>13, <1>14, <3>1
  <2>4. M.data \o SubSeq(start, 1, n) = FirstBytes(p, Len(M.data) + n)
    BY <1>4, <1>8, <1>13, <2>2, <2>3, Joined
  <2>5. Len(M.data) + n = n
    BY <1>2, <1>4, <1>13
  <2> QED
    BY <2>1, <2>4, <2>5
<1>16. \A j \in 1 .. l - toff : j <= PktLen[p] => tb[toff + j] = <<p, j>>
  BY <1>4, <1>14
<1>17. PktLen[p] \in Nat \ {0}
  BY <1>8
<1> QED
  BY <1>4, <1>8, <1>11, <1>15, <1>16, <1>17 DEF start, iplen, l

\* A packet starts, and all of its length is there.
LEMMA StartDoes ==
    ASSUME Receiving, Joining, AddStart
    PROVE  AddDoes
<1> DEFINE start == Drop(tb, toff)
           iplen == IpLen(start)
           l == Len(tb)
<1>1. /\ rpc = "add" /\ M.data = << >> /\ toff < l /\ start[1] # PAD
      /\ IF ~HeaderAt(start)
         THEN Abort
         ELSE IF iplen # 0 /\ iplen <= Len(start)
              THEN Finish(AddMbuf(M, start, iplen), Drop(start, iplen))
              ELSE /\ m' = [AddMbuf(M, start, Len(start)) EXCEPT
                              !.left = IF iplen = 0 THEN 0 ELSE iplen - Len(start)]
                   /\ OuterDone
                   /\ UNCHANGED <<iovoutq, rxorder>>
  BY DEF AddStart
<1>2. tb \in Seq(Cell) /\ toff \in Nat /\ l \in Nat
  BY EmptyLen DEF Receiving
<1>3. PICK p \in Pkts :
        /\ PktLen[p] \in Nat \ {0} /\ start \in Seq(Cell) /\ Len(start) = l - toff
        /\ HeaderAt(start) /\ iplen = PktLen[p]
        /\ \A j \in 1 .. l - toff : j <= PktLen[p] => tb[toff + j] = <<p, j>>
        /\ \A n \in 0 .. Len(start) : n <= PktLen[p] =>
             AddMbuf(M, start, n) = [data |-> FirstBytes(p, n), left |-> M.left,
                                     niov |-> M.niov + 1]
  BY <1>1, StartInTb
<1> HIDE DEF start, iplen, l
<1>4. CASE iplen <= Len(start)
  <2>1. Finish(AddMbuf(M, start, iplen), Drop(start, iplen))
    BY <1>1, <1>3, <1>4
  <2>2. iplen \in 0 .. Len(start) /\ iplen <= PktLen[p] /\ iplen \in 1 .. l - toff
    BY <1>2, <1>3, <1>4
  <2>3. AddMbuf(M, start, iplen).data = Bytes(p)
    <3>1. AddMbuf(M, start, iplen).data = FirstBytes(p, PktLen[p])
      BY <1>3, <2>2
    <3> QED
      BY <3>1 DEF Bytes, FirstBytes
  <2>4. toff + iplen \in 1 .. l /\ toff + iplen <= l /\ iplen \in Nat
    BY <1>2, <2>2
  <2>5. tb[toff + iplen] = <<p, PktLen[p]>>
    BY <1>3, <2>2
  <2>6. Drop(start, iplen) = Drop(tb, toff + iplen)
    BY <1>2, <2>4, DropDrop DEF start, l
  <2> QED
    BY <1>1, <1>2, <1>3, <2>1, <2>3, <2>4, <2>5, <2>6, FinishDoes DEF l
<1>5. CASE ~(iplen <= Len(start))
  <2> DEFINE k == Len(start)
  <2>1. /\ m' = [AddMbuf(M, start, k) EXCEPT !.left = IF iplen = 0 THEN 0 ELSE iplen - k]
        /\ OuterDone /\ UNCHANGED <<iovoutq, rxorder>>
    BY <1>1, <1>3, <1>5
  <2>2. k \in 0 .. Len(start) /\ k <= PktLen[p] /\ k \in 1 .. PktLen[p] - 1 /\ k \in Nat
    BY <1>1, <1>2, <1>3, <1>5
  <2>3. m' = [data |-> FirstBytes(p, k), left |-> PktLen[p] - k, niov |-> M.niov + 1]
    <3>1. AddMbuf(M, start, k) = [data |-> FirstBytes(p, k), left |-> M.left,
                                  niov |-> M.niov + 1]
      BY <1>3, <2>2
    <3> HIDE DEF k
    <3> QED
      BY <1>3, <2>1, <3>1
  <2>4. M' = m' \/ M'.data = << >>
    BY DEF M, EmptyMiov
  <2>5. InHand(m')
    BY <1>3, <2>2, <2>3 DEF InHand
  <2>6. Cont(tb) = <<p, k + 1>>
    <3>1. k \in 1 .. l - toff /\ toff + k = l /\ l # 0
      BY <1>1, <1>2, <1>3, <2>2
    <3>2. tb[l] = <<p, k>>
      BY <1>3, <2>2, <3>1
    <3>3. k \in 1 .. PktLen[p] /\ k # PktLen[p]
      BY <1>3, <2>2
    <3> HIDE DEF k
    <3> QED
      BY <1>2, <1>3, <3>1, <3>2, <3>3, ContFacts DEF l
  <2>7. Wanted(m') = <<p, k + 1>>
    <3> HIDE DEF k
    <3>1. Len(m'.data) = k
      <4>1. m'.data \in [1 .. k -> Pkts \X Nat]
        BY <1>3, <2>2, <2>3 DEF FirstBytes
      <4>2. m'.data \in Seq(Pkts \X Nat)
        BY <2>2, <4>1, IsASeq
      <4> QED
        BY <2>2, <4>1, <4>2, LenProperties
    <3>2. m'.data[1] = <<p, 1>>
      BY <2>2, <2>3 DEF FirstBytes
    <3> QED
      BY <3>1, <3>2 DEF Wanted
  <2>8. UsesUp
    BY <2>1, <2>4, <2>5, <2>6, <2>7 DEF UsesUp
  <2> QED
    BY <2>8 DEF AddDoes
<1> QED
  BY <1>4, <1>5

\* What the outer packet has of the packet in progress.
LEMMA RestInTb ==
    ASSUME Receiving, Joining, rpc = "add", M.data # << >>
    PROVE  \E p \in Pkts : \E k \in 1 .. PktLen[p] - 1 :
             /\ PktLen[p] \in Nat /\ k \in Nat /\ M.data[1][1] = p
             /\ M.left = toff /\ toff # 0 /\ M.left = PktLen[p] - k
             /\ \A j \in 1 .. Len(tb) : k + j <= PktLen[p] => tb[j] = <<p, k + j>>
             /\ \A n \in 0 .. Len(tb) : n <= M.left =>
                  /\ AddMbuf(M, tb, n) = [data |-> FirstBytes(p, k + n),
                                          left |-> M.left, niov |-> M.niov + 1]
<1> DEFINE l == Len(tb)
<1>1. /\ Sound(tb, toff, l) /\ l # 0 /\ toff # 0 /\ tb[1] = Wanted(M) /\ InHand(M)
  BY DEF Joining
<1>2. tb \in Seq(Cell) /\ l \in Nat /\ toff \in Nat /\ 1 \in 1 .. l
  BY <1>1, EmptyLen DEF Receiving
<1>3. PICK p \in Pkts : \E k \in 1 .. PktLen[p] - 1 :
        /\ M.data = FirstBytes(p, k) /\ M.left = PktLen[p] - k
        /\ Len(M.data) = k /\ \A i \in 1 .. k : M.data[i] = <<p, i>>
        /\ Wanted(M) = <<p, k + 1>> /\ PktLen[p] \in Nat /\ k \in Nat
  BY <1>1, InHandFacts
<1>4. PICK k \in 1 .. PktLen[p] - 1 :
        /\ M.data = FirstBytes(p, k) /\ M.left = PktLen[p] - k
        /\ Len(M.data) = k /\ \A i \in 1 .. k : M.data[i] = <<p, i>>
        /\ Wanted(M) = <<p, k + 1>> /\ PktLen[p] \in Nat /\ k \in Nat
  BY <1>3
<1> HIDE DEF l
<1>5. tb[1] = <<p, k + 1>> /\ k + 1 \in 1 .. PktLen[p]
  BY <1>1, <1>4
<1>6. toff = PktLen[p] - k /\ M.left = toff
  <2>1. toff = PktLen[tb[1][1]] - tb[1][2] + 1
    BY <1>1 DEF Sound, Reaching, l
  <2>2. toff = PktLen[p] - (k + 1) + 1
    BY <1>5, <2>1
  <2> QED
    BY <1>4, <2>2
<1>7. \A j \in 0 .. l - 1 : k + 1 + j <= PktLen[p] => tb[1 + j] = <<p, k + 1 + j>>
  BY <1>1, <1>2, <1>5, Run DEF Sound, l
<1>8. \A j \in 1 .. l : k + j <= PktLen[p] => tb[j] = <<p, k + j>>
  <2> TAKE j \in 1 .. l
  <2> HAVE k + j <= PktLen[p]
  <2>1. j - 1 \in 0 .. l - 1 /\ k + 1 + (j - 1) = k + j /\ 1 + (j - 1) = j
    BY <1>2, <1>4
  <2>2. tb[1 + (j - 1)] = <<p, k + 1 + (j - 1)>>
    BY <1>7, <2>1
  <2> QED
    BY <2>1, <2>2
<1>9. M \in Miovs /\ M.data \in Seq(Cell)
  BY InProgress DEF InSlots
<1>10. ASSUME NEW n \in 0 .. l, n <= M.left
       PROVE  AddMbuf(M, tb, n) = [data |-> FirstBytes(p, k + n),
                                   left |-> M.left, niov |-> M.niov + 1]
  <2>1. AddMbuf(M, tb, n) = [data |-> M.data \o SubSeq(tb, 1, n), left |-> M.left,
                             niov |-> M.niov + 1]
    BY <1>2, <1>9, AddMbufFacts DEF l
  <2>2. \A j \in 1 .. n : tb[j] = <<p, Len(M.data) + j>>
    <3> TAKE j \in 1 .. n
    <3>1. j \in 1 .. l /\ k + j <= PktLen[p]
      BY <1>2, <1>4, <1>10
    <3> QED
      BY <1>4, <1>8, <3>1
  <2>3. M.data \o SubSeq(tb, 1, n) = FirstBytes(p, Len(M.data) + n)
    BY <1>2, <1>4, <1>9, <2>2, Joined DEF l
  <2> QED
    BY <1>4, <2>1, <2>3
<1>11. M.data[1][1] = p
  <2>1. 1 \in 1 .. k
    BY <1>4
  <2> QED
    BY <1>4, <2>1
<1> QED
  BY <1>1, <1>4, <1>6, <1>8, <1>10, <1>11 DEF l

\* The packet in progress ends in this outer packet.
LEMMA TailDoes ==
    ASSUME Receiving, Joining, AddTail
    PROVE  AddDoes
<1>1. /\ rpc = "add" /\ M.data # << >> /\ toff <= Len(tb)
      /\ IF M.left = 0 \/ M.left # toff
         THEN Abort
         ELSE Finish([AddMbuf(M, tb, M.left) EXCEPT !.left = 0], Drop(tb, M.left))
  BY DEF AddTail
<1>2. tb \in Seq(Cell) /\ Len(tb) \in Nat /\ toff \in Nat
  BY EmptyLen DEF Receiving
<1>3. PICK p \in Pkts, k \in Nat :
        /\ PktLen[p] \in Nat
        /\ M.left = toff /\ toff # 0 /\ M.left = PktLen[p] - k
        /\ \A j \in 1 .. Len(tb) : k + j <= PktLen[p] => tb[j] = <<p, k + j>>
        /\ \A n \in 0 .. Len(tb) : n <= M.left =>
             AddMbuf(M, tb, n) = [data |-> FirstBytes(p, k + n),
                                  left |-> M.left, niov |-> M.niov + 1]
  BY <1>1, RestInTb
<1>4. toff \in 1 .. Len(tb) /\ toff \in 0 .. Len(tb) /\ k + toff = PktLen[p] /\ toff <= M.left
  BY <1>1, <1>2, <1>3
<1>5. tb[toff] = <<p, PktLen[p]>>
  BY <1>3, <1>4, SMTT(30)
<1> DEFINE mi == [AddMbuf(M, tb, toff) EXCEPT !.left = 0]
<1>6. mi.data = Bytes(p)
  <2>1. AddMbuf(M, tb, toff) = [data |-> FirstBytes(p, k + toff),
                                left |-> M.left, niov |-> M.niov + 1]
    BY <1>3, <1>4
  <2>2. mi.data = FirstBytes(p, PktLen[p])
    BY <1>4, <2>1
  <2> QED
    BY <2>2 DEF Bytes, FirstBytes
<1>7. Finish(mi, Drop(tb, toff))
  BY <1>1, <1>3
<1> HIDE DEF mi
<1> QED
  BY <1>1, <1>2, <1>4, <1>5, <1>6, <1>7, FinishDoes

\* The packet in progress goes on beyond this outer packet.
LEMMA MoreDoes ==
    ASSUME Receiving, Joining, AddMore
    PROVE  AddDoes
<1> DEFINE l == Len(tb)
<1>1. /\ rpc = "add" /\ M.data # << >> /\ toff > l
      /\ IF M.left = 0
         THEN Abort
         ELSE IF M.left > l
              THEN /\ m' = [AddMbuf(M, tb, l) EXCEPT !.left = @ - l]
                   /\ OuterDone
                   /\ UNCHANGED <<iovoutq, rxorder>>
              ELSE Finish([AddMbuf(M, tb, M.left) EXCEPT !.left = 0], << >>)
  BY DEF AddMore
<1>2. tb \in Seq(Cell) /\ l \in Nat /\ toff \in Nat /\ l # 0
  BY <1>1, EmptyLen DEF Receiving, Joining
<1>3. PICK p \in Pkts, k \in Nat :
        /\ PktLen[p] \in Nat /\ k # 0
        /\ M.left = toff /\ toff # 0 /\ M.left = PktLen[p] - k
        /\ \A j \in 1 .. l : k + j <= PktLen[p] => tb[j] = <<p, k + j>>
        /\ \A n \in 0 .. l : n <= M.left =>
             AddMbuf(M, tb, n) = [data |-> FirstBytes(p, k + n),
                                  left |-> M.left, niov |-> M.niov + 1]
  BY <1>1, RestInTb
<1>4. /\ m' = [AddMbuf(M, tb, l) EXCEPT !.left = @ - l]
      /\ OuterDone /\ UNCHANGED <<iovoutq, rxorder>>
  BY <1>1, <1>3
<1> DEFINE n == k + l
<1>5. /\ l \in 0 .. l /\ l <= M.left /\ l \in 1 .. l /\ n \in 1 .. PktLen[p] - 1
      /\ n \in Nat /\ M.left - l = PktLen[p] - n /\ n <= PktLen[p] /\ n # PktLen[p] /\ n \in 1 .. PktLen[p]
  BY <1>1, <1>2, <1>3
<1>6. AddMbuf(M, tb, l) = [data |-> FirstBytes(p, n), left |-> M.left,
                           niov |-> M.niov + 1]
  BY <1>3, <1>5
<1>7. tb[l] = <<p, n>>
  BY <1>3, <1>5
<1> HIDE DEF n
<1>8. m' = [data |-> FirstBytes(p, n), left |-> PktLen[p] - n, niov |-> M.niov + 1]
  <2>1. m' = [data |-> FirstBytes(p, n), left |-> M.left - l, niov |-> M.niov + 1]
    BY <1>4, <1>6
  <2> QED
    BY <1>5, <2>1
<1>9. M' = m' \/ M'.data = << >>
  BY DEF M, EmptyMiov
<1>10. InHand(m')
  BY <1>5, <1>8 DEF InHand
<1>11. Cont(tb) = <<p, n + 1>>
  BY <1>2, <1>5, <1>7, ContFacts
<1>12. Wanted(m') = <<p, n + 1>>
  <2>1. Len(m'.data) = n
    <3>1. m'.data \in [1 .. n -> Pkts \X Nat]
      BY <1>5, <1>8 DEF FirstBytes
    <3>2. m'.data \in Seq(Pkts \X Nat)
      BY <1>5, <3>1, IsASeq
    <3> QED
      BY <1>5, <3>1, <3>2, LenProperties
  <2>2. m'.data[1] = <<p, 1>>
    BY <1>5, <1>8 DEF FirstBytes
  <2> QED
    BY <2>1, <2>2 DEF Wanted
<1>13. UsesUp
  BY <1>4, <1>9, <1>10, <1>11, <1>12 DEF UsesUp
<1> QED
  BY <1>13 DEF AddDoes

LEMMA AddStepDoes ==
    ASSUME Receiving, Joining, AddSkip \/ AddStart \/ AddMore \/ AddTail
    PROVE  AddDoes
BY SkipDoes, StartDoes, MoreDoes, TailDoes

\* The receiver after a step of add_to_inner_packet.
LEMMA JoiningAdd ==
    ASSUME Sending, Receiving, Flow, Joining, AddSkip \/ AddStart \/ AddMore \/ AddTail,
           UNCHANGED invars
    PROVE  Joining'
<1>1. rpc = "add" /\ UNCHANGED <<ack, newest, net>>
  BY DEF AddSkip, AddStart, AddMore, AddTail, history, netvars
<1>2. /\ newest \in Nat /\ newest < seq /\ ack.last \in {0, newest} /\ newest # 0 /\ Len(tb) # 0
      /\ Sound(tb, toff, Len(tb)) /\ Expecting(newest, Cont(tb))
  BY <1>1 DEF Joining
<1>3. UNCHANGED <<seq, wpc, leftover, body, wm, offset>>
  BY DEF invars
<1>4. \A c : Expecting(newest, c) => Follows(Flying', seq', Pending', newest, c)
  BY <1>1, <1>3 DEF Expecting, Follows, Flying, Pending, Opens
<1>5. tb \in Seq(Cell) /\ toff \in Nat /\ Len(tb) \in Nat
  BY EmptyLen DEF Receiving
<1>6. AddDoes
  BY AddStepDoes
<1>7. CASE UsesUp
  <2>1. rpc' = "top" /\ (M'.data # << >> => InHand(M') /\ Wanted(M') = Cont(tb))
    BY <1>7 DEF UsesUp, OuterDone
  <2>2. M'.data # << >> => InHand(M') /\ Follows(Flying', seq', Pending', newest, Wanted(M'))
    BY <1>2, <1>4, <2>1
  <2> QED
    BY <1>1, <1>2, <1>3, <2>1, <2>2 DEF Joining, InHand, Wanted, Expecting
<1>8. ASSUME NEW p \in Pkts, NEW n \in 1 .. Len(tb), Finishes(p, n)
      PROVE  Joining'
  <2>1. m' = NULL /\ M'.data = << >>
    BY <1>8 DEF Finishes, M, EmptyMiov
  <2>2. CASE n = Len(tb)
    <3>1. rpc' = "top"
      BY <1>8, <2>2 DEF Finishes, OuterDone
    <3> QED
      BY <1>1, <1>2, <1>3, <2>1, <3>1 DEF Joining
  <2>3. CASE n # Len(tb)
    <3>1. tb' = Drop(tb, n) /\ toff' = 0 /\ rpc' = "add" /\ tb[n] = <<p, PktLen[p]>>
      BY <1>8, <2>3 DEF Finishes
    <3>2. n \in 1 .. Len(tb) - 1 /\ n \in 0 .. Len(tb) - 1
      BY <1>5, <2>3
    <3>3. tb[n + 1] = PAD \/ tb[n + 1][2] = 1
      BY <1>2, <1>5, <3>1, <3>2, AfterEnd DEF Sound
    <3>4. /\ Sound(tb', 0, Len(tb')) /\ Len(tb') = Len(tb) - n /\ Cont(tb') = Cont(tb)
      BY <1>2, <1>5, <3>1, <3>2, <3>3, SoundDrop
    <3>5. Len(tb') # 0
      BY <1>5, <3>2, <3>4
    <3>6. Follows(Flying', seq', Pending', newest, Cont(tb'))
      BY <1>2, <1>4, <3>4
    <3>7. Sound(tb', toff', Len(tb'))
      BY <3>1, <3>4
    <3> QED
      BY <1>1, <1>2, <1>3, <2>1, <3>1, <3>5, <3>6, <3>7 DEF Joining, Expecting, Cont
  <2> QED
    BY <2>2, <2>3
<1> QED
  BY <1>6, <1>7, <1>8 DEF AddDoes

\* The receiver after it took an outer packet without being blind.
LEMMA JoiningTake ==
    ASSUME Sending, Receiving, Flow, Joining, RTake, ~blind', UNCHANGED invars
    PROVE  Joining'
<1> DEFINE o == Head(net)
<1>1. /\ net # << >> /\ net' = Tail(net) /\ tb' = o.body /\ toff' = o.offset
      /\ newest' = o.seq /\ rpc' = "add" /\ m' = OnGap(o.seq) /\ rpc = "recv"
      /\ ~(Unnoticed(o.seq) /\ M.data # << >>)
  BY DEF RTake
<1>2. InFlight /\ net \in Seq(Outer)
  BY DEF Sending, InFlight
<1>3. o.seq \in Nat /\ Len(o.body) = Payload /\ Payload # 0 /\ o.offset \in Nat
  BY <1>1, <1>2, HeadOuter, Sizes
<1>4. ack'.last = o.seq
  BY <1>2, TakeAck
<1>5. o \in Flying
  BY <1>1, <1>2, ElemsFewer DEF Flying
<1>6. Flying' \subseteq Flying
  BY <1>1, <1>2, ElemsFewer DEF Flying
<1>7. UNCHANGED <<seq, wpc, leftover, body, wm, offset>>
  BY DEF invars
<1>8. seq' = seq /\ Pending' = Pending
  BY <1>7 DEF Pending, Opens
<1> HIDE DEF o
<1>9. /\ o.seq # 0 /\ o.seq < seq /\ Sound(o.body, o.offset, Payload)
      /\ Expecting(o.seq, Cont(o.body))
  BY <1>5 DEF Flow
<1>10. Follows(Flying', seq', Pending', o.seq, Cont(o.body))
  BY <1>6, <1>8, <1>9 DEF Expecting, Follows
<1>11. ASSUME M'.data # << >>
       PROVE  InHand(M') /\ toff' # 0 /\ tb'[1] = Wanted(M')
  <2>1. m' # NULL /\ m' # EmptyMiov
    BY <1>11 DEF M, EmptyMiov
  <2>2. m' = m /\ ~Gap(o.seq) /\ m # NULL
    BY <1>1, <2>1 DEF OnGap
  <2>3. M' = M /\ M.data # << >>
    BY <1>11, <2>2 DEF M
  <2>4. /\ InHand(M) /\ Expecting(newest, Wanted(M)) /\ newest \in Nat /\ newest < seq /\ newest # 0
        /\ ack.last \in {0, newest}
    BY <1>1, <2>2, <2>3 DEF Joining
  <2>5. o.seq = newest + 1
    <3>1. CASE ack.last = 0
      BY <1>1, <2>3, <2>4, <3>1 DEF Unnoticed
    <3>2. CASE ack.last = newest
      <4>1. o.seq = (newest + 1) % SeqMod
        BY <2>2, <2>4, <3>2 DEF Gap
      <4>2. newest \in 0 .. SeqMod - 1 /\ (newest + 1) % SeqMod # 0
        <5>1. seq \in 0 .. SeqMod - 1
          BY DEF Sending, Packing
        <5> QED
          BY <1>9, <2>4, <4>1, <5>1, Sizes
      <4> QED
        BY <4>1, <4>2, NextNumber
    <3> QED
      BY <2>4, <3>1, <3>2
  <2>6. Opens(o.body, o.offset) = Wanted(M)
    BY <1>5, <2>4, <2>5 DEF Expecting, Follows
  <2>7. Wanted(M) # PAD
    BY <2>4, InHandFacts
  <2>8. o.offset # 0 /\ o.body[1] = Wanted(M)
    BY <2>6, <2>7 DEF Opens
  <2> QED
    BY <1>1, <2>3, <2>4, <2>8 DEF o
<1>12. m' # NULL => newest' # 0
  BY <1>1, <1>9 DEF o
<1>13. /\ newest' \in Nat /\ newest' < seq' /\ newest' # 0 /\ ack'.last \in {0, newest'}
       /\ Len(tb') # 0 /\ Sound(tb', toff', Len(tb'))
       /\ Follows(Flying', seq', Pending', newest', Cont(tb'))
  BY <1>1, <1>3, <1>4, <1>8, <1>9, <1>10 DEF o
<1> QED
  <2>1. Sound(tb, toff, Len(tb))' /\ Expecting(newest, Cont(tb))'
    BY <1>13 DEF Expecting, Follows, Cont
  <2>2. (InHand(M) /\ toff # 0 /\ tb[1] = Wanted(M))' \/ M'.data = << >>
    BY <1>11 DEF InHand, Wanted
  <2> QED
    BY <1>1, <1>13, <2>1, <2>2 DEF Joining

\* Whoever leaves the receiver alone.
LEMMA JoiningSame ==
    ASSUME Sending, Joining, UNCHANGED <<rpc, newest, m, tb, toff>>, ack'.last \in {0, newest},
           \/ SenderDoes
           \/ Flying' \subseteq Flying /\ seq' = seq /\ Pending' = Pending
    PROVE  Joining'
<1>1. newest \in Nat /\ newest < seq /\ seq \in Nat
  BY Sizes DEF Joining, Sending, Packing
<1>2. \A c : Expecting(newest, c) => Follows(Flying', seq', Pending', newest, c)
  BY <1>1, ExpectingStep
<1>3. seq' \in Nat /\ seq' >= seq
  BY <1>1 DEF SenderDoes, Building, Skipping, Shipping
<1>4. newest' \in Nat /\ newest' < seq'
  BY <1>1, <1>3
<1>5. M' = M /\ Cont(tb)' = Cont(tb) /\ Wanted(M)' = Wanted(M)
  BY DEF M, Cont, Wanted
<1>6. rpc = "add" =>
        /\ newest # 0 /\ Len(tb) # 0
        /\ Sound(tb, toff, Len(tb)) /\ Follows(Flying', seq', Pending', newest, Cont(tb))
        /\ M.data # << >> => InHand(M) /\ toff # 0 /\ tb[1] = Wanted(M)
  BY <1>2 DEF Joining
<1>7. rpc # "add" /\ M.data # << >> => InHand(M)
        /\ Follows(Flying', seq', Pending', newest, Wanted(M))
  BY <1>2 DEF Joining
<1>8. Sound(tb, toff, Len(tb))' <=> Sound(tb, toff, Len(tb))
  OBVIOUS
<1>9. InHand(M)' <=> InHand(M)
  BY <1>5 DEF InHand
<1> QED
  BY <1>4, <1>5, <1>6, <1>7, <1>8, <1>9 DEF Joining, Expecting

\* A step of the reader outside add_to_inner_packet that takes no outer packet.
LEMMA JoiningIdle ==
    ASSUME Sending, Joining, rpc # "add", rpc' # "add", rpc' # "abort",
           UNCHANGED <<newest, m, tb, toff>>, ack'.last \in {0, newest},
           Flying' \subseteq Flying, seq' = seq, Pending' = Pending
    PROVE  Joining'
<1>1. newest \in Nat /\ newest < seq
  BY DEF Joining
<1>2. M' = M
  BY DEF M
<1>3. M.data # << >> => InHand(M) /\ Follows(Flying', seq', Pending', newest, Wanted(M))
  BY <1>1, ExpectingStep DEF Joining
<1>4. newest = 0 => m = NULL
  BY DEF Joining
<1>5. M'.data # << >> => InHand(M') /\ Follows(Flying', seq', Pending', newest', Wanted(M'))
  BY <1>2, <1>3
<1> QED
  BY <1>1, <1>4, <1>5 DEF Joining, Expecting, InHand, Wanted

-----------------------------------------------------------------------------
\* The invariant.

LEMMA SoundInit == Init => JInv
<1> SUFFICES ASSUME Init PROVE JInv
  OBVIOUS
<1>1. NetInit /\ IngressInit /\ ReassemblyInit
  BY DEF Init
<1>2. Len(<< >>) = 0 /\ 1 .. 0 = {} /\ Ends(<< >>)
  BY EmptySeq, EndsFacts
<1>3. Cutting
  BY <1>1, <1>2 DEF IngressInit, Cutting
<1>4. Flow
  BY <1>1 DEF NetInit, Flow, Flying, Elems
<1>5. Joining
  BY <1>1 DEF IngressInit, ReassemblyInit, NoAck, Joining, M, EmptyMiov
<1> QED
  BY <1>1, <1>3, <1>4, <1>5 DEF JInv, ReassemblyInit, NoAck

\* Whoever leaves the sender alone.
LEMMA CuttingSame ==
    ASSUME Cutting, UNCHANGED invars
    PROVE  Cutting' /\ seq' = seq /\ Pending' = Pending
<1>1. UNCHANGED <<wpc, wm, leftover, offset, body, seq, outq>>
  BY DEF invars
<1> QED
  BY <1>1 DEF Cutting, Pending, Opens

\* The number of the last packet taken, without reports.
LEMMA NoReports ==
    ASSUME InFlight, Receiving, ~UseAcks, ~blind, ack.last = newest, ReassemblyNext
    PROVE  ~blind' /\ ack'.last = newest'
<1>1. CASE RTop
  BY <1>1 DEF RTop
<1>2. CASE RLimited
  <2>1. ack \in Acks
    BY DEF Receiving
  <2>2. ack' = [ack EXCEPT !.ndrop = @ + 1] /\ UNCHANGED <<newest, blind>>
    BY <1>2 DEF RLimited
  <2>3. ack'.last = ack.last
    BY <2>1, <2>2 DEF Acks
  <2> QED
    BY <2>2, <2>3
<1>3. CASE ROld
  <2>1. ack'.last = ack.last
    BY <1>3, OldAck
  <2> QED
    BY <1>3, <2>1 DEF ROld, history
<1>4. CASE RTake
  <2>1. newest' = Head(net).seq /\ ack'.last = Head(net).seq
    BY <1>4, TakeAck DEF RTake
  <2>2. ~Unnoticed(Head(net).seq)
    BY DEF Unnoticed
  <2> QED
    BY <1>4, <2>1, <2>2 DEF RTake
<1>5. CASE AddSkip \/ AddStart \/ AddMore \/ AddTail \/ WriteIntf
  BY <1>5 DEF AddSkip, AddStart, AddMore, AddTail, WriteIntf, history
<1> QED
  BY <1>1, <1>2, <1>3, <1>4, <1>5 DEF ReassemblyNext, TfsReader

LEMMA JoiningStep ==
    ASSUME IInv, Flow, Joining, ReassemblyNext, UNCHANGED invars, Cutting, ~blind'
    PROVE  Joining'
<1>1. Sending /\ InFlight /\ Receiving
  BY DEF IInv, Sending
<1>2. Flying' \subseteq Flying /\ seq' = seq /\ Pending' = Pending
  BY <1>1, ReceiverFlying, CuttingSame
<1>3. newest \in Nat /\ ack.last \in {0, newest}
  BY DEF Joining
<1>4. CASE RTop
  <2>1. rpc' # "abort" /\ rpc' # "add" /\ rpc # "add" /\ UNCHANGED <<newest, m, tb, toff>>
    BY <1>4 DEF RTop
  <2>2. ack'.last \in {0, newest}
    BY <1>3, <1>4 DEF RTop, NoAck
  <2> QED
    BY <1>1, <1>2, <2>1, <2>2, JoiningIdle
<1>5. CASE RLimited
  <2>1. rpc' # "abort" /\ rpc' # "add" /\ rpc # "add" /\ UNCHANGED <<newest, m, tb, toff>>
    BY <1>5 DEF RLimited
  <2>2. ack \in Acks /\ ack' = [ack EXCEPT !.ndrop = @ + 1]
    BY <1>1, <1>5 DEF RLimited, Receiving
  <2>3. ack'.last = ack.last
    BY <2>2 DEF Acks
  <2> QED
    BY <1>1, <1>2, <1>3, <2>1, <2>3, JoiningIdle
<1>6. CASE ROld
  <2>1. rpc' # "abort" /\ rpc' # "add" /\ rpc # "add" /\ UNCHANGED <<newest, m, tb, toff>>
    BY <1>6 DEF ROld, history
  <2>2. ack'.last = ack.last
    BY <1>1, <1>6, OldAck
  <2> QED
    BY <1>1, <1>2, <1>3, <2>1, <2>2, JoiningIdle
<1>7. CASE RTake
  BY <1>1, <1>7, JoiningTake
<1>8. CASE AddSkip \/ AddStart \/ AddMore \/ AddTail
  BY <1>1, <1>8, JoiningAdd
<1>9. CASE WriteIntf
  <2>1. UNCHANGED <<rpc, newest, m, tb, toff, ack>>
    BY <1>9 DEF WriteIntf, history
  <2> QED
    BY <1>1, <1>2, <1>3, <2>1, JoiningSame
<1> QED
  BY <1>4, <1>5, <1>6, <1>7, <1>8, <1>9 DEF ReassemblyNext, TfsReader

LEMMA SoundStep == IInv /\ JInv /\ NoWrap /\ NoWrap' /\ [Next]_vars => JInv'
<1> SUFFICES ASSUME IInv, JInv, NoWrap, NoWrap', [Next]_vars PROVE JInv'
  OBVIOUS
<1>1. Sending /\ InFlight /\ Receiving
  BY DEF IInv, Sending
<1>2. /\ Cutting /\ Flow /\ (~blind => Joining) /\ (~UseAcks => ~blind /\ ack.last = newest)
      /\ seq # 0 /\ seq' # 0
  BY DEF JInv, NoWrap
<1>3. ASSUME UNCHANGED outvars,
             \/ SenderDoes
             \/ Flying' \subseteq Flying /\ seq' = seq /\ Pending' = Pending
      PROVE  (~blind' => Joining') /\ (~UseAcks => ~blind' /\ ack'.last = newest')
  <2>1. UNCHANGED <<rpc, newest, m, tb, toff, ack, blind>>
    BY <1>3 DEF outvars
  <2>2. Joining => ack'.last \in {0, newest}
    BY <2>1 DEF Joining
  <2>3. Joining => Joining'
    BY <1>1, <1>3, <2>1, <2>2, JoiningSame
  <2> QED
    BY <1>2, <2>1, <2>3
<1>4. CASE IngressNext /\ UNCHANGED outvars
  <2>1. SenderDoes
    BY <1>1, <1>2, <1>4, SenderStep
  <2>2. Cutting'
    BY <2>1 DEF SenderDoes, Building, Skipping, Shipping
  <2>3. Flow'
    BY <1>1, <1>2, <2>1, FlowStep
  <2> QED
    BY <1>3, <1>4, <2>1, <2>2, <2>3 DEF JInv
<1>5. CASE ReassemblyNext /\ UNCHANGED invars
  <2>1. Cutting' /\ seq' = seq /\ Pending' = Pending /\ Flying' \subseteq Flying
    BY <1>1, <1>2, <1>5, CuttingSame, ReceiverFlying
  <2>2. Flow'
    BY <1>1, <1>2, <2>1, FlowStep
  <2>3. blind => blind'
    BY <1>5 DEF ReassemblyNext, TfsReader, RTop, RLimited, ROld, RTake, AddSkip, AddStart,
                AddMore, AddTail, WriteIntf, history
  <2>4. ~blind' => Joining'
    BY <1>2, <1>5, <2>3, JoiningStep
  <2>5. ~UseAcks => ~blind' /\ ack'.last = newest'
    BY <1>1, <1>2, <1>5, NoReports
  <2> QED
    BY <2>1, <2>2, <2>4, <2>5 DEF JInv
<1>6. CASE (NetNext \/ UNCHANGED netvars) /\ UNCHANGED <<invars, outvars>>
  <2>1. Flying' \subseteq Flying
    BY <1>1, <1>6, NetFlying DEF Flying, netvars
  <2>2. Cutting' /\ seq' = seq /\ Pending' = Pending
    BY <1>2, <1>6, CuttingSame
  <2>3. Flow'
    BY <1>1, <1>2, <2>1, <2>2, FlowStep
  <2> QED
    BY <1>3, <1>6, <2>1, <2>2, <2>3 DEF JInv
<1> QED
  BY <1>4, <1>5, <1>6 DEF Next, vars

LEMMA SoundInvariance == Spec /\ []NoWrap => []JInv
<1>1. IInv /\ JInv /\ NoWrap /\ NoWrap' /\ [Next]_vars => JInv'
  BY SoundStep
<1> QED
  BY <1>1, SoundInit, TunnelInvariance, PTL DEF Spec

\* None of the assertions of add_to_inner_packet fails, whatever packets are cut, packed,
\* lost, repeated and reordered, unless the receiver took the first outer packet after a
\* report for the continuation of something else.
THEOREM NeverAborts == Spec /\ []NoWrap => [](~blind => NoAbort)
<1>1. JInv => (~blind => NoAbort)
  BY DEF JInv, Joining, NoAbort
<1> QED
  BY <1>1, SoundInvariance, PTL

\* Without reports, as in one-packet mode, none fails at all.
THEOREM NeverAbortsUnreported == ~UseAcks => (Spec /\ []NoWrap => []NoAbort)
<1> SUFFICES ASSUME ~UseAcks PROVE Spec /\ []NoWrap => []NoAbort
  OBVIOUS
<1>1. JInv => NoAbort
  BY DEF JInv, Joining, NoAbort
<1> QED
  BY <1>1, SoundInvariance, PTL
-----------------------------------------------------------------------------
\* The order of packets.

\* In t packet p comes before q, all of A before all of B, and the packets that end in
\* payload b do so in the order of t.
Prec(t, p, q) == \E i, j \in 1 .. Len(t) : i < j /\ t[i] = p /\ t[j] = q
Before(t, A, B) == \A p \in A, q \in B : Prec(t, p, q)
Ascending(t, b) ==
    \A i, j \in 1 .. Len(b) : \A p, q \in Pkts :
        i < j /\ b[i] = <<p, PktLen[p]>> /\ b[j] = <<q, PktLen[q]>> => Prec(t, p, q)

\* The packets that end in what the sender has in hand, and in outer packets F that
\* come after number s.
InWork == PktsEndingIn(wm) \cup PktsEndingIn(leftover)
InSender == PktsEndingIn(body) \cup InWork
EndsAfter(F, s) == UNION {PktsEndingIn(o.body) : o \in {x \in F : x.seq > s}}
Later(s) == InSender \cup EndsAfter(Flying, s)

Taken == Elems(txorder)
Done == Elems(rxorder)

\* Every packet is taken from the queue once.
TakenOnce ==
    /\ txorder \in Seq(Pkts)
    /\ \A i, j \in 1 .. Len(txorder) : txorder[i] = txorder[j] => i = j
    /\ Taken \cap todo = {}
    /\ \A k \in 1 .. Len(outq) : outq[k][1][1] \notin todo \cup Taken
    /\ \A j, k \in 1 .. Len(outq) : outq[j][1][1] = outq[k][1][1] => j = k

\* Packets end in outer packets in the order they were taken.
PackedInOrder ==
    /\ Ascending(txorder, body) /\ Before(txorder, PktsEndingIn(body), InWork)
    /\ InSender \subseteq Taken
SentInOrder ==
    \A o \in Flying :
        /\ Ascending(txorder, o.body) /\ Before(txorder, PktsEndingIn(o.body), Later(o.seq))
        /\ PktsEndingIn(o.body) \subseteq Taken

\* They are finished in that order.
FinishedInOrder ==
    /\ rxorder \in Seq(Pkts) /\ Done \subseteq Taken
    /\ \A i, j \in 1 .. Len(rxorder) : i < j => Prec(txorder, rxorder[i], rxorder[j])
    /\ Ascending(txorder, tb) /\ PktsEndingIn(tb) \subseteq Taken
    /\ Before(txorder, Done, PktsEndingIn(tb) \cup Later(newest))
    /\ Before(txorder, PktsEndingIn(tb), Later(newest))

\* What is written to the interface, and what waits for it, is different packets.
Written ==
    /\ iovoutq \in Seq({Bytes(p) : p \in Done}) /\ delivered \in Seq({Bytes(p) : p \in Done})
    /\ \A i, j \in 1 .. Len(iovoutq) : iovoutq[i] = iovoutq[j] => i = j
    /\ \A i \in 1 .. Len(delivered), j \in 1 .. Len(iovoutq) : delivered[i] # iovoutq[j]

OInv == TakenOnce /\ PackedInOrder /\ SentInOrder /\ (~blind => FinishedInOrder /\ Written)

-----------------------------------------------------------------------------
\* Packets that end, and the order of a sequence.

LEMMA EndingFacts ==
    ASSUME NEW S, NEW s \in Seq(S)
    PROVE  \A p : p \in PktsEndingIn(s) <=>
             p \in Pkts /\ \E i \in 1 .. Len(s) : s[i] = <<p, PktLen[p]>>
<1>1. DOMAIN s = 1 .. Len(s)
  BY LenProperties
<1> QED
  BY <1>1 DEF PktsEndingIn

LEMMA EndingEmpty == PktsEndingIn(<< >>) = {}
<1>1. << >> \in Seq(Cell) /\ Len(<< >>) = 0 /\ 1 .. 0 = {}
  BY EmptySeq
<1> QED
  BY <1>1, EndingFacts

\* The packet a piece belongs to ends where the piece does.
LEMMA EndingPiece ==
    ASSUME NEW s, Piece(s), Len(s) # 0
    PROVE  /\ Ends(s) => PktsEndingIn(s) = {s[1][1]}
           /\ \A i \in 1 .. Len(s) : \A p \in Pkts :
                s[i] = <<p, PktLen[p]>> => i = Len(s) /\ p = s[1][1]
<1> DEFINE p == s[1][1]
           a == s[1][2]
           n == Len(s)
<1>1. /\ s \in Seq(Byte) /\ n \in Nat /\ p \in Pkts /\ a \in 1 .. PktLen[p] /\ PktLen[p] \in Nat
      /\ \A i \in 1 .. n : s[i] = <<p, a + i - 1>> /\ a + i - 1 <= PktLen[p]
  BY PieceRun
<1>2. n \in 1 .. n /\ n # 0
  BY <1>1
<1>3. Ends(s) => s[n][2] = PktLen[s[n][1]]
  BY DEF Ends
<1> HIDE DEF p, a, n
<1>4. ASSUME NEW i \in 1 .. n, NEW q \in Pkts, s[i] = <<q, PktLen[q]>>
      PROVE  i = n /\ q = p
  <2>1. q = p /\ PktLen[q] = a + i - 1
    BY <1>1, <1>4
  <2>2. a + n - 1 <= PktLen[p]
    BY <1>1, <1>2
  <2> QED
    BY <1>1, <2>1, <2>2
<1>5. ASSUME Ends(s)
      PROVE  s[n] = <<p, PktLen[p]>>
  <2>1. s[n] = <<p, a + n - 1>>
    BY <1>1, <1>2
  <2> QED
    BY <1>3, <1>5, <2>1
<1>6. Ends(s) => PktsEndingIn(s) = {p}
  <2>1. \A q : q \in PktsEndingIn(s) <=> q \in Pkts /\ \E i \in 1 .. n : s[i] = <<q, PktLen[q]>>
    BY <1>1, EndingFacts DEF n
  <2> QED
    BY <1>1, <1>2, <1>4, <1>5, <2>1
<1> QED
  BY <1>4, <1>6 DEF p, n

\* Two payloads, one behind the other.
LEMMA EndingConcat ==
    ASSUME NEW a \in Seq(Cell), NEW b \in Seq(Cell)
    PROVE  /\ PktsEndingIn(a \o b) = PktsEndingIn(a) \cup PktsEndingIn(b)
           /\ \A t : Ascending(t, a) /\ Ascending(t, b) /\ Before(t, PktsEndingIn(a), PktsEndingIn(b))
                => Ascending(t, a \o b)
<1> DEFINE c == a \o b
           k == Len(a)
           n == Len(b)
<1>1. /\ c \in Seq(Cell) /\ Len(c) = k + n /\ k \in Nat /\ n \in Nat
      /\ \A i \in 1 .. k + n : c[i] = IF i <= k THEN a[i] ELSE b[i - k]
  BY ConcatProperties, EmptyLen
<1>2. /\ \A p : p \in PktsEndingIn(a) <=> p \in Pkts /\ \E i \in 1 .. k : a[i] = <<p, PktLen[p]>>
      /\ \A p : p \in PktsEndingIn(b) <=> p \in Pkts /\ \E i \in 1 .. n : b[i] = <<p, PktLen[p]>>
      /\ \A p : p \in PktsEndingIn(c) <=> p \in Pkts /\ \E i \in 1 .. Len(c) : c[i] = <<p, PktLen[p]>>
  BY <1>1, EndingFacts
<1> HIDE DEF c
<1>3. /\ \A i \in 1 .. k : i \in 1 .. k + n /\ c[i] = a[i]
      /\ \A i \in 1 .. n : k + i \in 1 .. k + n /\ c[k + i] = b[i]
      /\ \A i \in 1 .. k + n : i \in 1 .. k \/ (i - k \in 1 .. n /\ i > k)
  <2>1. \A i \in 1 .. k : i \in 1 .. k + n /\ i <= k
    BY <1>1
  <2>2. \A i \in 1 .. n : k + i \in 1 .. k + n /\ ~(k + i <= k) /\ k + i - k = i
    BY <1>1
  <2>3. \A i \in 1 .. n : c[k + i] = b[i]
    <3> TAKE i \in 1 .. n
    <3>1. c[k + i] = b[k + i - k]
      BY <1>1, <2>2
    <3> QED
      BY <2>2, <3>1
  <2>4. \A i \in 1 .. k + n : i \in 1 .. k \/ (i - k \in 1 .. n /\ i > k)
    BY <1>1
  <2> QED
    BY <1>1, <2>1, <2>2, <2>3, <2>4
<1>4. \A i \in 1 .. k + n : (i \in 1 .. k /\ c[i] = a[i]) \/ (i > k /\ i - k \in 1 .. n /\ c[i] = b[i - k])
  <2> TAKE i \in 1 .. k + n
  <2>1. CASE i \in 1 .. k
    BY <1>3, <2>1
  <2>2. CASE ~(i \in 1 .. k)
    <3>1. i - k \in 1 .. n /\ i > k /\ ~(i <= k)
      BY <1>1, <1>3, <2>2
    <3> QED
      BY <1>1, <3>1
  <2> QED
    BY <2>1, <2>2
<1> HIDE DEF k, n
<1>5. PktsEndingIn(c) = PktsEndingIn(a) \cup PktsEndingIn(b)
  <2>1. ASSUME NEW p \in PktsEndingIn(c)
        PROVE  p \in PktsEndingIn(a) \cup PktsEndingIn(b)
    <3>1. PICK i \in 1 .. k + n : c[i] = <<p, PktLen[p]>> /\ p \in Pkts
      BY <1>1, <1>2
    <3>2. CASE i \in 1 .. k /\ c[i] = a[i]
      BY <1>2, <3>1, <3>2
    <3>3. CASE i - k \in 1 .. n /\ c[i] = b[i - k]
      BY <1>2, <3>1, <3>3
    <3> QED
      BY <1>4, <3>2, <3>3
  <2>2. ASSUME NEW p \in PktsEndingIn(a) \cup PktsEndingIn(b)
        PROVE  p \in PktsEndingIn(c)
    <3>1. CASE p \in PktsEndingIn(a)
      <4>1. PICK i \in 1 .. k : a[i] = <<p, PktLen[p]>> /\ p \in Pkts
        BY <1>2, <3>1
      <4>2. i \in 1 .. Len(c) /\ c[i] = <<p, PktLen[p]>>
        BY <1>1, <1>3, <4>1
      <4> QED
        BY <1>2, <4>1, <4>2
    <3>2. CASE p \in PktsEndingIn(b)
      <4>1. PICK i \in 1 .. n : b[i] = <<p, PktLen[p]>> /\ p \in Pkts
        BY <1>2, <3>2
      <4>2. k + i \in 1 .. Len(c) /\ c[k + i] = <<p, PktLen[p]>>
        BY <1>1, <1>3, <4>1
      <4> QED
        BY <1>2, <4>1, <4>2
    <3> QED
      BY <3>1, <3>2
  <2> QED
    BY <2>1, <2>2
<1>6. ASSUME NEW t, Ascending(t, a), Ascending(t, b), Before(t, PktsEndingIn(a), PktsEndingIn(b))
      PROVE  Ascending(t, c)
  <2> SUFFICES ASSUME NEW i \in 1 .. k + n, NEW j \in 1 .. k + n, NEW p \in Pkts, NEW q \in Pkts,
                      i < j, c[i] = <<p, PktLen[p]>>, c[j] = <<q, PktLen[q]>>
               PROVE  Prec(t, p, q)
    BY <1>1 DEF Ascending
  <2>1. CASE i \in 1 .. k /\ j \in 1 .. k
    BY <1>3, <1>6, <2>1 DEF Ascending, k
  <2>2. CASE i \in 1 .. k /\ j \notin 1 .. k
    <3>1. c[i] = a[i] /\ j - k \in 1 .. n /\ c[j] = b[j - k]
      BY <1>3, <1>4, <2>2
    <3>2. p \in PktsEndingIn(a)
      BY <1>2, <2>2, <3>1
    <3>3. q \in PktsEndingIn(b)
      BY <1>2, <3>1
    <3> QED
      BY <1>6, <3>2, <3>3 DEF Before
  <2>3. CASE i \notin 1 .. k
    <3>1. j \notin 1 .. k
      BY <1>1, <2>3
    <3>2. i - k \in 1 .. n /\ j - k \in 1 .. n /\ c[i] = b[i - k] /\ c[j] = b[j - k]
      BY <1>4, <2>3, <3>1
    <3>3. i - k < j - k
      BY <1>1
    <3> QED
      BY <1>6, <3>2, <3>3 DEF Ascending, n
  <2> QED
    BY <2>1, <2>2, <2>3
<1> QED
  BY <1>5, <1>6 DEF c

LEMMA EndingPadding ==
    ASSUME NEW n \in Nat
    PROVE  PktsEndingIn(Padding(n)) = {} /\ \A t : Ascending(t, Padding(n))
<1>1. Padding(n) \in Seq(Cell) /\ Len(Padding(n)) = n /\ \A i \in 1 .. n : Padding(n)[i] = PAD
  BY PaddingFacts
<1>2. \A p \in Pkts : <<p, PktLen[p]>> # PAD
  BY PairFacts, Sizes
<1> QED
  BY <1>1, <1>2, EndingFacts DEF Ascending

\* The rest of a payload.
LEMMA EndingDrop ==
    ASSUME NEW b \in Seq(Cell), NEW n \in 1 .. Len(b), NEW p \in Pkts, b[n] = <<p, PktLen[p]>>,
           NEW t, Ascending(t, b)
    PROVE  /\ PktsEndingIn(Drop(b, n)) \subseteq PktsEndingIn(b) /\ p \in PktsEndingIn(b)
           /\ Ascending(t, Drop(b, n)) /\ Before(t, {p}, PktsEndingIn(Drop(b, n)))
<1> DEFINE c == Drop(b, n)
           k == Len(b)
<1>1. k \in Nat /\ n \in Nat /\ n <= k
  BY EmptyLen
<1>2. c \in Seq(Cell) /\ Len(c) = k - n /\ \A i \in 1 .. k - n : c[i] = b[n + i]
  BY <1>1, DropFacts
<1>3. /\ \A q : q \in PktsEndingIn(b) <=> q \in Pkts /\ \E i \in 1 .. k : b[i] = <<q, PktLen[q]>>
      /\ \A q : q \in PktsEndingIn(c) <=> q \in Pkts /\ \E i \in 1 .. Len(c) : c[i] = <<q, PktLen[q]>>
  BY <1>2, EndingFacts
<1> HIDE DEF c
<1>4. \A i \in 1 .. k - n : n + i \in 1 .. k /\ n < n + i
  BY <1>1
<1>5. \A i, j \in 1 .. k : \A r, q \in Pkts :
        i < j /\ b[i] = <<r, PktLen[r]>> /\ b[j] = <<q, PktLen[q]>> => Prec(t, r, q)
  BY DEF Ascending
<1> HIDE DEF k
<1>6. ASSUME NEW q \in PktsEndingIn(c)
      PROVE  q \in PktsEndingIn(b) /\ Prec(t, p, q)
  <2>1. PICK i \in 1 .. k - n : c[i] = <<q, PktLen[q]>> /\ q \in Pkts
    BY <1>2, <1>3
  <2>2. n + i \in 1 .. k /\ n < n + i /\ b[n + i] = <<q, PktLen[q]>>
    BY <1>2, <1>4, <2>1
  <2> QED
    BY <1>3, <1>5, <2>1, <2>2 DEF k
<1>7. Ascending(t, c)
  <2> SUFFICES ASSUME NEW i \in 1 .. k - n, NEW j \in 1 .. k - n, NEW r \in Pkts, NEW q \in Pkts,
                      i < j, c[i] = <<r, PktLen[r]>>, c[j] = <<q, PktLen[q]>>
               PROVE  Prec(t, r, q)
    BY <1>2 DEF Ascending
  <2>1. n + i < n + j /\ n + i \in 1 .. k /\ n + j \in 1 .. k
    BY <1>1, <1>4
  <2>2. b[n + i] = <<r, PktLen[r]>> /\ b[n + j] = <<q, PktLen[q]>>
    BY <1>2
  <2> QED
    BY <1>5, <2>1, <2>2
<1>8. p \in PktsEndingIn(b)
  BY <1>3 DEF k
<1> QED
  BY <1>6, <1>7, <1>8 DEF Before, c

\* What came before still does when a packet is added behind all of them.
LEMMA PrecGrows ==
    ASSUME NEW t \in Seq(Pkts), NEW q \in Pkts
    PROVE  /\ \A x, y : Prec(t, x, y) => Prec(Append(t, q), x, y)
           /\ \A x \in Elems(t) : Prec(Append(t, q), x, q)
<1> DEFINE u == Append(t, q)
           n == Len(t)
<1>1. /\ n \in Nat /\ Len(u) = n + 1 /\ u[n + 1] = q /\ \A i \in 1 .. n : u[i] = t[i]
  BY AppendFacts
<1>2. /\ \A i \in 1 .. n : i \in 1 .. n + 1 /\ i < n + 1
      /\ n + 1 \in 1 .. n + 1
  BY <1>1
<1>3. DOMAIN t = 1 .. n
  BY LenProperties
<1> HIDE DEF u, n
<1>4. ASSUME NEW x, NEW y, Prec(t, x, y)
      PROVE  Prec(u, x, y)
  <2>1. PICK i, j \in 1 .. n : i < j /\ t[i] = x /\ t[j] = y
    BY <1>4 DEF Prec, n
  <2>2. i \in 1 .. Len(u) /\ j \in 1 .. Len(u) /\ u[i] = x /\ u[j] = y
    BY <1>1, <1>2, <2>1
  <2> QED
    BY <2>1, <2>2 DEF Prec
<1>5. ASSUME NEW x \in Elems(t)
      PROVE  Prec(u, x, q)
  <2>1. PICK i \in 1 .. n : t[i] = x
    BY <1>3, <1>5 DEF Elems
  <2>2. i \in 1 .. Len(u) /\ n + 1 \in 1 .. Len(u) /\ u[i] = x /\ u[n + 1] = q /\ i < n + 1
    BY <1>1, <1>2, <2>1
  <2> QED
    BY <2>2 DEF Prec
<1> QED
  BY <1>4, <1>5 DEF u

-----------------------------------------------------------------------------
\* The order in which the sender takes and sends packets.

\* The packets new are taken from the queue, behind all that were taken before.
Grows(new) ==
    \/ new = {} /\ txorder' = txorder
    \/ \E q \in Pkts \ Taken : new = {q} /\ txorder' = Append(txorder, q)

LEMMA GrowFacts ==
    ASSUME txorder \in Seq(Pkts), NEW new, Grows(new)
    PROVE  /\ txorder' \in Seq(Pkts) /\ Taken' = Taken \cup new
           /\ \A x, y : Prec(txorder, x, y) => Prec(txorder', x, y)
           /\ \A b : Ascending(txorder, b) => Ascending(txorder', b)
           /\ \A A, B, C : A \subseteq Taken /\ Before(txorder, A, B) /\ C \subseteq B \cup new
                             => Before(txorder', A, C)
<1>1. ASSUME NEW q \in Pkts, txorder' = Append(txorder, q)
      PROVE  /\ txorder' \in Seq(Pkts) /\ Taken' = Taken \cup {q}
             /\ \A x, y : Prec(txorder, x, y) => Prec(txorder', x, y)
             /\ \A x \in Taken : Prec(txorder', x, q)
  <2>1. txorder' \in Seq(Pkts)
    BY <1>1, AppendFacts
  <2>2. Elems(Append(txorder, q)) = Elems(txorder) \cup {q}
    BY ElemsAppend
  <2>3. /\ \A x, y : Prec(txorder, x, y) => Prec(Append(txorder, q), x, y)
        /\ \A x \in Elems(txorder) : Prec(Append(txorder, q), x, q)
    BY PrecGrows
  <2>4. Taken' = Elems(txorder')
    BY DEF Taken, Elems
  <2> QED
    BY <1>1, <2>1, <2>2, <2>3, <2>4 DEF Taken
<1>2. /\ txorder' \in Seq(Pkts) /\ Taken' = Taken \cup new
      /\ \A x, y : Prec(txorder, x, y) => Prec(txorder', x, y)
      /\ \A x \in Taken, y \in new : Prec(txorder', x, y)
  <2>1. CASE new = {} /\ txorder' = txorder
    <3>1. Taken' = Taken
      BY <2>1 DEF Taken, Elems
    <3> QED
      BY <2>1, <3>1
  <2>2. CASE \E q \in Pkts \ Taken : new = {q} /\ txorder' = Append(txorder, q)
    BY <1>1, <2>2
  <2> QED
    BY <2>1, <2>2 DEF Grows
<1>3. \A b : Ascending(txorder, b) => Ascending(txorder', b)
  BY <1>2 DEF Ascending
<1>4. ASSUME NEW A, NEW B, NEW C, A \subseteq Taken, Before(txorder, A, B), C \subseteq B \cup new
      PROVE  Before(txorder', A, C)
  BY <1>2, <1>4 DEF Before
<1> QED
  BY <1>2, <1>3, <1>4

\* A packet on the queue is whole.
LEMMA QueuedEnds ==
    ASSUME Sending, Cutting, outq # << >>
    PROVE  /\ PktsEndingIn(Top(outq)) = {Top(outq)[1][1]} /\ Top(outq)[1][1] \in Pkts
           /\ Piece(Top(outq)) /\ Ends(Top(outq))
<1>1. Piece(Top(outq)) /\ Len(Top(outq)) # 0 /\ Ends(Top(outq))
  BY QueueTop, QueueEnds
<1> QED
  BY <1>1, EndingPiece, PieceRun

LEMMA TakeOrders ==
    ASSUME Sending, Cutting, TakenOnce, outq # << >>, TakeFromQueue, todo' = todo
    PROVE  Grows({Top(outq)[1][1]}) /\ TakenOnce'
<1> DEFINE n == Len(outq)
           q == Top(outq)[1][1]
           k == Len(txorder)
<1>1. outq \in Seq(Seq(Byte)) /\ n \in Nat /\ n # 0
  BY SendingFacts
<1>2. q \in Pkts
  BY QueuedEnds
<1>3. q = outq[n][1][1]
  BY DEF Top
<1>4. outq' = Below(outq) /\ txorder' = Append(txorder, q)
  BY DEF TakeFromQueue
<1>5. n - 1 \in 0 .. Len(outq) /\ n \in 1 .. n /\ \A i \in 1 .. n - 1 : i \in 1 .. n /\ i # n
  BY <1>1
<1>6. Len(outq') = n - 1 /\ \A i \in 1 .. n - 1 : outq'[i] = outq[i]
  <2>1. /\ Len(SubSeq(outq, 1, n - 1)) = n - 1
        /\ \A i \in 1 .. n - 1 : SubSeq(outq, 1, n - 1)[i] = outq[i]
    BY <1>1, <1>5, TakeFacts
  <2> QED
    BY <1>4, <2>1 DEF Below
<1>7. /\ txorder \in Seq(Pkts)
      /\ \A i, j \in 1 .. k : txorder[i] = txorder[j] => i = j
      /\ Taken \cap todo = {}
      /\ \A i \in 1 .. n : outq[i][1][1] \notin todo \cup Taken
      /\ \A i, j \in 1 .. n : outq[i][1][1] = outq[j][1][1] => i = j
  BY DEF TakenOnce
<1> HIDE DEF n, q
<1>8. q \notin todo \cup Taken
  BY <1>3, <1>5, <1>7
<1>9. Grows({q})
  BY <1>2, <1>4, <1>8 DEF Grows
<1>10. txorder' \in Seq(Pkts) /\ Taken' = Taken \cup {q}
  BY <1>7, <1>9, GrowFacts
<1>11. \A i, j \in 1 .. Len(txorder') : txorder'[i] = txorder'[j] => i = j
  <2>1. /\ k \in Nat /\ Len(txorder') = k + 1 /\ txorder'[k + 1] = q
        /\ \A i \in 1 .. k : txorder'[i] = txorder[i]
    BY <1>2, <1>4, <1>7, AppendFacts
  <2>2. \A i \in 1 .. k : txorder[i] # q
    <3>1. DOMAIN txorder = 1 .. k
      BY <1>7, LenProperties
    <3> QED
      BY <1>8, <3>1 DEF Taken, Elems
  <2>3. \A i \in 1 .. k + 1 : i \in 1 .. k \/ i = k + 1
    BY <2>1
  <2> HIDE DEF k
  <2> QED
    BY <1>7, <2>1, <2>2, <2>3
<1>12. Taken' \cap todo' = {}
  BY <1>7, <1>8, <1>10
<1>13. \A i \in 1 .. Len(outq') : outq'[i][1][1] \notin todo' \cup Taken'
  <2> TAKE i \in 1 .. Len(outq')
  <2>1. i \in 1 .. n /\ i # n /\ outq'[i] = outq[i] /\ n \in 1 .. n
    BY <1>5, <1>6
  <2>2. outq[i][1][1] # q
    BY <1>3, <1>7, <2>1
  <2> QED
    BY <1>7, <1>10, <2>1, <2>2
<1>14. \A i, j \in 1 .. Len(outq') : outq'[i][1][1] = outq'[j][1][1] => i = j
  BY <1>5, <1>6, <1>7
<1> QED
  BY <1>9, <1>10, <1>11, <1>12, <1>13, <1>14 DEF TakenOnce, q

\* What a step of the sender does to the order of packets.  OrderShip(o): outer packet o
\* is sent.
OrderShip(o) ==
    /\ net' = Append(net, o) /\ o.seq = seq /\ txorder' = txorder
    /\ PktsEndingIn(o.body) \subseteq InSender
    /\ Ascending(txorder, o.body) /\ Before(txorder, PktsEndingIn(o.body), InSender')
SenderOrders(new) ==
    /\ Grows(new) /\ TakenOnce' /\ PackedInOrder' /\ InSender' \subseteq InSender \cup new
    /\ net' = net \/ \E o \in Outer : OrderShip(o)

\* The queue is left alone.
LEMMA QueueSame ==
    ASSUME TakenOnce, UNCHANGED <<todo, outq, txorder>>
    PROVE  Grows({}) /\ TakenOnce' /\ Taken' = Taken
<1>1. Taken' = Taken
  BY DEF Taken, Elems
<1> QED
  BY <1>1 DEF Grows, TakenOnce

LEMMA IntfOrders ==
    ASSUME Sending, TakenOnce, PackedInOrder, IntfReader
    PROVE  SenderOrders({})
<1>1. UNCHANGED <<wpc, wm, leftover, body, net, txorder>>
  BY DEF IntfReader, IntfPop, IntfRead, IntfReadError, IntfReadZero, wvars, netvars
<1>2. Taken' = Taken /\ InSender' = InSender
  BY <1>1 DEF Taken, Elems, InSender, InWork
<1>3. PackedInOrder'
  BY <1>1, <1>2 DEF PackedInOrder, InWork
<1>4. TakenOnce'
  <2>1. CASE UNCHANGED <<todo, outq>>
    BY <1>1, <2>1, QueueSame
  <2>2. CASE \E p \in todo : todo' = todo \ {p} /\ outq' = Append(outq, Bytes(p))
    <3>1. PICK p \in todo : todo' = todo \ {p} /\ outq' = Append(outq, Bytes(p))
      BY <2>2
    <3>2. p \in Pkts
      BY DEF Sending, Counting
    <3>3. outq \in Seq(Seq(Byte)) /\ Len(outq) \in Nat /\ Bytes(p) \in Seq(Byte)
      BY <3>2, SendingFacts, BytesFacts DEF Piece
    <3>4. Bytes(p)[1][1] = p
      <4>1. 1 \in 1 .. PktLen[p]
        BY <3>2, Sizes
      <4> QED
        BY <4>1 DEF Bytes
    <3> DEFINE n == Len(outq)
    <3>5. /\ Len(outq') = n + 1 /\ outq'[n + 1] = Bytes(p)
          /\ \A i \in 1 .. n : outq'[i] = outq[i]
      BY <3>1, <3>3, AppendFacts
    <3>6. \A k \in 1 .. n + 1 : k \in 1 .. n \/ k = n + 1
      BY <3>3
    <3>7. /\ Taken \cap todo = {}
          /\ \A i \in 1 .. n : outq[i][1][1] \notin todo \cup Taken
          /\ \A i, j \in 1 .. n : outq[i][1][1] = outq[j][1][1] => i = j
      BY DEF TakenOnce
    <3> HIDE DEF n
    <3>8. \A k \in 1 .. n + 1 : outq'[k][1][1] \notin todo' \cup Taken
      BY <3>1, <3>4, <3>5, <3>6, <3>7
    <3>9. \A j, k \in 1 .. n + 1 : outq'[j][1][1] = outq'[k][1][1] => j = k
      BY <3>1, <3>4, <3>5, <3>6, <3>7
    <3> QED
      BY <1>1, <1>2, <3>1, <3>5, <3>7, <3>8, <3>9 DEF TakenOnce
  <2> QED
    BY <2>1, <2>2 DEF IntfReader, IntfPop, IntfRead, IntfReadError, IntfReadZero
<1>5. Grows({})
  BY <1>1 DEF Grows
<1> QED
  BY <1>1, <1>2, <1>3, <1>4, <1>5 DEF SenderOrders

LEMMA AscendingEmpty == \A t : Ascending(t, << >>)
<1>1. Len(<< >>) = 0 /\ 1 .. 0 = {}
  BY EmptySeq
<1> QED
  BY <1>1 DEF Ascending

\* Nothing is in the outer packet yet.
LEMMA StartOrders ==
    ASSUME Sending, Cutting, TakenOnce, PackedInOrder, WStartLeftover \/ WStartNew
    PROVE  \E new : SenderOrders(new)
<1>1. wpc = "idle" /\ body' = << >> /\ net' = net /\ todo' = todo
  BY DEF WStartLeftover, WStartNew, netvars
<1>2. body = << >> /\ wm = << >>
  <2>1. Len(body) = 0 /\ Len(wm) = 0
    BY <1>1 DEF Sending, Packing
  <2> QED
    BY <2>1, SendingFacts, EmptyLen
<1>3. PktsEndingIn(body') = {} /\ \A t : Ascending(t, body')
  BY <1>1, EndingEmpty, AscendingEmpty
<1>4. InSender = PktsEndingIn(leftover) /\ InSender \subseteq Taken
  BY <1>2, EndingEmpty DEF InSender, InWork, PackedInOrder
<1>5. InWork' = PktsEndingIn(wm') \cup PktsEndingIn(leftover')
  BY DEF InWork, PktsEndingIn
<1>6. InSender' = InWork'
  BY <1>3 DEF InSender, PktsEndingIn
<1>7. CASE WStartLeftover
  <2>1. wm' = leftover /\ leftover' = << >> /\ UNCHANGED <<outq, txorder>>
    BY <1>7 DEF WStartLeftover
  <2>2. Grows({}) /\ TakenOnce' /\ Taken' = Taken
    BY <1>1, <2>1, QueueSame
  <2>3. InSender' = InSender
    BY <1>4, <1>5, <1>6, <2>1, EndingEmpty
  <2>4. PackedInOrder'
    BY <1>3, <1>4, <2>2, <2>3 DEF PackedInOrder, Before, PktsEndingIn
  <2>5. SenderOrders({})
    BY <1>1, <2>2, <2>3, <2>4 DEF SenderOrders
  <2> QED
    BY <2>5
<1>8. CASE WStartNew
  <2> DEFINE q == Top(outq)[1][1]
  <2>1. leftover = << >> /\ leftover' = << >> /\ outq # << >> /\ wm' = Top(outq) /\ TakeFromQueue
    BY <1>8 DEF WStartNew
  <2>2. Grows({q}) /\ TakenOnce'
    BY <1>1, <2>1, TakeOrders
  <2>3. PktsEndingIn(wm') = {q}
    BY <2>1, QueuedEnds
  <2> HIDE DEF q
  <2>4. InSender' = {q}
    BY <1>5, <1>6, <2>1, <2>3, EndingEmpty
  <2>5. Taken' = Taken \cup {q}
    BY <2>2, GrowFacts DEF TakenOnce
  <2>6. PackedInOrder'
    BY <1>3, <2>4, <2>5 DEF PackedInOrder, Before, PktsEndingIn
  <2>7. SenderOrders({q})
    BY <1>1, <2>2, <2>4, <2>6 DEF SenderOrders
  <2> QED
    BY <2>7
<1> QED
  BY <1>7, <1>8

LEMMA PadOrders ==
    ASSUME Sending, TakenOnce, PackedInOrder, WPad
    PROVE  SenderOrders({})
<1>1. /\ wpc = "fill" /\ body' = body \o Padding(Room)
      /\ UNCHANGED <<todo, outq, wm, leftover, net, txorder>>
  BY DEF WPad, netvars
<1>2. body \in Seq(Cell) /\ Room \in Nat
  BY <1>1, Filling
<1>3. /\ Padding(Room) \in Seq(Cell) /\ PktsEndingIn(Padding(Room)) = {}
      /\ \A t : Ascending(t, Padding(Room))
  BY <1>2, EndingPadding, PaddingFacts
<1>4. PktsEndingIn(body') = PktsEndingIn(body)
  <2>1. PktsEndingIn(body \o Padding(Room)) = PktsEndingIn(body) \cup PktsEndingIn(Padding(Room))
    BY <1>2, <1>3, EndingConcat
  <2> QED
    BY <1>1, <1>3, <2>1
<1>5. Ascending(txorder, body')
  <2>1. Ascending(txorder, body) /\ Before(txorder, PktsEndingIn(body), PktsEndingIn(Padding(Room)))
    BY <1>3 DEF PackedInOrder, Before
  <2> QED
    BY <1>1, <1>2, <1>3, <2>1, EndingConcat
<1>6. Grows({}) /\ TakenOnce' /\ Taken' = Taken
  BY <1>1, QueueSame
<1>7. InWork' = InWork /\ InSender' = InSender /\ PktsEndingIn(body)' = PktsEndingIn(body)
  BY <1>1, <1>4 DEF InWork, InSender, PktsEndingIn
<1>8. PackedInOrder'
  <2>1. /\ Before(txorder, PktsEndingIn(body), InWork) /\ InSender \subseteq Taken
    BY DEF PackedInOrder
  <2> QED
    BY <1>1, <1>5, <1>6, <1>7, <2>1 DEF PackedInOrder
<1> QED
  BY <1>1, <1>6, <1>7, <1>8 DEF SenderOrders

LEMMA PartialOrders ==
    ASSUME Sending, Cutting, TakenOnce, PackedInOrder, WPartial
    PROVE  SenderOrders({})
<1> DEFINE s == SubSeq(wm, 1, Room)
<1>1. /\ wpc = "fill" /\ wm # << >> /\ Len(wm) > Room /\ body' = body \o s
      /\ leftover' = Drop(wm, Room) /\ wm' = << >>
      /\ UNCHANGED <<todo, outq, net, txorder>>
  BY DEF WPartial, netvars
<1>2. /\ body \in Seq(Cell) /\ Room \in Nat \ {0} /\ Piece(wm) /\ wm \in Seq(Byte) /\ Len(wm) \in Nat
      /\ leftover = << >>
  BY <1>1, Filling
<1>3. Room \in 0 .. Len(wm) /\ Len(wm) # 0 /\ Room # Len(wm) /\ \A i \in 1 .. Room : i \in 1 .. Len(wm)
  BY <1>1, <1>2
<1>4. Piece(s) /\ s \in Seq(Byte) /\ s \in Seq(Cell) /\ Len(s) = Room
  <2>1. Piece(s) /\ s \in Seq(Byte) /\ Len(s) = Room
    BY <1>2, <1>3, PieceTake, TakeFacts
  <2>2. Byte \subseteq Cell
    BY DEF Cell
  <2> QED
    BY <2>1, <2>2, SeqMonotonic
<1>5. \A i \in 1 .. Room : s[i] = wm[i]
  BY <1>2, <1>3, TakeFacts
<1>6. Piece(leftover') /\ Len(leftover') = Len(wm) - Room
  BY <1>1, <1>2, <1>3, PieceDrop
<1>7. Ends(leftover') /\ Ends(wm)
  BY PartialBuilds DEF Building, Cutting
<1> HIDE DEF s
<1>8. \A i \in 1 .. Room : \A p \in Pkts : s[i] # <<p, PktLen[p]>>
  <2> SUFFICES ASSUME NEW i \in 1 .. Room, NEW p \in Pkts, s[i] = <<p, PktLen[p]>> PROVE FALSE
    OBVIOUS
  <2>1. i \in 1 .. Len(wm) /\ wm[i] = <<p, PktLen[p]>>
    BY <1>3, <1>5
  <2>2. i = Len(wm)
    BY <1>2, <1>3, <2>1, EndingPiece
  <2> QED
    BY <1>2, <1>3, <2>2
<1>9. PktsEndingIn(s) = {} /\ Ascending(txorder, s)
  <2>1. \A p : p \in PktsEndingIn(s) <=> p \in Pkts /\ \E i \in 1 .. Len(s) : s[i] = <<p, PktLen[p]>>
    BY <1>4, EndingFacts
  <2>2. PktsEndingIn(s) = {}
    BY <1>4, <1>8, <2>1
  <2>3. Ascending(txorder, s)
    BY <1>4, <1>8 DEF Ascending
  <2> QED
    BY <2>2, <2>3
<1>10. PktsEndingIn(body') = PktsEndingIn(body)
  BY <1>1, <1>2, <1>4, <1>9, EndingConcat
<1>11. Ascending(txorder, body')
  <2>1. Ascending(txorder, body) /\ Before(txorder, PktsEndingIn(body), PktsEndingIn(s))
    BY <1>9 DEF PackedInOrder, Before
  <2> QED
    BY <1>1, <1>2, <1>4, <1>9, <2>1, EndingConcat
<1>12. PktsEndingIn(leftover') = PktsEndingIn(wm)
  <2>1. Len(leftover') # 0
    BY <1>1, <1>2, <1>6
  <2>2. PktsEndingIn(leftover') = {leftover'[1][1]} /\ PktsEndingIn(wm) = {wm[1][1]}
    BY <1>2, <1>3, <1>6, <1>7, <2>1, EndingPiece
  <2>3. leftover'[1] = wm[Room + 1]
    <3>1. 1 \in 1 .. Len(wm) - Room
      BY <1>1, <1>2
    <3> QED
      BY <1>1, <1>2, <3>1, DropFacts
  <2>4. Room + 1 \in 1 .. Len(wm)
    BY <1>1, <1>2
  <2>5. wm[Room + 1][1] = wm[1][1]
    BY <1>2, <1>3, <2>4, PieceRun
  <2> QED
    BY <2>2, <2>3, <2>5
<1>13. Grows({}) /\ TakenOnce' /\ Taken' = Taken
  BY <1>1, QueueSame
<1>14. InWork' = InWork /\ InSender' = InSender /\ PktsEndingIn(body)' = PktsEndingIn(body)
  <2>1. /\ InWork' = PktsEndingIn(wm') \cup PktsEndingIn(leftover')
        /\ PktsEndingIn(body)' = PktsEndingIn(body')
        /\ InSender' = PktsEndingIn(body') \cup InWork'
    BY DEF InWork, InSender, PktsEndingIn
  <2>2. InWork = PktsEndingIn(wm)
    BY <1>2, EndingEmpty DEF InWork
  <2>3. PktsEndingIn(wm') = {}
    BY <1>1, EndingEmpty
  <2> QED
    BY <1>10, <1>12, <2>1, <2>2, <2>3 DEF InSender
<1>15. PackedInOrder'
  <2>1. /\ Before(txorder, PktsEndingIn(body), InWork) /\ InSender \subseteq Taken
    BY DEF PackedInOrder
  <2> QED
    BY <1>1, <1>11, <1>13, <1>14, <2>1 DEF PackedInOrder
<1> QED
  BY <1>1, <1>13, <1>14, <1>15 DEF SenderOrders

LEMMA FullOrders ==
    ASSUME Sending, Cutting, TakenOnce, PackedInOrder, WFull
    PROVE  \E new : SenderOrders(new)
<1>1. /\ wpc = "fill" /\ wm # << >> /\ body' = body \o wm
      /\ \/ outq # << >> /\ wm' = Top(outq) /\ TakeFromQueue
         \/ wm' = << >> /\ UNCHANGED <<outq, txorder>>
      /\ UNCHANGED <<todo, leftover, net>>
  BY DEF WFull, netvars
<1>2. /\ body \in Seq(Cell) /\ Piece(wm) /\ wm \in Seq(Byte) /\ Len(wm) # 0 /\ leftover = << >>
  BY <1>1, Filling
<1>3. wm \in Seq(Cell)
  <2>1. Byte \subseteq Cell
    BY DEF Cell
  <2> QED
    BY <1>2, <2>1, SeqMonotonic
<1>4. Ends(wm)
  BY DEF Cutting
<1>5. PktsEndingIn(body') = PktsEndingIn(body) \cup PktsEndingIn(wm)
  <2>1. PktsEndingIn(body \o wm) = PktsEndingIn(body) \cup PktsEndingIn(wm)
    BY <1>2, <1>3, EndingConcat
  <2> QED
    BY <1>1, <2>1
<1>6. InWork = PktsEndingIn(wm)
  BY <1>2, EndingEmpty DEF InWork
<1>7. Ascending(txorder, body')
  <2>1. Ascending(txorder, wm)
    <3> SUFFICES ASSUME NEW i \in 1 .. Len(wm), NEW j \in 1 .. Len(wm), NEW p \in Pkts,
                        NEW q \in Pkts, i < j,
                        wm[i] = <<p, PktLen[p]>>, wm[j] = <<q, PktLen[q]>>
                 PROVE  FALSE
      BY DEF Ascending
    <3>1. i = Len(wm) /\ j = Len(wm)
      BY <1>2, EndingPiece
    <3> QED
      BY <1>2, <3>1
  <2>2. Ascending(txorder, body) /\ Before(txorder, PktsEndingIn(body), PktsEndingIn(wm))
    BY <1>6 DEF PackedInOrder
  <2>3. Ascending(txorder, body \o wm)
    BY <1>2, <1>3, <2>1, <2>2, EndingConcat
  <2> QED
    BY <1>1, <2>3
<1>8. /\ InWork' = PktsEndingIn(wm') \cup PktsEndingIn(leftover')
      /\ PktsEndingIn(body)' = PktsEndingIn(body')
      /\ InSender' = PktsEndingIn(body') \cup InWork'
  BY DEF InWork, InSender, PktsEndingIn
<1>9. PktsEndingIn(leftover') = {}
  BY <1>1, <1>2, EndingEmpty
<1>10. PktsEndingIn(body') = InSender /\ InSender \subseteq Taken
  BY <1>5, <1>6 DEF InSender, PackedInOrder
<1>11. CASE outq # << >> /\ wm' = Top(outq) /\ TakeFromQueue
  <2> DEFINE q == Top(outq)[1][1]
  <2>1. Grows({q}) /\ TakenOnce'
    BY <1>1, <1>11, TakeOrders
  <2>2. PktsEndingIn(wm') = {q}
    BY <1>11, QueuedEnds
  <2> HIDE DEF q
  <2>3. InWork' = {q} /\ InSender' = InSender \cup {q}
    BY <1>8, <1>9, <1>10, <2>2
  <2>4. /\ Taken' = Taken \cup {q} /\ Ascending(txorder', body')
        /\ Before(txorder', PktsEndingIn(body'), {q})
    <3>1. txorder \in Seq(Pkts)
      BY DEF TakenOnce
    <3>2. Before(txorder, PktsEndingIn(body'), {})
      BY DEF Before
    <3> QED
      BY <1>7, <1>10, <2>1, <3>1, <3>2, GrowFacts
  <2>5. PackedInOrder'
    BY <1>8, <1>10, <2>3, <2>4 DEF PackedInOrder
  <2>6. SenderOrders({q})
    BY <1>1, <2>1, <2>3, <2>5 DEF SenderOrders
  <2> QED
    BY <2>6
<1>12. CASE wm' = << >> /\ UNCHANGED <<outq, txorder>>
  <2>1. Grows({}) /\ TakenOnce' /\ Taken' = Taken
    BY <1>1, <1>12, QueueSame
  <2>2. InWork' = {} /\ InSender' = InSender
    BY <1>8, <1>9, <1>10, <1>12, EndingEmpty
  <2>3. PackedInOrder'
    BY <1>7, <1>8, <1>10, <1>12, <2>1, <2>2 DEF PackedInOrder, Before
  <2>4. SenderOrders({})
    BY <1>1, <2>1, <2>2, <2>3 DEF SenderOrders
  <2> QED
    BY <2>4
<1> QED
  BY <1>1, <1>11, <1>12

LEMMA SendOrders ==
    ASSUME Sending, TakenOnce, PackedInOrder, WSend \/ WSendShort
    PROVE  SenderOrders({})
<1> DEFINE o == [seq |-> seq, offset |-> offset, body |-> body]
<1>1. /\ wpc = "send" /\ body' = << >> /\ UNCHANGED <<todo, outq, wm, txorder>>
      /\ \/ net' = Append(net, o) /\ leftover' = leftover
         \/ net' = net /\ leftover' = << >>
  BY DEF WSend, WSendShort, Transmit
<1>2. o \in Outer
  <2>1. /\ seq \in 0 .. SeqMod - 1 /\ offset \in Nat
        /\ Formed(body, offset) /\ Len(body) = Payload
    BY <1>1 DEF Sending, Packing
  <2> QED
    BY <2>1, TransmitOuter
<1>3. o.seq = seq /\ o.body = body
  OBVIOUS
<1> HIDE DEF o
<1>4. Grows({}) /\ TakenOnce' /\ Taken' = Taken
  BY <1>1, QueueSame
<1>5. PktsEndingIn(body') = {} /\ \A t : Ascending(t, body')
  BY <1>1, EndingEmpty, AscendingEmpty
<1>6. /\ InWork' = PktsEndingIn(wm') \cup PktsEndingIn(leftover')
      /\ PktsEndingIn(body)' = PktsEndingIn(body')
      /\ InSender' = PktsEndingIn(body') \cup InWork'
  BY DEF InWork, InSender, PktsEndingIn
<1>7. InWork' \subseteq InWork
  BY <1>1, <1>6, EndingEmpty DEF InWork
<1>8. InSender' \subseteq InWork /\ InWork \subseteq InSender /\ InSender \subseteq Taken
  BY <1>5, <1>6, <1>7 DEF InSender, PackedInOrder
<1>9. PackedInOrder'
  BY <1>4, <1>5, <1>6, <1>8 DEF PackedInOrder, Before
<1>10. net' = Append(net, o) => OrderShip(o)
  <2>1. /\ Ascending(txorder, body) /\ Before(txorder, PktsEndingIn(body), InWork)
        /\ PktsEndingIn(body) \subseteq InSender
    BY DEF PackedInOrder, InSender
  <2>2. Before(txorder, PktsEndingIn(body), InSender')
    BY <1>8, <2>1 DEF Before
  <2> QED
    BY <1>1, <1>3, <2>1, <2>2 DEF OrderShip
<1> QED
  BY <1>1, <1>2, <1>4, <1>8, <1>9, <1>10 DEF SenderOrders

LEMMA EmptyOrders ==
    ASSUME Sending, TakenOnce, PackedInOrder, WEmpty
    PROVE  SenderOrders({})
<1> DEFINE b == Padding(Payload)
           o == [seq |-> seq, offset |-> 0, body |-> b]
<1>1. net' = Append(net, o) /\ UNCHANGED <<todo, outq, wm, leftover, body, txorder>>
  BY DEF WEmpty, Transmit
<1>2. o \in Outer
  <2>1. seq \in 0 .. SeqMod - 1
    BY DEF Sending, Packing
  <2>2. Formed(b, 0) /\ Len(b) = Payload
    <3>1. Payload \in Nat /\ b \in Seq(Cell) /\ Len(b) = Payload /\ \A i \in 1 .. Payload : b[i] = PAD
      BY Sizes, PaddingFacts
    <3> HIDE DEF b
    <3>2. 0 < Payload => 0 + 1 \in 1 .. Payload
      BY <3>1
    <3> QED
      BY <3>1, <3>2 DEF Formed
  <2> QED
    BY <2>1, <2>2, TransmitOuter
<1>3. o.seq = seq /\ o.body = b
  OBVIOUS
<1>4. PktsEndingIn(b) = {} /\ \A t : Ascending(t, b)
  BY EndingPadding, Sizes
<1> HIDE DEF o, b
<1>5. Grows({}) /\ TakenOnce' /\ Taken' = Taken
  BY <1>1, QueueSame
<1>6. InSender' = InSender /\ InWork' = InWork
  BY <1>1 DEF InSender, InWork
<1>7. PackedInOrder'
  BY <1>1, <1>5, <1>6 DEF PackedInOrder
<1>8. OrderShip(o)
  BY <1>1, <1>3, <1>4 DEF OrderShip, Before
<1> QED
  BY <1>2, <1>5, <1>6, <1>7, <1>8 DEF SenderOrders

LEMMA SenderOrdersStep ==
    ASSUME Sending, Cutting, TakenOnce, PackedInOrder, IngressNext
    PROVE  \E new : SenderOrders(new)
BY IntfOrders, StartOrders, PadOrders, PartialOrders, FullOrders, SendOrders, EmptyOrders
   DEF IngressNext, TfsWriter

\* Whatever anybody does, at most packets newly taken are added to those that end behind
\* outer packet s.
LEMMA LaterStep ==
    ASSUME InFlight, Flow, Flow', NEW s \in Nat, s < seq, NEW new,
           \/ SenderOrders(new)
           \/ Flying' \subseteq Flying /\ InSender' = InSender
    PROVE  Later(s)' \subseteq Later(s) \cup new
<1>1. Later(s)' = InSender' \cup EndsAfter(Flying', s)
  BY DEF Later, EndsAfter, PktsEndingIn
<1>2. InSender' \subseteq InSender \cup new
  BY DEF SenderOrders
<1>3. ASSUME Flying' \subseteq Flying
      PROVE  EndsAfter(Flying', s) \subseteq EndsAfter(Flying, s)
  BY <1>3 DEF EndsAfter
<1>4. net' = net => Flying' \subseteq Flying
  BY DEF Flying
<1>5. ASSUME NEW o \in Outer, OrderShip(o)
      PROVE  EndsAfter(Flying', s) \subseteq EndsAfter(Flying, s) \cup InSender
  <2>1. Flying' = Flying \cup {o}
    <3>1. net' = Append(net, o) /\ net \in Seq(Outer)
      BY <1>5 DEF OrderShip, InFlight
    <3> QED
      BY <3>1, ElemsAppend DEF Flying
  <2>2. PktsEndingIn(o.body) \subseteq InSender
    BY <1>5 DEF OrderShip
  <2> QED
    BY <2>1, <2>2 DEF EndsAfter
<1> QED
  BY <1>1, <1>2, <1>3, <1>4, <1>5 DEF SenderOrders, Later

\* Outer packets in flight stay in order.
LEMMA SentStep ==
    ASSUME InFlight, Flow, Flow', TakenOnce, SentInOrder, seq \in Nat, PackedInOrder, NEW new,
           \/ SenderOrders(new)
           \/ Flying' \subseteq Flying /\ InSender' = InSender /\ Grows(new)
    PROVE  SentInOrder'
<1>1. Grows(new) /\ txorder \in Seq(Pkts)
  BY DEF SenderOrders, TakenOnce
<1>2. Taken' = Taken \cup new
  BY <1>1, GrowFacts
<1>3. \A o \in Flying : o.seq \in Nat
  <2>1. \A o \in Flying : o \in Outer
    BY LenProperties, ElementOfSeq DEF Flying, Elems, InFlight
  <2>2. \A o \in Outer : o.seq \in 0 .. SeqMod - 1
    BY DEF Outer, Outers
  <2> QED
    BY <2>1, <2>2, Sizes
<1>4. ASSUME NEW o \in Flying
      PROVE  /\ Ascending(txorder', o.body) /\ PktsEndingIn(o.body) \subseteq Taken'
             /\ Before(txorder', PktsEndingIn(o.body), Later(o.seq)')
  <2>1. o.seq \in Nat /\ o.seq < seq
    BY <1>3 DEF Flow
  <2>2. Later(o.seq)' \subseteq Later(o.seq) \cup new
    BY <2>1, LaterStep
  <2>3. /\ Ascending(txorder, o.body) /\ PktsEndingIn(o.body) \subseteq Taken
        /\ Before(txorder, PktsEndingIn(o.body), Later(o.seq))
    BY DEF SentInOrder
  <2> QED
    BY <1>1, <1>2, <2>2, <2>3, GrowFacts
<1>5. CASE Flying' \subseteq Flying
  BY <1>4, <1>5 DEF SentInOrder, PktsEndingIn, Later, EndsAfter
<1>6. ASSUME NEW o \in Outer, OrderShip(o)
      PROVE  SentInOrder'
  <2>1. /\ net' = Append(net, o) /\ o.seq = seq /\ txorder' = txorder
        /\ PktsEndingIn(o.body) \subseteq InSender
        /\ Ascending(txorder, o.body) /\ Before(txorder, PktsEndingIn(o.body), InSender')
    BY <1>6 DEF OrderShip
  <2>2. Flying' = Flying \cup {o}
    BY <2>1, ElemsAppend DEF Flying, InFlight
  <2>3. EndsAfter(Flying', seq) = {}
    <3>1. \A x \in Flying' : ~(x.seq > seq)
      <4>1. \A x \in Flying : x.seq < seq /\ x.seq \in Nat
        BY <1>3 DEF Flow
      <4> QED
        BY <2>1, <2>2, <4>1
    <3> QED
      BY <3>1 DEF EndsAfter
  <2>4. PktsEndingIn(o.body) \subseteq Taken'
    BY <1>2, <2>1 DEF PackedInOrder
  <2>5. InSender' \cup EndsAfter(Flying', o.seq) = InSender'
    BY <2>1, <2>3
  <2>6. Before(txorder', PktsEndingIn(o.body), InSender' \cup EndsAfter(Flying', o.seq))
    BY <2>1, <2>5
  <2>7. \A x \in Flying : Later(x.seq)' = InSender' \cup EndsAfter(Flying', x.seq)
    BY DEF Later, EndsAfter, PktsEndingIn
  <2>8. \A x \in Flying' :
          /\ Ascending(txorder', x.body) /\ PktsEndingIn(x.body) \subseteq Taken'
          /\ Before(txorder', PktsEndingIn(x.body), InSender' \cup EndsAfter(Flying', x.seq))
    BY <1>4, <2>1, <2>2, <2>4, <2>6, <2>7
  <2> QED
    BY <2>8 DEF SentInOrder, Later, EndsAfter, PktsEndingIn
<1>7. net' = net => Flying' \subseteq Flying
  BY DEF Flying
<1> QED
  BY <1>5, <1>6, <1>7 DEF SenderOrders

-----------------------------------------------------------------------------
\* The order in which the receiver finishes packets.

\* Whoever leaves the receiver alone, or only shortens what it still has to look at.
LEMMA FinishedSame ==
    ASSUME TakenOnce, FinishedInOrder, NEW new, Grows(new),
           rxorder' = rxorder, tb' = tb \/ tb' = << >>,
           Later(newest)' \subseteq Later(newest) \cup new
    PROVE  FinishedInOrder'
<1>1. txorder \in Seq(Pkts)
  BY DEF TakenOnce
<1>2. /\ Taken' = Taken \cup new
      /\ \A x, y : Prec(txorder, x, y) => Prec(txorder', x, y)
      /\ \A b : Ascending(txorder, b) => Ascending(txorder', b)
      /\ \A A, B, C : A \subseteq Taken /\ Before(txorder, A, B) /\ C \subseteq B \cup new
                        => Before(txorder', A, C)
  BY <1>1, GrowFacts
<1>3. /\ rxorder \in Seq(Pkts) /\ Done \subseteq Taken
      /\ \A i, j \in 1 .. Len(rxorder) : i < j => Prec(txorder, rxorder[i], rxorder[j])
      /\ Ascending(txorder, tb) /\ PktsEndingIn(tb) \subseteq Taken
      /\ Before(txorder, Done, PktsEndingIn(tb) \cup Later(newest))
      /\ Before(txorder, PktsEndingIn(tb), Later(newest))
  BY DEF FinishedInOrder
<1>4. Done' = Done
  BY DEF Done, Elems
<1>5. Ascending(txorder, tb') /\ PktsEndingIn(tb') \subseteq PktsEndingIn(tb)
  BY <1>3, EndingEmpty, AscendingEmpty
<1>6. PktsEndingIn(tb)' = PktsEndingIn(tb')
  BY DEF PktsEndingIn
<1>7. PktsEndingIn(tb') \cup Later(newest)' \subseteq PktsEndingIn(tb) \cup Later(newest) \cup new
  BY <1>5
<1>8. Before(txorder', Done, PktsEndingIn(tb') \cup Later(newest)')
  BY <1>2, <1>3, <1>7
<1>9. Before(txorder', PktsEndingIn(tb'), Later(newest)')
  <2>1. Before(txorder', PktsEndingIn(tb), Later(newest)')
    BY <1>2, <1>3
  <2> QED
    BY <1>5, <2>1 DEF Before
<1>10. \A i, j \in 1 .. Len(rxorder) : i < j => Prec(txorder', rxorder[i], rxorder[j])
  BY <1>2, <1>3
<1>11. Ascending(txorder', tb') /\ PktsEndingIn(tb') \subseteq Taken' /\ Done \subseteq Taken'
  BY <1>2, <1>3, <1>5
<1> QED
  BY <1>3, <1>4, <1>6, <1>8, <1>9, <1>10, <1>11 DEF FinishedInOrder

\* An outer packet is taken.  Its packets come after all that were finished.
LEMMA FinishedTake ==
    ASSUME Sending, Receiving, Flow, Joining, TakenOnce, SentInOrder, FinishedInOrder,
           RTake, ~blind', UNCHANGED invars
    PROVE  FinishedInOrder'
<1> DEFINE o == Head(net)
<1>1. /\ net # << >> /\ net' = Tail(net) /\ tb' = o.body
      /\ newest' = o.seq /\ rpc = "recv" /\ rxorder' = rxorder /\ o.seq > ack.last
      /\ ~(Unnoticed(o.seq) /\ o.seq <= newest)
  BY DEF RTake
<1>2. InFlight /\ net \in Seq(Outer)
  BY DEF Sending, InFlight
<1>3. o.seq \in Nat
  BY <1>1, <1>2, HeadOuter
<1>4. o \in Flying /\ Flying' \subseteq Flying
  BY <1>1, <1>2, ElemsFewer DEF Flying
<1>5. newest' = o.seq /\ tb' = o.body /\ rxorder' = rxorder
  BY <1>1
<1>6. ~(Unnoticed(o.seq) /\ o.seq <= newest) /\ o.seq > ack.last
  BY <1>1
<1> HIDE DEF o
<1>7. o.seq > newest
  <2>1. o.seq # 0
    BY <1>4 DEF Flow
  <2>2. newest \in Nat /\ ack.last \in {0, newest}
    BY DEF Joining
  <2> QED
    BY <1>3, <1>6, <2>1, <2>2 DEF Unnoticed
<1>8. /\ Ascending(txorder, o.body) /\ Before(txorder, PktsEndingIn(o.body), Later(o.seq))
      /\ PktsEndingIn(o.body) \subseteq Taken
  BY <1>4 DEF SentInOrder
<1>9. txorder' = txorder /\ InSender' = InSender /\ Taken' = Taken
  BY DEF invars, InSender, InWork, Taken, Elems
<1>10. /\ Later(newest)' = InSender' \cup EndsAfter(Flying', newest')
       /\ PktsEndingIn(tb)' = PktsEndingIn(tb') /\ Done' = Elems(rxorder')
  BY DEF Later, EndsAfter, PktsEndingIn, Done, Elems
<1>11. PktsEndingIn(o.body) \subseteq Later(newest)
  BY <1>4, <1>7 DEF Later, EndsAfter
<1>12. Later(newest)' \subseteq Later(o.seq)
  BY <1>4, <1>5, <1>9, <1>10 DEF Later, EndsAfter
<1>13. Later(o.seq) \subseteq Later(newest)
  <2>1. \A x \in Flying : x.seq > o.seq => x.seq > newest
    <3>1. \A x \in Flying : x.seq \in Nat
      <4>1. \A x \in Flying : x \in Outer
        BY <1>2, LenProperties, ElementOfSeq DEF Flying, Elems
      <4>2. \A x \in Outer : x.seq \in 0 .. SeqMod - 1
        BY DEF Outer, Outers
      <4> QED
        BY <4>1, <4>2, Sizes
    <3>2. newest \in Nat
      BY DEF Joining
    <3> QED
      BY <1>3, <1>7, <3>1, <3>2
  <2> QED
    BY <2>1 DEF Later, EndsAfter
<1>14. /\ rxorder \in Seq(Pkts) /\ Done \subseteq Taken
       /\ \A i, j \in 1 .. Len(rxorder) : i < j => Prec(txorder, rxorder[i], rxorder[j])
       /\ Before(txorder, Done, PktsEndingIn(tb) \cup Later(newest))
  BY DEF FinishedInOrder
<1>15. Before(txorder, Done, PktsEndingIn(o.body) \cup Later(newest)')
  BY <1>11, <1>12, <1>13, <1>14 DEF Before
<1>16. Before(txorder, PktsEndingIn(o.body), Later(newest)')
  BY <1>8, <1>12 DEF Before
<1>17. Done' = Done
  BY <1>5, <1>10 DEF Done
<1> QED
  BY <1>5, <1>8, <1>9, <1>10, <1>14, <1>15, <1>16, <1>17 DEF FinishedInOrder

\* No packet comes before itself.
LEMMA NotBefore ==
    ASSUME TakenOnce, NEW p
    PROVE  ~Prec(txorder, p, p)
BY DEF TakenOnce, Prec

\* An inner packet is finished: it comes after those finished before, and before what is
\* left of the outer packet and all the others.
LEMMA FinishedOne ==
    ASSUME Receiving, TakenOnce, FinishedInOrder, NEW p \in Pkts, NEW n \in 1 .. Len(tb),
           Finishes(p, n), txorder' = txorder, Later(newest)' \subseteq Later(newest)
    PROVE  FinishedInOrder' /\ Done' = Done \cup {p} /\ p \notin Done
<1>1. /\ tb[n] = <<p, PktLen[p]>> /\ rxorder' = Append(rxorder, p)
      /\ tb' = Drop(tb, n) \/ tb' = << >>
  BY DEF Finishes, OuterDone
<1>2. tb \in Seq(Cell)
  BY DEF Receiving
<1>3. /\ rxorder \in Seq(Pkts) /\ Done \subseteq Taken
      /\ \A i, j \in 1 .. Len(rxorder) : i < j => Prec(txorder, rxorder[i], rxorder[j])
      /\ Ascending(txorder, tb) /\ PktsEndingIn(tb) \subseteq Taken
      /\ Before(txorder, Done, PktsEndingIn(tb) \cup Later(newest))
      /\ Before(txorder, PktsEndingIn(tb), Later(newest))
  BY DEF FinishedInOrder
<1>4. /\ PktsEndingIn(Drop(tb, n)) \subseteq PktsEndingIn(tb) /\ p \in PktsEndingIn(tb)
      /\ Ascending(txorder, Drop(tb, n)) /\ Before(txorder, {p}, PktsEndingIn(Drop(tb, n)))
  BY <1>1, <1>2, <1>3, EndingDrop
<1>5. /\ PktsEndingIn(tb') \subseteq PktsEndingIn(tb)
      /\ Ascending(txorder, tb') /\ Before(txorder, {p}, PktsEndingIn(tb'))
  BY <1>1, <1>4, EndingEmpty, AscendingEmpty DEF Before
<1>6. p \notin Done
  BY <1>3, <1>4, NotBefore DEF Before
<1>7. rxorder' \in Seq(Pkts) /\ Done' = Done \cup {p}
  <2>1. rxorder' \in Seq(Pkts)
    BY <1>1, <1>3, AppendFacts
  <2>2. Elems(Append(rxorder, p)) = Elems(rxorder) \cup {p}
    BY <1>3, ElemsAppend
  <2>3. Done' = Elems(rxorder')
    BY DEF Done, Elems
  <2> QED
    BY <1>1, <2>1, <2>2, <2>3 DEF Done
<1>8. \A i, j \in 1 .. Len(rxorder') : i < j => Prec(txorder, rxorder'[i], rxorder'[j])
  <2> DEFINE k == Len(rxorder)
  <2>1. /\ k \in Nat /\ Len(rxorder') = k + 1 /\ rxorder'[k + 1] = p
        /\ \A i \in 1 .. k : rxorder'[i] = rxorder[i]
    BY <1>1, <1>3, AppendFacts
  <2>2. \A i \in 1 .. k : Prec(txorder, rxorder[i], p)
    <3>1. DOMAIN rxorder = 1 .. k
      BY <1>3, LenProperties
    <3>2. \A i \in 1 .. k : rxorder[i] \in Done
      BY <3>1 DEF Done, Elems
    <3> QED
      BY <1>3, <1>4, <3>2 DEF Before
  <2> HIDE DEF k
  <2>3. \A i, j \in 1 .. k + 1 : i < j => i \in 1 .. k /\ (j \in 1 .. k \/ j = k + 1)
    BY <2>1
  <2>4. \A i, j \in 1 .. k : i < j => Prec(txorder, rxorder[i], rxorder[j])
    BY <1>3 DEF k
  <2> QED
    <3> SUFFICES ASSUME NEW i \in 1 .. k + 1, NEW j \in 1 .. k + 1, i < j
                 PROVE  Prec(txorder, rxorder'[i], rxorder'[j])
      BY <2>1
    <3>1. i \in 1 .. k /\ (j \in 1 .. k \/ j = k + 1)
      BY <2>3
    <3> QED
      BY <2>1, <2>2, <2>4, <3>1
<1>9. Before(txorder, Done', PktsEndingIn(tb') \cup Later(newest)')
  BY <1>3, <1>4, <1>5, <1>7 DEF Before
<1>10. Before(txorder, PktsEndingIn(tb'), Later(newest)')
  BY <1>3, <1>5 DEF Before
<1>11. Taken' = Taken /\ PktsEndingIn(tb)' = PktsEndingIn(tb')
  BY DEF Taken, Elems, PktsEndingIn
<1>12. PktsEndingIn(tb') \subseteq Taken' /\ Done' \subseteq Taken'
  BY <1>3, <1>4, <1>5, <1>7, <1>11
<1>13. FinishedInOrder'
  BY <1>5, <1>7, <1>8, <1>9, <1>10, <1>11, <1>12 DEF FinishedInOrder
<1> QED
  BY <1>6, <1>7, <1>13

\* The bytes of a packet tell which one it is.
LEMMA BytesDiffer ==
    ASSUME NEW p \in Pkts, NEW q \in Pkts, Bytes(p) = Bytes(q)
    PROVE  p = q
<1>1. 1 \in 1 .. PktLen[p] /\ 1 \in 1 .. PktLen[q]
  BY Sizes
<1>2. Bytes(p)[1] = <<p, 1>> /\ Bytes(q)[1] = <<q, 1>>
  BY <1>1 DEF Bytes
<1> QED
  BY <1>2

LEMMA WrittenFinish ==
    ASSUME Written, rxorder \in Seq(Pkts), NEW p \in Pkts, p \notin Done, Done' = Done \cup {p},
           iovoutq' = Append(iovoutq, Bytes(p)), delivered' = delivered
    PROVE  Written'
<1> DEFINE S == {Bytes(q) : q \in Done}
           T == {Bytes(q) : q \in Done'}
           n == Len(iovoutq)
<1>1. /\ iovoutq \in Seq(S) /\ delivered \in Seq(S) /\ S \subseteq T /\ Bytes(p) \in T
      /\ \A i, j \in 1 .. n : iovoutq[i] = iovoutq[j] => i = j
      /\ \A i \in 1 .. Len(delivered), j \in 1 .. n : delivered[i] # iovoutq[j]
  BY DEF Written
<1>2. iovoutq \in Seq(T) /\ delivered \in Seq(T)
  BY <1>1, SeqMonotonic
<1>3. Bytes(p) \notin S
  <2>1. Done \subseteq Pkts
    BY ElemsIn DEF Done
  <2> QED
    BY <2>1, BytesDiffer
<1>4. /\ \A i \in 1 .. n : iovoutq[i] # Bytes(p)
      /\ \A i \in 1 .. Len(delivered) : delivered[i] # Bytes(p)
  <2>1. \A i \in 1 .. n : iovoutq[i] \in S
    BY <1>1, ElementOfSeq
  <2>2. \A i \in 1 .. Len(delivered) : delivered[i] \in S
    BY <1>1, ElementOfSeq
  <2> HIDE DEF S
  <2> QED
    BY <1>3, <2>1, <2>2
<1> HIDE DEF S, T
<1>5. /\ n \in Nat /\ Len(iovoutq') = n + 1 /\ iovoutq'[n + 1] = Bytes(p) /\ iovoutq' \in Seq(T)
      /\ \A i \in 1 .. n : iovoutq'[i] = iovoutq[i]
  BY <1>1, <1>2, AppendFacts
<1>6. \A i \in 1 .. n + 1 : i \in 1 .. n \/ i = n + 1
  BY <1>5
<1> HIDE DEF n
<1>7. \A i, j \in 1 .. n + 1 : iovoutq'[i] = iovoutq'[j] => i = j
  BY <1>1, <1>4, <1>5, <1>6
<1>8. \A i \in 1 .. Len(delivered), j \in 1 .. n + 1 : delivered[i] # iovoutq'[j]
  BY <1>1, <1>4, <1>5, <1>6
<1> QED
  BY <1>2, <1>5, <1>7, <1>8 DEF Written, T

LEMMA WrittenSame ==
    ASSUME Written, UNCHANGED <<rxorder, iovoutq, delivered>>
    PROVE  Written'
<1>1. Done' = Done
  BY DEF Done, Elems
<1> QED
  BY <1>1 DEF Written

\* What is written to the interface was not written before.
LEMMA WrittenWrite ==
    ASSUME Written, WriteIntf
    PROVE  /\ Written'
           /\ \E p \in Done : /\ \A i \in 1 .. Len(delivered) : delivered[i] # Bytes(p)
                              /\ delivered' = Append(delivered, Bytes(p))
<1> DEFINE S == {Bytes(q) : q \in Done}
           n == Len(iovoutq)
           x == iovoutq[n]
<1>1. /\ iovoutq \in Seq(S) /\ delivered \in Seq(S)
      /\ \A i, j \in 1 .. n : iovoutq[i] = iovoutq[j] => i = j
      /\ \A i \in 1 .. Len(delivered), j \in 1 .. n : delivered[i] # iovoutq[j]
  BY DEF Written
<1>2. /\ iovoutq # << >> /\ delivered' = Append(delivered, x)
      /\ iovoutq' = SubSeq(iovoutq, 1, n - 1) /\ rxorder' = rxorder
  BY DEF WriteIntf, Top, Below, history
<1>3. Done' = Done
  BY <1>2 DEF Done, Elems
<1> HIDE DEF S
<1>4. n \in Nat /\ n # 0
  BY <1>1, <1>2, EmptyLen
<1>5. n - 1 \in 0 .. n /\ n \in 1 .. n /\ \A i \in 1 .. n - 1 : i \in 1 .. n /\ i # n
  BY <1>4
<1>6. iovoutq' \in Seq(S) /\ Len(iovoutq') = n - 1 /\ \A i \in 1 .. n - 1 : iovoutq'[i] = iovoutq[i]
  <2>1. iovoutq \in Seq(S) /\ n - 1 \in 0 .. Len(iovoutq)
    BY <1>1, <1>5
  <2>2. /\ SubSeq(iovoutq, 1, n - 1) \in Seq(S) /\ Len(SubSeq(iovoutq, 1, n - 1)) = n - 1
        /\ \A i \in 1 .. n - 1 : SubSeq(iovoutq, 1, n - 1)[i] = iovoutq[i]
    <3> HIDE DEF n
    <3> QED
      BY <2>1, TakeFacts, Zenon
  <2> QED
    BY <1>2, <2>2
<1>7. x \in S
  BY <1>1, <1>5, ElementOfSeq
<1> HIDE DEF n, x
<1> DEFINE k == Len(delivered)
<1>8. /\ k \in Nat /\ Len(delivered') = k + 1 /\ delivered'[k + 1] = x /\ delivered' \in Seq(S)
      /\ \A i \in 1 .. k : delivered'[i] = delivered[i]
  BY <1>1, <1>2, <1>7, AppendFacts
<1>9. \A i \in 1 .. k + 1 : i \in 1 .. k \/ i = k + 1
  BY <1>8
<1>10. x = iovoutq[n]
  BY DEF x
<1>11. \A i \in 1 .. k : delivered[i] # x
  BY <1>1, <1>5, <1>10 DEF n
<1>12. \A i, j \in 1 .. n : iovoutq[i] = iovoutq[j] => i = j
  BY <1>1 DEF n
<1>13. \A i \in 1 .. k, j \in 1 .. n : delivered[i] # iovoutq[j]
  BY <1>1 DEF n
<1> HIDE DEF k
<1>14. \A i, j \in 1 .. n - 1 : iovoutq'[i] = iovoutq'[j] => i = j
  BY <1>5, <1>6, <1>12
<1>15. \A i \in 1 .. k + 1, j \in 1 .. n - 1 : delivered'[i] # iovoutq'[j]
  <2> SUFFICES ASSUME NEW i \in 1 .. k + 1, NEW j \in 1 .. n - 1
               PROVE  delivered'[i] # iovoutq'[j]
    OBVIOUS
  <2>1. j \in 1 .. n /\ j # n /\ n \in 1 .. n /\ iovoutq'[j] = iovoutq[j]
    BY <1>5, <1>6
  <2>2. iovoutq[j] # x
    BY <1>10, <1>12, <2>1
  <2> QED
    BY <1>8, <1>9, <1>13, <2>1, <2>2
<1>16. Written'
  BY <1>3, <1>6, <1>8, <1>14, <1>15 DEF Written, S
<1>17. PICK p \in Done : x = Bytes(p)
  BY <1>7 DEF S
<1> QED
  BY <1>2, <1>11, <1>16, <1>17 DEF k

-----------------------------------------------------------------------------
\* The tunnel is a packet pipe.

LEMMA OrderInit == Init => OInv
<1> SUFFICES ASSUME Init PROVE OInv
  OBVIOUS
<1>1. NetInit /\ IngressInit /\ ReassemblyInit
  BY DEF Init
<1>2. Len(<< >>) = 0 /\ 1 .. 0 = {} /\ DOMAIN << >> = {} /\ \A S : << >> \in Seq(S)
  BY EmptySeq, LenProperties
<1>3. Taken = {} /\ Done = {} /\ Flying = {}
  BY <1>1, <1>2 DEF Taken, Done, Flying, Elems, NetInit, IngressInit, ReassemblyInit
<1>4. InWork = {} /\ InSender = {} /\ PktsEndingIn(body) = {} /\ PktsEndingIn(tb) = {}
  BY <1>1, EndingEmpty DEF InWork, InSender, IngressInit, ReassemblyInit
<1>5. Ascending(txorder, body) /\ Ascending(txorder, tb)
  BY <1>1, AscendingEmpty DEF IngressInit, ReassemblyInit
<1>6. TakenOnce
  BY <1>1, <1>2, <1>3 DEF TakenOnce, IngressInit
<1>7. PackedInOrder
  BY <1>4, <1>5 DEF PackedInOrder, Before
<1>8. SentInOrder
  BY <1>3 DEF SentInOrder
<1>9. FinishedInOrder
  BY <1>1, <1>2, <1>3, <1>4, <1>5 DEF FinishedInOrder, Before, ReassemblyInit
<1>10. Written
  BY <1>1, <1>2 DEF Written, ReassemblyInit
<1> QED
  BY <1>6, <1>7, <1>8, <1>9, <1>10 DEF OInv

\* A step of the receiver.
LEMMA FinishedStep ==
    ASSUME IInv, Flow, Joining, TakenOnce, SentInOrder, FinishedInOrder, Written,
           ReassemblyNext, UNCHANGED invars, ~blind', Flow'
    PROVE  FinishedInOrder' /\ Written'
<1>1. Sending /\ InFlight /\ Receiving
  BY DEF IInv, Sending
<1>2. txorder' = txorder /\ InSender' = InSender /\ Grows({})
  BY DEF invars, InSender, InWork, Grows
<1>3. Flying' \subseteq Flying
  BY <1>1, ReceiverFlying
<1>4. newest' = newest => Later(newest)' \subseteq Later(newest) \cup {}
  <2>1. newest \in Nat /\ newest < seq
    BY DEF Joining
  <2>2. Later(newest)' = InSender' \cup EndsAfter(Flying', newest')
    BY DEF Later, EndsAfter, PktsEndingIn
  <2> QED
    BY <1>2, <1>3, <2>2 DEF Later, EndsAfter
<1>5. CASE RTop \/ RLimited \/ ROld
  <2>1. UNCHANGED <<rxorder, iovoutq, delivered, tb, newest>>
    BY <1>5 DEF RTop, RLimited, ROld, history
  <2> QED
    BY <1>2, <1>4, <2>1, FinishedSame, WrittenSame
<1>6. CASE RTake
  <2>1. UNCHANGED <<rxorder, iovoutq, delivered>>
    BY <1>6 DEF RTake
  <2> QED
    BY <1>1, <1>6, <2>1, FinishedTake, WrittenSame
<1>7. CASE AddSkip \/ AddStart \/ AddMore \/ AddTail
  <2>1. AddDoes
    BY <1>1, <1>7, AddStepDoes
  <2>2. UNCHANGED <<newest, delivered>>
    BY <1>7 DEF AddSkip, AddStart, AddMore, AddTail, history
  <2>3. CASE UsesUp
    <3>1. tb' = << >> /\ UNCHANGED <<iovoutq, rxorder>>
      BY <2>3 DEF UsesUp, OuterDone
    <3> QED
      BY <1>2, <1>4, <2>2, <3>1, FinishedSame, WrittenSame
  <2>4. ASSUME NEW p \in Pkts, NEW n \in 1 .. Len(tb), Finishes(p, n)
        PROVE  FinishedInOrder' /\ Written'
    <3>1. Later(newest)' \subseteq Later(newest)
      BY <1>4, <2>2
    <3>2. FinishedInOrder' /\ Done' = Done \cup {p} /\ p \notin Done
      BY <1>1, <1>2, <2>4, <3>1, FinishedOne
    <3>3. iovoutq' = Append(iovoutq, Bytes(p)) /\ rxorder \in Seq(Pkts)
      BY <2>4 DEF Finishes, FinishedInOrder
    <3>4. Written'
      BY <2>2, <3>2, <3>3, WrittenFinish
    <3> QED
      BY <3>2, <3>4
  <2> QED
    BY <2>1, <2>3, <2>4 DEF AddDoes
<1>8. CASE WriteIntf
  <2>1. UNCHANGED <<rxorder, tb, newest>>
    BY <1>8 DEF WriteIntf, history
  <2>2. Written'
    BY <1>8, WrittenWrite
  <2> QED
    BY <1>2, <1>4, <2>1, <2>2, FinishedSame
<1> QED
  BY <1>5, <1>6, <1>7, <1>8 DEF ReassemblyNext, TfsReader

LEMMA OrderStep == IInv /\ JInv /\ JInv' /\ OInv /\ [Next]_vars => OInv'
<1> SUFFICES ASSUME IInv, JInv, JInv', OInv, [Next]_vars PROVE OInv'
  OBVIOUS
<1>1. Sending /\ InFlight /\ Receiving /\ seq \in Nat
  BY Sizes DEF IInv, Sending, Packing
<1>2. Cutting /\ Flow /\ Flow' /\ (~blind => Joining)
  BY DEF JInv
<1>3. TakenOnce /\ PackedInOrder /\ SentInOrder /\ (~blind => FinishedInOrder /\ Written)
  BY DEF OInv
<1>4. ASSUME UNCHANGED outvars, NEW new, Grows(new),
             \/ SenderOrders(new)
             \/ Flying' \subseteq Flying /\ InSender' = InSender
      PROVE  ~blind' => FinishedInOrder' /\ Written'
  <2>1. UNCHANGED <<rxorder, iovoutq, delivered, tb, newest, blind>>
    BY <1>4 DEF outvars
  <2> SUFFICES ASSUME ~blind PROVE FinishedInOrder' /\ Written'
    BY <2>1
  <2>2. newest \in Nat /\ newest < seq
    BY <1>2 DEF Joining
  <2> DEFINE s == newest
  <2>3. InSender' \cup EndsAfter(Flying', s) \subseteq Later(s) \cup new
    <3>1. ASSUME NEW r \in Nat, r < seq
          PROVE  InSender' \cup EndsAfter(Flying', r) \subseteq Later(r) \cup new
      <4>1. Later(r)' \subseteq Later(r) \cup new
        BY <1>1, <1>2, <1>4, <3>1, LaterStep
      <4>2. Later(r)' = InSender' \cup EndsAfter(Flying', r)
        BY DEF Later, EndsAfter, PktsEndingIn
      <4> QED
        BY <4>1, <4>2
    <3> QED
      BY <2>2, <3>1
  <2>4. Later(newest)' \subseteq Later(newest) \cup new
    <3>1. Later(newest)' = InSender' \cup EndsAfter(Flying', newest')
      BY DEF Later, EndsAfter, PktsEndingIn
    <3> QED
      BY <2>1, <2>3, <3>1
  <2> QED
    BY <1>3, <1>4, <2>1, <2>4, FinishedSame, WrittenSame
<1>5. CASE IngressNext /\ UNCHANGED outvars
  <2>1. PICK new : SenderOrders(new)
    BY <1>1, <1>2, <1>3, <1>5, SenderOrdersStep
  <2>2. TakenOnce' /\ PackedInOrder' /\ Grows(new)
    BY <2>1 DEF SenderOrders
  <2>3. SentInOrder'
    BY <1>1, <1>2, <1>3, <2>1, SentStep
  <2>4. ~blind' => FinishedInOrder' /\ Written'
    BY <1>4, <1>5, <2>1, <2>2
  <2> QED
    BY <2>2, <2>3, <2>4 DEF OInv
<1>6. ASSUME UNCHANGED invars, Flying' \subseteq Flying
      PROVE  /\ TakenOnce' /\ PackedInOrder' /\ SentInOrder'
             /\ Grows({}) /\ InSender' = InSender
  <2>1. UNCHANGED <<todo, outq, txorder, wm, leftover, body>>
    BY <1>6 DEF invars
  <2>2. Grows({}) /\ TakenOnce' /\ Taken' = Taken
    BY <1>3, <2>1, QueueSame
  <2>3. InSender' = InSender /\ InWork' = InWork
    BY <2>1 DEF InSender, InWork
  <2>4. PackedInOrder'
    BY <1>3, <2>1, <2>2, <2>3 DEF PackedInOrder
  <2>5. SentInOrder'
    BY <1>1, <1>2, <1>3, <1>6, <2>2, <2>3, SentStep
  <2> QED
    BY <2>2, <2>3, <2>4, <2>5
<1>7. CASE ReassemblyNext /\ UNCHANGED invars
  <2>1. Flying' \subseteq Flying
    BY <1>1, <1>7, ReceiverFlying
  <2>2. TakenOnce' /\ PackedInOrder' /\ SentInOrder'
    BY <1>6, <1>7, <2>1
  <2>3. blind => blind'
    BY <1>7 DEF ReassemblyNext, TfsReader, RTop, RLimited, ROld, RTake, AddSkip, AddStart,
                AddMore, AddTail, WriteIntf, history
  <2>4. ~blind' => FinishedInOrder' /\ Written'
    BY <1>2, <1>3, <1>7, <2>3, FinishedStep
  <2> QED
    BY <2>2, <2>4 DEF OInv
<1>8. CASE (NetNext \/ UNCHANGED netvars) /\ UNCHANGED <<invars, outvars>>
  <2>1. Flying' \subseteq Flying
    BY <1>1, <1>8, NetFlying DEF Flying, netvars
  <2>2. /\ TakenOnce' /\ PackedInOrder' /\ SentInOrder' /\ Grows({}) /\ InSender' = InSender
    BY <1>6, <1>8, <2>1
  <2>3. ~blind' => FinishedInOrder' /\ Written'
    BY <1>4, <1>8, <2>1, <2>2
  <2> QED
    BY <2>2, <2>3 DEF OInv
<1> QED
  BY <1>5, <1>7, <1>8 DEF Next, vars

LEMMA OrderInvariance == Spec /\ []NoWrap => []OInv
<1>1. IInv /\ JInv /\ JInv' /\ OInv /\ [Next]_vars => OInv'
  BY OrderStep
<1> QED
  BY <1>1, OrderInit, SoundInvariance, TunnelInvariance, PTL DEF Spec

\* What a step does to the packets that went in and those that came out.
LEMMA PipeStep == IInv /\ OInv /\ [Next]_vars => [Pipe!Next \/ blind]_<<todo, delivered>>
<1> SUFFICES ASSUME IInv, OInv, [Next]_vars PROVE [Pipe!Next \/ blind]_<<todo, delivered>>
  OBVIOUS
<1>1. CASE IntfRead /\ UNCHANGED outvars
  <2>1. PICK p \in todo : todo' = todo \ {p}
    BY <1>1 DEF IntfRead
  <2>2. delivered' = delivered /\ todo \subseteq Pkts
    BY <1>1 DEF outvars, IInv, Counting
  <2>3. p \in Pkts \ (Pkts \ todo) /\ Pkts \ todo' = (Pkts \ todo) \cup {p}
    BY <2>1, <2>2
  <2> QED
    BY <2>2, <2>3 DEF Pipe!Next, Pipe!Enter
<1>2. CASE WriteIntf /\ UNCHANGED invars
  <2> SUFFICES ASSUME ~blind PROVE Pipe!Next
    OBVIOUS
  <2>1. Written /\ Taken \cap todo = {} /\ Done \subseteq Taken /\ rxorder \in Seq(Pkts)
    BY DEF OInv, TakenOnce, FinishedInOrder
  <2>2. PICK p \in Done : /\ \A i \in 1 .. Len(delivered) : delivered[i] # Bytes(p)
                          /\ delivered' = Append(delivered, Bytes(p))
    BY <1>2, <2>1, WrittenWrite
  <2>3. p \in Pkts \ todo
    <3>1. Done \subseteq Pkts
      BY <2>1, ElemsIn DEF Done
    <3> QED
      BY <2>1, <3>1
  <2>4. DOMAIN delivered = 1 .. Len(delivered)
    BY <2>1, LenProperties DEF Written
  <2>5. todo' = todo
    BY <1>2 DEF invars
  <2> QED
    BY <2>2, <2>3, <2>4, <2>5 DEF Pipe!Next, Pipe!Leave
<1>3. CASE UNCHANGED <<todo, delivered>>
  BY <1>3
<1>4. IngressNext /\ UNCHANGED outvars => IntfRead \/ UNCHANGED <<todo, delivered>>
  BY DEF IngressNext, IntfReader, IntfPop, IntfReadError, IntfReadZero, TfsWriter, WStartLeftover,
         WStartNew, WEmpty, WPad, WPartial, WFull, WSend, WSendShort, outvars
<1>5. ReassemblyNext /\ UNCHANGED invars => WriteIntf \/ UNCHANGED <<todo, delivered>>
  BY DEF ReassemblyNext, TfsReader, RTop, RLimited, ROld, RTake, AddSkip, AddStart, AddMore,
         AddTail, invars
<1>6. UNCHANGED <<invars, outvars>> => UNCHANGED <<todo, delivered>>
  BY DEF invars, outvars
<1> QED
  BY <1>1, <1>2, <1>3, <1>4, <1>5, <1>6 DEF Next, vars

LEMMA PipeInit == Init => Pipe!Init
BY DEF Init, IngressInit, ReassemblyInit, Pipe!Init

\* What comes out of the tunnel went in, and comes out once and unchanged, as long as the
\* receiver did not take the first outer packet after a report for the wrong one.
THEOREM PipeUntilBlind == Spec /\ []NoWrap => PipeUnlessBlind
<1>1. IInv /\ OInv /\ [Next]_vars => [Pipe!Next \/ blind]_<<todo, delivered>>
  BY PipeStep
<1> QED
  BY <1>1, PipeInit, OrderInvariance, TunnelInvariance, PTL DEF Spec, PipeUnlessBlind

\* Without reports, as in one-packet mode, the tunnel implements a packet pipe.
THEOREM TunnelIsPipe == ~UseAcks => (Spec /\ []NoWrap => ImplementsPipe)
<1> SUFFICES ASSUME ~UseAcks PROVE Spec /\ []NoWrap => ImplementsPipe
  OBVIOUS
<1>1. IInv /\ JInv /\ OInv /\ [Next]_vars => [Pipe!Next]_<<Pkts \ todo, delivered>>
  <2>1. JInv => ~blind
    BY DEF JInv
  <2> QED
    BY <2>1, PipeStep
<1>2. Init => Pipe!Init
  BY PipeInit
<1> QED
  BY <1>1, <1>2, SoundInvariance, OrderInvariance, TunnelInvariance, PTL
     DEF Spec, ImplementsPipe, Pipe!Spec

\* Inner packets are finished in the order in which the sender took them from its queue,
\* whatever gets lost, repeated or reordered in between.
THEOREM FinishedInSendersOrder == Spec /\ []NoWrap => [](~blind => CompletedInOrder)
<1>1. ASSUME TakenOnce, FinishedInOrder
      PROVE  CompletedInOrder
  <2> DEFINE T == {txorder[k] : k \in DOMAIN txorder}
  <2>1. /\ rxorder \in Seq(Pkts) /\ txorder \in Seq(Pkts)
        /\ DOMAIN rxorder = 1 .. Len(rxorder) /\ DOMAIN txorder = 1 .. Len(txorder)
    BY <1>1, LenProperties DEF TakenOnce, FinishedInOrder
  <2>2. \A i \in 1 .. Len(txorder) : Position(txorder, txorder[i]) = i
    BY <1>1, <2>1 DEF TakenOnce, Position
  <2>3. ASSUME NEW i \in 1 .. Len(rxorder), NEW j \in 1 .. Len(rxorder), i < j
        PROVE  /\ rxorder[i] \in T /\ rxorder[j] \in T
               /\ Position(txorder, rxorder[i]) < Position(txorder, rxorder[j])
    <3>1. Prec(txorder, rxorder[i], rxorder[j])
      BY <1>1, <2>3 DEF FinishedInOrder
    <3>2. PICK k, l \in 1 .. Len(txorder) : k < l /\ txorder[k] = rxorder[i] /\ txorder[l] = rxorder[j]
      BY <3>1 DEF Prec
    <3> QED
      BY <2>1, <2>2, <3>2
  <2> QED
    BY <2>1, <2>3 DEF CompletedInOrder, InOrderOf
<1>2. OInv => (~blind => CompletedInOrder)
  BY <1>1 DEF OInv
<1> QED
  BY <1>2, OrderInvariance, PTL

-----------------------------------------------------------------------------
\* The loss reports.

\* As long as every outer packet that came after a report followed the one before it,
\* what was reported and what the next report will say add up to the numbers between the
\* first and the last one taken that are missing, and what limit() dropped.
Reporting ==
    /\ reported \in Nat
    /\ newest = 0 => accepted = {} /\ reported + ack.ndrop = nlimited
    /\ newest # 0 =>
         \E lo \in accepted :
            /\ newest \in accepted /\ accepted \subseteq lo .. newest
            /\ reported + ack.ndrop = Missing(lo, newest) + nlimited

DInv == (blind => unseen) /\ (~unseen => Reporting) /\ (~Congest => nlimited = 0)

\* A report, an old packet and one that limit() drops change nothing but the two counters.
LEMMA ReportingSame ==
    ASSUME Reporting, UNCHANGED <<newest, accepted>>, NEW d \in Nat, ack.ndrop \in Nat,
           nlimited \in Nat, ack'.ndrop \in Nat, reported' \in Nat, nlimited' = nlimited + d,
           reported' + ack'.ndrop = reported + ack.ndrop + d
    PROVE  Reporting'
<1>1. CASE newest = 0
  BY <1>1 DEF Reporting
<1>2. CASE newest # 0
  <2>1. PICK lo \in accepted : /\ newest \in accepted /\ accepted \subseteq lo .. newest
                               /\ reported + ack.ndrop = Missing(lo, newest) + nlimited
    BY <1>2 DEF Reporting
  <2> DEFINE c == Missing(lo, newest)
             e == Missing(lo, newest)'
  <2>2. e = c
    BY DEF Missing
  <2>3. c \in Int
    <3>1. IsFiniteSet((lo .. newest) \ accepted)
      <4>1. lo \in Int /\ newest \in Int
        BY <2>1
      <4>2. IsFiniteSet(lo .. newest)
        BY <4>1, FS_Interval
      <4> QED
        BY <4>2, FS_Difference
    <3> QED
      BY <3>1, FS_CardinalityType DEF Missing
  <2> HIDE DEF c, e
  <2>4. reported' + ack'.ndrop = e + nlimited'
    <3>1. reported + ack.ndrop = c + nlimited
      BY <2>1 DEF c
    <3>2. reported \in Nat
      BY DEF Reporting
    <3> QED
      BY <2>2, <2>3, <3>1, <3>2
  <2> QED
    BY <1>2, <2>1, <2>4 DEF Reporting, e
<1> QED
  BY <1>1, <1>2

\* A gap adds the numbers that lie in it.
LEMMA ReportingTake ==
    ASSUME Sending, Receiving, Flow, Joining, nlimited \in Nat, Reporting, RTake, ~blind', ~unseen'
    PROVE  Reporting'
<1> DEFINE o == Head(net)
<1>1. /\ net # << >> /\ newest' = o.seq /\ rpc = "recv" /\ o.seq > ack.last
      /\ ~Unnoticed(o.seq) /\ UNCHANGED <<reported, nlimited>>
  BY DEF RTake
<1>2. InFlight /\ net \in Seq(Outer)
  BY DEF Sending, InFlight
<1>3. o.seq \in Nat
  BY <1>1, <1>2, HeadOuter
<1>4. o \in Flying
  BY <1>1, <1>2, ElemsFewer DEF Flying
<1>a. PICK s \in Nat : s = o.seq
  BY <1>3
<1>5. /\ s < SeqMod /\ Missed(s) \in Nat /\ ack'.ndrop = ack.ndrop + Missed(s)
      /\ accepted' = accepted \cup {s}
  BY <1>2, <1>a, TakeAck
<1>6. s # 0 /\ s \in Nat /\ s > ack.last /\ ~Unnoticed(s) /\ newest' = s
  BY <1>1, <1>4, <1>a DEF Flow
<1>7. /\ newest \in Nat /\ ack.last \in {0, newest} /\ ack.ndrop \in Nat /\ reported \in Nat
      /\ SeqMod \in Nat \ {0, 1}
  BY Sizes DEF Joining, Receiving, Acks, Reporting
<1> HIDE DEF o
<1>8. CASE newest = 0
  <2>1. Missed(s) = 0
    BY <1>7, <1>8 DEF Missed, Gap
  <2>2. accepted' = {s}
    BY <1>5, <1>8 DEF Reporting
  <2>3. Missing(s, newest)' = 0
    <3>1. (s .. newest') \ accepted' = {}
      BY <1>6, <2>2
    <3>2. Missing(s, newest)' = Cardinality((s .. newest') \ accepted')
      BY DEF Missing
    <3> QED
      BY <3>1, <3>2, FS_EmptySet
  <2>4. reported' + ack'.ndrop = 0 + nlimited'
    <3>1. reported + ack.ndrop = nlimited
      BY <1>8 DEF Reporting
    <3> QED
      BY <1>1, <1>5, <1>7, <2>1, <3>1
  <2>5. s \in accepted' /\ newest' \in accepted' /\ accepted' \subseteq s .. newest' /\ newest' # 0
    BY <1>6, <2>2
  <2>6. reported' \in Nat
    BY <1>1, <1>7
  <2>7. reported' + ack'.ndrop = Missing(s, newest)' + nlimited'
    BY <2>3, <2>4
  <2> QED
    BY <2>5, <2>6, <2>7 DEF Reporting, Missing
<1>9. CASE newest # 0
  <2>1. PICK lo \in accepted : /\ newest \in accepted /\ accepted \subseteq lo .. newest
                               /\ reported + ack.ndrop = Missing(lo, newest) + nlimited
    BY <1>9 DEF Reporting
  <2>2. lo \in Nat
    <3>1. accepted \subseteq Nat
      BY <1>7 DEF Receiving
    <3> QED
      BY <2>1, <3>1
  <2>3. newest < s /\ Missed(s) = s - (newest + 1)
    <3>1. CASE ack.last = 0
      <4>1. s = newest + 1
        BY <1>6, <1>9, <3>1 DEF Unnoticed
      <4>2. Missed(s) = 0
        BY <3>1 DEF Missed, Gap
      <4> QED
        BY <1>7, <4>1, <4>2
    <3>2. CASE ack.last = newest
      <4>1. newest < s /\ newest + 1 <= s /\ s < SeqMod
        BY <1>5, <1>6, <1>7, <3>2
      <4>2. (newest + 1) % SeqMod = newest + 1
        BY <1>6, <1>7, <4>1
      <4>3. Gap(s) <=> s # newest + 1
        BY <1>9, <3>2, <4>2 DEF Gap
      <4> QED
        BY <1>6, <1>7, <3>2, <4>1, <4>3 DEF Missed
    <3> QED
      BY <1>7, <3>1, <3>2
  <2> DEFINE c == Missing(lo, newest)
             e == Cardinality((lo .. s) \ (accepted \cup {s}))
  <2>4. e = c + (s - (newest + 1)) /\ c \in Nat
    BY <1>6, <1>7, <2>1, <2>2, <2>3, MissingStep DEF Missing
  <2>5. Missing(lo, newest)' = e
    <3>1. Missing(lo, newest)' = Cardinality((lo .. newest') \ accepted')
      BY DEF Missing
    <3> QED
      BY <1>5, <1>6, <3>1
  <2>6. reported + ack.ndrop = c + nlimited
    BY <2>1
  <2> HIDE DEF c, e
  <2>7. reported' + ack'.ndrop = e + nlimited'
    BY <1>1, <1>5, <1>6, <1>7, <2>3, <2>4, <2>6
  <2>8. lo \in accepted' /\ newest' \in accepted' /\ accepted' \subseteq lo .. newest' /\ newest' # 0
    <3>1. lo <= newest
      BY <2>1
    <3> QED
      BY <1>5, <1>6, <1>7, <2>1, <2>2, <2>3, <3>1
  <2>9. reported' \in Nat
    BY <1>1, <1>7
  <2>10. reported' + ack'.ndrop = Missing(lo, newest)' + nlimited'
    BY <2>5, <2>7
  <2> QED
    BY <2>8, <2>9, <2>10 DEF Reporting, Missing
<1> QED
  BY <1>8, <1>9

LEMMA ReportStep == IInv /\ JInv /\ DInv /\ [Next]_vars => DInv'
<1> SUFFICES ASSUME IInv, JInv, DInv, [Next]_vars PROVE DInv'
  OBVIOUS
<1>1. /\ Sending /\ InFlight /\ Receiving /\ nlimited \in Nat
      /\ ack.ndrop \in Nat /\ ack \in Acks
  BY DEF IInv, Sending, Losses, Receiving, Acks
<1>2. Flow /\ (~blind => Joining)
  BY DEF JInv
<1>3. (blind => unseen) /\ (~unseen => Reporting) /\ (~Congest => nlimited = 0)
  BY DEF DInv
<1>4. ASSUME UNCHANGED <<newest, accepted, unseen, blind, nlimited>>,
             reported \in Nat => reported' \in Nat /\ ack'.ndrop \in Nat
                                 /\ reported' + ack'.ndrop = reported + ack.ndrop
      PROVE  DInv'
  <2>1. ASSUME Reporting PROVE Reporting'
    <3>1. reported \in Nat
      BY <2>1 DEF Reporting
    <3>2. reported' \in Nat /\ ack'.ndrop \in Nat
          /\ reported' + ack'.ndrop = reported + ack.ndrop + 0 /\ nlimited' = nlimited + 0
      BY <1>1, <1>4, <3>1
    <3> QED
      BY <1>1, <1>4, <2>1, <3>2, ReportingSame
  <2> QED
    BY <1>3, <1>4, <2>1 DEF DInv
<1>5. CASE UNCHANGED outvars
  <2>1. UNCHANGED <<newest, accepted, unseen, blind, nlimited, reported, ack>>
    BY <1>5 DEF outvars
  <2> QED
    BY <1>1, <1>4, <2>1
<1>6. CASE RTop
  <2>1. UNCHANGED <<newest, accepted, unseen, blind, nlimited>>
    BY <1>6 DEF RTop
  <2>2. \/ UNCHANGED <<ack, reported>>
        \/ reported' = reported + ack.ndrop /\ ack'.ndrop = 0
    BY <1>6 DEF RTop, NoAck
  <2> QED
    BY <1>1, <1>4, <2>1, <2>2
<1>7. CASE RLimited
  <2>1. /\ UNCHANGED <<newest, accepted, unseen, blind, reported>> /\ nlimited' = nlimited + 1
        /\ Congest /\ ack' = [ack EXCEPT !.ndrop = @ + 1]
    BY <1>7 DEF RLimited
  <2>2. ack'.ndrop = ack.ndrop + 1
    BY <1>1, <2>1 DEF Acks
  <2>3. ASSUME Reporting PROVE Reporting'
    <3>1. reported \in Nat
      BY <2>3 DEF Reporting
    <3>2. /\ reported' \in Nat /\ ack'.ndrop \in Nat /\ 1 \in Nat
          /\ reported' + ack'.ndrop = reported + ack.ndrop + 1
      BY <1>1, <2>1, <2>2, <3>1
    <3> QED
      BY <1>1, <2>1, <2>3, <3>2, ReportingSame
  <2> QED
    BY <1>3, <2>1, <2>3 DEF DInv
<1>8. CASE ROld
  <2>1. UNCHANGED <<newest, accepted, unseen, blind, nlimited, reported>>
    BY <1>8 DEF ROld, history
  <2>2. ack'.ndrop = ack.ndrop
    BY <1>1, <1>8, OldAck
  <2> QED
    BY <1>1, <1>4, <2>1, <2>2
<1>9. CASE RTake
  <2>1. /\ unseen' = (unseen \/ Unnoticed(Head(net).seq)) /\ nlimited' = nlimited
        /\ blind' = (blind \/ (Unnoticed(Head(net).seq)
                               /\ (Head(net).seq <= newest \/ M.data # << >>)))
    BY <1>9 DEF RTake
  <2>2. (blind' => unseen') /\ (~unseen' => ~unseen)
    BY <1>3, <2>1, Zenon
  <2>3. ~unseen' => Reporting'
    BY <1>1, <1>2, <1>3, <1>9, <2>2, ReportingTake
  <2> QED
    BY <1>3, <2>1, <2>2, <2>3 DEF DInv
<1>10. CASE AddSkip \/ AddStart \/ AddMore \/ AddTail \/ WriteIntf
  <2>1. UNCHANGED <<newest, accepted, unseen, blind, nlimited, reported, ack>>
    BY <1>10 DEF AddSkip, AddStart, AddMore, AddTail, WriteIntf, history
  <2> QED
    BY <1>1, <1>4, <2>1
<1> QED
  BY <1>5, <1>6, <1>7, <1>8, <1>9, <1>10 DEF Next, vars, ReassemblyNext, TfsReader

LEMMA ReportInvariance == Spec /\ []NoWrap => []DInv
<1>1. IInv /\ JInv /\ DInv /\ [Next]_vars => DInv'
  BY ReportStep
<1>2. Init => DInv
  BY DEF Init, ReassemblyInit, NoAck, DInv, Reporting
<1> QED
  BY <1>1, <1>2, SoundInvariance, TunnelInvariance, PTL DEF Spec

\* Without a congestion limit no loss escapes the reports, unless the outer packet after a
\* report did not follow the one before it.
LEMMA NoLossEscapes ==
    ASSUME ~Congest, IInv, JInv, DInv, ~unseen
    PROVE  DropsReported
<1>1. Reporting /\ nlimited = 0 /\ reported \in Nat /\ ack.ndrop \in Nat
  BY DEF DInv, Reporting, IInv, Receiving, Acks
<1> SUFFICES ASSUME accepted # {} PROVE DropsReported
  BY DEF DropsReported
<1>2. PICK lo \in accepted : /\ newest \in accepted /\ accepted \subseteq lo .. newest
                             /\ reported + ack.ndrop = Missing(lo, newest) + nlimited
  BY <1>1 DEF Reporting
<1>3. /\ \A x \in accepted : (\A y \in accepted : x <= y) <=> x = lo
      /\ \A x \in accepted : (\A y \in accepted : x >= y) <=> x = newest
      /\ lo \in Int /\ newest \in Int
  BY <1>2
<1>4. /\ (CHOOSE x \in accepted : \A y \in accepted : x <= y) = lo
      /\ (CHOOSE x \in accepted : \A y \in accepted : x >= y) = newest
  BY <1>2, <1>3
<1>5. Missing(lo, newest) \in Int
  <2>1. IsFiniteSet(lo .. newest)
    BY <1>3, FS_Interval
  <2>2. IsFiniteSet((lo .. newest) \ accepted)
    BY <2>1, FS_Difference
  <2> QED
    BY <2>2, FS_CardinalityType DEF Missing
<1>6. reported + ack.ndrop = Missing(lo, newest)
  BY <1>1, <1>2, <1>5
<1> QED
  BY <1>4, <1>6 DEF DropsReported


\* Without a congestion limit on the receiver, reports say exactly how many outer packets
\* were missed, as long as every outer packet that came right after a report followed the
\* one before it.
THEOREM LossesReported == ~Congest => (Spec /\ []NoWrap => [](~unseen => DropsReported))
<1> SUFFICES ASSUME ~Congest PROVE Spec /\ []NoWrap => [](~unseen => DropsReported)
  OBVIOUS
<1>1. IInv /\ JInv /\ DInv => (~unseen => DropsReported)
  BY NoLossEscapes
<1> QED
  BY <1>1, ReportInvariance, SoundInvariance, TunnelInvariance, PTL
-----------------------------------------------------------------------------
\* What a loss costs.

\* Padding comes last.
PadLast(b) == \A i \in 1 .. Len(b) - 1 : b[i] = PAD => b[i + 1] = PAD

\* The packets that start in a payload.
Heads(b) == {p \in Pkts : \E i \in 1 .. Len(b) : b[i] = <<p, 1>>}

\* If byte c comes after outer packet s, and the next one is sent, it carries c's packet.
\* C is carriers and q the next number.
Linked(C, q, s, c) == c # PAD /\ s + 1 < q => s + 1 \in C[c[1]]

\* The sender's records, and the outer packet under construction.
Noted ==
    /\ carriers \in [Pkts -> SUBSET Nat] /\ \A p \in Pkts : \A s \in carriers[p] : s < seq
    /\ sentall \subseteq Taken /\ sentall \cap InSender = {}
    /\ \A p \in sentall : carriers[p] # {}
    /\ Pending # PAD => /\ Pending[2] # 1 /\ Pending[1] \notin sentall
                        /\ seq - 1 \in carriers[Pending[1]]
    /\ wpc = "fill" => \A i \in 1 .. Len(body) : body[i] # PAD
    /\ wpc = "send" => PadLast(body)

\* A packet with bytes in an outer packet starts there, or has bytes in the one before.
StartsOrGoesOn(C, s, b) == \A p \in Pkts : s \in C[p] => p \in Heads(b) \/ s - 1 \in C[p]

Carried ==
    \A o \in Flying :
        /\ PadLast(o.body) /\ (o.offset # 0 => o.body[1][2] # 1)
        /\ Linked(carriers, seq, o.seq, Cont(o.body))
        /\ StartsOrGoesOn(carriers, o.seq, o.body)

\* A packet that is not finished and of which nothing was missed so far ...
Pursued(p) ==
    /\ p \notin Done
    /\ \E s \in carriers[p] : s <= newest
    /\ \A s \in carriers[p] : s <= newest => s \in accepted

\* ... is in progress, or starts in what is left of the outer packet.
InProgressIs(p) == M.data # << >> /\ M.data[1][1] = p

Keeping ==
    /\ \A s \in accepted : s <= newest
    /\ rpc = "add" =>
         /\ PadLast(tb) /\ (toff # 0 => tb[1][2] # 1)
         /\ Linked(carriers, seq, newest, Cont(tb))
         /\ \A p \in Pkts : Pursued(p) => InProgressIs(p) \/ p \in Heads(tb)
    /\ rpc # "add" =>
         /\ M.data # << >> => Linked(carriers, seq, newest, Wanted(M))
         /\ \A p \in Pkts : Pursued(p) => InProgressIs(p)

KInv == Noted /\ Carried /\ (~blind => Keeping)

-----------------------------------------------------------------------------
\* A payload has the first byte of a packet, or opens with it.
LEMMA HeadOrOpens ==
    ASSUME NEW b, NEW off \in Nat, Formed(b, off), NEW p \in Pkts,
           NEW k \in 1 .. Len(b), b[k] # PAD, b[k][1] = p
    PROVE  p \in Heads(b) \/ (off # 0 /\ b[1] # PAD /\ b[1][1] = p)
<1> DEFINE T == {i \in 1 .. Len(b) : b[i] # PAD /\ b[i][1] = p}
<1>1. b \in Seq(Cell) /\ Len(b) \in Nat
  BY EmptyLen DEF Formed
<1>2. T \in SUBSET Nat /\ T # {}
  BY <1>1
<1>3. PICK i \in T : \A j \in T : i <= j
  BY <1>2, LeastNat
<1>4. i \in 1 .. Len(b) /\ b[i] # PAD /\ b[i][1] = p
  OBVIOUS
<1>5. b[i] = <<p, b[i][2]>> /\ b[i][2] \in 1 .. PktLen[p] /\ PktLen[p] \in Nat
  BY <1>1, <1>4, CellFacts
<1>6. CASE b[i][2] = 1
  BY <1>4, <1>5, <1>6 DEF Heads
<1>7. CASE b[i][2] # 1 /\ i > 1
  <2>1. b[i - 1] = <<b[i][1], b[i][2] - 1>> /\ i - 1 \in 1 .. Len(b)
    BY <1>1, <1>4, <1>7 DEF Formed
  <2>2. b[i - 1] = <<p, b[i][2] - 1>> /\ b[i][2] - 1 \in Nat
    BY <1>4, <1>5, <2>1
  <2>3. b[i - 1] # PAD /\ b[i - 1][1] = p
    BY <2>2, PairFacts
  <2>4. i - 1 \in T
    BY <2>1, <2>3
  <2> HIDE DEF T
  <2> QED
    BY <1>1, <1>3, <1>4, <2>4
<1>8. CASE b[i][2] # 1 /\ ~(i > 1)
  <2>1. i = 1 /\ 0 < Len(b)
    BY <1>1, <1>4, <1>8
  <2>2. off # 0
    BY <1>4, <1>8, <2>1 DEF Formed
  <2> QED
    BY <1>4, <2>1, <2>2
<1> QED
  BY <1>6, <1>7, <1>8

\* Bytes of packets are added.
LEMMA NoPadding ==
    ASSUME NEW a \in Seq(Cell), \A i \in 1 .. Len(a) : a[i] # PAD, NEW b \in Seq(Byte)
    PROVE  \A i \in 1 .. Len(a \o b) : (a \o b)[i] # PAD
<1>1. /\ Len(a) \in Nat /\ Len(b) \in Nat /\ Len(a \o b) = Len(a) + Len(b)
      /\ \A i \in 1 .. Len(a) : (a \o b)[i] = a[i]
      /\ \A i \in Len(a) + 1 .. Len(a) + Len(b) : (a \o b)[i] = b[i - Len(a)]
  <2>1. b \in Seq(Cell)
    BY EmptyLen DEF Cell
  <2> QED
    BY <2>1, EmptyLen, ConcatProperties
<1>2. \A i \in 1 .. Len(b) : b[i] # PAD
  BY ElementOfSeq, ByteFacts
<1> TAKE i \in 1 .. Len(a \o b)
<1>3. CASE i <= Len(a)
  BY <1>1, <1>3
<1>4. CASE i > Len(a)
  <2>1. i \in Len(a) + 1 .. Len(a) + Len(b) /\ i - Len(a) \in 1 .. Len(b)
    BY <1>1, <1>4
  <2> QED
    BY <1>1, <1>2, <2>1
<1> QED
  BY <1>1, <1>3, <1>4

\* Padding is added.
LEMMA PaddedLast ==
    ASSUME NEW a \in Seq(Cell), \A i \in 1 .. Len(a) : a[i] # PAD, NEW k \in Nat
    PROVE  PadLast(a \o Padding(k))
<1> DEFINE b == Padding(k)
<1>1. b \in Seq(Cell) /\ Len(b) = k /\ \A i \in 1 .. k : b[i] = PAD
  BY PaddingFacts
<1> HIDE DEF b
<1>2. /\ Len(a) \in Nat /\ Len(a \o b) = Len(a) + k
      /\ \A i \in 1 .. Len(a) : (a \o b)[i] = a[i]
      /\ \A i \in Len(a) + 1 .. Len(a) + k : (a \o b)[i] = b[i - Len(a)]
  <2>1. Len(a) \in Nat /\ Len(b) = k
    BY <1>1, EmptyLen
  <2>2. /\ Len(a \o b) = Len(a) + Len(b)
        /\ \A i \in 1 .. Len(a) + Len(b) : (a \o b)[i] = IF i <= Len(a) THEN a[i] ELSE b[i - Len(a)]
    BY <1>1, ConcatProperties
  <2> QED
    BY <2>1, <2>2
<1>3. ASSUME NEW i \in 1 .. Len(a \o b) - 1, (a \o b)[i] = PAD
      PROVE  (a \o b)[i + 1] = PAD
  <2>1. ~(i <= Len(a))
    BY <1>2, <1>3
  <2>2. i + 1 \in Len(a) + 1 .. Len(a) + k /\ i + 1 - Len(a) \in 1 .. k
    BY <1>2, <2>1
  <2> QED
    BY <1>1, <1>2, <2>2, SMTT(30)
<1> QED
  BY <1>3 DEF PadLast, b

\* What a step of the sender adds to the records.  NoteShip(o): outer packet o is sent.
NoteShip(o) ==
    /\ net' = Append(net, o) /\ o.seq = seq /\ seq' = seq + 1
    /\ PadLast(o.body) /\ (o.offset # 0 => o.body[1][2] # 1)
    /\ StartsOrGoesOn(carriers', seq, o.body)
SenderNotes ==
    /\ Noted'
    /\ \A p \in Pkts : carriers[p] \subseteq carriers'[p] /\ carriers'[p] \subseteq carriers[p] \cup {seq}
    /\ \/ seq' = seq
       \/ seq' = seq + 1 /\ (Pending # PAD => seq \in carriers'[Pending[1]])
    /\ net' = net \/ \E o \in Outer : NoteShip(o)

\* Nothing is sent.
LEMMA BuildNotes ==
    ASSUME Noted, txorder \in Seq(Pkts), Building, NEW new, SenderOrders(new),
           UNCHANGED <<carriers, sentall>>,
           wpc' = "fill" => \A i \in 1 .. Len(body') : body'[i] # PAD,
           wpc' = "send" => PadLast(body')
    PROVE  SenderNotes
<1>1. Pending' = Pending /\ seq' = seq /\ net' = net
  BY DEF Building
<1>2. Grows(new) /\ InSender' \subseteq InSender \cup new
  BY DEF SenderOrders
<1>3. Taken' = Taken \cup new
  BY <1>2, GrowFacts
<1>4. new \cap Taken = {}
  BY <1>2 DEF Grows
<1>5. sentall' \subseteq Taken' /\ sentall' \cap InSender' = {}
  BY <1>2, <1>3, <1>4 DEF Noted
<1>6. /\ carriers' \in [Pkts -> SUBSET Nat] /\ \A p \in Pkts : \A s \in carriers'[p] : s < seq'
      /\ \A p \in sentall' : carriers'[p] # {}
      /\ Pending' # PAD => /\ Pending'[2] # 1 /\ Pending'[1] \notin sentall'
                           /\ seq' - 1 \in carriers'[Pending'[1]]
  BY <1>1 DEF Noted
<1>7. Noted'
  BY <1>5, <1>6 DEF Noted, PadLast
<1> QED
  BY <1>1, <1>7 DEF SenderNotes

LEMMA IntfNotes ==
    ASSUME Sending, Cutting, TakenOnce, PackedInOrder, Noted, IntfReader
    PROVE  SenderNotes
<1>1. UNCHANGED <<carriers, sentall, wpc, body>>
  BY DEF IntfReader, IntfPop, IntfRead, IntfReadError, IntfReadZero, wvars
<1>2. Building /\ SenderOrders({}) /\ txorder \in Seq(Pkts)
  BY IntfBuilds, IntfOrders DEF TakenOnce
<1>3. /\ wpc' = "fill" => \A i \in 1 .. Len(body') : body'[i] # PAD
      /\ wpc' = "send" => PadLast(body')
  BY <1>1 DEF Noted
<1> QED
  BY <1>1, <1>2, <1>3, BuildNotes

LEMMA FillNotes ==
    ASSUME Sending, Cutting, TakenOnce, PackedInOrder, Noted,
           WStartLeftover \/ WStartNew \/ WPad \/ WPartial \/ WFull
    PROVE  SenderNotes
<1>1. UNCHANGED <<carriers, sentall>>
  BY DEF WStartLeftover, WStartNew, WPad, WPartial, WFull
<1>2. Building /\ txorder \in Seq(Pkts)
  BY StartBuilds, PadBuilds, PartialBuilds, FullBuilds DEF TakenOnce
<1>3. PICK new : SenderOrders(new)
  BY StartOrders, PadOrders, PartialOrders, FullOrders
<1>5. CASE WStartLeftover \/ WStartNew
  <2>1. body' = << >> /\ wpc' = "fill"
    BY <1>5 DEF WStartLeftover, WStartNew
  <2>2. \A i \in 1 .. Len(body') : body'[i] # PAD
    BY <2>1
  <2> QED
    BY <1>1, <1>2, <1>3, <2>1, <2>2, BuildNotes
<1>6. CASE WPad
  <2>1. wpc = "fill" /\ body' = body \o Padding(Room) /\ wpc' = "send"
    BY <1>6 DEF WPad
  <2>2. body \in Seq(Cell) /\ Room \in Nat /\ \A i \in 1 .. Len(body) : body[i] # PAD
    BY <2>1, Filling DEF Noted
  <2>3. PadLast(body')
    BY <2>1, <2>2, PaddedLast
  <2> QED
    BY <1>1, <1>2, <1>3, <2>1, <2>3, BuildNotes
<1>7. CASE WPartial \/ WFull
  <2>1. wpc = "fill"
    BY <1>7 DEF WPartial, WFull
  <2>2. /\ body \in Seq(Cell) /\ Room \in Nat /\ \A i \in 1 .. Len(body) : body[i] # PAD
        /\ wm \in Seq(Byte) /\ Piece(wm) /\ Len(wm) \in Nat
    BY <2>1, Filling DEF Noted
  <2>3. PICK s \in Seq(Byte) : body' = body \o s
    <3>1. CASE WPartial
      <4>1. body' = body \o SubSeq(wm, 1, Room) /\ Len(wm) > Room
        BY <3>1 DEF WPartial
      <4>2. Room \in 0 .. Len(wm)
        BY <2>2, <4>1
      <4>3. SubSeq(wm, 1, Room) \in Seq(Byte)
        BY <2>2, <4>2, PieceTake DEF Piece
      <4> QED
        BY <4>1, <4>3
    <3>2. CASE WFull
      BY <2>2, <3>2 DEF WFull
    <3> QED
      BY <1>7, <3>1, <3>2
  <2>4. \A i \in 1 .. Len(body') : body'[i] # PAD
    BY <2>2, <2>3, NoPadding
  <2>5. Len(body') \in Nat
    <3>1. s \in Seq(Cell)
      BY EmptyLen DEF Cell
    <3> QED
      BY <2>2, <2>3, <3>1, ConcatProperties, EmptyLen
  <2>6. PadLast(body')
    BY <2>4, <2>5 DEF PadLast
  <2> QED
    BY <1>1, <1>2, <1>3, <2>4, <2>6, BuildNotes
<1> QED
  BY <1>5, <1>6, <1>7

\* The outer packet under construction is sent, or its number is used up.
LEMMA SendNotes ==
    ASSUME Sending, Cutting, TakenOnce, PackedInOrder, Noted, WSend \/ WSendShort, seq' # 0
    PROVE  SenderNotes
<1> DEFINE o == [seq |-> seq, offset |-> offset, body |-> body]
<1>1. /\ wpc = "send" /\ wpc' = "idle" /\ Record /\ seq' = (seq + 1) % SeqMod
      /\ txorder' = txorder
      /\ \/ net' = Append(net, o) /\ leftover' = leftover
         \/ net' = net /\ leftover' = << >>
  BY DEF WSend, WSendShort, Transmit
<1>2. /\ seq \in 0 .. SeqMod - 1 /\ seq \in Nat /\ offset \in Nat /\ Formed(body, offset)
      /\ Len(body) = Payload /\ Len(body) # 0 /\ Len(body) \in Nat /\ body \in Seq(Cell)
      /\ DOMAIN body = 1 .. Len(body)
  BY <1>1, Sizes, LenProperties DEF Sending, Packing
<1>3. seq' = seq + 1
  BY <1>1, <1>2, NextNumber
<1>4. o \in Outer /\ o.seq = seq /\ o.body = body /\ o.offset = offset
  BY <1>2, TransmitOuter
<1> HIDE DEF o
<1>5. \A p \in Pkts : p \in PktsIn(body) <=> \E i \in 1 .. Len(body) : body[i] # PAD /\ body[i][1] = p
  BY <1>2 DEF PktsIn
<1>6. /\ carriers \in [Pkts -> SUBSET Nat] /\ \A p \in Pkts : \A s \in carriers[p] : s < seq
      /\ sentall \subseteq Taken /\ sentall \cap InSender = {}
      /\ \A p \in sentall : carriers[p] # {}
      /\ Pending # PAD => /\ Pending[2] # 1 /\ Pending[1] \notin sentall
                          /\ seq - 1 \in carriers[Pending[1]]
      /\ PadLast(body)
  BY <1>1 DEF Noted
<1>7. /\ carriers' = [p \in Pkts |-> IF p \in PktsIn(body) THEN carriers[p] \cup {seq} ELSE carriers[p]]
      /\ sentall' = sentall \cup PktsEndingIn(body)
  BY <1>1 DEF Record
<1>8. /\ carriers' \in [Pkts -> SUBSET Nat]
      /\ \A p \in Pkts : /\ carriers[p] \subseteq carriers'[p]
                         /\ carriers'[p] \subseteq carriers[p] \cup {seq}
                         /\ seq \in carriers'[p] <=> p \in PktsIn(body)
  <2>1. \A p \in Pkts : carriers[p] \in SUBSET Nat /\ seq \notin carriers[p]
    BY <1>2, <1>6
  <2> QED
    BY <1>2, <1>7, <2>1
<1>9. Pending = Opens(body, offset)
  BY <1>1, <1>2 DEF Pending
<1>10. 1 \in 1 .. Len(body) /\ (offset # 0 => body[1] # PAD)
  BY <1>2 DEF Formed
<1>11. Pending # PAD => Pending = body[1] /\ offset # 0 /\ body[1][1] \in Pkts /\ body[1][1] \in PktsIn(body)
  BY <1>2, <1>5, <1>9, <1>10, CellFacts DEF Opens
<1>12. StartsOrGoesOn(carriers', seq, body)
  <2> SUFFICES ASSUME NEW p \in Pkts, seq \in carriers'[p]
               PROVE  p \in Heads(body) \/ seq - 1 \in carriers'[p]
    BY DEF StartsOrGoesOn
  <2>1. PICK i \in 1 .. Len(body) : body[i] # PAD /\ body[i][1] = p
    BY <1>5, <1>8
  <2>2. p \in Heads(body) \/ (offset # 0 /\ body[1] # PAD /\ body[1][1] = p)
    BY <1>2, <2>1, HeadOrOpens
  <2>3. ASSUME offset # 0, body[1] # PAD, body[1][1] = p PROVE seq - 1 \in carriers'[p]
    <3>1. Pending # PAD /\ Pending[1] = p
      BY <1>9, <2>3 DEF Opens
    <3> QED
      BY <1>6, <1>8, <3>1
  <2> QED
    BY <2>2, <2>3
<1>13. SenderOrders({}) /\ Taken' = Taken /\ InSender \subseteq Taken
       /\ Before(txorder, PktsEndingIn(body), InWork)
  BY <1>1, SendOrders DEF PackedInOrder, Taken, Elems
<1>14. InSender' \subseteq InWork
  <2>1. body' = << >> /\ wm' = wm /\ leftover' \in {leftover, << >>}
    BY <1>1 DEF WSend, WSendShort
  <2>2. PktsEndingIn(<< >>) = {}
    BY EndingEmpty
  <2>3. InSender' = PktsEndingIn(body') \cup PktsEndingIn(wm') \cup PktsEndingIn(leftover')
    BY DEF InSender, InWork, PktsEndingIn
  <2> QED
    BY <2>1, <2>2, <2>3 DEF InWork
<1>15. PktsEndingIn(body) \cap InWork = {}
  BY <1>13, NotBefore DEF Before
<1>16. sentall' \subseteq Taken' /\ sentall' \cap InSender' = {} /\ sentall' \cap InWork = {}
  BY <1>6, <1>7, <1>13, <1>14, <1>15 DEF InSender
<1>17. \A p \in sentall' : carriers'[p] # {}
  <2>1. ASSUME NEW p \in PktsEndingIn(body) PROVE seq \in carriers'[p]
    <3>1. PICK i \in 1 .. Len(body) : p \in Pkts /\ body[i] = <<p, PktLen[p]>>
      BY <1>2, EndingFacts
    <3>2. body[i] # PAD /\ body[i][1] = p
      BY <3>1, PairFacts, Sizes
    <3> QED
      BY <1>5, <1>8, <3>1, <3>2
  <2>2. sentall \subseteq Pkts
    BY DEF Sending, Counting
  <2> QED
    BY <1>6, <1>7, <1>8, <2>1, <2>2
<1>18. ASSUME Pending' # PAD
       PROVE  Pending'[2] # 1 /\ Pending'[1] \notin sentall' /\ seq' - 1 \in carriers'[Pending'[1]]
  <2>1. leftover' = leftover /\ Len(leftover) # 0 /\ Pending' = leftover[1]
    <3>1. Pending' = IF Len(leftover') = 0 THEN PAD ELSE leftover'[1]
      BY <1>1 DEF Pending
    <3>2. Len(leftover') # 0
      BY <1>18, <3>1
    <3>3. leftover' = leftover
      BY <1>1, <3>2
    <3> QED
      BY <3>1, <3>2, <3>3
  <2>2. Cont(body) = leftover[1] /\ Ends(leftover) /\ Piece(leftover)
    BY <1>1, <2>1 DEF Cutting, Sending, Packing
  <2> DEFINE c == body[Len(body)]
  <2>3. c # PAD /\ Cont(body) = <<c[1], c[2] + 1>>
    BY <1>18, <2>1, <2>2 DEF Cont
  <2>4. Len(body) \in 1 .. Len(body)
    BY <1>2
  <2>5. c[1] \in Pkts /\ c[2] \in Nat \ {0}
    BY <1>2, <2>3, <2>4, CellFacts
  <2>6. c[1] \in PktsIn(body)
    BY <1>5, <2>3, <2>4, <2>5
  <2>7. Pending' = <<c[1], c[2] + 1>>
    BY <2>1, <2>2, <2>3
  <2> HIDE DEF c
  <2>8. Pending'[1] = c[1] /\ Pending'[2] = c[2] + 1
    BY <2>7
  <2>9. Pending'[1] \in InWork
    BY <2>1, <2>2, EndingPiece DEF InWork
  <2> QED
    BY <1>2, <1>3, <1>8, <1>16, <2>5, <2>6, <2>8, <2>9
<1>19. \A p \in Pkts : \A s \in carriers'[p] : s < seq'
  <2> TAKE p \in Pkts
  <2> TAKE s \in carriers'[p]
  <2>1. s \in carriers[p] \/ s = seq
    BY <1>8
  <2>2. s \in carriers[p] => s < seq /\ s \in Nat
    BY <1>6
  <2> QED
    BY <1>2, <1>3, <2>1, <2>2
<1>20. Noted'
  BY <1>1, <1>8, <1>16, <1>17, <1>18, <1>19 DEF Noted
<1>21. NoteShip(o) \/ net' = net
  <2>1. offset # 0 => body[1][2] # 1
    BY <1>6, <1>9, <1>10 DEF Opens
  <2> QED
    BY <1>1, <1>3, <1>4, <1>6, <1>12, <2>1 DEF NoteShip
<1> QED
  BY <1>3, <1>4, <1>8, <1>11, <1>20, <1>21 DEF SenderNotes

\* An outer packet of padding.
LEMMA EmptyNotes ==
    ASSUME Sending, Cutting, TakenOnce, PackedInOrder, Noted, WEmpty, seq' # 0
    PROVE  SenderNotes
<1> DEFINE b == Padding(Payload)
           o == [seq |-> seq, offset |-> 0, body |-> b]
<1>1. /\ wpc = "idle" /\ leftover = << >> /\ net' = Append(net, o) /\ seq' = (seq + 1) % SeqMod
      /\ UNCHANGED <<carriers, sentall, wpc, wm, leftover, body, txorder>>
  BY DEF WEmpty, Transmit
<1>2. seq \in 0 .. SeqMod - 1 /\ seq \in Nat
  BY Sizes DEF Sending, Packing
<1>3. seq' = seq + 1
  BY <1>1, <1>2, NextNumber
<1>4. PICK x \in Outer : Shipping(x)
  BY EmptyShips
<1>5. net' = Append(net, x)
  BY <1>4 DEF Shipping
<1>6. o = x
  <2>1. /\ net \in Seq(Outer \cup {o, x}) /\ o \in Outer \cup {o, x} /\ x \in Outer \cup {o, x}
    BY SendingFacts, EmptyLen
  <2>2. Append(net, o)[Len(net) + 1] = o /\ Append(net, x)[Len(net) + 1] = x
    BY <2>1, AppendFacts
  <2> QED
    BY <1>1, <1>5, <2>2
<1>7. b \in Seq(Cell) /\ Len(b) = Payload /\ Payload \in Nat /\ \A i \in 1 .. Payload : b[i] = PAD
  BY Sizes, PaddingFacts
<1>8. o \in Outer /\ o.seq = seq /\ o.body = b /\ o.offset = 0
  BY <1>6
<1> HIDE DEF o, b
<1>9. PadLast(b)
  BY <1>7 DEF PadLast
<1>10. Pending = PAD /\ Pending' = PAD
  <2>1. Len(leftover) = 0
    BY <1>1, SendingFacts
  <2> QED
    BY <1>1, <2>1 DEF Pending
<1>11. StartsOrGoesOn(carriers', seq, b)
  <2>1. \A p \in Pkts : seq \notin carriers'[p]
    BY <1>1, <1>2 DEF Noted
  <2> QED
    BY <2>1 DEF StartsOrGoesOn
<1>12. NoteShip(o)
  BY <1>1, <1>3, <1>8, <1>9, <1>11 DEF NoteShip
<1>13. Taken' = Taken /\ InSender' = InSender
  BY <1>1 DEF Taken, InSender, InWork
<1>14. \A p \in Pkts : \A s \in carriers[p] : s < seq + 1
  <2>1. \A p \in Pkts : \A s \in carriers[p] : s < seq /\ s \in Nat
    BY DEF Noted
  <2> QED
    BY <1>2, <2>1
<1>15. Noted'
  BY <1>1, <1>3, <1>10, <1>13, <1>14 DEF Noted
<1> QED
  BY <1>1, <1>3, <1>8, <1>10, <1>12, <1>15 DEF SenderNotes

LEMMA SenderNotesStep ==
    ASSUME Sending, Cutting, TakenOnce, PackedInOrder, Noted, IngressNext, seq' # 0
    PROVE  SenderNotes
BY IntfNotes, FillNotes, SendNotes, EmptyNotes DEF IngressNext, TfsWriter

-----------------------------------------------------------------------------
\* What somebody else does to the records.
RecordsStay == /\ UNCHANGED <<carriers, seq>> /\ Flying' \subseteq Flying

LEMMA LinkedStep ==
    ASSUME seq \in Nat, Noted, SenderNotes \/ RecordsStay, NEW s \in Nat, s < seq, NEW c,
           c # PAD => c[1] \in Pkts, Expecting(s, c), Linked(carriers, seq, s, c)
    PROVE  Linked(carriers', seq', s, c)
<1>1. CASE RecordsStay
  BY <1>1 DEF RecordsStay
<1>2. CASE SenderNotes
  <2> SUFFICES ASSUME c # PAD, s + 1 < seq' PROVE s + 1 \in carriers'[c[1]]
    BY DEF Linked
  <2>1. carriers[c[1]] \subseteq carriers'[c[1]]
    BY <1>2 DEF SenderNotes
  <2>2. CASE s + 1 < seq
    BY <2>1, <2>2 DEF Linked
  <2>3. CASE ~(s + 1 < seq)
    <3>1. s + 1 = seq
      BY <2>3
    <3>2. Pending = c
      BY <3>1 DEF Expecting, Follows
    <3>3. seq' # seq
      BY <3>1
    <3> QED
      BY <1>2, <3>1, <3>2, <3>3 DEF SenderNotes
  <2> QED
    BY <2>2, <2>3
<1> QED
  BY <1>1, <1>2

\* The byte after a payload belongs to a packet.
LEMMA ContInPkts ==
    ASSUME NEW b \in Seq(Cell), Len(b) # 0, Cont(b) # PAD
    PROVE  Cont(b)[1] \in Pkts
<1> DEFINE c == b[Len(b)]
<1>1. Len(b) \in 1 .. Len(b)
  BY EmptyLen
<1>2. c # PAD /\ Cont(b) = <<c[1], c[2] + 1>>
  BY DEF Cont
<1>3. c[1] \in Pkts
  BY <1>1, <1>2, CellFacts
<1> HIDE DEF c
<1> QED
  BY <1>2, <1>3

LEMMA FlyingFacts ==
    ASSUME InFlight, NEW o \in Flying
    PROVE  /\ o \in Outer /\ o.seq \in Nat /\ o.body \in Seq(Cell) /\ Len(o.body) # 0
           /\ o.offset \in Nat /\ Len(o.body) = Payload
<1>1. o \in Outer
  BY ElementOfSeq, LenProperties DEF Flying, Elems, InFlight
<1> QED
  BY <1>1, Sizes DEF Outer, Outers

LEMMA CarriedStep ==
    ASSUME InFlight, seq \in Nat, Flow, Noted, Carried, SenderNotes \/ RecordsStay
    PROVE  Carried'
<1>1. ASSUME NEW o \in Flying
      PROVE  /\ PadLast(o.body) /\ (o.offset # 0 => o.body[1][2] # 1)
             /\ Linked(carriers', seq', o.seq, Cont(o.body))
             /\ StartsOrGoesOn(carriers', o.seq, o.body)
  <2>1. o.seq \in Nat /\ o.body \in Seq(Cell) /\ Len(o.body) # 0
    BY FlyingFacts
  <2>2. o.seq < seq /\ Expecting(o.seq, Cont(o.body))
    BY DEF Flow
  <2>3. /\ PadLast(o.body) /\ (o.offset # 0 => o.body[1][2] # 1)
        /\ Linked(carriers, seq, o.seq, Cont(o.body)) /\ StartsOrGoesOn(carriers, o.seq, o.body)
    BY DEF Carried
  <2>4. Linked(carriers', seq', o.seq, Cont(o.body))
    <3>1. Cont(o.body) # PAD => Cont(o.body)[1] \in Pkts
      BY <2>1, ContInPkts
    <3> QED
      BY <2>1, <2>2, <2>3, <3>1, LinkedStep
  <2>5. \A p \in Pkts : carriers[p] \subseteq carriers'[p] /\ carriers'[p] \subseteq carriers[p] \cup {seq}
    BY DEF SenderNotes, RecordsStay
  <2>6. StartsOrGoesOn(carriers', o.seq, o.body)
    <3>1. o.seq # seq
      BY <2>1, <2>2
    <3> QED
      BY <2>3, <2>5, <3>1 DEF StartsOrGoesOn
  <2> QED
    BY <2>3, <2>4, <2>6
<1>2. CASE Flying' \subseteq Flying
  BY <1>1, <1>2 DEF Carried
<1>3. ASSUME NEW o \in Outer, NoteShip(o)
      PROVE  Carried'
  <2>1. Flying' = Flying \cup {o}
    BY <1>3, ElemsAppend DEF Flying, InFlight, NoteShip
  <2>2. /\ PadLast(o.body) /\ (o.offset # 0 => o.body[1][2] # 1) /\ o.seq = seq /\ seq' = seq + 1
        /\ StartsOrGoesOn(carriers', seq, o.body)
    BY <1>3 DEF NoteShip
  <2>3. Linked(carriers', seq', o.seq, Cont(o.body))
    BY <2>2 DEF Linked
  <2> QED
    BY <1>1, <2>1, <2>2, <2>3 DEF Carried
<1>4. CASE SenderNotes
  <2>1. CASE net' = net
    BY <1>2, <2>1 DEF Flying
  <2> QED
    BY <1>3, <1>4, <2>1 DEF SenderNotes
<1> QED
  BY <1>2, <1>4 DEF RecordsStay

\* The sender's and the path's steps leave what the receiver keeps alone.
LEMMA PursuedSame ==
    ASSUME Noted, SenderNotes \/ RecordsStay, seq \in Nat, newest \in Nat, newest < seq,
           UNCHANGED <<newest, accepted, rxorder>>, NEW p \in Pkts
    PROVE  Pursued(p)' <=> Pursued(p)
<1>1. /\ carriers[p] \subseteq carriers'[p] /\ carriers'[p] \subseteq carriers[p] \cup {seq}
  BY DEF SenderNotes, RecordsStay
<1>2. Done' = Done
  BY DEF Done
<1>3. ~(seq <= newest)
  OBVIOUS
<1>4. \A s : s <= newest => (s \in carriers'[p] <=> s \in carriers[p])
  BY <1>1, <1>3
<1>5. Pursued(p)' <=> /\ p \notin Done'
                      /\ \E s \in carriers'[p] : s <= newest'
                      /\ \A s \in carriers'[p] : s <= newest' => s \in accepted'
  BY DEF Pursued
<1> QED
  BY <1>2, <1>4, <1>5 DEF Pursued

LEMMA KeepingSame ==
    ASSUME Sending, Receiving, Joining, Noted, Keeping, SenderNotes \/ RecordsStay,
           UNCHANGED <<newest, accepted, rxorder, m, tb, toff>>,
           rpc' = rpc \/ (rpc # "add" /\ rpc' # "add")
    PROVE  Keeping'
<1>1. seq \in Nat /\ newest \in Nat /\ newest < seq /\ tb \in Seq(Cell)
  BY Sizes DEF Sending, Packing, Joining, Receiving
<1>2. M' = M
  BY DEF M
<1>3. \A p \in Pkts : Pursued(p)' <=> Pursued(p)
  BY <1>1, PursuedSame
<1>4. \A p \in Pkts : InProgressIs(p)' <=> InProgressIs(p)
  BY <1>2 DEF InProgressIs
<1>5. CASE rpc = "add"
  <2>1. Linked(carriers', seq', newest, Cont(tb))
    <3>1. Len(tb) # 0 /\ Expecting(newest, Cont(tb)) /\ Linked(carriers, seq, newest, Cont(tb))
      BY <1>5 DEF Joining, Keeping
    <3>2. Cont(tb) # PAD => Cont(tb)[1] \in Pkts
      BY <1>1, <3>1, ContInPkts
    <3> QED
      BY <1>1, <3>1, <3>2, LinkedStep
  <2>2. /\ PadLast(tb) /\ (toff # 0 => tb[1][2] # 1)
        /\ \A p \in Pkts : Pursued(p) => InProgressIs(p) \/ p \in Heads(tb)
        /\ \A s \in accepted : s <= newest
    BY <1>5 DEF Keeping
  <2>3. /\ Linked(carriers, seq, newest, Cont(tb))' = Linked(carriers', seq', newest', Cont(tb'))
        /\ \A p \in Pkts : Pursued(p)' => InProgressIs(p)' \/ p \in Heads(tb')
    BY <1>3, <1>4, <2>2 DEF Linked, Cont
  <2> QED
    BY <1>5, <2>1, <2>2, <2>3 DEF Keeping
<1>6. CASE rpc # "add"
  <2>1. ASSUME M.data # << >> PROVE Linked(carriers', seq', newest, Wanted(M))
    <3>1. Expecting(newest, Wanted(M)) /\ Linked(carriers, seq, newest, Wanted(M)) /\ InHand(M)
      BY <1>6, <2>1 DEF Joining, Keeping
    <3>2. PICK p \in Pkts, k \in Nat : Wanted(M) = <<p, k + 1>>
      BY <3>1, InHandFacts
    <3>3. Wanted(M)[1] \in Pkts
      BY <3>2
    <3> QED
      BY <1>1, <3>1, <3>3, LinkedStep
  <2>2. /\ \A p \in Pkts : Pursued(p) => InProgressIs(p)
        /\ \A s \in accepted : s <= newest
    BY <1>6 DEF Keeping
  <2>3. Wanted(M)' = Wanted(M)
    BY <1>2 DEF Wanted
  <2> QED
    BY <1>2, <1>3, <1>4, <1>6, <2>1, <2>2, <2>3 DEF Keeping, Linked
<1> QED
  BY <1>5, <1>6

\* An outer packet is taken: if it has a later part of a packet nothing of which was
\* missed, that packet is in progress, and no gap is found.
LEMMA KeepingTake ==
    ASSUME Sending, Receiving, Flow, Joining, Noted, Carried, Keeping, RTake, ~blind',
           UNCHANGED invars
    PROVE  Keeping'
<1> DEFINE o == Head(net)
<1>1. /\ net # << >> /\ newest' = o.seq /\ rpc = "recv" /\ rpc' = "add" /\ o.seq > ack.last
      /\ tb' = o.body /\ toff' = o.offset /\ m' = OnGap(o.seq) /\ rxorder' = rxorder
      /\ accepted' = accepted \cup {o.seq}
      /\ ~(Unnoticed(o.seq) /\ (o.seq <= newest \/ M.data # << >>))
  BY DEF RTake
<1>2. InFlight /\ net \in Seq(Outer) /\ seq \in Nat
  BY Sizes DEF Sending, InFlight, Packing
<1>3. o \in Flying
  BY <1>1, <1>2, ElemsFewer DEF Flying
<1>4. PICK s \in Nat : s = o.seq /\ s < SeqMod
  BY <1>1, <1>2, HeadOuter
<1>5. /\ s # 0 /\ s < seq /\ PadLast(o.body) /\ (o.offset # 0 => o.body[1][2] # 1)
      /\ Linked(carriers, seq, s, Cont(o.body)) /\ StartsOrGoesOn(carriers, s, o.body)
  BY <1>3, <1>4 DEF Flow, Carried
<1>6. /\ newest' = s /\ rpc' = "add" /\ tb' = o.body /\ toff' = o.offset /\ m' = OnGap(s)
      /\ rpc # "add" /\ rxorder' = rxorder /\ accepted' = accepted \cup {s} /\ s > ack.last
      /\ ~(Unnoticed(s) /\ (s <= newest \/ M.data # << >>))
  BY <1>1, <1>4
<1>7. UNCHANGED <<carriers, seq>>
  BY DEF invars
<1> HIDE DEF o
<1>8. newest \in Nat /\ ack.last \in {0, newest} /\ newest < seq /\ SeqMod \in Nat \ {0, 1}
  BY Sizes DEF Joining
<1>9. s > newest
  BY <1>5, <1>6, <1>8 DEF Unnoticed
<1>10. /\ \A x \in accepted : x <= newest
       /\ M.data # << >> => Linked(carriers, seq, newest, Wanted(M)) /\ InHand(M)
       /\ \A p \in Pkts : Pursued(p) => InProgressIs(p)
  BY <1>6 DEF Keeping, Joining
<1>11. \A p \in Pkts : \A x \in carriers[p] : x \in Nat
  BY DEF Noted
<1>12. \A x \in accepted : x \in Nat
  BY <1>8 DEF Receiving
<1>13. ASSUME NEW p \in Pkts, Pursued(p)'
       PROVE  InProgressIs(p)' \/ p \in Heads(tb')
  <2>1. /\ p \notin Done
        /\ \E x \in carriers[p] : x <= s
        /\ \A x \in carriers[p] : x <= s => x \in accepted \cup {s}
    BY <1>6, <1>7, <1>13 DEF Pursued, Done
  <2>2. CASE \E x \in carriers[p] : x <= newest
    <3>1. Pursued(p)
      <4>1. \A x \in carriers[p] : x <= newest => x <= s /\ x # s
        BY <1>8, <1>9, <1>11
      <4> QED
        BY <2>1, <2>2, <4>1 DEF Pursued
    <3>2. M.data # << >> /\ M.data[1][1] = p /\ Linked(carriers, seq, newest, Wanted(M)) /\ InHand(M)
      BY <1>10, <3>1 DEF InProgressIs
    <3>3. Wanted(M) # PAD /\ Wanted(M)[1] = p
      <4>1. Wanted(M) # PAD
        BY <3>2, InHandFacts
      <4> QED
        BY <3>2, <4>1 DEF Wanted
    <3>4. newest + 1 < seq /\ newest + 1 <= s
      BY <1>2, <1>5, <1>8, <1>9
    <3>5. newest + 1 \in accepted \cup {s}
      BY <2>1, <3>2, <3>3, <3>4 DEF Linked
    <3>6. newest + 1 \notin accepted
      BY <1>8, <1>10
    <3>7. s = newest + 1
      BY <3>5, <3>6
    <3>8. ~Gap(s)
      <4>1. (newest + 1) % SeqMod = newest + 1
        BY <1>4, <1>8, <3>7
      <4> QED
        BY <1>8, <3>7, <4>1 DEF Gap
    <3>9. M' = M
      BY <1>6, <3>8 DEF OnGap, M
    <3> QED
      BY <3>2, <3>9 DEF InProgressIs
  <2>3. CASE ~ \E x \in carriers[p] : x <= newest
    <3>1. PICK x \in carriers[p] : x <= s
      BY <2>1
    <3>2. x = s
      BY <1>10, <2>1, <2>3, <3>1
    <3>3. p \in Heads(o.body) \/ s - 1 \in carriers[p]
      BY <1>5, <3>1, <3>2 DEF StartsOrGoesOn
    <3>4. s - 1 \notin carriers[p]
      <4> SUFFICES ASSUME s - 1 \in carriers[p] PROVE FALSE
        OBVIOUS
      <4>1. s - 1 <= s /\ s - 1 # s
        OBVIOUS
      <4>2. s - 1 \in accepted
        BY <2>1, <4>1
      <4> QED
        BY <1>10, <2>3, <4>2
    <3> QED
      BY <1>6, <3>3, <3>4
  <2> QED
    BY <2>2, <2>3
<1>14. \A x \in accepted' : x <= newest'
  BY <1>6, <1>8, <1>9, <1>10, <1>12
<1>15. Linked(carriers, seq, newest, Cont(tb))' = Linked(carriers', seq', newest', Cont(tb'))
  BY DEF Linked, Cont
<1>16. PadLast(tb)' = PadLast(tb') /\ Heads(tb)' = Heads(tb')
  BY DEF PadLast, Heads
<1>17. Linked(carriers', seq', newest', Cont(tb'))
  BY <1>5, <1>6, <1>7
<1> QED
  BY <1>5, <1>6, <1>13, <1>14, <1>15, <1>16, <1>17 DEF Keeping

\* add_to_inner_packet finishes the packets that were in progress or start in the
\* outer packet, or still has them afterwards.
PassesNone ==
    \A p \in Pkts : InProgressIs(p) \/ p \in Heads(tb) =>
        \/ p \in Done'
        \/ rpc' = "add" /\ p \in Heads(tb')
        \/ rpc' # "add" /\ InProgressIs(p)'

\* The first n bytes of the outer packet have the start of no packet but the one that is
\* finished.
LEMMA FinishPasses ==
    ASSUME rpc = "add", tb \in Seq(Cell), rxorder \in Seq(Pkts), NEW q \in Pkts,
           NEW n \in 1 .. Len(tb), NEW mi, mi.data = Bytes(q), Finish(mi, Drop(tb, n)),
           \A p \in Pkts : \A i \in 1 .. n : tb[i] = <<p, 1>> => p = q,
           \A p \in Pkts : InProgressIs(p) => p = q
    PROVE  PassesNone
<1>1. Len(tb) \in Nat /\ n \in Nat /\ n <= Len(tb)
  BY EmptyLen
<1>2. mi.data[1][1] = q
  <2>1. 1 \in 1 .. PktLen[q]
    BY Sizes
  <2> QED
    BY <2>1 DEF Bytes
<1>3. Done' = Done \cup {q}
  BY <1>2, ElemsAppend DEF Finish, Done
<1>4. /\ Drop(tb, n) \in Seq(Cell) /\ Len(Drop(tb, n)) = Len(tb) - n
      /\ \A i \in 1 .. Len(tb) - n : Drop(tb, n)[i] = tb[n + i]
  BY <1>1, DropFacts
<1>5. ASSUME NEW p \in Pkts, p \in Heads(tb), p # q
      PROVE  rpc' = "add" /\ p \in Heads(tb')
  <2>1. PICK i \in 1 .. Len(tb) : tb[i] = <<p, 1>>
    BY <1>5 DEF Heads
  <2>2. ~(i <= n)
    BY <1>1, <1>5, <2>1
  <2>3. i - n \in 1 .. Len(tb) - n /\ n + (i - n) = i
    BY <1>1, <2>2
  <2>4. Drop(tb, n)[i - n] = <<p, 1>> /\ Len(Drop(tb, n)) # 0
    <3>1. Drop(tb, n)[i - n] = tb[n + (i - n)]
      BY <1>4, <2>3
    <3>2. Len(tb) - n # 0
      BY <1>1, <2>3
    <3> QED
      BY <1>4, <2>1, <2>3, <3>1, <3>2
  <2>5. Drop(tb, n) # << >>
    BY <2>4, NotEmpty
  <2>6. tb' = Drop(tb, n) /\ rpc' = rpc
    BY <2>5 DEF Finish
  <2> QED
    BY <1>4, <2>3, <2>4, <2>6 DEF Heads
<1>6. q \in Done'
  BY <1>3
<1> QED
  BY <1>5, <1>6 DEF PassesNone

\* What stands before the offset has no first byte of a packet.
LEMMA NoHeadBefore ==
    ASSUME Receiving, Joining, Keeping, rpc = "add", NEW i \in 1 .. Len(tb), i <= toff,
           NEW p \in Pkts
    PROVE  tb[i] # <<p, 1>>
<1>1. Formed(tb, toff) /\ tb \in Seq(Cell) /\ toff \in Nat /\ (toff # 0 => tb[1][2] # 1)
      /\ Len(tb) \in Nat
  BY EmptyLen DEF Receiving, Joining, Sound, Keeping
<1> SUFFICES ASSUME tb[i] = <<p, 1>> PROVE FALSE
  OBVIOUS
<1>2. tb[i] # PAD /\ tb[i][2] = 1
  BY PairFacts
<1>3. i > 1
  BY <1>1, <1>2
<1>4. tb[i - 1] = <<p, 0>> /\ i - 1 \in 1 .. Len(tb)
  BY <1>1, <1>2, <1>3 DEF Formed
<1>5. tb[i - 1] # PAD /\ tb[i - 1][2] = 0
  BY <1>4, PairFacts
<1>6. tb[i - 1][2] \in 1 .. PktLen[tb[i - 1][1]]
  BY <1>1, <1>4, <1>5, CellFacts
<1> QED
  BY <1>5, <1>6

\* From the first padding byte on there is nothing else.
LEMMA PadRest ==
    ASSUME NEW b \in Seq(Cell), PadLast(b), NEW k \in 1 .. Len(b), b[k] = PAD
    PROVE  \A i \in 1 .. Len(b) : i >= k => b[i] = PAD
<1>1. Len(b) \in Nat /\ k \in Nat
  BY EmptyLen
<1> DEFINE S == {j \in Nat : k + j <= Len(b) => b[k + j] = PAD}
<1>2. 0 \in S
  BY <1>1
<1>3. ASSUME NEW j \in 0 .. Len(b) - 1, j \in S PROVE j + 1 \in S
  <2>1. ASSUME k + (j + 1) <= Len(b) PROVE b[k + (j + 1)] = PAD
    <3>1. k + j \in 1 .. Len(b) - 1 /\ k + (j + 1) = (k + j) + 1 /\ k + j <= Len(b)
      BY <1>1, <2>1
    <3>2. b[k + j] = PAD
      BY <1>3, <3>1
    <3> QED
      BY <3>1, <3>2 DEF PadLast
  <2> QED
    BY <1>1, <2>1
<1> HIDE DEF S
<1>4. 0 .. Len(b) \subseteq S
  BY <1>1, <1>2, <1>3, SetInduction
<1> TAKE i \in 1 .. Len(b)
<1> HAVE i >= k
<1>5. i - k \in 0 .. Len(b) /\ k + (i - k) = i
  BY <1>1
<1>6. i - k \in S
  BY <1>4, <1>5
<1> QED
  BY <1>5, <1>6 DEF S

\* A miov with the first bytes of a packet is one in progress.
LEMMA HoldsFirst ==
    ASSUME NEW q \in Pkts, NEW k \in Nat \ {0}, NEW r \in Nat, NEW v \in Nat,
           m' = [data |-> FirstBytes(q, k), left |-> r, niov |-> v]
    PROVE  InProgressIs(q)'
<1> DEFINE d == FirstBytes(q, k)
<1>1. d \in [1 .. k -> Pkts \X Nat] /\ d[1] = <<q, 1>>
  BY DEF FirstBytes
<1>2. d \in Seq(Pkts \X Nat)
  BY <1>1, IsASeq
<1>3. Len(d) = k
  BY <1>1, <1>2, LenProperties
<1> HIDE DEF d
<1>4. m' # NULL
  BY <1>2, NullAssumption DEF d
<1>5. M'.data = d
  BY <1>4 DEF M, d
<1>6. d # << >>
  BY <1>3, NotEmpty
<1> QED
  BY <1>1, <1>5, <1>6 DEF InProgressIs

LEMMA SkipPasses ==
    ASSUME Receiving, Joining, Keeping, AddSkip
    PROVE  PassesNone
<1>1. rpc = "add" /\ M.data = << >> /\ (toff < Len(tb) => Drop(tb, toff)[1] = PAD)
  BY DEF AddSkip
<1>2. tb \in Seq(Cell) /\ toff \in Nat /\ Len(tb) \in Nat /\ PadLast(tb)
  BY <1>1, EmptyLen DEF Receiving, Keeping
<1>3. ASSUME NEW p \in Pkts, p \in Heads(tb) PROVE FALSE
  <2>1. PICK i \in 1 .. Len(tb) : tb[i] = <<p, 1>>
    BY <1>3 DEF Heads
  <2>2. i > toff
    BY <1>1, <1>2, <2>1, NoHeadBefore
  <2>3. toff + 1 \in 1 .. Len(tb) /\ toff < Len(tb) /\ i >= toff + 1
    BY <1>2, <2>2
  <2>4. tb[toff + 1] = PAD
    <3>1. toff <= Len(tb) /\ 1 \in 1 .. Len(tb) - toff
      BY <1>2, <2>3
    <3>2. Drop(tb, toff)[1] = tb[toff + 1]
      BY <1>2, <3>1, DropFacts
    <3> QED
      BY <1>1, <2>3, <3>2
  <2>5. tb[i] = PAD
    BY <1>2, <2>3, <2>4, PadRest
  <2> QED
    BY <2>1, <2>5, PairFacts
<1> QED
  BY <1>1, <1>3 DEF PassesNone, InProgressIs

LEMMA StartPasses ==
    ASSUME Receiving, Joining, Keeping, rxorder \in Seq(Pkts), AddStart
    PROVE  PassesNone
<1> DEFINE start == Drop(tb, toff)
           iplen == IpLen(start)
           l == Len(tb)
<1>1. /\ rpc = "add" /\ M.data = << >> /\ toff < l /\ start[1] # PAD
      /\ IF ~HeaderAt(start)
         THEN Abort
         ELSE IF iplen # 0 /\ iplen <= Len(start)
              THEN Finish(AddMbuf(M, start, iplen), Drop(start, iplen))
              ELSE /\ m' = [AddMbuf(M, start, Len(start)) EXCEPT
                              !.left = IF iplen = 0 THEN 0 ELSE iplen - Len(start)]
                   /\ OuterDone
                   /\ UNCHANGED <<iovoutq, rxorder>>
  BY DEF AddStart
<1>2. tb \in Seq(Cell) /\ toff \in Nat /\ l \in Nat
  BY EmptyLen DEF Receiving
<1>3. PICK q \in Pkts :
        /\ PktLen[q] \in Nat \ {0} /\ start \in Seq(Cell) /\ Len(start) = l - toff
        /\ HeaderAt(start) /\ iplen = PktLen[q]
        /\ \A j \in 1 .. l - toff : j <= PktLen[q] => tb[toff + j] = <<q, j>>
        /\ \A n \in 0 .. Len(start) : n <= PktLen[q] =>
             AddMbuf(M, start, n) = [data |-> FirstBytes(q, n), left |-> M.left,
                                     niov |-> M.niov + 1]
  BY <1>1, StartInTb
<1>4. \A p \in Pkts : ~InProgressIs(p)
  BY <1>1 DEF InProgressIs
<1>5. ASSUME NEW n \in 1 .. l, n - toff <= PktLen[q], NEW p \in Pkts, NEW i \in 1 .. n, tb[i] = <<p, 1>>
      PROVE  p = q
  <2>1. ~(i <= toff)
    BY <1>1, <1>2, <1>5, NoHeadBefore
  <2>2. i - toff \in 1 .. l - toff /\ i - toff <= PktLen[q] /\ toff + (i - toff) = i
    BY <1>2, <1>3, <1>5, <2>1
  <2>3. tb[i] = <<q, i - toff>>
    BY <1>3, <2>2
  <2> QED
    BY <1>5, <2>3
<1> HIDE DEF start, iplen, l
<1>6. CASE iplen <= Len(start)
  <2> DEFINE n == toff + iplen
  <2>1. Finish(AddMbuf(M, start, iplen), Drop(start, iplen))
    BY <1>1, <1>3, <1>6
  <2>2. iplen \in 0 .. Len(start) /\ iplen <= PktLen[q] /\ iplen \in 1 .. l - toff
    BY <1>2, <1>3, <1>6
  <2>3. AddMbuf(M, start, iplen).data = Bytes(q)
    <3>1. AddMbuf(M, start, iplen).data = FirstBytes(q, PktLen[q])
      BY <1>3, <2>2
    <3> QED
      BY <3>1 DEF Bytes, FirstBytes
  <2>4. n \in 1 .. l /\ n <= l /\ iplen \in Nat /\ n - toff <= PktLen[q]
    BY <1>2, <2>2
  <2>5. Drop(start, iplen) = Drop(tb, n)
    BY <1>2, <2>4, DropDrop DEF start, l
  <2>6. \A p \in Pkts : \A i \in 1 .. n : tb[i] = <<p, 1>> => p = q
    BY <1>5, <2>4
  <2> HIDE DEF n
  <2> QED
    BY <1>1, <1>2, <1>4, <2>1, <2>3, <2>4, <2>5, <2>6, FinishPasses DEF l
<1>7. CASE ~(iplen <= Len(start))
  <2> DEFINE k == Len(start)
  <2>1. /\ m' = [AddMbuf(M, start, k) EXCEPT !.left = IF iplen = 0 THEN 0 ELSE iplen - k]
        /\ OuterDone
    BY <1>1, <1>3, <1>7
  <2>2. k \in 0 .. Len(start) /\ k <= PktLen[q] /\ k \in Nat \ {0} /\ PktLen[q] - k \in Nat
    BY <1>1, <1>2, <1>3, <1>7
  <2>3. m' = [data |-> FirstBytes(q, k), left |-> PktLen[q] - k, niov |-> M.niov + 1]
    <3>1. AddMbuf(M, start, k) = [data |-> FirstBytes(q, k), left |-> M.left,
                                  niov |-> M.niov + 1]
      BY <1>3, <2>2
    <3> HIDE DEF k
    <3> QED
      BY <1>3, <2>1, <3>1
  <2>4. l \in 1 .. l /\ l - toff <= PktLen[q]
    BY <1>1, <1>2, <1>3, <2>2
  <2> HIDE DEF k
  <2>5. M.niov + 1 \in Nat
    BY InProgress
  <2>6. InProgressIs(q)'
    BY <2>2, <2>3, <2>5, HoldsFirst
  <2>7. \A p \in Pkts : p \in Heads(tb) => p = q
    BY <1>5, <2>4 DEF Heads, l
  <2>8. rpc' # "add"
    BY <2>1 DEF OuterDone
  <2> QED
    BY <1>4, <2>6, <2>7, <2>8 DEF PassesNone
<1> QED
  BY <1>6, <1>7

LEMMA MorePasses ==
    ASSUME Receiving, Joining, Keeping, AddMore
    PROVE  PassesNone
<1> DEFINE l == Len(tb)
<1>1. /\ rpc = "add" /\ M.data # << >> /\ toff > l
      /\ IF M.left = 0
         THEN Abort
         ELSE IF M.left > l
              THEN /\ m' = [AddMbuf(M, tb, l) EXCEPT !.left = @ - l]
                   /\ OuterDone
                   /\ UNCHANGED <<iovoutq, rxorder>>
              ELSE Finish([AddMbuf(M, tb, M.left) EXCEPT !.left = 0], << >>)
  BY DEF AddMore
<1>2. tb \in Seq(Cell) /\ l \in Nat /\ toff \in Nat
  BY <1>1, EmptyLen DEF Receiving
<1>3. PICK q \in Pkts, k \in Nat :
        /\ PktLen[q] \in Nat /\ k # 0 /\ M.left = toff /\ M.left = PktLen[q] - k
        /\ M.data[1][1] = q
        /\ \A n \in 0 .. l : n <= M.left =>
             AddMbuf(M, tb, n) = [data |-> FirstBytes(q, k + n),
                                  left |-> M.left, niov |-> M.niov + 1]
  BY <1>1, RestInTb
<1>4. m' = [AddMbuf(M, tb, l) EXCEPT !.left = @ - l] /\ OuterDone
  BY <1>1, <1>2, <1>3
<1> DEFINE n == k + l
<1>5. l \in 0 .. l /\ l <= M.left /\ n \in Nat \ {0} /\ M.left - l \in Nat
  BY <1>1, <1>2, <1>3
<1>6. AddMbuf(M, tb, l) = [data |-> FirstBytes(q, n), left |-> M.left,
                           niov |-> M.niov + 1]
  BY <1>3, <1>5
<1> HIDE DEF n
<1>7. m' = [data |-> FirstBytes(q, n), left |-> M.left - l, niov |-> M.niov + 1]
  BY <1>4, <1>6
<1>8. M.niov + 1 \in Nat
  BY InProgress
<1>9. InProgressIs(q)'
  BY <1>5, <1>7, <1>8, HoldsFirst
<1>10. \A p \in Pkts : p \notin Heads(tb)
  BY <1>1, <1>2, NoHeadBefore DEF Heads
<1>11. rpc' # "add"
  BY <1>4 DEF OuterDone
<1> QED
  BY <1>3, <1>9, <1>10, <1>11 DEF PassesNone, InProgressIs

LEMMA TailPasses ==
    ASSUME Receiving, Joining, Keeping, rxorder \in Seq(Pkts), AddTail
    PROVE  PassesNone
<1>1. /\ rpc = "add" /\ M.data # << >> /\ toff <= Len(tb)
      /\ IF M.left = 0 \/ M.left # toff
         THEN Abort
         ELSE Finish([AddMbuf(M, tb, M.left) EXCEPT !.left = 0], Drop(tb, M.left))
  BY DEF AddTail
<1>2. tb \in Seq(Cell) /\ Len(tb) \in Nat /\ toff \in Nat
  BY EmptyLen DEF Receiving
<1>3. PICK q \in Pkts, k \in Nat :
        /\ PktLen[q] \in Nat /\ M.data[1][1] = q
        /\ M.left = toff /\ toff # 0 /\ M.left = PktLen[q] - k
        /\ \A n \in 0 .. Len(tb) : n <= M.left =>
             AddMbuf(M, tb, n) = [data |-> FirstBytes(q, k + n),
                                  left |-> M.left, niov |-> M.niov + 1]
  BY <1>1, RestInTb
<1>4. toff \in 1 .. Len(tb) /\ toff \in 0 .. Len(tb) /\ k + toff = PktLen[q] /\ toff <= M.left
  BY <1>1, <1>2, <1>3
<1> DEFINE mi == [AddMbuf(M, tb, toff) EXCEPT !.left = 0]
<1>5. mi.data = Bytes(q)
  <2>1. AddMbuf(M, tb, toff) = [data |-> FirstBytes(q, k + toff),
                                left |-> M.left, niov |-> M.niov + 1]
    BY <1>3, <1>4
  <2>2. mi.data = FirstBytes(q, PktLen[q])
    BY <1>4, <2>1
  <2> QED
    BY <2>2 DEF Bytes, FirstBytes
<1>6. Finish(mi, Drop(tb, toff))
  BY <1>1, <1>3
<1> HIDE DEF mi
<1>7. \A p \in Pkts : \A i \in 1 .. toff : tb[i] = <<p, 1>> => p = q
  <2> TAKE p \in Pkts
  <2> TAKE i \in 1 .. toff
  <2>1. i \in 1 .. Len(tb) /\ i <= toff
    BY <1>1, <1>2
  <2> QED
    BY <1>1, <2>1, NoHeadBefore
<1>8. \A p \in Pkts : InProgressIs(p) => p = q
  BY <1>3 DEF InProgressIs
<1> QED
  BY <1>1, <1>2, <1>4, <1>5, <1>6, <1>7, <1>8, FinishPasses

\* add_to_inner_packet does not lose sight of a packet.
LEMMA KeepingAdd ==
    ASSUME Sending, Receiving, Joining, Keeping, rxorder \in Seq(Pkts),
           AddSkip \/ AddStart \/ AddMore \/ AddTail, UNCHANGED invars
    PROVE  Keeping'
<1>1. /\ rpc = "add" /\ UNCHANGED <<newest, accepted>>
  BY DEF AddSkip, AddStart, AddMore, AddTail, history
<1>2. UNCHANGED <<carriers, seq>>
  BY DEF invars
<1>3. PassesNone
  BY SkipPasses, StartPasses, MorePasses, TailPasses
<1>4. AddDoes
  BY AddStepDoes
<1>5. /\ \A s \in accepted : s <= newest
      /\ PadLast(tb) /\ Linked(carriers, seq, newest, Cont(tb))
      /\ \A p \in Pkts : Pursued(p) => InProgressIs(p) \/ p \in Heads(tb)
      /\ Sound(tb, toff, Len(tb)) /\ toff \in Nat /\ tb \in Seq(Cell) /\ Len(tb) \in Nat
  BY <1>1, EmptyLen DEF Keeping, Joining, Receiving
<1>6. ASSUME NEW p \in Pkts, Pursued(p)'
      PROVE  p \notin Done' /\ (InProgressIs(p) \/ p \in Heads(tb))
  <2>1. p \notin Done' /\ (p \notin Done => Pursued(p))
    BY <1>1, <1>2, <1>6 DEF Pursued
  <2>2. Done \subseteq Done'
    <3>1. CASE UsesUp
      BY <3>1 DEF UsesUp, Done
    <3>2. ASSUME NEW q \in Pkts, NEW n \in 1 .. Len(tb), Finishes(q, n)
          PROVE  Done \subseteq Done'
      <4>1. rxorder' = Append(rxorder, q)
        BY <3>2 DEF Finishes
      <4> QED
        BY <4>1, ElemsAppend DEF Done
    <3> QED
      BY <1>4, <3>1, <3>2 DEF AddDoes
  <2> QED
    BY <1>5, <2>1, <2>2
<1>7. \A p \in Pkts : Pursued(p)' =>
         IF rpc' = "add" THEN p \in Heads(tb') ELSE InProgressIs(p)'
  BY <1>3, <1>6 DEF PassesNone
<1>8. CASE UsesUp
  <2>1. rpc' # "add" /\ (M'.data # << >> => Wanted(M') = Cont(tb))
    BY <1>8 DEF UsesUp, OuterDone
  <2>2. M'.data # << >> => Linked(carriers', seq', newest', Wanted(M'))
    BY <1>1, <1>2, <1>5, <2>1
  <2>3. Linked(carriers, seq, newest, Wanted(M))' = Linked(carriers', seq', newest', Wanted(M'))
    BY DEF Linked, Wanted
  <2> QED
    BY <1>1, <1>5, <1>7, <2>1, <2>2, <2>3 DEF Keeping
<1>9. ASSUME NEW q \in Pkts, NEW n \in 1 .. Len(tb), Finishes(q, n)
      PROVE  Keeping'
  <2>1. CASE n = Len(tb)
    <3>1. rpc' # "add" /\ m' = NULL
      BY <1>9, <2>1 DEF Finishes, OuterDone
    <3>2. M'.data = << >>
      BY <3>1 DEF M, EmptyMiov
    <3> QED
      BY <1>1, <1>5, <1>7, <3>1, <3>2 DEF Keeping
  <2>2. CASE n # Len(tb)
    <3>1. tb' = Drop(tb, n) /\ toff' = 0 /\ rpc' = "add" /\ tb[n] = <<q, PktLen[q]>>
      BY <1>9, <2>2 DEF Finishes
    <3>2. n \in 1 .. Len(tb) - 1 /\ n \in 0 .. Len(tb) - 1
      BY <1>5, <2>2
    <3>3. tb[n][1] = q /\ tb[n][2] = PktLen[q]
      BY <3>1
    <3>4. tb[n + 1] = PAD \/ tb[n + 1][2] = 1
      BY <1>5, <3>2, <3>3, AfterEnd DEF Sound
    <3>5. /\ Cont(Drop(tb, n)) = Cont(tb) /\ Len(Drop(tb, n)) = Len(tb) - n
          /\ \A i \in 1 .. Len(tb) - n : Drop(tb, n)[i] = tb[n + i]
      BY <1>5, <3>2, <3>4, SoundDrop
    <3>6. PadLast(Drop(tb, n))
      <4> SUFFICES ASSUME NEW i \in 1 .. Len(tb) - n - 1, Drop(tb, n)[i] = PAD
                   PROVE  Drop(tb, n)[i + 1] = PAD
        BY <3>5 DEF PadLast
      <4>1. /\ i \in 1 .. Len(tb) - n /\ i + 1 \in 1 .. Len(tb) - n
            /\ n + i \in 1 .. Len(tb) - 1 /\ (n + i) + 1 = n + (i + 1)
        BY <1>5, <3>2
      <4>2. tb[n + i] = PAD
        BY <3>5, <4>1
      <4>3. tb[(n + i) + 1] = PAD
        BY <1>5, <4>1, <4>2 DEF PadLast
      <4> QED
        BY <3>5, <4>1, <4>3
    <3>7. Linked(carriers', seq', newest', Cont(tb'))
      BY <1>1, <1>2, <1>5, <3>1, <3>5
    <3>8. Linked(carriers, seq, newest, Cont(tb))' = Linked(carriers', seq', newest', Cont(tb'))
      BY DEF Linked, Cont
    <3>9. PadLast(tb') = PadLast(tb)' /\ Heads(tb') = Heads(tb)'
      BY DEF PadLast, Heads
    <3> QED
      BY <1>1, <1>5, <1>7, <3>1, <3>6, <3>7, <3>8, <3>9 DEF Keeping
  <2> QED
    BY <2>1, <2>2
<1> QED
  BY <1>4, <1>8, <1>9 DEF AddDoes

LEMMA KeepInit == Init => KInv
<1> SUFFICES ASSUME Init PROVE KInv
  OBVIOUS
<1>1. /\ carriers = [p \in Pkts |-> {}] /\ sentall = {} /\ wpc = "idle" /\ leftover = << >>
      /\ net = << >> /\ accepted = {} /\ m = NULL /\ rpc = "top" /\ newest = 0
  BY DEF Init, IngressInit, NetInit, ReassemblyInit
<1>2. Pending = PAD
  BY <1>1 DEF Pending
<1>3. Noted
  BY <1>1, <1>2 DEF Noted
<1>4. Flying = {}
  BY <1>1 DEF Flying, Elems
<1>5. M.data = << >>
  BY <1>1 DEF M, EmptyMiov
<1>6. \A p \in Pkts : ~Pursued(p)
  BY <1>1 DEF Pursued
<1>7. Keeping
  BY <1>1, <1>5, <1>6 DEF Keeping
<1> QED
  BY <1>3, <1>4, <1>7 DEF KInv, Carried

LEMMA KeepStep == IInv /\ JInv /\ OInv /\ KInv /\ NoWrap' /\ [Next]_vars => KInv'
<1> SUFFICES ASSUME IInv, JInv, OInv, KInv, NoWrap', [Next]_vars PROVE KInv'
  OBVIOUS
<1>1. Sending /\ InFlight /\ Receiving /\ seq \in Nat
  BY Sizes DEF IInv, Sending, Packing
<1>2. Cutting /\ Flow /\ (~blind => Joining)
  BY DEF JInv
<1>3. TakenOnce /\ PackedInOrder /\ (~blind => rxorder \in Seq(Pkts))
  BY DEF OInv, FinishedInOrder
<1>4. Noted /\ Carried /\ (~blind => Keeping)
  BY DEF KInv
<1>5. CASE IngressNext /\ UNCHANGED outvars
  <2>1. seq' # 0
    BY DEF NoWrap
  <2>2. SenderNotes
    BY <1>1, <1>2, <1>3, <1>4, <1>5, <2>1, SenderNotesStep
  <2>3. Noted' /\ Carried'
    BY <1>1, <1>2, <1>4, <2>2, CarriedStep DEF SenderNotes
  <2>4. UNCHANGED <<newest, accepted, rxorder, m, tb, toff, rpc, blind>>
    BY <1>5 DEF outvars
  <2>5. ~blind => Keeping'
    BY <1>1, <1>2, <1>4, <2>2, <2>4, KeepingSame
  <2> QED
    BY <2>3, <2>4, <2>5 DEF KInv
<1>6. ASSUME UNCHANGED invars, Flying' \subseteq Flying
      PROVE  Noted' /\ Carried' /\ RecordsStay
  <2>1. UNCHANGED <<carriers, sentall, txorder, seq, wpc, wm, leftover, body, offset>>
    BY <1>6 DEF invars
  <2>2. Taken' = Taken /\ InSender' = InSender /\ Pending' = Pending
    BY <2>1 DEF Taken, Elems, InSender, InWork, Pending
  <2>3. Noted'
    BY <1>4, <2>1, <2>2 DEF Noted
  <2>4. RecordsStay
    BY <1>6, <2>1 DEF RecordsStay
  <2>5. Carried'
    BY <1>1, <1>2, <1>4, <2>4, CarriedStep
  <2> QED
    BY <2>3, <2>4, <2>5
<1>7. CASE ReassemblyNext /\ UNCHANGED invars
  <2>1. Noted' /\ Carried' /\ RecordsStay
    BY <1>1, <1>6, <1>7, ReceiverFlying
  <2>2. blind => blind'
    BY <1>7 DEF ReassemblyNext, TfsReader, RTop, RLimited, ROld, RTake, AddSkip, AddStart,
                AddMore, AddTail, WriteIntf, history
  <2> SUFFICES ASSUME ~blind' PROVE Keeping'
    BY <2>1 DEF KInv
  <2>3. Joining /\ Keeping /\ rxorder \in Seq(Pkts)
    BY <1>2, <1>3, <1>4, <2>2
  <2>4. CASE RTop \/ RLimited \/ ROld \/ WriteIntf
    <3>1. /\ UNCHANGED <<newest, accepted, rxorder, m, tb, toff>>
          /\ rpc' = rpc \/ (rpc # "add" /\ rpc' # "add")
      BY <2>4 DEF RTop, RLimited, ROld, WriteIntf, history
    <3> QED
      BY <1>1, <1>4, <2>1, <2>3, <3>1, KeepingSame
  <2>5. CASE RTake
    BY <1>1, <1>2, <1>4, <1>7, <2>3, <2>5, KeepingTake
  <2>6. CASE AddSkip \/ AddStart \/ AddMore \/ AddTail
    BY <1>1, <1>7, <2>3, <2>6, KeepingAdd
  <2> QED
    BY <1>7, <2>4, <2>5, <2>6 DEF ReassemblyNext, TfsReader
<1>8. CASE (NetNext \/ UNCHANGED netvars) /\ UNCHANGED <<invars, outvars>>
  <2>1. Flying' \subseteq Flying
    BY <1>1, <1>8, NetFlying DEF Flying, netvars
  <2>2. Noted' /\ Carried' /\ RecordsStay
    BY <1>6, <1>8, <2>1
  <2>3. UNCHANGED <<newest, accepted, rxorder, m, tb, toff, rpc, blind>>
    BY <1>8 DEF outvars
  <2>4. ~blind => Keeping'
    BY <1>1, <1>2, <1>4, <2>2, <2>3, KeepingSame
  <2> QED
    BY <2>2, <2>3, <2>4 DEF KInv
<1> QED
  BY <1>5, <1>7, <1>8 DEF Next, vars

LEMMA KeepInvariance == Spec /\ []NoWrap => []KInv
<1>1. IInv /\ JInv /\ OInv /\ KInv /\ NoWrap' /\ [Next]_vars => KInv'
  BY KeepStep
<1> QED
  BY <1>1, KeepInit, OrderInvariance, SoundInvariance, TunnelInvariance, PTL DEF Spec

\* A packet that was sent whole, and of which no outer packet was missed, cannot be in
\* progress: the next outer packet would carry more of it, or the sender has more.
LEMMA NothingLost ==
    ASSUME IInv, JInv, OInv, KInv, ~blind
    PROVE  LossIsContained
<1> SUFFICES ASSUME rpc = "top", NEW p \in sentall, carriers[p] \subseteq accepted,
                    ~ \E i \in DOMAIN rxorder : rxorder[i] = p
             PROVE  FALSE
  BY DEF LossIsContained
<1>1. /\ Joining /\ Noted /\ Keeping /\ p \in Pkts
      /\ seq \in Nat /\ newest \in Nat /\ newest < seq
  BY Sizes DEF IInv, JInv, KInv, Counting, Joining, Packing
<1>2. p \notin Done
  BY DEF Done, Elems
<1>3. /\ \A s \in accepted : s <= newest
      /\ M.data # << >> => Linked(carriers, seq, newest, Wanted(M)) /\ InHand(M)
                           /\ Expecting(newest, Wanted(M))
      /\ Pursued(p) => InProgressIs(p)
  BY <1>1 DEF Keeping, Joining
<1>4. Pursued(p)
  BY <1>1, <1>2, <1>3 DEF Pursued, Noted
<1>5. /\ Linked(carriers, seq, newest, Wanted(M)) /\ Expecting(newest, Wanted(M))
      /\ Wanted(M) # PAD /\ Wanted(M)[1] = p
  <2>1. M.data # << >> /\ M.data[1][1] = p
    BY <1>3, <1>4 DEF InProgressIs
  <2>2. Wanted(M) # PAD
    BY <1>3, <2>1, InHandFacts
  <2> QED
    BY <1>3, <2>1, <2>2 DEF Wanted
<1>6. CASE newest + 1 < seq
  <2>1. newest + 1 \in accepted
    BY <1>5, <1>6 DEF Linked
  <2> QED
    BY <1>1, <1>3, <2>1
<1>7. CASE newest + 1 = seq
  <2>1. Pending = Wanted(M)
    BY <1>5, <1>7 DEF Expecting, Follows
  <2> QED
    BY <1>1, <1>5, <2>1 DEF Noted
<1> QED
  BY <1>1, <1>6, <1>7

\* A loss costs only the packets that had a piece in it: of a packet that was sent whole,
\* and no outer packet of which was missed, nothing is lost, unless the receiver took the
\* first outer packet after a report for the wrong one.
THEOREM LossContained == Spec /\ []NoWrap => [](~blind => LossIsContained)
<1>1. IInv /\ JInv /\ OInv /\ KInv => (~blind => LossIsContained)
  BY NothingLost
<1> QED
  BY <1>1, KeepInvariance, OrderInvariance, SoundInvariance, TunnelInvariance, PTL

\* Without reports, as in one-packet mode, that is always so.
THEOREM LossContainedUnreported == ~UseAcks => (Spec /\ []NoWrap => []LossIsContained)
<1> SUFFICES ASSUME ~UseAcks PROVE Spec /\ []NoWrap => []LossIsContained
  OBVIOUS
<1>1. JInv => ~blind
  BY DEF JInv
<1> QED
  BY <1>1, LossContained, SoundInvariance, PTL

\* All that the tunnel promises when reports are sent: nothing aborts, losses are
\* contained, and without a congestion limit none escapes the reports.
THEOREM SoundUntilBlind == ~Congest => (Spec /\ []NoWrap => []SoundUnlessBlind)
<1> SUFFICES ASSUME ~Congest PROVE Spec /\ []NoWrap => []SoundUnlessBlind
  OBVIOUS
<1>1. (~blind => NoAbort) /\ (~blind => LossIsContained) /\ (~unseen => DropsReported)
        => SoundUnlessBlind
  BY DEF SoundUnlessBlind
<1>2. Spec /\ []NoWrap => [](~unseen => DropsReported)
  BY LossesReported
<1> QED
  BY <1>1, <1>2, NeverAborts, LossContained, PTL
=============================================================================
