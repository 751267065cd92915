---------------------------- MODULE FramingProofs ----------------------------
(***************************************************************************)
(* The parser of the packet stream, for every packet size, receive size,   *)
(* set of opcodes and set of messages, and however the stream is cut.      *)
(***************************************************************************)
EXTENDS Framing, NatSets, SequenceTheorems, TLAPS

Units == 0..Word - 1

\* What a packet on the wire may hold: it fits MAX_PACKET_SIZE with its header.
Small == {p \in [opcode : Units, payload : Seq(Units)] :
              HeaderSize + Len(p.payload) <= MaxPacketSize}

\* The units of a packet.
Header(p) == <<HeaderSize + Len(p.payload), p.opcode>>
Frame(p) == Header(p) \o p.payload

\* The encodings of the prefixes of d: Encoded for any sequence of packets.
EncodingOf(d) ==
    CHOOSE f : f = [n \in Nat |-> IF n = 0 THEN <<>>
                                 ELSE f[n - 1]
                                      \o <<HeaderSize + Len(d[n].payload), d[n].opcode>>
                                      \o d[n].payload]

-----------------------------------------------------------------------------
\* Concatenation under a name of its own: a leaf that only regroups keeps it folded.
Cat(a, b) == a \o b

LEMMA CatAssociative ==
    ASSUME NEW S, NEW a \in Seq(S), NEW b \in Seq(S), NEW c \in Seq(S)
    PROVE  Cat(Cat(a, b), c) = Cat(a, Cat(b, c))
BY ConcatAssociative DEF Cat

LEMMA CatType ==
    ASSUME NEW S, NEW a \in Seq(S), NEW b \in Seq(S)
    PROVE  Cat(a, b) \in Seq(S)
BY ConcatProperties DEF Cat

\* A cut of a sequence, its elements counted from the unit before it.
LEMMA Slice ==
    ASSUME NEW S, NEW s \in Seq(S), NEW m \in Nat, NEW n \in Nat, m <= n, n <= Len(s)
    PROVE  /\ SubSeq(s, m + 1, n) \in Seq(S)
           /\ Len(SubSeq(s, m + 1, n)) = n - m
           /\ \A i \in 1..n - m : SubSeq(s, m + 1, n)[i] = s[m + i]
<1> DEFINE q == SubSeq(s, m + 1, n)
<1>1. \A i \in m + 1..n : s[i] \in S
  OBVIOUS
<1>2. /\ q \in Seq(S)
      /\ Len(q) = IF m + 1 <= n THEN n - (m + 1) + 1 ELSE 0
      /\ \A i \in 1..n - (m + 1) + 1 : q[i] = s[(m + 1) + i - 1]
  BY <1>1, SubSeqProperties
<1> HIDE DEF q
<1>3. Len(q) = n - m
  BY <1>2
<1>4. ASSUME NEW i \in 1..n - m PROVE q[i] = s[m + i]
  <2>1. i \in 1..n - (m + 1) + 1 /\ (m + 1) + i - 1 = m + i
    OBVIOUS
  <2> QED
    BY <2>1, <1>2
<1> QED
  BY <1>2, <1>3, <1>4 DEF q

\* The function that concatenates h[n] and b[n] for n from 1 on exists.
Chain(f, h, b) == f = [n \in Nat |-> IF n = 0 THEN <<>> ELSE f[n - 1] \o h[n] \o b[n]]

LEMMA ConcatenationExists ==
    ASSUME NEW h, NEW b
    PROVE  \E f : Chain(f, h, b)
<1> DEFINE Join(x, i) == x \o h[i] \o b[i]
           Value(g, i) == IF i = 0 THEN <<>> ELSE Join(g[i - 1], i)
           Upto(g, n) == \A i \in 0..n : g[i] = Value(g, i)
           T == {n \in Nat : \E g : Upto(g, n)}
<1> HIDE DEF Join
<1>1. 0 \in T
  <2>1. Upto([i \in 0..0 |-> <<>>], 0)
    OBVIOUS
  <2> QED
    BY <2>1
<1>2. ASSUME NEW n \in Nat, n \in T PROVE n + 1 \in T
  <2>1. PICK g : Upto(g, n)
    BY <1>2
  <2> DEFINE k == [i \in 0..n + 1 |-> IF i <= n THEN g[i] ELSE Join(g[n], i)]
  <2>2. \A i \in 0..n : k[i] = g[i]
    OBVIOUS
  <2>3. k[n + 1] = Join(k[n], n + 1)
    OBVIOUS
  <2> HIDE DEF k
  <2>4. ASSUME NEW i \in 0..n + 1 PROVE k[i] = Value(k, i)
    <3>1. CASE i = n + 1
      BY <3>1, <2>3
    <3>2. CASE i = 0
      BY <3>2, <2>1, <2>2
    <3>3. CASE i \in 1..n
      <4>1. g[i] = Join(g[i - 1], i)
        BY <3>3, <2>1
      <4>2. k[i] = g[i] /\ k[i - 1] = g[i - 1]
        BY <3>3, <2>2
      <4> QED
        BY <3>3, <4>1, <4>2
    <3> QED
      BY <3>1, <3>2, <3>3
  <2>5. Upto(k, n + 1)
    BY <2>4
  <2> QED
    BY <2>5
<1>3. Nat \subseteq T
  <2> HIDE DEF T
  <2> QED
    BY <1>1, <1>2, NatSetInduction
<1>4. ASSUME NEW m \in Nat, NEW n \in Nat, NEW f, NEW g, Upto(f, m), Upto(g, n)
      PROVE  \A i \in Nat : i <= m /\ i <= n => f[i] = g[i]
  <2> DEFINE E == {i \in Nat : i <= m /\ i <= n => f[i] = g[i]}
  <2>1. 0 \in E
    BY <1>4
  <2>2. ASSUME NEW i \in Nat, i \in E PROVE i + 1 \in E
    <3> SUFFICES ASSUME i + 1 <= m, i + 1 <= n PROVE f[i + 1] = g[i + 1]
      OBVIOUS
    <3>1. f[i] = g[i]
      BY <2>2
    <3>2. f[i + 1] = Join(f[i], i + 1) /\ g[i + 1] = Join(g[i], i + 1)
      BY <1>4
    <3> QED
      BY <3>1, <3>2
  <2> HIDE DEF E
  <2>3. Nat \subseteq E
    BY <2>1, <2>2, NatSetInduction
  <2> QED
    BY <2>3 DEF E
<1> DEFINE G(n) == CHOOSE g : Upto(g, n)
           F == [n \in Nat |-> G(n)[n]]
<1>5. \A n \in Nat : Upto(G(n), n)
  BY <1>3
<1>6. ASSUME NEW n \in Nat PROVE F[n] = IF n = 0 THEN <<>> ELSE Join(F[n - 1], n)
  <2>1. CASE n = 0
    BY <2>1, <1>5
  <2>2. CASE n # 0
    <3>0. n - 1 \in Nat
      BY <2>2
    <3>1. Upto(G(n), n) /\ Upto(G(n - 1), n - 1)
      BY <1>5, <3>0
    <3>2. G(n)[n] = Join(G(n)[n - 1], n)
      BY <3>1, <2>2
    <3>3. G(n)[n - 1] = G(n - 1)[n - 1]
      <4> HIDE DEF G, Upto
      <4> QED
        BY <1>4, <3>0, <3>1
    <3>4. F[n] = G(n)[n] /\ F[n - 1] = G(n - 1)[n - 1]
      BY <3>0
    <3> QED
      BY <2>2, <3>2, <3>3, <3>4
  <2> QED
    BY <2>1, <2>2
<1>7. F = [n \in Nat |-> IF n = 0 THEN <<>> ELSE Join(F[n - 1], n)]
  <2> HIDE DEF G
  <2>1. F = [n \in Nat |-> F[n]]
    OBVIOUS
  <2> HIDE DEF F
  <2> QED
    BY <2>1, <1>6
<1> QED
  BY <1>7 DEF Join, Chain

-----------------------------------------------------------------------------
\* The encoding of a sequence of packets.

LEMMA EncodedIs == Encoded = EncodingOf(delivered) /\ Encoded' = EncodingOf(delivered')
BY DEF Encoded, EncodingOf

\* The recursion does define a function.
LEMMA EncodingEquation ==
    ASSUME NEW d
    PROVE  /\ EncodingOf(d)[0] = <<>>
           /\ \A n \in Nat \ {0} :
                  EncodingOf(d)[n] = EncodingOf(d)[n - 1] \o Header(d[n]) \o d[n].payload
<1> DEFINE h == [n \in Nat |-> Header(d[n])]
           b == [n \in Nat |-> d[n].payload]
           Fits(f) == f = [n \in Nat |-> IF n = 0 THEN <<>>
                                        ELSE f[n - 1] \o Header(d[n]) \o d[n].payload]
<1>1. \E f : Fits(f)
  <2>2. \A n \in Nat : h[n] = Header(d[n]) /\ b[n] = d[n].payload
    OBVIOUS
  <2> HIDE DEF h, b, Fits
  <2>0. PICK f : Chain(f, h, b)
    BY ConcatenationExists
  <2>1. f = [n \in Nat |-> IF n = 0 THEN <<>> ELSE f[n - 1] \o h[n] \o b[n]]
    BY <2>0 DEF Chain
  <2> USE DEF Fits
  <2> QED
    BY <2>1, <2>2
<1>2. EncodingOf(d) = CHOOSE f : Fits(f)
  BY DEF EncodingOf, Header
<1>3. Fits(EncodingOf(d))
  <2> HIDE DEF Fits
  <2> QED
    BY <1>1, <1>2
<1> QED
  BY <1>3

\* It looks at no more of the sequence than the prefix it encodes.
LEMMA EncodingPrefix ==
    ASSUME NEW d, NEW e, NEW n \in Nat, \A i \in 1..n : d[i] = e[i]
    PROVE  EncodingOf(d)[n] = EncodingOf(e)[n]
<1> DEFINE T == {m \in Nat : m <= n => EncodingOf(d)[m] = EncodingOf(e)[m]}
<1>1. 0 \in T
  BY EncodingEquation
<1>2. ASSUME NEW m \in Nat, m \in T PROVE m + 1 \in T
  <2> SUFFICES ASSUME m + 1 <= n PROVE EncodingOf(d)[m + 1] = EncodingOf(e)[m + 1]
    OBVIOUS
  <2>1. EncodingOf(d)[m] = EncodingOf(e)[m] /\ d[m + 1] = e[m + 1]
    BY <1>2
  <2>2. m + 1 \in Nat \ {0} /\ (m + 1) - 1 = m
    OBVIOUS
  <2>3. EncodingOf(d)[m + 1] = EncodingOf(d)[m] \o Header(d[m + 1]) \o d[m + 1].payload
    BY <2>2, EncodingEquation
  <2>4. EncodingOf(e)[m + 1] = EncodingOf(e)[m] \o Header(e[m + 1]) \o e[m + 1].payload
    BY <2>2, EncodingEquation
  <2> QED
    BY <2>1, <2>3, <2>4
<1> HIDE DEF T
<1>3. Nat \subseteq T
  BY <1>1, <1>2, NatSetInduction
<1> QED
  BY <1>3 DEF T

\* The constants, as numbers.
LEMMA Bounds ==
    /\ Word \in Nat /\ MaxPacketSize \in Nat /\ 2 <= MaxPacketSize /\ MaxPacketSize < Word
    /\ RecvPostSize \in Nat \ {0} /\ HeaderSize = 2
    /\ ValidOpcodes \subseteq Units /\ HandledOpcodes \subseteq ValidOpcodes
    /\ RawUnits \subseteq Units
    /\ \A msg \in Messages : msg \in [opcode : HandledOpcodes, payload : Seq(Units)]
BY FramingAssumption DEF HeaderSize, Units

\* The units of one packet.
LEMMA FrameUnits ==
    ASSUME NEW p \in Small
    PROVE  /\ Header(p) \in Seq(Units) /\ p.payload \in Seq(Units)
           /\ Frame(p) \in Seq(Units)
           /\ Len(Frame(p)) = 2 + Len(p.payload) /\ Len(p.payload) \in Nat
           /\ Frame(p)[1] = 2 + Len(p.payload) /\ Frame(p)[2] = p.opcode
           /\ \A i \in 1..Len(p.payload) : Frame(p)[2 + i] = p.payload[i]
<1>1. /\ p.payload \in Seq(Units) /\ p.opcode \in Units /\ Len(p.payload) \in Nat
      /\ 2 + Len(p.payload) <= MaxPacketSize
  BY Bounds DEF Small
<1>2. 2 + Len(p.payload) \in Units
  BY <1>1, Bounds DEF Units
<1>3. /\ Header(p) \in Seq(Units) /\ Len(Header(p)) = 2
      /\ Header(p)[1] = 2 + Len(p.payload) /\ Header(p)[2] = p.opcode
  BY <1>1, <1>2, Bounds DEF Header
<1>4. /\ Frame(p) \in Seq(Units) /\ Len(Frame(p)) = 2 + Len(p.payload)
      /\ \A i \in 1..2 + Len(p.payload) :
             Frame(p)[i] = IF i <= 2 THEN Header(p)[i] ELSE p.payload[i - 2]
  <2> DEFINE h == Header(p)
             b == p.payload
  <2>1. h \in Seq(Units) /\ b \in Seq(Units) /\ Len(h) = 2
    BY <1>1, <1>3
  <2>2. Frame(p) = h \o b
    BY DEF Frame
  <2> HIDE DEF h, b
  <2>3. /\ h \o b \in Seq(Units) /\ Len(h \o b) = Len(h) + Len(b)
        /\ \A i \in 1..Len(h) + Len(b) : (h \o b)[i] = IF i <= Len(h) THEN h[i] ELSE b[i - Len(h)]
    BY <2>1, ConcatProperties
  <2> QED
    BY <2>1, <2>2, <2>3 DEF h, b
<1>5. \A i \in 1..Len(p.payload) : Frame(p)[2 + i] = p.payload[i]
  BY <1>1, <1>4
<1> QED
  BY <1>1, <1>3, <1>4, <1>5

\* The encoding of n packets is one of units, and ends with the last packet.
LEMMA EncodingUnits ==
    ASSUME NEW d \in Seq(Small)
    PROVE  \A n \in 0..Len(d) :
               /\ EncodingOf(d)[n] \in Seq(Units)
               /\ n # 0 => EncodingOf(d)[n] = EncodingOf(d)[n - 1] \o Frame(d[n])
<1> DEFINE T == {n \in Nat : n <= Len(d) => EncodingOf(d)[n] \in Seq(Units)}
<1>0. Len(d) \in Nat /\ \A n \in 1..Len(d) : d[n] \in Small
  BY ElementOfSeq, LenProperties
<1>1. 0 \in T
  BY EncodingEquation, EmptySeq
<1>2. ASSUME NEW n \in Nat, n + 1 <= Len(d), EncodingOf(d)[n] \in Seq(Units)
      PROVE  /\ EncodingOf(d)[n + 1] \in Seq(Units)
             /\ EncodingOf(d)[n + 1] = EncodingOf(d)[n] \o Frame(d[n + 1])
  <2>1. d[n + 1] \in Small
    BY <1>0, <1>2
  <2>2. Header(d[n + 1]) \in Seq(Units) /\ d[n + 1].payload \in Seq(Units)
    BY <2>1, FrameUnits
  <2>3. n + 1 \in Nat \ {0} /\ (n + 1) - 1 = n
    OBVIOUS
  <2>4. EncodingOf(d)[n + 1] = EncodingOf(d)[n] \o Header(d[n + 1]) \o d[n + 1].payload
    BY <2>3, EncodingEquation
  <2>5. EncodingOf(d)[n + 1] = EncodingOf(d)[n] \o Frame(d[n + 1])
    <3> DEFINE a == EncodingOf(d)[n]
               h == Header(d[n + 1])
               b == d[n + 1].payload
    <3>1. a \in Seq(Units) /\ h \in Seq(Units) /\ b \in Seq(Units)
      BY <1>2, <2>2
    <3>2. Frame(d[n + 1]) = h \o b /\ EncodingOf(d)[n + 1] = a \o h \o b
      BY <2>4 DEF Frame
    <3> HIDE DEF a, h, b
    <3>3. a \o h \o b = a \o (h \o b)
      <4>1. Cat(Cat(a, h), b) = Cat(a, Cat(h, b))
        BY <3>1, CatAssociative
      <4> QED
        BY <4>1 DEF Cat
    <3> QED
      BY <3>2, <3>3 DEF a
  <2>6. Frame(d[n + 1]) \in Seq(Units)
    BY <2>1, FrameUnits
  <2> QED
    BY <1>2, <2>5, <2>6, ConcatProperties
<1>3. \A n \in Nat : n \in T => n + 1 \in T
  <2> SUFFICES ASSUME NEW n \in Nat, n \in T, n + 1 <= Len(d)
               PROVE  EncodingOf(d)[n + 1] \in Seq(Units)
    OBVIOUS
  <2>1. EncodingOf(d)[n] \in Seq(Units)
    BY <1>0
  <2> QED
    BY <1>2, <2>1
<1>4. Nat \subseteq T
  <2> HIDE DEF T
  <2> QED
    BY <1>1, <1>3, NatSetInduction
<1> SUFFICES ASSUME NEW n \in 0..Len(d)
             PROVE  /\ EncodingOf(d)[n] \in Seq(Units)
                    /\ n # 0 => EncodingOf(d)[n] = EncodingOf(d)[n - 1] \o Frame(d[n])
  OBVIOUS
<1>5. EncodingOf(d)[n] \in Seq(Units)
  BY <1>0, <1>4
<1>6. ASSUME n # 0 PROVE EncodingOf(d)[n] = EncodingOf(d)[n - 1] \o Frame(d[n])
  <2>1. n - 1 \in Nat /\ (n - 1) + 1 = n /\ (n - 1) + 1 <= Len(d)
    BY <1>0, <1>6
  <2>2. EncodingOf(d)[n - 1] \in Seq(Units)
    BY <1>0, <1>4, <2>1
  <2> QED
    BY <1>2, <2>1, <2>2
<1> QED
  BY <1>5, <1>6

\* One more packet is encoded behind the others.
LEMMA EncodingAppend ==
    ASSUME NEW d \in Seq(Small), NEW p \in Small
    PROVE  /\ Len(Append(d, p)) = Len(d) + 1 /\ Append(d, p) \in Seq(Small)
           /\ EncodingOf(Append(d, p))[Len(d) + 1] = EncodingOf(d)[Len(d)] \o Frame(p)
<1>1. /\ Append(d, p) \in Seq(Small) /\ Len(Append(d, p)) = Len(d) + 1 /\ Len(d) \in Nat
      /\ Append(d, p)[Len(d) + 1] = p
      /\ \A i \in 1..Len(d) : Append(d, p)[i] = d[i]
  BY AppendProperties, LenProperties
<1>2. Len(d) + 1 \in 0..Len(Append(d, p)) /\ Len(d) + 1 # 0 /\ (Len(d) + 1) - 1 = Len(d)
  BY <1>1
<1>3. EncodingOf(Append(d, p))[Len(d) + 1]
        = EncodingOf(Append(d, p))[Len(d)] \o Frame(Append(d, p)[Len(d) + 1])
  BY <1>1, <1>2, EncodingUnits
<1>4. EncodingOf(Append(d, p))[Len(d)] = EncodingOf(d)[Len(d)]
  BY <1>1, EncodingPrefix
<1> QED
  BY <1>1, <1>3, <1>4

\* Behind the encoding of k packets comes the next packet.
LEMMA EncodingSplit ==
    ASSUME NEW d \in Seq(Small), NEW k \in Nat, k < Len(d)
    PROVE  \E r \in Seq(Units) :
               EncodingOf(d)[Len(d)] = EncodingOf(d)[k] \o (Frame(d[k + 1]) \o r)
<1> DEFINE Splits(n) == \E r \in Seq(Units) :
                            EncodingOf(d)[n] = EncodingOf(d)[k] \o (Frame(d[k + 1]) \o r)
           T == {n \in Nat : k + 1 <= n /\ n <= Len(d) => Splits(n)}
<1>0. Len(d) \in Nat /\ \A n \in 1..Len(d) : d[n] \in Small
  BY ElementOfSeq, LenProperties
<1>a. d[k + 1] \in Small /\ Frame(d[k + 1]) \in Seq(Units)
  BY <1>0, FrameUnits
<1>b. EncodingOf(d)[k] \in Seq(Units)
  <2>1. k \in 0..Len(d)
    BY <1>0
  <2> QED
    BY <2>1, EncodingUnits
<1>1. Splits(k + 1)
  <2>1. EncodingOf(d)[k + 1] = EncodingOf(d)[k] \o Frame(d[k + 1])
    <3>1. k + 1 \in 0..Len(d) /\ k + 1 # 0 /\ (k + 1) - 1 = k
      BY <1>0
    <3> QED
      BY <3>1, EncodingUnits
  <2>2. Frame(d[k + 1]) \o <<>> = Frame(d[k + 1])
    BY <1>a, ConcatEmptySeq
  <2>3. <<>> \in Seq(Units)
    BY EmptySeq
  <2> QED
    BY <2>1, <2>2, <2>3
<1>2. ASSUME NEW n \in Nat, k + 1 <= n, n + 1 <= Len(d), Splits(n) PROVE Splits(n + 1)
  <2>1. PICK r \in Seq(Units) : EncodingOf(d)[n] = EncodingOf(d)[k] \o (Frame(d[k + 1]) \o r)
    BY <1>2
  <2>2. EncodingOf(d)[n + 1] = EncodingOf(d)[n] \o Frame(d[n + 1])
    <3>1. n + 1 \in 0..Len(d) /\ n + 1 # 0 /\ (n + 1) - 1 = n
      BY <1>0, <1>2
    <3> QED
      BY <3>1, EncodingUnits
  <2>3. Frame(d[n + 1]) \in Seq(Units)
    BY <1>0, <1>2, FrameUnits
  <2> DEFINE a == EncodingOf(d)[k]
             f == Frame(d[k + 1])
             g == Frame(d[n + 1])
  <2>4. a \in Seq(Units) /\ f \in Seq(Units) /\ g \in Seq(Units)
    BY <1>a, <1>b, <2>3
  <2>5. EncodingOf(d)[n + 1] = (a \o (f \o r)) \o g
    BY <2>1, <2>2
  <2> HIDE DEF a, f, g
  <2>6. f \o r \in Seq(Units) /\ r \o g \in Seq(Units)
    BY <2>4, ConcatProperties
  <2>7. (a \o (f \o r)) \o g = a \o ((f \o r) \o g)
    <3> DEFINE e == f \o r
    <3>1. e \in Seq(Units)
      BY <2>6
    <3> HIDE DEF e
    <3>2. Cat(Cat(a, e), g) = Cat(a, Cat(e, g))
      BY <3>1, <2>4, CatAssociative
    <3> QED
      BY <3>2 DEF e, Cat
  <2>8. (f \o r) \o g = f \o (r \o g)
    <3>1. Cat(Cat(f, r), g) = Cat(f, Cat(r, g))
      BY <2>4, CatAssociative
    <3> QED
      BY <3>1 DEF Cat
  <2>9. EncodingOf(d)[n + 1] = a \o (f \o (r \o g))
    BY <2>5, <2>7, <2>8
  <2> QED
    BY <2>6, <2>9 DEF a, f
<1> HIDE DEF Splits
<1>3. \A n \in Nat : n \in T => n + 1 \in T
  <2> SUFFICES ASSUME NEW n \in Nat, n \in T, k + 1 <= n + 1, n + 1 <= Len(d)
               PROVE  Splits(n + 1)
    OBVIOUS
  <2>1. CASE n = k
    BY <2>1, <1>1
  <2>2. CASE n # k
    <3>1. k + 1 <= n /\ n <= Len(d)
      BY <1>0, <2>2
    <3> HIDE DEF Splits
    <3> QED
      BY <3>1, <1>2
  <2> QED
    BY <2>1, <2>2
<1>4. 0 \in T
  OBVIOUS
<1>5. Nat \subseteq T
  <2> HIDE DEF T
  <2> QED
    BY <1>3, <1>4, NatSetInduction
<1>6. Splits(Len(d))
  <2> HIDE DEF Splits
  <2> QED
    BY <1>0, <1>5
<1> QED
  BY <1>6 DEF Splits

-----------------------------------------------------------------------------
\* The parser.

\* What TryGetPacket has tested when it returns a packet.
LEMMA SuccessTests ==
    ASSUME NEW s, TryGetPacket(s) = "Success"
    PROVE  /\ ~(Len(s) < 2) /\ ~(s[1] < 2) /\ ~(s[1] > MaxPacketSize)
           /\ s[2] \in ValidOpcodes /\ ~(Len(s) < s[1])
BY DEF TryGetPacket, HeaderSize, IsValidOpcode

\* A packet taken off the stream is one HandlePacket may get, and its units and
\* the rest make up the stream.
LEMMA PacketTaken ==
    ASSUME NEW s \in Seq(Units), TryGetPacket(s) = "Success"
    PROVE  /\ Front(s) \in Packets /\ Front(s) \in Small
           /\ Remainder(s) \in Seq(Units)
           /\ Len(Remainder(s)) \in Nat /\ Len(Remainder(s)) <= Len(s)
           /\ Frame(Front(s)) \o Remainder(s) = s
           /\ Len(Front(s).payload) = s[1] - 2 /\ s[1] \in 2..MaxPacketSize
<1> DEFINE n == Len(s)
           z == s[1]
<1>0. n \in Nat /\ \A i \in 1..n : s[i] \in Units
  BY ElementOfSeq, LenProperties
<1>1. n >= 2 /\ z \in Int /\ 2 <= z /\ z <= MaxPacketSize /\ z <= n /\ s[2] \in ValidOpcodes
  <2>1. ~(n < 2) /\ ~(z < 2) /\ ~(z > MaxPacketSize) /\ s[2] \in ValidOpcodes /\ ~(n < z)
    BY SuccessTests
  <2>2. z \in Units
    BY <1>0, <2>1
  <2>3. z \in Int
    BY <2>2, Bounds DEF Units
  <2> HIDE DEF n, z
  <2> QED
    BY <1>0, <2>1, <2>3, Bounds
<1> HIDE DEF n, z
<1>2. /\ SubSeq(s, 3, z) \in Seq(Units) /\ Len(SubSeq(s, 3, z)) = z - 2
      /\ \A i \in 1..z - 2 : SubSeq(s, 3, z)[i] = s[2 + i]
  <2>1. 2 \in Nat /\ z \in Nat /\ 2 <= z /\ z <= Len(s) /\ 2 + 1 = 3
    BY <1>0, <1>1 DEF n
  <2> QED
    BY <2>1, <1>0, Slice
<1>3. /\ SubSeq(s, z + 1, n) \in Seq(Units) /\ Len(SubSeq(s, z + 1, n)) = n - z
      /\ \A i \in 1..n - z : SubSeq(s, z + 1, n)[i] = s[z + i]
  <2>1. z \in Nat /\ n \in Nat /\ z <= n /\ n <= Len(s)
    BY <1>0, <1>1 DEF n
  <2> QED
    BY <2>1, <1>0, Slice
<1>4. /\ Front(s) = [opcode |-> s[2], payload |-> SubSeq(s, 3, z)]
      /\ Remainder(s) = SubSeq(s, z + 1, n)
  BY DEF Front, Remainder, HeaderSize, n, z
<1>5. /\ Front(s).opcode = s[2] /\ Front(s).payload = SubSeq(s, 3, z)
      /\ Front(s) \in [opcode : ValidOpcodes, payload : Seq(Units)]
  BY <1>1, <1>2, <1>4
<1>6. Front(s) \in Packets /\ Front(s) \in Small
  <2>1. HeaderSize + Len(Front(s).payload) <= MaxPacketSize
    BY <1>1, <1>2, <1>5, Bounds
  <2>2. Front(s) \in [opcode : Units, payload : Seq(Units)]
    BY <1>5, Bounds
  <2> QED
    BY <1>5, <2>1, <2>2 DEF Packets, Small, Units
<1> DEFINE f == Frame(Front(s))
           r == Remainder(s)
<1>7. /\ f \in Seq(Units) /\ Len(f) = z /\ f[1] = z /\ f[2] = s[2]
      /\ \A i \in 1..z - 2 : f[2 + i] = s[2 + i]
  <2>1. Len(Front(s).payload) = z - 2
    BY <1>2, <1>5
  <2>2. /\ f \in Seq(Units) /\ Len(f) = 2 + (z - 2) /\ f[1] = 2 + (z - 2) /\ f[2] = s[2]
        /\ \A i \in 1..z - 2 : f[2 + i] = Front(s).payload[i]
    BY <1>5, <1>6, <2>1, FrameUnits
  <2> QED
    BY <2>2, <1>1, <1>2, <1>5
<1>8. f \o r = s
  <2>1. r \in Seq(Units) /\ Len(r) = n - z /\ \A i \in 1..n - z : r[i] = s[z + i]
    BY <1>3, <1>4
  <2>2. f[1] = s[1] /\ f \in Seq(Units) /\ Len(f) = z
    BY <1>7 DEF z
  <2>3. \A i \in 1..z : f[i] = s[i]
    <3> SUFFICES ASSUME NEW i \in 1..z PROVE f[i] = s[i]
      OBVIOUS
    <3>1. CASE i = 1
      BY <3>1, <2>2
    <3>2. CASE i = 2
      BY <3>2, <1>7
    <3>3. CASE i > 2
      <4>1. i - 2 \in 1..z - 2 /\ 2 + (i - 2) = i
        BY <3>3, <1>1
      <4> QED
        BY <4>1, <1>7
    <3> QED
      BY <3>1, <3>2, <3>3, <1>1
  <2> HIDE DEF f, r
  <2>4. /\ f \o r \in Seq(Units) /\ Len(f \o r) = Len(f) + Len(r)
        /\ \A i \in 1..Len(f) + Len(r) :
               (f \o r)[i] = IF i <= Len(f) THEN f[i] ELSE r[i - Len(f)]
    BY <2>1, <2>2, ConcatProperties
  <2>5. Len(f \o r) = n /\ \A i \in 1..n : (f \o r)[i] = s[i]
    <3>1. Len(f \o r) = n
      BY <2>1, <2>2, <2>4, <1>0, <1>1
    <3>2. ASSUME NEW i \in 1..n PROVE (f \o r)[i] = s[i]
      <4>0. i \in 1..Len(f) + Len(r) /\ i \in Int
        BY <2>1, <2>2, <1>0, <1>1
      <4>1. CASE i <= z
        <5>1. i \in 1..z
          BY <4>0, <4>1, <1>1
        <5> QED
          BY <4>0, <4>1, <5>1, <2>2, <2>3, <2>4
      <4>2. CASE i > z
        <5>1. i - z \in 1..n - z /\ z + (i - z) = i
          BY <4>2, <1>0, <1>1
        <5>2. (f \o r)[i] = r[i - z]
          BY <4>0, <4>2, <1>1, <2>2, <2>4
        <5> QED
          BY <5>1, <5>2, <2>1
      <4>3. i <= z \/ i > z
        BY <4>0, <1>1
      <4> QED
        BY <4>1, <4>2, <4>3
    <3> QED
      BY <3>1, <3>2
  <2> QED
    BY <2>4, <2>5, SeqEqual DEF n
<1>9. r \in Seq(Units) /\ Len(r) \in Nat /\ Len(r) <= n
  BY <1>0, <1>1, <1>3, <1>4
<1>10. Len(Front(s).payload) = z - 2 /\ z \in 2..MaxPacketSize
  BY <1>1, <1>2, <1>5, Bounds
<1> QED
  BY <1>6, <1>8, <1>9, <1>10 DEF n, z

\* Where the next packet of a framing peer begins, the parser takes that packet
\* or waits for the rest of it.
LEMMA FrontOfFrame ==
    ASSUME NEW s \in Seq(Units), NEW w \in Seq(Units), NEW r \in Seq(Units),
           NEW p \in Small, p.opcode \in HandledOpcodes, s \o w = Frame(p) \o r
    PROVE  /\ TryGetPacket(s) \in {"Success", "Incomplete"}
           /\ TryGetPacket(s) = "Success" =>
                  Front(s) = [opcode |-> p.opcode, payload |-> p.payload]
<1> DEFINE f == Frame(p)
<1>1. /\ f \in Seq(Units) /\ Len(f) = 2 + Len(p.payload) /\ Len(p.payload) \in Nat
      /\ f[1] = 2 + Len(p.payload) /\ f[2] = p.opcode /\ p.payload \in Seq(Units)
      /\ \A i \in 1..Len(p.payload) : f[2 + i] = p.payload[i]
      /\ 2 + Len(p.payload) <= MaxPacketSize
  BY FrameUnits, Bounds DEF Small
<1>2. s \o w = f \o r
  OBVIOUS
<1> HIDE DEF f
<1>3. /\ Len(s) \in Nat /\ Len(w) \in Nat /\ Len(r) \in Nat
      /\ \A i \in 1..Len(s) + Len(w) : (s \o w)[i] = IF i <= Len(s) THEN s[i] ELSE w[i - Len(s)]
      /\ Len(s \o w) = Len(s) + Len(w)
  BY ConcatProperties, LenProperties
<1>4. /\ \A i \in 1..Len(f) + Len(r) : (f \o r)[i] = IF i <= Len(f) THEN f[i] ELSE r[i - Len(f)]
      /\ Len(f \o r) = Len(f) + Len(r)
  <2>1. f \in Seq(Units) /\ r \in Seq(Units)
    BY <1>1
  <2> QED
    BY <2>1, ConcatProperties
<1>5. \A i \in 1..Len(s) : i <= Len(f) => s[i] = f[i]
  BY <1>1, <1>2, <1>3, <1>4
<1>6. Len(s) >= 2 => s[1] = 2 + Len(p.payload) /\ s[2] = p.opcode
  <2> SUFFICES ASSUME Len(s) >= 2 PROVE s[1] = 2 + Len(p.payload) /\ s[2] = p.opcode
    OBVIOUS
  <2>1. 1 \in 1..Len(s) /\ 2 \in 1..Len(s) /\ 1 <= Len(f) /\ 2 <= Len(f)
    BY <1>1, <1>3
  <2>2. s[1] = f[1] /\ s[2] = f[2]
    BY <2>1, <1>5
  <2> QED
    BY <2>2, <1>1
<1>7. TryGetPacket(s) \in {"Success", "Incomplete"}
  <2>1. CASE Len(s) < 2
    BY <2>1 DEF TryGetPacket, HeaderSize
  <2>2. CASE ~(Len(s) < 2)
    <3>1. s[1] = 2 + Len(p.payload) /\ s[2] = p.opcode
      BY <2>2, <1>3, <1>6
    <3>2. ~(s[1] < 2) /\ ~(s[1] > MaxPacketSize) /\ s[2] \in ValidOpcodes
      BY <3>1, <1>1, Bounds
    <3> QED
      BY <2>2, <3>2 DEF TryGetPacket, HeaderSize, IsValidOpcode
  <2> QED
    BY <2>1, <2>2
<1>8. ASSUME TryGetPacket(s) = "Success"
      PROVE  Front(s) = [opcode |-> p.opcode, payload |-> p.payload]
  <2>1. Len(s) >= 2 /\ s[1] = 2 + Len(p.payload) /\ s[2] = p.opcode /\ Len(s) >= s[1]
    BY <1>1, <1>3, <1>6, <1>8, SuccessTests
  <2>2. /\ SubSeq(s, 3, s[1]) \in Seq(Units)
        /\ Len(SubSeq(s, 3, s[1])) = Len(p.payload)
        /\ \A i \in 1..Len(p.payload) : SubSeq(s, 3, s[1])[i] = s[2 + i]
    <3>1. /\ 2 \in Nat /\ s[1] \in Nat /\ 2 <= s[1] /\ s[1] <= Len(s) /\ 2 + 1 = 3
          /\ s[1] - 2 = Len(p.payload)
      BY <2>1, <1>1, <1>3
    <3> QED
      BY <3>1, Slice
  <2>3. ASSUME NEW i \in 1..Len(p.payload) PROVE s[2 + i] = p.payload[i]
    <3>1. 2 + i \in 1..Len(s) /\ 2 + i <= Len(f)
      BY <1>1, <1>3, <2>1
    <3>2. s[2 + i] = f[2 + i]
      BY <3>1, <1>5
    <3> QED
      BY <3>2, <1>1
  <2>4. SubSeq(s, 3, s[1]) = p.payload
    <3> DEFINE b == SubSeq(s, 3, s[1])
               c == p.payload
    <3>1. b \in Seq(Units) /\ c \in Seq(Units) /\ Len(b) = Len(c)
      BY <1>1, <2>2
    <3>2. \A i \in 1..Len(b) : b[i] = c[i]
      BY <2>2, <2>3
    <3> HIDE DEF b, c
    <3>3. b = c
      BY <3>1, <3>2, SeqEqual
    <3> QED
      BY <3>3 DEF b, c
  <2>5. Front(s) = [opcode |-> s[2], payload |-> SubSeq(s, 3, s[1])]
    BY DEF Front, HeaderSize
  <2> QED
    BY <2>1, <2>4, <2>5
<1> QED
  BY <1>7, <1>8

\* Every packet leaves the parser nothing to wait for but a prefix of one packet.
LEMMA Waiting ==
    ASSUME NEW s \in Seq(Units), TryGetPacket(s) = "Incomplete"
    PROVE  Len(s) <= MaxPacketSize - 1
<1>0. Len(s) \in Nat /\ \A i \in 1..Len(s) : s[i] \in Units
  BY LenProperties, ElementOfSeq
<1>1. CASE Len(s) < 2
  BY <1>0, <1>1, Bounds
<1>2. CASE ~(Len(s) < 2)
  <2>1. s[1] \in Nat
    BY <1>0, <1>2, Bounds DEF Units
  <2>2. ~(s[1] > MaxPacketSize) /\ Len(s) < s[1]
    BY <1>2 DEF TryGetPacket, HeaderSize
  <2> QED
    BY <1>0, <2>1, <2>2, Bounds
<1> QED
  BY <1>1, <1>2

\* A message that gives a packet fits one, and its size does not wrap.
LEMMA MessageFramed ==
    ASSUME NEW msg \in Messages, MakePacketFromProto(msg) # <<>>
    PROVE  msg \in Small /\ MakePacketFromProto(msg) = Frame(msg)
<1>1. /\ msg.payload \in Seq(Units) /\ msg.opcode \in HandledOpcodes
      /\ msg \in [opcode : HandledOpcodes, payload : Seq(Units)] /\ Len(msg.payload) \in Nat
  BY Bounds
<1>2. /\ ~(Len(msg.payload) > MaxPacketSize - HeaderSize)
      /\ MakePacketFromProto(msg) = MakePacket(msg.opcode, msg.payload)
  BY DEF MakePacketFromProto
<1>3. 2 + Len(msg.payload) <= MaxPacketSize /\ 2 + Len(msg.payload) < Word
  BY <1>1, <1>2, Bounds
<1>4. msg \in Small
  BY <1>1, <1>3, Bounds DEF Small
<1>5. (HeaderSize + Len(msg.payload)) % Word = 2 + Len(msg.payload)
  <2> DEFINE n == 2 + Len(msg.payload)
  <2>1. n \in Nat /\ n < Word /\ Word \in Nat \ {0}
    BY <1>1, <1>3, Bounds
  <2> HIDE DEF n
  <2>2. n % Word = n
    BY <2>1
  <2> QED
    BY <2>2, Bounds DEF n
<1>6. MakePacket(msg.opcode, msg.payload) = SubSeq(Frame(msg), 1, 2 + Len(msg.payload))
  BY <1>5, Bounds, Zenon DEF MakePacket, Frame, Header
<1>7. Frame(msg) \in Seq(Units) /\ Len(Frame(msg)) = 2 + Len(msg.payload)
  BY <1>4, FrameUnits
<1>8. SubSeq(Frame(msg), 1, Len(Frame(msg))) = Frame(msg)
  BY <1>7, SubSeqFull
<1> QED
  BY <1>2, <1>4, <1>6, <1>7, <1>8

\* A receive takes the front of what is on the wire and leaves the rest.
LEMMA WireCut ==
    ASSUME NEW w \in Seq(Units), NEW n \in Nat, n <= Len(w), n # 0
    PROVE  /\ SubSeq(w, 1, n) \in Seq(Units) /\ Len(SubSeq(w, 1, n)) = n
           /\ SubSeq(w, n + 1, Len(w)) \in Seq(Units)
           /\ SubSeq(w, 1, n) \o SubSeq(w, n + 1, Len(w)) = w
<1>0. Len(w) \in Nat
  BY LenProperties
<1>1. SubSeq(w, 1, n) \in Seq(Units) /\ Len(SubSeq(w, 1, n)) = n
  <2>1. 0 \in Nat /\ 0 <= n /\ 0 + 1 = 1 /\ n - 0 = n
    OBVIOUS
  <2> QED
    BY <2>1, Slice
<1>2. SubSeq(w, n + 1, Len(w)) \in Seq(Units)
  BY <1>0, Slice
<1>3. SubSeq(w, 1, n) \o SubSeq(w, n + 1, Len(w)) = SubSeq(w, 1, Len(w))
  <2>1. 1 \in 1..Len(w) + 1 /\ n \in 1 - 1..Len(w) /\ Len(w) \in n..Len(w)
    BY <1>0
  <2> QED
    BY <2>1, ConcatAdjacentSubSeq
<1>4. SubSeq(w, 1, Len(w)) = w
  BY SubSeqFull
<1> QED
  BY <1>1, <1>2, <1>3, <1>4, Zenon

-----------------------------------------------------------------------------
\* The inductive invariant.

\* While a receive is posted the stream holds less than one packet: the parser
\* stopped at a prefix of one.
StreamInv ==
    Len(stream) <= MaxPacketSize - 1 + (IF phase = "recv" THEN 0 ELSE RecvPostSize)

\* From a framing peer come the encodings of its messages: what was received and
\* what is on its way.
OrderInv ==
    frames => /\ phase # "closed" /\ sent \in Seq(Small)
              /\ received \o wire = EncodingOf(sent)[Len(sent)]
              /\ Len(delivered) <= Len(sent)
              /\ \A i \in 1..Len(delivered) : delivered[i] = sent[i]

IInv == TypeOK /\ NothingInvented /\ StreamInv /\ OrderInv

\* The limit TypeOK puts on the packets.
LEMMA LimitIs ==
    ASSUME NEW d \in Seq(Packets)
    PROVE  (\A i \in DOMAIN d : HeaderSize + Len(d[i].payload) <= MaxPacketSize)
               <=> d \in Seq(Small)
<1>1. Len(d) \in Nat /\ DOMAIN d = 1..Len(d) /\ \A i \in 1..Len(d) : d[i] \in Packets
  BY LenProperties, ElementOfSeq
<1>2. ASSUME \A i \in 1..Len(d) : HeaderSize + Len(d[i].payload) <= MaxPacketSize
      PROVE  d \in Seq(Small)
  <2>1. \A i \in 1..Len(d) : d[i] \in Small
    BY <1>1, <1>2, Bounds DEF Packets, Small, Units
  <2>2. SubSeq(d, 1, Len(d)) \in Seq(Small)
    BY <1>1, <2>1, SubSeqProperties
  <2> QED
    BY <2>2, SubSeqFull
<1>3. ASSUME d \in Seq(Small)
      PROVE  \A i \in 1..Len(d) : HeaderSize + Len(d[i].payload) <= MaxPacketSize
  <2>1. \A i \in 1..Len(d) : d[i] \in Small
    BY <1>3, ElementOfSeq
  <2> QED
    BY <2>1 DEF Small
<1> QED
  BY <1>1, <1>2, <1>3

\* The types, in the terms of the lemmas.
LEMMA Typed ==
    ASSUME TypeOK
    PROVE  /\ wire \in Seq(Units) /\ stream \in Seq(Units) /\ received \in Seq(Units)
           /\ delivered \in Seq(Packets) /\ delivered \in Seq(Small) /\ sent \in Seq(Messages)
           /\ Len(delivered) \in Nat /\ Len(sent) \in Nat /\ Len(stream) \in Nat
           /\ Len(wire) \in Nat
           /\ EncodingOf(delivered)[Len(delivered)] \in Seq(Units)
<1>1. /\ wire \in Seq(Units) /\ stream \in Seq(Units) /\ received \in Seq(Units)
      /\ delivered \in Seq(Packets) /\ sent \in Seq(Messages)
  BY DEF TypeOK, Units
<1>2. delivered \in Seq(Small)
  BY <1>1, LimitIs DEF TypeOK
<1>3. Len(delivered) \in Nat /\ Len(sent) \in Nat /\ Len(stream) \in Nat /\ Len(wire) \in Nat
  BY <1>1, LenProperties
<1>4. Len(delivered) \in 0..Len(delivered)
  BY <1>3
<1>5. EncodingOf(delivered)[Len(delivered)] \in Seq(Units)
  BY <1>2, <1>4, EncodingUnits
<1> QED
  BY <1>1, <1>2, <1>3, <1>5

\* NothingInvented before and after a step.
LEMMA ExactIs ==
    /\ NothingInvented <=> EncodingOf(delivered)[Len(delivered)] \o stream = received
    /\ NothingInvented' <=> EncodingOf(delivered')[Len(delivered')] \o stream' = received'
BY EncodedIs DEF NothingInvented

\* What follows the same beginning is the same.
LEMMA CancelLeft ==
    ASSUME NEW S, NEW s \in Seq(S), NEW t \in Seq(S), NEW v \in Seq(S), s \o t = s \o v
    PROVE  t = v
<1>1. /\ Len(s) \in Nat /\ Len(t) \in Nat /\ Len(v) \in Nat
      /\ Len(s \o t) = Len(s) + Len(t) /\ Len(s \o v) = Len(s) + Len(v)
      /\ \A i \in 1..Len(s) + Len(t) : (s \o t)[i] = IF i <= Len(s) THEN s[i] ELSE t[i - Len(s)]
      /\ \A i \in 1..Len(s) + Len(v) : (s \o v)[i] = IF i <= Len(s) THEN s[i] ELSE v[i - Len(s)]
  BY ConcatProperties, LenProperties
<1>2. Len(t) = Len(v)
  BY <1>1
<1>3. ASSUME NEW i \in 1..Len(t) PROVE t[i] = v[i]
  <2>1. /\ Len(s) + i \in 1..Len(s) + Len(t) /\ ~(Len(s) + i <= Len(s))
        /\ (Len(s) + i) - Len(s) = i
    BY <1>1
  <2>2. (s \o t)[Len(s) + i] = t[i] /\ (s \o v)[Len(s) + i] = v[i]
    BY <1>1, <1>2, <2>1
  <2> QED
    BY <2>2
<1> QED
  BY <1>2, <1>3, SeqEqual

\* The unhandled units begin where the next message does, if there is one.
LEMMA Ahead ==
    ASSUME IInv, frames
    PROVE  /\ Len(delivered) < Len(sent) =>
                  \E r \in Seq(Units) : stream \o wire = Frame(sent[Len(delivered) + 1]) \o r
           /\ ~(Len(delivered) < Len(sent)) => stream = <<>>
<1> DEFINE k == Len(delivered)
           e == EncodingOf(sent)[k]
<1>1. /\ sent \in Seq(Small) /\ k \in Nat /\ Len(sent) \in Nat /\ k <= Len(sent)
      /\ wire \in Seq(Units) /\ stream \in Seq(Units)
      /\ received \o wire = EncodingOf(sent)[Len(sent)]
  BY Typed DEF IInv, OrderInv
<1>2. EncodingOf(delivered)[k] = e
  BY <1>1, EncodingPrefix DEF IInv, OrderInv
<1>3. e \in Seq(Units)
  BY <1>2, Typed DEF IInv
<1>4. received = e \o stream
  BY <1>2, ExactIs DEF IInv
<1>5. EncodingOf(sent)[Len(sent)] = e \o (stream \o wire) /\ stream \o wire \in Seq(Units)
  <2> HIDE DEF e
  <2>1. (e \o stream) \o wire = e \o (stream \o wire) /\ stream \o wire \in Seq(Units)
    <3>1. /\ Cat(Cat(e, stream), wire) = Cat(e, Cat(stream, wire))
          /\ Cat(stream, wire) \in Seq(Units)
      BY <1>1, <1>3, CatAssociative, CatType
    <3> QED
      BY <3>1 DEF Cat
  <2> QED
    BY <1>1, <1>4, <2>1
<1>6. ASSUME k < Len(sent)
      PROVE  \E r \in Seq(Units) : stream \o wire = Frame(sent[k + 1]) \o r
  <2>1. PICK r \in Seq(Units) : EncodingOf(sent)[Len(sent)] = e \o (Frame(sent[k + 1]) \o r)
    BY <1>1, <1>6, EncodingSplit
  <2>2. sent[k + 1] \in Small
    <3>1. k + 1 \in 1..Len(sent)
      BY <1>1, <1>6
    <3> QED
      BY <1>1, <3>1, ElementOfSeq
  <2> DEFINE f == Frame(sent[k + 1])
  <2>3. f \in Seq(Units)
    BY <2>2, FrameUnits
  <2>4. e \o (stream \o wire) = e \o (f \o r)
    BY <2>1, <1>5
  <2> HIDE DEF e, f
  <2>5. f \o r \in Seq(Units)
    BY <2>3, ConcatProperties
  <2>6. stream \o wire = f \o r
    <3> DEFINE v == stream \o wire
               w == f \o r
    <3>1. e \in Seq(Units) /\ v \in Seq(Units) /\ w \in Seq(Units) /\ e \o v = e \o w
      BY <2>4, <2>5, <1>3, <1>5
    <3> HIDE DEF v, w
    <3>2. v = w
      BY <3>1, CancelLeft
    <3> QED
      BY <3>2 DEF v, w
  <2> QED
    BY <2>6 DEF f
<1>7. ASSUME ~(k < Len(sent)) PROVE stream = <<>>
  <2>1. k = Len(sent)
    BY <1>1, <1>7
  <2>2. e \o (stream \o wire) = e
    BY <1>5, <2>1
  <2> HIDE DEF e
  <2>3. stream \o wire = <<>>
    BY <2>2, <1>3, <1>5, ConcatSimplifications!idRight
  <2> QED
    BY <2>3, <1>1, ConcatSimplifications!concIsEmpty
<1> QED
  BY <1>6, <1>7

\* What the parser finds in the stream of a framing peer: the next message, or
\* the beginning of it.
LEMMA Found ==
    ASSUME IInv, frames
    PROVE  /\ TryGetPacket(stream) \in {"Success", "Incomplete"}
           /\ TryGetPacket(stream) = "Success" =>
                  /\ Len(delivered) < Len(sent)
                  /\ Front(stream) = sent[Len(delivered) + 1]
                  /\ HandlePacket(stream[2])
<1> DEFINE k == Len(delivered)
           p == sent[k + 1]
<1>1. /\ sent \in Seq(Small) /\ sent \in Seq(Messages) /\ k \in Nat /\ Len(sent) \in Nat
      /\ wire \in Seq(Units) /\ stream \in Seq(Units)
  BY Typed DEF IInv, OrderInv
<1>2. CASE ~(k < Len(sent))
  <2>1. stream = <<>>
    BY <1>2, Ahead
  <2>2. Len(stream) < 2
    BY <2>1
  <2> QED
    BY <2>2, SuccessTests DEF TryGetPacket, HeaderSize
<1>3. CASE k < Len(sent)
  <2>1. PICK r \in Seq(Units) : stream \o wire = Frame(p) \o r
    BY <1>3, Ahead
  <2>2. p \in Small /\ p \in Messages
    <3>1. k + 1 \in 1..Len(sent)
      BY <1>1, <1>3
    <3> QED
      BY <1>1, <3>1, ElementOfSeq
  <2>3. p \in [opcode : HandledOpcodes, payload : Seq(Units)]
    BY <2>2, Bounds
  <2> HIDE DEF p
  <2>4. /\ TryGetPacket(stream) \in {"Success", "Incomplete"}
        /\ TryGetPacket(stream) = "Success" =>
               Front(stream) = [opcode |-> p.opcode, payload |-> p.payload]
    BY <1>1, <2>1, <2>2, <2>3, FrontOfFrame
  <2>5. [opcode |-> p.opcode, payload |-> p.payload] = p /\ p.opcode \in HandledOpcodes
    BY <2>3
  <2>6. Front(stream).opcode = stream[2]
    BY DEF Front
  <2> QED
    BY <1>3, <2>4, <2>5, <2>6 DEF p, HandlePacket
<1> QED
  BY <1>2, <1>3

-----------------------------------------------------------------------------
\* Initially nothing was sent.
LEMMA Starts ==
    ASSUME Init
    PROVE  IInv
<1>1. /\ wire = <<>> /\ stream = <<>> /\ received = <<>> /\ sent = <<>> /\ delivered = <<>>
      /\ phase = "recv" /\ frames \in BOOLEAN
  BY DEF Init
<1>2. TypeOK
  BY <1>1 DEF TypeOK
<1>3. Len(<<>>) = 0 /\ <<>> \in Seq(Units) /\ <<>> \in Seq(Small) /\ <<>> \o <<>> = <<>>
  BY EmptySeq, ConcatEmptySeq
<1>4. EncodingOf(<<>>)[Len(<<>>)] = <<>>
  BY <1>3, EncodingEquation
<1>5. NothingInvented
  BY <1>1, <1>3, <1>4, ExactIs
<1>6. StreamInv
  BY <1>1, <1>3, Bounds DEF StreamInv
<1>7. OrderInv
  BY <1>1, <1>3, <1>4 DEF OrderInv
<1> QED
  BY <1>2, <1>5, <1>6, <1>7 DEF IInv

\* A message is put on the wire behind the others.
LEMMA SendMessageStep ==
    ASSUME IInv, NEW msg \in Messages, SendMessage(msg)
    PROVE  IInv'
<1> DEFINE f == Frame(msg)
<1>1. /\ frames /\ wire' = wire \o f /\ sent' = Append(sent, msg)
      /\ UNCHANGED <<frames, stream, phase, received, delivered>>
      /\ msg \in Small
  BY MessageFramed DEF SendMessage
<1>2. f \in Seq(Units)
  BY <1>1, FrameUnits
<1>3. /\ wire \in Seq(Units) /\ received \in Seq(Units) /\ sent \in Seq(Messages)
      /\ sent \in Seq(Small) /\ Len(sent) \in Nat /\ Len(delivered) \in Nat
      /\ received \o wire = EncodingOf(sent)[Len(sent)]
      /\ Len(delivered) <= Len(sent)
      /\ \A i \in 1..Len(delivered) : delivered[i] = sent[i]
      /\ phase # "closed"
  BY <1>1, Typed DEF IInv, OrderInv
<1>4. TypeOK'
  <2>1. wire' \in Seq(Units)
    <3> HIDE DEF f
    <3> QED
      BY <1>1, <1>2, <1>3, ConcatProperties
  <2>2. sent' \in Seq(Messages)
    BY <1>1, <1>3, AppendProperties
  <2> QED
    BY <1>1, <2>1, <2>2 DEF IInv, TypeOK, Units
<1>5. NothingInvented' /\ StreamInv'
  <2>1. NothingInvented'
    BY <1>1, ExactIs DEF IInv
  <2>2. StreamInv'
    BY <1>1 DEF IInv, StreamInv
  <2> QED
    BY <2>1, <2>2
<1>6. OrderInv'
  <2>1. /\ sent' \in Seq(Small) /\ Len(sent') = Len(sent) + 1
        /\ EncodingOf(sent')[Len(sent')] = EncodingOf(sent)[Len(sent)] \o f
    BY <1>1, <1>3, EncodingAppend
  <2>2. received' \o wire' = EncodingOf(sent')[Len(sent')]
    <3> HIDE DEF f
    <3>0. received \in Seq(Units) /\ wire \in Seq(Units) /\ f \in Seq(Units)
      BY <1>2, <1>3
    <3>1. received \o (wire \o f) = (received \o wire) \o f
      <4>1. Cat(Cat(received, wire), f) = Cat(received, Cat(wire, f))
        BY <3>0, CatAssociative
      <4> QED
        BY <4>1 DEF Cat
    <3> QED
      BY <1>1, <1>3, <2>1, <3>1
  <2>3. \A i \in 1..Len(delivered) : delivered[i] = sent'[i]
    <3>1. \A i \in 1..Len(sent) : sent'[i] = sent[i]
      BY <1>1, <1>3, AppendProperties
    <3>2. \A i \in 1..Len(delivered) : i \in 1..Len(sent)
      BY <1>3
    <3> QED
      BY <1>3, <3>1, <3>2
  <2>4. Len(delivered) <= Len(sent')
    BY <1>3, <2>1
  <2> QED
    BY <1>1, <1>3, <2>1, <2>2, <2>3, <2>4 DEF OrderInv
<1> QED
  BY <1>4, <1>5, <1>6 DEF IInv

\* A unit is put on the wire by a peer that does not frame.
LEMMA SendRawStep ==
    ASSUME IInv, NEW unit \in RawUnits, SendRaw(unit)
    PROVE  IInv'
<1>1. /\ ~frames /\ wire' = Append(wire, unit)
      /\ UNCHANGED <<frames, stream, phase, sent, received, delivered>>
  BY DEF SendRaw
<1>2. TypeOK'
  <2>1. wire \in Seq(Units) /\ unit \in Units
    BY Typed, Bounds DEF IInv
  <2>2. wire' \in Seq(Units)
    BY <1>1, <2>1, AppendProperties
  <2> QED
    BY <1>1, <2>2 DEF IInv, TypeOK, Units
<1>3. NothingInvented'
  BY <1>1, ExactIs DEF IInv
<1>4. StreamInv' /\ OrderInv'
  BY <1>1 DEF IInv, StreamInv, OrderInv
<1> QED
  BY <1>2, <1>3, <1>4 DEF IInv

\* A receive moves units from the wire to the stream.
LEMMA ReceiveStep ==
    ASSUME IInv, NEW n \in 1..RecvPostSize, Receive(n)
    PROVE  IInv'
<1> DEFINE a == SubSeq(wire, 1, n)
           b == SubSeq(wire, n + 1, Len(wire))
           e == EncodingOf(delivered)[Len(delivered)]
<1>1. /\ phase = "recv" /\ n <= Len(wire)
      /\ stream' = stream \o a /\ received' = received \o a /\ wire' = b /\ phase' = "parse"
      /\ UNCHANGED <<frames, sent, delivered>>
  BY DEF Receive
<1>2. /\ wire \in Seq(Units) /\ stream \in Seq(Units) /\ received \in Seq(Units)
      /\ Len(stream) \in Nat /\ e \in Seq(Units) /\ n \in Nat /\ n # 0 /\ n <= RecvPostSize
  BY Typed, Bounds DEF IInv
<1>3. a \in Seq(Units) /\ Len(a) = n /\ b \in Seq(Units) /\ a \o b = wire
  BY <1>1, <1>2, WireCut
<1> HIDE DEF a, b
<1>4. /\ stream \o a \in Seq(Units) /\ received \o a \in Seq(Units)
      /\ Len(stream \o a) = Len(stream) + n
  BY <1>2, <1>3, ConcatProperties
<1>5. TypeOK'
  BY <1>1, <1>3, <1>4 DEF IInv, TypeOK, Units
<1>6. NothingInvented'
  <2>1. e \o stream = received
    BY ExactIs DEF IInv
  <2>2. EncodingOf(delivered')[Len(delivered')] = e
    BY <1>1
  <2> HIDE DEF e
  <2>3. (e \o stream) \o a = e \o (stream \o a)
    <3>1. Cat(Cat(e, stream), a) = Cat(e, Cat(stream, a))
      BY <1>2, <1>3, CatAssociative
    <3> QED
      BY <3>1 DEF Cat
  <2> QED
    BY <1>1, <2>1, <2>2, <2>3, ExactIs
<1>7. StreamInv'
  <2>1. Len(stream) <= MaxPacketSize - 1
    BY <1>1, <1>2, Bounds DEF IInv, StreamInv
  <2>2. Len(stream') = Len(stream) + n
    BY <1>1, <1>4
  <2> QED
    BY <1>1, <1>2, <2>1, <2>2, Bounds DEF StreamInv
<1>8. OrderInv'
  <2>1. (received \o a) \o b = received \o (a \o b)
    <3>1. Cat(Cat(received, a), b) = Cat(received, Cat(a, b))
      BY <1>2, <1>3, CatAssociative
    <3> QED
      BY <3>1 DEF Cat
  <2>2. received' \o wire' = received \o wire
    BY <1>1, <1>3, <2>1
  <2> QED
    BY <1>1, <2>2 DEF IInv, OrderInv
<1> QED
  BY <1>5, <1>6, <1>7, <1>8 DEF IInv

\* The parse loop takes a packet.
LEMMA HandleFrontStep ==
    ASSUME IInv, HandleFront
    PROVE  IInv'
<1> DEFINE p == Front(stream)
           f == Frame(p)
           r == Remainder(stream)
           e == EncodingOf(delivered)[Len(delivered)]
<1>1. /\ phase = "parse" /\ TryGetPacket(stream) = "Success"
      /\ delivered' = Append(delivered, p) /\ stream' = r
      /\ phase' = (IF HandlePacket(stream[2]) THEN "parse" ELSE "closed")
      /\ UNCHANGED <<frames, wire, sent, received>>
  BY DEF HandleFront
<1>2. /\ stream \in Seq(Units) /\ delivered \in Seq(Packets) /\ delivered \in Seq(Small)
      /\ Len(delivered) \in Nat /\ Len(stream) \in Nat /\ e \in Seq(Units)
  BY Typed DEF IInv
<1>3. /\ p \in Packets /\ p \in Small /\ r \in Seq(Units)
      /\ Len(r) \in Nat /\ Len(r) <= Len(stream) /\ f \o r = stream
  BY <1>1, <1>2, PacketTaken
<1>4. f \in Seq(Units)
  BY <1>3, FrameUnits
<1> HIDE DEF p, f, r
<1>5. TypeOK'
  <2>1. delivered' \in Seq(Packets) /\ delivered' \in Seq(Small)
    BY <1>1, <1>2, <1>3, AppendProperties
  <2>2. \A i \in DOMAIN delivered' : HeaderSize + Len(delivered'[i].payload) <= MaxPacketSize
    BY <2>1, LimitIs
  <2>3. phase' \in {"recv", "parse", "closed"}
    BY <1>1
  <2> QED
    BY <1>1, <1>3, <2>1, <2>2, <2>3 DEF IInv, TypeOK, Units
<1>6. NothingInvented'
  <2>1. e \o stream = received
    BY ExactIs DEF IInv
  <2>2. EncodingOf(delivered')[Len(delivered')] = e \o f
    BY <1>1, <1>2, <1>3, EncodingAppend DEF f
  <2> HIDE DEF e
  <2>3. (e \o f) \o r = e \o (f \o r)
    <3>1. Cat(Cat(e, f), r) = Cat(e, Cat(f, r))
      BY <1>2, <1>3, <1>4, CatAssociative
    <3> QED
      BY <3>1 DEF Cat
  <2> QED
    BY <1>1, <1>3, <2>1, <2>2, <2>3, ExactIs
<1>7. StreamInv'
  BY <1>1, <1>2, <1>3, Bounds DEF IInv, StreamInv
<1>8. OrderInv'
  <2> SUFFICES ASSUME frames PROVE OrderInv'
    BY <1>1 DEF OrderInv
  <2>1. /\ Len(delivered) < Len(sent) /\ p = sent[Len(delivered) + 1]
        /\ HandlePacket(stream[2])
    BY <1>1, Found DEF p
  <2>2. /\ sent \in Seq(Small) /\ received \o wire = EncodingOf(sent)[Len(sent)]
        /\ \A i \in 1..Len(delivered) : delivered[i] = sent[i]
        /\ Len(sent) \in Nat
    BY Typed DEF IInv, OrderInv
  <2>3. /\ Len(delivered') = Len(delivered) + 1 /\ delivered'[Len(delivered) + 1] = p
        /\ \A i \in 1..Len(delivered) : delivered'[i] = delivered[i]
    BY <1>1, <1>2, <1>3, AppendProperties
  <2>4. \A i \in 1..Len(delivered') : delivered'[i] = sent[i]
    <3> SUFFICES ASSUME NEW i \in 1..Len(delivered') PROVE delivered'[i] = sent[i]
      OBVIOUS
    <3>1. i \in 1..Len(delivered) \/ i = Len(delivered) + 1
      BY <1>2, <2>3
    <3> QED
      BY <2>1, <2>2, <2>3, <3>1
  <2>5. Len(delivered') <= Len(sent)
    BY <1>2, <2>1, <2>2, <2>3
  <2>6. phase' = "parse"
    BY <1>1, <2>1
  <2> QED
    BY <1>1, <2>2, <2>4, <2>5, <2>6 DEF OrderInv
<1> QED
  BY <1>5, <1>6, <1>7, <1>8 DEF IInv

\* The parse loop ends.
LEMMA EndLoopStep ==
    ASSUME IInv, EndLoop
    PROVE  IInv'
<1>1. /\ TryGetPacket(stream) # "Success" /\ phase = "parse"
      /\ phase' = (IF TryGetPacket(stream) = "Incomplete" THEN "recv" ELSE "closed")
      /\ UNCHANGED <<frames, wire, stream, sent, received, delivered>>
  BY DEF EndLoop
<1>2. TypeOK'
  BY <1>1 DEF IInv, TypeOK
<1>3. NothingInvented'
  BY <1>1, ExactIs DEF IInv
<1>4. StreamInv'
  <2>1. CASE TryGetPacket(stream) = "Incomplete"
    <3>1. Len(stream) <= MaxPacketSize - 1 /\ Len(stream) \in Nat
      BY <2>1, Waiting, Typed DEF IInv
    <3> QED
      BY <1>1, <2>1, <3>1, Bounds DEF StreamInv
  <2>2. CASE TryGetPacket(stream) # "Incomplete"
    BY <1>1, <2>2 DEF IInv, StreamInv
  <2> QED
    BY <2>1, <2>2
<1>5. OrderInv'
  <2>1. frames => phase' = "recv"
    BY <1>1, Found
  <2> QED
    BY <1>1, <2>1 DEF IInv, OrderInv
<1> QED
  BY <1>2, <1>3, <1>4, <1>5 DEF IInv

\* A step that changes nothing.
LEMMA StutterStep ==
    ASSUME IInv, UNCHANGED vars
    PROVE  IInv'
<1>1. UNCHANGED <<frames, wire, stream, phase, sent, received, delivered>>
  BY DEF vars
<1>2. NothingInvented'
  BY <1>1, ExactIs DEF IInv
<1> QED
  BY <1>1, <1>2 DEF IInv, TypeOK, StreamInv, OrderInv

LEMMA Invariant == Spec => []IInv
<1>1. Init => IInv
  BY Starts
<1>2. IInv /\ [Next]_vars => IInv'
  <2> SUFFICES ASSUME IInv, [Next]_vars PROVE IInv'
    OBVIOUS
  <2>1. CASE \E msg \in Messages : SendMessage(msg)
    BY <2>1, SendMessageStep
  <2>2. CASE \E unit \in RawUnits : SendRaw(unit)
    BY <2>2, SendRawStep
  <2>3. CASE Receives
    BY <2>3, ReceiveStep DEF Receives
  <2>4. CASE OnRecvComplete
    BY <2>4, HandleFrontStep, EndLoopStep DEF OnRecvComplete
  <2>5. CASE Quiet
    BY <2>5, StutterStep DEF Quiet
  <2>6. CASE UNCHANGED vars
    BY <2>6, StutterStep
  <2> QED
    BY <2>1, <2>2, <2>3, <2>4, <2>5, <2>6 DEF Next
<1> QED
  BY <1>1, <1>2, PTL DEF Spec

-----------------------------------------------------------------------------
\* HandlePacket gets packets of a known opcode and of no more than
\* MAX_PACKET_SIZE, whatever the peer writes.
THEOREM TypeCorrect == Spec => []TypeOK
<1>1. IInv => TypeOK
  BY DEF IInv
<1> QED
  BY <1>1, Invariant, PTL

\* The packets handled and the rest of _recvStream are the units received: the
\* parse loop of OnRecvComplete invents, skips and repeats nothing.
THEOREM Exact == Spec => []NothingInvented
<1>1. IInv => NothingInvented
  BY DEF IInv
<1> QED
  BY <1>1, Invariant, PTL

\* _recvStream never holds more than one receive and one packet less a unit.
THEOREM Bounded == Spec => []StreamBounded
<1>1. IInv => StreamBounded
  <2> SUFFICES ASSUME IInv PROVE StreamBounded
    OBVIOUS
  <2>1. Len(stream) \in Nat
    BY Typed DEF IInv
  <2> QED
    BY <2>1, Bounds DEF IInv, StreamInv, StreamBounded
<1> QED
  BY <1>1, Invariant, PTL

\* What MakePacketFromProto framed is handled whole and in order, however the
\* receives cut it, and the session is not closed over it.
THEOREM InOrder == Spec => []DeliveredInOrder
<1>1. IInv => DeliveredInOrder
  <2> SUFFICES ASSUME IInv, frames
               PROVE  /\ phase # "closed" /\ Len(delivered) <= Len(sent)
                      /\ delivered = SubSeq(sent, 1, Len(delivered))
    BY DEF DeliveredInOrder
  <2>1. /\ phase # "closed" /\ Len(delivered) <= Len(sent)
        /\ \A i \in 1..Len(delivered) : delivered[i] = sent[i]
        /\ sent \in Seq(Small) /\ delivered \in Seq(Small)
        /\ Len(delivered) \in Nat /\ Len(sent) \in Nat
    BY Typed DEF IInv, OrderInv
  <2>2. \A i \in 1..Len(delivered) : sent[i] \in Small
    BY <2>1, ElementOfSeq
  <2>3. /\ SubSeq(sent, 1, Len(delivered)) \in Seq(Small)
        /\ Len(SubSeq(sent, 1, Len(delivered))) = Len(delivered)
        /\ \A i \in 1..Len(delivered) : SubSeq(sent, 1, Len(delivered))[i] = sent[i]
    <3> DEFINE n == Len(delivered)
    <3>1. n \in Nat /\ \A i \in 1..n : sent[i] \in Small
      BY <2>1, <2>2
    <3> HIDE DEF n
    <3>2. /\ SubSeq(sent, 1, n) \in Seq(Small)
          /\ Len(SubSeq(sent, 1, n)) = IF 1 <= n THEN n - 1 + 1 ELSE 0
          /\ \A i \in 1..n - 1 + 1 : SubSeq(sent, 1, n)[i] = sent[1 + i - 1]
      BY <3>1, SubSeqProperties
    <3>3. /\ Len(SubSeq(sent, 1, n)) = n
          /\ \A i \in 1..n : SubSeq(sent, 1, n)[i] = sent[i]
      BY <3>1, <3>2
    <3> QED
      BY <3>2, <3>3 DEF n
  <2>4. delivered = SubSeq(sent, 1, Len(delivered))
    BY <2>1, <2>3, SeqEqual
  <2> QED
    BY <2>1, <2>4
<1> QED
  BY <1>1, Invariant, PTL

=============================================================================
