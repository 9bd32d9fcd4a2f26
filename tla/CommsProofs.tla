---------------------------- MODULE CommsProofs ----------------------------
(***************************************************************************)
(* Proofs about Comms, for every number of byte values, capacity of the    *)
(* pipes, message limit and set of messages: the digits of the wire format *)
(* first, then where the frames of a direction lie in its bytes, then one  *)
(* step per action.                                                        *)
(***************************************************************************)
EXTENDS Comms, SequenceTheorems, TLAPS

USE DEF vars

-----------------------------------------------------------------------------
(* Digits.                                                                 *)

LEMMA DivMod ==
  ASSUME NEW v \in Nat, NEW d \in Nat \ {0}
  PROVE  /\ v \div d \in Nat
         /\ v % d \in Nat /\ v % d < d
         /\ v = d * (v \div d) + (v % d)
OBVIOUS

LEMMA DivUnique ==
  ASSUME NEW q \in Nat, NEW r \in Nat, NEW d \in Nat \ {0}, r < d
  PROVE  (d * q + r) \div d = q
OBVIOUS

LEMMA MulPos == ASSUME NEW a \in Nat \ {0}, NEW b \in Nat \ {0} PROVE a * b \in Nat \ {0}
OBVIOUS

LEMMA DivDiv ==
  ASSUME NEW v \in Nat, NEW d \in Nat \ {0}, NEW c \in Nat \ {0}
  PROVE  v \div (d * c) = (v \div d) \div c
<1> DEFINE q == v \div d  r == v % d  q2 == q \div c  r2 == q % c
<1>1. q \in Nat /\ r \in Nat /\ r < d /\ v = d * q + r
  OBVIOUS
<1>2. q2 \in Nat /\ r2 \in Nat /\ r2 < c /\ q = c * q2 + r2
  <2> HIDE DEF q
  <2> QED BY <1>1
<1>3. d * c \in Nat \ {0}
  BY MulPos
<1> HIDE DEF q, r, q2, r2
<1>4. v = (d * c) * q2 + (d * r2 + r)
  BY <1>1, <1>2
<1>5. d * r2 + r \in Nat /\ d * r2 + r < d * c
  <2>1. d * r2 <= d * (c - 1) /\ d * r2 \in Nat
    BY <1>2
  <2>2. d * (c - 1) = d * c - d
    OBVIOUS
  <2> QED BY <2>1, <2>2, <1>1, <1>3
<1> DEFINE D == d * c  R == d * r2 + r
<1>6. (D * q2 + R) \div D = q2
  <2>1. D \in Nat \ {0} /\ R \in Nat /\ R < D
    BY <1>3, <1>5
  <2> HIDE DEF D, R
  <2> QED BY <1>2, <2>1, DivUnique
<1>7. v \div D = q2
  BY <1>4, <1>6
<1> QED BY <1>7 DEF q2, q

(* GetU32 reads what PutU32 wrote.                                         *)
LEMMA GetPut ==
  ASSUME NEW v \in 0 .. Word - 1
  PROVE  /\ PutU32(v) \in Seq(0 .. ByteBase - 1) /\ Len(PutU32(v)) = 4
         /\ GetU32(PutU32(v)) = v
<1> DEFINE b == ByteBase
           a1 == v \div b  a2 == a1 \div b  a3 == a2 \div b
           d0 == v % b  d1 == a1 % b  d2 == a2 % b  d3 == a3 % b
<1>0. b \in Nat \ {0} /\ v \in Nat /\ b * b \in Nat \ {0} /\ v < b * b * b * b
  <2>1. b \in Nat \ {0}
    BY ByteBaseAssumption
  <2>2. b * b \in Nat \ {0} /\ b * b * b \in Nat \ {0}
    BY <2>1, MulPos
  <2>3. b * b * b * b \in Nat
    BY <2>1, <2>2, MulPos
  <2> QED BY <2>1, <2>2, <2>3 DEF Word
<1>1. v \div (b * b) = a2
  <2> HIDE DEF b
  <2> QED BY <1>0, DivDiv
<1>2. v \div (b * b * b) = a3
  <2> DEFINE c == b * b
  <2>1. c \in Nat \ {0} /\ b \in Nat \ {0} /\ v \in Nat
    BY <1>0
  <2> HIDE DEF b, c, a2
  <2>2. v \div (c * b) = (v \div c) \div b
    BY <2>1, DivDiv
  <2>3. v \div c = a2
    BY <1>1, Zenon DEF c
  <2>4. v \div (c * b) = a2 \div b
    BY <2>2, <2>3, Zenon
  <2> QED BY <2>4, Zenon DEF c
<1>3. PutU32(v) = <<d0, d1, d2, d3>>
  BY <1>1, <1>2 DEF PutU32
<1>4. a1 \in Nat /\ d0 \in Nat /\ d0 < b /\ v = b * a1 + d0
  BY <1>0, DivMod
<1>5. a2 \in Nat /\ d1 \in Nat /\ d1 < b /\ a1 = b * a2 + d1
  <2> HIDE DEF a1, b
  <2> QED BY <1>0, <1>4, DivMod
<1>6. a3 \in Nat /\ d2 \in Nat /\ d2 < b /\ a2 = b * a3 + d2
  <2> HIDE DEF a2, b
  <2> QED BY <1>0, <1>5, DivMod
<1>7. a3 < b
  <2> HIDE DEF b, a1, a2, a3, d0, d1, d2
  <2> SUFFICES ASSUME a3 >= b PROVE FALSE
    BY <1>0, <1>6
  <2>1. b * a3 >= b * b
    BY <1>0, <1>6
  <2>2. a2 >= b * b
    BY <1>0, <1>6, <2>1
  <2>3. b * a2 >= b * (b * b)
    BY <1>0, <1>5, <2>2
  <2>4. a1 >= b * (b * b)
    BY <1>0, <1>5, <2>3
  <2>5. b * a1 >= b * (b * (b * b))
    <3> DEFINE c == b * (b * b)
    <3>1. c \in Nat
      BY <1>0
    <3> HIDE DEF c
    <3>2. b * a1 >= b * c
      BY <3>1, <1>0, <1>4, <2>4 DEF c
    <3> QED BY <3>2 DEF c
  <2>6. b * (b * (b * b)) = b * b * b * b
    BY <1>0
  <2> QED BY <1>0, <1>4, <2>5, <2>6
<1>8. d3 = a3 /\ d3 \in Nat /\ d3 < b
  <2> HIDE DEF a3, b
  <2> QED BY <1>0, <1>6, <1>7
<1> HIDE DEF b, a1, a2, a3, d0, d1, d2, d3
<1>9. <<d0, d1, d2, d3>> \in Seq(0 .. b - 1) /\ Len(<<d0, d1, d2, d3>>) = 4
  BY <1>0, <1>4, <1>5, <1>6, <1>8
<1>10. GetU32(<<d0, d1, d2, d3>>) = d0 + b * (d1 + b * (d2 + b * d3))
  BY DEF GetU32, b
<1>11. d0 + b * (d1 + b * (d2 + b * d3)) = v
  BY <1>0, <1>4, <1>5, <1>6, <1>8
<1> QED BY <1>3, <1>9, <1>10, <1>11 DEF b

-----------------------------------------------------------------------------
(* Messages and their frames.                                              *)

Bytes == 0 .. ByteBase - 1
Messages == UNION {Sendable[e] : e \in Ends}

LEMMA Constants ==
    /\ ByteBase \in Nat /\ ByteBase >= 2 /\ Word \in Nat /\ Word >= 16
    /\ \A e \in Ends : MaxMsg[e] \in Nat /\ MaxMsg[e] < Word
<1>1. ByteBase \in Nat /\ ByteBase >= 2
  BY ByteBaseAssumption
<1>2. ByteBase * ByteBase \in Nat /\ ByteBase * ByteBase >= 4
  BY <1>1
<1>3. ByteBase * ByteBase * ByteBase \in Nat /\ ByteBase * ByteBase * ByteBase >= 8
  <2> DEFINE x == ByteBase * ByteBase
  <2>1. x \in Nat /\ x >= 4
    BY <1>2
  <2> HIDE DEF x
  <2>2. x * ByteBase \in Nat /\ x * ByteBase >= 8
    BY <1>1, <2>1
  <2> QED BY <2>2 DEF x
<1>4. Word \in Nat /\ Word >= 16
  <2> DEFINE x == ByteBase * ByteBase * ByteBase
  <2>1. x \in Nat /\ x >= 8
    BY <1>3
  <2>3. Word = x * ByteBase
    BY DEF Word
  <2> HIDE DEF x
  <2>2. x * ByteBase \in Nat /\ x * ByteBase >= 16
    BY <1>1, <2>1
  <2> QED BY <2>2, <2>3
<1> QED BY <1>1, <1>4, BoundsAssumption

(* The two parts of a concatenation.                                       *)
LEMMA Halves ==
  ASSUME NEW s \in Seq(Nat), NEW t \in Seq(Nat)
  PROVE  /\ s \o t \in Seq(Nat) /\ Len(s \o t) = Len(s) + Len(t)
         /\ \A i \in 1 .. Len(s) : (s \o t)[i] = s[i]
         /\ \A i \in 1 .. Len(t) : (s \o t)[Len(s) + i] = t[i]
<1>1. /\ s \o t \in Seq(Nat) /\ Len(s \o t) = Len(s) + Len(t)
      /\ \A i \in 1 .. Len(s) + Len(t) :
             (s \o t)[i] = IF i <= Len(s) THEN s[i] ELSE t[i - Len(s)]
  BY ConcatProperties
<1>2. Len(s) \in Nat /\ Len(t) \in Nat
  OBVIOUS
<1>3. ASSUME NEW i \in 1 .. Len(s) PROVE (s \o t)[i] = s[i]
  BY <1>1, <1>2
<1>4. ASSUME NEW i \in 1 .. Len(t) PROVE (s \o t)[Len(s) + i] = t[i]
  <2>1. Len(s) + i \in 1 .. Len(s) + Len(t) /\ ~(Len(s) + i <= Len(s)) /\ Len(s) + i - Len(s) = i
    BY <1>2
  <2> QED BY <1>1, <2>1
<1> QED BY <1>1, <1>3, <1>4

(* What is left of a sequence after its first k elements.                  *)
LEMMA Rest ==
  ASSUME NEW s \in Seq(Nat), NEW k \in 0 .. Len(s)
  PROVE  /\ SubSeq(s, k + 1, Len(s)) \in Seq(Nat)
         /\ Len(SubSeq(s, k + 1, Len(s))) = Len(s) - k
         /\ \A i \in 1 .. Len(s) - k : SubSeq(s, k + 1, Len(s))[i] = s[k + i]
<1>1. \A i \in k + 1 .. Len(s) : s[i] \in Nat
  OBVIOUS
<1>2. k \in Int /\ k + 1 \in Int /\ Len(s) \in Nat
  OBVIOUS
<1>3. /\ SubSeq(s, k + 1, Len(s)) \in Seq(Nat)
      /\ Len(SubSeq(s, k + 1, Len(s))) = IF k + 1 <= Len(s) THEN Len(s) - (k + 1) + 1 ELSE 0
      /\ \A i \in 1 .. Len(s) - (k + 1) + 1 : SubSeq(s, k + 1, Len(s))[i] = s[k + 1 + i - 1]
  BY <1>1, <1>2, SubSeqProperties
<1>4. \A i \in 1 .. Len(s) - k : i \in 1 .. Len(s) - (k + 1) + 1 /\ k + 1 + i - 1 = k + i
  BY <1>2
<1>5. (IF k + 1 <= Len(s) THEN Len(s) - (k + 1) + 1 ELSE 0) = Len(s) - k
  BY <1>2
<1> QED BY <1>3, <1>4, <1>5

(* PutU32, digit by digit.                                                 *)
LEMMA PutSeq ==
  ASSUME NEW v \in 0 .. Word - 1
  PROVE  /\ PutU32(v) \in Seq(Nat) /\ Len(PutU32(v)) = 4
         /\ GetU32(PutU32(v)) = v
<1>1. PutU32(v) \in Seq(Bytes) /\ Bytes \subseteq Nat
  BY GetPut, Constants DEF Bytes
<1>2. PutU32(v) \in Seq(Nat)
  BY <1>1, SeqMonotonic
<1> QED BY <1>2, GetPut

(* What is read depends on four bytes only.                                *)
LEMMA GetSame ==
  ASSUME NEW p, NEW q, \A i \in 1 .. 4 : p[i] = q[i]
  PROVE  GetU32(p) = GetU32(q)
<1>1. p[1] = q[1] /\ p[2] = q[2] /\ p[3] = q[3] /\ p[4] = q[4]
  OBVIOUS
<1> QED BY <1>1 DEF GetU32

(* Two words make eight bytes.                                             *)
LEMMA TwoWords ==
  ASSUME NEW s \in Seq(Nat), NEW t \in Seq(Nat), Len(s) = 4, Len(t) = 4
  PROVE  /\ s \o t \in Seq(Nat) /\ Len(s \o t) = 8
         /\ \A i \in 1 .. 4 : (s \o t)[i] = s[i] /\ (s \o t)[4 + i] = t[i]
<1> DEFINE m == Len(s)  n == Len(t)  c == s \o t
<1>1. m = 4 /\ n = 4
  OBVIOUS
<1>2. /\ c \in Seq(Nat) /\ Len(c) = m + n
      /\ \A i \in 1 .. m : c[i] = s[i]
      /\ \A i \in 1 .. n : c[m + i] = t[i]
  BY Halves
<1>3. c \in Seq(Nat) /\ Len(c) = 8 /\ \A i \in 1 .. 4 : c[i] = s[i] /\ c[4 + i] = t[i]
  <2> HIDE DEF m, n, c
  <2> QED BY <1>1, <1>2
<1> QED BY <1>3

(* The second word of eight bytes.                                         *)
LEMMA SecondWord ==
  ASSUME NEW h \in Seq(Nat), Len(h) = 8
  PROVE  \A i \in 1 .. 4 : SubSeq(h, 5, 8)[i] = h[4 + i]
<1>1. 4 \in 0 .. Len(h) /\ 4 + 1 = 5 /\ Len(h) - 4 = 4
  OBVIOUS
<1>2. \A i \in 1 .. Len(h) - 4 : SubSeq(h, 4 + 1, Len(h))[i] = h[4 + i]
  BY <1>1, Rest
<1> QED BY <1>1, <1>2

LEMMA MessageForms ==
  ASSUME NEW m \in Messages
  PROVE  /\ m.kind \in {"bool", "u32", "u64", "string", "bytes", "raw"}
         /\ m.kind = "bool" => m.value \in BOOLEAN
         /\ m.kind = "u32" => m.value \in 0 .. Word - 1
         /\ m.kind = "u64" => m.value \in 0 .. Word * Word - 1
         /\ m.kind \in {"string", "bytes", "raw"} => m.value \in Seq(Bytes)
         /\ m.kind = "raw" => m.tag \in 0 .. Word - 1
BY SendableAssumption DEF Messages, Kinds, Bytes

LEMMA Words ==
  ASSUME NEW v \in 0 .. Word * Word - 1
  PROVE  /\ v % Word \in 0 .. Word - 1 /\ v \div Word \in 0 .. Word - 1
         /\ (v % Word) + Word * (v \div Word) = v
<1> DEFINE q == v \div Word  r == v % Word
<1>0. Word \in Nat \ {0} /\ v \in Nat /\ Word * Word \in Nat
  BY Constants
<1>1. q \in Nat /\ r \in Nat /\ r < Word /\ v = Word * q + r
  BY <1>0, DivMod
<1>2. q < Word
  <2> HIDE DEF q, r
  <2> SUFFICES ASSUME q >= Word PROVE FALSE
    BY <1>0, <1>1
  <2>1. Word * q >= Word * Word
    BY <1>0, <1>1
  <2> QED BY <1>0, <1>1, <2>1
<1> HIDE DEF q, r
<1>3. r + Word * q = v
  BY <1>0, <1>1
<1> QED BY <1>0, <1>1, <1>2, <1>3 DEF q, r

(* A payload is bytes, and the receiver of its kind gets the value back.   *)
LEMMA PayloadValue ==
  ASSUME NEW m \in Messages
  PROVE  /\ Payload(m) \in Seq(Nat)
         /\ m.kind \in Kinds => Value(m.kind, Payload(m)) = m.value
<1>0. /\ m.kind \in {"bool", "u32", "u64", "string", "bytes", "raw"}
      /\ Bytes \subseteq Nat
  BY MessageForms, Constants DEF Bytes
<1>1. CASE m.kind = "bool"
  <2>1. m.value \in BOOLEAN /\ Payload(m) = <<IF m.value THEN 1 ELSE 0>>
    BY <1>1, MessageForms DEF Payload
  <2>2. Value(m.kind, Payload(m)) = (Payload(m)[1] # 0)
    BY <1>1 DEF Value
  <2>3. (Payload(m)[1] # 0) = m.value
    BY <2>1
  <2> QED BY <2>1, <2>2, <2>3
<1>2. CASE m.kind = "u32"
  <2>1. m.value \in 0 .. Word - 1 /\ Payload(m) = PutU32(m.value)
    BY <1>2, MessageForms DEF Payload
  <2>2. Value(m.kind, Payload(m)) = GetU32(Payload(m))
    BY <1>2 DEF Value
  <2> QED BY <2>1, <2>2, PutSeq
<1>3. CASE m.kind = "u64"
  <2> DEFINE lo == PutU32(m.value % Word)  hi == PutU32(m.value \div Word)
  <2>1. m.value \in 0 .. Word * Word - 1 /\ Payload(m) = lo \o hi
    BY <1>3, MessageForms DEF Payload, PutU64
  <2>2. /\ m.value % Word \in 0 .. Word - 1 /\ m.value \div Word \in 0 .. Word - 1
        /\ (m.value % Word) + Word * (m.value \div Word) = m.value
    BY <2>1, Words
  <2>3. /\ lo \in Seq(Nat) /\ Len(lo) = 4 /\ GetU32(lo) = m.value % Word
        /\ hi \in Seq(Nat) /\ Len(hi) = 4 /\ GetU32(hi) = m.value \div Word
    BY <2>2, PutSeq
  <2>4. Value(m.kind, Payload(m)) = GetU32(lo \o hi) + Word * GetU32(SubSeq(lo \o hi, 5, 8))
    BY <1>3, <2>1 DEF Value
  <2> HIDE DEF lo, hi
  <2>5. /\ lo \o hi \in Seq(Nat) /\ Len(lo \o hi) = 8
        /\ \A i \in 1 .. 4 : (lo \o hi)[i] = lo[i] /\ (lo \o hi)[4 + i] = hi[i]
    BY <2>3, TwoWords
  <2>6. \A i \in 1 .. 4 : (lo \o hi)[i] = lo[i] /\ SubSeq(lo \o hi, 5, 8)[i] = hi[i]
    BY <2>5, SecondWord
  <2>7. GetU32(lo \o hi) = GetU32(lo) /\ GetU32(SubSeq(lo \o hi, 5, 8)) = GetU32(hi)
    BY <2>6, GetSame
  <2> QED BY <2>1, <2>2, <2>3, <2>4, <2>5, <2>7
<1>4. CASE m.kind \in {"string", "bytes", "raw"}
  <2>1. m.value \in Seq(Bytes) /\ Payload(m) = m.value
    BY <1>4, MessageForms DEF Payload
  <2>2. Payload(m) \in Seq(Nat)
    BY <1>0, <2>1, SeqMonotonic
  <2>3. m.kind \in Kinds => Value(m.kind, Payload(m)) = Payload(m)
    BY <1>4 DEF Value, Kinds
  <2> QED BY <2>1, <2>2, <2>3
<1> QED BY <1>0, <1>1, <1>2, <1>3, <1>4

(* The layout of a frame.                                                  *)
LEMMA FrameShape ==
  ASSUME NEW m \in Messages, Len(Payload(m)) < Word
  PROVE  /\ TagOf(m) \in 0 .. Word - 1
         /\ Frame(m) \in Seq(Nat) /\ Len(Frame(m)) = 8 + Len(Payload(m))
         /\ \A i \in 1 .. 4 : /\ Frame(m)[i] = PutU32(TagOf(m))[i]
                              /\ Frame(m)[4 + i] = PutU32(Len(Payload(m)))[i]
         /\ \A i \in 1 .. Len(Payload(m)) : Frame(m)[8 + i] = Payload(m)[i]
<1> DEFINE t == PutU32(TagOf(m))  n == PutU32(Len(Payload(m)))  b == Payload(m)
<1>1. TagOf(m) \in 0 .. Word - 1
  BY MessageForms, Constants DEF TagOf, Tag
<1>2. b \in Seq(Nat) /\ Len(b) \in 0 .. Word - 1
  BY PayloadValue, Constants
<1>3. t \in Seq(Nat) /\ Len(t) = 4 /\ n \in Seq(Nat) /\ Len(n) = 4
  BY <1>1, <1>2, PutSeq
<1>4. Frame(m) = t \o n \o b
  BY DEF Frame
<1> HIDE DEF t, n, b
<1>5. /\ t \o n \in Seq(Nat) /\ Len(t \o n) = 8
      /\ \A i \in 1 .. 4 : (t \o n)[i] = t[i] /\ (t \o n)[4 + i] = n[i]
  BY <1>3, TwoWords
<1> DEFINE h == t \o n
<1>6. /\ h \in Seq(Nat) /\ Len(h) = 8
      /\ \A i \in 1 .. 4 : h[i] = t[i] /\ h[4 + i] = n[i]
  BY <1>5
<1> HIDE DEF h
<1>7. /\ h \o b \in Seq(Nat) /\ Len(h \o b) = 8 + Len(b)
      /\ \A i \in 1 .. 8 : (h \o b)[i] = h[i]
      /\ \A i \in 1 .. Len(b) : (h \o b)[8 + i] = b[i]
  <2> DEFINE k == Len(h)  l == Len(b)  c == h \o b
  <2>1. /\ c \in Seq(Nat) /\ Len(c) = k + l
        /\ \A i \in 1 .. k : c[i] = h[i]
        /\ \A i \in 1 .. l : c[k + i] = b[i]
    BY <1>2, <1>6, Halves
  <2>2. k = 8
    BY <1>6
  <2>3. /\ c \in Seq(Nat) /\ Len(c) = 8 + l
        /\ \A i \in 1 .. 8 : c[i] = h[i]
        /\ \A i \in 1 .. l : c[8 + i] = b[i]
    <3> HIDE DEF k, l, c
    <3> QED BY <2>1, <2>2
  <2> QED BY <2>3
<1>8. \A i \in 1 .. 4 : (h \o b)[i] = t[i] /\ (h \o b)[4 + i] = n[i]
  <2>1. \A i \in 1 .. 4 : i \in 1 .. 8 /\ 4 + i \in 1 .. 8
    OBVIOUS
  <2> QED BY <2>1, <1>6, <1>7
<1> QED BY <1>1, <1>4, <1>7, <1>8 DEF t, n, b, h

(* A sequence of messages whose lengths fit the header.                    *)
Fit(S) == S \in Seq(Messages) /\ \A i \in 1 .. Len(S) : Len(Payload(S[i])) < Word

LEMMA FrameLen ==
  ASSUME NEW S, Fit(S), NEW i \in 1 .. Len(S)
  PROVE  /\ S[i] \in Messages /\ Payload(S[i]) \in Seq(Nat) /\ Len(Payload(S[i])) \in Nat
         /\ Len(Payload(S[i])) < Word
         /\ Len(Frame(S[i])) = 8 + Len(Payload(S[i])) /\ Len(Frame(S[i])) \in Nat
<1>1. S[i] \in Messages /\ Len(Payload(S[i])) < Word
  BY DEF Fit
<1>2. Payload(S[i]) \in Seq(Nat) /\ Len(Frame(S[i])) = 8 + Len(Payload(S[i]))
  BY <1>1, PayloadValue, FrameShape
<1>3. Len(Payload(S[i])) \in Nat
  BY <1>2
<1> QED BY <1>1, <1>2, <1>3

(* A header that was read whole.                                           *)
LEMMA HeaderRead ==
  ASSUME NEW m \in Messages, Len(Payload(m)) < Word,
         NEW h \in Seq(Nat), Len(h) = 8, \A i \in 1 .. 8 : h[i] = Frame(m)[i]
  PROVE  GetU32(h) = TagOf(m) /\ GetU32(SubSeq(h, 5, 8)) = Len(Payload(m))
<1>1. Len(Payload(m)) \in 0 .. Word - 1
  BY PayloadValue, Constants
<1>2. /\ \A i \in 1 .. 4 : h[i] = PutU32(TagOf(m))[i]
      /\ \A i \in 1 .. 4 : SubSeq(h, 5, 8)[i] = PutU32(Len(Payload(m)))[i]
  <2>1. \A i \in 1 .. 4 : SubSeq(h, 5, 8)[i] = h[4 + i]
    BY SecondWord
  <2>2. \A i \in 1 .. 4 : i \in 1 .. 8 /\ 4 + i \in 1 .. 8
    OBVIOUS
  <2>3. \A i \in 1 .. 4 : /\ Frame(m)[i] = PutU32(TagOf(m))[i]
                           /\ Frame(m)[4 + i] = PutU32(Len(Payload(m)))[i]
    BY FrameShape
  <2> QED BY <2>1, <2>2, <2>3, Zenon
<1>3. /\ GetU32(h) = GetU32(PutU32(TagOf(m)))
      /\ GetU32(SubSeq(h, 5, 8)) = GetU32(PutU32(Len(Payload(m))))
  BY <1>2, GetSame
<1> QED BY <1>1, <1>3, FrameShape, PutSeq

-----------------------------------------------------------------------------
(* What is between the two ends.                                           *)

Ops == {Idle} \cup [call : {"send"}, left : Seq(Nat)]
       \cup [call : {"recv"}, kind : Kinds, tag : Int, need : Nat, have : Seq(Nat)]
Outcomes == {Failed(kind) : kind \in Kinds}
            \cup {Outcome(kind, tag, b) : kind \in Kinds, tag \in Int, b \in Seq(Nat)}

TypeOK ==
    /\ pipe \in [Ends -> Seq(Nat)]
    /\ r_ \in [Ends -> BOOLEAN] /\ w_ \in [Ends -> BOOLEAN]
    /\ copies \subseteq {"r", "w"}
    /\ child \in {"none", "up", "gone"} /\ run \in {"before", "spawned", "returned"}
    /\ op \in [Ends -> Ops]
    /\ sent \in [Ends -> Seq(Messages)]
    /\ got \in [Ends -> Seq(Outcomes)]

(* Where the ends are in their calls: only with a valid handle in a        *)
(* transfer, and untouched until the sandboxee is there.                   *)
Protocol ==
    /\ \A e \in Ends :
          /\ op[e].call = "send" => w_[e]
          /\ op[e].call = "recv" => r_[e] /\ Len(op[e].have) < op[e].need
          /\ op[e].call = "recv" /\ op[e].tag = -1 => op[e].need = 8
          /\ \A i \in 1 .. Len(sent[e]) : Len(Payload(sent[e][i])) < Word
    /\ run = "before" =>
          /\ child = "none" /\ ~r_["child"] /\ ~w_["child"]
          /\ \A e \in Ends : pipe[e] = <<>> /\ op[e] = Idle /\ sent[e] = <<>> /\ got[e] = <<>>

(* The bytes of a direction that were written and not used: the receiver's *)
(* part of a header or a payload, the pipe's, and what the sender has left.*)
Have(o) == IF o.call = "recv" THEN o.have ELSE <<>>
Left(o) == IF o.call = "send" THEN o.left ELSE <<>>
InPayload(o) == o.call = "recv" /\ o.tag # -1
Unread(o, q, s) == (Have(o) \o q) \o Left(s)

(* bytes are the frames of the messages from the c-th of S on: the i-th    *)
(* starts behind at[i], and only if the sender broke off is one cut.       *)
Layout(bytes, at, c, S, whole) ==
    /\ at \in [c .. Len(S) + 1 -> Int]
    /\ \A i \in c .. Len(S) : at[i + 1] = at[i] + Len(Frame(S[i]))
    /\ \A i \in c .. Len(S) + 1 : at[i] <= at[Len(S) + 1]
    /\ \A i \in c .. Len(S) : \A j \in 1 .. Len(Frame(S[i])) :
          at[i] + j \in 1 .. Len(bytes) => bytes[at[i] + j] = Frame(S[i])[j]
    /\ Len(bytes) <= at[Len(S) + 1]
    /\ whole => Len(bytes) = at[Len(S) + 1]

(* A direction in step: the receiver in call o, q in the pipe, the sender  *)
(* of S in call s.  n frames were used, none longer than max; of a payload *)
(* the header was used already.                                            *)
InStep(o, q, s, S, n, max, whole) ==
    /\ n <= Len(S)
    /\ \A j \in 1 .. n : Len(Payload(S[j])) <= max
    /\ InPayload(o) => /\ n < Len(S) /\ o.tag = TagOf(S[n + 1])
                       /\ o.need = Len(Payload(S[n + 1])) /\ o.need <= max
    /\ \E at : /\ Layout(Unread(o, q, s), at, n + 1, S, whole)
               /\ at[n + 1] = IF InPayload(o) THEN -8 ELSE 0

(* Each direction is in step, shut by its receiver, or at its end.         *)
Flow(e) ==
    \/ ~r_[e]
    \/ ~Writable(e) /\ pipe[Other(e)] = <<>>
    \/ InStep(op[e], pipe[Other(e)], op[Other(e)], sent[Other(e)], Len(got[e]), MaxMsg[e],
              w_[Other(e)])

(* What the i-th Recv answered: as the two properties want it.             *)
Answer(g, i, from, max, cut) ==
    /\ g.ok => /\ i <= Len(from)
               /\ TagOf(from[i]) = Tag(g.kind)
               /\ from[i].kind = g.kind => from[i].value = g.value
               /\ \A j \in 1 .. i : Len(Payload(from[j])) <= max
    /\ g.ok \/ cut \/ (i <= Len(from) /\ ~Accepts(g.kind, TagOf(from[i]), Payload(from[i])))
Shut(e) == ~r_[e] \/ ~Writable(e)
Results(e) ==
    \A i \in 1 .. Len(got[e]) : Answer(got[e][i], i, sent[Other(e)], MaxMsg[e], Shut(e))

CommsInv == TypeOK /\ Protocol /\ \A e \in Ends : Flow(e) /\ Results(e)

-----------------------------------------------------------------------------
(* How bytes move along a direction.                                       *)

Typed(o, q, s, S, n, max, whole) ==
    /\ o \in Ops /\ q \in Seq(Nat) /\ s \in Ops
    /\ Fit(S)
    /\ n \in Nat /\ max \in Nat /\ whole \in BOOLEAN

LEMMA OpForms ==
    /\ Idle \in Ops /\ Have(Idle) = <<>> /\ Left(Idle) = <<>> /\ ~InPayload(Idle)
    /\ Idle.call = "none"
    /\ \A o \in Ops : /\ o.call \in {"none", "send", "recv"}
                      /\ Have(o) \in Seq(Nat) /\ Left(o) \in Seq(Nat)
                      /\ o.call = "send" => o.left \in Seq(Nat)
                      /\ o.call = "recv" => /\ o.kind \in Kinds /\ o.tag \in Int
                                            /\ o.need \in Nat /\ o.have \in Seq(Nat)
    /\ \A x \in Seq(Nat) : /\ Sending(x) \in Ops /\ Sending(x).call = "send"
                           /\ Have(Sending(x)) = <<>> /\ Left(Sending(x)) = x
                           /\ ~InPayload(Sending(x))
<1>1. /\ Idle \in Ops /\ Have(Idle) = <<>> /\ Left(Idle) = <<>> /\ ~InPayload(Idle)
      /\ Idle.call = "none"
  BY DEF Ops, Idle, Have, Left, InPayload
<1>2. ASSUME NEW o \in Ops
      PROVE  /\ o.call \in {"none", "send", "recv"}
             /\ o.call = "send" => o.left \in Seq(Nat)
             /\ o.call = "recv" => /\ o.kind \in Kinds /\ o.tag \in Int
                                   /\ o.need \in Nat /\ o.have \in Seq(Nat)
  BY DEF Ops, Idle
<1>3. ASSUME NEW o \in Ops PROVE Have(o) \in Seq(Nat) /\ Left(o) \in Seq(Nat)
  <2>1. <<>> \in Seq(Nat)
    OBVIOUS
  <2> QED BY <1>2, <2>1 DEF Have, Left
<1>4. ASSUME NEW x \in Seq(Nat)
      PROVE  /\ Sending(x) \in Ops /\ Sending(x).call = "send"
             /\ Have(Sending(x)) = <<>> /\ Left(Sending(x)) = x /\ ~InPayload(Sending(x))
  BY DEF Ops, Sending, Have, Left, InPayload
<1> QED BY <1>1, <1>2, <1>3, <1>4

LEMMA RecvForm ==
  ASSUME NEW kind \in Kinds, NEW tag \in Int, NEW need \in Nat, NEW have \in Seq(Nat),
         NEW o, o = Receiving(kind, tag, need, have)
  PROVE  /\ o \in Ops /\ o.call = "recv" /\ o.kind = kind /\ o.tag = tag
         /\ o.need = need /\ o.have = have /\ Have(o) = have /\ Left(o) = <<>>
         /\ InPayload(o) <=> tag # -1
BY DEF Ops, Receiving, Have, Left, InPayload

(* A sequence cut in two.                                                  *)
LEMMA Cut ==
  ASSUME NEW s \in Seq(Nat), NEW k \in 0 .. Len(s)
  PROVE  /\ SubSeq(s, 1, k) \in Seq(Nat) /\ Len(SubSeq(s, 1, k)) = k
         /\ SubSeq(s, 1, k) \o SubSeq(s, k + 1, Len(s)) = s
<1>1. 1 \in 1 .. Len(s) + 1 /\ k \in 1 - 1 .. Len(s) /\ Len(s) \in k .. Len(s)
  OBVIOUS
<1>2. SubSeq(s, 1, k) \o SubSeq(s, k + 1, Len(s)) = SubSeq(s, 1, Len(s))
  BY <1>1, ConcatAdjacentSubSeq
<1>3. SubSeq(s, 1, Len(s)) = s
  BY SubSeqFull
<1>4. SubSeq(s, 1, k) \in Seq(Nat) /\ Len(SubSeq(s, 1, k)) = k
  OBVIOUS
<1> QED BY <1>2, <1>3, <1>4

LEMMA Assoc == \A x, y, z \in Seq(Nat) : (x \o y) \o z = x \o (y \o z)
<1> TAKE x, y, z \in Seq(Nat)
<1> DEFINE u == x \o y  v == y \o z  l == u \o z  r == x \o v
<1>1. /\ u \in Seq(Nat) /\ Len(u) = Len(x) + Len(y)
      /\ \A i \in 1 .. Len(x) : u[i] = x[i]
      /\ \A i \in 1 .. Len(y) : u[Len(x) + i] = y[i]
  BY Halves
<1>2. /\ v \in Seq(Nat) /\ Len(v) = Len(y) + Len(z)
      /\ \A i \in 1 .. Len(y) : v[i] = y[i]
      /\ \A i \in 1 .. Len(z) : v[Len(y) + i] = z[i]
  BY Halves
<1> HIDE DEF u, v
<1>3. /\ l \in Seq(Nat) /\ Len(l) = Len(u) + Len(z)
      /\ \A i \in 1 .. Len(u) : l[i] = u[i]
      /\ \A i \in 1 .. Len(z) : l[Len(u) + i] = z[i]
  BY <1>1, Halves
<1>4. /\ r \in Seq(Nat) /\ Len(r) = Len(x) + Len(v)
      /\ \A i \in 1 .. Len(x) : r[i] = x[i]
      /\ \A i \in 1 .. Len(v) : r[Len(x) + i] = v[i]
  BY <1>2, Halves
<1>5. Len(x) \in Nat /\ Len(y) \in Nat /\ Len(z) \in Nat
  OBVIOUS
<1> HIDE DEF l, r
<1>6. Len(l) = Len(r)
  BY <1>1, <1>2, <1>3, <1>4, <1>5
<1>7. ASSUME NEW i \in 1 .. Len(l) PROVE l[i] = r[i]
  <2>0. i \in Nat /\ i >= 1 /\ i <= Len(x) + Len(y) + Len(z)
    BY <1>1, <1>3, <1>5
  <2>1. CASE i <= Len(x)
    <3>1. i \in 1 .. Len(x) /\ i \in 1 .. Len(u)
      BY <1>1, <1>5, <2>0, <2>1
    <3> QED BY <1>1, <1>3, <1>4, <3>1
  <2>2. CASE i > Len(x) /\ i <= Len(x) + Len(y)
    <3> DEFINE k == i - Len(x)
    <3>1. k \in 1 .. Len(y) /\ k \in 1 .. Len(v) /\ i \in 1 .. Len(u) /\ i = Len(x) + k
      BY <1>1, <1>2, <1>5, <2>0, <2>2
    <3> HIDE DEF k
    <3>2. l[i] = y[k]
      BY <1>1, <1>3, <3>1
    <3>3. r[i] = y[k]
      BY <1>2, <1>4, <3>1
    <3> QED BY <3>2, <3>3
  <2>3. CASE i > Len(x) + Len(y)
    <3> DEFINE k == i - Len(u)  j == Len(y) + k
    <3>1. k \in 1 .. Len(z) /\ i = Len(u) + k /\ j \in 1 .. Len(v) /\ i = Len(x) + j
      BY <1>1, <1>2, <1>5, <2>0, <2>3
    <3>2. l[i] = z[k]
      <4> HIDE DEF k
      <4> QED BY <1>3, <3>1
    <3>3. r[i] = v[j]
      <4> HIDE DEF j
      <4> QED BY <1>4, <3>1
    <3>4. v[j] = z[k]
      <4> HIDE DEF k
      <4> QED BY <1>2, <3>1
    <3> QED BY <3>2, <3>3, <3>4
  <2> QED BY <1>5, <2>0, <2>1, <2>2, <2>3
<1>8. l = r
  BY <1>3, <1>4, <1>6, <1>7, SeqEqual
<1> QED BY <1>8 DEF l, r, u, v

(* Bytes move between neighbours.                                          *)
Pushed(h, q, a, b) == (h \o (q \o a)) \o b = (h \o q) \o (a \o b)
Pulled(h, a, b, l) == ((h \o a) \o b) \o l = (h \o (a \o b)) \o l

LEMMA Regroup ==
    \A x, y, z, u \in Seq(Nat) : Pushed(x, y, z, u) /\ Pulled(x, y, z, u)
<1> TAKE x, y, z, u \in Seq(Nat)
<1>1. x \o y \in Seq(Nat)
  BY ConcatProperties
<1>2. (x \o y) \o z = x \o (y \o z)
  BY Assoc, Zenon
<1>3. ((x \o y) \o z) \o u = (x \o y) \o (z \o u)
  BY <1>1, Assoc, Zenon
<1> QED BY <1>2, <1>3, Zenon DEF Pushed, Pulled

(* Unread, byte by byte.                                                   *)
LEMMA UnreadFacts ==
  ASSUME NEW o \in Ops, NEW q \in Seq(Nat), NEW s \in Ops
  PROVE  /\ Unread(o, q, s) \in Seq(Nat)
         /\ Len(Unread(o, q, s)) = Len(Have(o)) + Len(q) + Len(Left(s))
         /\ \A i \in 1 .. Len(Have(o)) : Unread(o, q, s)[i] = Have(o)[i]
<1> DEFINE h == Have(o)  l == Left(s)  u == h \o q
<1>1. h \in Seq(Nat) /\ l \in Seq(Nat)
  BY OpForms
<1>2. /\ u \in Seq(Nat) /\ Len(u) = Len(h) + Len(q)
      /\ \A i \in 1 .. Len(h) : u[i] = h[i]
  BY <1>1, Halves
<1>3. /\ u \o l \in Seq(Nat) /\ Len(u \o l) = Len(u) + Len(l)
      /\ \A i \in 1 .. Len(u) : (u \o l)[i] = u[i]
  <2> HIDE DEF u
  <2> QED BY <1>1, <1>2, Halves
<1>4. Unread(o, q, s) = u \o l
  BY DEF Unread
<1>5. Len(h) \in Nat /\ Len(q) \in Nat /\ Len(l) \in Nat
  BY <1>1
<1> HIDE DEF h, l, u
<1>6. \A i \in 1 .. Len(h) : i \in 1 .. Len(u)
  BY <1>2, <1>5
<1> QED BY <1>2, <1>3, <1>4, <1>5, <1>6 DEF h, l

(* The receiver has used all it had.                                       *)
Drops(h, q, l) ==
    SubSeq((h \o q) \o l, Len(h) + 1, Len((h \o q) \o l)) = (<<>> \o q) \o l
LEMMA Used ==
  ASSUME NEW h \in Seq(Nat), NEW q \in Seq(Nat), NEW l \in Seq(Nat)
  PROVE  Drops(h, q, l)
<1> DEFINE t == q \o l  u == h \o t
<1>1. t \in Seq(Nat) /\ Len(h) \in Nat /\ Len(t) \in Nat
  BY Halves
<1>2. (h \o q) \o l = u
  BY Assoc
<1>3. (<<>> \o q) \o l = t
  BY ConcatEmptySeq
<1> HIDE DEF t
<1>4. /\ u \in Seq(Nat) /\ Len(u) = Len(h) + Len(t)
      /\ \A i \in 1 .. Len(t) : u[Len(h) + i] = t[i]
  BY <1>1, Halves
<1> HIDE DEF u
<1>5. /\ SubSeq(u, Len(h) + 1, Len(u)) \in Seq(Nat)
      /\ Len(SubSeq(u, Len(h) + 1, Len(u))) = Len(u) - Len(h)
      /\ \A i \in 1 .. Len(u) - Len(h) : SubSeq(u, Len(h) + 1, Len(u))[i] = u[Len(h) + i]
  <2>1. Len(h) \in 0 .. Len(u)
    BY <1>1, <1>4
  <2> QED BY <1>4, <2>1, Rest
<1>6. Len(u) - Len(h) = Len(t)
  BY <1>1, <1>4
<1> DEFINE r == SubSeq(u, Len(h) + 1, Len(u))
<1>7. /\ r \in Seq(Nat) /\ Len(r) = Len(t)
      /\ \A i \in 1 .. Len(r) : r[i] = t[i]
  <2>1. r \in Seq(Nat) /\ Len(r) = Len(t) /\ \A i \in 1 .. Len(t) : r[i] = u[Len(h) + i]
    BY <1>5, <1>6
  <2> HIDE DEF r
  <2> QED BY <1>4, <2>1
<1>8. r = t
  <2> HIDE DEF r
  <2> QED BY <1>1, <1>7, SeqEqual
<1> QED BY <1>2, <1>3, <1>8 DEF Drops

(* After the first k bytes the rest is laid out as before, from any later  *)
(* frame on.                                                               *)
LEMMA LayoutRest ==
  ASSUME NEW bytes \in Seq(Nat), NEW S, Fit(S), NEW c \in Nat \ {0}, NEW at, NEW whole,
         Layout(bytes, at, c, S, whole),
         NEW k \in 0 .. Len(bytes), NEW d \in c .. Len(S) + 1
  PROVE  Layout(SubSeq(bytes, k + 1, Len(bytes)), [i \in d .. Len(S) + 1 |-> at[i] - k], d, S, whole)
<1> DEFINE r == SubSeq(bytes, k + 1, Len(bytes))
           b == [i \in d .. Len(S) + 1 |-> at[i] - k]
<1>1. /\ at \in [c .. Len(S) + 1 -> Int]
      /\ \A i \in c .. Len(S) : at[i + 1] = at[i] + Len(Frame(S[i]))
      /\ \A i \in c .. Len(S) + 1 : at[i] <= at[Len(S) + 1]
      /\ \A i \in c .. Len(S) : \A j \in 1 .. Len(Frame(S[i])) :
            at[i] + j \in 1 .. Len(bytes) => bytes[at[i] + j] = Frame(S[i])[j]
      /\ Len(bytes) <= at[Len(S) + 1]
      /\ whole => Len(bytes) = at[Len(S) + 1]
  BY DEF Layout
<1>2. /\ r \in Seq(Nat) /\ Len(r) = Len(bytes) - k
      /\ \A i \in 1 .. Len(bytes) - k : r[i] = bytes[k + i]
  BY Rest
<1>3. /\ k \in Nat /\ Len(bytes) \in Nat /\ k <= Len(bytes) /\ Len(S) \in Nat
      /\ d \in Nat /\ d <= Len(S) + 1 /\ c <= d
  BY DEF Fit
<1>4. ASSUME NEW i \in d .. Len(S) + 1
      PROVE  i \in c .. Len(S) + 1 /\ at[i] \in Int /\ b[i] = at[i] - k /\ b[i] \in Int
  <2>1. i \in c .. Len(S) + 1
    BY <1>3
  <2>2. at[i] \in Int
    BY <1>1, <2>1
  <2>3. b[i] = at[i] - k
    OBVIOUS
  <2> QED BY <1>3, <2>1, <2>2, <2>3
<1>5. b \in [d .. Len(S) + 1 -> Int]
  BY <1>4
<1> HIDE DEF r, b
<1>6. ASSUME NEW i \in d .. Len(S)
      PROVE  /\ b[i + 1] = b[i] + Len(Frame(S[i]))
             /\ \A j \in 1 .. Len(Frame(S[i])) :
                   b[i] + j \in 1 .. Len(r) => r[b[i] + j] = Frame(S[i])[j]
  <2>0. /\ i \in Nat /\ i \in d .. Len(S) + 1 /\ i + 1 \in d .. Len(S) + 1 /\ i \in c .. Len(S)
        /\ i \in 1 .. Len(S)
    BY <1>3
  <2>1. b[i] = at[i] - k /\ b[i + 1] = at[i + 1] - k /\ at[i] \in Int /\ at[i + 1] \in Int
    BY <1>4, <2>0
  <2>2. at[i + 1] = at[i] + Len(Frame(S[i]))
    BY <1>1, <2>0
  <2> DEFINE f == Frame(S[i])
  <2>3. b[i + 1] = b[i] + Len(f)
    <3>1. Len(f) = at[i + 1] - at[i] \/ Len(f) \notin Int
      BY <2>1, <2>2
    <3>2. Len(f) \in Int
      BY <2>0, FrameLen
    <3> HIDE DEF f
    <3> QED BY <2>1, <2>2, <3>1, <3>2
  <2>4. ASSUME NEW j \in 1 .. Len(f), b[i] + j \in 1 .. Len(r) PROVE r[b[i] + j] = f[j]
    <3>0. Len(f) \in Int
      BY <2>0, FrameLen
    <3>1. at[i] + j \in 1 .. Len(bytes) => bytes[at[i] + j] = f[j]
      BY <1>1, <2>0
    <3> HIDE DEF f
    <3>j. j \in Int
      BY <3>0
    <3> DEFINE x == b[i] + j  y == at[i] + j
    <3>k. b[i] = at[i] - k /\ at[i] \in Int /\ k \in Int
      BY <1>3, <2>1
    <3>2. x \in 1 .. Len(bytes) - k /\ k + x = y
      <4>1. x \in 1 .. Len(bytes) - k
        BY <1>2, <2>4
      <4>2. k + x = y
        BY <3>j, <3>k
      <4> QED BY <4>1, <4>2
    <3>3. y \in 1 .. Len(bytes)
      <4> HIDE DEF x, y
      <4> QED BY <1>3, <3>2
    <3>4. r[x] = bytes[y]
      <4> HIDE DEF x, y
      <4> QED BY <1>2, <3>2
    <3> QED BY <3>1, <3>3, <3>4
  <2> QED BY <2>3, <2>4
<1>7. /\ Len(r) <= b[Len(S) + 1]
      /\ whole => Len(r) = b[Len(S) + 1]
      /\ \A i \in d .. Len(S) + 1 : b[i] <= b[Len(S) + 1]
  <2>1. Len(S) + 1 \in d .. Len(S) + 1
    BY <1>3
  <2>2. b[Len(S) + 1] = at[Len(S) + 1] - k /\ at[Len(S) + 1] \in Int
    BY <1>4, <2>1
  <2>3. ASSUME NEW i \in d .. Len(S) + 1 PROVE b[i] <= b[Len(S) + 1]
    <3>1. b[i] = at[i] - k /\ at[i] \in Int /\ at[i] <= at[Len(S) + 1]
      BY <1>1, <1>4
    <3> QED BY <1>3, <2>2, <3>1
  <2> QED BY <1>1, <1>2, <1>3, <2>2, <2>3
<1>8. Layout(r, b, d, S, whole)
  BY <1>5, <1>6, <1>7 DEF Layout
<1> QED BY <1>8 DEF r, b

(* A step that neither adds nor uses bytes.                                *)
LEMMA StaysInStep ==
  ASSUME NEW o, NEW q, NEW s, NEW S, NEW n, NEW max, NEW whole,
         NEW o2, NEW q2, NEW s2, NEW whole2,
         InStep(o, q, s, S, n, max, whole),
         Unread(o2, q2, s2) = Unread(o, q, s), InPayload(o2) <=> InPayload(o),
         InPayload(o) => o2.tag = o.tag /\ o2.need = o.need,
         whole2 => whole
  PROVE  InStep(o2, q2, s2, S, n, max, whole2)
<1>1. PICK at : /\ Layout(Unread(o, q, s), at, n + 1, S, whole)
                /\ at[n + 1] = IF InPayload(o) THEN -8 ELSE 0
  BY DEF InStep
<1>2. Layout(Unread(o2, q2, s2), at, n + 1, S, whole2)
  BY <1>1 DEF Layout
<1>3. \E x : /\ Layout(Unread(o2, q2, s2), x, n + 1, S, whole2)
             /\ x[n + 1] = IF InPayload(o2) THEN -8 ELSE 0
  BY <1>1, <1>2
<1>4. /\ n <= Len(S)
      /\ \A j \in 1 .. n : Len(Payload(S[j])) <= max
      /\ InPayload(o2) => /\ n < Len(S) /\ o2.tag = TagOf(S[n + 1])
                          /\ o2.need = Len(Payload(S[n + 1])) /\ o2.need <= max
  BY DEF InStep
<1> QED BY <1>3, <1>4 DEF InStep

(* A receiver and a sender that are in no transfer look alike from here.   *)
LEMMA OtherCall ==
  ASSUME NEW o, NEW q, NEW s, NEW S, NEW n, NEW max, NEW whole, NEW o2, NEW s2, NEW whole2,
         InStep(o, q, s, S, n, max, whole), whole2 => whole,
         Have(o2) = Have(o), Left(s2) = Left(s), o2 = o \/ (~InPayload(o2) /\ ~InPayload(o))
  PROVE  InStep(o2, q, s2, S, n, max, whole2)
<1>1. Unread(o2, q, s2) = Unread(o, q, s)
  BY DEF Unread
<1> QED BY <1>1, StaysInStep

(* WriteSome: k bytes go from the sender to the pipe.                      *)
LEMMA AfterWriteForms ==
  ASSUME NEW left \in Seq(Nat), NEW k \in 0 .. Len(left)
  PROVE  /\ AfterWrite(left, k) \in Ops /\ AfterWrite(left, k).call \in {"none", "send"}
         /\ Have(AfterWrite(left, k)) = <<>> /\ ~InPayload(AfterWrite(left, k))
         /\ Left(AfterWrite(left, k)) = SubSeq(left, k + 1, Len(left))
<1> DEFINE b == SubSeq(left, k + 1, Len(left))  s2 == AfterWrite(left, k)
<1>1. b \in Seq(Nat)
  BY Rest
<1>2. CASE k = Len(left)
  <2>1. b = <<>>
    BY <1>2, SubSeqEmpty
  <2>2. s2 = Idle
    BY <1>2 DEF AfterWrite
  <2> QED BY <2>1, <2>2, OpForms
<1>3. CASE k # Len(left)
  <2>1. s2 = Sending(b)
    BY <1>3 DEF AfterWrite
  <2> HIDE DEF b
  <2> QED BY <1>1, <2>1, OpForms DEF b
<1> QED BY <1>2, <1>3

LEMMA WriteMoves ==
  ASSUME NEW o, NEW q, NEW left \in Seq(Nat), NEW S, NEW n, NEW max, NEW whole,
         Typed(o, q, Sending(left), S, n, max, whole),
         InStep(o, q, Sending(left), S, n, max, whole),
         NEW k \in 0 .. Len(left)
  PROVE  InStep(o, q \o SubSeq(left, 1, k), AfterWrite(left, k), S, n, max, whole)
<1> DEFINE a == SubSeq(left, 1, k)  b == SubSeq(left, k + 1, Len(left))  s2 == AfterWrite(left, k)
<1>0. Have(o) \in Seq(Nat) /\ q \in Seq(Nat)
  BY OpForms DEF Typed
<1>1. a \in Seq(Nat) /\ b \in Seq(Nat) /\ a \o b = left
  BY Cut, Rest
<1>2. Left(s2) = b
  BY AfterWriteForms
<1> HIDE DEF a, b, s2
<1>4. Unread(o, q \o a, s2) = Unread(o, q, Sending(left))
  <2>1. Left(Sending(left)) = a \o b
    BY <1>1, OpForms
  <2>2. Pushed(Have(o), q, a, b)
    BY <1>0, <1>1, Regroup
  <2> QED BY <1>2, <2>1, <2>2, Zenon DEF Unread, Pushed
<1>5. InStep(o, q \o a, s2, S, n, max, whole)
  BY <1>4, StaysInStep
<1> QED BY <1>5 DEF a, s2

(* ReadSome: k bytes go from the pipe to the receiver.                     *)
LEMMA ReadMoves ==
  ASSUME NEW o, NEW q, NEW s, NEW S, NEW n, NEW max, NEW whole,
         Typed(o, q, s, S, n, max, whole), InStep(o, q, s, S, n, max, whole),
         o.call = "recv", NEW k \in 0 .. Len(q)
  PROVE  LET have == o.have \o SubSeq(q, 1, k)
             o2 == Receiving(o.kind, o.tag, o.need, have)
             q2 == SubSeq(q, k + 1, Len(q))
         IN  /\ have \in Seq(Nat) /\ Len(have) = Len(o.have) + k
             /\ Typed(o2, q2, s, S, n, max, whole)
             /\ InStep(o2, q2, s, S, n, max, whole)
<1> DEFINE a == SubSeq(q, 1, k)  b == SubSeq(q, k + 1, Len(q))
           h == o.have \o a  o2 == Receiving(o.kind, o.tag, o.need, h)
<1>0. /\ o.kind \in Kinds /\ o.tag \in Int /\ o.need \in Nat /\ o.have \in Seq(Nat)
      /\ Have(o) = o.have /\ Left(s) \in Seq(Nat) /\ q \in Seq(Nat)
  <2>1. o \in Ops /\ s \in Ops /\ q \in Seq(Nat)
    BY DEF Typed
  <2> QED BY <2>1, OpForms DEF Have
<1>1. a \in Seq(Nat) /\ Len(a) = k /\ b \in Seq(Nat) /\ a \o b = q
  BY <1>0, Cut, Rest
<1> HIDE DEF a, b
<1>2. h \in Seq(Nat) /\ Len(h) = Len(o.have) + k
  <2>1. h \in Seq(Nat) /\ Len(h) = Len(o.have) + Len(a)
    BY <1>0, <1>1, Halves
  <2> QED BY <1>1, <2>1
<1>3. Pulled(o.have, a, b, Left(s))
  BY <1>0, <1>1, Regroup
<1> HIDE DEF h
<1>4. /\ o2 \in Ops /\ o2.tag = o.tag /\ o2.need = o.need /\ Have(o2) = h
      /\ InPayload(o2) <=> o.tag # -1
  BY <1>0, <1>2 DEF Ops, Receiving, Have, Left, InPayload
<1> HIDE DEF o2
<1>5. Unread(o2, b, s) = Unread(o, q, s)
  <2>1. Have(o2) = o.have \o a /\ Have(o) = o.have /\ a \o b = q
    BY <1>0, <1>1, <1>4 DEF h
  <2> QED BY <1>3, <2>1, Zenon DEF Unread, Pulled
<1>6. InPayload(o2) <=> InPayload(o)
  BY <1>4 DEF InPayload
<1>7. InStep(o2, b, s, S, n, max, whole)
  BY <1>4, <1>5, <1>6, StaysInStep
<1>8. Typed(o2, b, s, S, n, max, whole)
  BY <1>1, <1>4 DEF Typed
<1> QED BY <1>2, <1>7, <1>8 DEF a, b, h, o2

(* A message is added behind the others, laid out as its frame.            *)
LEMMA LayoutMore ==
  ASSUME NEW bytes \in Seq(Nat), NEW S, Fit(S), NEW c \in 1 .. Len(S) + 1, NEW at,
         Layout(bytes, at, c, S, TRUE),
         NEW m \in Messages, Fit(Append(S, m)),
         NEW b, b = [i \in c .. Len(S) + 2 |->
                        IF i <= Len(S) + 1 THEN at[i] ELSE at[Len(S) + 1] + Len(Frame(m))]
  PROVE  Layout(bytes \o Frame(m), b, c, Append(S, m), TRUE)
<1> DEFINE T == Append(S, m)  f == Frame(m)  x == bytes \o f  k == Len(S) + 1
<1>0. /\ S \in Seq(Messages) /\ Len(S) \in Nat /\ k \in Nat /\ k = Len(S) + 1
      /\ c \in Nat /\ 1 <= c /\ c <= k /\ Len(bytes) \in Nat
  BY DEF Fit
<1>1. /\ T \in Seq(Messages) /\ Len(T) = k /\ T[k] = m
      /\ \A i \in 1 .. Len(S) : T[i] = S[i]
  BY <1>0
<1>2. /\ at \in [c .. k -> Int]
      /\ \A i \in c .. Len(S) : at[i + 1] = at[i] + Len(Frame(S[i]))
      /\ \A i \in c .. k : at[i] <= at[k]
      /\ \A i \in c .. Len(S) : \A j \in 1 .. Len(Frame(S[i])) :
            at[i] + j \in 1 .. Len(bytes) => bytes[at[i] + j] = Frame(S[i])[j]
      /\ Len(bytes) = at[k]
  BY DEF Layout
<1>3. f \in Seq(Nat) /\ Len(f) \in Nat
  <2>1. k \in 1 .. Len(T)
    BY <1>0, <1>1
  <2>2. Len(Payload(m)) < Word
    BY <1>1, <2>1 DEF Fit
  <2>3. f \in Seq(Nat)
    BY <2>2, FrameShape
  <2> HIDE DEF f
  <2> QED BY <2>3
<1>4. /\ x \in Seq(Nat) /\ Len(x) = Len(bytes) + Len(f)
      /\ \A i \in 1 .. Len(bytes) : x[i] = bytes[i]
      /\ \A i \in 1 .. Len(f) : x[Len(bytes) + i] = f[i]
  <2> HIDE DEF f
  <2> QED BY <1>3, Halves
<1>5. /\ \A i \in c .. k : b[i] = at[i] /\ at[i] \in Int
      /\ b[k + 1] = at[k] + Len(f)
  <2>1. b = [i \in c .. k + 1 |-> IF i <= k THEN at[i] ELSE at[k] + Len(f)]
    BY <1>0
  <2> HIDE DEF k, f
  <2>2. ASSUME NEW i \in c .. k PROVE b[i] = at[i] /\ at[i] \in Int
    <3>1. i \in c .. k + 1 /\ i <= k
      BY <1>0
    <3> QED BY <1>2, <2>1, <3>1
  <2>3. k + 1 \in c .. k + 1 /\ ~(k + 1 <= k)
    BY <1>0
  <2> QED BY <2>1, <2>2, <2>3
<1>6. b \in [c .. k + 1 -> Int]
  <2>1. b = [i \in c .. k + 1 |-> IF i <= k THEN at[i] ELSE at[k] + Len(f)]
    BY <1>0
  <2>2. at[k] \in Int
    BY <1>0, <1>2
  <2> HIDE DEF k, f
  <2> QED BY <1>0, <1>2, <1>3, <2>1, <2>2
<1> HIDE DEF T, f, x, k
<1>7. ASSUME NEW i \in c .. k
      PROVE  /\ b[i + 1] = b[i] + Len(Frame(T[i]))
             /\ \A j \in 1 .. Len(Frame(T[i])) :
                   b[i] + j \in 1 .. Len(x) => x[b[i] + j] = Frame(T[i])[j]
  <2>1. CASE i = k
    <3>1. T[i] = m /\ Frame(T[i]) = f
      BY <1>1, <2>1 DEF f
    <3>2. b[i] = Len(bytes) /\ b[i + 1] = b[i] + Len(f)
      BY <1>0, <1>2, <1>5, <2>1
    <3> QED BY <1>4, <3>1, <3>2
  <2>2. CASE i # k
    <3>1. i \in c .. Len(S) /\ i \in 1 .. Len(S) /\ i + 1 \in c .. k
      BY <1>0, <2>2
    <3>2. T[i] = S[i] /\ b[i] = at[i] /\ b[i + 1] = at[i + 1] /\ at[i] \in Int
      BY <1>1, <1>5, <3>1
    <3> DEFINE g == Frame(S[i])
    <3>3. Len(g) \in Nat
      BY <3>1, FrameLen
    <3>4. at[i + 1] = at[i] + Len(g)
      BY <1>2, <3>1
    <3>5. ASSUME NEW j \in 1 .. Len(g), at[i] + j \in 1 .. Len(x) PROVE x[at[i] + j] = g[j]
      <4>1. at[i] + j \in 1 .. Len(bytes) => bytes[at[i] + j] = g[j]
        BY <1>2, <3>1
      <4>2. at[i + 1] <= Len(bytes)
        BY <1>2, <3>1
      <4> HIDE DEF g
      <4>3. at[i] + j \in 1 .. Len(bytes)
        BY <1>0, <3>2, <3>3, <3>4, <3>5, <4>2
      <4> QED BY <1>4, <4>1, <4>3
    <3> QED BY <3>2, <3>4, <3>5
  <2> QED BY <2>1, <2>2
<1>8. Len(x) = b[k + 1]
  BY <1>2, <1>4, <1>5
<1>10. ASSUME NEW i \in c .. k + 1 PROVE b[i] <= b[k + 1]
  <2>1. at[k] \in Int
    BY <1>0, <1>2
  <2>2. CASE i = k + 1
    BY <1>3, <1>5, <2>1, <2>2
  <2>3. CASE i # k + 1
    <3>1. i \in c .. k
      BY <1>0, <2>3
    <3>2. b[i] = at[i] /\ at[i] \in Int /\ at[i] <= at[k]
      BY <1>2, <1>5, <3>1
    <3> QED BY <1>3, <1>5, <2>1, <3>2
  <2> QED BY <2>2, <2>3
<1>9. Layout(x, b, c, T, TRUE)
  <2>1. Len(T) = k /\ Len(x) <= b[k + 1]
    BY <1>1, <1>3, <1>4, <1>8
  <2> QED BY <1>6, <1>7, <1>8, <1>10, <2>1 DEF Layout
<1> QED BY <1>9 DEF x, T, f

(* SendTLV: a whole frame is now to be written.                            *)
LEMMA SendMoves ==
  ASSUME NEW o, NEW q, NEW s, NEW S, NEW n, NEW max,
         Typed(o, q, s, S, n, max, TRUE), InStep(o, q, s, S, n, max, TRUE), Left(s) = <<>>,
         NEW m \in Messages, Len(Payload(m)) < Word
  PROVE  /\ Fit(Append(S, m)) /\ Frame(m) \in Seq(Nat)
         /\ InStep(o, q, Sending(Frame(m)), Append(S, m), n, max, TRUE)
<1> DEFINE T == Append(S, m)  f == Frame(m)  bytes == Have(o) \o q
<1>0. /\ o \in Ops /\ q \in Seq(Nat) /\ s \in Ops /\ Fit(S) /\ S \in Seq(Messages)
      /\ Len(S) \in Nat /\ n \in Nat /\ max \in Nat /\ n <= Len(S)
  BY DEF Typed, Fit, InStep
<1>1. /\ T \in Seq(Messages) /\ Len(T) = Len(S) + 1 /\ T[Len(S) + 1] = m
      /\ \A i \in 1 .. Len(S) : T[i] = S[i]
  BY <1>0
<1>2. Fit(T)
  <2>1. ASSUME NEW i \in 1 .. Len(T) PROVE Len(Payload(T[i])) < Word
    <3>1. CASE i = Len(S) + 1
      BY <1>1, <3>1
    <3>2. CASE i # Len(S) + 1
      <4>1. i \in 1 .. Len(S)
        BY <1>0, <1>1, <3>2
      <4> QED BY <1>0, <1>1, <4>1 DEF Fit
    <3> QED BY <3>1, <3>2
  <2> QED BY <1>1, <2>1 DEF Fit
<1>3. f \in Seq(Nat)
  BY FrameShape
<1>4. bytes \in Seq(Nat)
  BY <1>0, OpForms, ConcatProperties
<1>5. Unread(o, q, s) = bytes /\ Unread(o, q, Sending(f)) = bytes \o f
  <2>1. Unread(o, q, s) = bytes \o <<>>
    BY DEF Unread
  <2>2. Left(Sending(f)) = f
    <3> HIDE DEF f
    <3> QED BY <1>3, OpForms
  <2>3. bytes \o <<>> = bytes
    <3> HIDE DEF bytes
    <3> QED BY <1>4, ConcatEmptySeq
  <2> QED BY <2>1, <2>2, <2>3, Zenon DEF Unread
<1>6. PICK at : /\ Layout(bytes, at, n + 1, S, TRUE)
                /\ at[n + 1] = IF InPayload(o) THEN -8 ELSE 0
  BY <1>5 DEF InStep
<1> DEFINE b == [i \in n + 1 .. Len(S) + 2 |->
                    IF i <= Len(S) + 1 THEN at[i] ELSE at[Len(S) + 1] + Len(Frame(m))]
<1>7. n + 1 \in 1 .. Len(S) + 1 /\ n + 1 \in n + 1 .. Len(S) + 2 /\ n + 1 <= Len(S) + 1
  BY <1>0
<1>8. Layout(bytes \o Frame(m), b, n + 1, T, TRUE)
  <2> HIDE DEF bytes
  <2> QED BY <1>0, <1>2, <1>4, <1>6, <1>7, LayoutMore
<1>9. b[n + 1] = at[n + 1]
  BY <1>7
<1> HIDE DEF b
<1>10. \E x : /\ Layout(Unread(o, q, Sending(f)), x, n + 1, T, TRUE)
              /\ x[n + 1] = IF InPayload(o) THEN -8 ELSE 0
  BY <1>5, <1>6, <1>8, <1>9
<1> HIDE DEF T
<1>11. /\ n <= Len(T)
       /\ \A j \in 1 .. n : Len(Payload(T[j])) <= max
       /\ InPayload(o) => /\ n < Len(T) /\ o.tag = TagOf(T[n + 1])
                          /\ o.need = Len(Payload(T[n + 1])) /\ o.need <= max
  <2>1. n <= Len(T)
    BY <1>0, <1>1
  <2>2. ASSUME NEW j \in 1 .. n PROVE Len(Payload(T[j])) <= max
    <3>1. j \in 1 .. Len(S) /\ Len(Payload(S[j])) <= max
      BY <1>0 DEF InStep
    <3> QED BY <1>1, <3>1
  <2>3. ASSUME InPayload(o)
        PROVE  /\ n < Len(T) /\ o.tag = TagOf(T[n + 1])
               /\ o.need = Len(Payload(T[n + 1])) /\ o.need <= max
    <3>1. /\ n < Len(S) /\ o.tag = TagOf(S[n + 1])
          /\ o.need = Len(Payload(S[n + 1])) /\ o.need <= max
      BY <2>3 DEF InStep
    <3>2. n + 1 \in 1 .. Len(S) /\ n < Len(T)
      BY <1>0, <1>1, <3>1
    <3> QED BY <1>1, <3>1, <3>2
  <2> QED BY <2>1, <2>2, <2>3
<1>12. InStep(o, q, Sending(f), T, n, max, TRUE)
  BY <1>10, <1>11 DEF InStep
<1> QED BY <1>2, <1>3, <1>12 DEF T

(* The bytes of the frame the receiver is at.                              *)
LEMMA FrameAtHand ==
  ASSUME NEW o, NEW q, NEW s, NEW S, NEW n, NEW max, NEW whole,
         Typed(o, q, s, S, n, max, whole), InStep(o, q, s, S, n, max, whole),
         o.call = "recv", NEW k, k = (IF InPayload(o) THEN 8 ELSE 0),
         n < Len(S)
  PROVE  \A i \in 1 .. Len(o.have) :
            k + i <= Len(Frame(S[n + 1])) => o.have[i] = Frame(S[n + 1])[k + i]
<1> SUFFICES ASSUME NEW i \in 1 .. Len(o.have), k + i <= Len(Frame(S[n + 1]))
             PROVE  o.have[i] = Frame(S[n + 1])[k + i]
  OBVIOUS
<1> DEFINE u == Unread(o, q, s)  f == Frame(S[n + 1])
<1>0. /\ o \in Ops /\ q \in Seq(Nat) /\ s \in Ops /\ Fit(S) /\ S \in Seq(Messages)
      /\ Len(S) \in Nat /\ n \in Nat /\ Have(o) = o.have /\ o.have \in Seq(Nat)
      /\ n + 1 \in n + 1 .. Len(S) /\ n + 1 \in 1 .. Len(S)
  <2>1. /\ o \in Ops /\ q \in Seq(Nat) /\ s \in Ops /\ Fit(S) /\ S \in Seq(Messages) /\ n \in Nat
    BY DEF Typed, Fit
  <2>2. Have(o) = o.have /\ o.have \in Seq(Nat)
    BY <2>1, OpForms DEF Have
  <2> QED BY <2>1, <2>2
<1>1. PICK at : /\ Layout(u, at, n + 1, S, whole)
                /\ at[n + 1] = IF InPayload(o) THEN -8 ELSE 0
  BY DEF InStep
<1>2. /\ u[i] = o.have[i] /\ i \in Nat /\ i >= 1 /\ i <= Len(u) /\ Len(u) \in Nat
  <2>1. /\ u \in Seq(Nat) /\ Len(u) = Len(Have(o)) + Len(q) + Len(Left(s))
        /\ \A j \in 1 .. Len(Have(o)) : u[j] = Have(o)[j]
    BY <1>0, UnreadFacts
  <2>2. Len(o.have) \in Nat /\ Len(q) \in Nat /\ Len(Left(s)) \in Nat
    <3>1. o.have \in Seq(Nat) /\ q \in Seq(Nat) /\ Left(s) \in Seq(Nat)
      BY <1>0, OpForms
    <3> QED BY <3>1
  <2> HIDE DEF u
  <2> QED BY <1>0, <2>1, <2>2
<1>3. at[n + 1] = -k /\ k \in Nat
  BY <1>1
<1>4. Len(f) \in Nat
  BY <1>0, FrameLen
<1>5. k + i \in 1 .. Len(f) /\ at[n + 1] + (k + i) = i
  <2> HIDE DEF f
  <2>1. k + i <= Len(f)
    BY DEF f
  <2> QED BY <1>2, <1>3, <1>4, <2>1
<1>6. \A j \in 1 .. Len(f) : at[n + 1] + j \in 1 .. Len(u) => u[at[n + 1] + j] = f[j]
  BY <1>0, <1>1 DEF Layout
<1> HIDE DEF u, f
<1>7. u[i] = f[k + i]
  BY <1>2, <1>5, <1>6
<1> QED BY <1>2, <1>7 DEF f

(* Whoever has a byte has it of a frame.                                   *)
LEMMA FrameIsThere ==
  ASSUME NEW o, NEW q, NEW s, NEW S, NEW n, NEW max, NEW whole,
         Typed(o, q, s, S, n, max, whole), InStep(o, q, s, S, n, max, whole),
         Len(Have(o)) > 0
  PROVE  n < Len(S)
<1> SUFFICES ASSUME ~(n < Len(S)) PROVE FALSE
  OBVIOUS
<1>0. /\ o \in Ops /\ q \in Seq(Nat) /\ s \in Ops
      /\ Len(S) \in Nat /\ n \in Nat /\ n <= Len(S)
  BY DEF Typed, Fit, InStep
<1>1. PICK at : /\ Layout(Unread(o, q, s), at, n + 1, S, whole)
                /\ at[n + 1] = IF InPayload(o) THEN -8 ELSE 0
  BY DEF InStep
<1>2. n = Len(S)
  BY <1>0
<1>3. Len(Unread(o, q, s)) <= at[n + 1]
  BY <1>1, <1>2 DEF Layout
<1>4. Len(Unread(o, q, s)) = Len(Have(o)) + Len(q) + Len(Left(s))
  BY <1>0, UnreadFacts
<1>5. Len(Have(o)) \in Nat /\ Len(q) \in Nat /\ Len(Left(s)) \in Nat
  BY <1>0, OpForms
<1> QED BY <1>1, <1>3, <1>4, <1>5

(* A whole header is here: its frame's tag and length were read.           *)
LEMMA HeaderHere ==
  ASSUME NEW o, NEW q, NEW s, NEW S, NEW n, NEW max, NEW whole,
         Typed(o, q, s, S, n, max, whole), InStep(o, q, s, S, n, max, whole),
         o.call = "recv", o.tag = -1, Len(o.have) = 8
  PROVE  /\ n < Len(S)
         /\ GetU32(o.have) = TagOf(S[n + 1])
         /\ GetU32(SubSeq(o.have, 5, 8)) = Len(Payload(S[n + 1]))
<1>0. /\ o \in Ops /\ Fit(S) /\ n \in Nat /\ Len(S) \in Nat /\ ~InPayload(o)
      /\ Have(o) = o.have /\ o.have \in Seq(Nat)
  <2>1. o \in Ops /\ Fit(S) /\ n \in Nat /\ Len(S) \in Nat
    BY DEF Typed, Fit
  <2> QED BY <2>1, OpForms DEF InPayload, Have
<1>1. n < Len(S)
  <2>1. Len(Have(o)) = 8
    BY <1>0, Zenon
  <2>2. Len(Have(o)) > 0
    BY <2>1
  <2> QED BY <2>2, FrameIsThere
<1>2. n + 1 \in 1 .. Len(S)
  BY <1>0, <1>1
<1> DEFINE m == S[n + 1]
<1>3. /\ m \in Messages /\ Len(Payload(m)) \in Nat /\ Len(Payload(m)) < Word
      /\ Len(Frame(m)) = 8 + Len(Payload(m))
  BY <1>0, <1>2, FrameLen
<1>4. \A i \in 1 .. Len(o.have) : 0 + i <= Len(Frame(m)) => o.have[i] = Frame(m)[0 + i]
  <2>1. 0 = IF InPayload(o) THEN 8 ELSE 0
    BY <1>0
  <2> QED BY <1>1, <2>1, FrameAtHand
<1> HIDE DEF m
<1>5. \A i \in 1 .. 8 : o.have[i] = Frame(m)[i]
  <2> TAKE i \in 1 .. 8
  <2>1. i \in 1 .. Len(o.have) /\ 0 + i = i /\ 0 + i <= Len(Frame(m))
    BY <1>3
  <2> QED BY <1>4, <2>1
<1>6. GetU32(o.have) = TagOf(m) /\ GetU32(SubSeq(o.have, 5, 8)) = Len(Payload(m))
  BY <1>0, <1>3, <1>5, HeaderRead
<1> QED BY <1>1, <1>6 DEF m

(* What the receiver has is used: the rest is laid out from the d-th on.   *)
UsedFrom(o, o2, q, s, S, n, d, whole) ==
    \E at, x : /\ Layout(Unread(o, q, s), at, n + 1, S, whole)
               /\ at[n + 1] = IF InPayload(o) THEN -8 ELSE 0
               /\ Layout(Unread(o2, q, s), x, d, S, whole)
               /\ x[d] = at[d] - Len(o.have)
LEMMA LayoutUsed ==
  ASSUME NEW o, NEW q, NEW s, NEW S, NEW n, NEW max, NEW whole,
         Typed(o, q, s, S, n, max, whole), InStep(o, q, s, S, n, max, whole),
         o.call = "recv", NEW d \in n + 1 .. Len(S) + 1,
         NEW o2, Have(o2) = <<>>
  PROVE  UsedFrom(o, o2, q, s, S, n, d, whole)
<1> DEFINE u == Unread(o, q, s)  h == o.have
<1>0. /\ o \in Ops /\ q \in Seq(Nat) /\ s \in Ops /\ Fit(S)
      /\ Len(S) \in Nat /\ n \in Nat /\ Have(o) = h /\ h \in Seq(Nat) /\ Left(s) \in Seq(Nat)
  <2>1. o \in Ops /\ q \in Seq(Nat) /\ s \in Ops /\ Fit(S) /\ n \in Nat /\ Len(S) \in Nat
    BY DEF Typed, Fit
  <2>2. Have(o) = o.have /\ o.have \in Seq(Nat) /\ Left(s) \in Seq(Nat)
    BY <2>1, OpForms DEF Have
  <2> QED BY <2>1, <2>2
<1>1. PICK at : /\ Layout(u, at, n + 1, S, whole)
                /\ at[n + 1] = IF InPayload(o) THEN -8 ELSE 0
  BY DEF InStep
<1>2. /\ u \in Seq(Nat) /\ Len(h) \in 0 .. Len(u)
  <2>1. u \in Seq(Nat) /\ Len(u) = Len(h) + Len(q) + Len(Left(s))
    <3>1. u \in Seq(Nat) /\ Len(u) = Len(Have(o)) + Len(q) + Len(Left(s))
      BY <1>0, UnreadFacts
    <3>2. Len(Have(o)) = Len(h)
      BY <1>0, Zenon
    <3> QED BY <3>1, <3>2, Zenon
  <2>2. Len(h) \in Nat /\ Len(q) \in Nat /\ Len(Left(s)) \in Nat
    <3> HIDE DEF h
    <3> QED BY <1>0
  <2> HIDE DEF u, h
  <2> QED BY <2>1, <2>2
<1>3. SubSeq(u, Len(h) + 1, Len(u)) = Unread(o2, q, s)
  <2>1. u = (h \o q) \o Left(s) /\ Unread(o2, q, s) = (<<>> \o q) \o Left(s)
    BY <1>0 DEF Unread
  <2>2. SubSeq((h \o q) \o Left(s), Len(h) + 1, Len((h \o q) \o Left(s))) = (<<>> \o q) \o Left(s)
    <3> DEFINE l == Left(s)
    <3>1. l \in Seq(Nat) /\ h \in Seq(Nat) /\ q \in Seq(Nat)
      BY <1>0
    <3> HIDE DEF l, h
    <3>2. Drops(h, q, l)
      BY <3>1, Used
    <3> QED BY <3>2, Zenon DEF Drops, l
  <2> HIDE DEF u, h
  <2> QED BY <2>1, <2>2, Zenon
<1> DEFINE x == [i \in d .. Len(S) + 1 |-> at[i] - Len(h)]
<1>4. Layout(SubSeq(u, Len(h) + 1, Len(u)), x, d, S, whole)
  <2>1. n + 1 \in Nat \ {0}
    BY <1>0
  <2>2. Len(h) \in 0 .. Len(u)
    BY <1>2
  <2> HIDE DEF u, h
  <2> QED BY <1>0, <1>1, <1>2, <2>1, <2>2, LayoutRest
<1>5. x[d] = at[d] - Len(h)
  <2>1. d \in d .. Len(S) + 1
    BY <1>0
  <2> QED BY <2>1
<1> HIDE DEF x
<1>6. Layout(Unread(o2, q, s), x, d, S, whole)
  BY <1>3, <1>4
<1> QED BY <1>1, <1>5, <1>6 DEF UsedFrom

(* The header of a frame that is not too long is used; its payload is next.*)
LEMMA HeaderUsed ==
  ASSUME NEW o, NEW q, NEW s, NEW S, NEW n, NEW max, NEW whole,
         Typed(o, q, s, S, n, max, whole), InStep(o, q, s, S, n, max, whole),
         o.call = "recv", o.tag = -1, Len(o.have) = 8,
         NEW kind \in Kinds, Len(Payload(S[n + 1])) <= max,
         NEW o2, o2 = Receiving(kind, TagOf(S[n + 1]), Len(Payload(S[n + 1])), <<>>)
  PROVE  InStep(o2, q, s, S, n, max, whole) /\ Typed(o2, q, s, S, n, max, whole)
<1> DEFINE m == S[n + 1]
<1>0. /\ Fit(S) /\ n \in Nat /\ Len(S) \in Nat /\ ~InPayload(o) /\ n < Len(S)
  <2>1. Fit(S) /\ n \in Nat /\ Len(S) \in Nat
    BY DEF Typed, Fit
  <2> QED BY <2>1, HeaderHere DEF InPayload
<1>1. n + 1 \in 1 .. Len(S) /\ n + 1 \in n + 1 .. Len(S) + 1
  BY <1>0
<1>2. m \in Messages /\ Len(Payload(m)) \in Nat /\ Len(Payload(m)) < Word
  BY <1>0, <1>1, FrameLen
<1>3. TagOf(m) \in Int /\ TagOf(m) # -1
  <2>1. TagOf(m) \in 0 .. Word - 1
    BY <1>2, FrameShape
  <2>2. Word \in Nat
    BY Constants
  <2> QED BY <2>1, <2>2
<1> HIDE DEF m
<1>4. /\ o2 \in Ops /\ o2.tag = TagOf(m) /\ o2.need = Len(Payload(m)) /\ Have(o2) = <<>>
      /\ InPayload(o2)
  <2>1. o2 = Receiving(kind, TagOf(m), Len(Payload(m)), <<>>) /\ <<>> \in Seq(Nat)
    BY DEF m
  <2> QED BY <1>2, <1>3, <2>1 DEF Ops, Receiving, Have, Left, InPayload
<1>u. UsedFrom(o, o2, q, s, S, n, n + 1, whole)
  BY <1>1, <1>4, LayoutUsed
<1>5. PICK at, x : /\ at[n + 1] = IF InPayload(o) THEN -8 ELSE 0
                   /\ Layout(Unread(o2, q, s), x, n + 1, S, whole)
                   /\ x[n + 1] = at[n + 1] - Len(o.have)
  BY <1>u DEF UsedFrom
<1>6. x[n + 1] = -8
  BY <1>0, <1>5
<1>7. \E y : /\ Layout(Unread(o2, q, s), y, n + 1, S, whole)
             /\ y[n + 1] = IF InPayload(o2) THEN -8 ELSE 0
  BY <1>4, <1>5, <1>6
<1>8. /\ n <= Len(S)
      /\ \A j \in 1 .. n : Len(Payload(S[j])) <= max
      /\ InPayload(o2) => /\ n < Len(S) /\ o2.tag = TagOf(S[n + 1])
                          /\ o2.need = Len(Payload(S[n + 1])) /\ o2.need <= max
  BY <1>0, <1>4 DEF InStep, m
<1>9. Typed(o2, q, s, S, n, max, whole)
  BY <1>4 DEF Typed
<1> QED BY <1>7, <1>8, <1>9 DEF InStep

(* A whole payload is here: it is the frame's, and the next frame follows. *)
LEMMA PayloadHere ==
  ASSUME NEW o, NEW q, NEW s, NEW S, NEW n, NEW max, NEW whole,
         Typed(o, q, s, S, n, max, whole), InStep(o, q, s, S, n, max, whole),
         InPayload(o), Len(o.have) = o.need
  PROVE  /\ n < Len(S) /\ o.tag = TagOf(S[n + 1]) /\ o.have = Payload(S[n + 1])
         /\ Len(Payload(S[n + 1])) <= max
         /\ InStep(Idle, q, s, S, n + 1, max, whole)
<1> DEFINE m == S[n + 1]
<1>0. /\ o \in Ops /\ Fit(S) /\ n \in Nat /\ Len(S) \in Nat /\ o.call = "recv"
      /\ o.have \in Seq(Nat)
  <2>1. o \in Ops /\ Fit(S) /\ n \in Nat /\ Len(S) \in Nat /\ o.call = "recv"
    BY DEF Typed, Fit, InPayload
  <2> QED BY <2>1, OpForms
<1>1. /\ n < Len(S) /\ o.tag = TagOf(m)
      /\ o.need = Len(Payload(m)) /\ o.need <= max
  BY DEF InStep
<1>2. n + 1 \in 1 .. Len(S) /\ n + 1 \in n + 1 .. Len(S) /\ n + 2 \in n + 1 .. Len(S) + 1
  BY <1>0, <1>1
<1>3. /\ m \in Messages /\ Payload(m) \in Seq(Nat) /\ Len(Payload(m)) \in Nat
      /\ Len(Payload(m)) < Word /\ Len(Frame(m)) = 8 + Len(Payload(m))
  BY <1>0, <1>2, FrameLen
<1>4. \A i \in 1 .. Len(o.have) : 8 + i <= Len(Frame(m)) => o.have[i] = Frame(m)[8 + i]
  <2>1. 8 = IF InPayload(o) THEN 8 ELSE 0
    OBVIOUS
  <2> QED BY <1>0, <1>1, <2>1, FrameAtHand
<1> HIDE DEF m
<1>5. o.have = Payload(m)
  <2>1. Len(o.have) = Len(Payload(m))
    BY <1>1
  <2>2. ASSUME NEW i \in 1 .. Len(o.have) PROVE o.have[i] = Payload(m)[i]
    <3>1. i \in 1 .. Len(Payload(m)) /\ 8 + i <= Len(Frame(m))
      BY <1>3, <2>1
    <3>2. Frame(m)[8 + i] = Payload(m)[i]
      BY <1>3, <3>1, FrameShape
    <3> QED BY <1>4, <3>1, <3>2
  <2> QED BY <1>0, <1>3, <2>1, <2>2, SeqEqual
<1>u. UsedFrom(o, Idle, q, s, S, n, n + 2, whole)
  <2>1. Have(Idle) = <<>>
    BY OpForms
  <2> QED BY <1>0, <1>2, <2>1, LayoutUsed
<1>6. PICK at, x : /\ Layout(Unread(o, q, s), at, n + 1, S, whole)
                   /\ at[n + 1] = IF InPayload(o) THEN -8 ELSE 0
                   /\ Layout(Unread(Idle, q, s), x, n + 2, S, whole)
                   /\ x[n + 2] = at[n + 2] - Len(o.have)
  BY <1>u DEF UsedFrom
<1>7. x[n + 2] = 0
  <2>1. at[n + 1 + 1] = at[n + 1] + Len(Frame(m))
    BY <1>2, <1>6 DEF Layout, m
  <2>2. n + 1 + 1 = n + 2
    BY <1>0
  <2>3. at[n + 2] = at[n + 1] + Len(Frame(m))
    BY <2>1, <2>2
  <2>4. Len(o.have) = Len(Payload(m)) /\ at[n + 1] = -8
    BY <1>1, <1>6
  <2> QED BY <1>3, <1>6, <2>3, <2>4
<1>8. n + 1 + 1 = n + 2 /\ n + 1 <= Len(S)
  BY <1>0, <1>1
<1>9. \E y : /\ Layout(Unread(Idle, q, s), y, n + 1 + 1, S, whole)
             /\ y[n + 1 + 1] = IF InPayload(Idle) THEN -8 ELSE 0
  BY <1>6, <1>7, <1>8, OpForms
<1>10. \A j \in 1 .. n + 1 : Len(Payload(S[j])) <= max
  <2> TAKE j \in 1 .. n + 1
  <2>1. CASE j = n + 1
    BY <1>1, <2>1 DEF m
  <2>2. CASE j # n + 1
    <3>1. j \in 1 .. n
      BY <1>0, <2>2
    <3> QED BY <3>1 DEF InStep
  <2> QED BY <2>1, <2>2
<1>11. InStep(Idle, q, s, S, n + 1, max, whole)
  BY <1>8, <1>9, <1>10, OpForms DEF InStep
<1> QED BY <1>1, <1>5, <1>11 DEF m

(* The sender is gone in the middle of a frame.                            *)
LEMMA BrokenOff ==
  ASSUME NEW o, NEW q, NEW s, NEW S, NEW n, NEW max, NEW whole,
         Typed(o, q, s, S, n, max, whole), InStep(o, q, s, S, n, max, whole)
  PROVE  InStep(o, q, Idle, S, n, max, FALSE)
<1> DEFINE u == Have(o) \o q  v == Unread(o, q, s)
<1>0. /\ o \in Ops /\ q \in Seq(Nat) /\ s \in Ops /\ Fit(S)
      /\ Have(o) \in Seq(Nat) /\ Left(s) \in Seq(Nat) /\ n \in Nat /\ Len(S) \in Nat
  <2>1. o \in Ops /\ q \in Seq(Nat) /\ s \in Ops /\ Fit(S) /\ n \in Nat /\ Len(S) \in Nat
    BY DEF Typed, Fit
  <2> QED BY <2>1, OpForms
<1>1. PICK at : /\ Layout(v, at, n + 1, S, whole)
                /\ at[n + 1] = IF InPayload(o) THEN -8 ELSE 0
  BY DEF InStep
<1>2. u \in Seq(Nat)
  BY <1>0, ConcatProperties
<1>3. Unread(o, q, Idle) = u
  <2>1. Unread(o, q, Idle) = u \o <<>>
    BY OpForms DEF Unread
  <2>2. u \o <<>> = u
    <3> HIDE DEF u
    <3> QED BY <1>2, ConcatEmptySeq
  <2> QED BY <2>1, <2>2
<1>4. /\ Len(v) = Len(u) + Len(Left(s)) /\ Len(u) \in Nat /\ Len(Left(s)) \in Nat
      /\ \A i \in 1 .. Len(u) : v[i] = u[i]
  <2>1. v = u \o Left(s)
    BY DEF Unread
  <2> HIDE DEF u, v
  <2>2. /\ Len(u \o Left(s)) = Len(u) + Len(Left(s))
        /\ \A i \in 1 .. Len(u) : (u \o Left(s))[i] = u[i]
    BY <1>0, <1>2, Halves
  <2>3. Len(u) \in Nat /\ Len(Left(s)) \in Nat
    BY <1>0, <1>2
  <2> QED BY <2>1, <2>2, <2>3, Zenon
<1> HIDE DEF u, v
<1>5. Layout(u, at, n + 1, S, FALSE)
  <2>1. /\ at \in [n + 1 .. Len(S) + 1 -> Int]
        /\ \A i \in n + 1 .. Len(S) : at[i + 1] = at[i] + Len(Frame(S[i]))
        /\ \A i \in n + 1 .. Len(S) + 1 : at[i] <= at[Len(S) + 1]
        /\ \A i \in n + 1 .. Len(S) : \A j \in 1 .. Len(Frame(S[i])) :
              at[i] + j \in 1 .. Len(v) => v[at[i] + j] = Frame(S[i])[j]
        /\ Len(v) <= at[Len(S) + 1]
    BY <1>1 DEF Layout
  <2>2. \A k \in 1 .. Len(u) : k \in 1 .. Len(v)
    BY <1>4
  <2>3. \A i \in n + 1 .. Len(S) : \A j \in 1 .. Len(Frame(S[i])) :
              at[i] + j \in 1 .. Len(u) => u[at[i] + j] = Frame(S[i])[j]
    BY <1>4, <2>1, <2>2
  <2>4. Len(u) <= at[Len(S) + 1]
    <3>1. at[Len(S) + 1] \in Int
      <4>1. n <= Len(S)
        BY DEF InStep
      <4>2. Len(S) + 1 \in n + 1 .. Len(S) + 1
        BY <1>0, <4>1
      <4> QED BY <2>1, <4>2
    <3> QED BY <1>4, <2>1, <3>1
  <2> QED BY <2>1, <2>3, <2>4 DEF Layout
<1>6. \E x : /\ Layout(Unread(o, q, Idle), x, n + 1, S, FALSE)
             /\ x[n + 1] = IF InPayload(o) THEN -8 ELSE 0
  BY <1>1, <1>3, <1>5
<1> QED BY <1>6 DEF InStep

(* Before anything is sent.                                                *)
LEMMA Fresh ==
  ASSUME NEW max, NEW whole
  PROVE  InStep(Idle, <<>>, Idle, <<>>, 0, max, whole)
<1> DEFINE at == [i \in 1 .. 1 |-> 0]
<1>1. Unread(Idle, <<>>, Idle) = <<>>
  <2>1. Unread(Idle, <<>>, Idle) = (<<>> \o <<>>) \o <<>>
    BY OpForms DEF Unread
  <2> QED BY <2>1
<1>2. Len(<<>>) = 0
  OBVIOUS
<1>3. Layout(<<>>, at, 0 + 1, <<>>, whole)
  BY <1>2 DEF Layout
<1>4. at[0 + 1] = 0
  OBVIOUS
<1> HIDE DEF at
<1>5. \E x : /\ Layout(Unread(Idle, <<>>, Idle), x, 0 + 1, <<>>, whole)
             /\ x[0 + 1] = IF InPayload(Idle) THEN -8 ELSE 0
  BY <1>1, <1>3, <1>4, OpForms
<1> QED BY <1>2, <1>5, OpForms DEF InStep

-----------------------------------------------------------------------------
(* The two ends.                                                           *)

LEMMA Pair ==
    \A e \in Ends : /\ Other(e) \in Ends /\ Other(e) # e /\ Other(Other(e)) = e
                    /\ \A x \in Ends : x = e \/ x = Other(e)
BY DEF Ends, Other

LEMMA TypedHere ==
  ASSUME TypeOK, Protocol, NEW e \in Ends
  PROVE  Typed(op[e], pipe[Other(e)], op[Other(e)], sent[Other(e)], Len(got[e]), MaxMsg[e],
               w_[Other(e)])
<1>1. Other(e) \in Ends
  BY Pair
<1>2. MaxMsg[e] \in Nat
  <2>1. Word \in Nat
    BY Constants
  <2> QED BY <2>1, BoundsAssumption
<1>3. Fit(sent[Other(e)])
  BY <1>1 DEF Fit, TypeOK, Protocol
<1> QED BY <1>1, <1>2, <1>3 DEF Typed, TypeOK

(* A call is made and a transfer goes on only once the sandboxee is there. *)
LEMMA Started ==
  ASSUME TypeOK, Protocol, NEW e \in Ends, Ready(e) \/ op[e].call \in {"send", "recv"}
  PROVE  run # "before"
<1> SUFFICES ASSUME run = "before" PROVE FALSE
  OBVIOUS
<1>1. op[e].call = "none" /\ child = "none"
  BY OpForms DEF Protocol
<1> QED BY <1>1 DEF Ready

(* In no call.                                                             *)
LEMMA AtRest ==
  ASSUME NEW o, o.call = "none"
  PROVE  Have(o) = <<>> /\ Left(o) = <<>> /\ ~InPayload(o)
BY DEF Have, Left, InPayload

(* An answer stands when more is sent and when the channel is shut.        *)
LEMMA AnswerStays ==
  ASSUME NEW g, NEW i \in Nat \ {0}, NEW S \in Seq(Messages), NEW max, NEW cut, NEW cut2, NEW S2,
         Answer(g, i, S, max, cut), cut => cut2,
         S2 = S \/ (\E m \in Messages : S2 = Append(S, m))
  PROVE  Answer(g, i, S2, max, cut2)
<1>1. /\ Len(S) \in Nat /\ Len(S) <= Len(S2) /\ Len(S2) \in Nat
      /\ \A j \in 1 .. Len(S) : S2[j] = S[j]
  OBVIOUS
<1>2. i <= Len(S) => i <= Len(S2) /\ S2[i] = S[i] /\ \A j \in 1 .. i : S2[j] = S[j]
  BY <1>1
<1> QED BY <1>2 DEF Answer

LEMMA ResultsStay ==
  ASSUME TypeOK, NEW e \in Ends, Results(e), got'[e] = got[e],
         sent'[Other(e)] = sent[Other(e)]
            \/ (\E m \in Messages : sent'[Other(e)] = Append(sent[Other(e)], m)),
         Shut(e) => Shut(e)'
  PROVE  Results(e)'
<1> SUFFICES ASSUME NEW i \in 1 .. Len(got'[e])
             PROVE  Answer(got'[e][i], i, sent'[Other(e)], MaxMsg[e], Shut(e)')
  BY DEF Results
<1>1. Answer(got[e][i], i, sent[Other(e)], MaxMsg[e], Shut(e))
  BY DEF Results
<1>2. sent[Other(e)] \in Seq(Messages) /\ i \in Nat \ {0}
  BY Pair DEF TypeOK
<1> QED BY <1>1, <1>2, AnswerStays

LEMMA ResultsMore ==
  ASSUME TypeOK, NEW e \in Ends, Results(e), NEW g, got'[e] = Append(got[e], g),
         sent' = sent, Shut(e) => Shut(e)',
         Answer(g, Len(got[e]) + 1, sent[Other(e)], MaxMsg[e], Shut(e)')
  PROVE  Results(e)'
<1> SUFFICES ASSUME NEW i \in 1 .. Len(got'[e])
             PROVE  Answer(got'[e][i], i, sent[Other(e)], MaxMsg[e], Shut(e)')
  BY DEF Results
<1>0. got[e] \in Seq(Outcomes) /\ sent[Other(e)] \in Seq(Messages) /\ i \in Nat \ {0}
  BY Pair DEF TypeOK
<1>1. CASE i = Len(got[e]) + 1
  BY <1>0, <1>1
<1>2. CASE i # Len(got[e]) + 1
  <2>1. i \in 1 .. Len(got[e]) /\ got'[e][i] = got[e][i]
    BY <1>0, <1>2
  <2>2. Answer(got[e][i], i, sent[Other(e)], MaxMsg[e], Shut(e))
    BY <2>1 DEF Results
  <2> QED BY <1>0, <2>1, <2>2, AnswerStays
<1> QED BY <1>1, <1>2

(* Shut stays shut, except that Spawn gives the sandboxee its ends.        *)
LEMMA StaysShut ==
  ASSUME NEW e \in Ends, r_'[e] => r_[e], w_'[Other(e)] => w_[Other(e)], copies' \subseteq copies
  PROVE  (Shut(e) => Shut(e)') /\ (~Writable(e) => ~Writable(e)')
BY DEF Shut, Writable

(* A direction whose bytes do not move.                                    *)
LEMMA FlowStays ==
  ASSUME NEW e \in Ends, Flow(e),
         r_'[e] => r_[e], w_'[Other(e)] => w_[Other(e)], copies' \subseteq copies,
         pipe'[Other(e)] = pipe[Other(e)], sent'[Other(e)] = sent[Other(e)], got'[e] = got[e],
         Have(op[e])' = Have(op[e]), Left(op[Other(e)])' = Left(op[Other(e)]),
         op'[e] = op[e] \/ (~InPayload(op[e])' /\ ~InPayload(op[e]))
  PROVE  Flow(e)'
<1>1. CASE ~r_[e]
  BY <1>1 DEF Flow
<1>2. CASE ~Writable(e) /\ pipe[Other(e)] = <<>>
  BY <1>2, StaysShut DEF Flow
<1>3. CASE InStep(op[e], pipe[Other(e)], op[Other(e)], sent[Other(e)], Len(got[e]), MaxMsg[e],
                  w_[Other(e)])
  <2>1. InStep(op'[e], pipe[Other(e)], op'[Other(e)], sent[Other(e)], Len(got[e]), MaxMsg[e],
               w_'[Other(e)])
    BY <1>3, OtherCall
  <2> QED BY <2>1 DEF Flow
<1> QED BY <1>1, <1>2, <1>3 DEF Flow

(* What a Recv that took a whole frame answers.                            *)
LEMMA NewAnswer ==
  ASSUME NEW S, Fit(S), NEW i \in 1 .. Len(S), NEW kind \in Kinds, NEW max, NEW cut,
         \A j \in 1 .. i : Len(Payload(S[j])) <= max
  PROVE  Answer(Outcome(kind, TagOf(S[i]), Payload(S[i])), i, S, max, cut)
<1> DEFINE m == S[i]  b == Payload(m)
<1>0. m \in Messages /\ i <= Len(S)
  BY DEF Fit
<1>1. m.kind \in Kinds => Value(m.kind, b) = m.value
  BY <1>0, PayloadValue
<1> HIDE DEF b
<1>2. CASE Accepts(kind, TagOf(m), b)
  <2>1. Outcome(kind, TagOf(m), b) = [ok |-> TRUE, kind |-> kind, value |-> Value(kind, b)]
    BY <1>2 DEF Outcome
  <2>2. TagOf(m) = Tag(kind)
    BY <1>2 DEF Accepts
  <2> QED BY <1>0, <1>1, <2>1, <2>2 DEF Answer, b
<1>3. CASE ~Accepts(kind, TagOf(m), b)
  <2>1. Outcome(kind, TagOf(m), b) = [ok |-> FALSE, kind |-> kind]
    BY <1>3 DEF Outcome, Failed
  <2> QED BY <1>0, <1>3, <2>1 DEF Answer, b
<1> QED BY <1>2, <1>3 DEF b

LEMMA FailedAnswer ==
  ASSUME NEW kind, NEW i, NEW S, NEW max, NEW cut, cut
  PROVE  Answer(Failed(kind), i, S, max, cut)
BY DEF Answer, Failed

-----------------------------------------------------------------------------
(* The invariant holds at first, and every step keeps it.                  *)

LEMMA InitInv == Init => CommsInv
<1> SUFFICES ASSUME Init PROVE CommsInv
  OBVIOUS
<1>1. TypeOK
  <2>1. /\ pipe \in [Ends -> Seq(Nat)] /\ op \in [Ends -> Ops]
        /\ sent \in [Ends -> Seq(Messages)] /\ got \in [Ends -> Seq(Outcomes)]
    BY OpForms DEF Init
  <2>2. r_ \in [Ends -> BOOLEAN] /\ w_ \in [Ends -> BOOLEAN]
    BY Zenon DEF Init
  <2>3. /\ copies \subseteq {"r", "w"}
        /\ child \in {"none", "up", "gone"} /\ run \in {"before", "spawned", "returned"}
    BY DEF Init, MakeDuplex
  <2> QED BY <2>1, <2>2, <2>3 DEF TypeOK
<1>2. Protocol
  <2>1. \A e \in Ends : pipe[e] = <<>> /\ op[e] = Idle /\ sent[e] = <<>> /\ got[e] = <<>>
    BY DEF Init
  <2>2. child = "none" /\ ~r_["child"] /\ ~w_["child"]
    BY DEF Init, Ends
  <2>3. Len(<<>>) = 0 /\ Idle.call = "none"
    BY OpForms
  <2> QED BY <2>1, <2>2, <2>3 DEF Protocol
<1>3. ASSUME NEW e \in Ends PROVE Flow(e) /\ Results(e)
  <2>1. /\ op[e] = Idle /\ op[Other(e)] = Idle /\ pipe[Other(e)] = <<>>
        /\ sent[Other(e)] = <<>> /\ got[e] = <<>>
    BY Pair DEF Init
  <2>2. Len(<<>>) = 0
    OBVIOUS
  <2>3. InStep(Idle, <<>>, Idle, <<>>, 0, MaxMsg[e], w_[Other(e)])
    BY Fresh
  <2>4. Flow(e)
    BY <2>1, <2>2, <2>3 DEF Flow
  <2> QED BY <2>1, <2>2, <2>4 DEF Results
<1> QED BY <1>1, <1>2, <1>3 DEF CommsInv

LEMMA SpawnStep == CommsInv /\ Spawn => CommsInv'
<1> SUFFICES ASSUME CommsInv, Spawn PROVE CommsInv'
  OBVIOUS
<1> USE DEF CommsInv
<1>1. TypeOK'
  <2>1. r_' \in [Ends -> BOOLEAN] /\ w_' \in [Ends -> BOOLEAN]
    <3>1. ("r" \in copies) \in BOOLEAN /\ ("w" \in copies) \in BOOLEAN
      OBVIOUS
    <3>2. r_ \in [Ends -> BOOLEAN] /\ w_ \in [Ends -> BOOLEAN]
      BY DEF TypeOK
    <3>3. \A f \in [Ends -> BOOLEAN] : \A b \in BOOLEAN :
             [f EXCEPT !["child"] = b] \in [Ends -> BOOLEAN]
      OBVIOUS
    <3> DEFINE br == "r" \in copies  bw == "w" \in copies
    <3>4. r_' = [r_ EXCEPT !["child"] = br] /\ w_' = [w_ EXCEPT !["child"] = bw]
      BY DEF Spawn
    <3> HIDE DEF br, bw
    <3>5. br \in BOOLEAN /\ bw \in BOOLEAN
      BY <3>1 DEF br, bw
    <3> QED BY <3>2, <3>3, <3>4, <3>5
  <2> QED BY <2>1 DEF Spawn, TypeOK
<1>2. Protocol'
  BY OpForms DEF Spawn, Protocol, TypeOK, Ends
<1>3. ASSUME NEW e \in Ends PROVE Flow(e)' /\ Results(e)'
  <2>1. /\ op'[e] = Idle /\ op'[Other(e)] = Idle /\ pipe'[Other(e)] = <<>>
        /\ sent'[Other(e)] = <<>> /\ got'[e] = <<>>
    BY Pair DEF Spawn, Protocol
  <2>2. Len(<<>>) = 0
    OBVIOUS
  <2>3. InStep(Idle, <<>>, Idle, <<>>, 0, MaxMsg[e], w_'[Other(e)])
    BY Fresh
  <2>4. Flow(e)'
    BY <2>1, <2>2, <2>3 DEF Flow
  <2> QED BY <2>1, <2>2, <2>4 DEF Results
<1> QED BY <1>1, <1>2, <1>3

LEMMA RunAsyncReturnsStep == CommsInv /\ RunAsyncReturns => CommsInv'
<1> SUFFICES ASSUME CommsInv, RunAsyncReturns PROVE CommsInv'
  OBVIOUS
<1> USE DEF CommsInv
<1>1. TypeOK'
  BY DEF RunAsyncReturns, TypeOK, Drop
<1>2. Protocol'
  BY DEF RunAsyncReturns, Protocol
<1>3. ASSUME NEW e \in Ends PROVE Flow(e)' /\ Results(e)'
  <2>1. r_' = r_ /\ w_' = w_ /\ copies' \subseteq copies /\ pipe' = pipe /\ op' = op
        /\ sent' = sent /\ got' = got
    BY DEF RunAsyncReturns, Drop
  <2>2. Flow(e)'
    BY <2>1, FlowStays
  <2>3. Shut(e) => Shut(e)'
    BY <2>1, StaysShut
  <2> QED BY <2>1, <2>2, <2>3, ResultsStay
<1> QED BY <1>1, <1>2, <1>3

LEMMA TerminateStep == CommsInv /\ (\E e \in Ends : Terminate(e)) => CommsInv'
<1> SUFFICES ASSUME CommsInv, NEW e \in Ends, Terminate(e) PROVE CommsInv'
  OBVIOUS
<1> USE DEF CommsInv
<1>0. /\ copies' = copies /\ pipe' = pipe /\ op' = op /\ sent' = sent /\ got' = got
      /\ run' = run /\ child' = child /\ op[e].call = "none"
      /\ r_' = [r_ EXCEPT ![e] = FALSE] /\ w_' = [w_ EXCEPT ![e] = FALSE]
  BY DEF Terminate, Close, Ready
<1>1. TypeOK'
  BY <1>0 DEF TypeOK
<1>2. Protocol'
  <2>1. run # "before"
    BY Started DEF Terminate
  <2> QED BY <1>0, <2>1 DEF Protocol, TypeOK
<1>3. ASSUME NEW x \in Ends PROVE Flow(x)' /\ Results(x)'
  <2>1. /\ r_'[x] => r_[x]
        /\ w_'[Other(x)] => w_[Other(x)]
    BY <1>0, Pair DEF TypeOK
  <2>2. Flow(x)'
    BY <1>0, <2>1, FlowStays
  <2>3. Shut(x) => Shut(x)'
    BY <1>0, <2>1, StaysShut
  <2> QED BY <1>0, <2>2, <2>3, ResultsStay
<1> QED BY <1>1, <1>2, <1>3

LEMMA ChildEndsStep == CommsInv /\ ChildEnds => CommsInv'
<1> SUFFICES ASSUME CommsInv, ChildEnds PROVE CommsInv'
  OBVIOUS
<1> USE DEF CommsInv
<1>0. /\ copies' = copies /\ pipe' = pipe /\ sent' = sent /\ got' = got
      /\ run' = run /\ child' = "gone" /\ run # "before"
      /\ op' = [op EXCEPT !["child"] = Idle]
      /\ r_' = [r_ EXCEPT !["child"] = FALSE] /\ w_' = [w_ EXCEPT !["child"] = FALSE]
  BY DEF ChildEnds, Protocol
<1>1. TypeOK'
  BY <1>0, OpForms DEF TypeOK, Ends
<1>2. Protocol'
  BY <1>0, OpForms DEF Protocol, TypeOK
<1>3. ASSUME NEW x \in Ends PROVE Flow(x)' /\ Results(x)'
  <2>1. /\ r_'[x] => r_[x]
        /\ w_'[Other(x)] => w_[Other(x)]
    BY <1>0, Pair DEF TypeOK
  <2>2. Flow(x)'
    <3>1. CASE x = "child"
      BY <1>0, <3>1 DEF Flow, TypeOK
    <3>2. CASE x = "host"
      <4>0. Other(x) = "child" /\ op'[x] = op[x] /\ op'["child"] = Idle /\ w_'["child"] = FALSE
        BY <1>0, <3>2 DEF TypeOK, Other, Ends
      <4>1. CASE ~r_[x]
        BY <2>1, <4>1 DEF Flow
      <4>2. CASE ~Writable(x) /\ pipe[Other(x)] = <<>>
        BY <1>0, <2>1, <4>2, StaysShut DEF Flow
      <4>3. CASE InStep(op[x], pipe[Other(x)], op[Other(x)], sent[Other(x)], Len(got[x]),
                        MaxMsg[x], w_[Other(x)])
        <5>1. InStep(op[x], pipe[Other(x)], Idle, sent[Other(x)], Len(got[x]), MaxMsg[x], FALSE)
          BY <4>3, TypedHere, BrokenOff
        <5> QED BY <1>0, <4>0, <5>1 DEF Flow
      <4> QED BY <4>1, <4>2, <4>3 DEF Flow
    <3> QED BY <3>1, <3>2 DEF Ends
  <2>3. Shut(x) => Shut(x)'
    BY <1>0, <2>1, StaysShut
  <2> QED BY <1>0, <2>2, <2>3, ResultsStay
<1> QED BY <1>1, <1>2, <1>3

LEMMA SendTLVStep ==
  CommsInv /\ (\E e \in Ends : \E m \in Sendable[e] : SendTLV(e, m)) => CommsInv'
<1> SUFFICES ASSUME CommsInv, NEW e \in Ends, NEW m \in Sendable[e], SendTLV(e, m)
             PROVE  CommsInv'
  OBVIOUS
<1> USE DEF CommsInv
<1> DEFINE d == Other(e)
<1>0. /\ copies' = copies /\ pipe' = pipe /\ r_' = r_ /\ w_' = w_ /\ got' = got
      /\ run' = run /\ child' = child /\ op[e].call = "none" /\ w_[e]
      /\ op' = [op EXCEPT ![e] = Sending(Frame(m))]
      /\ sent' = [sent EXCEPT ![e] = Append(@, m)]
  BY DEF SendTLV, Ready
<1>p. d \in Ends /\ d # e /\ Other(d) = e /\ \A x \in Ends : x = e \/ x = d
  BY Pair
<1>m. m \in Messages /\ Len(Payload(m)) < Word
  <2>1. m \in Messages
    BY DEF Messages
  <2>2. Payload(m) \in Seq(Nat) /\ Len(Payload(m)) <= MaxMsg[e]
    BY <2>1, PayloadValue DEF SendTLV
  <2>3. Len(Payload(m)) \in Nat /\ MaxMsg[e] \in 0 .. Word - 1 /\ Word \in Nat
    BY <2>2, BoundsAssumption, Constants
  <2> QED BY <2>1, <2>2, <2>3
<1>f. Frame(m) \in Seq(Nat)
  BY <1>m, FrameShape
<1>s. /\ Sending(Frame(m)) \in Ops /\ Sending(Frame(m)).call = "send"
      /\ Have(Sending(Frame(m))) = <<>> /\ ~InPayload(Sending(Frame(m)))
  BY <1>f, OpForms
<1>o. op'[e] = Sending(Frame(m)) /\ op'[d] = op[d] /\ sent'[e] = Append(sent[e], m)
      /\ sent'[d] = sent[d]
  BY <1>0, <1>p DEF TypeOK
<1>1. TypeOK'
  <2>1. op' \in [Ends -> Ops] /\ sent' \in [Ends -> Seq(Messages)]
    BY <1>0, <1>m, <1>s DEF TypeOK
  <2> QED BY <1>0, <2>1 DEF TypeOK
<1>r. run # "before"
  BY Started DEF SendTLV
<1>2. Protocol'
  <2>1. \A i \in 1 .. Len(sent'[e]) : Len(Payload(sent'[e][i])) < Word
    BY <1>o, <1>m DEF Protocol, TypeOK
  <2> QED BY <1>0, <1>p, <1>o, <1>s, <1>r, <2>1 DEF Protocol
<1>3. Flow(e)' /\ Results(e)'
  <2>1. Have(op[e]) = <<>> /\ ~InPayload(op[e])
    BY <1>0, AtRest
  <2>2. Flow(e)'
    BY <1>0, <1>o, <1>s, <2>1, FlowStays
  <2>3. Shut(e) => Shut(e)'
    BY <1>0, StaysShut
  <2> QED BY <1>0, <1>o, <2>2, <2>3, ResultsStay
<1>4. Flow(d)'
  <2>1. CASE ~r_[d]
    BY <1>0, <2>1 DEF Flow
  <2>2. CASE ~Writable(d)
    BY <1>0, <1>p, <2>2 DEF Writable
  <2>3. CASE InStep(op[d], pipe[e], op[e], sent[e], Len(got[d]), MaxMsg[d], w_[e])
    <3>1. w_[e] = TRUE
      BY <1>0, <1>p DEF TypeOK
    <3>2. Typed(op[d], pipe[e], op[e], sent[e], Len(got[d]), MaxMsg[d], TRUE)
      BY <1>p, <3>1, TypedHere
    <3>3. InStep(op[d], pipe[e], op[e], sent[e], Len(got[d]), MaxMsg[d], TRUE)
      BY <2>3, <3>1
    <3>4. Left(op[e]) = <<>>
      BY <1>0, AtRest
    <3>5. InStep(op[d], pipe[e], Sending(Frame(m)), Append(sent[e], m), Len(got[d]), MaxMsg[d],
                 TRUE)
      BY <1>m, <3>2, <3>3, <3>4, SendMoves
    <3> QED BY <1>0, <1>p, <1>o, <3>1, <3>5 DEF Flow
  <2> QED BY <1>p, <2>1, <2>2, <2>3 DEF Flow
<1>5. Results(d)'
  <2>1. Shut(d) => Shut(d)'
    BY <1>0, <1>p, StaysShut
  <2> QED BY <1>0, <1>p, <1>o, <1>m, <2>1, ResultsStay
<1> QED BY <1>1, <1>2, <1>3, <1>4, <1>5, <1>p

(* The bytes WriteSome and ReadSome may move.                              *)
LEMMA MinOf ==
  ASSUME NEW a \in Int, NEW b \in Int, NEW k \in 1 .. Min({a, b})
  PROVE  k \in Nat \ {0} /\ k <= a /\ k <= b
<1>1. Min({a, b}) \in {a, b} /\ \A x \in {a, b} : Min({a, b}) <= x
  <2>1. \E x \in {a, b} : \A y \in {a, b} : x <= y
    OBVIOUS
  <2> QED BY <2>1 DEF Min
<1> QED BY <1>1

LEMMA WriteSomeStep == CommsInv /\ (\E e \in Ends : WriteSome(e)) => CommsInv'
<1> SUFFICES ASSUME CommsInv, NEW e \in Ends, WriteSome(e) PROVE CommsInv'
  OBVIOUS
<1> USE DEF CommsInv
<1> DEFINE d == Other(e)  left == op[e].left
<1>0. /\ copies' = copies /\ r_' = r_ /\ w_' = w_ /\ got' = got /\ sent' = sent
      /\ run' = run /\ child' = child /\ op[e].call = "send" /\ w_[e]
  BY DEF WriteSome, Protocol
<1>p. d \in Ends /\ d # e /\ Other(d) = e /\ \A x \in Ends : x = e \/ x = d
  BY Pair
<1>l. left \in Seq(Nat) /\ Len(left) \in Nat /\ op[e] = Sending(left)
  <2>1. op[e] \in Ops
    BY DEF TypeOK
  <2>2. left \in Seq(Nat)
    BY <1>0, <2>1, OpForms
  <2>3. op[e] = Sending(left)
    BY <1>0, <2>1 DEF Ops, Idle, Sending
  <2> QED BY <2>2, <2>3
<1>k. PICK k \in 1 .. Min({Len(left), Capacity - Len(pipe[e])}) :
        /\ pipe' = [pipe EXCEPT ![e] = @ \o SubSeq(left, 1, k)]
        /\ op' = [op EXCEPT ![e] = AfterWrite(left, k)]
  BY DEF WriteSome
<1>i. k \in 0 .. Len(left)
  <2>1. Len(left) \in Int /\ Capacity - Len(pipe[e]) \in Int
    BY <1>l, CapacityAssumption DEF TypeOK
  <2> HIDE DEF left
  <2>2. k \in Nat \ {0} /\ k <= Len(left)
    BY <2>1, MinOf
  <2> QED BY <1>l, <2>2
<1>o. /\ op'[e] = AfterWrite(left, k) /\ op'[d] = op[d]
      /\ pipe'[e] = pipe[e] \o SubSeq(left, 1, k) /\ pipe'[d] = pipe[d]
  BY <1>k, <1>p DEF TypeOK
<1>w. /\ AfterWrite(left, k) \in Ops /\ AfterWrite(left, k).call \in {"none", "send"}
      /\ Have(AfterWrite(left, k)) = <<>> /\ ~InPayload(AfterWrite(left, k))
      /\ pipe[e] \o SubSeq(left, 1, k) \in Seq(Nat)
  <2> HIDE DEF left
  <2>1. SubSeq(left, 1, k) \in Seq(Nat) /\ pipe[e] \in Seq(Nat)
    BY <1>l, <1>i, Cut DEF TypeOK
  <2>2. pipe[e] \o SubSeq(left, 1, k) \in Seq(Nat)
    BY <2>1, ConcatProperties
  <2> QED BY <1>l, <1>i, <2>2, AfterWriteForms
<1>1. TypeOK'
  <2> HIDE DEF left
  <2>1. op' \in [Ends -> Ops]
    BY <1>k, <1>w DEF TypeOK
  <2>2. pipe' \in [Ends -> Seq(Nat)]
    BY <1>k, <1>w DEF TypeOK
  <2> QED BY <1>0, <2>1, <2>2 DEF TypeOK
<1>r. run # "before"
  BY <1>0, Started
<1> HIDE DEF left
<1>2. Protocol'
  BY <1>0, <1>p, <1>o, <1>w, <1>r DEF Protocol
<1>3. Flow(e)' /\ Results(e)'
  <2>1. Have(op[e]) = <<>> /\ ~InPayload(op[e])
    BY <1>0 DEF Have, InPayload
  <2>2. Flow(e)'
    BY <1>0, <1>o, <1>w, <2>1, FlowStays
  <2>3. Shut(e) => Shut(e)'
    BY <1>0, StaysShut
  <2> QED BY <1>0, <2>2, <2>3, ResultsStay
<1>4. Flow(d)'
  <2>1. CASE ~r_[d]
    BY <1>0, <2>1 DEF Flow
  <2>2. CASE ~Writable(d)
    BY <1>0, <1>p, <2>2 DEF Writable
  <2>3. CASE InStep(op[d], pipe[e], op[e], sent[e], Len(got[d]), MaxMsg[d], w_[e])
    <3>1. Typed(op[d], pipe[e], Sending(left), sent[e], Len(got[d]), MaxMsg[d], w_[e])
      BY <1>p, <1>l, TypedHere
    <3>2. InStep(op[d], pipe[e], Sending(left), sent[e], Len(got[d]), MaxMsg[d], w_[e])
      BY <2>3, <1>l
    <3>3. InStep(op[d], pipe[e] \o SubSeq(left, 1, k), AfterWrite(left, k), sent[e],
                 Len(got[d]), MaxMsg[d], w_[e])
      BY <1>l, <1>i, <3>1, <3>2, WriteMoves
    <3> QED BY <1>0, <1>p, <1>o, <3>3 DEF Flow
  <2> QED BY <1>p, <2>1, <2>2, <2>3 DEF Flow
<1>5. Results(d)'
  <2>1. Shut(d) => Shut(d)'
    BY <1>0, <1>p, StaysShut
  <2> QED BY <1>0, <1>p, <2>1, ResultsStay
<1> QED BY <1>1, <1>2, <1>3, <1>4, <1>5, <1>p

LEMMA WriteBrokenStep == CommsInv /\ (\E e \in Ends : WriteBroken(e)) => CommsInv'
<1> SUFFICES ASSUME CommsInv, NEW e \in Ends, WriteBroken(e) PROVE CommsInv'
  OBVIOUS
<1> USE DEF CommsInv
<1> DEFINE d == Other(e)
<1>0. /\ copies' = copies /\ r_' = r_ /\ w_' = w_ /\ got' = got /\ sent' = sent /\ pipe' = pipe
      /\ run' = run /\ child' = child /\ op[e].call = "send" /\ ~r_[d]
      /\ op' = [op EXCEPT ![e] = Idle]
  BY DEF WriteBroken, Readable
<1>p. d \in Ends /\ d # e /\ Other(d) = e /\ \A x \in Ends : x = e \/ x = d
  BY Pair
<1>o. op'[e] = Idle /\ op'[d] = op[d]
  BY <1>0, <1>p DEF TypeOK
<1>1. TypeOK'
  BY <1>0, OpForms DEF TypeOK
<1>r. run # "before"
  BY <1>0, Started
<1>2. Protocol'
  BY <1>0, <1>p, <1>o, <1>r, OpForms DEF Protocol
<1>3. Flow(e)'
  <2>1. Have(op[e]) = <<>> /\ ~InPayload(op[e])
    BY <1>0 DEF Have, InPayload
  <2> QED BY <1>0, <1>o, <2>1, OpForms, FlowStays
<1>4. Flow(d)'
  BY <1>0 DEF Flow
<1>5. ASSUME NEW x \in Ends PROVE Results(x)'
  <2>1. Shut(x) => Shut(x)'
    BY <1>0, StaysShut
  <2> QED BY <1>0, <2>1, ResultsStay
<1> QED BY <1>1, <1>2, <1>3, <1>4, <1>5, <1>p

LEMMA RecvStartStep ==
  CommsInv /\ (\E e \in Ends : \E kind \in Receivable[e] : RecvStart(e, kind)) => CommsInv'
<1> SUFFICES ASSUME CommsInv, NEW e \in Ends, NEW kind \in Receivable[e], RecvStart(e, kind)
             PROVE  CommsInv'
  OBVIOUS
<1> USE DEF CommsInv
<1> DEFINE d == Other(e)  o2 == IF r_[e] THEN Receiving(kind, -1, 8, <<>>) ELSE Idle
<1>0. /\ copies' = copies /\ r_' = r_ /\ w_' = w_ /\ sent' = sent /\ pipe' = pipe
      /\ run' = run /\ child' = child /\ op[e].call = "none"
      /\ op' = [op EXCEPT ![e] = o2]
      /\ got' = IF r_[e] THEN got ELSE [got EXCEPT ![e] = Append(@, Failed(kind))]
  BY DEF RecvStart, Ready, Return
<1>p. d \in Ends /\ d # e /\ Other(d) = e /\ \A x \in Ends : x = e \/ x = d
  BY Pair
<1>t. kind \in Kinds /\ Failed(kind) \in Outcomes
  BY BoundsAssumption DEF Outcomes
<1>w. /\ o2 \in Ops /\ o2.call \in {"none", "recv"} /\ Have(o2) = <<>> /\ Left(o2) = <<>>
      /\ ~InPayload(o2)
      /\ o2.call = "recv" => r_[e] /\ o2.tag = -1 /\ o2.need = 8 /\ Len(o2.have) < o2.need
  <2>1. CASE r_[e]
    <3>1. o2 = Receiving(kind, -1, 8, <<>>) /\ <<>> \in Seq(Nat)
      BY <2>1
    <3> QED BY <1>t, <2>1, <3>1 DEF Ops, Receiving, Have, Left, InPayload
  <2>2. CASE ~r_[e]
    BY <2>2, OpForms
  <2> QED BY <2>1, <2>2
<1> HIDE DEF o2
<1>o. op'[e] = o2 /\ op'[d] = op[d] /\ got'[d] = got[d]
  BY <1>0, <1>p DEF TypeOK
<1>1. TypeOK'
  <2>1. op' \in [Ends -> Ops]
    BY <1>0, <1>w DEF TypeOK
  <2>2. got' \in [Ends -> Seq(Outcomes)]
    BY <1>0, <1>t DEF TypeOK
  <2> QED BY <1>0, <2>1, <2>2 DEF TypeOK
<1>r. run # "before"
  BY Started DEF RecvStart
<1>2. Protocol'
  BY <1>0, <1>p, <1>o, <1>r, <1>w DEF Protocol
<1>a. Have(op[e]) = <<>> /\ Left(op[e]) = <<>> /\ ~InPayload(op[e])
  BY <1>0, AtRest
<1>3. Flow(e)'
  <2>1. CASE r_[e]
    <3>1. got'[e] = got[e]
      BY <1>0, <2>1
    <3> QED BY <1>0, <1>o, <1>w, <1>a, <3>1, FlowStays
  <2>2. CASE ~r_[e]
    BY <1>0, <2>2 DEF Flow
  <2> QED BY <2>1, <2>2
<1>4. Flow(d)'
  BY <1>0, <1>p, <1>o, <1>w, <1>a, FlowStays
<1>s. \A x \in Ends : Shut(x) => Shut(x)'
  BY <1>0, StaysShut
<1>5. Results(d)'
  BY <1>0, <1>p, <1>o, <1>s, ResultsStay
<1>6. Results(e)'
  <2>1. CASE r_[e]
    <3>1. got'[e] = got[e]
      BY <1>0, <2>1
    <3> QED BY <1>0, <1>s, <3>1, ResultsStay
  <2>2. CASE ~r_[e]
    <3>1. got'[e] = Append(got[e], Failed(kind))
      BY <1>0, <2>2 DEF TypeOK
    <3>2. Shut(e)'
      BY <1>0, <2>2 DEF Shut
    <3>3. Answer(Failed(kind), Len(got[e]) + 1, sent[Other(e)], MaxMsg[e], Shut(e)')
      BY <3>2, FailedAnswer
    <3> QED BY <1>0, <1>s, <3>1, <3>3, ResultsMore
  <2> QED BY <2>1, <2>2
<1> QED BY <1>1, <1>2, <1>3, <1>4, <1>5, <1>6, <1>p

LEMMA ReadEofStep == CommsInv /\ (\E e \in Ends : ReadEof(e)) => CommsInv'
<1> SUFFICES ASSUME CommsInv, NEW e \in Ends, ReadEof(e) PROVE CommsInv'
  OBVIOUS
<1> USE DEF CommsInv
<1> DEFINE d == Other(e)  g == Failed(op[e].kind)
<1>0. /\ copies' = copies /\ r_' = r_ /\ w_' = w_ /\ sent' = sent /\ pipe' = pipe
      /\ run' = run /\ child' = child /\ op[e].call = "recv"
      /\ pipe[d] = <<>> /\ ~Writable(e)
      /\ op' = [op EXCEPT ![e] = Idle] /\ got' = [got EXCEPT ![e] = Append(@, g)]
  BY DEF ReadEof, Return
<1>p. d \in Ends /\ d # e /\ Other(d) = e /\ \A x \in Ends : x = e \/ x = d
  BY Pair
<1>t. g \in Outcomes
  <2>1. op[e].kind \in Kinds
    BY <1>0, OpForms DEF TypeOK
  <2> QED BY <2>1 DEF Outcomes
<1>o. op'[e] = Idle /\ op'[d] = op[d] /\ got'[d] = got[d] /\ got'[e] = Append(got[e], g)
  BY <1>0, <1>p DEF TypeOK
<1>1. TypeOK'
  <2> HIDE DEF g
  <2>1. op' \in [Ends -> Ops]
    BY <1>0, OpForms DEF TypeOK
  <2>2. got' \in [Ends -> Seq(Outcomes)]
    BY <1>0, <1>t DEF TypeOK
  <2> QED BY <1>0, <2>1, <2>2 DEF TypeOK
<1>r. run # "before"
  BY <1>0, Started
<1>2. Protocol'
  BY <1>0, <1>p, <1>o, <1>r, OpForms DEF Protocol
<1>w. ~Writable(e)'
  BY <1>0 DEF Writable
<1>3. Flow(e)'
  BY <1>0, <1>w DEF Flow
<1>4. Flow(d)'
  <2>1. Left(op[e]) = <<>>
    BY <1>0 DEF Left
  <2> QED BY <1>0, <1>p, <1>o, <2>1, OpForms, FlowStays
<1>s. \A x \in Ends : Shut(x) => Shut(x)'
  BY <1>0, StaysShut
<1>5. Results(d)'
  BY <1>0, <1>p, <1>o, <1>s, ResultsStay
<1>6. Results(e)'
  <2>1. Answer(g, Len(got[e]) + 1, sent[Other(e)], MaxMsg[e], Shut(e)')
    BY <1>w, FailedAnswer DEF Shut
  <2> QED BY <1>0, <1>o, <1>s, <2>1, ResultsMore
<1> QED BY <1>1, <1>2, <1>3, <1>4, <1>5, <1>6, <1>p

(* ReadSome takes bytes of e's direction only, however its call goes on.   *)
LEMMA ReadElsewhere ==
  ASSUME CommsInv, NEW e \in Ends, op[e].call = "recv", NEW q2 \in Seq(Nat),
         pipe' = [pipe EXCEPT ![Other(e)] = q2], UNCHANGED <<copies, child, run, sent>>,
         NEW y \in Ops, op' = [op EXCEPT ![e] = y], y.call \in {"none", "recv"},
         UNCHANGED <<r_, w_>> \/ Close(e),
         got' = got \/ (\E g \in Outcomes : got' = [got EXCEPT ![e] = Append(@, g)]),
         y.call = "recv" => r_'[e] /\ Len(y.have) < y.need /\ (y.tag = -1 => y.need = 8)
  PROVE  /\ TypeOK' /\ Protocol' /\ Flow(Other(e))' /\ Results(Other(e))'
         /\ Shut(e) => Shut(e)'
         /\ op'[e] = y /\ pipe'[Other(e)] = q2 /\ op'[Other(e)] = op[Other(e)]
         /\ w_'[Other(e)] = w_[Other(e)]
<1> USE DEF CommsInv
<1> DEFINE d == Other(e)
<1>p. d \in Ends /\ d # e /\ Other(d) = e /\ \A x \in Ends : x = e \/ x = d
  BY Pair
<1>o. /\ op'[e] = y /\ op'[d] = op[d] /\ got'[d] = got[d]
      /\ pipe'[d] = q2 /\ pipe'[e] = pipe[e]
      /\ r_'[d] = r_[d] /\ w_'[d] = w_[d] /\ (r_'[e] => r_[e]) /\ (w_'[e] => w_[e])
      /\ r_' \in [Ends -> BOOLEAN] /\ w_' \in [Ends -> BOOLEAN]
  BY <1>p DEF TypeOK, Close
<1>1. TypeOK'
  <2>1. op' \in [Ends -> Ops]
    BY DEF TypeOK
  <2>2. got' \in [Ends -> Seq(Outcomes)]
    <3>1. got \in [Ends -> Seq(Outcomes)]
      BY DEF TypeOK
    <3>2. CASE got' = got
      BY <3>1, <3>2
    <3>3. ASSUME NEW g \in Outcomes, got' = [got EXCEPT ![e] = Append(@, g)]
          PROVE  got' \in [Ends -> Seq(Outcomes)]
      <4>1. Append(got[e], g) \in Seq(Outcomes)
        BY <3>1
      <4> QED BY <3>1, <3>3, <4>1
    <3> QED BY <3>2, <3>3
  <2>3. pipe' \in [Ends -> Seq(Nat)]
    BY DEF TypeOK
  <2> QED BY <1>o, <2>1, <2>2, <2>3 DEF TypeOK
<1>r. run # "before"
  BY Started
<1>2. Protocol'
  BY <1>p, <1>o, <1>r DEF Protocol
<1>3. Flow(d)'
  <2>1. Left(op[e]) = <<>> /\ Left(y) = <<>>
    BY DEF Left
  <2> QED BY <1>p, <1>o, <2>1, FlowStays
<1>s. \A x \in Ends : Shut(x) => Shut(x)'
  BY <1>p, <1>o, StaysShut
<1>4. Results(d)'
  BY <1>p, <1>o, <1>s, ResultsStay
<1> QED BY <1>1, <1>2, <1>3, <1>4, <1>o, <1>s

(* The three ways a read call goes on.                                     *)
LEMMA ReadGoesOn ==
  ASSUME CommsInv, NEW e \in Ends, op[e].call = "recv", NEW q2 \in Seq(Nat),
         pipe' = [pipe EXCEPT ![Other(e)] = q2], UNCHANGED <<copies, child, run, sent>>,
         NEW y \in Ops, op' = [op EXCEPT ![e] = y], UNCHANGED <<r_, w_, got>>,
         y.call = "recv", Len(y.have) < y.need, y.tag = -1 => y.need = 8,
         InStep(y, q2, op[Other(e)], sent[Other(e)], Len(got[e]), MaxMsg[e], w_[Other(e)])
  PROVE  CommsInv'
<1>0. r_'[e]
  BY DEF CommsInv, Protocol
<1>1. /\ TypeOK' /\ Protocol' /\ Flow(Other(e))' /\ Results(Other(e))' /\ (Shut(e) => Shut(e)')
      /\ op'[e] = y /\ pipe'[Other(e)] = q2 /\ op'[Other(e)] = op[Other(e)]
  BY <1>0, ReadElsewhere
<1>2. Flow(e)'
  BY <1>1 DEF Flow
<1>3. Results(e)'
  BY <1>1, ResultsStay DEF CommsInv
<1> QED BY <1>1, <1>2, <1>3, Pair DEF CommsInv

LEMMA ReadShuts ==
  ASSUME CommsInv, NEW e \in Ends, op[e].call = "recv", NEW q2 \in Seq(Nat),
         pipe' = [pipe EXCEPT ![Other(e)] = q2], UNCHANGED <<copies, child, run, sent>>,
         Close(e), Return(e, Failed(op[e].kind))
  PROVE  CommsInv'
<1> DEFINE g == Failed(op[e].kind)
<1>0. /\ op' = [op EXCEPT ![e] = Idle] /\ got' = [got EXCEPT ![e] = Append(@, g)]
      /\ Idle \in Ops /\ Idle.call = "none"
  BY OpForms DEF Return
<1>g. g \in Outcomes
  <2>1. op[e].kind \in Kinds
    BY OpForms DEF CommsInv, TypeOK
  <2> QED BY <2>1 DEF Outcomes
<1> HIDE DEF g
<1>1. /\ TypeOK' /\ Protocol' /\ Flow(Other(e))' /\ Results(Other(e))' /\ (Shut(e) => Shut(e)')
  BY <1>0, <1>g, ReadElsewhere
<1>2. ~r_'[e] /\ got'[e] = Append(got[e], g)
  BY <1>0 DEF CommsInv, TypeOK, Close
<1>3. Flow(e)'
  BY <1>2 DEF Flow
<1>4. Results(e)'
  <2>1. Answer(g, Len(got[e]) + 1, sent[Other(e)], MaxMsg[e], Shut(e)')
    BY <1>2, FailedAnswer DEF Shut, g
  <2> QED BY <1>1, <1>2, <2>1, ResultsMore DEF CommsInv
<1> QED BY <1>1, <1>3, <1>4, Pair DEF CommsInv

LEMMA ReadAnswers ==
  ASSUME CommsInv, NEW e \in Ends, op[e].call = "recv", NEW q2 \in Seq(Nat),
         pipe' = [pipe EXCEPT ![Other(e)] = q2], UNCHANGED <<copies, child, run, sent>>,
         UNCHANGED <<r_, w_>>, Len(got[e]) < Len(sent[Other(e)]),
         Return(e, Outcome(op[e].kind, TagOf(sent[Other(e)][Len(got[e]) + 1]),
                           Payload(sent[Other(e)][Len(got[e]) + 1]))),
         InStep(Idle, q2, op[Other(e)], sent[Other(e)], Len(got[e]) + 1, MaxMsg[e], w_[Other(e)])
  PROVE  CommsInv'
<1> DEFINE S == sent[Other(e)]  i == Len(got[e]) + 1  t == TagOf(S[i])  b == Payload(S[i])
           g == Outcome(op[e].kind, t, b)
<1>0. /\ op' = [op EXCEPT ![e] = Idle] /\ got' = [got EXCEPT ![e] = Append(@, g)]
      /\ Idle \in Ops /\ Idle.call = "none"
  BY OpForms DEF Return
<1>k. op[e].kind \in Kinds
  BY OpForms DEF CommsInv, TypeOK
<1>f. Fit(S) /\ got[e] \in Seq(Outcomes) /\ Len(got[e]) \in Nat
  BY TypedHere DEF Typed, CommsInv, TypeOK
<1>i. i \in 1 .. Len(S) /\ S[i] \in Messages
  BY <1>f DEF Fit
<1>g. g \in Outcomes
  <2>1. b \in Seq(Nat)
    BY <1>i, PayloadValue
  <2>2. t \in Int
    <3>1. Len(b) < Word
      BY <1>f, <1>i DEF Fit
    <3> QED BY <1>i, <3>1, FrameShape, Constants
  <2> HIDE DEF t, b
  <2> QED BY <1>k, <2>1, <2>2 DEF Outcomes
<1>a. Answer(g, i, S, MaxMsg[e], Shut(e)')
  <2>1. \A j \in 1 .. i : Len(Payload(S[j])) <= MaxMsg[e]
    BY DEF InStep
  <2> HIDE DEF S, i
  <2> QED BY <1>k, <1>f, <1>i, <2>1, NewAnswer
<1> HIDE DEF g
<1>1. /\ TypeOK' /\ Protocol' /\ Flow(Other(e))' /\ Results(Other(e))' /\ (Shut(e) => Shut(e)')
      /\ op'[e] = Idle /\ pipe'[Other(e)] = q2 /\ op'[Other(e)] = op[Other(e)]
  BY <1>0, <1>g, ReadElsewhere
<1>2. got'[e] = Append(got[e], g) /\ Len(got'[e]) = Len(got[e]) + 1
  BY <1>0, <1>f DEF CommsInv, TypeOK
<1>3. Flow(e)'
  BY <1>1, <1>2 DEF Flow
<1>4. Results(e)'
  BY <1>1, <1>2, <1>a, ResultsMore DEF CommsInv
<1> QED BY <1>1, <1>3, <1>4, Pair DEF CommsInv

LEMMA MoreHere ==
  ASSUME NEW o \in Ops, o.call = "recv", NEW h
  PROVE  [o EXCEPT !.have = h] = Receiving(o.kind, o.tag, o.need, h)
<1>1. o \in [call : {"recv"}, kind : Kinds, tag : Int, need : Nat, have : Seq(Nat)]
  BY DEF Ops, Idle
<1> QED BY <1>1 DEF Receiving

LEMMA ReadSomeStep == CommsInv /\ (\E e \in Ends : ReadSome(e)) => CommsInv'
<1> SUFFICES ASSUME CommsInv, NEW e \in Ends, ReadSome(e) PROVE CommsInv'
  OBVIOUS
<1> DEFINE o == op[e]  in == pipe[Other(e)]  s == op[Other(e)]  S == sent[Other(e)]
           n == Len(got[e])  max == MaxMsg[e]  whole == w_[Other(e)]
<1>t. /\ Typed(o, in, s, S, n, max, whole) /\ TypeOK /\ Protocol /\ Flow(e)
  BY TypedHere DEF CommsInv
<1>0. /\ o.call = "recv" /\ r_[e] /\ Len(o.have) < o.need /\ (o.tag = -1 => o.need = 8)
      /\ o \in Ops /\ o.kind \in Kinds /\ o.tag \in Int /\ o.need \in Nat /\ o.have \in Seq(Nat)
      /\ in \in Seq(Nat) /\ Len(in) \in Nat /\ Len(o.have) \in Nat
  <2>1. o.call = "recv" /\ o \in Ops /\ in \in Seq(Nat)
    BY <1>t DEF ReadSome, Typed
  <2>2. o.kind \in Kinds /\ o.tag \in Int /\ o.need \in Nat /\ o.have \in Seq(Nat)
    BY <2>1, OpForms
  <2>3. r_[e] /\ Len(o.have) < o.need /\ (o.tag = -1 => o.need = 8)
    BY <1>t, <2>1 DEF Protocol
  <2> QED BY <2>1, <2>2, <2>3
<1>k. PICK k \in 1 .. Min({o.need - Len(o.have), Len(in)}) :
        LET have == o.have \o SubSeq(in, 1, k)
        IN  /\ pipe' = [pipe EXCEPT ![Other(e)] = SubSeq(in, k + 1, Len(in))]
            /\ CASE Len(have) < o.need ->
                       /\ op' = [op EXCEPT ![e].have = have]
                       /\ UNCHANGED <<r_, w_, got>>
                 [] Len(have) = o.need /\ o.tag = -1 ->
                       Header(e, o.kind, GetU32(have), GetU32(SubSeq(have, 5, 8)))
                 [] OTHER ->
                       /\ Return(e, Outcome(o.kind, o.tag, have))
                       /\ UNCHANGED <<r_, w_>>
  BY DEF ReadSome
<1>u. UNCHANGED <<copies, child, run, sent>>
  BY DEF ReadSome
<1>i. k \in 0 .. Len(in) /\ k \in Nat \ {0} /\ k <= o.need - Len(o.have)
  <2>1. o.need - Len(o.have) \in Int /\ Len(in) \in Int
    BY <1>0
  <2>2. k \in Nat \ {0} /\ k <= Len(in) /\ k <= o.need - Len(o.have)
    <3> DEFINE a == o.need - Len(o.have)  b == Len(in)
    <3> HIDE DEF a, b
    <3>1. a \in Int /\ b \in Int /\ k \in 1 .. Min({a, b})
      BY <2>1 DEF a, b
    <3>2. k \in Nat \ {0} /\ k <= a /\ k <= b
      BY <3>1, MinOf
    <3> QED BY <3>2 DEF a, b
  <2> QED BY <1>0, <2>2
<1> DEFINE h == o.have \o SubSeq(in, 1, k)  q2 == SubSeq(in, k + 1, Len(in))
           o2 == Receiving(o.kind, o.tag, o.need, h)
<1>s. InStep(o, in, s, S, n, max, whole)
  <2>1. ~(in = <<>>)
    BY <1>0, <1>i
  <2> QED BY <1>0, <1>t, <2>1 DEF Flow
<1>h. /\ h \in Seq(Nat) /\ Len(h) = Len(o.have) + k
      /\ Typed(o2, q2, s, S, n, max, whole) /\ InStep(o2, q2, s, S, n, max, whole)
  <2> HIDE DEF o, in, s, S, n, max, whole
  <2> QED BY <1>0, <1>t, <1>i, <1>s, ReadMoves
<1>c. /\ pipe' = [pipe EXCEPT ![Other(e)] = q2] /\ q2 \in Seq(Nat)
      /\ \/ Len(h) < o.need /\ op' = [op EXCEPT ![e].have = h] /\ UNCHANGED <<r_, w_, got>>
         \/ /\ Len(h) = o.need /\ o.tag = -1
            /\ Header(e, o.kind, GetU32(h), GetU32(SubSeq(h, 5, 8)))
         \/ /\ ~(Len(h) < o.need) /\ o.tag # -1
            /\ Return(e, Outcome(o.kind, o.tag, h)) /\ UNCHANGED <<r_, w_>>
  <2>1. q2 \in Seq(Nat)
    BY <1>h DEF Typed
  <2>2. Len(h) = o.need \/ Len(h) < o.need
    <3> DEFINE l == Len(h)  b == Len(o.have)  c == o.need
    <3>1. l = b + k /\ b \in Nat /\ c \in Nat /\ k \in Nat /\ k <= c - b
      BY <1>0, <1>i, <1>h
    <3> HIDE DEF l, b, c
    <3>2. l = c \/ l < c
      BY <3>1
    <3> QED BY <3>2 DEF l, c
  <2> HIDE DEF h
  <2> QED BY <1>k, <2>1, <2>2 DEF h
<1>o. /\ o2 \in Ops /\ o2.call = "recv" /\ o2.tag = o.tag /\ o2.need = o.need /\ o2.have = h
      /\ o2.kind = o.kind /\ (InPayload(o2) <=> o.tag # -1)
  <2> HIDE DEF h
  <2> QED BY <1>0, <1>h DEF Ops, Receiving, InPayload
<1> HIDE DEF h, q2, o2
<1>1. CASE Len(h) < o.need /\ op' = [op EXCEPT ![e].have = h] /\ UNCHANGED <<r_, w_, got>>
  <2>1. [o EXCEPT !.have = h] = o2
    BY <1>0, MoreHere DEF o2
  <2>2. op' = [op EXCEPT ![e] = o2]
    BY <1>1, <2>1
  <2>3. Len(o2.have) < o2.need
    <3> HIDE DEF o
    <3> QED BY <1>o, <1>1
  <2>4. o2.tag = -1 => o2.need = 8
    BY <1>0, <1>o
  <2> QED BY <1>0, <1>u, <1>c, <1>h, <1>o, <1>1, <2>2, <2>3, <2>4, ReadGoesOn
<1>2. CASE /\ ~(Len(h) < o.need) /\ o.tag # -1
           /\ Return(e, Outcome(o.kind, o.tag, h)) /\ UNCHANGED <<r_, w_>>
  <2>1. Len(o2.have) = o2.need /\ InPayload(o2)
    <3> HIDE DEF o, in
    <3>1. Len(h) = o.need
      BY <1>0, <1>i, <1>h, <1>2
    <3> QED BY <1>o, <1>2, <3>1
  <2>2. /\ n < Len(S) /\ o.tag = TagOf(S[n + 1]) /\ h = Payload(S[n + 1])
        /\ InStep(Idle, q2, s, S, n + 1, max, whole)
    <3> HIDE DEF o, in, s, S, n, max, whole
    <3> QED BY <1>h, <1>o, <2>1, PayloadHere
  <2> QED BY <1>0, <1>u, <1>c, <1>2, <2>2, ReadAnswers
<1>3. CASE /\ Len(h) = o.need /\ o.tag = -1
           /\ Header(e, o.kind, GetU32(h), GetU32(SubSeq(h, 5, 8)))
  <2> DEFINE m == S[n + 1]  len == Len(Payload(m))
             o3 == Receiving(o.kind, TagOf(m), len, <<>>)
  <2>h. o2.call = "recv" /\ o2.tag = -1 /\ Len(o2.have) = 8
    BY <1>0, <1>o, <1>3, Zenon
  <2>1. n < Len(S) /\ GetU32(h) = TagOf(m) /\ GetU32(SubSeq(h, 5, 8)) = len
    <3>1. /\ n < Len(S) /\ GetU32(o2.have) = TagOf(S[n + 1])
          /\ GetU32(SubSeq(o2.have, 5, 8)) = Len(Payload(S[n + 1]))
      <4> HIDE DEF o, in, s, S, n, max, whole
      <4> QED BY <1>h, <2>h, HeaderHere
    <3> QED BY <1>o, <3>1
  <2>2. Header(e, o.kind, TagOf(m), len)
    BY <1>3, <2>1
  <2>m. m \in Messages /\ len \in Nat /\ TagOf(m) \in Int /\ TagOf(m) # -1
        /\ max \in Nat
    <3>1. Fit(S) /\ n \in Nat /\ max \in Nat /\ Len(S) \in Nat
      BY <1>t DEF Typed, Fit
    <3>2. n + 1 \in 1 .. Len(S)
      BY <2>1, <3>1
    <3>3. m \in Messages /\ len \in Nat /\ len < Word
      BY <3>1, <3>2, FrameLen
    <3>4. TagOf(m) \in 0 .. Word - 1
      BY <3>3, FrameShape
    <3>5. Word \in Nat
      BY Constants
    <3> HIDE DEF m, len
    <3> QED BY <3>1, <3>3, <3>4, <3>5
  <2>3. CASE Close(e) /\ Return(e, Failed(o.kind))
    BY <1>0, <1>u, <1>c, <2>3, ReadShuts
  <2>o. /\ o3 \in Ops /\ o3.call = "recv" /\ o3.tag = TagOf(m) /\ o3.need = len
        /\ o3.have = <<>> /\ InPayload(o3)
    <3> HIDE DEF m, len
    <3>1. <<>> \in Seq(Nat)
      OBVIOUS
    <3> QED BY <1>0, <2>m, <3>1 DEF Ops, Receiving, InPayload
  <2>4. len <= max => /\ Typed(o3, q2, s, S, n, max, whole)
                      /\ InStep(o3, q2, s, S, n, max, whole)
    <3>1. o.kind \in Kinds
      BY <1>0
    <3> HIDE DEF o, in, s, S, n, max, whole
    <3> QED BY <1>h, <2>h, <3>1, HeaderUsed
  <2> HIDE DEF o3
  <2>5. CASE /\ len \in 1 .. max
             /\ op' = [op EXCEPT ![e] = o3] /\ UNCHANGED <<r_, w_, got>>
    <3>1. InStep(o3, q2, s, S, n, max, whole) /\ Len(o3.have) < o3.need
      <4>1. len \in Nat /\ 1 <= len /\ len <= max
        BY <2>5, <2>m
      <4>2. InStep(o3, q2, s, S, n, max, whole)
        BY <2>4, <4>1
      <4>3. Len(<<>>) = 0
        OBVIOUS
      <4>4. Len(o3.have) = 0
        BY <2>o, <4>3
      <4> HIDE DEF len
      <4> QED BY <2>o, <4>1, <4>2, <4>4
    <3> QED BY <1>0, <1>u, <1>c, <2>m, <2>o, <2>5, <3>1, ReadGoesOn
  <2>6. CASE len = 0 /\ Return(e, Outcome(o.kind, TagOf(m), <<>>)) /\ UNCHANGED <<r_, w_>>
    <3>1. Len(o3.have) = o3.need
      <4>1. Len(<<>>) = 0
        OBVIOUS
      <4> QED BY <2>o, <2>6, <4>1
    <3>2. Typed(o3, q2, s, S, n, max, whole) /\ InStep(o3, q2, s, S, n, max, whole)
      BY <2>4, <2>6, <2>m
    <3>3. o3.have = Payload(S[n + 1]) /\ InStep(Idle, q2, s, S, n + 1, max, whole)
      <4> HIDE DEF o, in, s, S, n, max, whole
      <4> QED BY <2>o, <3>1, <3>2, PayloadHere
    <3>4. <<>> = Payload(S[n + 1])
      BY <2>o, <3>3
    <3> QED BY <1>0, <1>u, <1>c, <2>1, <2>6, <3>3, <3>4, ReadAnswers
  <2> QED BY <2>2, <2>3, <2>5, <2>6 DEF Header, o3
<1> QED BY <1>c, <1>1, <1>2, <1>3

(* Every step of the specification keeps CommsInv.                         *)
LEMMA StepInv == CommsInv /\ [Next]_vars => CommsInv'
<1> SUFFICES ASSUME CommsInv, [Next]_vars PROVE CommsInv'
  OBVIOUS
<1>1. CASE UNCHANGED vars
  <2>1. /\ pipe' = pipe /\ r_' = r_ /\ w_' = w_ /\ copies' = copies /\ child' = child
        /\ run' = run /\ op' = op /\ sent' = sent /\ got' = got
    BY <1>1 DEF vars
  <2>2. TypeOK' /\ Protocol'
    BY <2>1 DEF CommsInv, TypeOK, Protocol
  <2>3. ASSUME NEW e \in Ends PROVE Flow(e)' /\ Results(e)'
    BY <2>1 DEF CommsInv, Flow, Results, Shut, Writable
  <2> QED BY <2>2, <2>3 DEF CommsInv
<1>2. CASE Spawn
  BY <1>2, SpawnStep
<1>3. CASE RunAsyncReturns
  BY <1>3, RunAsyncReturnsStep
<1>4. CASE ChildEnds
  BY <1>4, ChildEndsStep
<1>5. ASSUME NEW e \in Ends, Terminate(e) PROVE CommsInv'
  BY <1>5, TerminateStep
<1>6. ASSUME NEW e \in Ends, NEW m \in Sendable[e], SendTLV(e, m) PROVE CommsInv'
  BY <1>6, SendTLVStep
<1>7. ASSUME NEW e \in Ends, NEW kind \in Receivable[e], RecvStart(e, kind) PROVE CommsInv'
  BY <1>7, RecvStartStep
<1>8. ASSUME NEW e \in Ends, Io(e) PROVE CommsInv'
  <2>1. CASE WriteSome(e)
    BY <2>1, WriteSomeStep
  <2>2. CASE WriteBroken(e)
    BY <2>2, WriteBrokenStep
  <2>3. CASE ReadSome(e)
    BY <2>3, ReadSomeStep
  <2>4. CASE ReadEof(e)
    BY <2>4, ReadEofStep
  <2> QED BY <1>8, <2>1, <2>2, <2>3, <2>4 DEF Io
<1> QED BY <1>1, <1>2, <1>3, <1>4, <1>5, <1>6, <1>7, <1>8 DEF Next

LEMMA Invariance == Spec => []CommsInv
BY InitInv, StepInv, PTL DEF Spec

(* For every width of a byte, capacity of the pipes and limit of an end,   *)
(* a Recv that returns true returns what the matching Send was given: the  *)
(* frames of a direction stay in step through short reads and writes,      *)
(* refused kinds and a peer that dies in the middle of a frame.            *)
THEOREM Matched == Spec => []RecvMatchesSend
<1>1. CommsInv => RecvMatchesSend
  <2> SUFFICES ASSUME CommsInv, NEW e \in Ends, NEW i \in DOMAIN got[e], got[e][i].ok
               PROVE  LET g == got[e][i]
                          from == sent[Other(e)]
                      IN /\ i <= Len(from)
                         /\ TagOf(from[i]) = Tag(g.kind)
                         /\ from[i].kind = g.kind => from[i].value = g.value
                         /\ \A j \in 1 .. i : Len(Payload(from[j])) <= MaxMsg[e]
    BY DEF RecvMatchesSend
  <2>1. i \in 1 .. Len(got[e])
    BY DEF CommsInv, TypeOK
  <2>2. Answer(got[e][i], i, sent[Other(e)], MaxMsg[e], Shut(e))
    BY <2>1 DEF CommsInv, Results
  <2> QED BY <2>2 DEF Answer
<1> QED BY <1>1, Invariance, PTL

(* A Recv returns false only of a frame of another kind or size, or on a   *)
(* channel that one of its ends has shut: no frame is lost to a Recv that  *)
(* fails for nothing.                                                      *)
THEOREM FailsForCause == Spec => []RecvFailsForCause
<1>1. CommsInv => RecvFailsForCause
  <2> SUFFICES ASSUME CommsInv, NEW e \in Ends, NEW i \in DOMAIN got[e]
               PROVE  LET g == got[e][i]
                          from == sent[Other(e)]
                      IN g.ok \/ ~r_[e] \/ ~Writable(e)
                         \/ (i <= Len(from) /\ ~Accepts(g.kind, TagOf(from[i]), Payload(from[i])))
    BY DEF RecvFailsForCause
  <2>1. i \in 1 .. Len(got[e])
    BY DEF CommsInv, TypeOK
  <2>2. Answer(got[e][i], i, sent[Other(e)], MaxMsg[e], Shut(e))
    BY <2>1 DEF CommsInv, Results
  <2> QED BY <2>2 DEF Answer, Shut
<1> QED BY <1>1, Invariance, PTL
=============================================================================
