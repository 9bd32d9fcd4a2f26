---------------------------- MODULE LibraryProofs ---------------------------
(***************************************************************************)
(* Proofs about the parts of the library that run by themselves: the       *)
(* bounds of the shared-memory buffer for every width of size_t, the       *)
(* shim's ReadFile for every limit and file, the message codec for every   *)
(* radix, limit and frame, the canonical forms of all paths, and the       *)
(* engine's decision for every list of rules.                              *)
(***************************************************************************)
EXTENDS Shim, Msg, Buffer, Abac, SequenceTheorems, FiniteSetTheorems, WellFoundedInduction,
        TLAPS

USE DEF bufferVars, shimVars, msgVars

-----------------------------------------------------------------------------
(* Buffer.                                                                 *)

Marks == {"outside", "zero", "host", "child"}
Addresses == 0 .. 2 * 2^Width

BufferTypeOK ==
    /\ mapped \in Nat /\ mapped <= 2^Width - 1
    /\ view \in [Sides -> Nat]
    /\ mem \in [Addresses -> Marks]
    /\ copy.bytes \in Seq(Marks)
    /\ copies \in Nat

(* Neither side's Buffer is larger than the mapping behind it, so that a   *)
(* bounds check against size_ is one against the mapping.                  *)
ViewsFit == \A s \in Sides : view[s] <= mapped

BufferInv == BufferTypeOK /\ ViewsFit /\ CopiesStayInside

LEMMA SizeTIsNat == 2^Width \in Nat
BY BufferAssumption, SMT

(* An accepted copy of n bytes lies inside the caller's view.              *)
LEMMA AcceptedIsInside ==
  ASSUME BufferTypeOK, ViewsFit, NEW side \in Sides, NEW off \in Nat, NEW n \in Nat
  PROVE  /\ Accepts(side, off, n) /\ n # 0 => off + n <= mapped
         /\ ~Accepts(side, off, n) /\ view[side] # 0 => n > 0 /\ off + n > view[side]
<1>1. view[side] \in Nat /\ view[side] <= mapped /\ mapped \in Nat
  BY DEF BufferTypeOK, ViewsFit
<1> QED BY <1>1 DEF Accepts, Fits

LEMMA BufferInitInv == BufferInit => BufferInv
<1> SUFFICES ASSUME BufferInit PROVE BufferInv
  OBVIOUS
<1>0. 2^Width \in Nat
  BY SizeTIsNat
<1>1. copy.bytes = <<>> /\ copy.size = 0
  BY DEF BufferInit, NoCopy
<1>2. BufferTypeOK
  BY <1>0, <1>1, BufferAssumption DEF BufferInit, BufferTypeOK, Addresses, Marks
<1>3. ViewsFit
  BY DEF BufferInit, ViewsFit
<1>4. CopiesStayInside
  <2>1. ~Contains(copy.bytes, "outside")
    BY <1>1 DEF Contains
  <2>2. \A a \in DOMAIN mem : mem[a] = "outside" <=> a >= mapped
    BY <1>0 DEF BufferInit
  <2> QED BY <1>1, <2>1, <2>2 DEF CopiesStayInside
<1> QED BY <1>2, <1>3, <1>4 DEF BufferInv

LEMMA CreateStep ==
  ASSUME BufferInv, NEW size \in SizeT, CreateWithSize(size) \/ CreateFromHandle(size)
  PROVE  BufferInv'
<1>0. BufferTypeOK /\ ViewsFit /\ CopiesStayInside /\ 2^Width \in Nat /\ size \in Nat /\ size <= 2^Width - 1
  BY SizeTIsNat DEF BufferInv, SizeT
<1>1. copy' = copy /\ copies' = copies
  BY DEF CreateWithSize, CreateFromHandle
<1>2. CASE CreateWithSize(size)
  <2>1. /\ mapped = 0 /\ mapped' = size
        /\ view' = [view EXCEPT !["host"] = size]
        /\ mem' = [a \in Addresses |-> IF a < size THEN "zero" ELSE mem[a]]
    BY <1>0, <1>2 DEF CreateWithSize, BufferTypeOK
  <2>2. /\ mem' \in [Addresses -> Marks]
        /\ \A a \in Addresses : mem'[a] = IF a < size THEN "zero" ELSE mem[a]
    BY <1>0, <2>1 DEF BufferTypeOK, Marks
  <2>3. BufferTypeOK'
    BY <1>0, <1>1, <2>1, <2>2 DEF BufferTypeOK
  <2>4. ViewsFit'
    BY <1>0, <2>1 DEF ViewsFit, BufferTypeOK
  <2>5. \A a \in Addresses : mem'[a] = "outside" <=> a >= mapped'
    BY <1>0, <2>1, <2>2 DEF CopiesStayInside, BufferTypeOK, Addresses
  <2>6. CopiesStayInside'
    BY <1>0, <1>1, <2>2, <2>5 DEF CopiesStayInside
  <2> QED BY <2>3, <2>4, <2>6 DEF BufferInv
<1>3. CASE CreateFromHandle(size)
  <2>1. /\ mapped' = mapped /\ mem' = mem /\ size <= mapped
        /\ view' = [view EXCEPT !["child"] = size]
    BY <1>3 DEF CreateFromHandle
  <2>2. BufferTypeOK'
    BY <1>0, <1>1, <2>1 DEF BufferTypeOK
  <2>3. ViewsFit'
    BY <1>0, <2>1 DEF ViewsFit, BufferTypeOK
  <2>4. CopiesStayInside'
    BY <1>0, <1>1, <2>1 DEF CopiesStayInside
  <2> QED BY <2>2, <2>3, <2>4 DEF BufferInv
<1> QED BY <1>2, <1>3

LEMMA CopyToStep ==
  ASSUME BufferInv, NEW side \in Sides, NEW off \in SizeT, NEW n \in SizeT, CopyTo(side, off, n)
  PROVE  BufferInv'
<1> DEFINE ok == Accepts(side, off, n)
<1>0. /\ BufferTypeOK /\ ViewsFit /\ CopiesStayInside /\ 2^Width \in Nat
      /\ off \in Nat /\ n \in Nat
  BY SizeTIsNat DEF BufferInv, SizeT
<1>1. /\ mapped' = mapped /\ view' = view /\ copies' = copies + 1
      /\ mem' = [a \in Addresses |-> IF ok /\ a \in off .. off + n - 1 THEN side ELSE mem[a]]
      /\ copy' = [size |-> view[side], off |-> off, n |-> n, ok |-> ok, bytes |-> <<>>]
  BY <1>0 DEF CopyTo, BufferTypeOK
<1>2. (ok /\ n # 0 => off + n <= mapped) /\ (~ok /\ view[side] # 0 => n > 0 /\ off + n > view[side])
  BY <1>0, AcceptedIsInside
<1> HIDE DEF ok
<1>3. /\ mem' \in [Addresses -> Marks]
      /\ \A a \in Addresses : mem'[a] = IF ok /\ a \in off .. off + n - 1 THEN side ELSE mem[a]
  BY <1>0, <1>1 DEF BufferTypeOK, Marks, Sides
<1>4. /\ copy'.bytes = <<>> /\ copy'.size = view[side] /\ copy'.off = off /\ copy'.n = n
      /\ copy'.ok = ok
  BY <1>1
<1>5. BufferTypeOK'
  BY <1>0, <1>1, <1>3, <1>4 DEF BufferTypeOK
<1>6. ViewsFit'
  BY <1>0, <1>1 DEF ViewsFit
<1>7. \A a \in Addresses : mem'[a] = "outside" <=> a >= mapped'
  <2> TAKE a \in Addresses
  <2>1. a \in Nat /\ mapped \in Nat /\ (mem[a] = "outside" <=> a >= mapped)
    BY <1>0 DEF Addresses, CopiesStayInside, BufferTypeOK
  <2>2. CASE ok /\ a \in off .. off + n - 1
    <3>1. a < mapped
      BY <1>0, <1>2, <2>1, <2>2
    <3> QED BY <1>1, <1>3, <2>1, <2>2, <3>1 DEF Sides
  <2>3. CASE ~(ok /\ a \in off .. off + n - 1)
    BY <1>1, <1>3, <2>1, <2>3
  <2> QED BY <2>2, <2>3
<1>8. ~Contains(copy'.bytes, "outside")
  BY <1>4 DEF Contains
<1>9. CopiesStayInside'
  BY <1>2, <1>3, <1>4, <1>7, <1>8 DEF CopiesStayInside
<1> QED BY <1>5, <1>6, <1>9 DEF BufferInv

LEMMA CopyFromStep ==
  ASSUME BufferInv, NEW side \in Sides, NEW off \in SizeT, NEW n \in SizeT, CopyFrom(side, off, n)
  PROVE  BufferInv'
<1> DEFINE ok == Accepts(side, off, n)
           bytes == IF ok THEN [k \in 1 .. n |-> mem[off + k - 1]] ELSE <<>>
<1>0. /\ BufferTypeOK /\ ViewsFit /\ CopiesStayInside /\ 2^Width \in Nat
      /\ off \in Nat /\ n \in Nat
  BY SizeTIsNat DEF BufferInv, SizeT
<1>1. /\ mapped' = mapped /\ view' = view /\ mem' = mem /\ copies' = copies + 1
      /\ copy' = [size |-> view[side], off |-> off, n |-> n, ok |-> ok, bytes |-> bytes]
  BY DEF CopyFrom
<1>2. (ok /\ n # 0 => off + n <= mapped) /\ (~ok /\ view[side] # 0 => n > 0 /\ off + n > view[side])
  BY <1>0, AcceptedIsInside
<1>3. bytes \in Seq(Marks) /\ ~Contains(bytes, "outside")
  <2>1. CASE ok
    <3> DEFINE f == [k \in 1 .. n |-> mem[off + k - 1]]
    <3>1. ASSUME NEW k \in 1 .. n PROVE mem[off + k - 1] \in Marks /\ mem[off + k - 1] # "outside"
      <4>1. off + k - 1 \in Nat /\ off + k - 1 < mapped /\ mapped \in Nat /\ mapped <= 2^Width - 1
        BY <1>0, <1>2, <2>1 DEF BufferTypeOK
      <4>2. off + k - 1 \in Addresses
        BY <1>0, <4>1 DEF Addresses
      <4> QED BY <1>0, <4>1, <4>2 DEF CopiesStayInside, BufferTypeOK
    <3>2. f \in [1 .. n -> Marks]
      BY <3>1
    <3>3. f \in Seq(Marks) /\ Len(f) = n
      BY <1>0, <3>2
    <3>4. \A k \in 1 .. n : f[k] # "outside"
      BY <3>1
    <3> HIDE DEF f
    <3>5. ~Contains(f, "outside")
      BY <3>3, <3>4 DEF Contains
    <3> QED BY <2>1, <3>3, <3>5 DEF f
  <2>2. CASE ~ok
    BY <2>2 DEF Contains
  <2> QED BY <2>1, <2>2
<1> HIDE DEF ok, bytes
<1>4. /\ copy'.bytes = bytes /\ copy'.size = view[side] /\ copy'.off = off /\ copy'.n = n
      /\ copy'.ok = ok
  BY <1>1
<1>5. BufferTypeOK'
  BY <1>0, <1>1, <1>3, <1>4 DEF BufferTypeOK
<1>6. ViewsFit'
  BY <1>0, <1>1 DEF ViewsFit
<1>7. CopiesStayInside'
  BY <1>0, <1>1, <1>2, <1>3, <1>4 DEF CopiesStayInside
<1> QED BY <1>5, <1>6, <1>7 DEF BufferInv

(* The copies of Buffer never touch a byte behind the mapping and refuse   *)
(* only what would leave the caller's view: the check in CopyTo and        *)
(* CopyFrom cannot be passed by an offset and a length whose sum wraps,    *)
(* whatever the width of size_t.                                           *)
THEOREM Inside == BufferInit /\ [][BufferNext]_bufferVars => []CopiesStayInside
<1>1. BufferInv /\ [BufferNext]_bufferVars => BufferInv'
  <2> SUFFICES ASSUME BufferInv, [BufferNext]_bufferVars PROVE BufferInv'
    OBVIOUS
  <2>1. CASE BufferNext
    BY <2>1, CreateStep, CopyToStep, CopyFromStep DEF BufferNext
  <2>2. CASE UNCHANGED bufferVars
    BY <2>2 DEF BufferInv, BufferTypeOK, ViewsFit, CopiesStayInside
  <2> QED BY <2>1, <2>2
<1>2. BufferInv => CopiesStayInside
  BY DEF BufferInv
<1> QED BY BufferInitInv, <1>1, <1>2, PTL
-----------------------------------------------------------------------------
(* The shim's ReadFile.                                                    *)

LEMMA LesserOf ==
  ASSUME NEW a \in Nat, NEW b \in Nat
  PROVE  Min({a, b}) \in {a, b} /\ Min({a, b}) <= a /\ Min({a, b}) <= b
<1>1. \E x \in {a, b} : \A y \in {a, b} : x <= y
  OBVIOUS
<1> QED BY <1>1 DEF Min

ShimTypeOK == length \in Nat /\ atOpen \in Nat /\ taken \in Nat

(* A loop that goes on stands inside the file and inside the limit, and    *)
(* the file has only grown since fopen.                                    *)
StillReading ==
    outcome = "reading" => taken <= MaxMsgBytes /\ taken <= length /\ atOpen <= length

ShimInv == ShimTypeOK /\ StillReading /\ ReadFileIsWhole

(* A call that is not at its end says nothing of a file read.              *)
LEMMA NotRead ==
  ASSUME outcome' \notin {"read", "read too large"}
  PROVE  ReadFileIsWhole'
<1>1. outcome' # "read" /\ outcome' # "read too large"
  OBVIOUS
<1> QED BY <1>1, Zenon DEF ReadFileIsWhole

LEMMA ShimInitInv == ShimInit => ShimInv
<1> SUFFICES ASSUME ShimInit PROVE ShimInv
  OBVIOUS
<1>1. ShimTypeOK /\ StillReading
  BY ShimAssumption DEF ShimInit, ShimTypeOK, StillReading
<1>2. outcome # "read" /\ outcome # "read too large"
  BY DEF ShimInit
<1>3. ReadFileIsWhole
  BY <1>2, Zenon DEF ReadFileIsWhole
<1> QED BY <1>1, <1>3 DEF ShimInv

(* A call that does not read leaves the file and what was read alone.      *)
LEMMA ReturnsStep ==
  ASSUME ShimInv, NEW answer, Returns(answer),
         answer \notin {"reading", "read", "read too large"}
  PROVE  ShimInv'
<1>1. outcome' = answer /\ length' = length /\ atOpen' = atOpen /\ taken' = taken
  BY DEF Returns
<1>2. ShimTypeOK' /\ StillReading'
  BY <1>1 DEF ShimInv, ShimTypeOK, StillReading
<1>3. ReadFileIsWhole'
  BY <1>1, NotRead
<1> QED BY <1>2, <1>3 DEF ShimInv

LEMMA GateAnswers ==
  ASSUME NEW action, NEW name, NEW host, NEW answer \in Gate(action, name, host)
  PROVE  answer \in {"disabled", "denied"} \cup host
BY DEF Gate

LEMMA OtherCallsStep ==
  ASSUME ShimInv, NEW name, NEW n, Open(name) \/ Getenv(name) \/ WriteFile(name, n)
  PROVE  ShimInv'
<1> DEFINE Other == {"disabled", "denied", "ok", "error", "write too large"}
<1>1. \E answer \in Other : Returns(answer)
  <2>1. CASE Open(name)
    <3>1. PICK answer \in Gate("os.Open", name, {"ok", "error"}) : Returns(answer)
      BY <2>1 DEF Open
    <3>2. answer \in {"disabled", "denied"} \cup {"ok", "error"}
      BY GateAnswers
    <3> QED BY <3>1, <3>2
  <2>2. CASE Getenv(name)
    <3>1. CASE Returns("denied")
      BY <3>1
    <3>2. CASE \E answer \in Gate("os.Getenv", name, {"ok"}) : Returns(answer)
      <4>1. PICK answer \in Gate("os.Getenv", name, {"ok"}) : Returns(answer)
        BY <3>2
      <4>2. answer \in {"disabled", "denied"} \cup {"ok"}
        BY GateAnswers
      <4> QED BY <4>1, <4>2
    <3> QED BY <2>2, <3>1, <3>2 DEF Getenv
  <2>3. CASE WriteFile(name, n)
    <3>1. PICK answer \in Gate("os.Open", name, WriteFileHost(n)) : Returns(answer)
      BY <2>3 DEF WriteFile
    <3>2. answer \in {"disabled", "denied"} \cup WriteFileHost(n)
      BY GateAnswers
    <3> QED BY <3>1, <3>2 DEF WriteFileHost
  <2> QED BY <2>1, <2>2, <2>3
<1> QED BY <1>1, ReturnsStep

LEMMA ReadFileStep == ASSUME ShimInv, NEW name, ReadFile(name) PROVE ShimInv'
<1>1. outcome' \in Gate("os.Open", name, {"no such file", "reading"})
  BY DEF ReadFile
<1>2. outcome' \in {"disabled", "denied"} \cup {"no such file", "reading"}
  BY <1>1, GateAnswers
<1>3. /\ outcome' = "reading" => atOpen' = length
      /\ atOpen' = length \/ atOpen' = atOpen
      /\ taken' = 0 /\ length' = length
  BY DEF ReadFile
<1>4. length \in Nat /\ atOpen \in Nat /\ MaxMsgBytes \in Nat
  BY ShimAssumption DEF ShimInv, ShimTypeOK
<1>t. ShimTypeOK'
  BY <1>3, <1>4 DEF ShimTypeOK
<1>r. StillReading'
  BY <1>3, <1>4 DEF StillReading
<1>5. ReadFileIsWhole'
  BY <1>2, NotRead
<1> QED BY <1>t, <1>r, <1>5 DEF ShimInv

LEMMA FreadStep == ASSUME ShimInv, NEW n \in 0 .. ChunkBytes, Fread(n) PROVE ShimInv'
<1> DEFINE most == Min({ChunkBytes, length - taken})
<1>1. /\ ChunkBytes \in Nat /\ MaxMsgBytes \in Nat /\ n \in Nat
      /\ length \in Nat /\ atOpen \in Nat /\ taken \in Nat
      /\ taken <= length /\ atOpen <= length /\ taken <= MaxMsgBytes
  <2>1. outcome = "reading"
    BY DEF Fread
  <2> QED BY <2>1, ShimAssumption DEF ShimInv, ShimTypeOK, StillReading
<1>2. length' = length /\ atOpen' = atOpen /\ n <= most /\ failed' = (n < most)
  <2>1. n <= most /\ failed' = (n < most)
    BY Zenon DEF Fread
  <2>2. UNCHANGED <<system, length, atOpen>>
    BY Zenon DEF Fread
  <2>3. length' = length /\ atOpen' = atOpen
    BY <2>2
  <2> QED BY <2>1, <2>3, Zenon
<1>3. most \in {ChunkBytes, length - taken} /\ most <= ChunkBytes /\ most <= length - taken
  BY <1>1, LesserOf
<1> HIDE DEF most
<1>4. CASE n > 0 /\ TooLarge(n)
  <2>1. outcome' = "read too large" /\ taken' = taken
    BY <1>4, Zenon DEF Fread
  <2>2. ShimTypeOK' /\ StillReading' /\ outcome' # "read"
    BY <1>1, <1>2, <2>1 DEF ShimTypeOK, StillReading
  <2>3. length' > MaxMsgBytes
    <3>1. taken + n > MaxMsgBytes /\ n <= most /\ length' = length
      BY <1>2, <1>4 DEF TooLarge
    <3> QED BY <1>1, <1>3, <3>1
  <2>4. ReadFileIsWhole'
    BY <2>2, <2>3, Zenon DEF ReadFileIsWhole
  <2> QED BY <2>2, <2>4 DEF ShimInv
<1>5. CASE ~(n > 0 /\ TooLarge(n))
  <2>1. taken' = taken + n /\ outcome' = IF n < ChunkBytes THEN "read" ELSE "reading"
    BY <1>5, Zenon DEF Fread
  <2>2. outcome' # "read too large" /\ (outcome' = "read" => n < ChunkBytes)
    BY <2>1
  <2>3. length' = length /\ atOpen' = atOpen /\ n <= most
    BY <1>2
  <2>4. taken' \in Nat /\ taken' <= length /\ taken' <= MaxMsgBytes
    BY <1>1, <1>3, <1>5, <2>1, <2>3 DEF TooLarge
  <2>5. ShimTypeOK' /\ StillReading'
    BY <1>1, <2>3, <2>4 DEF ShimTypeOK, StillReading
  <2>6. n < ChunkBytes => n < most \/ taken' \in atOpen' .. length'
    BY <1>1, <1>3, <2>1, <2>3, <2>4
  <2>7. ReadFileIsWhole'
    BY <1>2, <2>2, <2>4, <2>6, Zenon DEF ReadFileIsWhole
  <2> QED BY <2>5, <2>7 DEF ShimInv
<1> QED BY <1>4, <1>5

LEMMA GrowStep == ASSUME ShimInv, Grow PROVE ShimInv'
<1>1. outcome' = "reading" /\ length' = length + 1 /\ atOpen' = atOpen /\ taken' = taken
      /\ outcome = "reading"
  BY DEF Grow
<1>2. ShimTypeOK' /\ StillReading'
  BY <1>1, ShimAssumption DEF ShimInv, ShimTypeOK, StillReading
<1>3. ReadFileIsWhole'
  BY <1>1, NotRead
<1> QED BY <1>2, <1>3 DEF ShimInv

(* A ReadFile that succeeds without an error of fread has all of the file  *)
(* as it was at fopen, one that refuses is right about the size, and no    *)
(* result exceeds kMaxMsgBytes: for every limit, chunk and length of file, *)
(* whatever is appended meanwhile and whatever the rules of the engine.    *)
THEOREM WholeFile == ShimInit /\ [][ShimNext]_shimVars => []ReadFileIsWhole
<1>1. ShimInv /\ [ShimNext]_shimVars => ShimInv'
  <2> SUFFICES ASSUME ShimInv, [ShimNext]_shimVars PROVE ShimInv'
    OBVIOUS
  <2>1. CASE ShimNext
    BY <2>1, OtherCallsStep, ReadFileStep, FreadStep, GrowStep DEF ShimNext
  <2>2. CASE UNCHANGED shimVars
    BY <2>2 DEF ShimInv, ShimTypeOK, StillReading, ReadFileIsWhole
  <2> QED BY <2>1, <2>2
<1>2. ShimInv => ReadFileIsWhole
  BY DEF ShimInv
<1> QED BY ShimInitInv, <1>1, <1>2, PTL

-----------------------------------------------------------------------------
(* Digits.                                                                 *)

LEMMA DivMod ==
  ASSUME NEW v \in Nat, NEW d \in Nat \ {0}
  PROVE  /\ v \div d \in Nat
         /\ v % d \in Nat /\ v % d < d
         /\ v = d * (v \div d) + (v % d)
OBVIOUS

LEMMA DivUnique ==
  ASSUME NEW q \in Nat, NEW r \in Nat, NEW d \in Nat \ {0}, r < d
  PROVE  (d * q + r) \div d = q
OBVIOUS

LEMMA MulPos == ASSUME NEW a \in Nat \ {0}, NEW b \in Nat \ {0} PROVE a * b \in Nat \ {0}
OBVIOUS

LEMMA DivDiv ==
  ASSUME NEW v \in Nat, NEW d \in Nat \ {0}, NEW c \in Nat \ {0}
  PROVE  v \div (d * c) = (v \div d) \div c
<1> DEFINE q == v \div d  r == v % d  q2 == q \div c  r2 == q % c
<1>1. q \in Nat /\ r \in Nat /\ r < d /\ v = d * q + r
  OBVIOUS
<1>2. q2 \in Nat /\ r2 \in Nat /\ r2 < c /\ q = c * q2 + r2
  <2> HIDE DEF q
  <2> QED BY <1>1
<1>3. d * c \in Nat \ {0}
  BY MulPos
<1> HIDE DEF q, r, q2, r2
<1>4. v = (d * c) * q2 + (d * r2 + r)
  BY <1>1, <1>2
<1>5. d * r2 + r \in Nat /\ d * r2 + r < d * c
  <2>1. d * r2 <= d * (c - 1) /\ d * r2 \in Nat
    BY <1>2
  <2>2. d * (c - 1) = d * c - d
    OBVIOUS
  <2> QED BY <2>1, <2>2, <1>1, <1>3
<1> DEFINE D == d * c  R == d * r2 + r
<1>6. (D * q2 + R) \div D = q2
  <2>1. D \in Nat \ {0} /\ R \in Nat /\ R < D
    BY <1>3, <1>5
  <2> HIDE DEF D, R
  <2> QED BY <1>2, <2>1, DivUnique
<1>7. v \div D = q2
  BY <1>4, <1>6
<1> QED BY <1>7 DEF q2, q

Square == Radix * Radix
Fourth == Radix * Radix * Radix * Radix

LEMMA RadixFacts ==
  /\ Radix \in Nat \ {0} /\ Radix >= 2 /\ Square \in Nat \ {0}
  /\ Fourth = Square * Square /\ Fourth \in Nat \ {0}
  /\ Byte \subseteq Nat /\ 1 \in Byte
<1>1. Radix \in Nat \ {0} /\ Radix >= 2
  BY MsgAssumption
<1>2. Square \in Nat \ {0}
  BY <1>1, MulPos DEF Square
<1>3. Fourth = Square * Square
  BY <1>1 DEF Square, Fourth
<1>4. Fourth \in Nat \ {0}
  BY <1>2, <1>3, MulPos
<1> QED BY <1>1, <1>2, <1>3, <1>4 DEF Byte

(* The values that GetU16 and GetU32 read.                                 *)
V16(a, b) == a + Radix * b
V32(a, b, c, d) == a + Radix * (b + Radix * (c + Radix * d))

LEMMA V16Facts ==
  ASSUME NEW a \in Byte, NEW b \in Byte
  PROVE  V16(a, b) \in Nat /\ V16(a, b) < Square
<1>1. a \in Nat /\ b \in Nat /\ a < Radix /\ b <= Radix - 1 /\ Radix \in Nat
  BY RadixFacts DEF Byte
<1>2. Radix * b <= Radix * (Radix - 1) /\ Radix * b \in Nat
  BY <1>1
<1>3. Radix * (Radix - 1) = Square - Radix /\ Square \in Nat
  BY <1>1 DEF Square
<1> QED BY <1>1, <1>2, <1>3 DEF V16

LEMMA V16Unique ==
  ASSUME NEW a \in Byte, NEW b \in Byte, NEW x \in Byte, NEW y \in Byte,
         V16(a, b) = V16(x, y)
  PROVE  a = x /\ b = y
<1>1. a \in Nat /\ b \in Nat /\ a < Radix /\ x \in Nat /\ y \in Nat /\ x < Radix
      /\ Radix \in Nat \ {0}
  BY RadixFacts DEF Byte
<1>2. (Radix * b + a) \div Radix = b /\ (Radix * y + x) \div Radix = y
  BY <1>1, DivUnique
<1>3. Radix * b + a = Radix * y + x
  BY <1>1 DEF V16
<1>4. b = y
  BY <1>2, <1>3
<1> QED BY <1>1, <1>3, <1>4

(* Four digits are two of two digits each, in base Square.                 *)
LEMMA V32Pairs ==
  ASSUME NEW a \in Byte, NEW b \in Byte, NEW c \in Byte, NEW d \in Byte
  PROVE  V32(a, b, c, d) = V16(a, b) + Square * V16(c, d)
<1>1. a \in Nat /\ b \in Nat /\ c \in Nat /\ d \in Nat /\ Radix \in Nat
  BY RadixFacts DEF Byte
<1> DEFINE w == c + Radix * d
<1>2. w \in Nat
  BY <1>1
<1>3. Radix * (b + Radix * w) = Radix * b + Radix * Radix * w
  <2> HIDE DEF w
  <2> QED BY <1>1, <1>2
<1>4. Radix * Radix * w \in Nat /\ Radix * b \in Nat
  <2> HIDE DEF w
  <2> QED BY <1>1, <1>2
<1> QED BY <1>1, <1>2, <1>3, <1>4 DEF V32, V16, Square

LEMMA V32Facts ==
  ASSUME NEW a \in Byte, NEW b \in Byte, NEW c \in Byte, NEW d \in Byte
  PROVE  V32(a, b, c, d) \in Nat /\ V32(a, b, c, d) < Fourth
<1> DEFINE u == V16(a, b)  w == V16(c, d)  S == Square
<1>1. u \in Nat /\ u < S /\ w \in Nat /\ w <= S - 1 /\ S \in Nat
  BY V16Facts, RadixFacts
<1>2. V32(a, b, c, d) = u + S * w /\ Fourth = S * S
  BY V32Pairs, RadixFacts
<1> HIDE DEF u, w, S
<1>3. S * w <= S * (S - 1) /\ S * w \in Nat
  BY <1>1
<1>4. S * (S - 1) = S * S - S /\ S * S \in Nat
  BY <1>1
<1> QED BY <1>1, <1>2, <1>3, <1>4

LEMMA PairUnique ==
  ASSUME NEW S \in Nat \ {0}, NEW u \in Nat, NEW w \in Nat, NEW p \in Nat, NEW q \in Nat,
         u < S, p < S, u + S * w = p + S * q
  PROVE  u = p /\ w = q
<1>1. (S * w + u) \div S = w /\ (S * q + p) \div S = q
  BY DivUnique
<1>2. S * w + u = S * q + p
  OBVIOUS
<1>3. w = q
  BY <1>1, <1>2
<1> QED BY <1>2, <1>3

(* What PutU16 and PutU32 write reads back.                                *)
LEMMA Put16 ==
  ASSUME NEW v \in Nat, v < Square
  PROVE  \E a, b \in Byte : PutU16(v) = <<a, b>> /\ V16(a, b) = v
<1> DEFINE R == Radix  q == v \div R  r == v % R
<1>1. R \in Nat \ {0}
  BY RadixFacts
<1>2. q \in Nat /\ r \in Nat /\ r < R /\ v = R * q + r
  BY <1>1, DivMod
<1>3. q < R
  <2> HIDE DEF q, r
  <2>0. v < R * R
    BY DEF Square
  <2> HIDE DEF R
  <2> SUFFICES ASSUME q >= R PROVE FALSE
    BY <1>1, <1>2
  <2>1. R * q >= R * R
    BY <1>1, <1>2
  <2> QED BY <1>1, <1>2, <2>0, <2>1
<1>4. q % R = q
  <2> HIDE DEF q, R
  <2> QED BY <1>1, <1>2, <1>3
<1>5. PutU16(v) = <<r, q>>
  BY <1>4 DEF PutU16
<1> HIDE DEF q, r
<1>6. r \in Byte /\ q \in Byte
  BY <1>1, <1>2, <1>3 DEF Byte
<1>7. V16(r, q) = v
  BY <1>1, <1>2 DEF V16
<1> QED BY <1>5, <1>6, <1>7

LEMMA Put32 ==
  ASSUME NEW v \in Nat, v < Fourth
  PROVE  \E a, b, c, d \in Byte : PutU32(v) = <<a, b, c, d>> /\ V32(a, b, c, d) = v
<1> DEFINE R == Radix  S == Square  q == v \div S  r == v % S
<1>1. R \in Nat \ {0} /\ S \in Nat \ {0} /\ Fourth = S * S
  BY RadixFacts
<1>2. q \in Nat /\ r \in Nat /\ r < S /\ v = S * q + r
  BY <1>1, DivMod
<1>3. q < S
  <2> HIDE DEF q, r, S
  <2> SUFFICES ASSUME q >= S PROVE FALSE
    BY <1>1, <1>2
  <2>1. S * q >= S * S
    BY <1>1, <1>2
  <2> QED BY <1>1, <1>2, <2>1
<1>4. PICK a, b \in Byte : PutU16(r) = <<a, b>> /\ V16(a, b) = r
  BY <1>2, Put16
<1>5. PICK c, d \in Byte : PutU16(q) = <<c, d>> /\ V16(c, d) = q
  BY <1>2, <1>3, Put16
<1>6. r % R = a /\ (r \div R) % R = b /\ q % R = c /\ (q \div R) % R = d
  BY <1>4, <1>5 DEF PutU16
<1>7. v % R = r % R /\ (v \div R) % R = (r \div R) % R
  <2> DEFINE x == r \div R  y == r % R
  <2>1. x \in Nat /\ y \in Nat /\ y < R /\ r = R * x + y
    <3> HIDE DEF r, R
    <3> QED BY <1>1, <1>2, DivMod
  <2>2. S = R * R
    BY DEF Square
  <2>3. R * q \in Nat /\ R * q + x \in Nat
    <3> HIDE DEF x, q
    <3> QED BY <1>1, <1>2, <2>1
  <2>4. v = R * (R * q + x) + y
    <3> HIDE DEF x, y, q, r
    <3>1. S * q = R * (R * q)
      BY <1>1, <1>2, <2>2
    <3> QED BY <1>1, <1>2, <2>1, <2>3, <3>1
  <2> DEFINE z == R * q + x
  <2>5. v \div R = z
    <3> HIDE DEF z, y, R
    <3> QED BY <1>1, <2>1, <2>3, <2>4, DivUnique DEF z
  <2>6. v % R = y
    <3>1. v = R * (v \div R) + (v % R) /\ v % R \in Nat
      BY <1>1, DivMod
    <3> HIDE DEF z, y, R
    <3> QED BY <1>1, <2>1, <2>3, <2>4, <2>5, <3>1 DEF z
  <2>7. z % R = x % R
    <3> DEFINE g == x \div R  h == x % R
    <3>1. g \in Nat /\ h \in Nat /\ h < R /\ x = R * g + h
      <4> HIDE DEF x, R
      <4> QED BY <1>1, <2>1, DivMod
    <3>2. z = R * (q + g) + h /\ q + g \in Nat
      <4> HIDE DEF x, g, h, q, R
      <4> QED BY <1>1, <1>2, <2>1, <3>1
    <3>3. z \div R = q + g /\ z \in Nat
      <4>1. (R * (q + g) + h) \div R = q + g
        <5> DEFINE e == q + g
        <5>1. e \in Nat
          BY <3>2
        <5> HIDE DEF g, h, q, R, e
        <5>2. (R * e + h) \div R = e
          BY <1>1, <3>1, <5>1, DivUnique
        <5> QED BY <5>2 DEF e
      <4> QED BY <2>3, <3>2, <4>1
    <3>4. z = R * (z \div R) + (z % R) /\ z % R \in Nat
      <4> HIDE DEF z, R
      <4> QED BY <1>1, <3>3, DivMod
    <3>5. z % R = h
      <4> HIDE DEF z, g, h, q, R
      <4> QED BY <1>1, <1>2, <3>1, <3>2, <3>3, <3>4
    <3> QED BY <3>5
  <2> QED BY <2>5, <2>6, <2>7
<1>8. v \div (R * R) = q
  BY DEF Square
<1>9. v \div (R * R * R) = q \div R
  <2>1. R * R \in Nat \ {0}
    BY <1>1 DEF Square
  <2>2. v \div (R * R * R) = (v \div (R * R)) \div R
    BY <1>1, <2>1, DivDiv
  <2> QED BY <1>8, <2>2
<1>10. PutU32(v) = <<a, b, c, d>>
  BY <1>6, <1>7, <1>8, <1>9 DEF PutU32
<1>11. V32(a, b, c, d) = v
  <2>1. V32(a, b, c, d) = r + S * q
    BY <1>4, <1>5, V32Pairs
  <2> HIDE DEF r, S, q
  <2> QED BY <1>1, <1>2, <2>1
<1> QED BY <1>10, <1>11

-----------------------------------------------------------------------------
(* The layout of a frame: where the parts of a message lie in its bytes.   *)

Word16(s, i) == V16(s[i], s[i + 1])
Word32(s, i) == V32(s[i], s[i + 1], s[i + 2], s[i + 3])

Layout(s, f, t, id, p) ==
    /\ Len(s) = 13 + Len(f) + Len(t) + Len(p)
    /\ s[1] = 1
    /\ Word16(s, 2) = Len(f)
    /\ \A k \in 1 .. Len(f) : s[3 + k] = f[k]
    /\ Word16(s, Len(f) + 4) = Len(t)
    /\ \A k \in 1 .. Len(t) : s[Len(f) + 5 + k] = t[k]
    /\ Word32(s, Len(f) + Len(t) + 6) = id
    /\ Word32(s, Len(f) + Len(t) + 10) = Len(p)
    /\ \A k \in 1 .. Len(p) : s[Len(f) + Len(t) + 13 + k] = p[k]

LEMMA BytesAt ==
  ASSUME NEW s \in Seq(Byte), NEW i \in 1 .. Len(s)
  PROVE  s[i] \in Byte
OBVIOUS

LEMMA SameWord16 ==
  ASSUME NEW s \in Seq(Byte), NEW r \in Seq(Byte), Len(r) = Len(s),
         NEW i \in Nat, i >= 1, i + 1 <= Len(s), Word16(s, i) = Word16(r, i)
  PROVE  s[i] = r[i] /\ s[i + 1] = r[i + 1]
<1>1. i \in 1 .. Len(s) /\ i + 1 \in 1 .. Len(s)
  OBVIOUS
<1>2. s[i] \in Byte /\ s[i + 1] \in Byte /\ r[i] \in Byte /\ r[i + 1] \in Byte
  BY <1>1, BytesAt
<1>3. V16(s[i], s[i + 1]) = V16(r[i], r[i + 1])
  BY DEF Word16
<1> QED BY <1>2, <1>3, V16Unique

LEMMA SameWord32 ==
  ASSUME NEW s \in Seq(Byte), NEW r \in Seq(Byte), Len(r) = Len(s),
         NEW i \in Nat, i >= 1, i + 3 <= Len(s), Word32(s, i) = Word32(r, i)
  PROVE  \A j \in i .. i + 3 : s[j] = r[j]
<1>1. /\ i \in 1 .. Len(s) /\ i + 1 \in 1 .. Len(s) /\ i + 2 \in 1 .. Len(s) /\ i + 3 \in 1 .. Len(s)
      /\ (i + 2) + 1 = i + 3
  OBVIOUS
<1>2. ASSUME NEW x \in Seq(Byte), Len(x) = Len(s)
      PROVE  /\ Word32(x, i) = Word16(x, i) + Square * Word16(x, i + 2)
             /\ Word16(x, i) \in Nat /\ Word16(x, i) < Square /\ Word16(x, i + 2) \in Nat
  <2>1. x[i] \in Byte /\ x[i + 1] \in Byte /\ x[i + 2] \in Byte /\ x[i + 3] \in Byte
    BY <1>1, <1>2, BytesAt
  <2>2. Word16(x, i) = V16(x[i], x[i + 1]) /\ Word16(x, i + 2) = V16(x[i + 2], x[i + 3])
    BY <1>1 DEF Word16
  <2>3. /\ V16(x[i], x[i + 1]) \in Nat /\ V16(x[i], x[i + 1]) < Square
        /\ V16(x[i + 2], x[i + 3]) \in Nat
    BY <2>1, V16Facts
  <2>4. V32(x[i], x[i + 1], x[i + 2], x[i + 3])
          = V16(x[i], x[i + 1]) + Square * V16(x[i + 2], x[i + 3])
    <3> DEFINE a == x[i]  b == x[i + 1]  c == x[i + 2]  d == x[i + 3]
    <3>1. a \in Byte /\ b \in Byte /\ c \in Byte /\ d \in Byte
      BY <2>1
    <3> HIDE DEF a, b, c, d
    <3>2. V32(a, b, c, d) = V16(a, b) + Square * V16(c, d)
      BY <3>1, V32Pairs
    <3> QED BY <3>2, Zenon DEF a, b, c, d
  <2> QED BY <2>2, <2>3, <2>4 DEF Word32
<1>3. Word16(s, i) = Word16(r, i) /\ Word16(s, i + 2) = Word16(r, i + 2)
  <2> DEFINE u == Word16(s, i)  w == Word16(s, i + 2)  p == Word16(r, i)  q == Word16(r, i + 2)
  <2>1. u \in Nat /\ w \in Nat /\ p \in Nat /\ q \in Nat /\ u < Square /\ p < Square
    BY <1>2
  <2>2. u + Square * w = p + Square * q
    <3>1. Word32(s, i) = u + Square * w /\ Word32(r, i) = p + Square * q
      BY <1>2
    <3> QED BY <3>1
  <2>3. Square \in Nat \ {0}
    BY RadixFacts
  <2> HIDE DEF u, w, p, q
  <2>4. u = p /\ w = q
    BY <2>1, <2>2, <2>3, PairUnique
  <2> QED BY <2>4 DEF u, w, p, q
<1>4. s[i] = r[i] /\ s[i + 1] = r[i + 1]
  BY <1>1, <1>3, SameWord16
<1>5. s[i + 2] = r[i + 2] /\ s[i + 3] = r[i + 3]
  <2>1. i + 2 \in Nat /\ i + 2 >= 1 /\ (i + 2) + 1 <= Len(s)
    BY <1>1
  <2>2. s[i + 2] = r[i + 2] /\ s[(i + 2) + 1] = r[(i + 2) + 1]
    BY <1>3, <2>1, SameWord16
  <2> QED BY <1>1, <2>2
<1>6. \A j \in i .. i + 3 : j = i \/ j = i + 1 \/ j = i + 2 \/ j = i + 3
  OBVIOUS
<1> QED BY <1>4, <1>5, <1>6

(* A message has one frame.                                                *)
LEMMA LayoutUnique ==
  ASSUME NEW s \in Seq(Byte), NEW r \in Seq(Byte), NEW id,
         NEW f \in Seq(Byte), NEW t \in Seq(Byte), NEW p \in Seq(Byte),
         Layout(s, f, t, id, p), Layout(r, f, t, id, p)
  PROVE  s = r
<1> DEFINE a == Len(f)  b == Len(t)  c == Len(p)  n == Len(s)
<1>1. a \in Nat /\ b \in Nat /\ c \in Nat /\ n = 13 + a + b + c /\ Len(r) = n
  BY DEF Layout
<1>2. s[1] = r[1]
  BY DEF Layout
<1>3. s[2] = r[2] /\ s[3] = r[3]
  <2>1. Word16(s, 2) = Word16(r, 2)
    BY DEF Layout
  <2>2. 2 \in Nat /\ 2 >= 1 /\ 2 + 1 <= Len(s)
    BY <1>1
  <2>3. s[2] = r[2] /\ s[2 + 1] = r[2 + 1]
    BY <1>1, <2>1, <2>2, SameWord16
  <2> QED BY <2>3
<1>4. \A k \in 1 .. a : s[3 + k] = r[3 + k]
  BY DEF Layout
<1>5. s[a + 4] = r[a + 4] /\ s[a + 5] = r[a + 5]
  <2>1. Word16(s, a + 4) = Word16(r, a + 4)
    BY DEF Layout
  <2>2. a + 4 \in Nat /\ a + 4 >= 1 /\ (a + 4) + 1 <= Len(s) /\ (a + 4) + 1 = a + 5
    BY <1>1
  <2>3. s[a + 4] = r[a + 4] /\ s[(a + 4) + 1] = r[(a + 4) + 1]
    BY <1>1, <2>1, <2>2, SameWord16
  <2> QED BY <2>2, <2>3
<1>6. \A k \in 1 .. b : s[a + 5 + k] = r[a + 5 + k]
  BY DEF Layout
<1>7. \A j \in a + b + 6 .. a + b + 13 : s[j] = r[j]
  <2>1. Word32(s, a + b + 6) = Word32(r, a + b + 6) /\ Word32(s, a + b + 10) = Word32(r, a + b + 10)
    BY DEF Layout
  <2>2. /\ a + b + 6 \in Nat /\ a + b + 6 >= 1 /\ (a + b + 6) + 3 <= Len(s)
        /\ a + b + 10 \in Nat /\ a + b + 10 >= 1 /\ (a + b + 10) + 3 <= Len(s)
    BY <1>1
  <2> DEFINE u == a + b + 6  v == a + b + 10
  <2>3. /\ u \in Nat /\ u >= 1 /\ u + 3 <= Len(s) /\ Word32(s, u) = Word32(r, u)
        /\ v \in Nat /\ v >= 1 /\ v + 3 <= Len(s) /\ Word32(s, v) = Word32(r, v)
    BY <2>1, <2>2
  <2>4. v = u + 4 /\ u .. v + 3 = a + b + 6 .. a + b + 13 /\ Len(r) = Len(s)
    BY <1>1
  <2> HIDE DEF a, b, c, n, u, v
  <2>5. \A j \in u .. u + 3 : s[j] = r[j]
    BY <2>3, <2>4, SameWord32
  <2>6. \A j \in v .. v + 3 : s[j] = r[j]
    BY <2>3, <2>4, SameWord32
  <2>7. ASSUME NEW j \in u .. v + 3
        PROVE  j \in u .. u + 3 \/ j \in v .. v + 3
    BY <2>3, <2>4
  <2>8. \A j \in u .. v + 3 : s[j] = r[j]
    BY <2>5, <2>6, <2>7, Zenon
  <2> QED BY <2>4, <2>8, Zenon
<1>8. \A k \in 1 .. c : s[a + b + 13 + k] = r[a + b + 13 + k]
  BY DEF Layout
<1> HIDE DEF a, b, c, n
<1>9. ASSUME NEW i \in 1 .. n PROVE s[i] = r[i]
  <2>1. \/ i = 1 \/ i = 2 \/ i = 3
        \/ i - 3 \in 1 .. a /\ i = 3 + (i - 3)
        \/ i = a + 4 \/ i = a + 5
        \/ i - (a + 5) \in 1 .. b /\ i = a + 5 + (i - (a + 5))
        \/ i \in a + b + 6 .. a + b + 13
        \/ i - (a + b + 13) \in 1 .. c /\ i = a + b + 13 + (i - (a + b + 13))
    BY <1>1
  <2> QED BY <1>2, <1>3, <1>4, <1>5, <1>6, <1>7, <1>8, <2>1
<1> QED BY <1>1, <1>9, SeqEqual DEF n

-----------------------------------------------------------------------------
(* Encode lays a message out so.                                           *)

LEMMA Halves ==
  ASSUME NEW s \in Seq(Byte), NEW t \in Seq(Byte)
  PROVE  /\ s \o t \in Seq(Byte) /\ Len(s \o t) = Len(s) + Len(t)
         /\ \A i \in 1 .. Len(s) : (s \o t)[i] = s[i]
         /\ \A i \in 1 .. Len(t) : (s \o t)[Len(s) + i] = t[i]
<1>1. /\ s \o t \in Seq(Byte) /\ Len(s \o t) = Len(s) + Len(t)
      /\ \A i \in 1 .. Len(s) + Len(t) :
             (s \o t)[i] = IF i <= Len(s) THEN s[i] ELSE t[i - Len(s)]
  BY ConcatProperties
<1>2. Len(s) \in Nat /\ Len(t) \in Nat
  OBVIOUS
<1>3. ASSUME NEW i \in 1 .. Len(s) PROVE (s \o t)[i] = s[i]
  BY <1>1, <1>2
<1>4. ASSUME NEW i \in 1 .. Len(t) PROVE (s \o t)[Len(s) + i] = t[i]
  <2>1. Len(s) + i \in 1 .. Len(s) + Len(t) /\ ~(Len(s) + i <= Len(s)) /\ Len(s) + i - Len(s) = i
    BY <1>2
  <2> QED BY <1>1, <2>1
<1> QED BY <1>1, <1>3, <1>4

(* One more part behind a frame: what is there stays where it is.          *)
Behind(s, n, t, u) ==
    /\ u \in Seq(Byte) /\ Len(u) = n + Len(t)
    /\ \A i \in 1 .. n : u[i] = s[i]
    /\ \A i \in 1 .. Len(t) : u[n + i] = t[i]

LEMMA Extend ==
  ASSUME NEW s \in Seq(Byte), NEW t \in Seq(Byte), NEW n, Len(s) = n
  PROVE  Behind(s, n, t, s \o t)
BY Halves DEF Behind

LEMMA Short ==
  /\ <<1>> \in Seq(Byte) /\ Len(<<1>>) = 1 /\ <<1>>[1] = 1
  /\ \A a, b \in Byte :
        /\ <<a, b>> \in Seq(Byte) /\ Len(<<a, b>>) = 2
        /\ <<a, b>>[1] = a /\ <<a, b>>[2] = b
  /\ \A a, b, c, d \in Byte :
        /\ <<a, b, c, d>> \in Seq(Byte) /\ Len(<<a, b, c, d>>) = 4
        /\ <<a, b, c, d>>[1] = a /\ <<a, b, c, d>>[2] = b
        /\ <<a, b, c, d>>[3] = c /\ <<a, b, c, d>>[4] = d
BY RadixFacts

(* PutU16 and PutU32 as sequences of bytes.                                *)
LEMMA PutSeq16 ==
  ASSUME NEW v \in Nat, v < Square
  PROVE  PutU16(v) \in Seq(Byte) /\ Len(PutU16(v)) = 2 /\ Word16(PutU16(v), 1) = v
<1>1. PICK a, b \in Byte : PutU16(v) = <<a, b>> /\ V16(a, b) = v
  BY Put16
<1> DEFINE w == PutU16(v)
<1>2. w \in Seq(Byte) /\ Len(w) = 2 /\ w[1] = a /\ w[2] = b
  BY <1>1, Short
<1> HIDE DEF w
<1>3. Word16(w, 1) = V16(a, b)
  <2>1. Word16(w, 1) = V16(w[1], w[2])
    BY DEF Word16
  <2> QED BY <1>2, <2>1
<1> QED BY <1>1, <1>2, <1>3 DEF w

LEMMA PutSeq32 ==
  ASSUME NEW v \in Nat, v < Fourth
  PROVE  PutU32(v) \in Seq(Byte) /\ Len(PutU32(v)) = 4 /\ Word32(PutU32(v), 1) = v
<1>1. PICK a, b, c, d \in Byte : PutU32(v) = <<a, b, c, d>> /\ V32(a, b, c, d) = v
  BY Put32
<1> DEFINE w == PutU32(v)
<1>2. w \in Seq(Byte) /\ Len(w) = 4 /\ w[1] = a /\ w[2] = b /\ w[3] = c /\ w[4] = d
  BY <1>1, Short
<1> HIDE DEF w
<1>3. Word32(w, 1) = V32(a, b, c, d)
  <2>1. Word32(w, 1) = V32(w[1], w[2], w[3], w[4])
    BY DEF Word32
  <2> QED BY <1>2, <2>1
<1> QED BY <1>1, <1>2, <1>3 DEF w

Framed(f, t, id, p) ==
    <<1>> \o PutU16(Len(f)) \o f \o PutU16(Len(t)) \o t
    \o PutU32(id) \o PutU32(Len(p)) \o p

LEMMA FramedLayout ==
  ASSUME NEW f \in Seq(Byte), NEW t \in Seq(Byte), NEW p \in Seq(Byte), NEW id \in Nat,
         Len(f) < Square, Len(t) < Square, id < Fourth, Len(p) < Fourth
  PROVE  Framed(f, t, id, p) \in Seq(Byte) /\ Layout(Framed(f, t, id, p), f, t, id, p)
<1> DEFINE a == Len(f)  b == Len(t)  c == Len(p)
           one == <<1>>
           wf == PutU16(a)  wt == PutU16(b)  wi == PutU32(id)  wp == PutU32(c)
           s1 == one \o wf  s2 == s1 \o f  s3 == s2 \o wt  s4 == s3 \o t
           s5 == s4 \o wi  s6 == s5 \o wp  s7 == s6 \o p
<1>0. a \in Nat /\ b \in Nat /\ c \in Nat
  OBVIOUS
<1>1. /\ one \in Seq(Byte) /\ Len(one) = 1 /\ one[1] = 1
      /\ wf \in Seq(Byte) /\ Len(wf) = 2 /\ Word16(wf, 1) = a
      /\ wt \in Seq(Byte) /\ Len(wt) = 2 /\ Word16(wt, 1) = b
      /\ wi \in Seq(Byte) /\ Len(wi) = 4 /\ Word32(wi, 1) = id
      /\ wp \in Seq(Byte) /\ Len(wp) = 4 /\ Word32(wp, 1) = c
  BY <1>0, Short, PutSeq16, PutSeq32
<1>2. s7 = Framed(f, t, id, p)
  BY Zenon DEF Framed
<1> HIDE DEF one, wf, wt, wi, wp
<1>3. Behind(one, 1, wf, s1)
  BY <1>1, Extend
<1>4. s1 \in Seq(Byte) /\ Len(s1) = 3
  BY <1>1, <1>3 DEF Behind
<1> HIDE DEF s1
<1>5. Behind(s1, 3, f, s2)
  BY <1>4, Extend
<1>6. s2 \in Seq(Byte) /\ Len(s2) = a + 3
  BY <1>5, <1>0 DEF Behind
<1> HIDE DEF s2
<1>7. Behind(s2, a + 3, wt, s3)
  BY <1>1, <1>6, Extend
<1>8. s3 \in Seq(Byte) /\ Len(s3) = a + 5
  BY <1>0, <1>1, <1>7 DEF Behind
<1> HIDE DEF s3
<1>9. Behind(s3, a + 5, t, s4)
  BY <1>8, Extend
<1>10. s4 \in Seq(Byte) /\ Len(s4) = a + b + 5
  BY <1>0, <1>9 DEF Behind
<1> HIDE DEF s4
<1>11. Behind(s4, a + b + 5, wi, s5)
  BY <1>1, <1>10, Extend
<1>12. s5 \in Seq(Byte) /\ Len(s5) = a + b + 9
  BY <1>0, <1>1, <1>11 DEF Behind
<1> HIDE DEF s5
<1>13. Behind(s5, a + b + 9, wp, s6)
  BY <1>1, <1>12, Extend
<1>14. s6 \in Seq(Byte) /\ Len(s6) = a + b + 13
  BY <1>0, <1>1, <1>13 DEF Behind
<1> HIDE DEF s6
<1>15. Behind(s6, a + b + 13, p, s7)
  BY <1>14, Extend
<1> HIDE DEF s7
<1>16. s7 \in Seq(Byte) /\ Len(s7) = 13 + a + b + c
  BY <1>0, <1>15 DEF Behind
<1>17. \A i \in 1 .. a + b + 13 : s7[i] = s6[i]
  BY <1>15 DEF Behind
<1>18. \A i \in 1 .. a + b + 9 : s7[i] = s5[i]
  BY <1>0, <1>13, <1>17 DEF Behind
<1>19. \A i \in 1 .. a + b + 5 : s7[i] = s4[i]
  BY <1>0, <1>11, <1>18 DEF Behind
<1>20. \A i \in 1 .. a + 5 : s7[i] = s3[i]
  BY <1>0, <1>9, <1>19 DEF Behind
<1>21. \A i \in 1 .. a + 3 : s7[i] = s2[i]
  BY <1>0, <1>7, <1>20 DEF Behind
<1>22. \A i \in 1 .. 3 : s7[i] = s1[i]
  BY <1>0, <1>5, <1>21 DEF Behind
<1>23. s7[1] = 1
  BY <1>1, <1>3, <1>22 DEF Behind
<1>24. Word16(s7, 2) = a
  <2>1. s1[1 + 1] = wf[1] /\ s1[1 + 2] = wf[2]
    BY <1>1, <1>3 DEF Behind
  <2>2. s7[2] = wf[1] /\ s7[3] = wf[2]
    BY <1>22, <2>1
  <2> HIDE DEF a
  <2> QED BY <1>1, <2>2 DEF Word16
<1>25. \A k \in 1 .. a : s7[3 + k] = f[k]
  <2> TAKE k \in 1 .. a
  <2>1. s2[3 + k] = f[k]
    BY <1>5 DEF Behind
  <2> QED BY <1>0, <1>21, <2>1
<1>26. Word16(s7, a + 4) = b
  <2>1. s3[a + 3 + 1] = wt[1] /\ s3[a + 3 + 2] = wt[2]
    BY <1>1, <1>7 DEF Behind
  <2> HIDE DEF a, b
  <2>2. s7[a + 4] = wt[1] /\ s7[a + 4 + 1] = wt[2]
    BY <1>0, <1>20, <2>1
  <2> QED BY <1>1, <2>2 DEF Word16
<1>27. \A k \in 1 .. b : s7[a + 5 + k] = t[k]
  <2> TAKE k \in 1 .. b
  <2>1. s4[a + 5 + k] = t[k]
    BY <1>9 DEF Behind
  <2> QED BY <1>0, <1>19, <2>1
<1>28. Word32(s7, a + b + 6) = id
  <2>1. /\ s5[a + b + 5 + 1] = wi[1] /\ s5[a + b + 5 + 2] = wi[2]
        /\ s5[a + b + 5 + 3] = wi[3] /\ s5[a + b + 5 + 4] = wi[4]
    BY <1>1, <1>11 DEF Behind
  <2> HIDE DEF a, b
  <2>2. /\ a + b + 6 \in 1 .. a + b + 9 /\ a + b + 7 \in 1 .. a + b + 9
        /\ a + b + 8 \in 1 .. a + b + 9 /\ a + b + 9 \in 1 .. a + b + 9
        /\ a + b + 5 + 1 = a + b + 6 /\ a + b + 5 + 2 = a + b + 7
        /\ a + b + 5 + 3 = a + b + 8 /\ a + b + 5 + 4 = a + b + 9
        /\ a + b + 6 + 1 = a + b + 7 /\ a + b + 6 + 2 = a + b + 8 /\ a + b + 6 + 3 = a + b + 9
    BY <1>0
  <2>3. /\ s7[a + b + 6] = wi[1] /\ s7[a + b + 7] = wi[2]
        /\ s7[a + b + 8] = wi[3] /\ s7[a + b + 9] = wi[4]
    BY <1>18, <2>1, <2>2
  <2>4. Word32(s7, a + b + 6) = V32(s7[a + b + 6], s7[a + b + 7], s7[a + b + 8], s7[a + b + 9])
    BY <2>2 DEF Word32
  <2> QED BY <1>1, <2>3, <2>4 DEF Word32
<1>29. Word32(s7, a + b + 10) = c
  <2>1. /\ s6[a + b + 9 + 1] = wp[1] /\ s6[a + b + 9 + 2] = wp[2]
        /\ s6[a + b + 9 + 3] = wp[3] /\ s6[a + b + 9 + 4] = wp[4]
    BY <1>1, <1>13 DEF Behind
  <2> HIDE DEF a, b, c
  <2>2. /\ a + b + 10 \in 1 .. a + b + 13 /\ a + b + 11 \in 1 .. a + b + 13
        /\ a + b + 12 \in 1 .. a + b + 13 /\ a + b + 13 \in 1 .. a + b + 13
        /\ a + b + 9 + 1 = a + b + 10 /\ a + b + 9 + 2 = a + b + 11
        /\ a + b + 9 + 3 = a + b + 12 /\ a + b + 9 + 4 = a + b + 13
        /\ a + b + 10 + 1 = a + b + 11 /\ a + b + 10 + 2 = a + b + 12
        /\ a + b + 10 + 3 = a + b + 13
    BY <1>0
  <2>3. /\ s7[a + b + 10] = wp[1] /\ s7[a + b + 11] = wp[2]
        /\ s7[a + b + 12] = wp[3] /\ s7[a + b + 13] = wp[4]
    BY <1>17, <2>1, <2>2
  <2>4. Word32(s7, a + b + 10)
          = V32(s7[a + b + 10], s7[a + b + 11], s7[a + b + 12], s7[a + b + 13])
    BY <2>2 DEF Word32
  <2> QED BY <1>1, <2>3, <2>4 DEF Word32
<1>30. \A k \in 1 .. c : s7[a + b + 13 + k] = p[k]
  BY <1>15 DEF Behind
<1>31. Layout(s7, f, t, id, p)
  BY <1>16, <1>23, <1>24, <1>25, <1>26, <1>27, <1>28, <1>29, <1>30 DEF Layout
<1> QED BY <1>2, <1>16, <1>31

-----------------------------------------------------------------------------
(* Decode reads a layout, and accepts nothing else.                        *)

LEMMA Got16 ==
  ASSUME NEW s \in Seq(Byte), NEW i \in Nat
  PROVE  /\ GetU16(s, i).i \in Nat
         /\ i # 0 /\ i + 1 <= Len(s) => GetU16(s, i).i = i + 2 /\ GetU16(s, i).v = Word16(s, i)
         /\ GetU16(s, i).i # 0 => i # 0 /\ i + 1 <= Len(s)
<1>0. Len(s) \in Nat
  OBVIOUS
<1>1. CASE i = 0 \/ i + 1 > Len(s)
  <2>1. GetU16(s, i) = [v |-> 0, i |-> 0]
    BY <1>1 DEF GetU16
  <2> QED BY <1>0, <1>1, <2>1
<1>2. CASE ~(i = 0 \/ i + 1 > Len(s))
  <2>1. GetU16(s, i) = [v |-> Word16(s, i), i |-> i + 2]
    BY <1>2 DEF GetU16, Word16, V16
  <2> QED BY <1>0, <1>2, <2>1
<1> QED BY <1>1, <1>2

LEMMA Got32 ==
  ASSUME NEW s \in Seq(Byte), NEW i \in Nat
  PROVE  /\ GetU32(s, i).i \in Nat
         /\ i # 0 /\ i + 3 <= Len(s) => GetU32(s, i).i = i + 4 /\ GetU32(s, i).v = Word32(s, i)
         /\ GetU32(s, i).i # 0 => i # 0 /\ i + 3 <= Len(s)
<1>0. Len(s) \in Nat
  OBVIOUS
<1>1. CASE i = 0 \/ i + 3 > Len(s)
  <2>1. GetU32(s, i) = [v |-> 0, i |-> 0]
    BY <1>1 DEF GetU32
  <2> QED BY <1>0, <1>1, <2>1
<1>2. CASE ~(i = 0 \/ i + 3 > Len(s))
  <2>1. GetU32(s, i) = [v |-> Word32(s, i), i |-> i + 4]
    BY <1>2 DEF GetU32, Word32, V32
  <2> QED BY <1>0, <1>2, <2>1
<1> QED BY <1>1, <1>2

(* n bytes of s from the i-th on.                                          *)
Piece(s, i, n, t) ==
    t \in Seq(Byte) /\ Len(t) = n /\ \A k \in 1 .. n : t[k] = s[i + k - 1]

LEMMA SubSeqPiece ==
  ASSUME NEW s \in Seq(Byte), NEW i \in Nat \ {0}, NEW n \in Nat, i + n - 1 <= Len(s)
  PROVE  Piece(s, i, n, SubSeq(s, i, i + n - 1))
<1> DEFINE t == SubSeq(s, i, i + n - 1)
<1>1. \A j \in i .. i + n - 1 : s[j] \in Byte
  OBVIOUS
<1>2. /\ t \in Seq(Byte)
      /\ Len(t) = IF i <= i + n - 1 THEN (i + n - 1) - i + 1 ELSE 0
      /\ \A k \in 1 .. (i + n - 1) - i + 1 : t[k] = s[i + k - 1]
  BY <1>1, SubSeqProperties
<1>3. (i + n - 1) - i + 1 = n /\ (IF i <= i + n - 1 THEN (i + n - 1) - i + 1 ELSE 0) = n
  OBVIOUS
<1> QED BY <1>2, <1>3 DEF Piece

LEMMA PieceUnique ==
  ASSUME NEW s, NEW i, NEW n, NEW t, NEW u, Piece(s, i, n, t), Piece(s, i, n, u)
  PROVE  t = u
<1>1. t \in Seq(Byte) /\ u \in Seq(Byte) /\ Len(t) = Len(u) /\ \A k \in 1 .. Len(t) : t[k] = u[k]
  BY DEF Piece
<1> QED BY <1>1, SeqEqual

LEMMA GotBytes ==
  ASSUME NEW s \in Seq(Byte), NEW i \in Nat, NEW n \in Nat
  PROVE  /\ GetBytes(s, i, n).i \in Nat
         /\ i # 0 /\ i + n - 1 <= Len(s) =>
               GetBytes(s, i, n).i = i + n /\ Piece(s, i, n, GetBytes(s, i, n).v)
         /\ GetBytes(s, i, n).i # 0 => i # 0 /\ i + n - 1 <= Len(s)
<1>0. Len(s) \in Nat
  OBVIOUS
<1>1. CASE i = 0 \/ i + n - 1 > Len(s)
  <2>1. GetBytes(s, i, n) = [v |-> <<>>, i |-> 0]
    BY <1>1 DEF GetBytes
  <2> QED BY <1>0, <1>1, <2>1
<1>2. CASE ~(i = 0 \/ i + n - 1 > Len(s))
  <2> DEFINE t == SubSeq(s, i, i + n - 1)
  <2>1. GetBytes(s, i, n) = [v |-> t, i |-> i + n]
    BY <1>2 DEF GetBytes
  <2>2. Piece(s, i, n, t)
    BY <1>0, <1>2, SubSeqPiece
  <2> HIDE DEF t
  <2> QED BY <1>0, <1>2, <2>1, <2>2
<1> QED BY <1>1, <1>2

LEMMA GotPiece ==
  ASSUME NEW s \in Seq(Byte), NEW i \in Nat, NEW n \in Nat, i # 0, i + n - 1 <= Len(s)
  PROVE  GetBytes(s, i, n).i = i + n /\ Piece(s, i, n, GetBytes(s, i, n).v)
BY GotBytes

LEMMA Words16 ==
  ASSUME NEW s \in Seq(Byte), NEW i \in Nat, i # 0, i + 1 <= Len(s)
  PROVE  Word16(s, i) \in Nat /\ Word16(s, i) < Square
<1>1. i \in 1 .. Len(s) /\ i + 1 \in 1 .. Len(s)
  OBVIOUS
<1>2. s[i] \in Byte /\ s[i + 1] \in Byte
  BY <1>1, BytesAt
<1> QED BY <1>2, V16Facts DEF Word16

LEMMA Words32 ==
  ASSUME NEW s \in Seq(Byte), NEW i \in Nat, i # 0, i + 3 <= Len(s)
  PROVE  Word32(s, i) \in Nat /\ Word32(s, i) < Fourth
<1>1. i \in 1 .. Len(s) /\ i + 1 \in 1 .. Len(s) /\ i + 2 \in 1 .. Len(s) /\ i + 3 \in 1 .. Len(s)
  OBVIOUS
<1>2. s[i] \in Byte /\ s[i + 1] \in Byte /\ s[i + 2] \in Byte /\ s[i + 3] \in Byte
  BY <1>1, BytesAt
<1> QED BY <1>2, V32Facts DEF Word32

(* The reader's steps, named.                                              *)
D1(s) == GetU16(s, 2)
D2(s) == GetBytes(s, D1(s).i, D1(s).v)
D3(s) == GetU16(s, D2(s).i)
D4(s) == GetBytes(s, D3(s).i, D3(s).v)
D5(s) == GetU32(s, D4(s).i)
D6(s) == GetU32(s, D5(s).i)
D7(s) == GetBytes(s, D6(s).i, D6(s).v)
Accepted(s) == /\ Len(s) >= 1 /\ s[1] = 1
               /\ D6(s).v <= MaxPayloadBytes
               /\ D7(s).i = Len(s) + 1

LEMMA DecodeForm ==
  ASSUME NEW s
  PROVE  Decode(s) = IF Accepted(s)
                     THEN [from |-> D2(s).v, topic |-> D4(s).v, id |-> D5(s).v, payload |-> D7(s).v]
                     ELSE NoMsg
BY Zenon DEF Decode, Accepted, D1, D2, D3, D4, D5, D6, D7

Decoded(s, f, t, id, p) ==
    /\ f \in Seq(Byte) /\ t \in Seq(Byte) /\ p \in Seq(Byte) /\ id \in Nat
    /\ Len(f) < Square /\ Len(t) < Square /\ id < Fourth /\ Len(p) <= MaxPayloadBytes
    /\ Layout(s, f, t, id, p)

(* How the first reads go as long as there are bytes for them.             *)
LEMMA AcceptedIsLayout ==
  ASSUME NEW s \in Seq(Byte), Accepted(s)
  PROVE  Decoded(s, D2(s).v, D4(s).v, D5(s).v, D7(s).v)
<1> DEFINE n == Len(s)
           f == D2(s).v  t == D4(s).v  id == D5(s).v  p == D7(s).v
           i2 == D1(s).i  a == D1(s).v  i3 == D2(s).i  i4 == D3(s).i  b == D3(s).v
           i5 == D4(s).i  i6 == D5(s).i  i7 == D6(s).i  c == D6(s).v  i8 == D7(s).i
<1>0. n \in Nat /\ 2 \in Nat /\ i8 = n + 1 /\ i8 # 0 /\ s[1] = 1 /\ c <= MaxPayloadBytes
  BY DEF Accepted
<1>1. /\ i2 \in Nat /\ (2 # 0 /\ 2 + 1 <= n => i2 = 2 + 2 /\ a = Word16(s, 2))
      /\ (i2 # 0 => 2 # 0 /\ 2 + 1 <= n)
  BY <1>0, Got16 DEF D1
<1>2. a \in Nat
  <2>1. CASE 3 <= n
    BY <1>0, <1>1, <2>1, Words16
  <2>2. CASE ~(3 <= n)
    BY <1>0, <2>2 DEF D1, GetU16
  <2> QED BY <2>1, <2>2
<1>3. /\ i3 \in Nat /\ (i2 # 0 /\ i2 + a - 1 <= n => i3 = i2 + a /\ Piece(s, i2, a, f))
      /\ (i3 # 0 => i2 # 0 /\ i2 + a - 1 <= n)
  BY <1>0, <1>1, <1>2, GotBytes DEF D2
<1>4. /\ i4 \in Nat /\ (i3 # 0 /\ i3 + 1 <= n => i4 = i3 + 2 /\ b = Word16(s, i3))
      /\ (i4 # 0 => i3 # 0 /\ i3 + 1 <= n)
  BY <1>3, Got16 DEF D3
<1>5. b \in Nat
  <2>1. CASE i3 # 0 /\ i3 + 1 <= n
    BY <1>3, <1>4, <2>1, Words16
  <2>2. CASE ~(i3 # 0 /\ i3 + 1 <= n)
    <3>1. i3 = 0 \/ i3 + 1 > n
      BY <1>0, <1>3, <2>2
    <3> QED BY <3>1 DEF D3, GetU16
  <2> QED BY <2>1, <2>2
<1>6. /\ i5 \in Nat /\ (i4 # 0 /\ i4 + b - 1 <= n => i5 = i4 + b /\ Piece(s, i4, b, t))
      /\ (i5 # 0 => i4 # 0 /\ i4 + b - 1 <= n)
  BY <1>4, <1>5, GotBytes DEF D4
<1>7. /\ i6 \in Nat /\ (i5 # 0 /\ i5 + 3 <= n => i6 = i5 + 4 /\ id = Word32(s, i5))
      /\ (i6 # 0 => i5 # 0 /\ i5 + 3 <= n)
  BY <1>6, Got32 DEF D5
<1>8. /\ i7 \in Nat /\ (i6 # 0 /\ i6 + 3 <= n => i7 = i6 + 4 /\ c = Word32(s, i6))
      /\ (i7 # 0 => i6 # 0 /\ i6 + 3 <= n)
  BY <1>7, Got32 DEF D6
<1>9. c \in Nat
  <2>1. CASE i6 # 0 /\ i6 + 3 <= n
    BY <1>7, <1>8, <2>1, Words32
  <2>2. CASE ~(i6 # 0 /\ i6 + 3 <= n)
    <3>1. i6 = 0 \/ i6 + 3 > n
      BY <1>0, <1>7, <2>2
    <3> QED BY <3>1 DEF D6, GetU32
  <2> QED BY <2>1, <2>2
<1>10. /\ (i7 # 0 /\ i7 + c - 1 <= n => i8 = i7 + c /\ Piece(s, i7, c, p))
       /\ (i8 # 0 => i7 # 0 /\ i7 + c - 1 <= n)
  BY <1>8, <1>9, GotBytes DEF D7
<1> HIDE DEF n, f, t, id, p, i2, a, i3, i4, b, i5, i6, i7, c, i8
<1>11. i7 # 0 /\ i6 # 0 /\ i5 # 0 /\ i4 # 0 /\ i3 # 0 /\ i2 # 0
  BY <1>0, <1>10, <1>8, <1>7, <1>6, <1>4, <1>3
<1>12. /\ i2 = 4 /\ i3 = a + 4 /\ i4 = a + 6 /\ i5 = a + b + 6 /\ i6 = a + b + 10
       /\ i7 = a + b + 14 /\ n = 13 + a + b + c
  <2>1. i2 = 4 /\ i2 + a - 1 <= n
    BY <1>1, <1>3, <1>11
  <2>2. i3 = a + 4 /\ i3 + 1 <= n
    BY <1>2, <1>3, <1>4, <1>11, <2>1
  <2>3. i4 = a + 6 /\ i4 + b - 1 <= n
    BY <1>2, <1>4, <1>6, <1>11, <2>2
  <2>4. i5 = a + b + 6 /\ i5 + 3 <= n
    BY <1>2, <1>5, <1>6, <1>7, <1>11, <2>3
  <2>5. i6 = a + b + 10 /\ i6 + 3 <= n
    BY <1>2, <1>5, <1>7, <1>8, <1>11, <2>4
  <2>6. i7 = a + b + 14 /\ i7 + c - 1 <= n
    BY <1>0, <1>2, <1>5, <1>8, <1>10, <1>11, <2>5
  <2>7. i7 + c = n + 1
    BY <1>0, <1>10, <1>11, <2>6
  <2>8. n = 13 + a + b + c
    BY <1>0, <1>2, <1>5, <1>9, <2>6, <2>7
  <2> QED BY <2>1, <2>2, <2>3, <2>4, <2>5, <2>6, <2>8
<1>13. /\ 3 <= n /\ i3 + 1 <= n /\ i5 + 3 <= n /\ i6 + 3 <= n
       /\ i2 + a - 1 <= n /\ i4 + b - 1 <= n /\ i7 + c - 1 <= n
  BY <1>2, <1>5, <1>9, <1>12
<1>14. Piece(s, 4, a, f) /\ Piece(s, a + 6, b, t) /\ Piece(s, a + b + 14, c, p)
  BY <1>3, <1>6, <1>10, <1>11, <1>12, <1>13
<1>15. /\ f \in Seq(Byte) /\ Len(f) = a /\ (\A k \in 1 .. a : f[k] = s[4 + k - 1])
       /\ t \in Seq(Byte) /\ Len(t) = b /\ (\A k \in 1 .. b : t[k] = s[a + 6 + k - 1])
       /\ p \in Seq(Byte) /\ Len(p) = c /\ (\A k \in 1 .. c : p[k] = s[a + b + 14 + k - 1])
  BY <1>14 DEF Piece
<1>16. /\ \A k \in 1 .. a : s[3 + k] = f[k]
       /\ \A k \in 1 .. b : s[a + 5 + k] = t[k]
       /\ \A k \in 1 .. c : s[a + b + 13 + k] = p[k]
  <2>1. /\ \A k \in 1 .. a : 4 + k - 1 = 3 + k
        /\ \A k \in 1 .. b : a + 6 + k - 1 = a + 5 + k
        /\ \A k \in 1 .. c : a + b + 14 + k - 1 = a + b + 13 + k
    BY <1>2, <1>5, <1>9
  <2> QED BY <1>15, <2>1
<1>17. /\ Word16(s, 2) = a /\ Word16(s, a + 4) = b
       /\ Word32(s, a + b + 6) = id /\ Word32(s, a + b + 10) = c
  BY <1>1, <1>4, <1>7, <1>8, <1>11, <1>12, <1>13
<1>18. Layout(s, f, t, id, p)
  BY <1>0, <1>12, <1>15, <1>16, <1>17 DEF Layout, n
<1>19. a < Square /\ b < Square /\ id \in Nat /\ id < Fourth
  <2>1. a < Square
    BY <1>0, <1>1, <1>13, Words16 DEF n
  <2>2. b < Square
    BY <1>3, <1>4, <1>11, <1>13, Words16 DEF n
  <2>3. id \in Nat /\ id < Fourth
    BY <1>6, <1>7, <1>11, <1>13, Words32 DEF n
  <2> QED BY <2>1, <2>2, <2>3
<1>20. Decoded(s, f, t, id, p)
  BY <1>0, <1>15, <1>18, <1>19 DEF Decoded
<1> QED BY <1>20 DEF f, t, id, p

LEMMA LayoutIsAccepted ==
  ASSUME NEW s \in Seq(Byte), NEW f, NEW t, NEW id, NEW p, Decoded(s, f, t, id, p)
  PROVE  Accepted(s) /\ D2(s).v = f /\ D4(s).v = t /\ D5(s).v = id /\ D7(s).v = p
<1> DEFINE n == Len(s)  a == Len(f)  b == Len(t)  c == Len(p)
<1>0. /\ n \in Nat /\ a \in Nat /\ b \in Nat /\ c \in Nat /\ n = 13 + a + b + c
      /\ f \in Seq(Byte) /\ t \in Seq(Byte) /\ p \in Seq(Byte) /\ s[1] = 1
      /\ c <= MaxPayloadBytes
      /\ Word16(s, 2) = a /\ Word16(s, a + 4) = b
      /\ Word32(s, a + b + 6) = id /\ Word32(s, a + b + 10) = c
  BY DEF Decoded, Layout
<1>p. Piece(s, 4, a, f) /\ Piece(s, a + 6, b, t) /\ Piece(s, a + b + 14, c, p)
  <2>1. /\ \A k \in 1 .. a : s[3 + k] = f[k]
        /\ \A k \in 1 .. b : s[a + 5 + k] = t[k]
        /\ \A k \in 1 .. c : s[a + b + 13 + k] = p[k]
    BY DEF Decoded, Layout
  <2>2. /\ \A k \in 1 .. a : 4 + k - 1 = 3 + k
        /\ \A k \in 1 .. b : a + 6 + k - 1 = a + 5 + k
        /\ \A k \in 1 .. c : a + b + 14 + k - 1 = a + b + 13 + k
    <3> HIDE DEF a, b, c
    <3> QED BY <1>0
  <2> QED BY <1>0, <2>1, <2>2 DEF Piece
<1>n. n \in Nat /\ a \in Nat /\ b \in Nat /\ c \in Nat
  BY <1>0
<1> HIDE DEF n, a, b, c
<1>1. D1(s).i = 4 /\ D1(s).v = a
  <2>1. 2 \in Nat /\ 2 # 0 /\ 2 + 1 <= Len(s) /\ 2 + 2 = 4
    BY <1>0 DEF n
  <2> QED BY <1>0, <2>1, Got16 DEF D1
<1>2. D2(s).i = a + 4 /\ D2(s).v = f
  <2>1. 4 \in Nat /\ 4 # 0 /\ 4 + a - 1 <= Len(s) /\ 4 + a = a + 4
    BY <1>0 DEF n
  <2>2. GetBytes(s, 4, a).i = 4 + a /\ Piece(s, 4, a, GetBytes(s, 4, a).v)
    BY <1>n, <2>1, GotPiece
  <2>3. GetBytes(s, 4, a).v = f
    BY <1>p, <2>2, PieceUnique
  <2> QED BY <1>1, <2>1, <2>2, <2>3 DEF D2
<1>3. D3(s).i = a + 6 /\ D3(s).v = b
  <2>1. a + 4 \in Nat /\ a + 4 # 0 /\ (a + 4) + 1 <= Len(s) /\ (a + 4) + 2 = a + 6
    BY <1>0 DEF n
  <2>2. GetU16(s, a + 4).i = (a + 4) + 2 /\ GetU16(s, a + 4).v = Word16(s, a + 4)
    BY <2>1, Got16
  <2> QED BY <1>0, <1>2, <2>1, <2>2 DEF D3
<1>4. D4(s).i = a + b + 6 /\ D4(s).v = t
  <2>1. a + 6 \in Nat /\ a + 6 # 0 /\ (a + 6) + b - 1 <= Len(s) /\ (a + 6) + b = a + b + 6
    BY <1>0 DEF n
  <2>2. GetBytes(s, a + 6, b).i = (a + 6) + b /\ Piece(s, a + 6, b, GetBytes(s, a + 6, b).v)
    BY <1>n, <2>1, GotPiece
  <2>3. GetBytes(s, a + 6, b).v = t
    BY <1>p, <2>2, PieceUnique
  <2> QED BY <1>3, <2>1, <2>2, <2>3 DEF D4
<1>5. D5(s).i = a + b + 10 /\ D5(s).v = id
  <2> DEFINE i == a + b + 6
  <2>1. i \in Nat /\ i # 0 /\ i + 3 <= Len(s) /\ i + 4 = a + b + 10
    BY <1>0 DEF n
  <2>2. Word32(s, i) = id
    BY <1>0
  <2>3. D5(s) = GetU32(s, i)
    BY <1>4 DEF D5
  <2> HIDE DEF i
  <2>4. GetU32(s, i).i = i + 4 /\ GetU32(s, i).v = Word32(s, i)
    BY <2>1, Got32
  <2> QED BY <2>1, <2>2, <2>3, <2>4
<1>6. D6(s).i = a + b + 14 /\ D6(s).v = c
  <2> DEFINE i == a + b + 10
  <2>1. i \in Nat /\ i # 0 /\ i + 3 <= Len(s) /\ i + 4 = a + b + 14
    BY <1>0 DEF n
  <2>2. Word32(s, i) = c
    BY <1>0
  <2>3. D6(s) = GetU32(s, i)
    BY <1>5 DEF D6
  <2> HIDE DEF i
  <2>4. GetU32(s, i).i = i + 4 /\ GetU32(s, i).v = Word32(s, i)
    BY <2>1, Got32
  <2> QED BY <2>1, <2>2, <2>3, <2>4
<1>7. D7(s).i = n + 1 /\ D7(s).v = p
  <2> DEFINE i == a + b + 14
  <2>1. i \in Nat /\ i # 0 /\ i + c - 1 <= Len(s) /\ i + c = n + 1
    BY <1>0 DEF n
  <2>2. D7(s) = GetBytes(s, i, c) /\ Piece(s, i, c, p)
    BY <1>6, <1>p DEF D7
  <2> HIDE DEF i
  <2>3. GetBytes(s, i, c).i = i + c /\ Piece(s, i, c, GetBytes(s, i, c).v)
    BY <1>n, <2>1, GotPiece
  <2>4. GetBytes(s, i, c).v = p
    BY <2>2, <2>3, PieceUnique
  <2> QED BY <2>1, <2>2, <2>3, <2>4
<1>8. Accepted(s)
  BY <1>0, <1>6, <1>7 DEF Accepted, n
<1> QED BY <1>2, <1>4, <1>5, <1>7, <1>8

-----------------------------------------------------------------------------
(* The codec.                                                              *)

LEMMA EncodeForm ==
  ASSUME NEW m, Len(m.from) \in Nat, Len(m.topic) \in Nat, Len(m.payload) \in Nat
  PROVE  /\ Len(m.from) < Square /\ Len(m.topic) < Square /\ Len(m.payload) <= MaxPayloadBytes
              => Encode(m) = Framed(m.from, m.topic, m.id, m.payload)
         /\ ~(Len(m.from) < Square /\ Len(m.topic) < Square /\ Len(m.payload) <= MaxPayloadBytes)
              => Encode(m) = <<>>
<1> DEFINE Good == Len(m.from) < Square /\ Len(m.topic) < Square /\ Len(m.payload) <= MaxPayloadBytes
<1>1. (NamesFit(m) /\ ~(Len(m.payload) > MaxPayloadBytes)) <=> Good
  <2>1. U16Max = Square - 1 /\ Square \in Nat /\ MaxPayloadBytes \in Nat
    BY RadixFacts, MsgAssumption DEF U16Max, Square
  <2> QED BY <2>1 DEF NamesFit
<1> HIDE DEF Good
<1>2. Good => Encode(m) = Framed(m.from, m.topic, m.id, m.payload)
  BY <1>1, Zenon DEF Encode, Framed
<1>3. ~Good => Encode(m) = <<>>
  BY <1>1, Zenon DEF Encode
<1> QED BY <1>2, <1>3 DEF Good

(* A frame that Decode accepts is the one that Encode makes of what it     *)
(* decoded to.                                                             *)
LEMMA EncodeDecode ==
  ASSUME NEW s \in Seq(Byte), Decode(s) # NoMsg
  PROVE  Encode(Decode(s)) = s
<1> DEFINE f == D2(s).v  t == D4(s).v  id == D5(s).v  p == D7(s).v  m == Decode(s)
<1>1. Accepted(s) /\ m = [from |-> f, topic |-> t, id |-> id, payload |-> p]
  BY DecodeForm
<1>2. Decoded(s, f, t, id, p)
  BY <1>1, AcceptedIsLayout
<1> HIDE DEF f, t, id, p, m
<1>3. m.from = f /\ m.topic = t /\ m.id = id /\ m.payload = p
  BY <1>1
<1>4. /\ f \in Seq(Byte) /\ t \in Seq(Byte) /\ p \in Seq(Byte) /\ id \in Nat
      /\ Len(f) < Square /\ Len(t) < Square /\ id < Fourth /\ Len(p) <= MaxPayloadBytes
      /\ Layout(s, f, t, id, p)
  BY <1>2 DEF Decoded
<1>5. Len(f) \in Nat /\ Len(t) \in Nat /\ Len(p) \in Nat /\ Len(p) < Fourth
  <2>1. Len(f) \in Nat /\ Len(t) \in Nat /\ Len(p) \in Nat
    BY <1>4
  <2>2. MaxPayloadBytes \in Nat /\ MaxPayloadBytes < Fourth /\ Fourth \in Nat
    BY MsgAssumption, RadixFacts DEF Fourth
  <2> QED BY <1>4, <2>1, <2>2
<1>6. Encode(m) = Framed(f, t, id, p)
  BY <1>3, <1>4, <1>5, EncodeForm
<1>7. Framed(f, t, id, p) \in Seq(Byte) /\ Layout(Framed(f, t, id, p), f, t, id, p)
  BY <1>4, <1>5, FramedLayout
<1>8. Framed(f, t, id, p) = s
  BY <1>4, <1>7, LayoutUnique
<1> QED BY <1>6, <1>8 DEF m

(* What Encode accepts comes back.                                         *)
LEMMA DecodeEncode ==
  ASSUME NEW f \in Seq(Byte), NEW t \in Seq(Byte), NEW p \in Seq(Byte), NEW id \in Nat, id < Fourth,
         NEW m, m = [from |-> f, topic |-> t, id |-> id, payload |-> p], Encode(m) # <<>>
  PROVE  Decode(Encode(m)) = m
<1>1. m.from = f /\ m.topic = t /\ m.id = id /\ m.payload = p
  OBVIOUS
<1>2. Len(f) \in Nat /\ Len(t) \in Nat /\ Len(p) \in Nat
  OBVIOUS
<1> DEFINE s == Framed(f, t, id, p)
<1>3. /\ Len(f) < Square /\ Len(t) < Square /\ Len(p) <= MaxPayloadBytes
      /\ Encode(m) = s
  BY <1>1, <1>2, EncodeForm
<1>4. Len(p) < Fourth
  <2>1. MaxPayloadBytes \in Nat /\ MaxPayloadBytes < Fourth /\ Fourth \in Nat
    BY MsgAssumption, RadixFacts DEF Fourth
  <2> QED BY <1>2, <1>3, <2>1
<1>5. s \in Seq(Byte) /\ Layout(s, f, t, id, p)
  BY <1>3, <1>4, FramedLayout
<1> HIDE DEF s
<1>6. Decoded(s, f, t, id, p)
  BY <1>3, <1>5 DEF Decoded
<1>7. Accepted(s) /\ D2(s).v = f /\ D4(s).v = t /\ D5(s).v = id /\ D7(s).v = p
  BY <1>5, <1>6, LayoutIsAccepted
<1>8. Decode(s) = [from |-> f, topic |-> t, id |-> id, payload |-> p]
  BY <1>7, DecodeForm
<1> QED BY <1>3, <1>8

Messages == [from : Seq(Byte), topic : Seq(Byte), id : 0 .. Fourth - 1, payload : Seq(Byte)]

(* Decode and Encode are inverse to each other, for every radix, limit,    *)
(* frame and message: what Encode accepts comes back from Decode with its  *)
(* names, id and payload, and a frame that Decode accepts is the only one  *)
(* for its message.  The limit on a payload fits a u32 and the names are   *)
(* checked against a u16, so no length wraps.                              *)
THEOREM RoundTrips ==
  /\ \A s \in Seq(Byte) : Decode(s) # NoMsg => Encode(Decode(s)) = s
  /\ \A m \in Messages : Encode(m) # <<>> => Decode(Encode(m)) = m
<1>1. ASSUME NEW m \in Messages, Encode(m) # <<>> PROVE Decode(Encode(m)) = m
  <2>1. PICK f \in Seq(Byte), t \in Seq(Byte), id \in 0 .. Fourth - 1, p \in Seq(Byte) :
            m = [from |-> f, topic |-> t, id |-> id, payload |-> p]
    BY DEF Messages
  <2>2. id \in Nat /\ id < Fourth
    BY RadixFacts
  <2> QED BY <1>1, <2>1, <2>2, DecodeEncode
<1> QED BY <1>1, EncodeDecode

MsgInv == frame \in Seq(Byte) /\ (msg = NoMsg \/ msg \in Messages)

LEMMA TextBytes == ASSUME NEW n \in Nat PROVE Text(n) \in Seq(Byte)
<1>1. \A k \in 1 .. n : k % Radix \in Byte
  BY RadixFacts, DivMod DEF Byte
<1>2. Text(n) \in [1 .. n -> Byte]
  BY <1>1 DEF Text
<1> QED BY <1>2

LEMMA MsgStep == ASSUME MsgInv, [MsgNext]_msgVars PROVE MsgInv'
<1>1. CASE UNCHANGED msgVars
  BY <1>1 DEF MsgInv
<1>2. CASE MsgNext
  <2>1. CASE (\E b \in Byte : frame' = Append(frame, b)) /\ UNCHANGED msg
    BY <2>1 DEF MsgInv
  <2>2. CASE msg' \in Msgs /\ UNCHANGED frame
    <3>1. PICK f \in 0 .. U16Max + 1, t \in 0 .. U16Max + 1, id \in Ids, p \in 0 .. MaxPayloadBytes + 1 :
              msg' = [from |-> Text(f), topic |-> Text(t), id |-> id, payload |-> Text(p)]
      BY <2>2 DEF Msgs
    <3>2. Text(f) \in Seq(Byte) /\ Text(t) \in Seq(Byte) /\ Text(p) \in Seq(Byte)
      BY TextBytes
    <3>3. id \in 0 .. Fourth - 1
      BY MsgAssumption DEF Fourth
    <3> QED BY <2>2, <3>1, <3>2, <3>3 DEF MsgInv, Messages
  <2> QED BY <1>2, <2>1, <2>2 DEF MsgNext
<1> QED BY <1>1, <1>2

(* Bus::Publish and Bus::Recv may trust the codec: the frames that come in *)
(* and the messages that go out keep to RoundTrips.                        *)
THEOREM CodecInverts == MsgInit /\ [][MsgNext]_msgVars => []DecodeInvertsEncode
<1>1. MsgInit => MsgInv
  BY DEF MsgInit, MsgInv
<1>2. MsgInv /\ [MsgNext]_msgVars => MsgInv'
  BY MsgStep
<1>3. MsgInv => DecodeInvertsEncode
  BY RoundTrips DEF MsgInv, DecodeInvertsEncode
<1> QED BY <1>1, <1>2, <1>3, PTL
-----------------------------------------------------------------------------
(* Induction, and the tables of recursive functions.                       *)

LEMMA Least ==
  ASSUME NEW T \in SUBSET Nat, T # {}
  PROVE  \E x \in T : \A y \in T : x <= y
<1>1. IsWellFoundedOn(OpToRel(<, Nat), Nat)
  BY NatLessThanWellFounded
<1>2. PICK x \in T : \A y \in T : ~(<<y, x>> \in OpToRel(<, Nat))
  BY <1>1, WFMin
<1>3. \A y \in T : ~(y < x)
  BY <1>2 DEF OpToRel
<1> QED BY <1>3

LEMMA Induct ==
  ASSUME NEW T, 0 \in T, \A n \in Nat : n \in T => n + 1 \in T
  PROVE  Nat \subseteq T
<1> SUFFICES ASSUME ~(Nat \subseteq T) PROVE FALSE
  OBVIOUS
<1> DEFINE U == Nat \ T
<1>1. U \in SUBSET Nat /\ U # {}
  OBVIOUS
<1>2. PICK x \in U : \A y \in U : x <= y
  BY <1>1, Least
<1>3. x # 0 /\ x \in Nat /\ x \notin T
  OBVIOUS
<1>4. x - 1 \in Nat /\ x - 1 \notin U
  BY <1>2, <1>3
<1> QED BY <1>3, <1>4

(* f starts at x and goes on by G.                                         *)
Chained(X, x, G, m, f) ==
    /\ f \in [0 .. m -> X]
    /\ f[0] = x
    /\ \A i \in 1 .. m : f[i] = G[i][f[i - 1]]

LEMMA ChainExists ==
  ASSUME NEW X, NEW x \in X, NEW G \in [Nat -> [X -> X]], NEW m \in Nat
  PROVE  \E f : Chained(X, x, G, m, f)
<1> DEFINE T == {n \in Nat : \E f : Chained(X, x, G, n, f)}
<1>1. 0 \in T
  <2> DEFINE f == [i \in 0 .. 0 |-> x]
  <2>1. Chained(X, x, G, 0, f)
    BY DEF Chained
  <2> QED BY <2>1
<1>2. ASSUME NEW n \in Nat, n \in T PROVE n + 1 \in T
  <2>1. PICK f : Chained(X, x, G, n, f)
    BY <1>2
  <2>2. /\ f \in [0 .. n -> X] /\ f[0] = x
        /\ \A i \in 1 .. n : f[i] = G[i][f[i - 1]]
    BY <2>1 DEF Chained
  <2> DEFINE g == [i \in 0 .. n + 1 |-> IF i <= n THEN f[i] ELSE G[n + 1][f[n]]]
  <2>3. f[n] \in X /\ G[n + 1][f[n]] \in X
    BY <2>2
  <2>4. g \in [0 .. n + 1 -> X] /\ g[0] = x
    BY <2>2, <2>3
  <2>5. ASSUME NEW i \in 1 .. n + 1 PROVE g[i] = G[i][g[i - 1]]
    <3>1. g[i - 1] = f[i - 1]
      OBVIOUS
    <3>2. CASE i <= n
      <4>1. g[i] = f[i] /\ i \in 1 .. n
        BY <3>2
      <4> QED BY <2>2, <3>1, <4>1
    <3>3. CASE i = n + 1
      <4>1. g[i] = G[n + 1][f[n]] /\ i - 1 = n
        BY <3>3
      <4> QED BY <3>1, <3>3, <4>1
    <3> QED BY <3>2, <3>3
  <2>6. Chained(X, x, G, n + 1, g)
    <3> HIDE DEF g
    <3> QED BY <2>4, <2>5 DEF Chained
  <2> QED BY <2>6
<1>3. Nat \subseteq T
  <2> HIDE DEF T
  <2> QED BY <1>1, <1>2, Induct
<1> QED BY <1>3

-----------------------------------------------------------------------------
(* The members of a set in order.                                          *)

OrderTable(S, n, f) ==
    f = [i \in 0 .. n |-> IF i = 0 THEN <<>> ELSE IF i \in S THEN Append(f[i - 1], i) ELSE f[i - 1]]

LEMMA OrderTableExists ==
  ASSUME NEW S, NEW n \in Nat
  PROVE  \E f : OrderTable(S, n, f)
<1> DEFINE X == Seq(Nat)
           G == [i \in Nat |-> [v \in X |-> IF i \in S THEN Append(v, i) ELSE v]]
<1>1. <<>> \in X /\ G \in [Nat -> [X -> X]]
  OBVIOUS
<1>2. \A i \in Nat, v \in X : G[i][v] = IF i \in S THEN Append(v, i) ELSE v
  OBVIOUS
<1>3. PICK f : Chained(X, <<>>, G, n, f)
  <2> HIDE DEF X, G
  <2> QED BY <1>1, ChainExists
<1> HIDE DEF X, G
<1>4. /\ f \in [0 .. n -> X] /\ f[0] = <<>>
      /\ \A i \in 1 .. n : f[i] = G[i][f[i - 1]]
  BY <1>3 DEF Chained
<1>5. ASSUME NEW i \in 1 .. n PROVE f[i] = IF i \in S THEN Append(f[i - 1], i) ELSE f[i - 1]
  <2>1. f[i - 1] \in X /\ i \in Nat
    BY <1>4
  <2> QED BY <1>2, <1>4, <2>1
<1>6. OrderTable(S, n, f)
  <2> DEFINE h == [i \in 0 .. n |-> IF i = 0 THEN <<>> ELSE IF i \in S THEN Append(f[i - 1], i) ELSE f[i - 1]]
  <2>1. f = [i \in 0 .. n |-> f[i]]
    BY <1>4
  <2>2. \A i \in 0 .. n : f[i] = h[i]
    <3> TAKE i \in 0 .. n
    <3>1. i = 0 \/ i \in 1 .. n
      OBVIOUS
    <3> QED BY <1>4, <1>5, <3>1
  <2>3. h = [i \in 0 .. n |-> h[i]]
    OBVIOUS
  <2>4. f = h
    <3> HIDE DEF h
    <3> QED BY <2>1, <2>2, <2>3
  <2> QED BY <2>4, Zenon DEF OrderTable, h
<1> QED BY <1>6

LEMMA OrderTableAt ==
  ASSUME NEW S, NEW n \in Nat, NEW f, OrderTable(S, n, f)
  PROVE  /\ f[0] = <<>>
         /\ \A i \in 1 .. n : f[i] = IF i \in S THEN Append(f[i - 1], i) ELSE f[i - 1]
<1> DEFINE h == [i \in 0 .. n |-> IF i = 0 THEN <<>> ELSE IF i \in S THEN Append(f[i - 1], i) ELSE f[i - 1]]
<1>1. f = h
  BY Zenon DEF OrderTable
<1>2. h[0] = <<>> /\ \A i \in 1 .. n : h[i] = IF i \in S THEN Append(f[i - 1], i) ELSE f[i - 1]
  OBVIOUS
<1> HIDE DEF h
<1>3. \A i : f[i] = h[i]
  BY <1>1
<1> QED BY <1>2, <1>3

LEMMA InOrderIs ==
  ASSUME NEW S, NEW n \in Nat
  PROVE  \E f : OrderTable(S, n, f) /\ InOrder(S, n) = f[n]
<1> DEFINE f == CHOOSE g : OrderTable(S, n, g)
<1>1. OrderTable(S, n, f)
  BY OrderTableExists
<1>2. InOrder(S, n) = f[n]
  BY Zenon DEF InOrder, OrderTable
<1> QED BY <1>1, <1>2

OrderedAt(S, n, f) ==
    /\ f[0] = <<>>
    /\ \A i \in 1 .. n : f[i] = IF i \in S THEN Append(f[i - 1], i) ELSE f[i - 1]

LEMMA OrderTableIs ==
  ASSUME NEW S, NEW n \in Nat, NEW f, OrderTable(S, n, f)
  PROVE  OrderedAt(S, n, f)
<1>1. /\ f[0] = <<>>
      /\ \A i \in 1 .. n : f[i] = IF i \in S THEN Append(f[i - 1], i) ELSE f[i - 1]
  BY OrderTableAt
<1> QED BY <1>1, Zenon DEF OrderedAt

(* Two sets with the same members up to k, and their tables.               *)
SameOrder(S, T, m, k, f, g) ==
    /\ m \in Nat /\ k \in Nat /\ k <= m
    /\ OrderTable(S, m, f) /\ OrderTable(T, k, g)
    /\ \A i \in 1 .. k : i \in S <=> i \in T

LEMMA OrderTablesAgree ==
  ASSUME NEW S, NEW T, NEW m, NEW k, NEW f, NEW g, SameOrder(S, T, m, k, f, g)
  PROVE  f[k] = g[k]
<1> DEFINE U == {j \in Nat : j <= k => f[j] = g[j]}
<1>c. m \in Nat /\ k \in Nat /\ k <= m /\ \A i \in 1 .. k : i \in S <=> i \in T
  BY DEF SameOrder
<1>0. /\ f[0] = <<>> /\ \A i \in 1 .. m : f[i] = IF i \in S THEN Append(f[i - 1], i) ELSE f[i - 1]
      /\ g[0] = <<>> /\ \A i \in 1 .. k : g[i] = IF i \in T THEN Append(g[i - 1], i) ELSE g[i - 1]
  <2>1. OrderTable(S, m, f) /\ OrderTable(T, k, g)
    BY DEF SameOrder
  <2>2. OrderedAt(S, m, f) /\ OrderedAt(T, k, g)
    BY <1>c, <2>1, OrderTableIs
  <2> QED BY <2>2, Zenon DEF OrderedAt
<1>1. 0 \in U
  BY <1>0
<1>2. ASSUME NEW j \in Nat, j \in U PROVE j + 1 \in U
  <2> SUFFICES ASSUME j + 1 <= k PROVE f[j + 1] = g[j + 1]
    OBVIOUS
  <2>1. j + 1 \in 1 .. m /\ j + 1 \in 1 .. k /\ (j + 1) - 1 = j /\ f[j] = g[j]
    BY <1>c, <1>2
  <2> QED BY <1>0, <1>c, <2>1
<1>3. Nat \subseteq U
  <2> HIDE DEF U
  <2> QED BY <1>1, <1>2, Induct
<1> QED BY <1>3, <1>c

LEMMA OrderAgree ==
  ASSUME NEW S, NEW T, NEW n \in Nat, \A i \in 1 .. n : i \in S <=> i \in T
  PROVE  InOrder(S, n) = InOrder(T, n)
<1>1. PICK f : OrderTable(S, n, f) /\ InOrder(S, n) = f[n]
  BY InOrderIs
<1>2. PICK g : OrderTable(T, n, g) /\ InOrder(T, n) = g[n]
  BY InOrderIs
<1>3. SameOrder(S, T, n, n, f, g)
  BY <1>1, <1>2 DEF SameOrder
<1> QED BY <1>1, <1>2, <1>3, OrderTablesAgree

LEMMA OrderNone == ASSUME NEW S PROVE InOrder(S, 0) = <<>>
<1>1. PICK f : OrderTable(S, 0, f) /\ InOrder(S, 0) = f[0]
  BY InOrderIs
<1> QED BY <1>1, OrderTableAt

LEMMA OrderStep ==
  ASSUME NEW S, NEW n \in Nat
  PROVE  InOrder(S, n + 1) = IF n + 1 \in S THEN Append(InOrder(S, n), n + 1) ELSE InOrder(S, n)
<1> DEFINE m == n + 1
<1>0. m \in Nat /\ n <= m /\ m \in 1 .. m /\ m - 1 = n
  OBVIOUS
<1> HIDE DEF m
<1>1. PICK f : OrderTable(S, m, f) /\ InOrder(S, m) = f[m]
  BY <1>0, InOrderIs
<1>2. PICK g : OrderTable(S, n, g) /\ InOrder(S, n) = g[n]
  BY InOrderIs
<1>3. SameOrder(S, S, m, n, f, g)
  BY <1>0, <1>1, <1>2 DEF SameOrder
<1>4. f[n] = g[n]
  BY <1>3, OrderTablesAgree
<1>5. f[m] = IF m \in S THEN Append(f[m - 1], m) ELSE f[m - 1]
  BY <1>0, <1>1, OrderTableAt
<1> QED BY <1>0, <1>1, <1>2, <1>4, <1>5 DEF m

LEMMA OrderType == ASSUME NEW S, NEW n \in Nat PROVE InOrder(S, n) \in Seq(S \cap (1 .. n))
<1> DEFINE U == {j \in Nat : InOrder(S, j) \in Seq(S \cap (1 .. j))}
<1>1. 0 \in U
  <2>1. InOrder(S, 0) = <<>>
    BY OrderNone
  <2>2. <<>> \in Seq(S \cap (1 .. 0))
    OBVIOUS
  <2>3. InOrder(S, 0) \in Seq(S \cap (1 .. 0))
    BY <2>1, <2>2, Zenon
  <2> QED BY <2>3
<1>2. ASSUME NEW j \in Nat, j \in U PROVE j + 1 \in U
  <2> DEFINE Y == S \cap (1 .. j)  Z == S \cap (1 .. j + 1)
  <2>1. InOrder(S, j) \in Seq(Y) /\ Y \subseteq Z
    BY <1>2
  <2>2. InOrder(S, j) \in Seq(Z)
    <3> HIDE DEF Y, Z
    <3> QED BY <2>1, SeqMonotonic
  <2>3. j + 1 \in S => j + 1 \in Z
    OBVIOUS
  <2>4. InOrder(S, j + 1) \in Seq(Z)
    <3> HIDE DEF Z
    <3>1. InOrder(S, j + 1) = IF j + 1 \in S THEN Append(InOrder(S, j), j + 1) ELSE InOrder(S, j)
      BY OrderStep
    <3>2. CASE j + 1 \in S
      <4>1. \A e \in Z, w \in Seq(Z) : Append(w, e) \in Seq(Z)
        OBVIOUS
      <4>2. Append(InOrder(S, j), j + 1) \in Seq(Z)
        BY <2>2, <2>3, <3>2, <4>1
      <4> QED BY <3>1, <3>2, <4>2
    <3>3. CASE j + 1 \notin S
      BY <2>2, <3>1, <3>3
    <3> QED BY <3>2, <3>3
  <2> QED BY <2>4
<1>3. Nat \subseteq U
  <2> HIDE DEF U
  <2> QED BY <1>1, <1>2, Induct
<1> QED BY <1>3

LEMMA OrderGap ==
  ASSUME NEW S, NEW m \in Nat, NEW n \in Nat, m <= n, \A i \in m + 1 .. n : i \notin S
  PROVE  InOrder(S, n) = InOrder(S, m)
<1> DEFINE U == {j \in Nat : m + j <= n => InOrder(S, m + j) = InOrder(S, m)}
<1>1. 0 \in U
  OBVIOUS
<1>2. ASSUME NEW j \in Nat, j \in U PROVE j + 1 \in U
  <2> SUFFICES ASSUME m + (j + 1) <= n PROVE InOrder(S, m + (j + 1)) = InOrder(S, m)
    OBVIOUS
  <2>1. /\ m + j \in Nat /\ m + (j + 1) = (m + j) + 1 /\ (m + j) + 1 \in m + 1 .. n
        /\ InOrder(S, m + j) = InOrder(S, m)
    BY <1>2
  <2>2. InOrder(S, (m + j) + 1) = InOrder(S, m + j)
    BY <2>1, OrderStep
  <2> QED BY <2>1, <2>2
<1>3. Nat \subseteq U
  <2> HIDE DEF U
  <2> QED BY <1>1, <1>2, Induct
<1>4. n - m \in Nat /\ m + (n - m) = n
  OBVIOUS
<1>5. n - m \in U
  BY <1>3, <1>4
<1> QED BY <1>4, <1>5

(* The largest member comes last.                                          *)
LEMMA OrderTop ==
  ASSUME NEW S, NEW n \in Nat, NEW t \in 1 .. n, t \in S, \A i \in t + 1 .. n : i \notin S
  PROVE  InOrder(S, n) = Append(InOrder(S, t - 1), t)
<1>1. t \in Nat /\ t - 1 \in Nat /\ (t - 1) + 1 = t /\ t <= n
  OBVIOUS
<1>2. InOrder(S, n) = InOrder(S, t)
  BY <1>1, OrderGap
<1>3. InOrder(S, (t - 1) + 1) = Append(InOrder(S, t - 1), (t - 1) + 1)
  BY <1>1, OrderStep
<1> QED BY <1>1, <1>2, <1>3

(* Every set with members up to n has a largest one of these.              *)
LEMMA Largest ==
  ASSUME NEW S, NEW n \in Nat, NEW k \in 1 .. n, k \in S
  PROVE  \E t \in 1 .. n : t \in S /\ \A i \in t + 1 .. n : i \notin S
<1> DEFINE U == {j \in Nat : j \in 0 .. n - 1 /\ n - j \in S}
<1>1. U \in SUBSET Nat
  OBVIOUS
<1>2. n - k \in U
  <2>1. n - (n - k) = k /\ n - k \in Nat /\ n - k \in 0 .. n - 1
    OBVIOUS
  <2> QED BY <2>1
<1>3. PICK j \in U : \A x \in U : j <= x
  <2> HIDE DEF U
  <2> QED BY <1>1, <1>2, Least
<1>4. n - j \in 1 .. n /\ n - j \in S
  BY <1>3
<1>5. ASSUME NEW i \in (n - j) + 1 .. n, i \in S PROVE FALSE
  <2>1. n - i \in Nat /\ n - (n - i) = i /\ n - i < j /\ n - i \in 0 .. n - 1
    BY <1>4
  <2>2. n - i \in U
    BY <1>5, <2>1
  <2> QED BY <1>3, <2>1, <2>2
<1> QED BY <1>4, <1>5

-----------------------------------------------------------------------------
(* Splitting.                                                              *)

PathText == Seq(Characters)
Part == {p \in PathText : p # <<>> /\ \A i \in 1 .. Len(p) : p[i] # "/"}

LEMMA ExtendedIs ==
  ASSUME NEW s \in PathText, NEW v \in Seq(Part), NEW k \in 1 .. Len(s)
  PROVE  /\ s[k] = "/" => Extended(s, v, k) = v
         /\ s[k] # "/" /\ (k = 1 \/ s[k - 1] = "/") => Extended(s, v, k) = Append(v, <<s[k]>>)
         /\ s[k] # "/" /\ ~(k = 1 \/ s[k - 1] = "/") =>
               Extended(s, v, k) = [v EXCEPT ![Len(v)] = Append(@, s[k])]
BY DEF Extended

LEMMA PartGrows ==
  ASSUME NEW c \in Characters, c # "/"
  PROVE  <<c>> \in Part /\ \A p \in Part : Append(p, c) \in Part
<1>1. <<c>> \in PathText /\ <<c>> # <<>> /\ \A i \in 1 .. Len(<<c>>) : <<c>>[i] # "/"
  BY DEF PathText
<1>2. ASSUME NEW p \in Part PROVE Append(p, c) \in Part
  <2>1. p \in PathText /\ \A i \in 1 .. Len(p) : p[i] # "/"
    BY DEF Part
  <2> DEFINE q == Append(p, c)
  <2>2. /\ q \in PathText /\ Len(q) = Len(p) + 1 /\ Len(p) \in Nat
        /\ \A i \in 1 .. Len(p) + 1 : q[i] = IF i <= Len(p) THEN p[i] ELSE c
    BY <2>1, AppendProperties DEF PathText
  <2> HIDE DEF q
  <2>3. q # <<>> /\ \A i \in 1 .. Len(q) : q[i] # "/"
    BY <2>1, <2>2
  <2>4. q \in Part
    BY <2>2, <2>3 DEF Part
  <2> QED BY <2>4 DEF q
<1> QED BY <1>1, <1>2 DEF Part

LEMMA ExtendedType ==
  ASSUME NEW s \in PathText, NEW v \in Seq(Part), NEW k \in 1 .. Len(s)
  PROVE  Extended(s, v, k) \in Seq(Part)
<1>0. s[k] \in Characters
  BY DEF PathText
<1>1. CASE s[k] = "/"
  BY <1>1, ExtendedIs
<1>2. CASE s[k] # "/" /\ (k = 1 \/ s[k - 1] = "/")
  <2>1. <<s[k]>> \in Part
    BY <1>0, <1>2, PartGrows
  <2>2. Append(v, <<s[k]>>) \in Seq(Part)
    BY <2>1
  <2> QED BY <1>2, <2>2, ExtendedIs
<1>3. CASE s[k] # "/" /\ ~(k = 1 \/ s[k - 1] = "/")
  <2> DEFINE e == Append(v[Len(v)], s[k])
  <2>1. Extended(s, v, k) = [v EXCEPT ![Len(v)] = e]
    BY <1>3, ExtendedIs
  <2>2. CASE Len(v) = 0
    <3>1. v = <<>>
      BY <2>2
    <3>2. [v EXCEPT ![Len(v)] = e] = v
      BY <2>2, <3>1
    <3> QED BY <2>1, <3>2
  <2>3. CASE Len(v) # 0
    <3>1. Len(v) \in 1 .. Len(v) /\ v[Len(v)] \in Part
      BY <2>3
    <3>2. e \in Part
      BY <1>0, <1>3, <3>1, PartGrows
    <3> HIDE DEF e
    <3> QED BY <2>1, <3>1, <3>2, ExceptSeq
  <2> QED BY <2>2, <2>3
<1> QED BY <1>1, <1>2, <1>3

(* Inside a part the last one grows and the others stay.                   *)
LEMMA ExtendedLast ==
  ASSUME NEW s \in PathText, NEW v \in Seq(Part), NEW k \in 1 .. Len(s),
         s[k] # "/" /\ k # 1 /\ s[k - 1] # "/", v # <<>>
  PROVE  /\ Len(Extended(s, v, k)) = Len(v)
         /\ \A i \in 1 .. Len(v) :
               Extended(s, v, k)[i] = IF i = Len(v) THEN Append(v[Len(v)], s[k]) ELSE v[i]
<1> DEFINE e == Append(v[Len(v)], s[k])
<1>1. Extended(s, v, k) = [v EXCEPT ![Len(v)] = e]
  BY ExtendedIs
<1>2. Len(v) \in 1 .. Len(v) /\ v[Len(v)] \in Part
  OBVIOUS
<1>3. s[k] \in Characters
  BY DEF PathText
<1>4. e \in Part
  BY <1>2, <1>3, PartGrows
<1> HIDE DEF e
<1>5. /\ Len([v EXCEPT ![Len(v)] = e]) = Len(v)
      /\ \A i \in 1 .. Len(v) : [v EXCEPT ![Len(v)] = e][i] = IF i = Len(v) THEN e ELSE v[i]
  BY <1>2, <1>4, ExceptSeq
<1> QED BY <1>1, <1>5 DEF e

(* f has the parts of every front of s.                                    *)
Cuts(s, f) ==
    /\ f \in [0 .. Len(s) -> Seq(Part)]
    /\ f[0] = <<>>
    /\ \A k \in 1 .. Len(s) : f[k] = Extended(s, f[k - 1], k)

SplitTable(s, f) ==
    f = [k \in 0 .. Len(s) |-> IF k = 0 THEN <<>> ELSE Extended(s, f[k - 1], k)]

LEMMA CutsExist == ASSUME NEW s \in PathText PROVE \E f : Cuts(s, f)
<1> DEFINE X == Seq(Part)
           G == [i \in Nat |-> [v \in X |-> IF i \in 1 .. Len(s) THEN Extended(s, v, i) ELSE <<>>]]
           m == Len(s)
<1>0. m \in Nat
  BY DEF PathText
<1>1. <<>> \in X
  OBVIOUS
<1>2. \A i \in 1 .. m, v \in X : Extended(s, v, i) \in X
  BY ExtendedType
<1>3. \A i \in 1 .. m : i \in Nat
  OBVIOUS
<1> HIDE DEF X, m
<1>4. G \in [Nat -> [X -> X]] /\ \A i \in 1 .. m, v \in X : G[i][v] = Extended(s, v, i)
  BY <1>1, <1>2, <1>3 DEF m
<1> HIDE DEF G
<1>5. PICK f : Chained(X, <<>>, G, m, f)
  BY <1>0, <1>1, <1>4, ChainExists
<1>6. /\ f \in [0 .. m -> X] /\ f[0] = <<>>
      /\ \A i \in 1 .. m : f[i] = G[i][f[i - 1]]
  BY <1>5 DEF Chained
<1>7. \A k \in 1 .. m : f[k - 1] \in X
  BY <1>0, <1>6
<1>8. Cuts(s, f)
  BY <1>4, <1>6, <1>7 DEF Cuts, X, m
<1> QED BY <1>8

LEMMA CutsAreTables ==
  ASSUME NEW s \in PathText, NEW f
  PROVE  Cuts(s, f) <=> SplitTable(s, f)
<1> DEFINE h == [k \in 0 .. Len(s) |-> IF k = 0 THEN <<>> ELSE Extended(s, f[k - 1], k)]
<1>0. Len(s) \in Nat
  BY DEF PathText
<1>1. h[0] = <<>> /\ \A k \in 1 .. Len(s) : h[k] = Extended(s, f[k - 1], k)
  BY <1>0
<1>2. h = [k \in 0 .. Len(s) |-> h[k]]
  OBVIOUS
<1>3. SplitTable(s, f) <=> f = h
  BY Zenon DEF SplitTable
<1> HIDE DEF h
<1>4. ASSUME Cuts(s, f) PROVE f = h
  <2>1. /\ f \in [0 .. Len(s) -> Seq(Part)] /\ f[0] = <<>>
        /\ \A k \in 1 .. Len(s) : f[k] = Extended(s, f[k - 1], k)
    BY <1>4 DEF Cuts
  <2>2. \A k \in 0 .. Len(s) : f[k] = h[k]
    <3> TAKE k \in 0 .. Len(s)
    <3>1. k = 0 \/ k \in 1 .. Len(s)
      BY <1>0
    <3> QED BY <1>1, <2>1, <3>1
  <2>3. f = [k \in 0 .. Len(s) |-> f[k]]
    BY <2>1
  <2> QED BY <1>2, <2>2, <2>3
<1>5. ASSUME f = h PROVE Cuts(s, f)
  <2>1. f[0] = <<>> /\ \A k \in 1 .. Len(s) : f[k] = Extended(s, f[k - 1], k)
    BY <1>1, <1>5
  <2> DEFINE U == {j \in Nat : j <= Len(s) => f[j] \in Seq(Part)}
  <2>2. 0 \in U
    <3>1. f[0] \in Seq(Part)
      BY <2>1
    <3> QED BY <3>1
  <2>3. ASSUME NEW j \in Nat, j \in U PROVE j + 1 \in U
    <3> SUFFICES ASSUME j + 1 <= Len(s) PROVE f[j + 1] \in Seq(Part)
      OBVIOUS
    <3>1. j + 1 \in 1 .. Len(s) /\ (j + 1) - 1 = j /\ f[j] \in Seq(Part)
      BY <1>0, <2>3
    <3>2. f[j + 1] = Extended(s, f[j], j + 1)
      BY <2>1, <3>1
    <3> QED BY <3>1, <3>2, ExtendedType
  <2>4. Nat \subseteq U
    <3> HIDE DEF U
    <3> QED BY <2>2, <2>3, Induct
  <2>5. \A k \in 0 .. Len(s) : f[k] \in Seq(Part)
    BY <1>0, <2>4
  <2>6. f = [k \in 0 .. Len(s) |-> f[k]]
    BY <1>2, <1>5
  <2>7. f \in [0 .. Len(s) -> Seq(Part)]
    BY <2>5, <2>6
  <2> QED BY <2>1, <2>7 DEF Cuts
<1> QED BY <1>3, <1>4, <1>5

LEMMA SplitIs == ASSUME NEW s \in PathText PROVE \E f : Cuts(s, f) /\ Split(s) = f[Len(s)]
<1> DEFINE f == CHOOSE g : SplitTable(s, g)
<1>1. SplitTable(s, f)
  BY CutsExist, CutsAreTables
<1>2. Split(s) = f[Len(s)]
  BY Zenon DEF Split, SplitTable
<1>3. Cuts(s, f)
  <2> HIDE DEF f
  <2> QED BY <1>1, CutsAreTables
<1> QED BY <1>2, <1>3

LEMMA SplitType == ASSUME NEW s \in PathText PROVE Split(s) \in Seq(Part)
<1>1. PICK f : Cuts(s, f) /\ Split(s) = f[Len(s)]
  BY SplitIs
<1>2. Len(s) \in 0 .. Len(s)
  BY DEF PathText
<1> QED BY <1>1, <1>2 DEF Cuts

Fronts(x, z) == Len(x) <= Len(z) /\ \A i \in 1 .. Len(x) : x[i] = z[i]

(* A text in front of another is split as that one is.                     *)
LEMMA SplitFront ==
  ASSUME NEW x \in PathText, NEW z \in PathText, NEW f, Cuts(z, f), Fronts(x, z)
  PROVE  Split(x) = f[Len(x)]
<1>1. PICK g : Cuts(x, g) /\ Split(x) = g[Len(x)]
  BY SplitIs
<1>0. /\ Len(x) \in Nat /\ Len(z) \in Nat /\ Len(x) <= Len(z)
      /\ \A i \in 1 .. Len(x) : x[i] = z[i]
  BY DEF PathText, Fronts
<1>2. /\ g[0] = <<>> /\ \A k \in 1 .. Len(x) : g[k] = Extended(x, g[k - 1], k)
      /\ f[0] = <<>> /\ \A k \in 1 .. Len(z) : f[k] = Extended(z, f[k - 1], k)
  BY <1>1 DEF Cuts
<1>3. ASSUME NEW k \in 1 .. Len(x), NEW v PROVE Extended(x, v, k) = Extended(z, v, k)
  <2>1. x[k] = z[k] /\ (k # 1 => x[k - 1] = z[k - 1])
    BY <1>0
  <2>2. CASE k = 1
    BY <2>1, <2>2 DEF Extended
  <2>3. CASE k # 1
    BY <2>1, <2>3 DEF Extended
  <2> QED BY <2>2, <2>3
<1> DEFINE U == {j \in Nat : j <= Len(x) => f[j] = g[j]}
<1>4. 0 \in U
  BY <1>2
<1>5. ASSUME NEW j \in Nat, j \in U PROVE j + 1 \in U
  <2> SUFFICES ASSUME j + 1 <= Len(x) PROVE f[j + 1] = g[j + 1]
    OBVIOUS
  <2>1. j + 1 \in 1 .. Len(x) /\ j + 1 \in 1 .. Len(z) /\ (j + 1) - 1 = j /\ f[j] = g[j]
    BY <1>0, <1>5
  <2> QED BY <1>2, <1>3, <2>1
<1>6. Nat \subseteq U
  <2> HIDE DEF U
  <2> QED BY <1>4, <1>5, Induct
<1> QED BY <1>0, <1>1, <1>6

LEMMA PrefixIsFront ==
  ASSUME NEW S, NEW s \in Seq(S), NEW t \in Seq(S)
  PROVE  IsPrefix(s, t) <=> Fronts(s, t)
<1>0. Len(s) \in Nat /\ Len(t) \in Nat
  OBVIOUS
<1> DEFINE a == SubSeq(s, 1, Len(s))  b == SubSeq(t, 1, Len(s))
<1> SUFFICES ASSUME Len(s) <= Len(t) PROVE a = b <=> \A i \in 1 .. Len(s) : s[i] = t[i]
  BY DEF IsPrefix, Fronts
<1>1. a \in Seq(S) /\ Len(a) = Len(s) /\ \A i \in 1 .. Len(s) : a[i] = s[i]
  BY <1>0
<1>2. b \in Seq(S) /\ Len(b) = Len(s) /\ \A i \in 1 .. Len(s) : b[i] = t[i]
  BY <1>0
<1> HIDE DEF a, b
<1>3. ASSUME \A i \in 1 .. Len(s) : s[i] = t[i] PROVE a = b
  <2>1. \A i \in 1 .. Len(a) : a[i] = b[i]
    BY <1>1, <1>2, <1>3
  <2> QED BY <1>1, <1>2, <2>1, SeqEqual
<1> QED BY <1>1, <1>2, <1>3

(* A front that ends at a slash, or before one.                            *)
Bounded(x, z) ==
    Fronts(x, z) /\ (Len(x) = Len(z) \/ x[Len(x)] = "/" \/ z[Len(x) + 1] = "/")

LEMMA BoundIsBounded ==
  ASSUME NEW S, NEW x \in Seq(S), NEW z \in Seq(S)
  PROVE  PrefixBound(x, z) <=> x # <<>> /\ Bounded(x, z)
<1>1. IsPrefix(x, z) <=> Fronts(x, z)
  BY PrefixIsFront
<1> QED BY <1>1 DEF PrefixBound, Bounded, Last

(* Its parts come first among the parts of the whole.                      *)
LEMMA SplitBound ==
  ASSUME NEW x \in PathText, NEW z \in PathText, x # <<>>, Bounded(x, z)
  PROVE  Fronts(Split(x), Split(z))
<1> DEFINE m == Len(x)  N == Len(z)
<1>0. /\ m \in Nat /\ N \in Nat /\ m >= 1 /\ m <= N
      /\ m = N \/ z[m] = "/" \/ z[m + 1] = "/"
  BY DEF PathText, Bounded, Fronts
<1>1. PICK f : Cuts(z, f) /\ Split(z) = f[N]
  BY SplitIs
<1>2. Split(x) = f[m]
  BY <1>1, SplitFront DEF Bounded
<1>3. f \in [0 .. N -> Seq(Part)] /\ \A k \in 1 .. N : f[k] = Extended(z, f[k - 1], k)
  BY <1>1 DEF Cuts
<1> HIDE DEF m, N
<1> DEFINE Good(k) == /\ Fronts(f[m], f[k])
                      /\ \/ Len(f[k]) > Len(f[m])
                         \/ f[k] = f[m] /\ (k = m \/ z[k] = "/")
           U == {j \in Nat : m + j <= N => Good(m + j)}
<1>4. 0 \in U
  BY <1>0 DEF Fronts
<1>5. ASSUME NEW j \in Nat, j \in U PROVE j + 1 \in U
  <2> SUFFICES ASSUME m + (j + 1) <= N PROVE Good(m + (j + 1))
    OBVIOUS
  <2> DEFINE k == m + j
  <2>1. /\ k \in 0 .. N /\ k \in Nat /\ k >= 1 /\ m + (j + 1) = k + 1 /\ (k + 1) - 1 = k
        /\ k + 1 \in 1 .. N /\ k + 1 # 1 /\ m \in 0 .. N /\ Good(k)
    BY <1>0, <1>5
  <2> HIDE DEF k
  <2> DEFINE a == f[m]  v == f[k]  w == f[k + 1]
  <2>2. a \in Seq(Part) /\ v \in Seq(Part) /\ w = Extended(z, v, k + 1)
    BY <1>3, <2>1
  <2>3. /\ Fronts(a, v)
        /\ Len(v) > Len(a) \/ (v = a /\ (k = m \/ z[k] = "/"))
    BY <2>1
  <2>n. N = Len(z)
    BY DEF N
  <2>4. Good(k + 1)
    <3> HIDE DEF a, v, w
    <3>1. CASE z[k + 1] = "/"
      <4>1. w = v
        BY <2>1, <2>2, <2>n, <3>1, ExtendedIs
      <4> QED BY <2>3, <3>1, <4>1 DEF a, v, w
    <3>2. CASE z[k + 1] # "/" /\ z[k] = "/"
      <4>1. w = Append(v, <<z[k + 1]>>)
        BY <2>1, <2>2, <2>n, <3>2, ExtendedIs
      <4>2. Len(w) = Len(v) + 1 /\ \A i \in 1 .. Len(v) : w[i] = v[i]
        BY <2>2, <4>1
      <4>3. Fronts(a, w) /\ Len(w) > Len(a)
        BY <2>2, <2>3, <4>2 DEF Fronts
      <4> QED BY <4>3 DEF a, v, w
    <3>3. CASE z[k + 1] # "/" /\ z[k] # "/"
      <4>1. ~(k = m)
        BY <1>0, <2>1, <3>3
      <4>2. Len(v) > Len(a) /\ v # <<>>
        BY <2>2, <2>3, <3>3, <4>1
      <4>c. k + 1 \in 1 .. Len(z) /\ k + 1 # 1 /\ z[(k + 1) - 1] # "/"
        BY <2>1, <2>n, <3>3
      <4>3. Len(w) = Len(v) /\ \A i \in 1 .. Len(a) : w[i] = v[i]
        BY <2>2, <3>3, <4>2, <4>c, ExtendedLast
      <4>4. Fronts(a, w) /\ Len(w) > Len(a)
        BY <2>2, <2>3, <4>2, <4>3 DEF Fronts
      <4> QED BY <4>4 DEF a, v, w
    <3> QED BY <3>1, <3>2, <3>3
  <2> QED BY <2>1, <2>4
<1>6. Nat \subseteq U
  <2> HIDE DEF U
  <2> QED BY <1>4, <1>5, Induct
<1>7. N - m \in Nat /\ m + (N - m) = N
  BY <1>0
<1>8. N - m \in U
  BY <1>6, <1>7
<1>9. Good(N)
  BY <1>0, <1>7, <1>8
<1> QED BY <1>1, <1>2, <1>9

LEMMA SubSeqGrows ==
  ASSUME NEW S, NEW s \in Seq(S), NEW i \in Nat, i + 1 <= Len(s)
  PROVE  Append(SubSeq(s, 1, i), s[i + 1]) = SubSeq(s, 1, i + 1)
<1> DEFINE a == SubSeq(s, 1, i)  b == SubSeq(s, 1, i + 1)  c == Append(a, s[i + 1])
<1>0. s[i + 1] \in S /\ i <= Len(s) /\ Len(s) \in Nat
  OBVIOUS
<1>1. a \in Seq(S) /\ Len(a) = i /\ \A k \in 1 .. i : a[k] = s[k]
  BY <1>0
<1>2. b \in Seq(S) /\ Len(b) = i + 1 /\ \A k \in 1 .. i + 1 : b[k] = s[k]
  BY <1>0
<1> HIDE DEF a, b
<1>3. c \in Seq(S) /\ Len(c) = i + 1 /\ (\A k \in 1 .. i : c[k] = a[k]) /\ c[i + 1] = s[i + 1]
  BY <1>0, <1>1
<1> HIDE DEF c
<1>4. \A k \in 1 .. Len(c) : c[k] = b[k]
  <2> TAKE k \in 1 .. Len(c)
  <2>1. k \in 1 .. i \/ k = i + 1
    BY <1>3
  <2>2. k \in 1 .. i + 1
    BY <2>1
  <2> QED BY <1>1, <1>2, <1>3, <2>1, <2>2
<1>5. c = b
  BY <1>2, <1>3, <1>4, SeqEqual
<1> QED BY <1>5 DEF a, b, c

(* BehindDrive a slash a name is a part of its own.                             *)
LEMMA SplitName ==
  ASSUME NEW w \in PathText, NEW p \in Part, w = <<>> \/ w[Len(w)] = "/", NEW z \in PathText,
         Len(z) = Len(w) + Len(p), \A i \in 1 .. Len(w) : z[i] = w[i],
         \A i \in 1 .. Len(p) : z[Len(w) + i] = p[i]
  PROVE  Split(z) = Append(Split(w), p)
<1> DEFINE m == Len(w)  n == Len(p)  a == Split(w)
<1>0. /\ m \in Nat /\ n \in Nat /\ n >= 1 /\ Len(z) = m + n /\ p \in PathText
      /\ \A i \in 1 .. n : p[i] # "/" /\ p[i] \in Characters
      /\ m # 0 => z[m] = "/"
  BY DEF Part, PathText
<1>1. PICK f : Cuts(z, f) /\ Split(z) = f[Len(z)]
  BY SplitIs
<1>2. a = f[m] /\ a \in Seq(Part)
  BY <1>0, <1>1, SplitFront, SplitType DEF Fronts
<1>3. f \in [0 .. m + n -> Seq(Part)] /\ \A k \in 1 .. m + n : f[k] = Extended(z, f[k - 1], k)
  BY <1>0, <1>1 DEF Cuts
<1>z. \A i \in 1 .. n : z[m + i] = p[i]
  OBVIOUS
<1> HIDE DEF m, n, a
<1> DEFINE Good(j) == /\ Len(f[m + j]) = Len(a) + 1
                      /\ \A i \in 1 .. Len(a) : f[m + j][i] = a[i]
                      /\ f[m + j][Len(a) + 1] = SubSeq(p, 1, j)
           U == {j \in Nat : j + 1 <= n => Good(j + 1)}
<1>4. 0 \in U
  <2>1. m + 1 \in 1 .. m + n /\ (m + 1) - 1 = m /\ 1 \in 1 .. n /\ z[m + 1] = p[1] /\ p[1] # "/"
    BY <1>0, <1>z
  <2>2. m + 1 = 1 \/ z[(m + 1) - 1] = "/"
    BY <1>0, <2>1
  <2>3. f[m + 1] = Append(a, <<p[1]>>)
    <3>1. f[m + 1] = Extended(z, a, m + 1) /\ m + 1 \in 1 .. Len(z)
      BY <1>0, <1>2, <1>3, <2>1
    <3> QED BY <1>2, <2>1, <2>2, <3>1, ExtendedIs
  <2>4. SubSeq(p, 1, 1) = <<p[1]>>
    <3>1. 0 + 1 <= Len(p) /\ p \in Seq(Characters) /\ 0 + 1 = 1
      BY <1>0 DEF n, PathText
    <3>2. Append(SubSeq(p, 1, 0), p[1]) = SubSeq(p, 1, 1)
      BY <3>1, SubSeqGrows
    <3>3. SubSeq(p, 1, 0) = <<>>
      BY SubSeqEmpty
    <3>4. \A e : Append(<<>>, e) = <<e>>
      OBVIOUS
    <3> QED BY <3>2, <3>3, <3>4, Zenon
  <2>5. Good(1)
    BY <1>2, <2>3, <2>4
  <2> QED BY <2>5
<1>5. ASSUME NEW j \in Nat, j \in U PROVE j + 1 \in U
  <2> SUFFICES ASSUME (j + 1) + 1 <= n PROVE Good((j + 1) + 1)
    OBVIOUS
  <2> DEFINE i == j + 1  k == m + i
  <2>1. /\ i \in Nat /\ i >= 1 /\ i + 1 \in 1 .. n /\ i \in 1 .. n /\ Good(i)
        /\ (j + 1) + 1 = i + 1 /\ m + (i + 1) = k + 1
        /\ k \in 0 .. m + n /\ k + 1 \in 1 .. m + n /\ k + 1 # 1 /\ (k + 1) - 1 = k
    BY <1>0, <1>5
  <2>2. z[k] # "/" /\ z[k + 1] = p[i + 1] /\ z[k + 1] # "/"
    BY <1>0, <1>z, <2>1
  <2> HIDE DEF i, k
  <2> DEFINE v == f[k]  u == f[k + 1]
  <2>3. /\ v \in Seq(Part) /\ u = Extended(z, v, k + 1)
        /\ Len(v) = Len(a) + 1 /\ (\A x \in 1 .. Len(a) : v[x] = a[x])
        /\ v[Len(a) + 1] = SubSeq(p, 1, i)
    BY <1>3, <2>1 DEF k
  <2> HIDE DEF v, u
  <2>4. v # <<>> /\ Len(a) \in Nat /\ k + 1 \in 1 .. Len(z) /\ z[(k + 1) - 1] # "/"
    BY <1>0, <1>2, <2>1, <2>2, <2>3
  <2>5. /\ Len(u) = Len(v)
        /\ \A x \in 1 .. Len(v) : u[x] = IF x = Len(v) THEN Append(v[Len(v)], z[k + 1]) ELSE v[x]
    BY <2>1, <2>2, <2>3, <2>4, ExtendedLast
  <2>6. Append(SubSeq(p, 1, i), p[i + 1]) = SubSeq(p, 1, i + 1)
    <3>1. p \in Seq(Characters) /\ i + 1 <= Len(p)
      BY <1>0, <2>1 DEF n, PathText
    <3> QED BY <2>1, <3>1, SubSeqGrows
  <2>7. Len(u) = Len(a) + 1 /\ (\A x \in 1 .. Len(a) : u[x] = a[x])
    <3>1. \A x \in 1 .. Len(a) : x \in 1 .. Len(v) /\ x # Len(v)
      BY <2>3, <2>4
    <3>2. \A x \in 1 .. Len(a) : u[x] = v[x]
      BY <2>5, <3>1, Zenon
    <3> QED BY <2>3, <2>5, <3>2
  <2>8. u[Len(a) + 1] = SubSeq(p, 1, i + 1)
    <3>1. Len(a) + 1 \in 1 .. Len(v) /\ Len(v) = Len(a) + 1
      BY <2>3, <2>4
    <3>2. u[Len(a) + 1] = Append(v[Len(a) + 1], z[k + 1])
      BY <2>5, <3>1
    <3> QED BY <2>2, <2>3, <2>6, <3>2
  <2>9. Good(i + 1)
    BY <2>1, <2>7, <2>8 DEF u
  <2> QED BY <2>1, <2>9
<1>6. Nat \subseteq U
  <2> HIDE DEF U
  <2> QED BY <1>4, <1>5, Induct
<1>7. n - 1 \in Nat /\ (n - 1) + 1 = n
  BY <1>0
<1>8. n - 1 \in U
  BY <1>6, <1>7
<1>9. Good(n)
  BY <1>0, <1>7, <1>8
<1>10. SubSeq(p, 1, n) = p
  BY <1>0 DEF n, PathText
<1> DEFINE r == f[m + n]  q == Append(a, p)
<1>11. /\ r \in Seq(Part) /\ Len(r) = Len(a) + 1 /\ r[Len(a) + 1] = p
       /\ \A i \in 1 .. Len(a) : r[i] = a[i]
  BY <1>0, <1>3, <1>9, <1>10
<1>12. /\ q \in Seq(Part) /\ Len(q) = Len(a) + 1 /\ q[Len(a) + 1] = p
       /\ \A i \in 1 .. Len(a) : q[i] = a[i]
  BY <1>2
<1> HIDE DEF r, q
<1>13. \A i \in 1 .. Len(r) : r[i] = q[i]
  <2>1. Len(a) \in Nat
    BY <1>2
  <2> TAKE i \in 1 .. Len(r)
  <2>2. i \in 1 .. Len(a) \/ i = Len(a) + 1
    BY <1>11, <2>1
  <2> QED BY <1>11, <1>12, <2>2
<1>14. r = q
  BY <1>11, <1>12, <1>13, SeqEqual
<1> QED BY <1>0, <1>1, <1>14 DEF r, q, a, m, n

LEMMA SplitSlash ==
  ASSUME NEW w \in PathText, NEW z \in PathText, Len(z) = Len(w) + 1, z[Len(w) + 1] = "/",
         \A i \in 1 .. Len(w) : z[i] = w[i]
  PROVE  Split(z) = Split(w)
<1>0. Len(w) \in Nat /\ Fronts(w, z)
  BY DEF PathText, Fronts
<1>1. PICK f : Cuts(z, f) /\ Split(z) = f[Len(z)]
  BY SplitIs
<1>2. Split(w) = f[Len(w)]
  BY <1>0, <1>1, SplitFront
<1> DEFINE k == Len(w) + 1
<1>3. k \in 1 .. Len(z) /\ k - 1 = Len(w) /\ k = Len(z)
  BY <1>0
<1>4. f[k] = Extended(z, f[k - 1], k) /\ f[k - 1] \in Seq(Part)
  BY <1>0, <1>1, <1>3 DEF Cuts
<1>5. z[k] = "/"
  OBVIOUS
<1> HIDE DEF k
<1>6. f[k] = f[k - 1]
  BY <1>3, <1>4, <1>5, ExtendedIs
<1> QED BY <1>1, <1>2, <1>3, <1>6

LEMMA SplitNone == Split(<<>>) = <<>>
<1>1. <<>> \in PathText
  BY DEF PathText
<1>2. PICK f : Cuts(<<>>, f) /\ Split(<<>>) = f[Len(<<>>)]
  BY <1>1, SplitIs
<1>3. Len(<<>>) = 0 /\ f[0] = <<>>
  BY <1>2 DEF Cuts
<1> QED BY <1>2, <1>3

-----------------------------------------------------------------------------
(* Joining.                                                                *)

Rooted == {<<>>, <<"/">>}

LEMMA RootedIsText ==
  ASSUME NEW root \in Rooted
  PROVE  root \in PathText /\ (root = <<>> \/ (Len(root) = 1 /\ root[1] = "/")) /\ <<>> \in PathText
<1>1. "/" \in Characters
  BY DEF Characters
<1>2. <<"/">> \in Seq(Characters) /\ <<>> \in Seq(Characters) /\ Len(<<"/">>) = 1 /\ <<"/">>[1] = "/"
  BY <1>1
<1>3. root = <<>> \/ root = <<"/">>
  BY DEF Rooted
<1> QED BY <1>2, <1>3 DEF PathText

(* f has the names of every front of names, joined behind root.            *)
Joins(root, names, f) ==
    /\ f \in [0 .. Len(names) -> PathText]
    /\ f[0] = root
    /\ \A k \in 1 .. Len(names) : f[k] = f[k - 1] \o Slashed(k, names[k])

JoinTable(root, names, f) ==
    f = [k \in 0 .. Len(names) |-> IF k = 0 THEN root ELSE f[k - 1] \o Slashed(k, names[k])]

LEMMA SlashedIs ==
  ASSUME NEW p \in Part, NEW k \in Nat, k # 0
  PROVE  /\ Slashed(k, p) \in PathText
         /\ k = 1 => Slashed(k, p) = p
         /\ k # 1 => /\ Len(Slashed(k, p)) = Len(p) + 1
                     /\ Slashed(k, p)[1] = "/"
                     /\ \A i \in 1 .. Len(p) : Slashed(k, p)[i + 1] = p[i]
<1>0. p \in PathText /\ <<"/">> \in PathText
  BY DEF Part, PathText, Characters
<1>1. CASE k = 1
  BY <1>0, <1>1 DEF Slashed
<1>2. CASE k # 1
  <2> DEFINE r == <<"/">>  q == r \o p
  <2>1. Slashed(k, p) = q
    BY <1>2, Zenon DEF Slashed
  <2>2. Len(r) = 1 /\ r[1] = "/" /\ r \in Seq(Characters) /\ p \in Seq(Characters) /\ Len(p) \in Nat
    BY <1>0 DEF PathText
  <2> HIDE DEF r
  <2>3. /\ q \in Seq(Characters) /\ Len(q) = Len(r) + Len(p)
        /\ \A i \in 1 .. Len(r) + Len(p) : q[i] = IF i <= Len(r) THEN r[i] ELSE p[i - Len(r)]
    BY <2>2, ConcatProperties
  <2> HIDE DEF q
  <2>4. q[1] = "/" /\ \A i \in 1 .. Len(p) : q[i + 1] = p[i]
    <3>1. 1 \in 1 .. Len(r) + Len(p) /\ 1 <= Len(r)
      BY <2>2
    <3>2. q[1] = "/"
      BY <2>2, <2>3, <3>1
    <3>3. ASSUME NEW i \in 1 .. Len(p) PROVE q[i + 1] = p[i]
      <4>1. i + 1 \in 1 .. Len(r) + Len(p) /\ ~(i + 1 <= Len(r)) /\ (i + 1) - Len(r) = i
        BY <2>2
      <4> QED BY <2>3, <4>1
    <3> QED BY <3>2, <3>3
  <2>5. q \in PathText /\ Len(q) = Len(p) + 1
    BY <2>2, <2>3 DEF PathText
  <2> QED BY <1>2, <2>1, <2>4, <2>5
<1> QED BY <1>1, <1>2

LEMMA TextCat ==
  ASSUME NEW x \in PathText, NEW y \in PathText
  PROVE  /\ x \o y \in PathText /\ Len(x \o y) = Len(x) + Len(y)
         /\ \A i \in 1 .. Len(x) : (x \o y)[i] = x[i]
         /\ \A i \in 1 .. Len(y) : (x \o y)[Len(x) + i] = y[i]
<1> DEFINE z == x \o y
<1>0. x \in Seq(Characters) /\ y \in Seq(Characters) /\ Len(x) \in Nat /\ Len(y) \in Nat
  BY DEF PathText
<1>1. /\ z \in Seq(Characters) /\ Len(z) = Len(x) + Len(y)
      /\ \A i \in 1 .. Len(x) + Len(y) : z[i] = IF i <= Len(x) THEN x[i] ELSE y[i - Len(x)]
  BY <1>0, ConcatProperties
<1> HIDE DEF z
<1>2. ASSUME NEW i \in 1 .. Len(x) PROVE z[i] = x[i]
  <2>1. i \in 1 .. Len(x) + Len(y) /\ i <= Len(x)
    BY <1>0
  <2> QED BY <1>1, <2>1
<1>3. ASSUME NEW i \in 1 .. Len(y) PROVE z[Len(x) + i] = y[i]
  <2>1. Len(x) + i \in 1 .. Len(x) + Len(y) /\ ~(Len(x) + i <= Len(x)) /\ (Len(x) + i) - Len(x) = i
    BY <1>0
  <2> QED BY <1>1, <2>1
<1>4. z \in PathText /\ Len(z) = Len(x) + Len(y)
  BY <1>1 DEF PathText
<1>5. /\ z \in PathText /\ Len(z) = Len(x) + Len(y)
      /\ \A i \in 1 .. Len(x) : z[i] = x[i]
      /\ \A i \in 1 .. Len(y) : z[Len(x) + i] = y[i]
  BY <1>2, <1>3, <1>4
<1> QED BY <1>5, Zenon DEF z

LEMMA JoinsExist ==
  ASSUME NEW root \in Rooted, NEW names \in Seq(Part)
  PROVE  \E f : Joins(root, names, f)
<1> DEFINE X == PathText
           m == Len(names)
           Next1(i, v) == v \o Slashed(i, names[i])
           G == [i \in Nat |-> [v \in X |-> IF i \in 1 .. m THEN Next1(i, v) ELSE <<>>]]
<1>0. m \in Nat
  OBVIOUS
<1>1. root \in X /\ <<>> \in X
  BY RootedIsText
<1>2. ASSUME NEW i \in 1 .. m, NEW v \in X PROVE Next1(i, v) \in X
  <2>1. names[i] \in Part /\ i \in Nat /\ i # 0
    OBVIOUS
  <2>2. Slashed(i, names[i]) \in PathText
    BY <2>1, SlashedIs
  <2> QED BY <2>2, TextCat
<1>3. \A i \in 1 .. m : i \in Nat
  OBVIOUS
<1> HIDE DEF X, m, Next1
<1>4. G \in [Nat -> [X -> X]] /\ \A i \in 1 .. m, v \in X : G[i][v] = Next1(i, v)
  BY <1>1, <1>2, <1>3
<1> HIDE DEF G
<1>5. PICK f : Chained(X, root, G, m, f)
  BY <1>0, <1>1, <1>4, ChainExists
<1>6. /\ f \in [0 .. m -> X] /\ f[0] = root
      /\ \A i \in 1 .. m : f[i] = G[i][f[i - 1]]
  BY <1>5 DEF Chained
<1>7. \A k \in 1 .. m : f[k - 1] \in X
  BY <1>0, <1>6
<1>8. \A k \in 1 .. m : f[k] = Next1(k, f[k - 1])
  BY <1>4, <1>6, <1>7
<1>9. Joins(root, names, f)
  BY <1>6, <1>8, Zenon DEF Joins, X, m, Next1
<1> QED BY <1>9

LEMMA JoinsAreTables ==
  ASSUME NEW root \in Rooted, NEW names \in Seq(Part), NEW f
  PROVE  Joins(root, names, f) <=> JoinTable(root, names, f)
<1> DEFINE Next1(i, v) == v \o Slashed(i, names[i])
           h == [k \in 0 .. Len(names) |-> IF k = 0 THEN root ELSE Next1(k, f[k - 1])]
<1>0. Len(names) \in Nat /\ root \in PathText
  BY RootedIsText
<1>3. JoinTable(root, names, f) <=> f = h
  BY Zenon DEF JoinTable
<1>t. ASSUME NEW i \in 1 .. Len(names), NEW v \in PathText PROVE Next1(i, v) \in PathText
  <2>1. names[i] \in Part /\ i \in Nat /\ i # 0
    OBVIOUS
  <2>2. Slashed(i, names[i]) \in PathText
    BY <2>1, SlashedIs
  <2> QED BY <2>2, TextCat
<1>j. Joins(root, names, f) <=> /\ f \in [0 .. Len(names) -> PathText] /\ f[0] = root
                                /\ \A k \in 1 .. Len(names) : f[k] = Next1(k, f[k - 1])
  BY Zenon DEF Joins
<1> HIDE DEF Next1
<1>1. h[0] = root /\ \A k \in 1 .. Len(names) : h[k] = Next1(k, f[k - 1])
  BY <1>0
<1>2. h = [k \in 0 .. Len(names) |-> h[k]]
  OBVIOUS
<1> HIDE DEF h
<1>4. ASSUME Joins(root, names, f) PROVE f = h
  <2>1. /\ f \in [0 .. Len(names) -> PathText] /\ f[0] = root
        /\ \A k \in 1 .. Len(names) : f[k] = Next1(k, f[k - 1])
    BY <1>4, <1>j
  <2>2. \A k \in 0 .. Len(names) : f[k] = h[k]
    <3> TAKE k \in 0 .. Len(names)
    <3>1. k = 0 \/ k \in 1 .. Len(names)
      BY <1>0
    <3> QED BY <1>1, <2>1, <3>1
  <2>3. f = [k \in 0 .. Len(names) |-> f[k]]
    BY <2>1
  <2> QED BY <1>2, <2>2, <2>3
<1>5. ASSUME f = h PROVE Joins(root, names, f)
  <2>1. f[0] = root /\ \A k \in 1 .. Len(names) : f[k] = Next1(k, f[k - 1])
    BY <1>1, <1>5
  <2> DEFINE U == {j \in Nat : j <= Len(names) => f[j] \in PathText}
  <2>2. 0 \in U
    BY <1>0, <2>1
  <2>3. ASSUME NEW j \in Nat, j \in U PROVE j + 1 \in U
    <3> SUFFICES ASSUME j + 1 <= Len(names) PROVE f[j + 1] \in PathText
      OBVIOUS
    <3>1. j + 1 \in 1 .. Len(names) /\ (j + 1) - 1 = j /\ f[j] \in PathText
      BY <1>0, <2>3
    <3>2. f[j + 1] = Next1(j + 1, f[j])
      BY <2>1, <3>1
    <3> QED BY <1>t, <3>1, <3>2
  <2>4. Nat \subseteq U
    <3> HIDE DEF U
    <3> QED BY <2>2, <2>3, Induct
  <2>5. \A k \in 0 .. Len(names) : f[k] \in PathText
    BY <1>0, <2>4
  <2>6. f = [k \in 0 .. Len(names) |-> f[k]]
    BY <1>2, <1>5
  <2>7. f \in [0 .. Len(names) -> PathText]
    BY <2>5, <2>6
  <2> QED BY <1>j, <2>1, <2>7
<1> QED BY <1>3, <1>4, <1>5

LEMMA JoinedIs ==
  ASSUME NEW root \in Rooted, NEW names \in Seq(Part)
  PROVE  \E f : Joins(root, names, f) /\ Joined(root, names) = f[Len(names)]
<1> DEFINE f == CHOOSE g : JoinTable(root, names, g)
<1>1. JoinTable(root, names, f)
  BY JoinsExist, JoinsAreTables
<1>2. Joined(root, names) = f[Len(names)]
  BY Zenon DEF Joined, JoinTable
<1>3. Joins(root, names, f)
  <2> HIDE DEF f
  <2> QED BY <1>1, JoinsAreTables
<1> QED BY <1>2, <1>3

(* Splitting takes a joined text apart.                                    *)
LEMMA SplitRoot == ASSUME NEW root \in Rooted PROVE Split(root) = <<>>
<1>1. /\ root \in PathText /\ <<>> \in PathText
      /\ root = <<>> \/ (Len(root) = 1 /\ root[1] = "/")
  BY RootedIsText
<1>2. CASE Len(root) = 1 /\ root[1] = "/"
  <2>1. Len(root) = Len(<<>>) + 1 /\ root[Len(<<>>) + 1] = "/"
    BY <1>2
  <2>2. \A i \in 1 .. Len(<<>>) : root[i] = <<>>[i]
    OBVIOUS
  <2>3. Split(root) = Split(<<>>)
    BY <1>1, <2>1, <2>2, SplitSlash
  <2> QED BY <2>3, SplitNone
<1>3. CASE root = <<>>
  BY <1>3, SplitNone
<1> QED BY <1>1, <1>2, <1>3

LEMMA SplitJoins ==
  ASSUME NEW root \in Rooted, NEW names \in Seq(Part), NEW f, Joins(root, names, f)
  PROVE  \A k \in 0 .. Len(names) : Split(f[k]) = SubSeq(names, 1, k)
<1> DEFINE N == Len(names)
           U == {k \in Nat : k <= N => Split(f[k]) = SubSeq(names, 1, k)}
<1>0. N \in Nat
  OBVIOUS
<1>1. /\ f \in [0 .. N -> PathText] /\ f[0] = root
      /\ \A k \in 1 .. N : f[k] = f[k - 1] \o Slashed(k, names[k])
  BY Zenon DEF Joins
<1>2. 0 \in U
  <2>1. Split(f[0]) = <<>>
    BY <1>1, SplitRoot
  <2>2. SubSeq(names, 1, 0) = <<>>
    BY SubSeqEmpty
  <2>3. Split(f[0]) = SubSeq(names, 1, 0)
    BY <2>1, <2>2, Zenon
  <2> QED BY <2>3
<1>3. ASSUME NEW k \in Nat, k \in U PROVE k + 1 \in U
  <2> SUFFICES ASSUME k + 1 <= N PROVE Split(f[k + 1]) = SubSeq(names, 1, k + 1)
    OBVIOUS
  <2> DEFINE p == names[k + 1]  w == f[k]  z == f[k + 1]  y == Slashed(k + 1, p)
  <2>1. /\ k + 1 \in 1 .. N /\ (k + 1) - 1 = k /\ k \in 0 .. N /\ k + 1 \in 0 .. N
        /\ k + 1 \in Nat /\ k + 1 # 0 /\ p \in Part
        /\ Split(w) = SubSeq(names, 1, k)
    BY <1>0, <1>3
  <2>2. f[k + 1] = f[(k + 1) - 1] \o Slashed(k + 1, names[k + 1])
    BY <1>1, <2>1
  <2>3. w \in PathText /\ z \in PathText /\ p \in PathText /\ Len(w) \in Nat /\ Len(p) \in Nat
    BY <1>1, <2>1 DEF Part, PathText
  <2>4. y \in PathText
    BY <2>1, SlashedIs
  <2>5. /\ Len(z) = Len(w) + Len(y) /\ \A i \in 1 .. Len(w) : z[i] = w[i]
        /\ \A i \in 1 .. Len(y) : z[Len(w) + i] = y[i]
    <3>1. z = w \o y
      BY <2>1, <2>2
    <3> HIDE DEF w, z, y
    <3> QED BY <2>3, <2>4, <3>1, TextCat
  <2>6. Split(z) = Append(Split(w), p)
    <3>1. CASE k = 0
      <4>1. y = p
        BY <2>1, <3>1, SlashedIs
      <4>2. w = <<>> \/ w[Len(w)] = "/"
        BY <1>1, <3>1, RootedIsText
      <4> HIDE DEF w, z, y, p
      <4> QED BY <2>1, <2>3, <2>5, <4>1, <4>2, SplitName
    <3>2. CASE k # 0
      <4>1. Len(y) = Len(p) + 1 /\ y[1] = "/" /\ \A i \in 1 .. Len(p) : y[i + 1] = p[i]
        <5>1. k + 1 # 1
          BY <3>2
        <5> QED BY <2>1, <5>1, SlashedIs
      <4> DEFINE r == <<"/">>  v == w \o r
      <4>r. r \in PathText /\ Len(r) = 1 /\ r[1] = "/"
        BY RootedIsText DEF Rooted
      <4> HIDE DEF w, z, y, p, r
      <4>2. /\ v \in PathText /\ Len(v) = Len(w) + 1 /\ (\A i \in 1 .. Len(w) : v[i] = w[i])
            /\ v[Len(w) + 1] = "/"
        <5>1. /\ v \in PathText /\ Len(v) = Len(w) + Len(r)
              /\ \A i \in 1 .. Len(w) : v[i] = w[i]
              /\ \A i \in 1 .. Len(r) : v[Len(w) + i] = r[i]
          BY <2>3, <4>r, TextCat
        <5> HIDE DEF v
        <5>2. 1 \in 1 .. Len(r)
          BY <4>r
        <5> QED BY <4>r, <5>1, <5>2
      <4> HIDE DEF v
      <4>3. Split(v) = Split(w)
        BY <2>3, <4>2, SplitSlash
      <4>4. v[Len(v)] = "/"
        BY <4>2
      <4>5. Len(z) = Len(v) + Len(p)
        BY <2>3, <2>5, <4>1, <4>2
      <4>6. ASSUME NEW i \in 1 .. Len(v) PROVE z[i] = v[i]
        <5>1. i \in 1 .. Len(w) \/ i = Len(w) + 1
          BY <2>3, <4>2
        <5>2. CASE i \in 1 .. Len(w)
          BY <2>5, <4>2, <5>2
        <5>3. CASE i = Len(w) + 1
          <6>1. 1 \in 1 .. Len(y)
            BY <2>3, <4>1
          <6>2. z[Len(w) + 1] = "/"
            BY <2>5, <4>1, <6>1
          <6> QED BY <4>2, <5>3, <6>2
        <5> QED BY <5>1, <5>2, <5>3
      <4>7. ASSUME NEW i \in 1 .. Len(p) PROVE z[Len(v) + i] = p[i]
        <5>1. i + 1 \in 1 .. Len(y) /\ Len(v) + i = Len(w) + (i + 1)
          BY <2>3, <4>1, <4>2
        <5>2. z[Len(w) + (i + 1)] = y[i + 1]
          BY <2>5, <5>1
        <5> QED BY <4>1, <5>1, <5>2
      <4>8. Split(z) = Append(Split(v), p)
        BY <2>1, <2>3, <4>2, <4>4, <4>5, <4>6, <4>7, SplitName
      <4> QED BY <4>3, <4>8
    <3> QED BY <3>1, <3>2
  <2>7. Append(SubSeq(names, 1, k), names[k + 1]) = SubSeq(names, 1, k + 1)
    BY <2>1, SubSeqGrows
  <2>8. Split(z) = SubSeq(names, 1, k + 1)
    <3> HIDE DEF z, w
    <3> QED BY <2>1, <2>6, <2>7
  <2> QED BY <2>8
<1>4. Nat \subseteq U
  <2> HIDE DEF U
  <2> QED BY <1>2, <1>3, Induct
<1> QED BY <1>0, <1>4

LEMMA SplitJoined ==
  ASSUME NEW root \in Rooted, NEW names \in Seq(Part)
  PROVE  Joined(root, names) \in PathText /\ Split(Joined(root, names)) = names
<1>1. PICK f : Joins(root, names, f) /\ Joined(root, names) = f[Len(names)]
  BY JoinedIs
<1>2. Len(names) \in 0 .. Len(names)
  OBVIOUS
<1>3. Split(f[Len(names)]) = SubSeq(names, 1, Len(names))
  BY <1>1, <1>2, SplitJoins
<1>4. SubSeq(names, 1, Len(names)) = names
  BY SubSeqFull
<1>5. f[Len(names)] \in PathText
  BY <1>1, <1>2 DEF Joins
<1> QED BY <1>1, <1>3, <1>4, <1>5

(* What is joined first stays in front, up to a slash.                     *)
LEMMA JoinsBound ==
  ASSUME NEW root \in Rooted, NEW names \in Seq(Part), NEW f, Joins(root, names, f),
         NEW n \in 0 .. Len(names), n = 0 => root # <<>>
  PROVE  Bounded(f[n], f[Len(names)])
<1> DEFINE N == Len(names)
           a == f[n]
           L == Len(a)
           Good(k) == /\ Fronts(a, f[k])
                      /\ k # n => Len(f[k]) > L /\ (a[L] = "/" \/ f[k][L + 1] = "/")
           U == {j \in Nat : n + j <= N => Good(n + j)}
<1>1. /\ f \in [0 .. N -> PathText] /\ f[0] = root
      /\ \A k \in 1 .. N : f[k] = f[k - 1] \o Slashed(k, names[k])
  BY Zenon DEF Joins
<1>0. N \in Nat /\ n \in Nat /\ a \in PathText /\ L \in Nat
  BY <1>1 DEF PathText
<1>r. n = 0 => a[L] = "/"
  BY <1>1, RootedIsText
<1> HIDE DEF N, L
<1>2. 0 \in U
  BY <1>0 DEF Fronts
<1>3. ASSUME NEW j \in Nat, j \in U PROVE j + 1 \in U
  <2> SUFFICES ASSUME n + (j + 1) <= N PROVE Good(n + (j + 1))
    OBVIOUS
  <2> DEFINE k == n + j
  <2>1. /\ k \in Nat /\ k >= n /\ n + (j + 1) = k + 1 /\ k + 1 \in 1 .. N /\ (k + 1) - 1 = k
        /\ k \in 0 .. N /\ k + 1 \in Nat /\ k + 1 # 0 /\ Good(k)
        /\ k = n /\ n # 0 => k + 1 # 1
    BY <1>0, <1>3
  <2> HIDE DEF k
  <2> DEFINE p == names[k + 1]  w == f[k]  z == f[k + 1]  y == Slashed(k + 1, p)
  <2>2. p \in Part /\ w \in PathText /\ Len(w) \in Nat
    BY <1>1, <2>1 DEF N, PathText
  <2>3. y \in PathText /\ Len(y) >= 1 /\ Len(y) \in Nat /\ (k + 1 # 1 => y[1] = "/")
    <3>1. Len(p) \in Nat /\ Len(p) >= 1
      BY <2>2 DEF Part, PathText
    <3>2. y \in PathText /\ (k + 1 = 1 => Len(y) = Len(p)) /\ (k + 1 # 1 => Len(y) = Len(p) + 1 /\ y[1] = "/")
      BY <2>1, <2>2, SlashedIs
    <3> HIDE DEF y, p
    <3> QED BY <3>1, <3>2
  <2>4. z = w \o y
    BY <1>1, <2>1
  <2>5. Fronts(a, w) /\ (k # n => Len(w) > L /\ (a[L] = "/" \/ w[L + 1] = "/"))
    BY <2>1
  <2> HIDE DEF w, z, y, p
  <2>6. /\ Len(z) = Len(w) + Len(y) /\ \A i \in 1 .. Len(w) : z[i] = w[i]
        /\ \A i \in 1 .. Len(y) : z[Len(w) + i] = y[i]
    BY <2>2, <2>3, <2>4, TextCat
  <2>7. Fronts(a, z) /\ Len(z) > L
    <3>1. L <= Len(w) /\ \A i \in 1 .. L : a[i] = w[i]
      BY <2>5 DEF Fronts, L
    <3>2. L <= Len(z) /\ Len(z) > L /\ \A i \in 1 .. L : a[i] = z[i]
      BY <1>0, <2>2, <2>3, <2>6, <3>1
    <3> QED BY <3>2 DEF Fronts, L
  <2>8. a[L] = "/" \/ z[L + 1] = "/"
    <3>1. CASE k # n
      <4>1. L + 1 \in 1 .. Len(w)
        BY <1>0, <2>2, <2>5, <3>1
      <4> QED BY <2>5, <2>6, <3>1, <4>1
    <3>2. CASE k = n /\ n = 0
      BY <1>r, <3>2
    <3>3. CASE k = n /\ n # 0
      <4>1. w = a /\ y[1] = "/" /\ 1 \in 1 .. Len(y)
        BY <2>1, <2>3, <3>3 DEF w
      <4>2. z[Len(w) + 1] = "/"
        BY <2>6, <4>1
      <4> QED BY <4>1, <4>2 DEF L
    <3> QED BY <3>1, <3>2, <3>3
  <2>9. Good(k + 1)
    BY <2>7, <2>8 DEF z
  <2> QED BY <2>1, <2>9
<1>4. Nat \subseteq U
  <2> HIDE DEF U
  <2> QED BY <1>2, <1>3, Induct
<1>5. N - n \in Nat /\ n + (N - n) = N
  BY <1>0 DEF N
<1>6. N - n \in U
  BY <1>4, <1>5
<1>7. Good(N)
  BY <1>0, <1>5, <1>6
<1>8. Bounded(a, f[N])
  BY <1>7 DEF Bounded, L
<1> QED BY <1>8 DEF N

LEMMA JoinedNone == ASSUME NEW root \in Rooted PROVE Joined(root, <<>>) = root
<1>1. <<>> \in Seq(Part) /\ Len(<<>>) = 0
  OBVIOUS
<1>2. PICK f : Joins(root, <<>>, f) /\ Joined(root, <<>>) = f[Len(<<>>)]
  BY <1>1, JoinedIs
<1>3. f[0] = root
  BY <1>2, Zenon DEF Joins
<1> QED BY <1>1, <1>2, <1>3

LEMMA JoinFront ==
  ASSUME NEW root \in Rooted, NEW ms \in Seq(Part), NEW ns \in Seq(Part), Fronts(ns, ms),
         NEW f, Joins(root, ms, f)
  PROVE  Joined(root, ns) = f[Len(ns)]
<1>1. PICK g : Joins(root, ns, g) /\ Joined(root, ns) = g[Len(ns)]
  BY JoinedIs
<1> DEFINE Next1(k, p, v) == v \o Slashed(k, p)
<1>0. /\ Len(ns) \in Nat /\ Len(ms) \in Nat /\ Len(ns) <= Len(ms)
      /\ \A i \in 1 .. Len(ns) : ns[i] = ms[i]
  BY DEF Fronts
<1>2. /\ g[0] = root /\ \A k \in 1 .. Len(ns) : g[k] = Next1(k, ns[k], g[k - 1])
      /\ f[0] = root /\ \A k \in 1 .. Len(ms) : f[k] = Next1(k, ms[k], f[k - 1])
  BY <1>1, Zenon DEF Joins
<1> HIDE DEF Next1
<1> DEFINE U == {j \in Nat : j <= Len(ns) => f[j] = g[j]}
<1>4. 0 \in U
  BY <1>2
<1>5. ASSUME NEW j \in Nat, j \in U PROVE j + 1 \in U
  <2> SUFFICES ASSUME j + 1 <= Len(ns) PROVE f[j + 1] = g[j + 1]
    OBVIOUS
  <2>1. j + 1 \in 1 .. Len(ns) /\ j + 1 \in 1 .. Len(ms) /\ (j + 1) - 1 = j /\ f[j] = g[j]
    BY <1>0, <1>5
  <2> QED BY <1>0, <1>2, <2>1
<1>6. Nat \subseteq U
  <2> HIDE DEF U
  <2> QED BY <1>4, <1>5, Induct
<1> QED BY <1>0, <1>1, <1>6

(* Joined texts are in front of each other as their names are.             *)
LEMMA JoinedBound ==
  ASSUME NEW root \in Rooted, NEW ns \in Seq(Part), NEW ms \in Seq(Part),
         Joined(root, ns) # <<>>
  PROVE  Bounded(Joined(root, ns), Joined(root, ms)) <=> Fronts(ns, ms)
<1>1. ASSUME Bounded(Joined(root, ns), Joined(root, ms)) PROVE Fronts(ns, ms)
  <2>1. /\ Joined(root, ns) \in PathText /\ Split(Joined(root, ns)) = ns
        /\ Joined(root, ms) \in PathText /\ Split(Joined(root, ms)) = ms
    BY SplitJoined
  <2>2. Fronts(Split(Joined(root, ns)), Split(Joined(root, ms)))
    BY <1>1, <2>1, SplitBound
  <2> QED BY <2>1, <2>2
<1>2. ASSUME Fronts(ns, ms) PROVE Bounded(Joined(root, ns), Joined(root, ms))
  <2>1. PICK f : Joins(root, ms, f) /\ Joined(root, ms) = f[Len(ms)]
    BY JoinedIs
  <2>2. Joined(root, ns) = f[Len(ns)]
    BY <1>2, <2>1, JoinFront
  <2>3. Len(ns) \in 0 .. Len(ms)
    BY <1>2 DEF Fronts
  <2>4. Len(ns) = 0 => root # <<>>
    <3>1. ASSUME Len(ns) = 0, root = <<>> PROVE FALSE
      <4>1. ns = <<>>
        BY <3>1
      <4> QED BY <3>1, <4>1, JoinedNone
    <3> QED BY <3>1
  <2>5. Bounded(f[Len(ns)], f[Len(ms)])
    BY <2>1, <2>3, <2>4, JoinsBound
  <2> QED BY <2>1, <2>2, <2>5
<1> QED BY <1>1, <1>2

(* How a joined text starts.                                               *)
LEMMA JoinedHead ==
  ASSUME NEW root \in Rooted, NEW names \in Seq(Part)
  PROVE  /\ root # <<>> => Len(Joined(root, names)) >= 1 /\ Joined(root, names)[1] = "/"
         /\ root = <<>> /\ names # <<>> => Bounded(names[1], Joined(root, names))
         /\ root = <<>> /\ names = <<>> => Joined(root, names) = <<>>
<1>1. PICK f : Joins(root, names, f) /\ Joined(root, names) = f[Len(names)]
  BY JoinedIs
<1>2. ASSUME root # <<>> PROVE Len(Joined(root, names)) >= 1 /\ Joined(root, names)[1] = "/"
  <2>1. 0 \in 0 .. Len(names) /\ f[0] = root
    BY <1>1 DEF Joins
  <2>2. Bounded(root, f[Len(names)])
    BY <1>1, <1>2, <2>1, JoinsBound
  <2>3. Len(root) = 1 /\ root[1] = "/"
    BY <1>2, RootedIsText
  <2> QED BY <1>1, <2>2, <2>3 DEF Bounded, Fronts
<1>3. ASSUME root = <<>>, names # <<>> PROVE Bounded(names[1], Joined(root, names))
  <2>1. 1 \in 0 .. Len(names) /\ 1 \in 1 .. Len(names) /\ 1 - 1 = 0 /\ names[1] \in Part
    BY <1>3
  <2>2. Bounded(f[1], f[Len(names)])
    BY <1>1, <2>1, JoinsBound
  <2>3. f[1] = f[1 - 1] \o Slashed(1, names[1]) /\ f[0] = root
    BY <1>1, <2>1 DEF Joins
  <2>4. Slashed(1, names[1]) = names[1]
    BY DEF Slashed
  <2>5. \A x \in PathText : <<>> \o x = x
    BY DEF PathText
  <2>6. f[1] = names[1]
    <3>1. names[1] \in PathText
      BY <2>1 DEF Part
    <3>2. f[1] = <<>> \o names[1]
      BY <1>3, <2>1, <2>3, <2>4
    <3> QED BY <2>5, <3>1, <3>2
  <2> QED BY <1>1, <2>2, <2>6
<1>4. root = <<>> /\ names = <<>> => Joined(root, names) = <<>>
  BY JoinedNone
<1> QED BY <1>2, <1>3, <1>4

-----------------------------------------------------------------------------
(* Steps up and names.                                                     *)

NameParts(P, first, last) == {k \in first .. last : P[k] \notin {Up, Here}}
UpParts(P, first, last) == {k \in first .. last : P[k] = Up}
Depth(P, first, last) == Cardinality(NameParts(P, first, last)) - Cardinality(UpParts(P, first, last))
Worth(p) == IF p = Up THEN 0 - 1 ELSE IF p = Here THEN 0 ELSE 1

LEMMA UpIsNotHere == Up # Here
<1>1. Len(Up) = 2 /\ Len(Here) = 1
  BY DEF Up, Here
<1> QED BY <1>1

LEMMA CountsAreNat ==
  ASSUME NEW P, NEW first \in Nat, NEW last \in Nat
  PROVE  /\ IsFiniteSet(NameParts(P, first, last)) /\ Cardinality(NameParts(P, first, last)) \in Nat
         /\ IsFiniteSet(UpParts(P, first, last)) /\ Cardinality(UpParts(P, first, last)) \in Nat
<1>1. IsFiniteSet(first .. last)
  BY FS_Interval
<1>2. NameParts(P, first, last) \in SUBSET (first .. last) /\ UpParts(P, first, last) \in SUBSET (first .. last)
  BY DEF NameParts, UpParts
<1>3. IsFiniteSet(NameParts(P, first, last)) /\ IsFiniteSet(UpParts(P, first, last))
  BY <1>1, <1>2, FS_Subset
<1> QED BY <1>3, FS_CardinalityType

LEMMA SinksIs ==
  ASSUME NEW P, NEW first \in Nat, NEW last \in Nat
  PROVE  Depth(P, first, last) \in Int /\ (Sinks(P, first, last) <=> Depth(P, first, last) < 0)
<1>1. Cardinality(NameParts(P, first, last)) \in Nat /\ Cardinality(UpParts(P, first, last)) \in Nat
  BY CountsAreNat
<1>2. Sinks(P, first, last) <=> Cardinality(UpParts(P, first, last)) > Cardinality(NameParts(P, first, last))
  BY Zenon DEF Sinks, UpParts, NameParts
<1> QED BY <1>1, <1>2 DEF Depth

LEMMA DepthNone ==
  ASSUME NEW P, NEW first \in Nat, NEW last \in Nat, last < first
  PROVE  Depth(P, first, last) = 0
<1>1. NameParts(P, first, last) = {} /\ UpParts(P, first, last) = {}
  BY DEF NameParts, UpParts
<1> QED BY <1>1, FS_EmptySet DEF Depth

LEMMA DepthStep ==
  ASSUME NEW P, NEW first \in Nat, NEW last \in Nat, first <= last + 1
  PROVE  Depth(P, first, last + 1) = Depth(P, first, last) + Worth(P[last + 1])
<1> DEFINE a == NameParts(P, first, last)  b == UpParts(P, first, last)  l == last + 1
           a1 == NameParts(P, first, l)  b1 == UpParts(P, first, l)
<1>0. /\ IsFiniteSet(a) /\ IsFiniteSet(b) /\ l \notin a /\ l \notin b
      /\ Cardinality(a) \in Nat /\ Cardinality(b) \in Nat
  <2>1. l \notin a /\ l \notin b
    BY DEF NameParts, UpParts
  <2> QED BY <2>1, CountsAreNat
<1>1. a1 = IF P[l] \notin {Up, Here} THEN a \cup {l} ELSE a
  BY DEF NameParts
<1>2. b1 = IF P[l] = Up THEN b \cup {l} ELSE b
  BY DEF UpParts
<1> HIDE DEF a, b, a1, b1, l
<1>3. Cardinality(a \cup {l}) = Cardinality(a) + 1 /\ Cardinality(b \cup {l}) = Cardinality(b) + 1
  BY <1>0, FS_AddElement
<1>4. Cardinality(a1) - Cardinality(b1) = (Cardinality(a) - Cardinality(b)) + Worth(P[l])
  <2>1. CASE P[l] = Up
    <3>1. a1 = a /\ b1 = b \cup {l} /\ Worth(P[l]) = 0 - 1
      BY <1>1, <1>2, <2>1 DEF Worth
    <3> QED BY <1>0, <1>3, <3>1
  <2>2. CASE P[l] = Here
    <3>1. a1 = a /\ b1 = b /\ Worth(P[l]) = 0
      BY <1>1, <1>2, <2>2, UpIsNotHere DEF Worth
    <3> QED BY <1>0, <3>1
  <2>3. CASE P[l] \notin {Up, Here}
    <3>1. a1 = a \cup {l} /\ b1 = b /\ Worth(P[l]) = 1
      BY <1>1, <1>2, <2>3 DEF Worth
    <3> QED BY <1>0, <1>3, <3>1
  <2> QED BY <2>1, <2>2, <2>3
<1> QED BY <1>4 DEF Depth, a, b, a1, b1, l

LEMMA OrderLen ==
  ASSUME NEW S, NEW n \in Nat
  PROVE  /\ Len(InOrder(S, n)) \in Nat
         /\ Len(InOrder(S, n + 1)) = IF n + 1 \in S THEN Len(InOrder(S, n)) + 1 ELSE Len(InOrder(S, n))
<1> DEFINE w == InOrder(S, n)  u == InOrder(S, n + 1)
<1>1. w \in Seq(S \cap (1 .. n))
  BY OrderType
<1>2. /\ n + 1 \in S => u = Append(w, n + 1)
      /\ n + 1 \notin S => u = w
  BY OrderStep
<1> HIDE DEF w, u
<1>3. Len(w) \in Nat /\ Len(Append(w, n + 1)) = Len(w) + 1
  BY <1>1, LenProperties
<1>4. Len(u) = IF n + 1 \in S THEN Len(w) + 1 ELSE Len(w)
  BY <1>2, <1>3
<1> QED BY <1>3, <1>4 DEF w, u

LEMMA OrderMono ==
  ASSUME NEW S, NEW m \in Nat, NEW n \in Nat, m <= n
  PROVE  Len(InOrder(S, m)) <= Len(InOrder(S, n))
<1> DEFINE L(i) == Len(InOrder(S, i))
           U == {j \in Nat : L(m) <= L(m + j)}
<1>0. ASSUME NEW i \in Nat PROVE L(i) \in Nat /\ L(i) <= L(i + 1)
  <2>1. /\ Len(InOrder(S, i)) \in Nat
        /\ Len(InOrder(S, i + 1)) \in {Len(InOrder(S, i)), Len(InOrder(S, i)) + 1}
    BY OrderLen
  <2> QED BY <2>1
<1> HIDE DEF L
<1>1. 0 \in U
  <2>1. m + 0 = m /\ L(m) \in Nat
    BY <1>0
  <2>2. L(m) <= L(m + 0)
    BY <2>1
  <2> QED BY <2>2
<1>2. ASSUME NEW j \in Nat, j \in U PROVE j + 1 \in U
  <2>1. m + (j + 1) = (m + j) + 1 /\ m + j \in Nat /\ (m + j) + 1 \in Nat /\ L(m) <= L(m + j)
    BY <1>2
  <2>2. L(m) <= L((m + j) + 1)
    BY <1>0, <2>1
  <2> QED BY <2>1, <2>2
<1>3. Nat \subseteq U
  <2> HIDE DEF U
  <2> QED BY <1>1, <1>2, Induct
<1>4. n - m \in Nat /\ m + (n - m) = n
  OBVIOUS
<1>5. n - m \in U
  BY <1>3, <1>4
<1> QED BY <1>4, <1>5 DEF L

(* The names that still stand after j parts.                               *)
Standing(P, j) ==
    {k \in 1 .. j : P[k] \notin {Up, Here} /\ \A last \in k + 1 .. j : Depth(P, k + 1, last) >= 0}

LEMMA StandingDepth ==
  ASSUME NEW P, NEW j \in Nat, NEW k \in Standing(P, j)
  PROVE  k \in 1 .. j /\ Depth(P, k + 1, j) \in Int /\ Depth(P, k + 1, j) >= 0
<1>1. k \in 1 .. j /\ \A last \in k + 1 .. j : Depth(P, k + 1, last) >= 0
  BY DEF Standing
<1>2. k + 1 \in Nat
  BY <1>1
<1>3. CASE k = j
  <2>1. Depth(P, k + 1, j) = 0
    BY <1>2, <1>3, DepthNone
  <2> QED BY <1>1, <2>1
<1>4. CASE k # j
  <2>1. j \in k + 1 .. j
    BY <1>1, <1>4
  <2> QED BY <1>1, <1>2, <2>1, SinksIs
<1> QED BY <1>3, <1>4

LEMMA StandingStep ==
  ASSUME NEW P, NEW j \in Nat, NEW k
  PROVE  k \in Standing(P, j + 1) <=>
           \/ k \in Standing(P, j) /\ Depth(P, k + 1, j) + Worth(P[j + 1]) >= 0
           \/ k = j + 1 /\ P[j + 1] \notin {Up, Here}
<1>1. CASE k \in 1 .. j
  <2>1. k \in 1 .. j + 1 /\ k # j + 1 /\ k + 1 \in Nat /\ k + 1 <= j + 1 /\ j + 1 \in Nat
    BY <1>1
  <2>2. \A last \in k + 1 .. j + 1 : last \in k + 1 .. j \/ last = j + 1
    BY <2>1
  <2>3. \A last \in k + 1 .. j : last \in k + 1 .. j + 1
    BY <2>1
  <2>4. j + 1 \in k + 1 .. j + 1
    BY <2>1
  <2>5. Depth(P, k + 1, j + 1) = Depth(P, k + 1, j) + Worth(P[j + 1])
    BY <2>1, DepthStep
  <2> QED BY <1>1, <2>1, <2>2, <2>3, <2>4, <2>5 DEF Standing
<1>2. CASE k = j + 1
  <2>1. k \in 1 .. j + 1 /\ k \notin 1 .. j /\ \A last \in k + 1 .. j + 1 : FALSE
    BY <1>2
  <2> QED BY <1>2, <2>1 DEF Standing
<1>3. CASE k \notin 1 .. j /\ k # j + 1
  <2>1. k \notin 1 .. j + 1
    BY <1>3
  <2> QED BY <1>3, <2>1 DEF Standing
<1> QED BY <1>1, <1>2, <1>3

(* Resolving.                                                              *)

Stacks == [names : Seq(Part), above : Nat]

LEMMA ResolveIs ==
  ASSUME NEW st \in Stacks, NEW p \in Part
  PROVE  /\ Resolve(st, p) \in Stacks
         /\ p = Here => Resolve(st, p) = st
         /\ p = Up /\ st.names # <<>> =>
               Resolve(st, p).names = Front(st.names) /\ Resolve(st, p).above = st.above
         /\ p = Up /\ st.names = <<>> =>
               Resolve(st, p).names = <<>> /\ Resolve(st, p).above = st.above + 1
         /\ p \notin {Up, Here} =>
               Resolve(st, p).names = Append(st.names, p) /\ Resolve(st, p).above = st.above
<1> DEFINE r == Resolve(st, p)
<1>0. st.names \in Seq(Part) /\ st.above \in Nat
  BY DEF Stacks
<1>1. CASE p = Here
  <2>1. r = st
    BY <1>1, UpIsNotHere DEF Resolve
  <2> QED BY <1>1, <2>1, UpIsNotHere
<1>2. CASE p = Up /\ st.names # <<>>
  <2>1. r = [st EXCEPT !.names = Front(st.names)]
    BY <1>2, UpIsNotHere DEF Resolve
  <2>2. Front(st.names) \in Seq(Part)
    BY <1>0, <1>2 DEF Front
  <2>3. r.names = Front(st.names) /\ r.above = st.above /\ r \in Stacks
    BY <2>1, <2>2 DEF Stacks
  <2> QED BY <1>2, <2>3, UpIsNotHere
<1>3. CASE p = Up /\ st.names = <<>>
  <2>1. r = [st EXCEPT !.above = st.above + 1]
    BY <1>3, UpIsNotHere DEF Resolve
  <2>2. r.names = <<>> /\ r.above = st.above + 1 /\ r \in Stacks
    BY <1>0, <1>3, <2>1 DEF Stacks
  <2> QED BY <1>3, <2>2, UpIsNotHere
<1>4. CASE p \notin {Up, Here}
  <2>1. r = [st EXCEPT !.names = Append(st.names, p)]
    BY <1>4 DEF Resolve
  <2>2. Append(st.names, p) \in Seq(Part)
    BY <1>0
  <2>3. r.names = Append(st.names, p) /\ r.above = st.above /\ r \in Stacks
    BY <2>1, <2>2 DEF Stacks
  <2> QED BY <1>4, <2>3
<1> QED BY <1>1, <1>2, <1>3, <1>4

NoStack == [names |-> <<>>, above |-> 0]

(* g has the stacks after every part of P.                                 *)
Resolves(P, g) ==
    /\ g \in [0 .. Len(P) -> Stacks]
    /\ g[0] = NoStack
    /\ \A k \in 1 .. Len(P) : g[k] = Resolve(g[k - 1], P[k])

ResolveTable(P, g) ==
    g = [k \in 0 .. Len(P) |-> IF k = 0 THEN NoStack ELSE Resolve(g[k - 1], P[k])]

LEMMA NoStackType == NoStack \in Stacks /\ NoStack.names = <<>> /\ NoStack.above = 0
<1>1. <<>> \in Seq(Part)
  OBVIOUS
<1> QED BY <1>1 DEF NoStack, Stacks

LEMMA ResolvesExist == ASSUME NEW P \in Seq(Part) PROVE \E g : Resolves(P, g)
<1> DEFINE X == Stacks
           m == Len(P)
           G == [i \in Nat |-> [v \in X |-> IF i \in 1 .. m THEN Resolve(v, P[i]) ELSE NoStack]]
<1>0. m \in Nat
  OBVIOUS
<1>1. NoStack \in X
  BY NoStackType
<1>2. ASSUME NEW i \in 1 .. m, NEW v \in X PROVE Resolve(v, P[i]) \in X
  <2>1. P[i] \in Part
    OBVIOUS
  <2> QED BY <2>1, ResolveIs
<1>3. \A i \in 1 .. m : i \in Nat
  OBVIOUS
<1> HIDE DEF X, m
<1>4. G \in [Nat -> [X -> X]] /\ \A i \in 1 .. m, v \in X : G[i][v] = Resolve(v, P[i])
  BY <1>1, <1>2, <1>3
<1> HIDE DEF G
<1>5. PICK f : Chained(X, NoStack, G, m, f)
  BY <1>0, <1>1, <1>4, ChainExists
<1>6. /\ f \in [0 .. m -> X] /\ f[0] = NoStack
      /\ \A i \in 1 .. m : f[i] = G[i][f[i - 1]]
  BY <1>5 DEF Chained
<1>7. \A k \in 1 .. m : f[k - 1] \in X
  BY <1>0, <1>6
<1>8. Resolves(P, f)
  BY <1>4, <1>6, <1>7 DEF Resolves, X, m
<1> QED BY <1>8

LEMMA ResolvesAreTables ==
  ASSUME NEW P \in Seq(Part), NEW f
  PROVE  Resolves(P, f) <=> ResolveTable(P, f)
<1> DEFINE h == [k \in 0 .. Len(P) |-> IF k = 0 THEN NoStack ELSE Resolve(f[k - 1], P[k])]
<1>0. Len(P) \in Nat
  OBVIOUS
<1>1. h[0] = NoStack /\ \A k \in 1 .. Len(P) : h[k] = Resolve(f[k - 1], P[k])
  BY <1>0
<1>2. h = [k \in 0 .. Len(P) |-> h[k]]
  OBVIOUS
<1>3. ResolveTable(P, f) <=> f = h
  BY Zenon DEF ResolveTable
<1> HIDE DEF h
<1>4. ASSUME Resolves(P, f) PROVE f = h
  <2>1. /\ f \in [0 .. Len(P) -> Stacks] /\ f[0] = NoStack
        /\ \A k \in 1 .. Len(P) : f[k] = Resolve(f[k - 1], P[k])
    BY <1>4 DEF Resolves
  <2>2. \A k \in 0 .. Len(P) : f[k] = h[k]
    <3> TAKE k \in 0 .. Len(P)
    <3>1. k = 0 \/ k \in 1 .. Len(P)
      BY <1>0
    <3> QED BY <1>1, <2>1, <3>1
  <2>3. f = [k \in 0 .. Len(P) |-> f[k]]
    BY <2>1
  <2> QED BY <1>2, <2>2, <2>3
<1>5. ASSUME f = h PROVE Resolves(P, f)
  <2>1. f[0] = NoStack /\ \A k \in 1 .. Len(P) : f[k] = Resolve(f[k - 1], P[k])
    BY <1>1, <1>5
  <2> DEFINE U == {j \in Nat : j <= Len(P) => f[j] \in Stacks}
  <2>2. 0 \in U
    BY <2>1, NoStackType
  <2>3. ASSUME NEW j \in Nat, j \in U PROVE j + 1 \in U
    <3> SUFFICES ASSUME j + 1 <= Len(P) PROVE f[j + 1] \in Stacks
      OBVIOUS
    <3>1. /\ j + 1 \in 1 .. Len(P) /\ (j + 1) - 1 = j /\ f[j] \in Stacks /\ P[j + 1] \in Part
      BY <1>0, <2>3
    <3>2. f[j + 1] = Resolve(f[j], P[j + 1])
      BY <2>1, <3>1
    <3> QED BY <3>1, <3>2, ResolveIs
  <2>4. Nat \subseteq U
    <3> HIDE DEF U
    <3> QED BY <2>2, <2>3, Induct
  <2>5. \A k \in 0 .. Len(P) : f[k] \in Stacks
    BY <1>0, <2>4
  <2>6. f = [k \in 0 .. Len(P) |-> f[k]]
    BY <1>2, <1>5
  <2>7. f \in [0 .. Len(P) -> Stacks]
    BY <2>5, <2>6
  <2> QED BY <2>1, <2>7 DEF Resolves
<1> QED BY <1>3, <1>4, <1>5

LEMMA ResolvedIs == ASSUME NEW P \in Seq(Part) PROVE \E g : Resolves(P, g) /\ Resolved(P) = g[Len(P)]
<1> DEFINE f == CHOOSE g : ResolveTable(P, g)
<1>1. ResolveTable(P, f)
  BY ResolvesExist, ResolvesAreTables
<1>2. Resolved(P) = f[Len(P)]
  BY Zenon DEF Resolved, ResolveTable, NoStack
<1>3. Resolves(P, f)
  <2> HIDE DEF f
  <2> QED BY <1>1, ResolvesAreTables
<1> QED BY <1>2, <1>3

(* The stack has the names that stand, in their order; a name stands as    *)
(* deep as there are names on top of it; and as long as nothing went above *)
(* the start, the depth is the size of the stack.                          *)
Named(P, st, o) == Len(st.names) = Len(o) /\ \A n \in 1 .. Len(o) : st.names[n] = P[o[n]]
Heights(P, S, j) ==
    \A k \in S : Depth(P, k + 1, j) = Len(InOrder(S, j)) - Len(InOrder(S, k))
Level(P, j) == \A last \in 1 .. j : Depth(P, 1, last) >= 0
Surface(P, st, j, size) ==
    /\ st.above = 0 <=> Level(P, j)
    /\ st.above = 0 => Depth(P, 1, j) = size

StackInv(P, st, j) ==
    /\ Named(P, st, InOrder(Standing(P, j), j))
    /\ Heights(P, Standing(P, j), j)
    /\ Surface(P, st, j, Len(InOrder(Standing(P, j), j)))

LEMMA LevelStep ==
  ASSUME NEW P, NEW j \in Nat
  PROVE  /\ Depth(P, 1, j) \in Int /\ Depth(P, 1, j + 1) = Depth(P, 1, j) + Worth(P[j + 1])
         /\ Level(P, j + 1) <=> Level(P, j) /\ Depth(P, 1, j) + Worth(P[j + 1]) >= 0
<1>1. Depth(P, 1, j) \in Int
  BY SinksIs
<1>2. Depth(P, 1, j + 1) = Depth(P, 1, j) + Worth(P[j + 1])
  BY DepthStep
<1>3. \A last : last \in 1 .. j + 1 <=> last \in 1 .. j \/ last = j + 1
  OBVIOUS
<1> QED BY <1>1, <1>2, <1>3 DEF Level

LEMMA SurfaceStep ==
  ASSUME NEW P, NEW st, NEW u, NEW j \in Nat, NEW a \in Nat, NEW b \in Nat,
         st.above = u.above, b - a = Worth(P[j + 1]), Surface(P, st, j, a)
  PROVE  Surface(P, u, j + 1, b)
<1>1. Worth(P[j + 1]) \in Int
  BY DEF Worth
<1> DEFINE w == Worth(P[j + 1])  d == Depth(P, 1, j)
<1>2. /\ d \in Int /\ Depth(P, 1, j + 1) = d + w
      /\ Level(P, j + 1) <=> Level(P, j) /\ d + w >= 0
  BY LevelStep
<1>3. (st.above = 0 <=> Level(P, j)) /\ (st.above = 0 => d = a)
  BY DEF Surface
<1>4. u.above = 0 <=> st.above = 0
  OBVIOUS
<1> HIDE DEF w, d
<1>5. b - a = w /\ w \in Int
  BY <1>1 DEF w
<1>6. CASE st.above = 0
  <2>1. d + w = b /\ d + w >= 0
    BY <1>2, <1>3, <1>5, <1>6
  <2> QED BY <1>2, <1>3, <1>4, <1>6, <2>1 DEF Surface
<1>7. CASE st.above # 0
  BY <1>2, <1>3, <1>4, <1>7 DEF Surface
<1> QED BY <1>6, <1>7

LEMMA StackHere ==
  ASSUME NEW P, NEW j \in Nat, NEW st \in Stacks, StackInv(P, st, j), P[j + 1] = Here
  PROVE  StackInv(P, st, j + 1)
<1> DEFINE S == Standing(P, j)  o == InOrder(S, j)
<1>0. Worth(P[j + 1]) = 0
  BY UpIsNotHere DEF Worth
<1>1. Standing(P, j + 1) = S
  <2>1. ASSUME NEW k PROVE k \in Standing(P, j + 1) <=> k \in S
    <3>1. k \in Standing(P, j + 1) <=> k \in S /\ Depth(P, k + 1, j) + Worth(P[j + 1]) >= 0
      BY StandingStep
    <3>2. k \in S => Depth(P, k + 1, j) \in Int /\ Depth(P, k + 1, j) >= 0
      BY StandingDepth
    <3> HIDE DEF S
    <3> QED BY <1>0, <3>1, <3>2
  <2> QED BY <2>1
<1>2. InOrder(S, j + 1) = o
  <2>1. j + 1 \notin S
    BY DEF Standing
  <2> QED BY <2>1, OrderStep
<1>3. Named(P, st, o) /\ Heights(P, S, j) /\ Surface(P, st, j, Len(o))
  BY DEF StackInv
<1>4. Len(o) \in Nat
  BY OrderLen
<1>5. Surface(P, st, j + 1, Len(o))
  <2>1. Len(o) - Len(o) = Worth(P[j + 1])
    BY <1>0, <1>4
  <2> HIDE DEF o
  <2> QED BY <1>3, <1>4, <2>1, SurfaceStep
<1>6. Heights(P, S, j + 1)
  <2>1. ASSUME NEW k \in S PROVE Depth(P, k + 1, j + 1) = Depth(P, k + 1, j)
    <3>1. k \in 1 .. j /\ Depth(P, k + 1, j) \in Int
      BY StandingDepth
    <3>2. k + 1 \in Nat /\ k + 1 <= j + 1
      BY <3>1
    <3>3. Depth(P, k + 1, j + 1) = Depth(P, k + 1, j) + Worth(P[j + 1])
      BY <3>2, DepthStep
    <3> QED BY <1>0, <3>1, <3>3
  <2> HIDE DEF S
  <2> QED BY <1>2, <1>3, <2>1 DEF Heights
<1>7. Named(P, st, InOrder(S, j + 1)) /\ Surface(P, st, j + 1, Len(InOrder(S, j + 1)))
  BY <1>2, <1>3, <1>5
<1> HIDE DEF S, o
<1> QED BY <1>1, <1>6, <1>7, Zenon DEF StackInv

LEMMA StackName ==
  ASSUME NEW P, NEW j \in Nat, NEW st \in Stacks, NEW u \in Stacks, StackInv(P, st, j),
         P[j + 1] \in Part, P[j + 1] \notin {Up, Here},
         u.names = Append(st.names, P[j + 1]), u.above = st.above
  PROVE  StackInv(P, u, j + 1)
<1> DEFINE S == Standing(P, j)  o == InOrder(S, j)
           T == Standing(P, j + 1)  q == InOrder(T, j + 1)
<1>0. Worth(P[j + 1]) = 1
  BY DEF Worth
<1>1. ASSUME NEW k PROVE k \in T <=> k \in S \/ k = j + 1
  <2>1. k \in T <=> (k \in S /\ Depth(P, k + 1, j) + Worth(P[j + 1]) >= 0) \/ k = j + 1
    BY StandingStep
  <2>2. k \in S => Depth(P, k + 1, j) \in Int /\ Depth(P, k + 1, j) >= 0
    BY StandingDepth
  <2> HIDE DEF S, T
  <2> QED BY <1>0, <2>1, <2>2
<1>a. \A k \in S : k \in 1 .. j
  BY DEF Standing
<1>3. Named(P, st, o) /\ Heights(P, S, j) /\ Surface(P, st, j, Len(o))
  BY DEF StackInv
<1> HIDE DEF S, T
<1>2. \A k \in 0 .. j : InOrder(T, k) = InOrder(S, k)
  <2> TAKE k \in 0 .. j
  <2>1. k \in Nat /\ \A i \in 1 .. k : i # j + 1
    OBVIOUS
  <2>2. \A i \in 1 .. k : i \in T <=> i \in S
    BY <1>1, <2>1
  <2> QED BY <2>1, <2>2, OrderAgree
<1>4. q = Append(o, j + 1)
  <2>1. j \in 0 .. j /\ j + 1 \in T
    BY <1>1
  <2> QED BY <1>2, <2>1, OrderStep
<1>5. o \in Seq(S \cap (1 .. j)) /\ Len(o) \in Nat
  BY OrderType, OrderLen
<1> HIDE DEF o, q
<1>6. Len(q) = Len(o) + 1 /\ (\A n \in 1 .. Len(o) : q[n] = o[n]) /\ q[Len(o) + 1] = j + 1
  <2>1. o \in Seq(Nat)
    <3>1. S \cap (1 .. j) \subseteq Nat
      OBVIOUS
    <3> QED BY <1>5, <3>1, SeqMonotonic
  <2> QED BY <1>4, <2>1
<1>7. Named(P, u, q)
  <2>1. st.names \in Seq(Part) /\ Len(st.names) = Len(o) /\ \A n \in 1 .. Len(o) : st.names[n] = P[o[n]]
    BY <1>3 DEF Named, Stacks
  <2>2. /\ Len(u.names) = Len(o) + 1 /\ (\A n \in 1 .. Len(o) : u.names[n] = st.names[n])
        /\ u.names[Len(o) + 1] = P[j + 1]
    BY <2>1
  <2>3. \A n \in 1 .. Len(o) + 1 : n \in 1 .. Len(o) \/ n = Len(o) + 1
    BY <1>5
  <2>4. \A n \in 1 .. Len(o) + 1 : u.names[n] = P[q[n]]
    <3> TAKE n \in 1 .. Len(o) + 1
    <3>1. CASE n \in 1 .. Len(o)
      BY <1>6, <2>1, <2>2, <3>1
    <3>2. CASE n = Len(o) + 1
      BY <1>6, <2>2, <3>2
    <3> QED BY <2>3, <3>1, <3>2
  <2> QED BY <1>6, <2>2, <2>4 DEF Named
<1>8. Surface(P, u, j + 1, Len(q))
  <2>1. Len(q) - Len(o) = Worth(P[j + 1]) /\ Len(q) \in Nat
    BY <1>0, <1>5, <1>6
  <2> QED BY <1>3, <1>5, <2>1, SurfaceStep
<1>9. Heights(P, T, j + 1)
  <2>1. ASSUME NEW k \in S PROVE Depth(P, k + 1, j + 1) = Len(InOrder(T, j + 1)) - Len(InOrder(T, k))
    <3>1. k \in 1 .. j /\ Depth(P, k + 1, j) \in Int
      BY StandingDepth DEF S
    <3>2. k + 1 \in Nat /\ k + 1 <= j + 1 /\ k \in 0 .. j /\ k \in Nat
      BY <3>1
    <3>3. Depth(P, k + 1, j + 1) = Depth(P, k + 1, j) + 1
      BY <1>0, <3>2, DepthStep
    <3>4. Depth(P, k + 1, j) = Len(o) - Len(InOrder(S, k))
      BY <1>3 DEF Heights, o
    <3>5. InOrder(T, k) = InOrder(S, k) /\ Len(InOrder(S, k)) \in Nat /\ Len(InOrder(T, j + 1)) = Len(o) + 1
      BY <1>2, <1>6, <3>2, OrderLen DEF q
    <3> DEFINE l == Len(InOrder(S, k))  d == Depth(P, k + 1, j)
    <3>6. l \in Nat /\ d \in Int /\ d = Len(o) - l /\ d + 1 = (Len(o) + 1) - l
      BY <1>5, <3>1, <3>4, <3>5
    <3>7. Len(InOrder(T, k)) = l
      BY <3>5
    <3> HIDE DEF l, d
    <3> QED BY <3>3, <3>5, <3>6, <3>7 DEF d
  <2>2. Depth(P, (j + 1) + 1, j + 1) = Len(InOrder(T, j + 1)) - Len(InOrder(T, j + 1))
    <3>1. Depth(P, (j + 1) + 1, j + 1) = 0
      BY DepthNone
    <3>2. j + 1 \in Nat
      OBVIOUS
    <3>3. Len(InOrder(T, j + 1)) \in Nat
      BY <3>2, OrderLen
    <3> QED BY <3>1, <3>3
  <2> QED BY <1>1, <2>1, <2>2 DEF Heights
<1> QED BY <1>7, <1>8, <1>9, Zenon DEF StackInv, T, q

LEMMA StackUpNone ==
  ASSUME NEW P, NEW j \in Nat, NEW st \in Stacks, NEW u \in Stacks, StackInv(P, st, j),
         P[j + 1] = Up, st.names = <<>>, u.names = <<>>, u.above = st.above + 1
  PROVE  StackInv(P, u, j + 1)
<1> DEFINE S == Standing(P, j)  o == InOrder(S, j)
           T == Standing(P, j + 1)  q == InOrder(T, j + 1)
<1>0. Worth(P[j + 1]) = 0 - 1
  BY DEF Worth
<1>3. Named(P, st, o) /\ Heights(P, S, j) /\ Surface(P, st, j, Len(o))
  BY DEF StackInv
<1>4. Len(o) = 0
  BY <1>3 DEF Named
<1>5. S = {}
  <2>1. ASSUME NEW k \in S PROVE FALSE
    <3>1. k \in 1 .. j
      BY DEF Standing
    <3>2. k - 1 \in Nat /\ (k - 1) + 1 = k /\ k \in Nat /\ k <= j
      BY <3>1
    <3> HIDE DEF S
    <3>3. Len(InOrder(S, k - 1)) \in Nat /\ Len(InOrder(S, k)) = Len(InOrder(S, k - 1)) + 1
      <4>1. Len(InOrder(S, (k - 1) + 1)) = Len(InOrder(S, k - 1)) + 1
        BY <3>2, OrderLen
      <4>2. Len(InOrder(S, k - 1)) \in Nat
        BY <3>2, OrderLen
      <4> QED BY <3>2, <4>1, <4>2
    <3>4. Len(InOrder(S, k)) <= Len(InOrder(S, j))
      BY <3>2, OrderMono
    <3>5. Len(InOrder(S, j)) = 0
      BY <1>4
    <3> QED BY <3>3, <3>4, <3>5
  <2> QED BY <2>1
<1>6. T = {}
  <2>1. ASSUME NEW k \in T PROVE FALSE
    BY <1>5, <2>1, StandingStep
  <2> QED BY <2>1
<1> HIDE DEF S, T
<1>7. q = <<>>
  <2>1. j + 1 \in Nat /\ 0 <= j + 1 /\ \A i \in 0 + 1 .. j + 1 : i \notin T
    BY <1>6
  <2>2. q = InOrder(T, 0)
    BY <2>1, OrderGap
  <2> QED BY <2>2, OrderNone
<1>8. Named(P, u, q)
  BY <1>7 DEF Named
<1>9. Heights(P, T, j + 1)
  BY <1>6 DEF Heights
<1>10. Surface(P, u, j + 1, Len(q))
  <2>1. u.above # 0
    BY DEF Stacks
  <2>2. ~Level(P, j + 1)
    <3>1. /\ Depth(P, 1, j) \in Int
          /\ Level(P, j + 1) <=> Level(P, j) /\ Depth(P, 1, j) + Worth(P[j + 1]) >= 0
      BY LevelStep
    <3>2. Level(P, j) => Depth(P, 1, j) = 0
      BY <1>3, <1>4 DEF Surface
    <3> QED BY <1>0, <3>1, <3>2
  <2> QED BY <2>1, <2>2 DEF Surface
<1> QED BY <1>8, <1>9, <1>10, Zenon DEF StackInv, T, q

LEMMA FrontIs ==
  ASSUME NEW S, NEW s \in Seq(S), s # <<>>
  PROVE  Front(s) \in Seq(S) /\ Len(Front(s)) = Len(s) - 1
         /\ \A n \in 1 .. Len(s) - 1 : Front(s)[n] = s[n]
<1>1. Len(s) \in Nat /\ Len(s) # 0 /\ Len(s) - 1 \in Nat
  OBVIOUS
<1>2. Front(s) = SubSeq(s, 1, Len(s) - 1)
  BY DEF Front
<1> DEFINE m == Len(s) - 1  r == SubSeq(s, 1, m)
<1>3. m \in Nat /\ m <= Len(s) /\ m = Len(s) - 1
  BY <1>1
<1> HIDE DEF m
<1>4. r \in Seq(S) /\ Len(r) = m /\ \A n \in 1 .. m : r[n] = s[n]
  BY <1>3
<1>5. Front(s) = r
  BY <1>2, Zenon DEF m
<1> HIDE DEF r
<1> QED BY <1>3, <1>4, <1>5

LEMMA StackUpTop ==
  ASSUME NEW P, NEW j \in Nat, NEW st \in Stacks, NEW u \in Stacks, StackInv(P, st, j),
         P[j + 1] = Up, st.names # <<>>, u.names = Front(st.names), u.above = st.above
  PROVE  StackInv(P, u, j + 1)
<1> DEFINE S == Standing(P, j)  o == InOrder(S, j)
           T == Standing(P, j + 1)  q == InOrder(T, j + 1)
<1>0. Worth(P[j + 1]) = 0 - 1
  BY DEF Worth
<1>3. Named(P, st, o) /\ Heights(P, S, j) /\ Surface(P, st, j, Len(o))
  BY DEF StackInv
<1>n. /\ st.names \in Seq(Part) /\ Len(st.names) = Len(o) /\ Len(o) \in Nat /\ Len(o) # 0
      /\ \A n \in 1 .. Len(o) : st.names[n] = P[o[n]]
  BY <1>3, OrderLen DEF Named, Stacks
<1>a. \A k \in S : k \in 1 .. j
  BY DEF Standing
<1>s. ASSUME NEW k PROVE k \in T <=> k \in S /\ Depth(P, k + 1, j) - 1 >= 0
  <2>1. k \in T <=> k \in S /\ Depth(P, k + 1, j) + Worth(P[j + 1]) >= 0
    BY StandingStep
  <2>2. k \in S => Depth(P, k + 1, j) \in Int
    BY StandingDepth
  <2> HIDE DEF S, T
  <2> QED BY <1>0, <2>1, <2>2
<1>d. \A k \in S : Depth(P, k + 1, j) \in Int /\ Depth(P, k + 1, j) = Len(o) - Len(InOrder(S, k))
  BY <1>3, StandingDepth DEF Heights
<1>i. \A k \in S : Depth(P, k + 1, j + 1) = Depth(P, k + 1, j) - 1
  <2> TAKE k \in S
  <2>1. k + 1 \in Nat /\ k + 1 <= j + 1
    BY <1>a
  <2>2. Depth(P, k + 1, j + 1) = Depth(P, k + 1, j) + Worth(P[j + 1])
    BY <2>1, DepthStep
  <2> HIDE DEF S
  <2> QED BY <1>0, <1>d, <2>2
<1> HIDE DEF S, T
<1>t. \E k \in 1 .. j : k \in S
  <2> SUFFICES ASSUME \A k \in 1 .. j : k \notin S PROVE FALSE
    OBVIOUS
  <2>1. 0 <= j /\ \A i \in 0 + 1 .. j : i \notin S
    OBVIOUS
  <2>2. o = InOrder(S, 0)
    BY <2>1, OrderGap
  <2>3. o = <<>>
    BY <2>2, OrderNone
  <2> QED BY <1>n, <2>3
<1>1. PICK t \in 1 .. j : t \in S /\ \A i \in t + 1 .. j : i \notin S
  BY <1>t, Largest
<1>2. t \in Nat /\ t - 1 \in Nat /\ (t - 1) + 1 = t /\ t <= j
  OBVIOUS
<1> DEFINE r == InOrder(S, t - 1)
<1>4. o = InOrder(S, t) /\ o = Append(r, t)
  BY <1>1, <1>2, OrderGap, OrderTop
<1>5. r \in Seq(Nat) /\ Len(r) \in Nat
  <2>1. r \in Seq(S \cap (1 .. t - 1))
    BY <1>2, OrderType
  <2>2. S \cap (1 .. t - 1) \subseteq Nat
    OBVIOUS
  <2>3. r \in Seq(Nat)
    BY <2>1, <2>2, SeqMonotonic
  <2> QED BY <2>3
<1>6. Len(o) = Len(r) + 1 /\ \A n \in 1 .. Len(r) : o[n] = r[n]
  <2> HIDE DEF o, r
  <2> QED BY <1>4, <1>5
<1>7. ASSUME NEW k PROVE k \in T <=> k \in S /\ k # t
  <2>1. CASE k \notin S
    BY <1>s, <2>1
  <2>2. CASE k = t
    <3>1. Depth(P, k + 1, j) = Len(o) - Len(o)
      BY <1>1, <1>4, <1>d, <2>2
    <3>2. Depth(P, k + 1, j) = 0
      BY <1>n, <3>1
    <3> QED BY <1>s, <2>2, <3>2
  <2>3. CASE k \in S /\ k # t
    <3>1. k \in 1 .. t - 1
      <4>1. k \in 1 .. j /\ ~(k \in t + 1 .. j)
        BY <1>a, <1>1, <2>3
      <4> QED BY <1>2, <2>3, <4>1
    <3>2. k \in Nat /\ k <= t - 1
      BY <1>2, <3>1
    <3>3. Len(InOrder(S, k)) <= Len(r) /\ Len(InOrder(S, k)) \in Nat
      BY <1>2, <3>2, OrderMono, OrderLen
    <3>4. Depth(P, k + 1, j) = Len(o) - Len(InOrder(S, k))
      BY <1>d, <2>3
    <3> DEFINE l == Len(InOrder(S, k))  m == Len(r)
    <3>5. Depth(P, k + 1, j) = (m + 1) - l /\ l <= m /\ l \in Nat /\ m \in Nat
      BY <1>5, <1>6, <3>3, <3>4
    <3> HIDE DEF l, m
    <3>6. Depth(P, k + 1, j) - 1 >= 0
      BY <3>5
    <3> QED BY <1>s, <2>3, <3>6
  <2> QED BY <2>1, <2>2, <2>3
<1>8. ASSUME NEW k \in 0 .. t - 1 PROVE InOrder(T, k) = InOrder(S, k)
  <2>1. k \in Nat /\ \A i \in 1 .. k : i # t
    BY <1>2
  <2>2. \A i \in 1 .. k : i \in T <=> i \in S
    BY <1>7, <2>1
  <2> QED BY <2>1, <2>2, OrderAgree
<1>9. q = r
  <2>1. \A i \in (t - 1) + 1 .. j + 1 : i \notin T
    <3> TAKE i \in (t - 1) + 1 .. j + 1
    <3>1. i = t \/ i \in t + 1 .. j \/ i = j + 1
      BY <1>2
    <3>2. j + 1 \notin S
      BY <1>a
    <3> QED BY <1>1, <1>7, <3>1, <3>2
  <2>2. j + 1 \in Nat /\ t - 1 <= j + 1 /\ t - 1 \in 0 .. t - 1
    BY <1>2
  <2>3. q = InOrder(T, t - 1)
    BY <1>2, <2>1, <2>2, OrderGap
  <2> QED BY <1>8, <2>2, <2>3
<1> HIDE DEF o, q, r
<1>10. Named(P, u, q)
  <2>1. /\ Len(u.names) = Len(st.names) - 1
        /\ \A n \in 1 .. Len(st.names) - 1 : u.names[n] = st.names[n]
    <3> DEFINE x == st.names
    <3>1. x \in Seq(Part) /\ x # <<>> /\ u.names = Front(x)
      BY <1>n
    <3> HIDE DEF x
    <3>2. Len(u.names) = Len(x) - 1 /\ \A n \in 1 .. Len(x) - 1 : u.names[n] = x[n]
      BY <3>1, FrontIs
    <3> QED BY <3>2, Zenon DEF x
  <2>2. Len(st.names) - 1 = Len(r)
    BY <1>5, <1>6, <1>n
  <2>3. \A n \in 1 .. Len(r) : n \in 1 .. Len(o)
    BY <1>5, <1>6
  <2>4. \A n \in 1 .. Len(r) : u.names[n] = P[r[n]]
    BY <1>6, <1>n, <2>1, <2>2, <2>3
  <2> QED BY <1>9, <2>1, <2>2, <2>4 DEF Named
<1>11. Surface(P, u, j + 1, Len(q))
  <2>1. Len(q) - Len(o) = Worth(P[j + 1]) /\ Len(q) \in Nat
    BY <1>0, <1>5, <1>6, <1>9
  <2> QED BY <1>3, <1>n, <2>1, SurfaceStep
<1>12. Heights(P, T, j + 1)
  <2>1. ASSUME NEW k \in T PROVE Depth(P, k + 1, j + 1) = Len(q) - Len(InOrder(T, k))
    <3>1. k \in S /\ k # t
      BY <1>7
    <3>2. k \in 0 .. t - 1 /\ k \in Nat
      <4>1. k \in 1 .. j /\ ~(k \in t + 1 .. j)
        BY <1>a, <1>1, <3>1
      <4> QED BY <1>2, <3>1, <4>1
    <3>3. InOrder(T, k) = InOrder(S, k) /\ Len(InOrder(S, k)) \in Nat
      BY <1>8, <3>2, OrderLen
    <3>4. Depth(P, k + 1, j) = Len(o) - Len(InOrder(S, k)) /\ Depth(P, k + 1, j + 1) = Depth(P, k + 1, j) - 1
      BY <1>d, <1>i, <3>1
    <3> DEFINE l == Len(InOrder(S, k))
    <3>5. Len(InOrder(T, k)) = l /\ l \in Nat
      BY <3>3
    <3>6. Depth(P, k + 1, j + 1) = (Len(o) - l) - 1
      BY <3>4
    <3> HIDE DEF l
    <3> QED BY <1>5, <1>6, <1>9, <3>5, <3>6
  <2> QED BY <2>1 DEF Heights, q
<1> QED BY <1>10, <1>11, <1>12, Zenon DEF StackInv, T, q

(* What the stack comes to: the names the reference keeps, and whether the *)
(* path ever went above its start.                                         *)
LEMMA ResolvedNames ==
  ASSUME NEW P \in Seq(Part)
  PROVE  /\ Resolved(P) \in Stacks /\ Resolved(P).names = Names(P)
         /\ Resolved(P).above = 0 <=> \A last \in 1 .. Len(P) : ~Sinks(P, 1, last)
<1> DEFINE N == Len(P)
<1>0. N \in Nat
  OBVIOUS
<1>1. PICK g : Resolves(P, g) /\ Resolved(P) = g[N]
  BY ResolvedIs
<1>2. /\ g \in [0 .. N -> Stacks] /\ g[0] = NoStack
      /\ \A k \in 1 .. N : g[k] = Resolve(g[k - 1], P[k])
  BY <1>1 DEF Resolves
<1> DEFINE U == {j \in Nat : j <= N => StackInv(P, g[j], j)}
<1>3. 0 \in U
  <2>1. Standing(P, 0) = {}
    BY DEF Standing
  <2>2. InOrder(Standing(P, 0), 0) = <<>>
    BY OrderNone
  <2>3. g[0].names = <<>> /\ g[0].above = 0
    BY <1>2, NoStackType
  <2>4. Depth(P, 1, 0) = 0
    BY DepthNone
  <2>5. Named(P, g[0], InOrder(Standing(P, 0), 0))
    BY <2>2, <2>3 DEF Named
  <2>6. Heights(P, Standing(P, 0), 0)
    BY <2>1 DEF Heights
  <2>7. Level(P, 0)
    BY DEF Level
  <2>8. Surface(P, g[0], 0, Len(InOrder(Standing(P, 0), 0)))
    BY <2>2, <2>3, <2>4, <2>7 DEF Surface
  <2>9. StackInv(P, g[0], 0)
    BY <2>5, <2>6, <2>8 DEF StackInv
  <2> QED BY <2>9
<1>4. ASSUME NEW j \in Nat, j \in U PROVE j + 1 \in U
  <2> SUFFICES ASSUME j + 1 <= N PROVE StackInv(P, g[j + 1], j + 1)
    OBVIOUS
  <2> DEFINE st == g[j]  u == g[j + 1]  p == P[j + 1]
  <2>1. /\ j \in 0 .. N /\ j + 1 \in 1 .. N /\ j + 1 \in 0 .. N /\ (j + 1) - 1 = j
        /\ StackInv(P, st, j) /\ p \in Part
    BY <1>0, <1>4
  <2>2. st \in Stacks /\ u \in Stacks /\ u = Resolve(st, p)
    BY <1>2, <2>1
  <2> HIDE DEF st, u
  <2>3. CASE p = Here
    <3>1. u = st
      BY <2>1, <2>2, <2>3, ResolveIs
    <3>2. StackInv(P, st, j + 1)
      BY <2>1, <2>2, <2>3, StackHere
    <3> QED BY <3>1, <3>2 DEF u
  <2>4. CASE p = Up /\ st.names # <<>>
    <3>1. u.names = Front(st.names) /\ u.above = st.above
      BY <2>1, <2>2, <2>4, ResolveIs
    <3>2. StackInv(P, u, j + 1)
      BY <2>1, <2>2, <2>4, <3>1, StackUpTop
    <3> QED BY <3>2 DEF u
  <2>5. CASE p = Up /\ st.names = <<>>
    <3>1. u.names = <<>> /\ u.above = st.above + 1
      BY <2>1, <2>2, <2>5, ResolveIs
    <3>2. StackInv(P, u, j + 1)
      BY <2>1, <2>2, <2>5, <3>1, StackUpNone
    <3> QED BY <3>2 DEF u
  <2>6. CASE p \notin {Up, Here}
    <3>1. u.names = Append(st.names, p) /\ u.above = st.above
      BY <2>1, <2>2, <2>6, ResolveIs
    <3>2. StackInv(P, u, j + 1)
      BY <2>1, <2>2, <2>6, <3>1, StackName
    <3> QED BY <3>2 DEF u
  <2> QED BY <2>3, <2>4, <2>5, <2>6
<1>5. Nat \subseteq U
  <2> HIDE DEF U
  <2> QED BY <1>3, <1>4, Induct
<1>6. StackInv(P, g[N], N) /\ g[N] \in Stacks
  BY <1>0, <1>2, <1>5
<1> DEFINE st == g[N]  S == Standing(P, N)  o == InOrder(S, N)
           Stays(k) == P[k] \notin {Up, Here} /\ \A last \in k + 1 .. N : ~Sinks(P, k + 1, last)
           names == [n \in 1 .. Len(o) |-> P[o[n]]]
<1>7. Named(P, st, o) /\ Surface(P, st, N, Len(o))
  BY <1>6 DEF StackInv
<1>8. S = {k \in 1 .. N : Stays(k)}
  <2>1. ASSUME NEW k \in 1 .. N, NEW last \in k + 1 .. N
        PROVE  Sinks(P, k + 1, last) <=> ~(Depth(P, k + 1, last) >= 0)
    <3>1. k + 1 \in Nat /\ last \in Nat
      BY <1>0
    <3> QED BY <3>1, SinksIs
  <2> QED BY <2>1 DEF Standing
<1>9. Names(P) = names
  <2>1. Names(P) = LET f == InOrder({k \in 1 .. N : Stays(k)}, N) IN [n \in 1 .. Len(f) |-> P[f[n]]]
    BY Zenon DEF Names
  <2> HIDE DEF S
  <2> QED BY <1>8, <2>1
<1>10. Level(P, N) <=> \A last \in 1 .. N : ~Sinks(P, 1, last)
  <2>1. ASSUME NEW last \in 1 .. N PROVE Sinks(P, 1, last) <=> ~(Depth(P, 1, last) >= 0)
    <3>1. last \in Nat
      BY <1>0
    <3> QED BY <3>1, SinksIs
  <2> QED BY <2>1 DEF Level
<1>11. st.names = names
  <2>1. st.names \in Seq(Part) /\ Len(o) \in Nat
    BY <1>0, <1>6, OrderLen DEF Stacks
  <2>2. Len(st.names) = Len(o) /\ \A n \in 1 .. Len(o) : st.names[n] = P[o[n]]
    BY <1>7 DEF Named
  <2> HIDE DEF st, o
  <2>3. names \in Seq(Part) /\ Len(names) = Len(o) /\ \A n \in 1 .. Len(o) : names[n] = P[o[n]]
    <3>1. \A n \in 1 .. Len(o) : P[o[n]] \in Part
      BY <2>1, <2>2
    <3> QED BY <2>1, <3>1
  <2> HIDE DEF names
  <2> QED BY <2>1, <2>2, <2>3, SeqEqual
<1>12. st.above = 0 <=> \A last \in 1 .. N : ~Sinks(P, 1, last)
  BY <1>7, <1>10 DEF Surface
<1> HIDE DEF names
<1> QED BY <1>1, <1>6, <1>9, <1>11, <1>12

-----------------------------------------------------------------------------
(* The parts of the reference.                                             *)

(* A slash in front cuts nothing.                                          *)
LEMMA SplitRooted ==
  ASSUME NEW w \in PathText, NEW z \in PathText, Len(z) = Len(w) + 1, z[1] = "/",
         \A i \in 1 .. Len(w) : z[i + 1] = w[i]
  PROVE  Split(z) = Split(w)
<1>1. PICK f : Cuts(z, f) /\ Split(z) = f[Len(z)]
  BY SplitIs
<1>2. PICK g : Cuts(w, g) /\ Split(w) = g[Len(w)]
  BY SplitIs
<1>0. Len(w) \in Nat
  BY DEF PathText
<1>3. /\ f[0] = <<>> /\ \A k \in 1 .. Len(w) + 1 : f[k] = Extended(z, f[k - 1], k)
      /\ g[0] = <<>> /\ \A k \in 1 .. Len(w) : g[k] = Extended(w, g[k - 1], k)
      /\ \A k \in 0 .. Len(w) : g[k] \in Seq(Part)
  BY <1>1, <1>2 DEF Cuts
<1> DEFINE U == {j \in Nat : j <= Len(w) => f[j + 1] = g[j]}
<1>4. 0 \in U
  <2>1. 1 \in 1 .. Len(z) /\ 1 \in 1 .. Len(w) + 1 /\ 1 - 1 = 0 /\ 0 + 1 = 1 /\ <<>> \in Seq(Part)
    BY <1>0
  <2>2. Extended(z, <<>>, 1) = <<>>
    BY DEF Extended
  <2>3. f[0 + 1] = g[0]
    BY <1>3, <2>1, <2>2
  <2> QED BY <2>3
<1>5. ASSUME NEW j \in Nat, j \in U PROVE j + 1 \in U
  <2> SUFFICES ASSUME j + 1 <= Len(w) PROVE f[(j + 1) + 1] = g[j + 1]
    OBVIOUS
  <2> DEFINE k == j + 1
  <2>1. /\ k \in 1 .. Len(w) /\ k + 1 \in 1 .. Len(w) + 1 /\ k - 1 = j /\ (k + 1) - 1 = k
        /\ j \in 0 .. Len(w) /\ f[k] = g[j] /\ k + 1 # 1 /\ k + 1 \in 1 .. Len(z)
    BY <1>0, <1>5
  <2> DEFINE v == g[j]
  <2>2. f[k + 1] = Extended(z, v, k + 1) /\ g[k] = Extended(w, v, k) /\ v \in Seq(Part)
    BY <1>3, <2>1
  <2>3. z[k + 1] = w[k] /\ (k = 1 => z[k] = "/") /\ (k # 1 => z[k] = w[k - 1])
    <3>1. k # 1 => k - 1 \in 1 .. Len(w) /\ (k - 1) + 1 = k
      BY <1>0, <2>1
    <3> HIDE DEF k
    <3> QED BY <2>1, <3>1
  <2> HIDE DEF k, v
  <2>4. Extended(z, v, k + 1) = Extended(w, v, k)
    <3>1. CASE w[k] = "/"
      BY <2>1, <2>2, <2>3, <3>1, ExtendedIs
    <3>2. CASE w[k] # "/" /\ (k = 1 \/ w[k - 1] = "/")
      <4>1. Extended(w, v, k) = Append(v, <<w[k]>>)
        BY <2>1, <2>2, <3>2, ExtendedIs
      <4>2. z[k + 1] # "/" /\ z[(k + 1) - 1] = "/"
        BY <2>1, <2>3, <3>2
      <4>3. Extended(z, v, k + 1) = Append(v, <<z[k + 1]>>)
        BY <2>1, <2>2, <4>2, ExtendedIs
      <4> QED BY <2>3, <4>1, <4>3
    <3>3. CASE w[k] # "/" /\ ~(k = 1 \/ w[k - 1] = "/")
      <4>1. Extended(w, v, k) = [v EXCEPT ![Len(v)] = Append(@, w[k])]
        BY <2>1, <2>2, <3>3, ExtendedIs
      <4>2. z[k + 1] # "/" /\ ~(k + 1 = 1 \/ z[(k + 1) - 1] = "/")
        BY <2>1, <2>3, <3>3
      <4>3. Extended(z, v, k + 1) = [v EXCEPT ![Len(v)] = Append(@, z[k + 1])]
        BY <2>1, <2>2, <4>2, ExtendedIs
      <4> QED BY <2>3, <4>1, <4>3
    <3> QED BY <3>1, <3>2, <3>3
  <2> QED BY <2>2, <2>4 DEF k
<1>6. Nat \subseteq U
  <2> HIDE DEF U
  <2> QED BY <1>4, <1>5, Induct
<1>7. Len(z) = Len(w) + 1 /\ f[Len(w) + 1] = g[Len(w)]
  BY <1>0, <1>6
<1> QED BY <1>1, <1>2, <1>7

RunStarts(t) == {i \in 1 .. Len(t) : ~Slash(t[i]) /\ (i = 1 \/ Slash(t[i - 1]))}
RunStops(t, i, j) == (\A k \in i .. j : ~Slash(t[k])) /\ (j = Len(t) \/ Slash(t[j + 1]))
RunStop(t, i) == CHOOSE j \in i .. Len(t) : RunStops(t, i, j)
Runs(t) ==
    LET starts == InOrder(RunStarts(t), Len(t))
    IN [n \in 1 .. Len(starts) |-> SubSeq(t, starts[n], RunStop(t, starts[n]))]
Bare(in) == IF HasDrive(in) THEN SubSeq(in, 3, Len(in)) ELSE in

LEMMA PartsAreRuns == ASSUME NEW in PROVE Parts(in) = Runs(Bare(in))
BY Zenon DEF Parts, Runs, Bare, RunStarts, RunStop, RunStops

(* p is what stands in t from i on, without a slash in it.                 *)
Run(t, i, p) ==
    i \in Nat /\ i >= 1 /\ \A x \in 1 .. Len(p) : p[x] = t[(i + x) - 1] /\ ~Slash(t[(i + x) - 1])
(* It ends at a slash before k, or at k as the last one.                   *)
Ended(t, k, e, last) ==
    \/ e <= k /\ Slash(t[e])
    \/ last /\ e = k + 1
RunsInv(t, k, o, p) ==
    /\ Len(p) = Len(o)
    /\ \A n \in 1 .. Len(o) : Run(t, o[n], p[n]) /\ Ended(t, k, o[n] + Len(p[n]), n = Len(o))
    /\ k >= 1 /\ ~Slash(t[k]) => Len(o) >= 1 /\ o[Len(o)] + Len(p[Len(o)]) = k + 1

LEMMA PartLen == ASSUME NEW p \in Part PROVE Len(p) \in Nat /\ Len(p) >= 1 /\ p \in PathText
BY DEF Part, PathText

LEMMA RunsSlash ==
  ASSUME NEW t, NEW k \in Nat, NEW o \in Seq(Nat), NEW p \in Seq(Part), RunsInv(t, k, o, p),
         Slash(t[k + 1])
  PROVE  RunsInv(t, k + 1, o, p)
<1>1. ASSUME NEW n \in 1 .. Len(o)
      PROVE  Run(t, o[n], p[n]) /\ Ended(t, k + 1, o[n] + Len(p[n]), n = Len(o))
  <2>1. Run(t, o[n], p[n]) /\ Ended(t, k, o[n] + Len(p[n]), n = Len(o)) /\ Len(p) = Len(o)
    BY DEF RunsInv
  <2>2. o[n] \in Nat /\ p[n] \in Part
    BY <2>1
  <2>3. Len(p[n]) \in Nat
    BY <2>2, PartLen
  <2> DEFINE e == o[n] + Len(p[n])
  <2>4. e \in Nat /\ Ended(t, k, e, n = Len(o))
    BY <2>1, <2>2, <2>3
  <2> HIDE DEF e
  <2>5. Ended(t, k + 1, e, n = Len(o))
    BY <2>4 DEF Ended
  <2> QED BY <2>1, <2>5 DEF e
<1>2. Len(p) = Len(o)
  BY DEF RunsInv
<1> QED BY <1>1, <1>2 DEF RunsInv

(* The last character of a run that is not over.                           *)
LEMMA RunOpen ==
  ASSUME NEW t, NEW k \in Nat, NEW i \in Nat, NEW p \in Part, Run(t, i, p), i + Len(p) = k + 1
  PROVE  k >= 1 /\ ~Slash(t[k])
<1>1. Len(p) \in Nat /\ Len(p) >= 1 /\ i >= 1
  BY PartLen DEF Run
<1>2. Len(p) \in 1 .. Len(p) /\ (i + Len(p)) - 1 = k /\ k >= 1
  BY <1>1
<1> QED BY <1>2 DEF Run

LEMMA RunsBegin ==
  ASSUME NEW t, NEW k \in Nat, NEW o \in Seq(Nat), NEW p \in Seq(Part), RunsInv(t, k, o, p),
         ~Slash(t[k + 1]), k = 0 \/ Slash(t[k]), t[k + 1] \in Characters, t[k + 1] # "/"
  PROVE  RunsInv(t, k + 1, Append(o, k + 1), Append(p, <<t[k + 1]>>))
<1> DEFINE c == t[k + 1]  a == Append(o, k + 1)  b == Append(p, <<c>>)  l == Len(o)
<1>0. l \in Nat /\ Len(p) = l /\ <<c>> \in Part
  BY PartGrows DEF RunsInv
<1>1. Len(a) = l + 1 /\ a[l + 1] = k + 1 /\ \A n \in 1 .. l : a[n] = o[n] /\ o[n] \in Nat
  OBVIOUS
<1>2. Len(b) = l + 1 /\ b[l + 1] = <<c>> /\ \A n \in 1 .. l : b[n] = p[n] /\ p[n] \in Part
  BY <1>0
<1>3. ASSUME NEW n \in 1 .. l PROVE Run(t, o[n], p[n]) /\ Ended(t, k, o[n] + Len(p[n]), n = l)
  BY DEF RunsInv
<1>4. Len(<<c>>) = 1 /\ <<c>>[1] = c
  OBVIOUS
<1> HIDE DEF a, b, l
<1>5. ASSUME NEW n \in 1 .. l
      PROVE  Run(t, a[n], b[n]) /\ Ended(t, k + 1, a[n] + Len(b[n]), n = l + 1)
  <2> DEFINE e == o[n] + Len(p[n])
  <2>1. e \in Nat /\ o[n] \in Nat /\ p[n] \in Part
    <3>1. o[n] \in Nat /\ p[n] \in Part
      BY <1>1, <1>2, Zenon
    <3>2. Len(p[n]) \in Nat
      BY <3>1, PartLen
    <3> QED BY <3>1, <3>2
  <2>2. e # k + 1
    <3> DEFINE i == o[n]  r == p[n]
    <3>1. i \in Nat /\ r \in Part /\ Run(t, i, r) /\ e = i + Len(r)
      BY <1>3, <2>1
    <3> HIDE DEF i, r, e
    <3>2. e = k + 1 => k >= 1 /\ ~Slash(t[k])
      BY <3>1, RunOpen
    <3> QED BY <3>2
  <2>3. Ended(t, k, e, n = l)
    BY <1>3
  <2> HIDE DEF e
  <2>4. Ended(t, k + 1, e, n = l + 1)
    BY <2>1, <2>2, <2>3 DEF Ended
  <2>5. a[n] = o[n] /\ b[n] = p[n]
    BY <1>1, <1>2
  <2> QED BY <1>3, <2>4, <2>5 DEF e
<1>6. Run(t, k + 1, <<c>>)
  <2>1. \A x \in 1 .. 1 : x = 1 /\ ((k + 1) + x) - 1 = k + 1
    OBVIOUS
  <2> HIDE DEF c
  <2>2. \A x \in 1 .. 1 : <<c>>[x] = t[((k + 1) + x) - 1] /\ ~Slash(t[((k + 1) + x) - 1])
    BY <1>4, <2>1 DEF c
  <2> QED BY <1>4, <2>2 DEF Run
<1>7. Ended(t, k + 1, (k + 1) + Len(<<c>>), TRUE)
  BY <1>4 DEF Ended
<1>8. ASSUME NEW n \in 1 .. l + 1
      PROVE  Run(t, a[n], b[n]) /\ Ended(t, k + 1, a[n] + Len(b[n]), n = l + 1)
  <2>1. n \in 1 .. l \/ n = l + 1
    BY <1>0
  <2>2. CASE n = l + 1
    <3>1. Ended(t, k + 1, (k + 1) + Len(<<c>>), n = l + 1)
      BY <1>4, <2>2 DEF Ended
    <3> QED BY <1>1, <1>2, <1>6, <2>2, <3>1
  <2> QED BY <1>5, <2>1, <2>2
<1>9. a[Len(a)] + Len(b[Len(a)]) = (k + 1) + 1 /\ Len(a) >= 1
  BY <1>0, <1>1, <1>2, <1>4
<1>10. RunsInv(t, k + 1, a, b)
  <2>1. \A n \in 1 .. Len(a) : Run(t, a[n], b[n]) /\ Ended(t, k + 1, a[n] + Len(b[n]), n = Len(a))
    BY <1>1, <1>8
  <2>2. Len(b) = Len(a)
    BY <1>1, <1>2
  <2> QED BY <1>9, <2>1, <2>2 DEF RunsInv
<1> QED BY <1>10 DEF a, b

LEMMA RunsGrow ==
  ASSUME NEW t, NEW k \in Nat, NEW o \in Seq(Nat), NEW p \in Seq(Part), RunsInv(t, k, o, p),
         ~Slash(t[k + 1]), k >= 1, ~Slash(t[k]), NEW q \in Seq(Part), Len(q) = Len(p),
         \A n \in 1 .. Len(p) : q[n] = IF n = Len(p) THEN Append(p[Len(p)], t[k + 1]) ELSE p[n]
  PROVE  RunsInv(t, k + 1, o, q)
<1> DEFINE c == t[k + 1]  l == Len(o)
<1>0. l \in Nat /\ Len(p) = l /\ l >= 1 /\ o[l] + Len(p[l]) = k + 1 /\ Len(q) = l
  BY DEF RunsInv
<1>1. /\ \A n \in 1 .. l : o[n] \in Nat /\ p[n] \in Part /\ q[n] \in Part
      /\ l \in 1 .. l
  BY <1>0
<1>3. ASSUME NEW n \in 1 .. l PROVE Run(t, o[n], p[n]) /\ Ended(t, k, o[n] + Len(p[n]), n = l)
  BY DEF RunsInv
<1>2. /\ q[l] = Append(p[l], c)
      /\ \A n \in 1 .. l : n # l => q[n] = p[n]
  BY <1>0, <1>1
<1> DEFINE i == o[l]  r == p[l]  m == Len(r)  s == q[l]
<1>4. i \in Nat /\ r \in Part /\ s \in Part /\ Run(t, i, r) /\ i + m = k + 1 /\ m \in Nat /\ s = Append(r, c)
  BY <1>0, <1>1, <1>2, <1>3, PartLen
<1>5. Len(s) = m + 1 /\ s[m + 1] = c /\ \A x \in 1 .. m : s[x] = r[x]
  <2> HIDE DEF r, s, c
  <2> QED BY <1>4, PartLen DEF m, PathText
<1> HIDE DEF i, r, s, m, c, l
<1>6. Run(t, i, s)
  <2>1. i >= 1 /\ \A x \in 1 .. m : r[x] = t[(i + x) - 1] /\ ~Slash(t[(i + x) - 1])
    BY <1>4 DEF Run, m
  <2>2. (i + (m + 1)) - 1 = k + 1
    BY <1>4
  <2>3. ASSUME NEW x \in 1 .. m + 1 PROVE s[x] = t[(i + x) - 1] /\ ~Slash(t[(i + x) - 1])
    <3>1. x \in 1 .. m \/ x = m + 1
      BY <1>4
    <3>2. CASE x = m + 1
      BY <1>5, <2>2, <3>2 DEF c
    <3> QED BY <1>5, <2>1, <3>1, <3>2
  <2> QED BY <1>4, <1>5, <2>1, <2>3 DEF Run
<1>7. i + Len(s) = (k + 1) + 1
  BY <1>4, <1>5
<1>8. ASSUME NEW n \in 1 .. l
      PROVE  Run(t, o[n], q[n]) /\ Ended(t, k + 1, o[n] + Len(q[n]), n = l)
  <2>1. CASE n = l
    <3>1. Run(t, o[n], q[n]) /\ o[n] + Len(q[n]) = (k + 1) + 1
      BY <1>6, <1>7, <2>1 DEF i, s
    <3> QED BY <2>1, <3>1 DEF Ended
  <2>2. CASE n # l
    <3> DEFINE e == o[n] + Len(p[n])
    <3>1. e \in Nat
      <4>1. o[n] \in Nat /\ p[n] \in Part
        BY <1>1, Zenon
      <4>2. Len(p[n]) \in Nat
        BY <4>1, PartLen
      <4> QED BY <4>1, <4>2
    <3>2. Ended(t, k, e, n = l)
      BY <1>3
    <3> HIDE DEF e
    <3>3. Ended(t, k + 1, e, n = l)
      BY <2>2, <3>1, <3>2 DEF Ended
    <3> QED BY <1>2, <1>3, <2>2, <3>3 DEF e
  <2> QED BY <2>1, <2>2
<1>9. o[l] + Len(q[l]) = (k + 1) + 1 /\ l >= 1 /\ Len(q) = l
  BY <1>0, <1>7 DEF i, s
<1> QED BY <1>8, <1>9 DEF RunsInv, l

(* Split finds the runs; w is t with the slashes all one way.              *)
LEMMA SplitRuns ==
  ASSUME NEW t \in PathText, NEW w \in PathText, Len(w) = Len(t),
         \A i \in 1 .. Len(t) : w[i] = IF t[i] = "\\" THEN "/" ELSE t[i]
  PROVE  Split(w) = Runs(t)
<1> DEFINE N == Len(t)  S == RunStarts(t)
<1>0. N \in Nat /\ Len(w) = N
  BY DEF PathText
<1>s. ASSUME NEW i \in 1 .. N
      PROVE  /\ w[i] = "/" <=> Slash(t[i])
             /\ ~Slash(t[i]) => w[i] = t[i] /\ t[i] # "/"
             /\ t[i] \in Characters
  BY DEF Slash, PathText
<1>1. PICK f : Cuts(w, f) /\ Split(w) = f[N]
  BY <1>0, SplitIs
<1>2. /\ f[0] = <<>> /\ \A k \in 1 .. N : f[k] = Extended(w, f[k - 1], k)
      /\ \A k \in 0 .. N : f[k] \in Seq(Part)
  BY <1>0, <1>1 DEF Cuts
<1>m. ASSUME NEW k \in 1 .. N PROVE k \in S <=> ~Slash(t[k]) /\ (k = 1 \/ Slash(t[k - 1]))
  BY DEF RunStarts
<1>t. \A k \in Nat : InOrder(S, k) \in Seq(Nat)
  <2> TAKE k \in Nat
  <2>1. InOrder(S, k) \in Seq(S \cap (1 .. k))
    BY OrderType
  <2>2. S \cap (1 .. k) \subseteq Nat
    OBVIOUS
  <2> HIDE DEF S
  <2> QED BY <2>1, <2>2, SeqMonotonic
<1> HIDE DEF N, S
<1> DEFINE U == {k \in Nat : k <= N => RunsInv(t, k, InOrder(S, k), f[k])}
<1>3. 0 \in U
  <2>1. InOrder(S, 0) = <<>> /\ Len(<<>>) = 0
    BY OrderNone
  <2>2. RunsInv(t, 0, InOrder(S, 0), f[0])
    BY <1>2, <2>1 DEF RunsInv
  <2> QED BY <2>2
<1>4. ASSUME NEW k \in Nat, k \in U PROVE k + 1 \in U
  <2> SUFFICES ASSUME k + 1 <= N PROVE RunsInv(t, k + 1, InOrder(S, k + 1), f[k + 1])
    OBVIOUS
  <2> DEFINE o == InOrder(S, k)  p == f[k]
  <2>1. /\ k \in 0 .. N /\ k + 1 \in 1 .. N /\ (k + 1) - 1 = k /\ k + 1 \in 1 .. Len(w)
        /\ k # 0 => k \in 1 .. N /\ k >= 1 /\ k + 1 # 1
        /\ k + 1 = 1 <=> k = 0
    BY <1>0
  <2>2. RunsInv(t, k, o, p) /\ o \in Seq(Nat) /\ p \in Seq(Part) /\ f[k + 1] = Extended(w, p, k + 1)
    BY <1>0, <1>2, <1>4, <1>t, <2>1
  <2>3. InOrder(S, k + 1) = IF k + 1 \in S THEN Append(o, k + 1) ELSE o
    BY OrderStep
  <2> HIDE DEF o, p
  <2>4. CASE Slash(t[k + 1])
    <3>1. k + 1 \notin S /\ w[k + 1] = "/"
      BY <1>m, <1>s, <2>1, <2>4
    <3>2. f[k + 1] = p
      BY <2>1, <2>2, <3>1, ExtendedIs
    <3>3. RunsInv(t, k + 1, o, p)
      BY <2>2, <2>4, RunsSlash
    <3> QED BY <2>3, <3>1, <3>2, <3>3
  <2>5. CASE ~Slash(t[k + 1]) /\ (k = 0 \/ Slash(t[k]))
    <3>1. k + 1 \in S /\ w[k + 1] # "/" /\ w[k + 1] = t[k + 1] /\ t[k + 1] # "/" /\ t[k + 1] \in Characters
      BY <1>m, <1>s, <2>1, <2>5
    <3>2. k + 1 = 1 \/ w[(k + 1) - 1] = "/"
      BY <1>s, <2>1, <2>5
    <3>3. f[k + 1] = Append(p, <<t[k + 1]>>)
      BY <2>1, <2>2, <3>1, <3>2, ExtendedIs
    <3>4. RunsInv(t, k + 1, Append(o, k + 1), Append(p, <<t[k + 1]>>))
      BY <2>2, <2>5, <3>1, RunsBegin
    <3> QED BY <2>3, <3>1, <3>3, <3>4
  <2>6. CASE ~Slash(t[k + 1]) /\ ~(k = 0 \/ Slash(t[k]))
    <3>1. k + 1 \notin S /\ w[k + 1] # "/" /\ w[k + 1] = t[k + 1] /\ k + 1 # 1 /\ w[(k + 1) - 1] # "/" /\ k >= 1
      BY <1>m, <1>s, <2>1, <2>6
    <3>2. p # <<>>
      BY <2>2, <2>6, <3>1 DEF RunsInv
    <3> DEFINE q == f[k + 1]
    <3>3. /\ Len(q) = Len(p)
          /\ \A n \in 1 .. Len(p) : q[n] = IF n = Len(p) THEN Append(p[Len(p)], t[k + 1]) ELSE p[n]
      BY <2>1, <2>2, <3>1, <3>2, ExtendedLast
    <3>4. q \in Seq(Part)
      BY <1>2, <2>1
    <3> HIDE DEF q
    <3>5. RunsInv(t, k + 1, o, q)
      BY <2>2, <2>6, <3>1, <3>3, <3>4, RunsGrow
    <3> QED BY <2>3, <3>1, <3>5 DEF q
  <2> QED BY <2>4, <2>5, <2>6
<1>5. Nat \subseteq U
  <2> HIDE DEF U
  <2> QED BY <1>3, <1>4, Induct
<1> DEFINE o == InOrder(S, N)  p == f[N]
<1>6. RunsInv(t, N, o, p) /\ o \in Seq(Nat) /\ p \in Seq(Part)
  BY <1>0, <1>2, <1>5, <1>t
<1> HIDE DEF o, p
<1>7. ASSUME NEW n \in 1 .. Len(o) PROVE p[n] = SubSeq(t, o[n], RunStop(t, o[n]))
  <2> DEFINE i == o[n]  r == p[n]  j == (i + Len(r)) - 1
  <2>1. Run(t, i, r) /\ Ended(t, N, i + Len(r), n = Len(o)) /\ i \in Nat /\ r \in Part /\ i >= 1
    <3>1. Run(t, o[n], p[n]) /\ Ended(t, N, o[n] + Len(p[n]), n = Len(o)) /\ Len(p) = Len(o)
      BY <1>6, Zenon DEF RunsInv
    <3>2. o[n] \in Nat /\ p[n] \in Part
      BY <1>6, <3>1
    <3>3. o[n] >= 1
      BY <3>1 DEF Run
    <3> QED BY <3>1, <3>2, <3>3, Zenon DEF i, r
  <2> HIDE DEF i, r
  <2>2. Len(r) \in Nat /\ Len(r) >= 1 /\ r \in PathText
    BY <2>1, PartLen
  <2>3. j \in Nat /\ j + 1 = i + Len(r) /\ i <= j
    BY <2>1, <2>2
  <2>4. \A x \in 1 .. Len(r) : r[x] = t[(i + x) - 1] /\ ~Slash(t[(i + x) - 1])
    BY <2>1 DEF Run
  <2>5. (j + 1 <= N /\ Slash(t[j + 1])) \/ j = N
    BY <1>0, <2>1, <2>3 DEF Ended
  <2>6. \A k \in i .. j : ~Slash(t[k])
    <3> TAKE k \in i .. j
    <3>1. (k - i) + 1 \in 1 .. Len(r) /\ (i + ((k - i) + 1)) - 1 = k
      BY <2>1, <2>2
    <3> QED BY <2>4, <3>1
  <2> HIDE DEF j
  <2>7. j \in i .. N /\ RunStops(t, i, j)
    BY <1>0, <2>1, <2>3, <2>5, <2>6 DEF RunStops, N
  <2>8. ASSUME NEW h \in i .. N, RunStops(t, i, h) PROVE h = j
    <3>1. (\A k \in i .. h : ~Slash(t[k])) /\ (h = N \/ Slash(t[h + 1]))
      BY <2>8 DEF RunStops, N
    <3>2. CASE h < j
      <4>1. h + 1 \in i .. j /\ h # N
        BY <1>0, <2>1, <2>3, <2>7, <3>2
      <4> QED BY <2>6, <3>1, <4>1
    <3>3. CASE j < h
      <4>1. j + 1 \in i .. h /\ j # N
        BY <1>0, <2>1, <2>3, <2>7, <3>3
      <4> QED BY <2>5, <3>1, <4>1
    <3> QED BY <1>0, <2>1, <2>3, <3>2, <3>3
  <2>9. RunStop(t, i) = j
    <3>1. RunStop(t, i) \in i .. N /\ RunStops(t, i, RunStop(t, i))
      BY <2>7 DEF RunStop, N
    <3> QED BY <2>8, <3>1
  <2> DEFINE y == SubSeq(t, i, j)
  <2>10. y \in PathText /\ Len(y) = Len(r) /\ \A x \in 1 .. Len(r) : y[x] = t[(i + x) - 1]
    <3>1. i \in 1 .. Len(t) /\ j \in i .. Len(t) /\ (j - i) + 1 = Len(r) /\ t \in Seq(Characters)
      BY <1>0, <2>1, <2>2, <2>3, <2>7 DEF N, PathText
    <3>2. y \in Seq(Characters) /\ Len(y) = (j - i) + 1 /\ \A x \in 1 .. (j - i) + 1 : y[x] = t[(i + x) - 1]
      BY <3>1, SubSeqProperties
    <3> QED BY <3>1, <3>2 DEF PathText
  <2> HIDE DEF y
  <2>11. r = y
    BY <2>2, <2>4, <2>10, SeqEqual DEF PathText
  <2> QED BY <2>9, <2>11 DEF i, r, y
<1>8. Len(p) = Len(o)
  BY <1>6 DEF RunsInv
<1> DEFINE g == [n \in 1 .. Len(o) |-> SubSeq(t, o[n], RunStop(t, o[n]))]
<1>9. Runs(t) = g
  BY Zenon DEF Runs, o, S, N
<1>10. p = [n \in 1 .. Len(p) |-> p[n]]
  BY <1>6
<1>11. p = g
  BY <1>7, <1>8, <1>10
<1> QED BY <1>1, <1>9, <1>11 DEF p

-----------------------------------------------------------------------------
(* The text behind the drive.                                              *)

Straight(in) == ReplaceAll(in, "\\", "/")
Rest(in) == AfterPrefix(Straight(in))

LEMMA StraightIs ==
  ASSUME NEW in \in PathText
  PROVE  /\ Straight(in) \in PathText /\ Len(Straight(in)) = Len(in)
         /\ \A i \in 1 .. Len(in) : Straight(in)[i] = IF in[i] = "\\" THEN "/" ELSE in[i]
<1> DEFINE s == [i \in 1 .. Len(in) |-> IF in[i] = "\\" THEN "/" ELSE in[i]]
<1>0. Len(in) \in Nat /\ \A i \in 1 .. Len(in) : in[i] \in Characters
  BY DEF PathText
<1>1. "/" \in Characters
  BY DEF Characters
<1>2. Straight(in) = s
  BY Zenon DEF Straight, ReplaceAll
<1>3. s \in PathText /\ Len(s) = Len(in) /\ \A i \in 1 .. Len(in) : s[i] = IF in[i] = "\\" THEN "/" ELSE in[i]
  BY <1>0, <1>1 DEF PathText
<1> HIDE DEF s
<1> QED BY <1>2, <1>3

LEMMA StraightDrive ==
  ASSUME NEW in \in PathText
  PROVE  /\ HasDrive(Straight(in)) <=> HasDrive(in)
         /\ HasDrive(in) => Straight(in)[1] = in[1] /\ Len(in) >= 2 /\ Lower(in[1]) = "a"
         /\ HasDrive(in) => ~Slash(in[1])
<1> DEFINE s == Straight(in)
<1>1. s \in PathText /\ Len(s) = Len(in) /\ \A i \in 1 .. Len(in) : s[i] = IF in[i] = "\\" THEN "/" ELSE in[i]
  BY StraightIs
<1>2. Len(in) \in Nat
  BY DEF PathText
<1> HIDE DEF s
<1>3. Len(in) >= 2 => 1 \in 1 .. Len(in) /\ 2 \in 1 .. Len(in)
  BY <1>2
<1>4. Len(in) >= 2 => (s[2] = ":" <=> in[2] = ":") /\ (s[1] \in Alpha <=> in[1] \in Alpha)
                      /\ (in[1] \in Alpha => s[1] = in[1])
  BY <1>1, <1>3 DEF Alpha
<1>5. HasDrive(s) <=> HasDrive(in)
  BY <1>1, <1>4 DEF HasDrive
<1>6. HasDrive(in) => s[1] = in[1] /\ Len(in) >= 2 /\ in[1] \in Alpha
  BY <1>4 DEF HasDrive
<1>7. in[1] \in Alpha => Lower(in[1]) = "a" /\ ~Slash(in[1])
  BY DEF Alpha, Lower, Slash
<1> QED BY <1>5, <1>6, <1>7 DEF s

LEMMA BehindDrive ==
  ASSUME NEW x \in PathText, Len(x) >= 2
  PROVE  /\ SubSeq(x, 3, Len(x)) \in PathText /\ Len(SubSeq(x, 3, Len(x))) = Len(x) - 2
         /\ \A i \in 1 .. Len(x) - 2 : SubSeq(x, 3, Len(x))[i] = x[i + 2]
<1> DEFINE m == Len(x)  y == SubSeq(x, 3, m)
<1>0. m \in Nat /\ m >= 2 /\ x \in Seq(Characters)
  BY DEF PathText
<1>1. CASE m = 2
  <2>1. y = <<>>
    BY <1>1, SubSeqEmpty
  <2>2. y \in PathText /\ Len(y) = m - 2
    BY <1>1, <2>1 DEF PathText
  <2> HIDE DEF y
  <2> QED BY <1>1, <2>2 DEF y
<1>2. CASE m >= 3
  <2>1. 3 \in 1 .. Len(x) /\ m \in 3 .. Len(x) /\ (m - 3) + 1 = m - 2
    BY <1>0, <1>2
  <2>2. y \in Seq(Characters) /\ Len(y) = (m - 3) + 1 /\ \A i \in 1 .. (m - 3) + 1 : y[i] = x[(3 + i) - 1]
    BY <1>0, <2>1, SubSeqProperties
  <2>3. \A i \in 1 .. m - 2 : (3 + i) - 1 = i + 2
    BY <1>0
  <2> HIDE DEF y
  <2>4. y \in PathText /\ Len(y) = m - 2 /\ \A i \in 1 .. m - 2 : y[i] = x[i + 2]
    BY <2>1, <2>2, <2>3 DEF PathText
  <2> QED BY <2>4, Zenon DEF y, m
<1>3. m = 2 \/ m >= 3
  <2> HIDE DEF m
  <2> QED BY <1>0
<1> QED BY <1>1, <1>2, <1>3, Zenon

LEMMA RestIs ==
  ASSUME NEW in \in PathText
  PROVE  /\ Rest(in) \in PathText /\ Split(Rest(in)) = Parts(in)
         /\ StartsAtRoot(Rest(in)) <=> HasDrive(in) \/ (in # <<>> /\ Slash(in[1]))
<1> DEFINE s == Straight(in)
<1>1. s \in PathText /\ Len(s) = Len(in) /\ \A i \in 1 .. Len(in) : s[i] = IF in[i] = "\\" THEN "/" ELSE in[i]
  BY StraightIs
<1>2. HasDrive(s) <=> HasDrive(in)
  BY StraightDrive
<1>3. Parts(in) = Runs(Bare(in))
  BY PartsAreRuns
<1> HIDE DEF s
<1>4. CASE ~HasDrive(in)
  <2>1. Rest(in) = s /\ Bare(in) = in
    BY <1>2, <1>4, Zenon DEF Rest, AfterPrefix, Bare, s
  <2>2. Split(s) = Runs(in)
    BY <1>1, SplitRuns
  <2>3. StartsAtRoot(s) <=> in # <<>> /\ Slash(in[1])
    <3>1. Len(in) \in Nat /\ (in # <<>> <=> Len(in) # 0) /\ (s # <<>> <=> Len(s) # 0)
      BY <1>1 DEF PathText
    <3>2. Len(in) # 0 => 1 \in 1 .. Len(in)
      BY <3>1
    <3>3. Len(in) # 0 => (s[1] = "/" <=> Slash(in[1]))
      BY <1>1, <3>2 DEF Slash
    <3> QED BY <1>1, <3>1, <3>3 DEF StartsAtRoot
  <2> QED BY <1>1, <1>3, <1>4, <2>1, <2>2, <2>3
<1>5. CASE HasDrive(in)
  <2> DEFINE t == SubSeq(s, 3, Len(s))  b == SubSeq(in, 3, Len(in))  z == <<"/">> \o t
  <2>0. Len(in) >= 2 /\ Len(in) \in Nat
    BY <1>5, StraightDrive DEF PathText
  <2>1. t \in PathText /\ Len(t) = Len(in) - 2 /\ \A i \in 1 .. Len(in) - 2 : t[i] = s[i + 2]
    <3>1. s \in PathText /\ Len(s) >= 2
      BY <1>1, <2>0
    <3> QED BY <1>1, <3>1, BehindDrive
  <2>2. b \in PathText /\ Len(b) = Len(in) - 2 /\ \A i \in 1 .. Len(in) - 2 : b[i] = in[i + 2]
    BY <2>0, BehindDrive
  <2>3. Rest(in) = (IF StartsAtRoot(t) THEN t ELSE z) /\ Bare(in) = b
    BY <1>2, <1>5, Zenon DEF Rest, AfterPrefix, Bare, s
  <2>4. z \in PathText /\ Len(z) = Len(t) + 1 /\ z[1] = "/" /\ \A i \in 1 .. Len(t) : z[i + 1] = t[i]
    <3> DEFINE r == <<"/">>
    <3>1. r \in PathText /\ Len(r) = 1 /\ r[1] = "/"
      BY DEF PathText, Characters
    <3>t. t \in PathText /\ Len(t) \in Nat
      BY <2>1 DEF PathText
    <3> HIDE DEF r, t
    <3>2. /\ r \o t \in PathText /\ Len(r \o t) = Len(r) + Len(t)
          /\ \A i \in 1 .. Len(r) : (r \o t)[i] = r[i]
          /\ \A i \in 1 .. Len(t) : (r \o t)[Len(r) + i] = t[i]
      BY <3>1, <3>t, TextCat
    <3>3. z = r \o t
      BY Zenon DEF r
    <3> HIDE DEF z
    <3> DEFINE y == r \o t
    <3>4. y \in PathText /\ Len(y) = 1 + Len(t) /\ y[1] = "/" /\ \A i \in 1 .. Len(t) : y[1 + i] = t[i]
      BY <3>1, <3>2
    <3> HIDE DEF y
    <3>5. \A i \in 1 .. Len(t) : 1 + i = i + 1
      OBVIOUS
    <3>6. z = y
      BY <3>3, Zenon DEF y
    <3> QED BY <3>4, <3>5, <3>6, <3>t
  <2>5. Split(z) = Split(t)
    <3> HIDE DEF z, t
    <3> QED BY <2>1, <2>4, SplitRooted
  <2>6. Split(t) = Runs(b)
    <3>1. Len(t) = Len(b) /\ \A i \in 1 .. Len(b) : t[i] = IF b[i] = "\\" THEN "/" ELSE b[i]
      <4>1. \A i \in 1 .. Len(in) - 2 : i + 2 \in 1 .. Len(in)
        BY <2>0
      <4> HIDE DEF t, b
      <4> QED BY <1>1, <2>1, <2>2, <4>1
    <3> HIDE DEF t, b
    <3> QED BY <2>1, <2>2, <3>1, SplitRuns
  <2>7. StartsAtRoot(z)
    <3> HIDE DEF z, t
    <3>1. Len(t) \in Nat
      BY <2>1 DEF PathText
    <3>2. z # <<>>
      BY <2>4, <3>1 DEF PathText
    <3> QED BY <2>4, <3>2 DEF StartsAtRoot
  <2> HIDE DEF t, b, z
  <2>8. CASE StartsAtRoot(t)
    BY <1>3, <1>5, <2>1, <2>3, <2>6, <2>8
  <2>9. CASE ~StartsAtRoot(t)
    BY <1>3, <1>5, <2>3, <2>4, <2>5, <2>6, <2>7, <2>9
  <2> QED BY <2>8, <2>9
<1> QED BY <1>4, <1>5


-----------------------------------------------------------------------------
(* The form of a place.                                                    *)

Roots == {"a", "/", "relative"}
Drive == <<"a", ":">>
Anchor(root) == IF root = "relative" THEN <<>> ELSE <<"/">>
Form(root, names) ==
    IF root = "a" THEN Drive \o Joined(Anchor(root), names) ELSE Joined(Anchor(root), names)

LEMMA AnchorIs == ASSUME NEW root \in Roots PROVE Anchor(root) \in Rooted
BY DEF Anchor, Roots, Rooted

LEMMA DriveIs == Drive \in {x \in Seq({"a", ":"}) : Len(x) = 2} /\ Drive[1] = "a" /\ Drive[2] = ":"
BY DEF Drive

LEMMA NamesType == ASSUME NEW P \in Seq(Part) PROVE Names(P) \in Seq(Part)
<1>1. Resolved(P) \in Stacks /\ Resolved(P).names = Names(P)
  BY ResolvedNames
<1> QED BY <1>1 DEF Stacks

LEMMA PartsType == ASSUME NEW in \in PathText PROVE Parts(in) \in Seq(Part)
BY RestIs, SplitType

(* What CanonicalPath answers, in the reference's words.                   *)
LEMMA CanonicalIs ==
  ASSUME NEW in \in PathText, in # <<>>
  PROVE  /\ Root(in) \in Roots
         /\ HasPlace(in) => CanonicalPath(in) = Form(Root(in), Names(Parts(in)))
         /\ ~HasPlace(in) => CanonicalPath(in) = <<>>
<1> DEFINE s == Straight(in)  P == Parts(in)  ns == Names(P)  st == Resolved(P)
           abs == StartsAtRoot(Rest(in))  r == Root(in)
<1>1. P \in Seq(Part) /\ ns \in Seq(Part)
  BY PartsType, NamesType
<1>2. /\ st \in Stacks /\ st.names = ns
      /\ st.above = 0 <=> \A last \in 1 .. Len(P) : ~Sinks(P, 1, last)
  BY <1>1, ResolvedNames
<1>3. st.above \in Nat
  BY <1>2 DEF Stacks
<1>4. abs <=> HasDrive(in) \/ Slash(in[1])
  BY RestIs
<1>5. /\ HasDrive(in) => r = "a"
      /\ ~HasDrive(in) /\ Slash(in[1]) => r = "/"
      /\ ~HasDrive(in) /\ ~Slash(in[1]) => r = "relative"
  BY StraightDrive DEF Root
<1>6. r \in Roots
  BY <1>5 DEF Roots
<1>7. abs <=> r # "relative"
  BY <1>4, <1>5
<1>8. Prefix(s) = IF HasDrive(in) THEN Drive ELSE <<>>
  <2>1. HasDrive(s) <=> HasDrive(in)
    BY StraightDrive
  <2>2. HasDrive(in) => s[1] = in[1] /\ Lower(in[1]) = "a"
    BY StraightDrive
  <2> HIDE DEF s
  <2> QED BY <2>1, <2>2, Zenon DEF Prefix, Drive
<1>9. CanonicalPath(in) =
         IF Refused(in) \/ (~abs /\ st.above > 0) THEN <<>>
         ELSE Prefix(s) \o Joined(IF abs THEN <<"/">> ELSE <<>>, st.names)
  <2>1. Split(Rest(in)) = P
    BY RestIs
  <2>2. CanonicalPath(in) =
         IF Refused(in) \/ (~abs /\ Resolved(Split(Rest(in))).above > 0) THEN <<>>
         ELSE Prefix(s) \o Joined(IF abs THEN <<"/">> ELSE <<>>, Resolved(Split(Rest(in))).names)
    BY Zenon DEF CanonicalPath, Rest, Straight
  <2> HIDE DEF P
  <2> QED BY <2>1, <2>2, Zenon
<1>10. (IF abs THEN <<"/">> ELSE <<>>) = Anchor(r)
  <2> HIDE DEF abs, r
  <2> QED BY <1>7 DEF Anchor
<1>p. HasPlace(in) <=> ~Refused(in) /\ (r = "relative" => ns # <<>> /\ \A last \in 1 .. Len(P) : ~Sinks(P, 1, last))
  BY Zenon DEF HasPlace
<1> DEFINE J == Joined(Anchor(r), ns)
<1>11. J \in PathText
  BY <1>1, <1>6, AnchorIs, SplitJoined
<1> HIDE DEF abs, r, s, st, P
<1>12. ~Refused(in) /\ (abs \/ st.above = 0) => CanonicalPath(in) = Form(r, ns)
  <2> SUFFICES ASSUME ~Refused(in), abs \/ st.above = 0 PROVE CanonicalPath(in) = Form(r, ns)
    OBVIOUS
  <2>1. ~(~abs /\ st.above > 0)
    BY <1>3
  <2>2. CanonicalPath(in) = Prefix(s) \o J
    BY <1>2, <1>9, <1>10, <2>1, Zenon
  <2>3. CASE HasDrive(in)
    BY <1>5, <1>8, <2>2, <2>3, Zenon DEF Form
  <2>4. CASE ~HasDrive(in)
    <3>1. r # "a"
      BY <1>5, <2>4
    <3>2. Form(r, ns) = J
      BY <3>1, Zenon DEF Form
    <3>3. <<>> \o J = J
      <4> HIDE DEF J
      <4> QED BY <1>11, ConcatEmptySeq DEF PathText
    <3> QED BY <1>8, <2>2, <2>4, <3>2, <3>3, Zenon
  <2> QED BY <2>3, <2>4
<1>13. HasPlace(in) => CanonicalPath(in) = Form(r, ns)
  BY <1>2, <1>7, <1>12, <1>p
<1>14. ~HasPlace(in) => CanonicalPath(in) = <<>>
  <2>1. CASE Refused(in)
    BY <1>9, <2>1
  <2>2. CASE ~Refused(in) /\ r = "relative" /\ ~(\A last \in 1 .. Len(P) : ~Sinks(P, 1, last))
    <3>1. ~abs /\ st.above > 0
      BY <1>2, <1>3, <1>7, <2>2
    <3> QED BY <1>9, <3>1
  <2>3. CASE /\ ~Refused(in) /\ r = "relative" /\ ns = <<>>
             /\ \A last \in 1 .. Len(P) : ~Sinks(P, 1, last)
    <3>1. CanonicalPath(in) = Form(r, ns)
      BY <1>2, <1>12, <2>3
    <3>2. Form(r, ns) = Joined(<<>>, <<>>)
      BY <2>3 DEF Form, Anchor
    <3>3. Joined(<<>>, <<>>) = <<>>
      BY JoinedNone DEF Rooted
    <3> QED BY <3>1, <3>2, <3>3
  <2> QED BY <1>p, <2>1, <2>2, <2>3
<1> QED BY <1>6, <1>13, <1>14 DEF r, P

Wide == Seq(Characters \cup {"a"})

LEMMA DriveCat ==
  ASSUME NEW y \in PathText, NEW x, x = Drive \o y
  PROVE  /\ x \in Wide /\ Len(x) = Len(y) + 2 /\ x[1] = "a" /\ x[2] = ":"
         /\ \A i \in 1 .. Len(y) : x[i + 2] = y[i]
<1> DEFINE C == Characters \cup {"a"}
<1>1. Drive \in Seq(C) /\ Len(Drive) = 2 /\ Drive[1] = "a" /\ Drive[2] = ":"
  <2>1. "a" \in C /\ ":" \in C
    BY DEF Characters
  <2> HIDE DEF C
  <2> QED BY <2>1 DEF Drive
<1>2. y \in Seq(C) /\ Len(y) \in Nat
  <2>1. Characters \subseteq C
    OBVIOUS
  <2> HIDE DEF C
  <2> QED BY <2>1, SeqMonotonic DEF PathText
<1> HIDE DEF C
<1> DEFINE D == Drive
<1>3. D \in Seq(C) /\ Len(D) = 2 /\ D[1] = "a" /\ D[2] = ":" /\ x = D \o y
  BY <1>1
<1> HIDE DEF D
<1>4. /\ D \o y \in Seq(C) /\ Len(D \o y) = Len(D) + Len(y)
      /\ \A i \in 1 .. Len(D) + Len(y) : (D \o y)[i] = IF i <= Len(D) THEN D[i] ELSE y[i - Len(D)]
  BY <1>2, <1>3, ConcatProperties
<1>5. /\ x \in Seq(C) /\ Len(x) = 2 + Len(y)
      /\ \A i \in 1 .. 2 + Len(y) : x[i] = IF i <= 2 THEN D[i] ELSE y[i - 2]
  <2> DEFINE z == D \o y
  <2>1. x = z
    BY <1>3
  <2>2. /\ z \in Seq(C) /\ Len(z) = 2 + Len(y)
        /\ \A i \in 1 .. 2 + Len(y) : z[i] = IF i <= 2 THEN D[i] ELSE y[i - 2]
    BY <1>3, <1>4, Zenon
  <2> HIDE DEF z
  <2> QED BY <2>1, <2>2
<1>6. x[1] = "a" /\ x[2] = ":"
  BY <1>2, <1>3, <1>5
<1>7. ASSUME NEW i \in 1 .. Len(y) PROVE x[i + 2] = y[i]
  <2>1. i + 2 \in 1 .. 2 + Len(y) /\ ~(i + 2 <= 2) /\ (i + 2) - 2 = i
    BY <1>2
  <2> QED BY <1>5, <2>1
<1> QED BY <1>2, <1>5, <1>6, <1>7 DEF Wide, C

(* A place that has a form.                                                *)
Proper(root, names) ==
    root \in Roots /\ names \in Seq(Part) /\ (root = "relative" => names # <<>>)

LEMMA FormIs ==
  ASSUME NEW r, NEW ns, Proper(r, ns), NEW J, J = Joined(Anchor(r), ns)
  PROVE  /\ J \in PathText /\ J \in Wide /\ Len(J) \in Nat /\ Len(J) >= 1 /\ J # <<>> /\ Anchor(r) \in Rooted
         /\ r # "relative" => J[1] = "/"
         /\ r = "relative" => Bounded(ns[1], J) /\ ns[1] \in Part
<1>1. r \in Roots /\ ns \in Seq(Part) /\ Anchor(r) \in Rooted
  BY AnchorIs DEF Proper
<1>2. J \in PathText /\ Len(J) \in Nat
  <2>1. J \in PathText
    BY <1>1, SplitJoined
  <2> QED BY <2>1 DEF PathText
<1>3. J \in Wide
  <2>1. Characters \subseteq Characters \cup {"a"}
    OBVIOUS
  <2> QED BY <1>2, <2>1, SeqMonotonic DEF PathText, Wide
<1>4. CASE r # "relative"
  <2>1. Anchor(r) = <<"/">> /\ <<"/">> # <<>>
    BY <1>4 DEF Anchor
  <2>2. Len(J) >= 1 /\ J[1] = "/"
    BY <1>1, <2>1, JoinedHead
  <2> QED BY <1>1, <1>2, <1>3, <1>4, <2>2
<1>5. CASE r = "relative"
  <2>1. Anchor(r) = <<>> /\ ns # <<>>
    BY <1>5 DEF Anchor, Proper
  <2>2. Bounded(ns[1], J) /\ ns[1] \in Part
    BY <1>1, <2>1, JoinedHead
  <2>3. Len(J) >= 1
    BY <1>2, <2>2, PartLen DEF Bounded, Fronts
  <2> QED BY <1>1, <1>2, <1>3, <1>5, <2>2, <2>3
<1> QED BY <1>4, <1>5

(* How a form starts tells its root.                                       *)
LEMMA FormHead ==
  ASSUME NEW r, NEW ns, Proper(r, ns), NEW F, F = Form(r, ns)
  PROVE  /\ F \in Wide /\ Len(F) \in Nat /\ F # <<>> /\ Len(F) >= 1
         /\ r = "a" => F[1] = "a" /\ Len(F) >= 2 /\ F[2] = ":"
         /\ r = "/" => F[1] = "/"
         /\ r = "relative" => F[1] # "/"
         /\ r = "relative" /\ ~HasDrive(ns[1]) /\ F[1] = "a" /\ Len(F) >= 2 => F[2] # ":"
<1> DEFINE J == Joined(Anchor(r), ns)
<1>0. F = IF r = "a" THEN Drive \o J ELSE J
  BY Zenon DEF Form
<1>1. /\ J \in PathText /\ J \in Wide /\ Len(J) \in Nat /\ Len(J) >= 1 /\ J # <<>>
      /\ r # "relative" => J[1] = "/"
      /\ r = "relative" => Bounded(ns[1], J) /\ ns[1] \in Part
  BY FormIs
<1> HIDE DEF J
<1>2. CASE r = "a"
  <2>1. F \in Wide /\ Len(F) = Len(J) + 2 /\ F[1] = "a" /\ F[2] = ":"
    <3>1. F = Drive \o J
      BY <1>0, <1>2, Zenon
    <3> QED BY <1>1, <3>1, DriveCat
  <2>2. F # <<>> /\ Len(F) >= 2 /\ Len(F) \in Nat
    BY <1>1, <2>1
  <2> QED BY <1>2, <2>1, <2>2
<1>3. CASE r = "/"
  <2>1. F = J
    BY <1>0, <1>3
  <2> QED BY <1>1, <1>3, <2>1
<1>4. CASE r = "relative"
  <2>1. F = J
    BY <1>0, <1>4
  <2> DEFINE p == ns[1]
  <2>2. Bounded(p, F) /\ p \in Part
    BY <1>1, <1>4, <2>1
  <2> HIDE DEF p
  <2>3. Len(p) \in Nat /\ Len(p) >= 1 /\ \A i \in 1 .. Len(p) : p[i] # "/" /\ p[i] = F[i]
    BY <2>2, PartLen DEF Part, Bounded, Fronts
  <2>4. F[1] # "/" /\ F[1] = p[1]
    BY <2>3
  <2>5. ASSUME ~HasDrive(p), F[1] = "a", Len(F) >= 2 PROVE F[2] # ":"
    <3>1. CASE Len(p) >= 2
      <4>1. p[2] = F[2] /\ p[1] \in Alpha
        BY <2>3, <2>4, <2>5, <3>1 DEF Alpha
      <4> QED BY <2>5, <3>1, <4>1 DEF HasDrive
    <3>2. CASE Len(p) = 1
      <4>1. 1 \in 1 .. Len(p) /\ 1 + 1 = 2
        BY <2>3
      <4>2. F[2] = "/"
        BY <2>2, <2>3, <2>5, <3>2, <4>1 DEF Bounded
      <4> QED BY <4>2
    <3>3. Len(p) >= 2 \/ Len(p) = 1
      BY <2>3
    <3> QED BY <3>1, <3>2, <3>3, Zenon
  <2> QED BY <1>1, <1>4, <2>1, <2>4, <2>5 DEF p
<1>5. r = "a" \/ r = "/" \/ r = "relative"
  BY DEF Proper, Roots
<1> QED BY <1>2, <1>3, <1>4, <1>5

-----------------------------------------------------------------------------
(* The forms compared.                                                     *)

LEMMA DriveBound ==
  ASSUME NEW x \in PathText, NEW z \in PathText, x # <<>>, NEW X, NEW Z, X = Drive \o x, Z = Drive \o z
  PROVE  Bounded(X, Z) <=> Bounded(x, z)
<1> DEFINE m == Len(x)  n == Len(z)
<1>0. m \in Nat /\ n \in Nat /\ m >= 1
  BY DEF PathText
<1>1. Len(X) = m + 2 /\ X[1] = "a" /\ X[2] = ":" /\ \A i \in 1 .. m : X[i + 2] = x[i]
  BY DriveCat
<1>2. Len(Z) = n + 2 /\ Z[1] = "a" /\ Z[2] = ":" /\ \A i \in 1 .. n : Z[i + 2] = z[i]
  BY DriveCat
<1>3. Fronts(X, Z) <=> Fronts(x, z)
  <2>1. Fronts(x, z) <=> m <= n /\ \A i \in 1 .. m : x[i] = z[i]
    BY DEF Fronts
  <2>2. Fronts(X, Z) <=> m + 2 <= n + 2 /\ \A i \in 1 .. m + 2 : X[i] = Z[i]
    BY <1>1, <1>2 DEF Fronts
  <2> HIDE DEF m, n
  <2>3. m + 2 <= n + 2 <=> m <= n
    BY <1>0
  <2>4. ASSUME m <= n, \A i \in 1 .. m : x[i] = z[i], NEW i \in 1 .. m + 2 PROVE X[i] = Z[i]
    <3>1. CASE i = 1 \/ i = 2
      BY <1>1, <1>2, <3>1
    <3>2. CASE i > 2
      <4>1. i - 2 \in 1 .. m /\ i - 2 \in 1 .. n /\ (i - 2) + 2 = i
        BY <1>0, <2>4, <3>2
      <4> QED BY <1>1, <1>2, <2>4, <4>1
    <3>3. i = 1 \/ i = 2 \/ i > 2
      BY <1>0
    <3> QED BY <3>1, <3>2, <3>3, Zenon
  <2>5. ASSUME m <= n, \A i \in 1 .. m + 2 : X[i] = Z[i], NEW i \in 1 .. m PROVE x[i] = z[i]
    <3>1. i + 2 \in 1 .. m + 2 /\ i \in 1 .. n
      BY <1>0, <2>5
    <3> QED BY <1>1, <1>2, <2>5, <3>1
  <2> QED BY <2>1, <2>2, <2>3, <2>4, <2>5
<1>4. ASSUME Fronts(x, z)
      PROVE  (Len(X) = Len(Z) \/ X[Len(X)] = "/" \/ Z[Len(X) + 1] = "/")
             <=> (m = n \/ x[m] = "/" \/ z[m + 1] = "/")
  <2>1. m <= n
    BY <1>4 DEF Fronts
  <2> HIDE DEF m, n
  <2>2. Len(X) = Len(Z) <=> m = n
    BY <1>0, <1>1, <1>2
  <2>3. X[Len(X)] = x[m]
    BY <1>0, <1>1
  <2>4. m # n => Z[Len(X) + 1] = z[m + 1]
    <3>1. m # n => m + 1 \in 1 .. n /\ Len(X) + 1 = (m + 1) + 2
      BY <1>0, <1>1, <2>1
    <3> QED BY <1>2, <3>1
  <2> QED BY <2>2, <2>3, <2>4
<1> QED BY <1>3, <1>4 DEF Bounded

(* Both of them are sound.                                                 *)
Comparable(r, ns, q, ms) ==
    /\ Proper(r, ns) /\ Proper(q, ms)
    /\ r = "relative" => ~HasDrive(ns[1])
    /\ q = "relative" => ~HasDrive(ms[1])

LEMMA FormBound ==
  ASSUME NEW r, NEW ns, NEW q, NEW ms, Comparable(r, ns, q, ms)
  PROVE  PrefixBound(Form(r, ns), Form(q, ms)) <=> r = q /\ Fronts(ns, ms)
<1> DEFINE F == Form(r, ns)  G == Form(q, ms)
<1>p. Proper(r, ns) /\ Proper(q, ms)
  BY DEF Comparable
<1>0. r \in Roots /\ q \in Roots /\ ns \in Seq(Part) /\ ms \in Seq(Part)
  BY <1>p DEF Proper
<1>1. /\ F \in Wide /\ Len(F) \in Nat /\ F # <<>> /\ Len(F) >= 1
      /\ r = "a" => F[1] = "a" /\ Len(F) >= 2 /\ F[2] = ":"
      /\ r = "/" => F[1] = "/"
      /\ r = "relative" => F[1] # "/"
      /\ r = "relative" /\ ~HasDrive(ns[1]) /\ F[1] = "a" /\ Len(F) >= 2 => F[2] # ":"
  BY <1>p, FormHead
<1>2. /\ G \in Wide /\ Len(G) \in Nat /\ G # <<>> /\ Len(G) >= 1
      /\ q = "a" => G[1] = "a" /\ Len(G) >= 2 /\ G[2] = ":"
      /\ q = "/" => G[1] = "/"
      /\ q = "relative" => G[1] # "/"
      /\ q = "relative" /\ ~HasDrive(ms[1]) /\ G[1] = "a" /\ Len(G) >= 2 => G[2] # ":"
  BY <1>p, FormHead
<1>d. /\ r = "relative" => ~HasDrive(ns[1])
      /\ q = "relative" => ~HasDrive(ms[1])
  BY DEF Comparable
<1>3. PrefixBound(F, G) <=> Bounded(F, G)
  <2> HIDE DEF F, G
  <2> QED BY <1>1, <1>2, BoundIsBounded DEF Wide
<1>4. CASE r = q
  <2> DEFINE x == Joined(Anchor(r), ns)  z == Joined(Anchor(r), ms)
  <2>1. x \in PathText /\ x # <<>> /\ Anchor(r) \in Rooted
    BY <1>p, FormIs
  <2>2. z \in PathText
    BY <1>p, <1>4, FormIs
  <2>3. Bounded(x, z) <=> Fronts(ns, ms)
    BY <1>0, <2>1, JoinedBound
  <2>4. CASE r = "a"
    <3>1. F = Drive \o x /\ G = Drive \o z
      BY <1>4, <2>4, Zenon DEF Form
    <3> HIDE DEF F, G, x, z
    <3>2. Bounded(F, G) <=> Bounded(x, z)
      BY <2>1, <2>2, <3>1, DriveBound
    <3> QED BY <1>3, <1>4, <2>3, <3>2, Zenon DEF F, G
  <2>5. CASE r # "a"
    <3>1. F = x /\ G = z
      BY <1>4, <2>5, Zenon DEF Form
    <3> HIDE DEF F, G, x, z
    <3>2. PrefixBound(F, G) <=> Fronts(ns, ms)
      BY <1>3, <2>3, <3>1, Zenon
    <3> QED BY <1>4, <3>2, Zenon DEF F, G
  <2> HIDE DEF F, G
  <2> QED BY <2>4, <2>5
<1>5. CASE r # q
  <2> HIDE DEF F, G
  <2>1. ASSUME Bounded(F, G) PROVE FALSE
    <3>1. /\ Len(F) <= Len(G) /\ \A i \in 1 .. Len(F) : F[i] = G[i]
          /\ Len(F) = Len(G) \/ F[Len(F)] = "/" \/ G[Len(F) + 1] = "/"
      BY <2>1 DEF Bounded, Fronts
    <3>2. F[1] = G[1]
      BY <1>1, <3>1
    <3>3. CASE r = "/" \/ q = "/"
      <4>1. r = "/" => q = "a" \/ q = "relative"
        BY <1>0, <1>5 DEF Roots
      <4>2. q = "/" => r = "a" \/ r = "relative"
        BY <1>0, <1>5 DEF Roots
      <4>3. "a" # "/"
        OBVIOUS
      <4> QED BY <1>1, <1>2, <3>2, <3>3, <4>1, <4>2, <4>3
    <3>4. CASE r = "a" /\ q = "relative"
      <4>1. 2 \in 1 .. Len(F) /\ Len(G) >= 2
        BY <1>1, <1>2, <3>1, <3>4
      <4>2. G[2] = ":" /\ G[1] = "a"
        BY <1>1, <3>1, <3>2, <3>4, <4>1
      <4> QED BY <1>2, <1>d, <3>4, <4>1, <4>2
    <3>5. CASE r = "relative" /\ q = "a"
      <4>0. F[1] = "a" /\ G[2] = ":" /\ Len(G) >= 2 /\ F[1] # "/"
        BY <1>1, <1>2, <3>2, <3>5
      <4>1. CASE Len(F) >= 2
        <5>1. 2 \in 1 .. Len(F)
          BY <1>1, <4>1
        <5>2. F[2] = ":"
          BY <3>1, <4>0, <5>1
        <5> QED BY <1>1, <1>d, <3>5, <4>0, <4>1, <5>2
      <4>2. CASE Len(F) = 1
        <5>1. 1 + 1 = 2 /\ ":" # "/"
          OBVIOUS
        <5> QED BY <3>1, <4>0, <4>2, <5>1
      <4>3. Len(F) >= 2 \/ Len(F) = 1
        BY <1>1
      <4> QED BY <4>1, <4>2, <4>3, Zenon
    <3> QED BY <1>0, <1>5, <3>3, <3>4, <3>5 DEF Roots
  <2> QED BY <1>3, <1>5, <2>1 DEF F, G
<1> QED BY <1>4, <1>5

(* One form, one place.                                                    *)
LEMMA FormTells ==
  ASSUME NEW r, NEW ns, NEW q, NEW ms, Comparable(r, ns, q, ms)
  PROVE  Form(r, ns) = Form(q, ms) <=> r = q /\ ns = ms
<1>1. PrefixBound(Form(r, ns), Form(q, ms)) <=> r = q /\ Fronts(ns, ms)
  BY FormBound
<1>2. PrefixBound(Form(q, ms), Form(r, ns)) <=> q = r /\ Fronts(ms, ns)
  <2>1. Comparable(q, ms, r, ns)
    BY DEF Comparable
  <2> QED BY <2>1, FormBound
<1>3. PrefixBound(Form(r, ns), Form(r, ns))
  <2>1. Comparable(r, ns, r, ns) /\ Fronts(ns, ns)
    BY DEF Comparable, Proper, Fronts
  <2> QED BY <2>1, FormBound
<1>4. ns \in Seq(Part) /\ ms \in Seq(Part)
  BY DEF Comparable, Proper
<1>5. ASSUME Form(r, ns) = Form(q, ms) PROVE r = q /\ ns = ms
  <2>1. r = q /\ Fronts(ns, ms) /\ Fronts(ms, ns)
    BY <1>1, <1>2, <1>3, <1>5
  <2>2. Len(ns) = Len(ms) /\ \A i \in 1 .. Len(ns) : ns[i] = ms[i]
    BY <1>4, <2>1 DEF Fronts
  <2> QED BY <1>4, <2>1, <2>2, SeqEqual
<1> QED BY <1>5

-----------------------------------------------------------------------------
(* CanonicalPath and PrefixBound.                                          *)

LEMMA RefusedNone == ~HasPlace(<<>>) /\ CanonicalPath(<<>>) = <<>>
<1>1. Refused(<<>>)
  BY DEF Refused
<1>2. CanonicalPath(<<>>) = <<>>
  BY <1>1, Zenon DEF CanonicalPath
<1> QED BY <1>1, <1>2 DEF HasPlace

Sound(in) == HasPlace(in) /\ ~SpeltLikeDrive(in)

LEMMA PlaceIsProper ==
  ASSUME NEW in \in PathText, HasPlace(in)
  PROVE  /\ Proper(Root(in), Names(Parts(in)))
         /\ CanonicalPath(in) = Form(Root(in), Names(Parts(in)))
         /\ CanonicalPath(in) # <<>> /\ CanonicalPath(in) \in Wide
<1>0. in # <<>>
  BY RefusedNone
<1>1. Root(in) \in Roots /\ CanonicalPath(in) = Form(Root(in), Names(Parts(in)))
  BY <1>0, CanonicalIs
<1>2. Names(Parts(in)) \in Seq(Part)
  BY PartsType, NamesType
<1>3. Root(in) = "relative" => Names(Parts(in)) # <<>>
  BY Zenon DEF HasPlace
<1>4. Proper(Root(in), Names(Parts(in)))
  BY <1>1, <1>2, <1>3 DEF Proper
<1>5. Form(Root(in), Names(Parts(in))) # <<>> /\ Form(Root(in), Names(Parts(in))) \in Wide
  BY <1>4, FormHead
<1> QED BY <1>1, <1>4, <1>5

LEMMA FormsOfPlaces ==
  ASSUME NEW in \in PathText
  PROVE  CanonicalPath(in) # <<>> <=> HasPlace(in)
<1>1. HasPlace(in) => CanonicalPath(in) # <<>>
  BY PlaceIsProper
<1>2. ~HasPlace(in) => CanonicalPath(in) = <<>>
  BY RefusedNone, CanonicalIs
<1> QED BY <1>1, <1>2

LEMMA SoundCompare ==
  ASSUME NEW x \in PathText, NEW y \in PathText, Sound(x), Sound(y)
  PROVE  /\ CanonicalPath(x) = CanonicalPath(y) <=> Place(x) = Place(y)
         /\ PrefixBound(CanonicalPath(x), CanonicalPath(y)) <=> Within(y, x)
<1> DEFINE r == Root(x)  q == Root(y)  ns == Names(Parts(x))  ms == Names(Parts(y))
<1>1. Proper(r, ns) /\ CanonicalPath(x) = Form(r, ns)
  BY PlaceIsProper DEF Sound
<1>2. Proper(q, ms) /\ CanonicalPath(y) = Form(q, ms)
  BY PlaceIsProper DEF Sound
<1>3. (r = "relative" => ~HasDrive(ns[1])) /\ (q = "relative" => ~HasDrive(ms[1]))
  BY Zenon DEF Sound, SpeltLikeDrive
<1>4. Place(x).root = r /\ Place(x).names = ns /\ Place(y).root = q /\ Place(y).names = ms
  BY DEF Place
<1>5. Place(x) = Place(y) <=> r = q /\ ns = ms
  BY <1>4 DEF Place
<1> HIDE DEF r, q, ns, ms
<1>6. Comparable(r, ns, q, ms)
  BY <1>1, <1>2, <1>3 DEF Comparable
<1>7. ns \in Seq(Part) /\ ms \in Seq(Part)
  BY <1>1, <1>2 DEF Proper
<1>8. Within(y, x) <=> r = q /\ Fronts(ns, ms)
  <2>1. Within(y, x) <=> q = r /\ IsPrefix(ns, ms)
    BY <1>4, Zenon DEF Within
  <2>2. IsPrefix(ns, ms) <=> Fronts(ns, ms)
    BY <1>7, PrefixIsFront
  <2> QED BY <2>1, <2>2
<1>9. Form(r, ns) = Form(q, ms) <=> r = q /\ ns = ms
  BY <1>6, FormTells
<1>10. PrefixBound(Form(r, ns), Form(q, ms)) <=> r = q /\ Fronts(ns, ms)
  BY <1>6, FormBound
<1> QED BY <1>1, <1>2, <1>5, <1>8, <1>9, <1>10

(* For paths of any length over any letters: CanonicalPath accepts exactly *)
(* the paths that mean a place, its forms are equal exactly for equal      *)
(* places, and PrefixBound on them is containment by whole names.          *)
THEOREM FormsAreLexical == PathInit /\ [][PathNext]_pathVars => []CanonicalIsLexical
<1> DEFINE Typed == spelling \in PathText /\ another \in PathText
<1>1. PathInit => Typed
  BY DEF PathInit, PathText
<1>2. Typed /\ [PathNext]_pathVars => Typed'
  <2> SUFFICES ASSUME Typed, [PathNext]_pathVars PROVE Typed'
    OBVIOUS
  <2>1. \A s \in PathText, c \in Characters : Append(s, c) \in PathText
    BY DEF PathText
  <2>2. CASE UNCHANGED pathVars
    BY <2>2 DEF pathVars
  <2>3. CASE PathNext
    <3>1. PICK c \in Characters :
             \/ spelling' = Append(spelling, c) /\ another' = another
             \/ another' = Append(another, c) /\ spelling' = spelling
      BY <2>3, Zenon DEF PathNext
    <3> QED BY <2>1, <3>1
  <2> QED BY <2>2, <2>3
<1>3. Typed => CanonicalIsLexical
  <2> SUFFICES ASSUME Typed PROVE CanonicalIsLexical
    OBVIOUS
  <2> DEFINE c == CanonicalPath(spelling)  d == CanonicalPath(another)
  <2>1. c # <<>> <=> HasPlace(spelling)
    BY FormsOfPlaces
  <2>2. ASSUME Sound(spelling), Sound(another)
        PROVE  /\ c = d <=> Place(spelling) = Place(another)
               /\ PrefixBound(c, d) <=> Within(another, spelling)
               /\ PrefixBound(d, c) <=> Within(spelling, another)
    BY <2>2, SoundCompare
  <2>3. CanonicalIsLexical <=>
          /\ c # <<>> <=> HasPlace(spelling)
          /\ Sound(spelling) /\ Sound(another) =>
                /\ c = d <=> Place(spelling) = Place(another)
                /\ PrefixBound(c, d) <=> Within(another, spelling)
                /\ PrefixBound(d, c) <=> Within(spelling, another)
    BY Zenon DEF CanonicalIsLexical, Sound
  <2> HIDE DEF c, d
  <2> QED BY <2>1, <2>2, <2>3, Zenon
<1> QED BY <1>1, <1>2, <1>3, PTL

-----------------------------------------------------------------------------
(* A text without a place is no front of a form.                           *)

(* Neither a control character nor a backslash gets into a form.           *)
Plain(x) == \A i \in 1 .. Len(x) : x[i] # "^" /\ x[i] # "\\"
PlainPart == {p \in Part : Plain(p)}

LEMMA PlainGrows ==
  ASSUME NEW c \in Characters, c # "/", c # "^", c # "\\"
  PROVE  <<c>> \in PlainPart /\ \A p \in PlainPart : Append(p, c) \in PlainPart
<1>1. <<c>> \in Part /\ Plain(<<c>>)
  <2>1. \A i \in 1 .. Len(<<c>>) : <<c>>[i] = c
    OBVIOUS
  <2> QED BY <2>1, PartGrows DEF Plain
<1>2. ASSUME NEW p \in PlainPart PROVE Append(p, c) \in PlainPart
  <2>1. p \in Part /\ Plain(p) /\ p \in Seq(Characters)
    BY PartLen DEF PlainPart, PathText
  <2> DEFINE q == Append(p, c)
  <2>2. q \in Part
    BY <2>1, PartGrows
  <2>3. Len(q) = Len(p) + 1 /\ Len(p) \in Nat /\ \A i \in 1 .. Len(p) + 1 : q[i] = IF i <= Len(p) THEN p[i] ELSE c
    BY <2>1, AppendProperties
  <2> HIDE DEF q
  <2>4. Plain(q)
    <3> SUFFICES ASSUME NEW i \in 1 .. Len(p) + 1 PROVE q[i] # "^" /\ q[i] # "\\"
      BY <2>3 DEF Plain
    <3>1. CASE i <= Len(p)
      <4>1. i \in 1 .. Len(p) /\ q[i] = p[i]
        BY <2>3, <3>1
      <4> QED BY <2>1, <4>1 DEF Plain
    <3>2. CASE ~(i <= Len(p))
      <4>1. q[i] = c
        BY <2>3, <3>2
      <4> QED BY <4>1
    <3> QED BY <3>1, <3>2
  <2>5. q \in PlainPart
    BY <2>2, <2>4 DEF PlainPart
  <2> QED BY <2>5 DEF q
<1> QED BY <1>1, <1>2 DEF PlainPart

LEMMA SplitPlain ==
  ASSUME NEW s \in PathText, Plain(s)
  PROVE  Split(s) \in Seq(PlainPart)
<1> DEFINE N == Len(s)
<1>0. N \in Nat /\ \A k \in 1 .. N : s[k] \in Characters /\ s[k] # "^" /\ s[k] # "\\"
  BY DEF PathText, Plain
<1>1. PICK f : Cuts(s, f) /\ Split(s) = f[N]
  BY SplitIs
<1>2. /\ f[0] = <<>> /\ \A k \in 1 .. N : f[k] = Extended(s, f[k - 1], k)
      /\ \A k \in 0 .. N : f[k] \in Seq(Part)
  BY <1>1 DEF Cuts
<1> DEFINE U == {k \in Nat : k <= N => f[k] \in Seq(PlainPart)}
<1>3. 0 \in U
  <2>1. f[0] \in Seq(PlainPart)
    BY <1>2
  <2> QED BY <2>1
<1>4. ASSUME NEW j \in Nat, j \in U PROVE j + 1 \in U
  <2> SUFFICES ASSUME j + 1 <= N PROVE f[j + 1] \in Seq(PlainPart)
    OBVIOUS
  <2> DEFINE k == j + 1  v == f[j]
  <2>1. k \in 1 .. N /\ k - 1 = j /\ j \in 0 .. N /\ v \in Seq(PlainPart) /\ v \in Seq(Part)
    BY <1>0, <1>2, <1>4
  <2>2. f[k] = Extended(s, v, k) /\ s[k] \in Characters /\ s[k] # "^" /\ s[k] # "\\"
    BY <1>0, <1>2, <2>1
  <2> HIDE DEF k, v
  <2>3. CASE s[k] = "/"
    <3>1. f[k] = v
      BY <2>1, <2>2, <2>3, ExtendedIs
    <3> QED BY <2>1, <3>1 DEF k
  <2>4. CASE s[k] # "/" /\ (k = 1 \/ s[k - 1] = "/")
    <3>1. f[k] = Append(v, <<s[k]>>)
      BY <2>1, <2>2, <2>4, ExtendedIs
    <3>2. <<s[k]>> \in PlainPart
      BY <2>2, <2>4, PlainGrows
    <3>3. f[k] \in Seq(PlainPart)
      BY <2>1, <3>1, <3>2
    <3> QED BY <3>3 DEF k
  <2> DEFINE e == Append(v[Len(v)], s[k])
  <2>e. s[k] # "/" /\ ~(k = 1 \/ s[k - 1] = "/") => f[k] = [v EXCEPT ![Len(v)] = e]
    BY <2>1, <2>2, ExtendedIs
  <2>5. CASE s[k] # "/" /\ ~(k = 1 \/ s[k - 1] = "/") /\ v = <<>>
    <3> HIDE DEF e
    <3>1. f[k] = [v EXCEPT ![Len(v)] = e]
      BY <2>5, <2>e, Zenon
    <3>0. \A y : [<<>> EXCEPT ![0] = y] = <<>>
      OBVIOUS
    <3>2. [v EXCEPT ![Len(v)] = e] = v
      <4>1. v = <<>> /\ Len(v) = 0
        BY <2>5
      <4> QED BY <3>0, <4>1, Zenon
    <3>3. f[k] = v
      BY <3>1, <3>2
    <3> QED BY <2>1, <3>3 DEF k
  <2>6. CASE s[k] # "/" /\ ~(k = 1 \/ s[k - 1] = "/") /\ v # <<>>
    <3>1. f[k] = [v EXCEPT ![Len(v)] = e]
      BY <2>6, <2>e, Zenon
    <3>2. Len(v) \in 1 .. Len(v) /\ v[Len(v)] \in PlainPart
      BY <2>1, <2>6
    <3>3. e \in PlainPart
      BY <2>2, <2>6, <3>2, PlainGrows
    <3> HIDE DEF e
    <3>4. f[k] \in Seq(PlainPart)
      BY <2>1, <3>1, <3>2, <3>3, ExceptSeq
    <3> QED BY <3>4 DEF k
  <2> QED BY <2>3, <2>4, <2>5, <2>6
<1>5. Nat \subseteq U
  <2> HIDE DEF U
  <2> QED BY <1>3, <1>4, Induct
<1> QED BY <1>0, <1>1, <1>5

LEMMA NamesAmong ==
  ASSUME NEW P, NEW Q, P \in Seq(Q)
  PROVE  /\ Names(P) \in Seq(Q)
         /\ \A n \in 1 .. Len(Names(P)) : Names(P)[n] \notin {Up, Here}
<1> DEFINE N == Len(P)
           Stays(k) == P[k] \notin {Up, Here} /\ \A last \in k + 1 .. N : ~Sinks(P, k + 1, last)
           S == {k \in 1 .. N : Stays(k)}
           o == InOrder(S, N)
           names == [n \in 1 .. Len(o) |-> P[o[n]]]
<1>0. N \in Nat
  OBVIOUS
<1>1. Names(P) = names
  BY Zenon DEF Names
<1>2. o \in Seq(S \cap (1 .. N))
  <2> HIDE DEF S
  <2> QED BY <1>0, OrderType
<1>3. \A k \in S : P[k] \in Q /\ P[k] \notin {Up, Here}
  OBVIOUS
<1> HIDE DEF S, o
<1>4. Len(o) \in Nat /\ \A n \in 1 .. Len(o) : o[n] \in S
  BY <1>2
<1>5. names \in Seq(Q) /\ Len(names) = Len(o) /\ \A n \in 1 .. Len(o) : names[n] = P[o[n]]
  BY <1>3, <1>4
<1> HIDE DEF names
<1> QED BY <1>1, <1>3, <1>4, <1>5

LEMMA CatPlain ==
  ASSUME NEW x \in PathText, NEW y \in PathText, Plain(x), Plain(y)
  PROVE  Plain(x \o y)
<1> DEFINE z == x \o y  m == Len(x)  n == Len(y)
<1>1. /\ z \in PathText /\ Len(z) = m + n /\ m \in Nat /\ n \in Nat
      /\ \A i \in 1 .. m : z[i] = x[i]
      /\ \A i \in 1 .. n : z[m + i] = y[i]
  BY TextCat DEF PathText
<1>2. /\ \A i \in 1 .. m : x[i] # "^" /\ x[i] # "\\"
      /\ \A i \in 1 .. n : y[i] # "^" /\ y[i] # "\\"
  BY DEF Plain
<1> HIDE DEF z, m, n
<1>3. ASSUME NEW i \in 1 .. m + n PROVE z[i] # "^" /\ z[i] # "\\"
  <2>1. CASE i <= m
    <3>1. i \in 1 .. m
      BY <1>1, <2>1
    <3> QED BY <1>1, <1>2, <3>1
  <2>2. CASE i > m
    <3>1. i - m \in 1 .. n /\ m + (i - m) = i
      BY <1>1, <2>2
    <3> QED BY <1>1, <1>2, <3>1
  <2>3. i <= m \/ i > m
    BY <1>1
  <2> QED BY <2>1, <2>2, <2>3, Zenon
<1>4. Plain(z)
  BY <1>1, <1>3 DEF Plain
<1> QED BY <1>4, Zenon DEF z

LEMMA RootPlain == Plain(<<>>) /\ Plain(<<"/">>)
BY DEF Plain

LEMMA JoinedPlain ==
  ASSUME NEW root \in Rooted, NEW names \in Seq(PlainPart)
  PROVE  Plain(Joined(root, names))
<1> DEFINE N == Len(names)
<1>0. N \in Nat /\ names \in Seq(Part) /\ \A k \in 1 .. N : names[k] \in Part /\ Plain(names[k])
  <2>1. PlainPart \subseteq Part
    BY DEF PlainPart
  <2>2. names \in Seq(Part)
    BY <2>1, SeqMonotonic
  <2>3. \A k \in 1 .. N : names[k] \in PlainPart
    OBVIOUS
  <2> QED BY <2>2, <2>3 DEF PlainPart
<1>1. PICK f : Joins(root, names, f) /\ Joined(root, names) = f[N]
  BY <1>0, JoinedIs
<1>2. /\ f[0] = root /\ \A k \in 1 .. N : f[k] = f[k - 1] \o Slashed(k, names[k])
      /\ \A k \in 0 .. N : f[k] \in PathText
  BY <1>1 DEF Joins
<1> DEFINE U == {k \in Nat : k <= N => Plain(f[k])}
<1>3. 0 \in U
  <2>1. Plain(f[0])
    BY <1>2, RootPlain DEF Rooted
  <2> QED BY <2>1
<1>4. ASSUME NEW j \in Nat, j \in U PROVE j + 1 \in U
  <2> SUFFICES ASSUME j + 1 <= N PROVE Plain(f[j + 1])
    OBVIOUS
  <2> DEFINE k == j + 1  v == f[j]  p == names[k]  w == Slashed(k, p)
  <2>1. k \in 1 .. N /\ k - 1 = j /\ j \in 0 .. N /\ k \in Nat /\ k # 0 /\ Plain(v)
    BY <1>0, <1>4
  <2>2. f[k] = v \o w /\ v \in PathText /\ p \in Part /\ Plain(p)
    BY <1>0, <1>2, <2>1
  <2>3. w \in PathText /\ Plain(w)
    <3>1. w \in PathText
      BY <2>1, <2>2, SlashedIs
    <3>2. CASE k = 1
      <4>1. w = p
        BY <3>2, <2>1, <2>2, SlashedIs
      <4> QED BY <2>2, <3>1, <4>1
    <3>3. CASE k # 1
      <4>1. w = <<"/">> \o p
        BY <3>3, Zenon DEF Slashed
      <4>2. <<"/">> \in PathText /\ p \in PathText
        BY <2>2, PartLen DEF PathText, Characters
      <4>3. Plain(<<"/">> \o p)
        BY <2>2, <4>2, RootPlain, CatPlain
      <4> QED BY <3>1, <4>1, <4>3, Zenon
    <3> QED BY <3>2, <3>3
  <2> HIDE DEF v, w, k
  <2>4. Plain(v \o w)
    BY <2>1, <2>2, <2>3, CatPlain
  <2> QED BY <2>2, <2>4, Zenon DEF k
<1>5. Nat \subseteq U
  <2> HIDE DEF U
  <2> QED BY <1>3, <1>4, Induct
<1> QED BY <1>0, <1>1, <1>5

LEMMA RestPlain ==
  ASSUME NEW in \in PathText, ~Contains(in, "^")
  PROVE  Parts(in) \in Seq(PlainPart)
<1> DEFINE s == Straight(in)  t == SubSeq(s, 3, Len(s))
<1>1. s \in PathText /\ Len(s) = Len(in) /\ \A i \in 1 .. Len(in) : s[i] = IF in[i] = "\\" THEN "/" ELSE in[i]
  BY StraightIs
<1>2. \A i \in 1 .. Len(in) : in[i] # "^"
  BY DEF Contains
<1>3. HasDrive(s) => Len(s) >= 2
  BY DEF HasDrive
<1>4. Plain(s)
  <2> HIDE DEF s
  <2> QED BY <1>1, <1>2 DEF Plain
<1>5. HasDrive(s) => t \in PathText /\ Plain(t)
  <2> SUFFICES ASSUME HasDrive(s) PROVE t \in PathText /\ Plain(t)
    OBVIOUS
  <2>1. t \in PathText /\ Len(t) = Len(s) - 2 /\ \A i \in 1 .. Len(s) - 2 : t[i] = s[i + 2]
    BY <1>1, <1>3, BehindDrive
  <2>2. Len(s) \in Nat
    BY <1>1 DEF PathText
  <2>3. \A i \in 1 .. Len(s) - 2 : i + 2 \in 1 .. Len(s)
    BY <2>2
  <2> HIDE DEF s, t
  <2> QED BY <1>4, <2>1, <2>3 DEF Plain
<1>6. Rest(in) = IF ~HasDrive(s) THEN s ELSE IF StartsAtRoot(t) THEN t ELSE <<"/">> \o t
  BY Zenon DEF Rest, AfterPrefix
<1>7. HasDrive(s) => Plain(<<"/">> \o t)
  <2> HIDE DEF s, t
  <2>1. <<"/">> \in PathText
    BY DEF PathText, Characters
  <2> QED BY <1>5, <2>1, RootPlain, CatPlain
<1>8. Plain(Rest(in))
  <2> HIDE DEF s, t
  <2> QED BY <1>4, <1>5, <1>6, <1>7, Zenon
<1>9. Rest(in) \in PathText /\ Split(Rest(in)) = Parts(in)
  BY RestIs
<1>10. Split(Rest(in)) \in Seq(PlainPart)
  <2> HIDE DEF s, t
  <2> QED BY <1>8, <1>9, SplitPlain
<1> QED BY <1>9, <1>10

LEMMA FormPlain ==
  ASSUME NEW in \in PathText, HasPlace(in)
  PROVE  Plain(CanonicalPath(in))
<1> DEFINE r == Root(in)  ns == Names(Parts(in))  J == Joined(Anchor(r), ns)  F == CanonicalPath(in)
<1>1. Proper(r, ns) /\ F = Form(r, ns)
  BY PlaceIsProper
<1>2. ~Contains(in, "^")
  BY Zenon DEF HasPlace, Refused
<1>3. ns \in Seq(PlainPart)
  BY <1>2, RestPlain, NamesAmong
<1>4. J \in PathText /\ Anchor(r) \in Rooted /\ Len(J) \in Nat
  BY <1>1, FormIs
<1> HIDE DEF r, ns
<1>5. Plain(J)
  BY <1>3, <1>4, JoinedPlain
<1>6. F = IF r = "a" THEN Drive \o J ELSE J
  BY <1>1, Zenon DEF Form
<1> HIDE DEF J, F
<1>7. CASE r = "a"
  <2>1. F = Drive \o J
    BY <1>6, <1>7, Zenon
  <2>2. Len(F) = Len(J) + 2 /\ F[1] = "a" /\ F[2] = ":" /\ \A i \in 1 .. Len(J) : F[i + 2] = J[i]
    BY <1>4, <2>1, DriveCat
  <2>3. ASSUME NEW i \in 1 .. Len(F) PROVE F[i] # "^" /\ F[i] # "\\"
    <3>1. CASE i = 1 \/ i = 2
      BY <2>2, <3>1
    <3>2. CASE i > 2
      <4>1. i - 2 \in 1 .. Len(J) /\ (i - 2) + 2 = i
        BY <1>4, <2>2, <3>2
      <4>2. F[i] = J[i - 2]
        BY <2>2, <4>1
      <4> QED BY <1>5, <4>1, <4>2 DEF Plain
    <3>3. i = 1 \/ i = 2 \/ i > 2
      BY <1>4, <2>2
    <3> QED BY <3>1, <3>2, <3>3, Zenon
  <2> QED BY <2>3 DEF F, Plain
<1>8. CASE r # "a"
  BY <1>5, <1>6, <1>8 DEF F
<1> QED BY <1>7, <1>8

(* Parts that are all names mean a place.                                  *)
LEMMA NamesStay ==
  ASSUME NEW P, NEW Q, P \in Seq(Q), P # <<>>, \A k \in 1 .. Len(P) : P[k] \notin {Up, Here}
  PROVE  Names(P) # <<>> /\ \A last \in 1 .. Len(P) : ~Sinks(P, 1, last)
<1> DEFINE N == Len(P)
           Stays(k) == P[k] \notin {Up, Here} /\ \A last \in k + 1 .. N : ~Sinks(P, k + 1, last)
           S == {k \in 1 .. N : Stays(k)}
           o == InOrder(S, N)
           names == [n \in 1 .. Len(o) |-> P[o[n]]]
<1>0. N \in Nat /\ N >= 1 /\ 1 \in 1 .. N
  OBVIOUS
<1>1. ASSUME NEW first \in Nat, first >= 1, NEW last \in 1 .. N PROVE ~Sinks(P, first, last)
  <2>1. UpParts(P, first, last) = {}
    <3>1. \A k \in first .. last : k \in 1 .. Len(P)
      BY <1>1
    <3> QED BY <3>1 DEF UpParts
  <2>2. last \in Nat
    OBVIOUS
  <2>3. Cardinality(UpParts(P, first, last)) = 0 /\ Cardinality(NameParts(P, first, last)) \in Nat
    BY <2>1, <2>2, FS_EmptySet, CountsAreNat
  <2>4. Sinks(P, first, last) <=> Cardinality(UpParts(P, first, last)) > Cardinality(NameParts(P, first, last))
    BY Zenon DEF Sinks, UpParts, NameParts
  <2> QED BY <2>3, <2>4
<1>2. 1 \in S
  <2>1. \A last \in 1 + 1 .. N : 2 \in Nat /\ 1 + 1 = 2 /\ last \in 1 .. N
    BY <1>0
  <2>2. \A last \in 1 + 1 .. N : ~Sinks(P, 1 + 1, last)
    BY <1>1, <2>1
  <2> QED BY <1>0, <2>2
<1>3. Names(P) = names
  BY Zenon DEF Names
<1> HIDE DEF S
<1>4. Len(o) >= 1 /\ Len(o) \in Nat
  <2>1. Len(InOrder(S, 0)) = 0
    BY OrderNone
  <2>2. Len(InOrder(S, 0 + 1)) = Len(InOrder(S, 0)) + 1
    BY <1>2, OrderLen
  <2>3. Len(InOrder(S, 1)) <= Len(o) /\ Len(o) \in Nat
    BY <1>0, OrderMono, OrderLen
  <2> QED BY <2>1, <2>2, <2>3
<1> HIDE DEF o
<1>5. names # <<>>
  <2>1. DOMAIN names = 1 .. Len(o) /\ DOMAIN <<>> = {}
    OBVIOUS
  <2>2. 1 \in 1 .. Len(o)
    BY <1>4
  <2> QED BY <2>1, <2>2
<1> QED BY <1>0, <1>1, <1>3, <1>5

LEMMA FirstPart ==
  ASSUME NEW t \in PathText, t # <<>>, ~Slash(t[1])
  PROVE  Runs(t) # <<>>
<1> DEFINE N == Len(t)  S == RunStarts(t)  o == InOrder(S, N)
           g == [n \in 1 .. Len(o) |-> SubSeq(t, o[n], RunStop(t, o[n]))]
<1>0. N \in Nat /\ N >= 1 /\ 1 \in 1 .. N
  BY DEF PathText
<1>1. 1 \in S
  BY <1>0 DEF RunStarts
<1>2. Runs(t) = g
  BY Zenon DEF Runs
<1> HIDE DEF S
<1>4. Len(o) >= 1 /\ Len(o) \in Nat
  <2>1. Len(InOrder(S, 0)) = 0
    BY OrderNone
  <2>2. Len(InOrder(S, 0 + 1)) = Len(InOrder(S, 0)) + 1
    BY <1>1, OrderLen
  <2>3. Len(InOrder(S, 1)) <= Len(o) /\ Len(o) \in Nat
    BY <1>0, OrderMono, OrderLen
  <2> QED BY <2>1, <2>2, <2>3
<1> HIDE DEF o
<1>5. g # <<>>
  <2>1. DOMAIN g = 1 .. Len(o) /\ DOMAIN <<>> = {}
    OBVIOUS
  <2>2. 1 \in 1 .. Len(o)
    BY <1>4
  <2> QED BY <2>1, <2>2
<1> QED BY <1>2, <1>5

LEMMA NoFront ==
  ASSUME NEW t \in PathText, NEW u \in PathText, ~HasPlace(t), ~(Len(t) > MaxPath), Sound(u)
  PROVE  ~PrefixBound(t, CanonicalPath(u))
<1> DEFINE F == CanonicalPath(u)  q == Root(u)  ms == Names(Parts(u))  P == Parts(t)
<1>1. Proper(q, ms) /\ F = Form(q, ms) /\ F \in Wide /\ Plain(F)
  BY PlaceIsProper, FormPlain DEF Sound
<1> SUFFICES ASSUME PrefixBound(t, F) PROVE FALSE
  OBVIOUS
<1>2. t # <<>> /\ Bounded(t, F)
  <2>1. t \in Wide
    <3>1. Characters \subseteq Characters \cup {"a"}
      OBVIOUS
    <3> QED BY <3>1, SeqMonotonic DEF PathText, Wide
  <2> HIDE DEF F
  <2> QED BY <1>1, <2>1, BoundIsBounded DEF Wide
<1>3. /\ Len(F) \in Nat /\ Len(F) >= 1
      /\ q = "a" => F[1] = "a" /\ Len(F) >= 2 /\ F[2] = ":"
      /\ q = "/" => F[1] = "/"
  BY <1>1, FormHead
<1> HIDE DEF F
<1>4. /\ Len(t) \in Nat /\ Len(t) >= 1 /\ Len(t) <= Len(F) /\ \A i \in 1 .. Len(t) : t[i] = F[i]
      /\ Len(t) = Len(F) \/ t[Len(t)] = "/" \/ F[Len(t) + 1] = "/"
  BY <1>2 DEF PathText, Bounded, Fronts
<1>5. \A i \in 1 .. Len(t) : t[i] # "^" /\ t[i] # "\\"
  <2>1. \A i \in 1 .. Len(t) : i \in 1 .. Len(F)
    BY <1>3, <1>4
  <2> QED BY <1>1, <1>4, <2>1 DEF Plain
<1>6. ~Refused(t)
  <2>1. ~Contains(t, "^")
    BY <1>5 DEF Contains
  <2> QED BY <1>2, <2>1, Zenon DEF Refused
<1>7. Root(t) = "relative" /\ ~(Names(P) # <<>> /\ \A last \in 1 .. Len(P) : ~Sinks(P, 1, last))
  BY <1>6, Zenon DEF HasPlace
<1>8. ~HasDrive(t) /\ ~Slash(t[1])
  <2>1. HasDrive(t) => Root(t) = "a"
    <3>1. HasDrive(t) => Lower(t[1]) = "a"
      BY StraightDrive
    <3> QED BY <3>1, Zenon DEF Root
  <2>2. ~HasDrive(t) /\ Slash(t[1]) => Root(t) = "/"
    BY Zenon DEF Root
  <2>3. "a" # "relative" /\ "/" # "relative"
    OBVIOUS
  <2> QED BY <1>7, <2>1, <2>2, <2>3, Zenon
<1>9. t[1] = F[1] /\ t[1] # "/"
  BY <1>4, <1>8 DEF Slash
<1>10. q # "/"
  BY <1>3, <1>9
<1>11. q # "a"
  <2> SUFFICES ASSUME q = "a" PROVE FALSE
    OBVIOUS
  <2>0. F[1] = "a" /\ F[2] = ":" /\ Len(F) >= 2
    BY <1>3
  <2>1. CASE Len(t) >= 2
    <3>1. t[2] = ":" /\ t[1] = "a"
      BY <1>4, <1>9, <2>0, <2>1
    <3> QED BY <1>8, <2>1, <3>1 DEF HasDrive, Alpha
  <2>2. CASE Len(t) = 1
    <3>1. 1 + 1 = 2 /\ ":" # "/"
      OBVIOUS
    <3> QED BY <1>4, <1>9, <2>0, <2>2, <3>1
  <2>3. Len(t) >= 2 \/ Len(t) = 1
    <3> DEFINE l == Len(t)
    <3>1. l \in Nat /\ l >= 1
      BY <1>4
    <3> HIDE DEF l
    <3>2. l >= 2 \/ l = 1
      BY <3>1
    <3> QED BY <3>2, Zenon DEF l
  <2> QED BY <2>1, <2>2, <2>3, Zenon
<1>12. q = "relative"
  BY <1>1, <1>10, <1>11 DEF Proper, Roots
<1>13. ms \in Seq(Part) /\ \A n \in 1 .. Len(ms) : ms[n] \notin {Up, Here}
  BY PartsType, NamesAmong
<1>14. F = Joined(<<>>, ms)
  <2>1. Anchor(q) = <<>> /\ q # "a"
    BY <1>12 DEF Anchor
  <2>2. Form(q, ms) = Joined(Anchor(q), ms)
    BY <2>1, Zenon DEF Form
  <2> QED BY <1>1, <2>1, <2>2, Zenon
<1>15. F \in PathText /\ Split(F) = ms
  <2>1. <<>> \in Rooted
    BY DEF Rooted
  <2> HIDE DEF ms
  <2> QED BY <1>13, <1>14, <2>1, SplitJoined
<1>16. Fronts(Split(t), ms)
  BY <1>2, <1>15, SplitBound
<1>17. P = Runs(t) /\ P = Split(t)
  <2>1. Bare(t) = t
    BY <1>8, Zenon DEF Bare
  <2>2. P = Runs(t)
    BY <2>1, PartsAreRuns
  <2>3. \A i \in 1 .. Len(t) : t[i] = IF t[i] = "\\" THEN "/" ELSE t[i]
    BY <1>5
  <2>4. Split(t) = Runs(t)
    BY <2>3, SplitRuns
  <2> QED BY <2>2, <2>4
<1>18. P # <<>>
  BY <1>2, <1>8, <1>17, FirstPart
<1>19. P \in Seq(Part)
  BY PartsType
<1> HIDE DEF P, ms
<1>20. \A k \in 1 .. Len(P) : P[k] \notin {Up, Here}
  <2>1. Len(P) <= Len(ms) /\ \A k \in 1 .. Len(P) : P[k] = ms[k]
    BY <1>16, <1>17 DEF Fronts
  <2>2. \A k \in 1 .. Len(P) : k \in 1 .. Len(ms)
    BY <1>13, <1>19, <2>1
  <2> QED BY <1>13, <2>1, <2>2
<1>21. Names(P) # <<>> /\ \A last \in 1 .. Len(P) : ~Sinks(P, 1, last)
  BY <1>18, <1>19, <1>20, NamesStay
<1> QED BY <1>7, <1>21 DEF P

-----------------------------------------------------------------------------
(* The engine.                                                             *)

(* What the engine asks of CanonicalPath and PrefixBound, on the texts in  *)
(* rules and requests: a form exactly for the paths that mean a place,     *)
(* equal forms for equal places, containment as bounded prefixes, and no   *)
(* form under a text that has none.                                        *)
Lexical ==
    \A t, u \in Texts :
        /\ Canonical[t] # <<>> <=> HasPlace(t)
        /\ HasPlace(t) /\ HasPlace(u) =>
              /\ Canonical[t] = Canonical[u] <=> Place(t) = Place(u)
              /\ PrefixBound(Canonical[t], Canonical[u]) <=> Within(u, t)
        /\ ~HasPlace(t) /\ HasPlace(u) => ~PrefixBound(t, Canonical[u])

LEMMA CanonicalOnTexts ==
  ASSUME PlainlySpelt
  PROVE  Lexical
<1>1. \A t \in Texts : t \in PathText /\ ~(Len(t) > MaxPath) /\ ~SpeltLikeDrive(t)
  BY DEF PlainlySpelt, PathText
<1>2. \A t \in Texts : Canonical[t] = CanonicalPath(t)
  BY DEF Canonical
<1>3. ASSUME NEW t \in Texts, NEW u \in Texts
      PROVE  /\ Canonical[t] # <<>> <=> HasPlace(t)
             /\ HasPlace(t) /\ HasPlace(u) =>
                   /\ Canonical[t] = Canonical[u] <=> Place(t) = Place(u)
                   /\ PrefixBound(Canonical[t], Canonical[u]) <=> Within(u, t)
             /\ ~HasPlace(t) /\ HasPlace(u) => ~PrefixBound(t, Canonical[u])
  <2>1. t \in PathText /\ u \in PathText /\ (HasPlace(t) => Sound(t)) /\ (HasPlace(u) => Sound(u))
    BY <1>1 DEF Sound
  <2>2. Canonical[t] # <<>> <=> HasPlace(t)
    BY <1>2, <2>1, FormsOfPlaces
  <2>3. HasPlace(t) /\ HasPlace(u) =>
           /\ CanonicalPath(t) = CanonicalPath(u) <=> Place(t) = Place(u)
           /\ PrefixBound(CanonicalPath(t), CanonicalPath(u)) <=> Within(u, t)
    BY <2>1, SoundCompare
  <2>4. ~HasPlace(t) /\ HasPlace(u) => ~PrefixBound(t, CanonicalPath(u))
    BY <1>1, <2>1, NoFront
  <2> QED BY <1>2, <2>2, <2>3, <2>4
<1> QED BY <1>3 DEF Lexical

Requests == [subject : Subjects, action : Actions, resource : Texts]

LEMMA WordMatches ==
  ASSUME NEW p, NEW s, NEW t, p = Star \/ p = Word(t)
  PROVE  Match(p, s, FALSE) <=> p \in {Star, Word(s)}
<1>1. CASE p = Star
  <2>1. p.how = "any"
    BY <1>1 DEF Star
  <2> QED BY <1>1, <2>1 DEF Match
<1>2. CASE p = Word(t)
  <2>1. p.how = "exact" /\ p.text = t
    BY <1>2 DEF Word
  <2>2. Match(p, s, FALSE) <=> t = s
    BY <2>1 DEF Match
  <2>3. p # Star
    <3>1. Star.how = "any"
      BY DEF Star
    <3> QED BY <2>1, <3>1
  <2>4. p = Word(s) <=> t = s
    <3>1. Word(s).text = s
      BY DEF Word
    <3> QED BY <1>2, <2>1, <3>1
  <2> QED BY <2>2, <2>3, <2>4
<1> QED BY <1>1, <1>2

(* A pattern matches the canonical form of a path exactly when it covers   *)
(* the place, and any other resource when it covers the text.              *)
LEMMA PatternCovers ==
  ASSUME Lexical, NEW p \in Patterns, NEW action \in Actions, NEW res \in Texts,
         PathAction(action) => HasPlace(res)
  PROVE  Match(p, IF PathAction(action) THEN Canonical[res] ELSE res, PathAction(action))
           <=> Covers(p, action, res)
<1> DEFINE path == PathAction(action)
           val == IF path THEN Canonical[res] ELSE res
<1>0. p = Star \/ p = [how |-> "none", text |-> <<>>]
      \/ p \in [how : {"exact", "prefix", "suffix"}, text : Texts]
  BY DEF Patterns
<1>1. CASE p = Star
  <2>1. p.how = "any"
    BY <1>1 DEF Star
  <2> QED BY <2>1 DEF Match, Covers
<1>2. CASE p = [how |-> "none", text |-> <<>>]
  <2>1. p.how = "none"
    BY <1>2
  <2>2. ~Match(p, val, path)
    BY <2>1 DEF Match
  <2>3. ~Covers(p, action, res)
    BY <2>1 DEF Covers
  <2> QED BY <2>2, <2>3
<1>3. CASE p.how = "suffix"
  <2>1. Match(p, val, path) <=> IsSuffix(p.text, val)
    BY <1>3 DEF Match
  <2>2. Covers(p, action, res) <=> IsSuffix(p.text, val)
    BY <1>3 DEF Covers
  <2> QED BY <2>1, <2>2
<1>4. ASSUME p.how = "prefix", p.text \in Texts PROVE Match(p, val, path) <=> Covers(p, action, res)
  <2>1. Match(p, val, path) <=> MatchPrefix(p.text, val, path)
    BY <1>4 DEF Match
  <2>2. CASE path
    <3>1. HasPlace(res) /\ val = Canonical[res]
      BY <2>2
    <3>2. Covers(p, action, res) <=> HasPlace(p.text) /\ Within(res, p.text)
      BY <1>4, <2>2 DEF Covers
    <3>3. MatchPrefix(p.text, val, path)
            <=> PrefixBound(IF Canonical[p.text] = <<>> THEN p.text ELSE Canonical[p.text], val)
      BY <2>2 DEF MatchPrefix
    <3>4. CASE HasPlace(p.text)
      <4>1. Canonical[p.text] # <<>> /\ (PrefixBound(Canonical[p.text], Canonical[res]) <=> Within(res, p.text))
        BY <1>4, <3>1, <3>4 DEF Lexical
      <4> QED BY <2>1, <3>1, <3>2, <3>3, <3>4, <4>1
    <3>5. CASE ~HasPlace(p.text)
      <4>1. Canonical[p.text] = <<>> /\ ~PrefixBound(p.text, Canonical[res])
        BY <1>4, <3>1, <3>5 DEF Lexical
      <4> QED BY <2>1, <3>1, <3>2, <3>3, <3>5, <4>1
    <3> QED BY <3>4, <3>5
  <2>3. CASE ~path
    <3>1. Covers(p, action, res) <=> IsPrefix(p.text, res)
      BY <1>4, <2>3 DEF Covers
    <3>2. MatchPrefix(p.text, val, path) <=> IsPrefix(p.text, res)
      BY <2>3 DEF MatchPrefix
    <3> QED BY <2>1, <3>1, <3>2
  <2> QED BY <2>2, <2>3
<1>5. ASSUME p.how = "exact", p.text \in Texts PROVE Match(p, val, path) <=> Covers(p, action, res)
  <2>1. CASE path
    <3>1. HasPlace(res) /\ val = Canonical[res]
      BY <2>1
    <3>2. Match(p, val, path) <=> Canonical[p.text] # <<>> /\ Canonical[p.text] = Canonical[res]
      BY <1>5, <2>1, <3>1 DEF Match
    <3>3. Covers(p, action, res) <=> HasPlace(p.text) /\ Place(res) = Place(p.text)
      BY <1>5, <2>1 DEF Covers
    <3>4. Canonical[p.text] # <<>> <=> HasPlace(p.text)
      BY <1>5 DEF Lexical
    <3>5. HasPlace(p.text) => (Canonical[p.text] = Canonical[res] <=> Place(p.text) = Place(res))
      BY <1>5, <3>1 DEF Lexical
    <3> QED BY <3>2, <3>3, <3>4, <3>5
  <2>2. CASE ~path
    <3>1. Covers(p, action, res) <=> res = p.text
      BY <1>5, <2>2 DEF Covers
    <3>2. Match(p, val, path) <=> p.text = res
      BY <1>5, <2>2 DEF Match
    <3> QED BY <3>1, <3>2
  <2> QED BY <2>1, <2>2
<1>6. CASE p \in [how : {"exact", "prefix", "suffix"}, text : Texts]
  <2>1. p.text \in Texts /\ p.how \in {"exact", "prefix", "suffix"}
    BY <1>6
  <2> QED BY <1>3, <1>4, <1>5, <2>1
<1> QED BY <1>0, <1>1, <1>2, <1>6

AbacInv ==
    /\ rules_ \in Seq(Rules)
    /\ \/ request = NoRequest
       \/ request \in Requests /\ (granted <=> Check(request.subject, request.action, request.resource))

(* Check says what the rules that concern a request say of it.             *)
LEMMA CheckGoverns ==
  ASSUME Lexical, rules_ \in Seq(Rules), NEW req \in Requests
  PROVE  Check(req.subject, req.action, req.resource) <=>
           /\ PathAction(req.action) => HasPlace(req.resource)
           /\ \E i \in 1 .. Len(rules_) : rules_[i].effect = "allow" /\ Concerns(rules_[i], req)
           /\ ~\E i \in 1 .. Len(rules_) : rules_[i].effect = "deny" /\ Concerns(rules_[i], req)
<1> DEFINE path == PathAction(req.action)
           res == IF path THEN Canonical[req.resource] ELSE req.resource
           Matches(i) == /\ Match(rules_[i].subject, req.subject, FALSE)
                         /\ Match(rules_[i].action, req.action, FALSE)
                         /\ Match(rules_[i].resource, res, path)
           matching == {i \in 1 .. Len(rules_) : Matches(i)}
           effects == {rules_[i].effect : i \in matching}
<1>0. req.subject \in Subjects /\ req.action \in Actions /\ req.resource \in Texts
  BY DEF Requests
<1>1. Check(req.subject, req.action, req.resource) <=> (path => res # <<>>) /\ effects = {"allow"}
  BY DEF Check
<1>2. (path => res # <<>>) <=> (path => HasPlace(req.resource))
  BY <1>0 DEF Lexical
<1>3. ASSUME path => HasPlace(req.resource), NEW i \in 1 .. Len(rules_)
      PROVE  /\ Matches(i) <=> Concerns(rules_[i], req)
             /\ rules_[i].effect \in {"allow", "deny"}
  <2> DEFINE r == rules_[i]
  <2>1. r \in Rules
    OBVIOUS
  <2>2. /\ r.subject \in {Star} \cup {Word(s) : s \in Subjects}
        /\ r.action \in {Star, Word("os.Open")}
        /\ r.resource \in Patterns /\ r.effect \in {"allow", "deny"}
    BY <2>1 DEF Rules
  <2> HIDE DEF r
  <2>3. Match(r.subject, req.subject, FALSE) <=> r.subject \in {Star, Word(req.subject)}
    <3>1. PICK s : r.subject = Star \/ r.subject = Word(s)
      BY <2>2
    <3> QED BY <3>1, WordMatches
  <2>4. Match(r.action, req.action, FALSE) <=> r.action \in {Star, Word(req.action)}
    BY <2>2, WordMatches
  <2>5. Match(r.resource, res, path) <=> Covers(r.resource, req.action, req.resource)
    BY <1>0, <1>3, <2>2, PatternCovers
  <2> QED BY <2>2, <2>3, <2>4, <2>5 DEF Concerns, r
<1> HIDE DEF path, res, Matches
<1>4. ASSUME path => HasPlace(req.resource)
      PROVE  effects = {"allow"} <=>
               /\ \E i \in 1 .. Len(rules_) : rules_[i].effect = "allow" /\ Concerns(rules_[i], req)
               /\ ~\E i \in 1 .. Len(rules_) : rules_[i].effect = "deny" /\ Concerns(rules_[i], req)
  <2>1. \A i \in 1 .. Len(rules_) : /\ Matches(i) <=> Concerns(rules_[i], req)
                                    /\ rules_[i].effect \in {"allow", "deny"}
    BY <1>3, <1>4
  <2>2. effects \subseteq {"allow", "deny"}
    BY <2>1
  <2>3. "allow" \in effects <=>
          \E i \in 1 .. Len(rules_) : rules_[i].effect = "allow" /\ Concerns(rules_[i], req)
    BY <2>1
  <2>4. "deny" \in effects <=>
          \E i \in 1 .. Len(rules_) : rules_[i].effect = "deny" /\ Concerns(rules_[i], req)
    BY <2>1
  <2>5. effects = {"allow"} <=> "allow" \in effects /\ ~("deny" \in effects)
    <3> HIDE DEF effects
    <3> QED BY <2>2
  <2> HIDE DEF effects
  <2> QED BY <2>3, <2>4, <2>5, Zenon
<1> QED BY <1>1, <1>2, <1>4 DEF path

LEMMA AbacStep == ASSUME AbacInv, [AbacNext]_abacVars PROVE AbacInv'
<1>1. CASE UNCHANGED abacVars
  <2>1. rules_' = rules_ /\ request' = request /\ granted' = granted
    BY <1>1, Zenon DEF abacVars
  <2>2. Check(request.subject, request.action, request.resource)'
          = Check(request.subject, request.action, request.resource)
    BY <2>1 DEF Check
  <2> QED BY <2>1, <2>2 DEF AbacInv
<1>2. ASSUME NEW r \in Rules, AddRule(r) PROVE AbacInv'
  <2>1. rules_' = Append(rules_, r) /\ request' = NoRequest
    BY <1>2 DEF AddRule
  <2> QED BY <2>1 DEF AbacInv
<1>3. ASSUME NEW subject \in Subjects, NEW action \in Actions, NEW resource \in Texts,
             Ask(subject, action, resource)
      PROVE  AbacInv'
  <2>1. rules_' = rules_ /\ request' = [subject |-> subject, action |-> action, resource |-> resource]
    BY <1>3, Zenon DEF Ask
  <2>2. granted' = Check(subject, action, resource)
    BY <1>3, Zenon DEF Ask
  <2>3. /\ request' \in Requests /\ request'.subject = subject /\ request'.action = action
        /\ request'.resource = resource
    BY <2>1 DEF Requests
  <2>4. Check(request.subject, request.action, request.resource)' = Check(subject, action, resource)
    BY <2>1, <2>3 DEF Check
  <2>5. granted' <=> Check(request.subject, request.action, request.resource)'
    BY <2>2, <2>4, Zenon
  <2> QED BY <2>1, <2>3, <2>5 DEF AbacInv
<1> QED BY <1>1, <1>2, <1>3 DEF AbacNext

(* The rules govern places, for any number of rules in any order and any   *)
(* plainly spelt paths in them: a request is granted exactly when it means *)
(* a place, some Allow concerns it and no Deny does.                       *)
THEOREM RulesGovern ==
  ASSUME PlainlySpelt
  PROVE  AbacInit /\ [][AbacNext]_abacVars => []RulesGovernPlaces
<1>0. Lexical
  BY CanonicalOnTexts
<1>1. AbacInit => AbacInv
  BY DEF AbacInit, AbacInv
<1>2. AbacInv /\ [AbacNext]_abacVars => AbacInv'
  BY AbacStep
<1>3. AbacInv => RulesGovernPlaces
  <2> SUFFICES ASSUME AbacInv, request # NoRequest
               PROVE  granted <=> /\ PathAction(request.action) => HasPlace(request.resource)
                                  /\ \E i \in 1 .. Len(rules_) : rules_[i].effect = "allow" /\ Concerns(rules_[i], request)
                                  /\ ~\E i \in 1 .. Len(rules_) : rules_[i].effect = "deny" /\ Concerns(rules_[i], request)
    BY Zenon DEF RulesGovernPlaces
  <2>1. /\ rules_ \in Seq(Rules) /\ request \in Requests
        /\ granted <=> Check(request.subject, request.action, request.resource)
    BY Zenon DEF AbacInv
  <2> QED BY <1>0, <2>1, CheckGoverns, Zenon
<1> QED BY <1>1, <1>2, <1>3, PTL
=============================================================================
