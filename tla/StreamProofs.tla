---------------------------- MODULE StreamProofs ----------------------------
(***************************************************************************)
(* The byte streams of the system.  A Pipe carries two: Conn implements    *)
(* ByteStream in each direction, for any number of readers and any sizes,  *)
(* as long as a Read overlaps no other read of its end.  A TLS session     *)
(* receives one: TlsSession implements ByteStream for records of any size, *)
(* cut up by recv and by the maxlen of TlsIoRead in any way.  What it      *)
(* sends decrypts to what was written.                                     *)
(***************************************************************************)
EXTENDS Conn, TlsSession, SequenceTheorems, WellFoundedInduction, TLAPS

USE DEF connVars

-----------------------------------------------------------------------------
(* Runs of bytes: the k bytes after the n-th.                              *)
Span(n, k) == [i \in 1 .. k |-> n + i]

LEMMA SpanSeq ==
  ASSUME NEW n \in Nat, NEW k \in Nat
  PROVE  /\ Span(n, k) \in Seq(Nat)
         /\ Len(Span(n, k)) = k
         /\ \A i \in 1 .. k : Span(n, k)[i] = n + i
         /\ Span(n, k) = <<>> <=> k = 0
<1>1. Span(n, k) \in [1 .. k -> Nat]
  BY DEF Span
<1>2. Span(n, k) \in Seq(Nat) /\ Len(Span(n, k)) = k
  BY <1>1
<1>3. \A i \in 1 .. k : Span(n, k)[i] = n + i
  BY DEF Span
<1> QED BY <1>2, <1>3

LEMMA SpanEqual ==
  ASSUME NEW s \in Seq(Nat), NEW n \in Nat, NEW k \in Nat,
         Len(s) = k, \A i \in 1 .. k : s[i] = n + i
  PROVE  s = Span(n, k)
<1> DEFINE t == Span(n, k)
<1>1. t \in Seq(Nat) /\ Len(t) = k /\ \A i \in 1 .. k : t[i] = n + i
  BY SpanSeq
<1> HIDE DEF t
<1>2. s = t
  BY <1>1, SeqEqual
<1> QED BY <1>2 DEF t

LEMMA SpanEmpty ==
  ASSUME NEW n \in Nat, NEW m \in Nat, n <= m, Span(n, m - n) = <<>>
  PROVE  m = n
<1>1. m - n \in Nat
  OBVIOUS
<1>2. m - n = 0
  BY <1>1, SpanSeq
<1> QED BY <1>2

(* What follows a run extends it.                                          *)
LEMMA SpanConcat ==
  ASSUME NEW m \in Nat, NEW k \in Nat
  PROVE  Span(0, m) \o Span(m, k) = Span(0, m + k)
<1> DEFINE s == Span(0, m)  t == Span(m, k)
<1>1. /\ s \in Seq(Nat) /\ Len(s) = m /\ \A i \in 1 .. m : s[i] = i
      /\ t \in Seq(Nat) /\ Len(t) = k /\ \A i \in 1 .. k : t[i] = m + i
  <2>1. s \in Seq(Nat) /\ Len(s) = m /\ \A i \in 1 .. m : s[i] = 0 + i
    BY SpanSeq
  <2>2. t \in Seq(Nat) /\ Len(t) = k /\ \A i \in 1 .. k : t[i] = m + i
    BY SpanSeq
  <2> QED BY <2>1, <2>2
<1> HIDE DEF s, t
<1> DEFINE u == s \o t
<1>2. /\ u \in Seq(Nat) /\ Len(u) = m + k
      /\ \A i \in 1 .. m + k : u[i] = IF i <= m THEN s[i] ELSE t[i - m]
  BY <1>1, ConcatProperties
<1> HIDE DEF u
<1>3. ASSUME NEW i \in 1 .. m + k PROVE u[i] = 0 + i
  <2>1. CASE i <= m
    BY <1>1, <1>2, <2>1
  <2>2. CASE ~(i <= m)
    <3>1. i - m \in 1 .. k /\ m + (i - m) = 0 + i
      BY <2>2
    <3>2. u[i] = t[i - m]
      BY <1>2, <2>2
    <3> QED BY <1>1, <3>1, <3>2
  <2> QED BY <2>1, <2>2
<1>4. m + k \in Nat /\ 0 \in Nat
  OBVIOUS
<1>5. u = Span(0, m + k)
  BY <1>2, <1>3, <1>4, SpanEqual
<1> QED BY <1>5 DEF s, t, u

LEMMA SpanSub ==
  ASSUME NEW n \in Nat, NEW k \in Nat, NEW j \in 0 .. k
  PROVE  /\ SubSeq(Span(n, k), 1, j) = Span(n, j)
         /\ SubSeq(Span(n, k), j + 1, k) = Span(n + j, k - j)
<1> DEFINE s == Span(n, k)
<1>1. s \in Seq(Nat) /\ Len(s) = k /\ \A i \in 1 .. k : s[i] = n + i
  BY SpanSeq
<1> HIDE DEF s
<1>2. SubSeq(s, 1, j) = Span(n, j)
  <2>1. /\ SubSeq(s, 1, j) \in Seq(Nat) /\ Len(SubSeq(s, 1, j)) = j
        /\ \A i \in 1 .. j : SubSeq(s, 1, j)[i] = n + i
    BY <1>1, SubSeqProperties
  <2>2. j \in Nat
    OBVIOUS
  <2> DEFINE u == SubSeq(s, 1, j)
  <2> HIDE DEF u
  <2>3. u = Span(n, j)
    BY <2>1, <2>2, SpanEqual DEF u
  <2> QED BY <2>3 DEF u
<1>3. SubSeq(s, j + 1, k) = Span(n + j, k - j)
  <2>1. SubSeq(s, j + 1, k) \in Seq(Nat) /\ Len(SubSeq(s, j + 1, k)) = k - j
    BY <1>1
  <2>2. \A i \in 1 .. k - j : SubSeq(s, j + 1, k)[i] = (n + j) + i
    BY <1>1
  <2>3. n + j \in Nat /\ k - j \in Nat
    OBVIOUS
  <2> QED BY <2>1, <2>2, <2>3, SpanEqual
<1> QED BY <1>2, <1>3 DEF s

LEMMA MinOfTwo ==
  ASSUME NEW a \in Nat, NEW b \in Nat
  PROVE  Min({a, b}) \in {a, b} /\ Min({a, b}) <= a /\ Min({a, b}) <= b
<1>1. \E x \in {a, b} : \A y \in {a, b} : x <= y
  OBVIOUS
<1> QED BY <1>1 DEF Min

(* A Read or ReadMsg takes a front of the bytes at hand and leaves the     *)
(* rest; ReadMsg takes them all.                                           *)
Splits(op, cap, n, k, j) ==
    /\ Copied(op, cap, Span(n, k)) = Span(n, j)
    /\ Kept(op, cap, Span(n, k)) = Span(n + j, k - j)
    /\ op = "ReadMsg" => j = k

LEMMA ReadSplits ==
  ASSUME NEW op, NEW cap \in Nat, NEW n \in Nat, NEW k \in Nat
  PROVE  \E j \in 0 .. k : Splits(op, cap, n, k, j)
<1> DEFINE j == IF op = "ReadMsg" THEN k ELSE Min({cap, k})
<1>1. Len(Span(n, k)) = k
  BY SpanSeq
<1>2. j \in 0 .. k
  BY MinOfTwo
<1>3. Copied(op, cap, Span(n, k)) = SubSeq(Span(n, k), 1, j)
  BY <1>1 DEF Copied
<1> HIDE DEF j
<1>4. Copied(op, cap, Span(n, k)) = Span(n, j)
  BY <1>2, <1>3, SpanSub
<1>5. Len(Copied(op, cap, Span(n, k))) = j
  BY <1>2, <1>4, SpanSeq
<1>6. Kept(op, cap, Span(n, k)) = Span(n + j, k - j)
  <2>1. Kept(op, cap, Span(n, k)) = SubSeq(Span(n, k), j + 1, k)
    BY <1>1, <1>5 DEF Kept
  <2> QED BY <1>2, <2>1, SpanSub
<1>7. Splits(op, cap, n, k, j)
  BY <1>4, <1>6 DEF Splits, j
<1> QED BY <1>2, <1>7

-----------------------------------------------------------------------------
(* The state of a Pipe.  Direction d is from end d to Peer(d).             *)

ReadState == [op : {"none", "Read", "ReadMsg"}, cap : Nat]

TypeOK ==
    /\ isClosed \in [Ends -> BOOLEAN] /\ shut = isClosed
    /\ writer \in [Ends -> {"idle", "parked"}]
    /\ reader \in [Ends \X Readers -> ReadState]
    /\ handed \in [Ends -> Nat]
    /\ atEof \in [Ends -> BOOLEAN]
    /\ chunk \in [Ends -> Seq(Nat)]
    /\ leftover \in [Ends -> Seq(Nat)]
    /\ taken \in [Ends -> Seq(Nat)]

(* The bytes of direction d: taken, then left over at the other end, then  *)
(* in the hands of the parked writer, without a gap.                       *)
InOrder(d) ==
    /\ Len(taken[d]) <= handed[d]
    /\ taken[d] = Span(0, Len(taken[d]))
    /\ leftover[Peer(d)] = Span(Len(taken[d]), handed[d] - Len(taken[d]))
    /\ chunk[d] = Span(handed[d], Len(chunk[d]))

(* Reads are kept apart: a reader waits in recv_ok() only while nothing is *)
(* left over, and not beside a Read.                                       *)
ReadersApart ==
    \A e \in Ends : \A r \in Readers : reader[<<e, r>>] # Resting =>
        /\ leftover[e] = <<>>
        /\ reader[<<e, r>>].op # "none"
        /\ \A s \in Readers : s # r /\ reader[<<e, s>>] # Resting => reader[<<e, r>>].op = "ReadMsg"

(* errEOF was returned only of a direction that is closed and drained.     *)
EofIsFinal == \A d \in Ends : atEof[d] => shut[d] /\ writer[d] = "idle"

ConnInv ==
    TypeOK /\ (\A d \in Ends : InOrder(d)) /\ ReadersApart /\ EofIsFinal

LEMMA PeerFacts ==
    /\ \A e \in Ends : Peer(e) \in Ends /\ Peer(e) # e /\ Peer(Peer(e)) = e
    /\ \A d, e \in Ends : d # e => d = Peer(e)
BY DEF Ends, Peer

LEMMA ConnInitInv == ConnInit => ConnInv
<1> SUFFICES ASSUME ConnInit PROVE ConnInv
  OBVIOUS
<1>1. <<>> \in Seq(Nat) /\ Len(<<>>) = 0 /\ Span(0, 0) = <<>>
  BY SpanSeq
<1>2. TypeOK
  BY <1>1 DEF ConnInit, TypeOK, ReadState, Resting
<1>3. \A d \in Ends : InOrder(d)
  <2> TAKE d \in Ends
  <2>1. Peer(d) \in Ends
    BY PeerFacts
  <2>2. taken[d] = <<>> /\ leftover[Peer(d)] = <<>> /\ chunk[d] = <<>> /\ handed[d] = 0
    BY <2>1 DEF ConnInit
  <2> QED BY <1>1, <2>2 DEF InOrder
<1>4. ReadersApart /\ EofIsFinal
  BY DEF ConnInit, ReadersApart, EofIsFinal
<1> QED BY <1>2, <1>3, <1>4 DEF ConnInv

-----------------------------------------------------------------------------
(* What a step may do to direction d, as ByteStream says it.               *)

Closed(d) == shut[d] /\ writer[d] = "idle"

Same(d) == /\ handed'[d] = handed[d] /\ taken'[d] = taken[d]
           /\ Closed(d)' = Closed(d) /\ atEof'[d] = atEof[d]
Sends(d) == /\ ~Closed(d) /\ Closed(d)' \in BOOLEAN
            /\ handed'[d] = handed[d] /\ taken'[d] = taken[d] /\ atEof'[d] = atEof[d]
Receives(d) == /\ \E k \in 0 .. handed[d] - Len(taken[d]) :
                      taken'[d] = taken[d] \o Span(Len(taken[d]), k)
               /\ handed'[d] = handed[d] /\ Closed(d)' = Closed(d) /\ atEof'[d] = atEof[d]
Passes(d) == /\ ~Closed(d) /\ Closed(d)' \in BOOLEAN
             /\ handed'[d] \in Nat /\ handed'[d] >= handed[d]
             /\ \E k \in 0 .. handed'[d] - Len(taken[d]) :
                    taken'[d] = taken[d] \o Span(Len(taken[d]), k)
             /\ atEof'[d] = atEof[d]
EndsNow(d) == /\ Closed(d) /\ Len(taken[d]) = handed[d]
            /\ atEof'[d] = TRUE
            /\ handed'[d] = handed[d] /\ taken'[d] = taken[d] /\ Closed(d)' = Closed(d)

Flows(d) == Same(d) \/ Sends(d) \/ Receives(d) \/ Passes(d) \/ EndsNow(d)

(* A read that has bytes at hand, the k bytes after those taken before.    *)
Taking(d, e, op, j, k) ==
    LET n == Len(taken[d])
    IN /\ j \in 0 .. k /\ (op = "ReadMsg" => j = k)
       /\ taken' = [taken EXCEPT ![d] = @ \o Span(n, j)]
       /\ leftover' = [leftover EXCEPT ![e] = Span(n + j, k - j)]
       /\ taken'[d] = Span(0, n + j) /\ Len(taken'[d]) = n + j
       /\ taken' \in [Ends -> Seq(Nat)] /\ leftover' \in [Ends -> Seq(Nat)]
       /\ leftover'[e] = Span(n + j, k - j)
       /\ \A c \in Ends : c # d => taken'[c] = taken[c]
       /\ \A c \in Ends : c # e => leftover'[c] = leftover[c]

LEMMA TakeFromTakes ==
  ASSUME ConnInv, NEW e \in Ends, NEW d, d = Peer(e), NEW op, NEW cap \in Nat, NEW k \in Nat,
         TakeFrom(e, op, cap, Span(Len(taken[d]), k))
  PROVE  \E j \in 0 .. k : Taking(d, e, op, j, k)
<1> DEFINE n == Len(taken[d])
<1>0. /\ d \in Ends /\ taken \in [Ends -> Seq(Nat)] /\ leftover \in [Ends -> Seq(Nat)]
      /\ n \in Nat /\ taken[d] = Span(0, n)
  BY PeerFacts DEF ConnInv, TypeOK, InOrder
<1> HIDE DEF n
<1>1. PICK j \in 0 .. k : Splits(op, cap, n, k, j)
  BY <1>0, ReadSplits
<1>2. /\ taken' = [taken EXCEPT ![d] = @ \o Span(n, j)]
      /\ leftover' = [leftover EXCEPT ![e] = Span(n + j, k - j)]
  BY <1>1 DEF TakeFrom, Splits, n
<1>3. j \in Nat /\ n + j \in Nat /\ k - j \in Nat
  BY <1>0
<1>4. taken[d] \o Span(n, j) = Span(0, n + j)
  BY <1>0, <1>3, SpanConcat
<1>5. /\ Span(0, n + j) \in Seq(Nat) /\ Len(Span(0, n + j)) = n + j
      /\ Span(n + j, k - j) \in Seq(Nat)
  BY <1>3, SpanSeq
<1>6. /\ taken'[d] = Span(0, n + j) /\ taken' \in [Ends -> Seq(Nat)]
      /\ \A c \in Ends : c # d => taken'[c] = taken[c]
  BY <1>0, <1>2, <1>4, <1>5
<1>7. /\ leftover'[e] = Span(n + j, k - j) /\ leftover' \in [Ends -> Seq(Nat)]
      /\ \A c \in Ends : c # e => leftover'[c] = leftover[c]
  BY <1>0, <1>2, <1>5
<1>8. Taking(d, e, op, j, k)
  BY <1>1, <1>2, <1>5, <1>6, <1>7 DEF Taking, Splits, n
<1> QED BY <1>8

(* A step that leaves direction d alone.                                   *)
LEMMA Untouched ==
  ASSUME NEW d \in Ends, InOrder(d), Closed(d)' = Closed(d),
         handed'[d] = handed[d], taken'[d] = taken[d], atEof'[d] = atEof[d],
         leftover'[Peer(d)] = leftover[Peer(d)], chunk'[d] = chunk[d]
  PROVE  InOrder(d)' /\ Flows(d)
<1>1. InOrder(d)'
  BY DEF InOrder
<1> QED BY <1>1 DEF Flows, Same

LEMMA WriteStep ==
  ASSUME ConnInv, NEW e \in Ends, NEW n \in Sizes, Write(e, n)
  PROVE  ConnInv' /\ \A d \in Ends : Flows(d)
<1>0. TypeOK /\ (\A d \in Ends : InOrder(d)) /\ ReadersApart /\ EofIsFinal /\ n \in Nat
  BY SizesAssumption DEF ConnInv
<1>1. /\ ~shut[e] /\ UNCHANGED <<isClosed, shut, leftover, reader, handed, taken, atEof>>
      /\ chunk' = [chunk EXCEPT ![e] = Span(handed[e], n)]
      /\ writer' = [writer EXCEPT ![e] = "parked"]
  BY <1>0 DEF Write, TypeOK, Span
<1>2. /\ Span(handed[e], n) \in Seq(Nat) /\ Len(Span(handed[e], n)) = n
  BY <1>0, SpanSeq DEF TypeOK
<1>3. /\ chunk' \in [Ends -> Seq(Nat)] /\ writer' \in [Ends -> {"idle", "parked"}]
      /\ chunk'[e] = Span(handed[e], n)
      /\ \A d \in Ends : d # e => chunk'[d] = chunk[d] /\ writer'[d] = writer[d]
  BY <1>0, <1>1, <1>2 DEF TypeOK
<1>4. TypeOK'
  BY <1>0, <1>1, <1>3 DEF TypeOK
<1>5. ReadersApart' /\ EofIsFinal'
  BY <1>0, <1>1, <1>3 DEF ReadersApart, EofIsFinal
<1>6. ASSUME NEW d \in Ends PROVE InOrder(d)' /\ Flows(d)
  <2>1. CASE d = e
    <3>1. InOrder(d)'
      BY <1>0, <1>1, <1>2, <1>3, <2>1 DEF InOrder
    <3>2. Same(d)
      BY <1>1, <2>1 DEF Same, Closed
    <3> QED BY <3>1, <3>2 DEF Flows
  <2>2. CASE d # e
    <3>1. Closed(d)' = Closed(d)
      BY <1>1, <1>3, <2>2 DEF Closed
    <3> QED BY <1>0, <1>1, <1>3, <2>2, <3>1, Untouched
  <2> QED BY <2>1, <2>2
<1> QED BY <1>4, <1>5, <1>6 DEF ConnInv

LEMMA ReadLeftoverStep ==
  ASSUME KeepApart, ConnInv, NEW e \in Ends, NEW r \in Readers, NEW op \in {"Read", "ReadMsg"},
         NEW cap \in Nat, ReadLeftover(e, r, op, cap)
  PROVE  ConnInv' /\ \A d \in Ends : Flows(d)
<1> DEFINE d == Peer(e)
           n == Len(taken[d])
           k == handed[d] - n
<1>0. TypeOK /\ (\A c \in Ends : InOrder(c)) /\ ReadersApart /\ EofIsFinal
  BY DEF ConnInv
<1>a. d \in Ends /\ d # e /\ Peer(d) = e /\ \A c \in Ends : c # d => c = e
  BY PeerFacts
<1>b. n \in Nat /\ k \in Nat /\ leftover[e] = Span(n, k) /\ handed[d] \in Nat
  BY <1>0, <1>a DEF InOrder, TypeOK
<1>1. /\ UNCHANGED <<isClosed, shut, chunk, writer, reader, handed, atEof>>
      /\ leftover[e] # <<>>
      /\ TakeFrom(e, op, cap, leftover[e])
  BY DEF ReadLeftover
<1>2. PICK j \in 0 .. k : Taking(d, e, op, j, k)
  <2> HIDE DEF k
  <2>1. TakeFrom(e, op, cap, Span(Len(taken[d]), k))
    BY <1>1, <1>b
  <2> HIDE DEF d, n
  <2> QED BY <1>b, <2>1, TakeFromTakes DEF d
<1>3. /\ taken'[d] = taken[d] \o Span(n, j)
      /\ taken'[d] = Span(0, n + j) /\ Len(taken'[d]) = n + j
      /\ taken' \in [Ends -> Seq(Nat)] /\ leftover' \in [Ends -> Seq(Nat)]
      /\ leftover'[e] = Span(n + j, k - j)
      /\ \A c \in Ends : c # d => taken'[c] = taken[c]
      /\ \A c \in Ends : c # e => leftover'[c] = leftover[c]
  BY <1>0, <1>2, <1>a DEF Taking, TypeOK
<1>4. TypeOK'
  BY <1>0, <1>1, <1>3 DEF TypeOK
<1>5. ReadersApart' /\ EofIsFinal'
  <2>1. \A s \in Readers : reader'[<<e, s>>] = Resting
    BY <1>0, <1>1 DEF ReadersApart
  <2>2. ReadersApart'
    BY <1>0, <1>1, <1>3, <2>1 DEF ReadersApart
  <2>3. EofIsFinal'
    BY <1>0, <1>1 DEF EofIsFinal
  <2> QED BY <2>2, <2>3
<1>6. InOrder(d)' /\ Flows(d)
  <2>1. n + j <= handed[d] /\ handed[d] - (n + j) = k - j /\ j \in 0 .. handed[d] - n
    BY <1>b
  <2>2. InOrder(d)'
    <3>1. Peer(d)' = e
      BY <1>a DEF Peer
    <3> HIDE DEF d, n, k
    <3> QED BY <1>0, <1>1, <1>3, <1>a, <2>1, <3>1 DEF InOrder
  <2>3. Receives(d)
    BY <1>1, <1>3, <2>1 DEF Receives, Closed
  <2> QED BY <2>2, <2>3 DEF Flows
<1>7. InOrder(e)' /\ Flows(e)
  <2>1. Closed(e)' = Closed(e)
    BY <1>1 DEF Closed
  <2> QED BY <1>0, <1>1, <1>3, <1>a, <2>1, Untouched
<1>8. \A c \in Ends : InOrder(c)' /\ Flows(c)
  BY <1>6, <1>7, <1>a
<1> QED BY <1>4, <1>5, <1>8 DEF ConnInv

(* A step in which one reader comes to rest or parks.                      *)
LEMMA ReaderTypes ==
  ASSUME TypeOK, NEW e \in Ends, NEW r \in Readers, NEW x \in ReadState,
         reader' = [reader EXCEPT ![<<e, r>>] = x]
  PROVE  /\ reader' \in [Ends \X Readers -> ReadState]
         /\ reader'[<<e, r>>] = x
         /\ \A c \in Ends, s \in Readers : c # e \/ s # r => reader'[<<c, s>>] = reader[<<c, s>>]
BY DEF TypeOK

LEMMA ReadParksStep ==
  ASSUME KeepApart, ConnInv, NEW e \in Ends, NEW r \in Readers, NEW op \in {"Read", "ReadMsg"},
         NEW cap \in Nat, ReadParks(e, r, op, cap)
  PROVE  ConnInv' /\ \A d \in Ends : Flows(d)
<1> DEFINE x == [op |-> op, cap |-> cap]
<1>0. TypeOK /\ (\A c \in Ends : InOrder(c)) /\ ReadersApart /\ EofIsFinal
  BY DEF ConnInv
<1>1. /\ UNCHANGED <<isClosed, shut, leftover, chunk, writer, handed, taken, atEof>>
      /\ leftover[e] = <<>> /\ reader' = [reader EXCEPT ![<<e, r>>] = x]
      /\ \A s \in Readers : s # r /\ reader[<<e, s>>] # Resting =>
             op = "ReadMsg" /\ reader[<<e, s>>].op = "ReadMsg"
  BY DEF ReadParks, MayRead
<1>2. x \in ReadState /\ x.op = op
  BY DEF ReadState
<1> HIDE DEF x
<1>3. /\ reader' \in [Ends \X Readers -> ReadState]
      /\ reader'[<<e, r>>] = x
      /\ \A c \in Ends, s \in Readers : c # e \/ s # r => reader'[<<c, s>>] = reader[<<c, s>>]
  BY <1>0, <1>1, <1>2, ReaderTypes
<1>4. TypeOK'
  BY <1>0, <1>1, <1>3 DEF TypeOK
<1>5. ReadersApart'
  <2> SUFFICES ASSUME NEW c \in Ends, NEW s \in Readers, reader'[<<c, s>>] # Resting
               PROVE  /\ leftover'[c] = <<>>
                      /\ reader'[<<c, s>>].op # "none"
                      /\ \A t \in Readers : t # s /\ reader'[<<c, t>>] # Resting =>
                             reader'[<<c, s>>].op = "ReadMsg"
    BY DEF ReadersApart
  <2>1. CASE c # e
    BY <1>0, <1>1, <1>3, <2>1 DEF ReadersApart
  <2>2. CASE c = e /\ s = r
    BY <1>1, <1>2, <1>3, <2>2
  <2>3. CASE c = e /\ s # r
    <3>1. reader'[<<c, s>>] = reader[<<e, s>>]
      BY <1>3, <2>3
    <3> QED BY <1>1, <2>3, <3>1
  <2> QED BY <2>1, <2>2, <2>3
<1>6. EofIsFinal'
  BY <1>0, <1>1 DEF EofIsFinal
<1>7. ASSUME NEW d \in Ends PROVE InOrder(d)' /\ Flows(d)
  <2>1. Closed(d)' = Closed(d)
    BY <1>1 DEF Closed
  <2> QED BY <1>0, <1>1, <2>1, Untouched
<1> QED BY <1>4, <1>5, <1>6, <1>7 DEF ConnInv

(* A reader that comes to rest leaves the others apart, if nothing is left *)
(* over or none of them is parked.                                         *)
LEMMA ReaderRests ==
  ASSUME TypeOK, ReadersApart, NEW e \in Ends, NEW r \in Readers, reader[<<e, r>>] # Resting,
         reader' = [reader EXCEPT ![<<e, r>>] = Resting],
         reader[<<e, r>>].op = "ReadMsg" => leftover'[e] = <<>>,
         \A c \in Ends : c # e => leftover'[c] = leftover[c]
  PROVE  ReadersApart' /\ reader' \in [Ends \X Readers -> ReadState]
<1>1. Resting \in ReadState
  BY DEF Resting, ReadState
<1>2. /\ reader' \in [Ends \X Readers -> ReadState]
      /\ reader'[<<e, r>>] = Resting
      /\ \A c \in Ends, s \in Readers : c # e \/ s # r => reader'[<<c, s>>] = reader[<<c, s>>]
  BY <1>1, ReaderTypes
<1>3. ASSUME NEW c \in Ends, NEW s \in Readers, reader'[<<c, s>>] # Resting
      PROVE  /\ leftover'[c] = <<>>
             /\ reader'[<<c, s>>].op # "none"
             /\ \A t \in Readers : t # s /\ reader'[<<c, t>>] # Resting =>
                    reader'[<<c, s>>].op = "ReadMsg"
  <2>1. CASE c # e
    BY <1>2, <1>3, <2>1 DEF ReadersApart
  <2>2. CASE c = e
    <3>1. s # r /\ reader'[<<c, s>>] = reader[<<e, s>>] /\ reader[<<e, s>>] # Resting
      BY <1>2, <1>3, <2>2
    <3>2. reader[<<e, r>>].op = "ReadMsg" /\ reader[<<e, s>>].op = "ReadMsg"
      BY <3>1 DEF ReadersApart
    <3> QED BY <2>2, <3>1, <3>2
  <2> QED BY <2>1, <2>2
<1>4. ReadersApart'
  BY <1>3 DEF ReadersApart
<1> QED BY <1>2, <1>4

LEMMA HandOverStep ==
  ASSUME ConnInv, NEW e \in Ends, NEW r \in Readers, HandOver(e, r)
  PROVE  ConnInv' /\ \A d \in Ends : Flows(d)
<1> DEFINE d == Peer(e)
           n == Len(taken[d])
           k == Len(chunk[d])
<1>p. PICK op, cap : op = reader[<<e, r>>].op /\ cap = reader[<<e, r>>].cap
  OBVIOUS
<1>0. TypeOK /\ (\A c \in Ends : InOrder(c)) /\ ReadersApart /\ EofIsFinal
  BY DEF ConnInv
<1>a. d \in Ends /\ d # e /\ Peer(d) = e /\ \A c \in Ends : c # d => c = e
  BY PeerFacts
<1>1. /\ UNCHANGED <<isClosed, shut, atEof>>
      /\ reader[<<e, r>>] # Resting /\ writer[d] = "parked"
      /\ TakeFrom(e, op, cap, chunk[d])
      /\ handed' = [handed EXCEPT ![d] = @ + k]
      /\ writer' = [writer EXCEPT ![d] = "idle"]
      /\ chunk' = [chunk EXCEPT ![d] = <<>>]
      /\ reader' = [reader EXCEPT ![<<e, r>>] = Resting]
  BY <1>p DEF HandOver
<1>b. /\ n \in Nat /\ k \in Nat /\ cap \in Nat /\ handed[d] \in Nat /\ n <= handed[d]
      /\ chunk[d] = Span(handed[d], k) /\ leftover[e] = Span(n, handed[d] - n)
  <2>1. reader[<<e, r>>] \in ReadState
    BY <1>0 DEF TypeOK
  <2>2. cap \in Nat
    BY <1>p, <2>1 DEF ReadState
  <2> QED BY <1>0, <1>a, <2>2 DEF InOrder, TypeOK
<1>c. handed[d] = n
  <2>1. leftover[e] = <<>>
    BY <1>0, <1>1 DEF ReadersApart
  <2> HIDE DEF d, n
  <2> QED BY <1>b, <2>1, SpanEmpty
<1>2. PICK j \in 0 .. k : Taking(d, e, op, j, k)
  <2>1. TakeFrom(e, op, cap, Span(Len(taken[d]), k))
    BY <1>1, <1>b, <1>c
  <2>2. d = Peer(e)
    OBVIOUS
  <2> HIDE DEF d, n, k
  <2> QED BY <1>b, <2>1, <2>2, TakeFromTakes
<1>3. /\ taken'[d] = taken[d] \o Span(n, j)
      /\ taken'[d] = Span(0, n + j) /\ Len(taken'[d]) = n + j
      /\ taken' \in [Ends -> Seq(Nat)] /\ leftover' \in [Ends -> Seq(Nat)]
      /\ leftover'[e] = Span(n + j, k - j)
      /\ \A c \in Ends : c # d => taken'[c] = taken[c]
      /\ \A c \in Ends : c # e => leftover'[c] = leftover[c]
  BY <1>0, <1>2, <1>a DEF Taking, TypeOK
<1>4. /\ handed' \in [Ends -> Nat] /\ handed'[d] = n + k /\ handed'[e] = handed[e]
      /\ writer' \in [Ends -> {"idle", "parked"}] /\ writer'[d] = "idle" /\ writer'[e] = writer[e]
  BY <1>0, <1>1, <1>a, <1>b, <1>c DEF TypeOK
<1>5. chunk' \in [Ends -> Seq(Nat)] /\ chunk'[d] = <<>> /\ chunk'[e] = chunk[e]
  BY <1>0, <1>1, <1>a DEF TypeOK
<1>6. ReadersApart' /\ reader' \in [Ends \X Readers -> ReadState]
  <2>1. op = "ReadMsg" => leftover'[e] = <<>>
    <3>1. ASSUME j = k PROVE Span(n + j, k - j) = <<>>
      <4>1. n + j \in Nat /\ k - j \in Nat /\ k - j = 0
        <5> HIDE DEF n, k
        <5> QED BY <1>b, <3>1
      <4> QED BY <4>1, SpanSeq
    <3>2. op = "ReadMsg" => j = k
      BY <1>2 DEF Taking
    <3> QED BY <1>3, <3>1, <3>2
  <2> QED BY <1>0, <1>1, <1>3, <1>p, <2>1, ReaderRests
<1>7. TypeOK'
  BY <1>0, <1>1, <1>3, <1>4, <1>5, <1>6 DEF TypeOK
<1>8. EofIsFinal'
  BY <1>0, <1>1, <1>4, <1>a DEF EofIsFinal
<1>9. InOrder(d)' /\ Flows(d)
  <2>1. n + j <= n + k /\ (n + k) - (n + j) = k - j /\ j \in 0 .. (n + k) - n /\ n + k \in Nat
        /\ n + k >= n
    <3> HIDE DEF n, k
    <3> QED BY <1>b
  <2>2. InOrder(d)'
    <3>1. Peer(d)' = e
      BY <1>a DEF Peer
    <3>2. Span(n + k, 0) = <<>> /\ Len(<<>>) = 0
      BY <2>1, SpanSeq
    <3> HIDE DEF d, n, k
    <3> QED BY <1>3, <1>4, <1>5, <1>a, <2>1, <3>1, <3>2 DEF InOrder
  <2>3. Passes(d)
    <3>1. ~Closed(d) /\ Closed(d)' \in BOOLEAN
      BY <1>0, <1>1, <1>4 DEF Closed, TypeOK
    <3> HIDE DEF k
    <3> QED BY <1>1, <1>3, <1>4, <1>c, <2>1, <3>1 DEF Passes
  <2> QED BY <2>2, <2>3 DEF Flows
<1>10. InOrder(e)' /\ Flows(e)
  <2>1. Closed(e)' = Closed(e)
    BY <1>1, <1>4 DEF Closed
  <2> QED BY <1>0, <1>1, <1>3, <1>4, <1>5, <1>a, <2>1, Untouched
<1>11. \A c \in Ends : InOrder(c)' /\ Flows(c)
  BY <1>9, <1>10, <1>a
<1> QED BY <1>6, <1>7, <1>8, <1>11 DEF ConnInv

LEMMA ReadEofStep ==
  ASSUME ConnInv, NEW e \in Ends, NEW r \in Readers, ReadEof(e, r)
  PROVE  ConnInv' /\ \A d \in Ends : Flows(d)
<1> DEFINE d == Peer(e)
<1>0. TypeOK /\ (\A c \in Ends : InOrder(c)) /\ ReadersApart /\ EofIsFinal
  BY DEF ConnInv
<1>a. d \in Ends /\ d # e /\ Peer(d) = e /\ \A c \in Ends : c # d => c = e
  BY PeerFacts
<1>1. /\ UNCHANGED <<isClosed, shut, leftover, chunk, writer, handed, taken>>
      /\ reader[<<e, r>>] # Resting /\ shut[d] /\ writer[d] = "idle"
      /\ atEof' = [atEof EXCEPT ![d] = TRUE]
      /\ reader' = [reader EXCEPT ![<<e, r>>] = Resting]
  BY DEF ReadEof
<1>2. leftover[e] = <<>>
  BY <1>0, <1>1 DEF ReadersApart
<1>3. ReadersApart' /\ reader' \in [Ends \X Readers -> ReadState]
  BY <1>0, <1>1, <1>2, ReaderRests
<1>4. /\ atEof' \in [Ends -> BOOLEAN] /\ atEof'[d] = TRUE /\ atEof'[e] = atEof[e]
  BY <1>0, <1>1, <1>a DEF TypeOK
<1>5. TypeOK'
  BY <1>0, <1>1, <1>3, <1>4 DEF TypeOK
<1>6. EofIsFinal'
  BY <1>0, <1>1, <1>4, <1>a DEF EofIsFinal
<1>7. \A c \in Ends : InOrder(c)'
  BY <1>0, <1>1 DEF InOrder
<1>8. Flows(d)
  <2>1. Len(taken[d]) = handed[d]
    <3>1. /\ Len(taken[d]) \in Nat /\ handed[d] \in Nat /\ Len(taken[d]) <= handed[d]
          /\ leftover[e] = Span(Len(taken[d]), handed[d] - Len(taken[d]))
      BY <1>0, <1>a DEF InOrder, TypeOK
    <3> HIDE DEF d
    <3> QED BY <1>2, <3>1, SpanEmpty
  <2>2. EndsNow(d)
    BY <1>1, <1>4, <2>1 DEF EndsNow, Closed
  <2> QED BY <2>2 DEF Flows
<1>9. Flows(e)
  <2>1. Closed(e)' = Closed(e)
    BY <1>1 DEF Closed
  <2> QED BY <1>1, <1>4, <2>1 DEF Flows, Same
<1>10. \A c \in Ends : Flows(c)
  BY <1>8, <1>9, <1>a
<1> QED BY <1>3, <1>5, <1>6, <1>7, <1>10 DEF ConnInv

LEMMA SenderDroppedStep ==
  ASSUME ConnInv, NEW e \in Ends, SenderDropped(e)
  PROVE  ConnInv' /\ \A d \in Ends : Flows(d)
<1>0. TypeOK /\ (\A c \in Ends : InOrder(c)) /\ ReadersApart /\ EofIsFinal
  BY DEF ConnInv
<1>1. /\ UNCHANGED <<isClosed, shut, leftover, reader, handed, taken, atEof>>
      /\ writer[e] = "parked"
      /\ writer' = [writer EXCEPT ![e] = "idle"]
      /\ chunk' = [chunk EXCEPT ![e] = <<>>]
  BY DEF SenderDropped
<1>2. /\ chunk' \in [Ends -> Seq(Nat)] /\ writer' \in [Ends -> {"idle", "parked"}]
      /\ chunk'[e] = <<>> /\ writer'[e] = "idle"
      /\ \A d \in Ends : d # e => chunk'[d] = chunk[d] /\ writer'[d] = writer[d]
  BY <1>0, <1>1 DEF TypeOK
<1>3. TypeOK'
  BY <1>0, <1>1, <1>2 DEF TypeOK
<1>4. ReadersApart' /\ EofIsFinal'
  BY <1>0, <1>1, <1>2 DEF ReadersApart, EofIsFinal
<1>5. ASSUME NEW d \in Ends PROVE InOrder(d)' /\ Flows(d)
  <2>1. CASE d = e
    <3>1. handed[d] \in Nat
      BY <1>0 DEF TypeOK
    <3>2. Span(handed[d], 0) = <<>> /\ Len(<<>>) = 0
      BY <3>1, SpanSeq
    <3>3. InOrder(d)'
      BY <1>0, <1>1, <1>2, <2>1, <3>2 DEF InOrder
    <3>4. Sends(d)
      BY <1>0, <1>1, <1>2, <2>1 DEF Sends, Closed, TypeOK
    <3> QED BY <3>3, <3>4 DEF Flows
  <2>2. CASE d # e
    <3>1. Closed(d)' = Closed(d)
      BY <1>1, <1>2, <2>2 DEF Closed
    <3> QED BY <1>0, <1>1, <1>2, <2>2, <3>1, Untouched
  <2> QED BY <2>1, <2>2
<1> QED BY <1>3, <1>4, <1>5 DEF ConnInv

LEMMA CloseStep ==
  ASSUME ConnInv, NEW e \in Ends, Close(e)
  PROVE  ConnInv' /\ \A d \in Ends : Flows(d)
<1>0. TypeOK /\ (\A c \in Ends : InOrder(c)) /\ ReadersApart /\ EofIsFinal
  BY DEF ConnInv
<1>1. /\ UNCHANGED <<leftover, chunk, writer, reader, handed, taken, atEof>>
      /\ ~shut[e] /\ shut' = [shut EXCEPT ![e] = TRUE] /\ isClosed' = shut'
  BY <1>0 DEF Close, CloseChannel, TypeOK
<1>2. /\ shut' \in [Ends -> BOOLEAN] /\ shut'[e]
      /\ \A d \in Ends : d # e => shut'[d] = shut[d]
  BY <1>0, <1>1 DEF TypeOK
<1>3. TypeOK'
  BY <1>0, <1>1, <1>2 DEF TypeOK
<1>4. ReadersApart' /\ EofIsFinal'
  BY <1>0, <1>1, <1>2 DEF ReadersApart, EofIsFinal
<1>5. ASSUME NEW d \in Ends PROVE InOrder(d)' /\ Flows(d)
  <2>1. InOrder(d)'
    BY <1>0, <1>1 DEF InOrder
  <2>2. CASE d = e
    <3>1. Sends(d)
      BY <1>1, <1>2, <2>2 DEF Sends, Closed
    <3> QED BY <2>1, <3>1 DEF Flows
  <2>3. CASE d # e
    <3>1. Same(d)
      BY <1>1, <1>2, <2>3 DEF Same, Closed
    <3> QED BY <2>1, <3>1 DEF Flows
  <2> QED BY <2>2, <2>3
<1> QED BY <1>3, <1>4, <1>5 DEF ConnInv

-----------------------------------------------------------------------------
LEMMA ConnStep ==
  ASSUME KeepApart, ConnInv, [ConnNext]_connVars
  PROVE  ConnInv' /\ \A d \in Ends : Flows(d)
<1>1. CASE UNCHANGED connVars
  <2>1. ConnInv'
    BY <1>1 DEF ConnInv, TypeOK, InOrder, ReadersApart, EofIsFinal
  <2>2. \A d \in Ends : Flows(d)
    BY <1>1 DEF Flows, Same, Closed
  <2> QED BY <2>1, <2>2
<1>2. ASSUME NEW e \in Ends, NEW n \in Sizes, Write(e, n)
      PROVE  ConnInv' /\ \A d \in Ends : Flows(d)
  BY <1>2, WriteStep
<1>3. ASSUME NEW e \in Ends, NEW r \in Readers, NEW op \in {"Read", "ReadMsg"},
             NEW cap \in (IF op = "Read" THEN Sizes ELSE {0}),
             ReadLeftover(e, r, op, cap) \/ ReadParks(e, r, op, cap)
      PROVE  ConnInv' /\ \A d \in Ends : Flows(d)
  <2>1. cap \in Nat
    BY SizesAssumption
  <2> QED BY <1>3, <2>1, ReadLeftoverStep, ReadParksStep
<1>4. ASSUME NEW e \in Ends, NEW r \in Readers, ReadGoesOn(e, r)
      PROVE  ConnInv' /\ \A d \in Ends : Flows(d)
  BY <1>4, HandOverStep, ReadEofStep DEF ReadGoesOn
<1>5. ASSUME NEW e \in Ends, SenderDropped(e) \/ Close(e)
      PROVE  ConnInv' /\ \A d \in Ends : Flows(d)
  BY <1>5, SenderDroppedStep, CloseStep
<1>6. CASE ConnNext
  BY <1>2, <1>3, <1>4, <1>5, <1>6 DEF ConnNext
<1> QED BY <1>1, <1>6

LEMMA FlowsFromA == ASSUME ConnInv, Flows("a") PROVE [FromA!Next]_(FromA!stream)
<1>0. handed["a"] \in Nat
  BY DEF ConnInv, TypeOK, Ends
<1>1. CASE Same("a")
  BY <1>1 DEF Same, Closed, FromA!stream
<1>2. CASE Sends("a")
  BY <1>0, <1>2 DEF Sends, Closed, FromA!Next, FromA!Send
<1>3. CASE Receives("a")
  BY <1>3 DEF Receives, Closed, Span, FromA!Next, FromA!Receive, FromA!After
<1>4. CASE Passes("a")
  BY <1>4 DEF Passes, Closed, Span, FromA!Next, FromA!Pass, FromA!After
<1>5. CASE EndsNow("a")
  BY <1>5 DEF EndsNow, Closed, FromA!Next, FromA!End
<1> QED BY <1>1, <1>2, <1>3, <1>4, <1>5 DEF Flows

LEMMA FlowsFromB == ASSUME ConnInv, Flows("b") PROVE [FromB!Next]_(FromB!stream)
<1>0. handed["b"] \in Nat
  BY DEF ConnInv, TypeOK, Ends
<1>1. CASE Same("b")
  BY <1>1 DEF Same, Closed, FromB!stream
<1>2. CASE Sends("b")
  BY <1>0, <1>2 DEF Sends, Closed, FromB!Next, FromB!Send
<1>3. CASE Receives("b")
  BY <1>3 DEF Receives, Closed, Span, FromB!Next, FromB!Receive, FromB!After
<1>4. CASE Passes("b")
  BY <1>4 DEF Passes, Closed, Span, FromB!Next, FromB!Pass, FromB!After
<1>5. CASE EndsNow("b")
  BY <1>5 DEF EndsNow, Closed, FromB!Next, FromB!End
<1> QED BY <1>1, <1>2, <1>3, <1>4, <1>5 DEF Flows

(* Pipe() implements two byte streams, whatever the number of readers and  *)
(* the sizes of the slices: what Read and ReadMsg return at one end is the *)
(* bytes handed over by the other end's Writes, each once and in order,    *)
(* and errEOF comes after the last, if no Read overlaps another read of    *)
(* its end.                                                                *)
THEOREM Streams == ASSUME KeepApart PROVE ConnSpec => ConnIsStreams
<1>1. ConnInit => ConnInv /\ FromA!Init /\ FromB!Init
  <2>1. ConnInit => FromA!Init /\ FromB!Init
    BY DEF ConnInit, FromA!Init, FromB!Init, Ends
  <2> QED BY <2>1, ConnInitInv
<1>2. ConnInv /\ [ConnNext]_connVars =>
        ConnInv' /\ [FromA!Next]_(FromA!stream) /\ [FromB!Next]_(FromB!stream)
  <2> SUFFICES ASSUME ConnInv, [ConnNext]_connVars
               PROVE  ConnInv' /\ [FromA!Next]_(FromA!stream) /\ [FromB!Next]_(FromB!stream)
    OBVIOUS
  <2>1. ConnInv' /\ Flows("a") /\ Flows("b")
    BY ConnStep DEF Ends
  <2> QED BY <2>1, FlowsFromA, FlowsFromB
<1> QED BY <1>1, <1>2, PTL DEF ConnSpec, ConnIsStreams, FromA!Spec, FromB!Spec

-----------------------------------------------------------------------------
(* TlsSession.  What has arrived and was not decrypted is a row of cells,  *)
(* raw_extra and then wire.  A cell knows its record and its place in it;  *)
(* at[i] is how much plaintext goes before the record of cell i.           *)
Kinds == {"data", "close", "renegotiate", "alert"}
Records == [kind : Kinds, bytes : Seq(Nat)]
Cell == Records \X Nat

Rec(q, i) == q[i][1]
Pos(q, i) == q[i][2]
Size(rec) == Header + Len(rec.bytes)
(* The cells in front of the record of cell i, and where it ends.          *)
Ahead(q, i) == i - Pos(q, i)
Finish(q, i) == Ahead(q, i) + Size(Rec(q, i))

(* Cell i lies in a run of cells that is its record; the next record       *)
(* begins behind it where its plaintext ends.  Only the last record may be *)
(* cut off, or close_notify, and then nothing follows it (ended).          *)
Laid(q, at, sent, ended, i) ==
    /\ Pos(q, i) \in 1 .. Size(Rec(q, i)) /\ Pos(q, i) <= i
    /\ at[i] <= sent
    /\ Rec(q, i).bytes = Span(at[i], Len(Rec(q, i).bytes))
    /\ Rec(q, i).kind # "data" => Len(Rec(q, i).bytes) = 0
    /\ \A j \in 1 .. Len(q) :
          Ahead(q, i) < j /\ j <= Finish(q, i) =>
              q[j] = <<Rec(q, i), j - Ahead(q, i)>> /\ at[j] = at[i]
    /\ Finish(q, i) < Len(q) =>
          /\ Pos(q, Finish(q, i) + 1) = 1
          /\ at[Finish(q, i) + 1] = at[i] + Len(Rec(q, i).bytes)
    /\ Finish(q, i) = Len(q) => sent = at[i] + Len(Rec(q, i).bytes)
    /\ Finish(q, i) > Len(q) => ended /\ sent = at[i]
    /\ Rec(q, i).kind = "close" => ended /\ Finish(q, i) >= Len(q)

Layout(q, at, from, sent, ended) ==
    /\ q \in Seq(Cell)
    /\ at \in [1 .. Len(q) -> Nat]
    /\ \A i \in 1 .. Len(q) : Laid(q, at, sent, ended, i)
    /\ IF q = <<>> THEN sent = from ELSE at[1] = from

LEMMA CellParts ==
  ASSUME NEW q \in Seq(Cell), NEW i \in 1 .. Len(q)
  PROVE  /\ Rec(q, i) \in Records /\ Pos(q, i) \in Nat
         /\ q[i] = <<Rec(q, i), Pos(q, i)>>
         /\ Len(Rec(q, i).bytes) \in Nat
         /\ Size(Rec(q, i)) \in Nat \ {0}
         /\ Ahead(q, i) \in Int /\ Finish(q, i) \in Int
<1>1. q[i] \in Cell
  OBVIOUS
<1>2. Rec(q, i) \in Records /\ Pos(q, i) \in Nat /\ q[i] = <<Rec(q, i), Pos(q, i)>>
  BY <1>1 DEF Cell, Rec, Pos
<1>3. Len(Rec(q, i).bytes) \in Nat
  BY <1>2 DEF Records
<1>4. Size(Rec(q, i)) \in Nat \ {0}
  BY <1>3, TlsAssumption DEF Size
<1> QED BY <1>2, <1>3, <1>4 DEF Ahead, Finish

LEMMA CellRun ==
  ASSUME NEW q \in Seq(Cell), NEW i \in 1 .. Len(q), NEW at, NEW sent, NEW ended,
         Laid(q, at, sent, ended, i)
  PROVE  /\ Ahead(q, i) \in Nat /\ Finish(q, i) \in Nat
         /\ Ahead(q, i) < i /\ i <= Finish(q, i)
<1>1. Pos(q, i) \in Nat /\ Pos(q, i) >= 1 /\ Pos(q, i) <= i /\ Pos(q, i) <= Size(Rec(q, i))
  BY CellParts DEF Laid
<1>2. Size(Rec(q, i)) \in Nat /\ i \in Nat
  BY CellParts
<1>3. Ahead(q, i) = i - Pos(q, i)
  BY DEF Ahead
<1>4. Ahead(q, i) \in Nat /\ Ahead(q, i) < i
  BY <1>1, <1>2, <1>3
<1>5. Finish(q, i) = Ahead(q, i) + Size(Rec(q, i))
  BY DEF Finish
<1> HIDE DEF Ahead
<1> QED BY <1>1, <1>2, <1>3, <1>4, <1>5

(* The row without its first record.                                       *)
Without(p, q, n) ==
    /\ p \in Seq(Cell) /\ Len(p) = Len(q) - n
    /\ \A i \in 1 .. Len(p) : p[i] = q[n + i]

LEMMA LaidPop ==
  ASSUME NEW q, NEW at, NEW from \in Nat, NEW sent \in Nat, NEW ended,
         Layout(q, at, from, sent, ended), q # <<>>,
         NEW n, n = Size(Rec(q, 1)), n <= Len(q),
         NEW p, Without(p, q, n)
  PROVE  /\ \E bt : Layout(p, bt, from + Len(Rec(q, 1).bytes), sent, ended)
         /\ Rec(q, 1).bytes = Span(from, Len(Rec(q, 1).bytes))
         /\ Rec(q, 1).kind # "data" => Len(Rec(q, 1).bytes) = 0
         /\ Rec(q, 1).kind = "close" => ended /\ Len(q) = n
<1>w. /\ p \in Seq(Cell) /\ Len(p) = Len(q) - n
      /\ \A i \in 1 .. Len(p) : p[i] = q[n + i]
  BY DEF Without
<1> USE <1>w
<1> DEFINE bt == [i \in 1 .. Len(p) |-> at[n + i]]
<1>q. q \in Seq(Cell) /\ Len(q) \in Nat \ {0} /\ Len(p) \in Nat /\ 1 \in 1 .. Len(q)
  BY DEF Layout
<1>a. at \in [1 .. Len(q) -> Nat] /\ at[1] = from /\ at[1] \in Nat
  BY <1>q DEF Layout
<1>l. \A i \in 1 .. Len(q) : Laid(q, at, sent, ended, i)
  BY DEF Layout
<1>n. n \in Nat \ {0}
  BY <1>q, CellParts
<1>1. Pos(q, 1) = 1 /\ Ahead(q, 1) = 0 /\ Finish(q, 1) = n
  <2>1. Pos(q, 1) = 1
    BY <1>q, <1>l, CellParts DEF Laid
  <2> QED BY <2>1, <1>n DEF Ahead, Finish
<1>2. ASSUME NEW k \in n + 1 .. Len(q)
      PROVE  Ahead(q, k) >= n
  <2>0. k \in 1 .. Len(q)
    BY <1>n, <1>q
  <2>1. /\ Ahead(q, k) \in Nat /\ Finish(q, k) \in Nat /\ k <= Finish(q, k)
        /\ Ahead(q, k) < k
    BY <2>0, <1>q, <1>l, CellRun
  <2> SUFFICES ASSUME Ahead(q, k) < n PROVE FALSE
    BY <2>1, <1>n
  <2> DEFINE j == Ahead(q, k) + 1
  <2>2. j \in 1 .. Len(q) /\ j <= n /\ Ahead(q, k) < j /\ j <= Finish(q, k) /\ 0 < j
    BY <2>1, <2>0, <1>n, <1>q
  <2>3. q[j] = <<Rec(q, k), j - Ahead(q, k)>>
    BY <2>0, <2>2, <1>l DEF Laid
  <2>4. q[j] = <<Rec(q, 1), j - Ahead(q, 1)>>
    BY <2>2, <1>1, <1>q, <1>l DEF Laid
  <2>5. Rec(q, k) = Rec(q, 1) /\ j - Ahead(q, k) = j - Ahead(q, 1)
    BY <2>3, <2>4
  <2>6. Ahead(q, k) = 0
    BY <2>5, <2>1, <1>1
  <2>7. Finish(q, k) = n
    BY <2>5, <2>6, <1>n DEF Finish
  <2> QED BY <2>1, <2>7, <1>n
<1>3. bt \in [1 .. Len(p) -> Nat]
  BY <1>a, <1>n, <1>q
<1>4. ASSUME NEW i \in 1 .. Len(p) PROVE Laid(p, bt, sent, ended, i)
  <2> DEFINE k == n + i
  <2>1. k \in 1 .. Len(q) /\ k \in n + 1 .. Len(q) /\ p[i] = q[k] /\ bt[i] = at[k]
    BY <1>n, <1>q
  <2>c. Laid(q, at, sent, ended, k)
    BY <1>l, <2>1
  <2> HIDE DEF k, bt
  <2>k. k = n + i /\ i \in Nat
    BY DEF k
  <2>r. Rec(p, i) = Rec(q, k) /\ Pos(p, i) = Pos(q, k)
    BY <2>1 DEF Rec, Pos
  <2>p. Pos(q, k) \in Nat /\ Size(Rec(q, k)) \in Nat \ {0}
    BY <2>1, <1>q, CellParts
  <2>w. Ahead(q, k) = k - Pos(q, k) /\ Ahead(p, i) = i - Pos(q, k)
    BY <2>r DEF Ahead
  <2>a. Ahead(q, k) \in Nat /\ Finish(q, k) \in Nat /\ k <= Finish(q, k)
    BY <2>1, <2>c, <1>q, CellRun
  <2>2. Ahead(p, i) = Ahead(q, k) - n
    BY ONLY <2>k, <2>w, <2>p, <1>n
  <2>3. Ahead(q, k) >= n
    BY <1>2, <2>1
  <2>4. Pos(p, i) <= i
    BY ONLY <2>k, <2>r, <2>w, <2>p, <2>3, <1>n
  <2>x. Finish(q, k) = Ahead(q, k) + Size(Rec(q, k)) /\ Finish(p, i) = Ahead(p, i) + Size(Rec(q, k))
    BY <2>r DEF Finish
  <2>y. Finish(p, i) = Finish(q, k) - n
    BY ONLY <2>x, <2>2, <2>a, <2>p, <1>n
  <2>f. Finish(q, k) >= n + 1
    BY ONLY <2>a, <2>k, <1>n, i \in 1 .. Len(p), <1>q
  <2>5. ASSUME NEW j \in 1 .. Len(p), Ahead(p, i) < j, j <= Finish(p, i)
        PROVE  p[j] = <<Rec(p, i), j - Ahead(p, i)>> /\ bt[j] = bt[i]
    <3>1. n + j \in 1 .. Len(q) /\ Ahead(q, k) < n + j /\ n + j <= Finish(q, k)
      BY ONLY <2>5, <2>2, <2>a, <2>y, <1>n, <1>q, j \in 1 .. Len(p), Len(p) = Len(q) - n
    <3>2. q[n + j] = <<Rec(q, k), (n + j) - Ahead(q, k)>> /\ at[n + j] = at[k]
      BY <3>1, <2>c DEF Laid
    <3>3. (n + j) - Ahead(q, k) = j - Ahead(p, i)
      BY ONLY <2>2, <2>a, <1>n, j \in 1 .. Len(p), <1>q
    <3>4. bt[j] = at[n + j] /\ p[j] = q[n + j]
      BY DEF bt
    <3> QED BY <3>2, <3>3, <3>4, <2>1, <2>r
  <2>6. ASSUME Finish(p, i) < Len(p)
        PROVE  /\ Pos(p, Finish(p, i) + 1) = 1
               /\ bt[Finish(p, i) + 1] = bt[i] + Len(Rec(p, i).bytes)
    <3>1. Finish(q, k) < Len(q) /\ Finish(p, i) + 1 \in 1 .. Len(p)
      BY ONLY <2>6, <2>y, <2>a, <2>f, <1>n, <1>q, Len(p) = Len(q) - n
    <3>2. n + (Finish(p, i) + 1) = Finish(q, k) + 1
      BY ONLY <2>y, <2>a, <1>n
    <3>3. p[Finish(p, i) + 1] = q[Finish(q, k) + 1]
      BY <3>1, <3>2
    <3>4. bt[Finish(p, i) + 1] = at[Finish(q, k) + 1]
      BY <3>1, <3>2 DEF bt
    <3>5. Pos(p, Finish(p, i) + 1) = Pos(q, Finish(q, k) + 1)
      BY <3>3 DEF Pos
    <3> QED BY <3>1, <3>4, <3>5, <2>1, <2>r, <2>c DEF Laid
  <2>7. /\ Finish(p, i) = Len(p) <=> Finish(q, k) = Len(q)
        /\ Finish(p, i) > Len(p) <=> Finish(q, k) > Len(q)
        /\ Finish(p, i) >= Len(p) <=> Finish(q, k) >= Len(q)
    BY ONLY <2>y, <2>a, <1>n, <1>q, Len(p) = Len(q) - n
  <2> QED BY <2>1, <2>r, <2>4, <2>5, <2>6, <2>7, <2>c DEF Laid
<1>5. Laid(q, at, sent, ended, 1)
  BY <1>l, <1>q
<1>6. IF p = <<>> THEN sent = from + Len(Rec(q, 1).bytes)
      ELSE bt[1] = from + Len(Rec(q, 1).bytes)
  <2>1. CASE p = <<>>
    <3>1. Len(q) = n
      BY <2>1, <1>n, <1>q
    <3> QED BY <2>1, <3>1, <1>1, <1>5, <1>a DEF Laid
  <2>2. CASE p # <<>>
    <3>1. 1 \in 1 .. Len(p) /\ n < Len(q)
      BY <2>2, <1>n, <1>q
    <3>2. bt[1] = at[n + 1]
      BY <3>1
    <3> QED BY <2>2, <3>1, <3>2, <1>1, <1>5, <1>a DEF Laid
  <2> QED BY <2>1, <2>2
<1>7. /\ Rec(q, 1).bytes = Span(from, Len(Rec(q, 1).bytes))
      /\ Rec(q, 1).kind # "data" => Len(Rec(q, 1).bytes) = 0
      /\ Rec(q, 1).kind = "close" => ended /\ Len(q) = n
  BY <1>1, <1>5, <1>a, <1>n, <1>q DEF Laid
<1> HIDE DEF bt
<1>8. Layout(p, bt, from + Len(Rec(q, 1).bytes), sent, ended)
  BY <1>3, <1>4, <1>6 DEF Layout
<1> QED BY <1>7, <1>8

(* The row with the first m cells of a new record behind it: the record is *)
(* whole, or nothing will follow.                                          *)
Follows(p, q, rec, m) ==
    /\ p \in Seq(Cell) /\ Len(p) = Len(q) + m
    /\ \A i \in 1 .. Len(q) : p[i] = q[i]
    /\ \A i \in 1 .. m : p[Len(q) + i] = <<rec, i>>

(* The plaintext there is when m of the Header + k cells are.              *)
Total(sent, k, m) == IF m = Header + k THEN sent + k ELSE sent

LEMMA LaidPush ==
  ASSUME NEW q, NEW at, NEW from \in Nat, NEW sent \in Nat,
         NEW before, ~before, Layout(q, at, from, sent, before),
         NEW rec \in Records, NEW k \in Nat,
         rec.bytes = Span(sent, k), rec.kind # "data" => k = 0,
         NEW m \in 1 .. Header + k,
         NEW to, to = Total(sent, k, m),
         NEW ended \in BOOLEAN, m < Header + k => ended, rec.kind = "close" => ended,
         NEW p, Follows(p, q, rec, m)
  PROVE  \E bt : Layout(p, bt, from, to, ended)
<1> DEFINE bt == [i \in 1 .. Len(p) |-> IF i <= Len(q) THEN at[i] ELSE sent]
<1> USE DEF Follows, Total
<1>q. q \in Seq(Cell) /\ Len(q) \in Nat /\ Len(p) \in Nat
  BY DEF Layout
<1>a. at \in [1 .. Len(q) -> Nat]
  BY DEF Layout
<1>h. Header \in Nat \ {0}
  BY TlsAssumption
<1>b. Len(rec.bytes) = k
  <2>1. Len(Span(sent, k)) = k
    BY SpanSeq
  <2> QED BY <2>1
<1>k. /\ Len(rec.bytes) = k /\ Header \in Nat \ {0} /\ m \in Nat \ {0} /\ m <= Header + k
      /\ Size(rec) = Header + k
  BY <1>h, <1>b DEF Size
<1>t. to \in Nat /\ sent <= to
  BY <1>k
<1>1. bt \in [1 .. Len(p) -> Nat]
  BY <1>a, <1>q
<1>2. ASSUME NEW i \in 1 .. Len(q) PROVE Laid(p, bt, to, ended, i)
  <2>1. Laid(q, at, sent, before, i)
    BY DEF Layout
  <2>0. i \in 1 .. Len(p) /\ i <= Len(q)
    BY <1>q, <1>k
  <2>2. i \in 1 .. Len(p) /\ p[i] = q[i] /\ bt[i] = at[i] /\ at[i] \in Nat
    BY <2>0, <1>a
  <2>3. Rec(p, i) = Rec(q, i) /\ Pos(p, i) = Pos(q, i)
    BY <2>2 DEF Rec, Pos
  <2>4. Ahead(p, i) = Ahead(q, i) /\ Finish(p, i) = Finish(q, i)
    BY <2>3 DEF Ahead, Finish
  <2>5. Ahead(q, i) \in Nat /\ Finish(q, i) \in Nat /\ i <= Finish(q, i)
    BY <2>1, <1>q, CellRun
  <2>6. Finish(q, i) <= Len(q) /\ Rec(q, i).kind # "close"
    BY <2>1, <2>5, <1>q DEF Laid
  <2>7. at[i] <= sent /\ Len(Rec(q, i).bytes) \in Nat
    BY <2>1, <1>q, CellParts DEF Laid
  <2> HIDE DEF bt
  <2>8. ASSUME NEW j \in 1 .. Len(p), Ahead(p, i) < j, j <= Finish(p, i)
        PROVE  p[j] = <<Rec(p, i), j - Ahead(p, i)>> /\ bt[j] = bt[i]
    <3>1. j \in 1 .. Len(q)
      BY <2>8, <2>4, <2>5, <2>6, <1>q
    <3>2. p[j] = q[j] /\ bt[j] = at[j]
      BY <3>1, <1>q DEF bt
    <3> QED BY <3>1, <3>2, <2>1, <2>2, <2>3, <2>4, <2>8 DEF Laid
  <2>9. /\ Pos(p, Finish(p, i) + 1) = 1
        /\ bt[Finish(p, i) + 1] = bt[i] + Len(Rec(p, i).bytes)
    <3>1. CASE Finish(q, i) < Len(q)
      <4>1. Finish(q, i) + 1 \in 1 .. Len(q)
        BY <3>1, <2>5, <1>q
      <4>2. p[Finish(q, i) + 1] = q[Finish(q, i) + 1]
        BY <4>1
      <4>3. bt[Finish(q, i) + 1] = at[Finish(q, i) + 1]
        BY <4>1, <1>q, <1>k DEF bt
      <4>4. Pos(p, Finish(q, i) + 1) = Pos(q, Finish(q, i) + 1)
        BY <4>2 DEF Pos
      <4> QED BY <3>1, <4>3, <4>4, <2>1, <2>2, <2>3, <2>4 DEF Laid
    <3>2. CASE Finish(q, i) = Len(q)
      <4>1. p[Len(q) + 1] = <<rec, 1>>
        BY <1>k
      <4>2. bt[Len(q) + 1] = sent
        BY <1>q, <1>k DEF bt
      <4>3. Pos(p, Len(q) + 1) = 1
        BY <4>1 DEF Pos
      <4> QED BY <3>2, <4>2, <4>3, <2>1, <2>2, <2>3, <2>4 DEF Laid
    <3> QED BY <3>1, <3>2, <2>5, <2>6, <1>q
  <2>10. Finish(p, i) < Len(p)
    BY <2>4, <2>5, <2>6, <1>q, <1>k
  <2>11. bt[i] <= to
    BY <2>2, <2>7, <1>t
  <2>12. ~(Finish(p, i) = Len(p)) /\ ~(Finish(p, i) > Len(p))
    BY <2>10, <2>4, <2>5, <1>q
  <2>13. /\ Pos(p, i) \in 1 .. Size(Rec(p, i)) /\ Pos(p, i) <= i
         /\ Rec(p, i).bytes = Span(bt[i], Len(Rec(p, i).bytes))
         /\ Rec(p, i).kind # "data" => Len(Rec(p, i).bytes) = 0
         /\ Rec(p, i).kind # "close"
    BY <2>1, <2>2, <2>3, <2>6 DEF Laid
  <2> QED BY <2>8, <2>9, <2>11, <2>12, <2>13 DEF Laid
<1>3. ASSUME NEW i \in Len(q) + 1 .. Len(p) PROVE Laid(p, bt, to, ended, i)
  <2>1. /\ i \in Nat /\ i - Len(q) \in 1 .. m /\ i = Len(q) + (i - Len(q))
        /\ i \in 1 .. Len(p) /\ ~(i <= Len(q))
    BY <1>q, <1>k
  <2>2. p[i] = <<rec, i - Len(q)>> /\ bt[i] = sent
    BY <2>1
  <2>3. Rec(p, i) = rec /\ Pos(p, i) = i - Len(q)
    BY <2>2 DEF Rec, Pos
  <2>4. Ahead(p, i) = Len(q)
    BY <2>1, <2>3, <1>q DEF Ahead
  <2>5. Finish(p, i) = Len(q) + (Header + k)
    BY <2>3, <2>4, <1>k DEF Finish
  <2>6. ASSUME NEW j \in 1 .. Len(p), Len(q) < j
        PROVE  p[j] = <<rec, j - Len(q)>> /\ bt[j] = sent
    <3>1. j - Len(q) \in 1 .. m /\ j = Len(q) + (j - Len(q)) /\ ~(j <= Len(q))
      BY <2>6, <1>q, <1>k
    <3> QED BY <3>1
  <2> HIDE DEF bt
  <2>7. /\ Pos(p, i) \in 1 .. Size(Rec(p, i)) /\ Pos(p, i) <= i
        /\ bt[i] <= to
    BY <2>1, <2>2, <2>3, <1>k, <1>t, <1>q
  <2>8. /\ ~(Finish(p, i) < Len(p))
        /\ Finish(p, i) = Len(p) => m = Header + k
        /\ Finish(p, i) > Len(p) => m < Header + k
        /\ Finish(p, i) >= Len(p)
    BY <2>5, <1>q, <1>k
  <2>9. /\ Finish(p, i) = Len(p) => to = bt[i] + k
        /\ Finish(p, i) > Len(p) => ended /\ to = bt[i]
    BY <2>2, <2>8, <1>k
  <2> QED BY <2>2, <2>3, <2>4, <2>6, <2>7, <2>8, <2>9, <1>k DEF Laid
<1>4. \A i \in 1 .. Len(p) : Laid(p, bt, to, ended, i)
  <2>1. \A i \in 1 .. Len(p) : i \in 1 .. Len(q) \/ i \in Len(q) + 1 .. Len(p)
    BY <1>q
  <2> QED BY <2>1, <1>2, <1>3
<1>5. p # <<>> /\ bt[1] = from
  <2>1. 1 \in 1 .. Len(p) /\ p # <<>>
    BY <1>q, <1>k
  <2>2. CASE q = <<>>
    BY <2>1, <2>2 DEF Layout
  <2>3. CASE q # <<>>
    <3>1. 1 <= Len(q)
      BY <2>3, <1>q
    <3> QED BY <2>1, <2>3, <3>1 DEF Layout
  <2> QED BY <2>1, <2>2, <2>3
<1> HIDE DEF bt
<1>6. Layout(p, bt, from, to, ended)
  BY <1>1, <1>4, <1>5 DEF Layout
<1> QED BY <1>6

(* The end of the connection cuts nothing off that is there.               *)
LEMMA LaidEnd ==
  ASSUME NEW q, NEW at, NEW from, NEW sent, NEW before,
         Layout(q, at, from, sent, before), NEW ended, ended
  PROVE  Layout(q, at, from, sent, ended)
BY DEF Layout, Laid

-----------------------------------------------------------------------------
(* What has arrived and was not decrypted yet.                             *)
Pending == raw_extra \o wire

TlsTypes ==
    /\ peerSent \in Nat /\ over \in BOOLEAN /\ told \in BOOLEAN
    /\ raw_extra \in Seq(Cell) /\ wire \in Seq(Cell)
    /\ got \in Seq(Nat) /\ plaintext \in Seq(Nat) /\ maxlen \in Nat

(* The row begins with what follows the bytes returned and decrypted.      *)
Accounted ==
    \E at : Layout(Pending, at, Len(got) + Len(plaintext), peerSent, over)

(* plaintext is what follows the bytes returned; a call waits in recv only *)
(* when it has neither plaintext nor a whole record.                       *)
TlsInv ==
    /\ TlsTypes
    /\ link # "open" => over
    /\ ~dialed => reading = "idle" /\ raw_extra = <<>>
    /\ reading = "recv" => plaintext = <<>> /\ NeedsMore
    /\ plaintext = Span(Len(got), Len(plaintext))
    /\ Accounted

InFlows == [Inbound!Next]_(Inbound!stream)

LEMMA CellsSeq ==
  ASSUME NEW rec \in Records
  PROVE  /\ Cells(rec) \in Seq(Cell)
         /\ Len(Cells(rec)) = Size(rec)
         /\ Size(rec) \in Nat \ {0}
         /\ \A i \in 1 .. Size(rec) : Cells(rec)[i] = <<rec, i>>
<1>1. Size(rec) \in Nat \ {0}
  BY TlsAssumption DEF Size, Records
<1>2. Cells(rec) = [i \in 1 .. Size(rec) |-> <<rec, i>>]
  BY DEF Cells, Size
<1>3. \A i \in 1 .. Size(rec) : <<rec, i>> \in Cell
  BY DEF Cell
<1>4. Cells(rec) \in [1 .. Size(rec) -> Cell]
  BY <1>2, <1>3
<1> QED BY <1>1, <1>2, <1>4

(* Two sequences joined, and one cut in two.                               *)
LEMMA Join ==
  ASSUME NEW S, NEW s \in Seq(S), NEW t \in Seq(S)
  PROVE  /\ s \o t \in Seq(S) /\ Len(s \o t) = Len(s) + Len(t)
         /\ \A i \in 1 .. Len(s) : (s \o t)[i] = s[i]
         /\ \A i \in 1 .. Len(t) : (s \o t)[Len(s) + i] = t[i]
OBVIOUS

LEMMA Cut ==
  ASSUME NEW S, NEW s \in Seq(S), NEW k \in 0 .. Len(s)
  PROVE  /\ SubSeq(s, 1, k) \in Seq(S) /\ SubSeq(s, k + 1, Len(s)) \in Seq(S)
         /\ SubSeq(s, 1, k) \o SubSeq(s, k + 1, Len(s)) = s
<1>1. SubSeq(s, 1, k) \in Seq(S) /\ SubSeq(s, k + 1, Len(s)) \in Seq(S)
  OBVIOUS
<1>2. 1 \in 1 .. Len(s) + 1 /\ k \in 1 - 1 .. Len(s) /\ Len(s) \in k .. Len(s)
  OBVIOUS
<1>3. SubSeq(s, 1, k) \o SubSeq(s, k + 1, Len(s)) = SubSeq(s, 1, Len(s))
  BY <1>2, ConcatAdjacentSubSeq
<1>4. SubSeq(s, 1, Len(s)) = s
  BY SubSeqFull
<1> QED BY <1>1, <1>3, <1>4

LEMMA PendingSeq ==
  ASSUME TlsTypes
  PROVE  /\ Pending \in Seq(Cell) /\ Len(Pending) = Len(raw_extra) + Len(wire)
         /\ Len(raw_extra) \in Nat /\ Len(wire) \in Nat /\ Len(Pending) \in Nat
         /\ \A i \in 1 .. Len(raw_extra) : Pending[i] = raw_extra[i]
         /\ \A i \in 1 .. Len(wire) : Pending[Len(raw_extra) + i] = wire[i]
BY DEF TlsTypes, Pending

(* The writing side of the session leaves the reading side alone.          *)
LEMMA Aside ==
  ASSUME TlsInv, UNCHANGED <<peerVars, wire, dialed, readVars>>
  PROVE  TlsInv' /\ InFlows
<1>1. /\ UNCHANGED <<peerSent, over, link, wire, dialed, raw_extra, plaintext>>
      /\ UNCHANGED <<reading, maxlen, got, told>>
  BY DEF peerVars, readVars
<1>2. NeedsMore' = NeedsMore /\ TlsTypes' = TlsTypes /\ Accounted' = Accounted
  BY <1>1 DEF NeedsMore, HasRecord, FirstRecord, TlsTypes, Accounted, Pending
<1>3. TlsInv'
  BY <1>1, <1>2 DEF TlsInv
<1>4. InFlows
  BY <1>1 DEF InFlows, Inbound!stream
<1> QED BY <1>3, <1>4

(* What a concatenation is, entry by entry, and that it may be regrouped.  *)
ConcatAt(s, t, u) ==
    /\ Len(u) = Len(s) + Len(t)
    /\ \A i \in 1 .. Len(s) + Len(t) : u[i] = IF i <= Len(s) THEN s[i] ELSE t[i - Len(s)]

LEMMA Concats ==
  ASSUME NEW S, NEW s \in Seq(S), NEW t \in Seq(S)
  PROVE  s \o t \in Seq(S) /\ ConcatAt(s, t, s \o t)
BY ConcatProperties DEF ConcatAt

LEMMA Regroup ==
  ASSUME NEW S, NEW x \in Seq(S), NEW y \in Seq(S), NEW z \in Seq(S)
  PROVE  (x \o y) \o z = x \o (y \o z)
<1> DEFINE a == Len(x)  b == Len(y)  c == Len(z)
           xy == x \o y  yz == y \o z  l == xy \o z  r == x \o yz
<1>0. a \in Nat /\ b \in Nat /\ c \in Nat
  OBVIOUS
<1>1. /\ xy \in Seq(S) /\ Len(xy) = a + b
      /\ \A i \in 1 .. a + b : xy[i] = IF i <= a THEN x[i] ELSE y[i - a]
  BY ConcatProperties
<1>2. /\ yz \in Seq(S) /\ Len(yz) = b + c
      /\ \A i \in 1 .. b + c : yz[i] = IF i <= b THEN y[i] ELSE z[i - b]
  BY ConcatProperties
<1> HIDE DEF xy, yz
<1>3. /\ l \in Seq(S) /\ Len(l) = (a + b) + c
      /\ \A i \in 1 .. (a + b) + c : l[i] = IF i <= a + b THEN xy[i] ELSE z[i - (a + b)]
  <2>0. xy \in Seq(S) /\ Len(xy) = a + b /\ Len(z) = c
    BY <1>1
  <2>1. l \in Seq(S) /\ ConcatAt(xy, z, l)
    BY <2>0, Concats, Zenon
  <2> HIDE DEF l, a, b, c
  <2> QED BY <2>0, <2>1 DEF ConcatAt
<1>4. /\ r \in Seq(S) /\ Len(r) = a + (b + c)
      /\ \A i \in 1 .. a + (b + c) : r[i] = IF i <= a THEN x[i] ELSE yz[i - a]
  <2>0. yz \in Seq(S) /\ Len(yz) = b + c /\ Len(x) = a
    BY <1>2
  <2>1. r \in Seq(S) /\ ConcatAt(x, yz, r)
    BY <2>0, Concats, Zenon
  <2> HIDE DEF r, a, b, c
  <2> QED BY <2>0, <2>1 DEF ConcatAt
<1> HIDE DEF l, r, a, b, c
<1>5. ASSUME NEW i \in 1 .. (a + b) + c PROVE l[i] = r[i]
  <2>1. CASE i <= a
    <3>1. i \in 1 .. a + b /\ i <= a + b /\ i \in 1 .. a + (b + c)
      BY <1>0, <2>1
    <3> QED BY <1>1, <1>3, <1>4, <2>1, <3>1
  <2>2. CASE i > a /\ i <= a + b
    <3>1. /\ i \in 1 .. a + b /\ ~(i <= a) /\ i \in 1 .. a + (b + c)
          /\ i - a \in 1 .. b + c /\ i - a <= b
      BY <1>0, <2>2
    <3>2. l[i] = y[i - a]
      BY <1>1, <1>3, <2>2, <3>1
    <3>3. r[i] = yz[i - a] /\ yz[i - a] = y[i - a]
      BY <1>2, <1>4, <3>1
    <3> QED BY <3>2, <3>3
  <2>3. CASE i > a + b
    <3>1. /\ ~(i <= a + b) /\ ~(i <= a) /\ i \in 1 .. a + (b + c)
          /\ i - a \in 1 .. b + c /\ ~(i - a <= b) /\ (i - a) - b = i - (a + b)
      BY <1>0, <2>3
    <3>2. l[i] = z[i - (a + b)]
      BY <1>3, <3>1
    <3>3. r[i] = yz[i - a] /\ yz[i - a] = z[(i - a) - b]
      BY <1>2, <1>4, <3>1
    <3> QED BY <3>1, <3>2, <3>3
  <2> QED BY <1>0, <2>1, <2>2, <2>3
<1>6. (a + b) + c = a + (b + c)
  BY <1>0
<1>7. l = r
  BY <1>3, <1>4, <1>5, <1>6, SeqEqual
<1> QED BY <1>7 DEF l, r, xy, yz

LEMMA RegroupCells ==
  \A x, y, z \in Seq(Cell) : (x \o y) \o z = x \o (y \o z)
<1> TAKE x, y, z \in Seq(Cell)
<1> QED BY ONLY x \in Seq(Cell), y \in Seq(Cell), z \in Seq(Cell), Regroup

(* A record of the peer, or the part of one that it ends in.               *)
LEMMA PeerCells ==
  ASSUME TlsInv, ~over, NEW kind \in Kinds, NEW n \in Nat, kind # "data" => n = 0,
         NEW m \in 1 .. Header + n,
         wire' = wire \o SubSeq(Cells(Record(kind, n)), 1, m),
         peerSent' = IF m = Header + n THEN peerSent + n ELSE peerSent,
         over' \in BOOLEAN, m < Header + n => over', kind = "close" => over',
         UNCHANGED <<raw_extra, got, plaintext>>
  PROVE  Accounted' /\ wire' \in Seq(Cell)
<1> DEFINE rec == Record(kind, n)
           c == SubSeq(Cells(rec), 1, m)
<1>t. TlsTypes /\ peerSent \in Nat /\ Len(got) + Len(plaintext) \in Nat
  BY DEF TlsInv, TlsTypes
<1>1. rec.bytes = Span(peerSent, n) /\ rec.kind = kind
  BY DEF Record, Bytes, Span
<1>2. rec.bytes \in Seq(Nat) /\ Len(rec.bytes) = n
  BY <1>1, <1>t, SpanSeq
<1>3. rec \in Records
  BY <1>2 DEF Record, Records
<1> HIDE DEF rec
<1>4. Size(rec) = Header + n
  BY <1>2 DEF Size
<1>5. /\ Cells(rec) \in Seq(Cell) /\ Len(Cells(rec)) = Header + n
      /\ Header + n \in Nat /\ \A i \in 1 .. Header + n : Cells(rec)[i] = <<rec, i>>
  BY <1>3, <1>4, CellsSeq
<1>6. c \in Seq(Cell) /\ Len(c) = m /\ \A i \in 1 .. m : c[i] = <<rec, i>>
  BY <1>5
<1>7. wire' = wire \o c
  BY DEF rec
<1> HIDE DEF c
<1>w. wire \in Seq(Cell)
  BY <1>t DEF TlsTypes
<1>8. wire' \in Seq(Cell)
  BY ONLY <1>6, <1>7, <1>w, Join
<1>p. /\ Pending \in Seq(Cell) /\ Len(Pending) = Len(raw_extra) + Len(wire)
      /\ Len(Pending) \in Nat
  BY <1>t, PendingSeq
<1>9. Pending' = Pending \o c
  <2>1. (raw_extra \o wire) \o c = raw_extra \o (wire \o c)
    <3> DEFINE x == raw_extra  y == wire
    <3>1. x \in Seq(Cell) /\ y \in Seq(Cell) /\ c \in Seq(Cell)
      BY <1>t, <1>w, <1>6 DEF TlsTypes
    <3> HIDE DEF x, y
    <3>2. (x \o y) \o c = x \o (y \o c)
      BY <3>1, RegroupCells, Zenon
    <3> QED BY <3>2, Zenon DEF x, y
  <2> QED BY <2>1, <1>7 DEF Pending
<1>10. /\ Pending' \in Seq(Cell) /\ Len(Pending') = Len(Pending) + m
       /\ \A i \in 1 .. Len(Pending) : Pending'[i] = Pending[i]
       /\ \A i \in 1 .. m : Pending'[Len(Pending) + i] = <<rec, i>>
  <2>1. /\ Pending \o c \in Seq(Cell) /\ Len(Pending \o c) = Len(Pending) + Len(c)
        /\ \A i \in 1 .. Len(Pending) : (Pending \o c)[i] = Pending[i]
        /\ \A i \in 1 .. Len(c) : (Pending \o c)[Len(Pending) + i] = c[i]
    BY ONLY <1>6, <1>p, Join
  <2> QED BY ONLY <2>1, <1>6, <1>9
<1>11. PICK at : Layout(Pending, at, Len(got) + Len(plaintext), peerSent, over)
  BY DEF TlsInv, Accounted
<1> DEFINE p == Pending' to == peerSent'  en == over'  from == Len(got) + Len(plaintext)
<1> HIDE DEF p, to, en, from
<1>13. Follows(p, Pending, rec, m)
  BY <1>10 DEF p, Follows
<1>14. to = Total(peerSent, n, m) /\ en \in BOOLEAN
  BY DEF to, en, Total
<1>16. /\ (m < Header + n => en) /\ (rec.kind = "close" => en)
       /\ (rec.kind # "data" => n = 0)
  BY <1>1 DEF en
<1>17. from \in Nat /\ Layout(Pending, at, from, peerSent, over)
  BY <1>11, <1>t DEF from
<1>18. \E bt : Layout(p, bt, from, to, en)
  BY ONLY <1>13, <1>14, <1>16, <1>17, <1>1, <1>3, <1>t, ~over, n \in Nat, m \in 1 .. Header + n, LaidPush
<1>15. Accounted'
  BY <1>18 DEF Accounted, p, to, en, from
<1> QED BY <1>8, <1>15

LEMMA PeerSendStep ==
  ASSUME TlsInv, NEW kind \in Kinds, NEW n \in Nat, kind # "data" => n = 0,
         PeerSend(kind, n)
  PROVE  TlsInv' /\ InFlows
<1>t. TlsTypes
  BY DEF TlsInv
<1>1. /\ ~over /\ wire' = wire \o Cells(Record(kind, n))
      /\ peerSent' = peerSent + n /\ over' = (kind = "close")
      /\ UNCHANGED <<link, dialed, raw_extra, plaintext, reading, maxlen, got, told>>
  BY DEF PeerSend, readVars
<1>2. Record(kind, n) \in Records /\ Size(Record(kind, n)) = Header + n
  <2>1. Record(kind, n) = [kind |-> kind, bytes |-> Span(peerSent, n)]
    BY DEF Record, Bytes, Span
  <2>2. Span(peerSent, n) \in Seq(Nat) /\ Len(Span(peerSent, n)) = n
    BY <1>t, SpanSeq DEF TlsTypes
  <2> QED BY <2>1, <2>2 DEF Records, Size
<1>3. /\ Cells(Record(kind, n)) \in Seq(Cell) /\ Len(Cells(Record(kind, n))) = Header + n
      /\ Header + n \in 1 .. Header + n
  <2>1. Header \in Nat \ {0}
    BY TlsAssumption
  <2> QED BY <1>2, <2>1, CellsSeq
<1>4. SubSeq(Cells(Record(kind, n)), 1, Header + n) = Cells(Record(kind, n))
  BY <1>3, SubSeqFull
<1>5. Accounted' /\ wire' \in Seq(Cell)
  <2> DEFINE m == Header + n
  <2>1. /\ m \in 1 .. Header + n /\ wire' = wire \o SubSeq(Cells(Record(kind, n)), 1, m)
        /\ peerSent' = IF m = Header + n THEN peerSent + n ELSE peerSent
        /\ ~(m < Header + n)
    BY <1>1, <1>3, <1>4
  <2>2. over' \in BOOLEAN /\ (kind = "close" => over')
    BY <1>1
  <2> HIDE DEF m
  <2> QED BY <1>1, <2>1, <2>2, PeerCells
<1>6. NeedsMore' = NeedsMore
  BY <1>1 DEF NeedsMore, HasRecord, FirstRecord
<1>7. TlsTypes'
  BY <1>1, <1>5, <1>t DEF TlsTypes
<1>8. link = "open"
  BY <1>1 DEF TlsInv
<1>9. TlsInv'
  BY <1>1, <1>5, <1>6, <1>7, <1>8 DEF TlsInv
<1>10. Inbound!Send
  BY <1>1, <1>t DEF Inbound!Send, TlsTypes
<1> QED BY <1>9, <1>10 DEF InFlows, Inbound!Next

(* The peer's side ends: nothing is sent any more.                         *)
LEMMA EndingStep ==
  ASSUME TlsInv, over' = TRUE, Accounted', wire' \in Seq(Cell),
         UNCHANGED <<peerSent, dialed, readVars>>
  PROVE  TlsInv' /\ InFlows
<1>t. TlsTypes
  BY DEF TlsInv
<1>1. UNCHANGED <<peerSent, dialed, raw_extra, plaintext, reading, maxlen, got, told>>
  BY DEF readVars
<1>2. NeedsMore' = NeedsMore
  BY <1>1 DEF NeedsMore, HasRecord, FirstRecord
<1>3. TlsTypes'
  BY <1>1, <1>t DEF TlsTypes
<1>4. TlsInv'
  BY <1>1, <1>2, <1>3 DEF TlsInv
<1>5. CASE over
  <2>1. over' = over
    BY <1>5, <1>t DEF TlsTypes
  <2> QED BY <1>1, <1>4, <2>1 DEF InFlows, Inbound!stream
<1>6. CASE ~over
  <2>1. Inbound!Send
    BY <1>1, <1>6, <1>t DEF Inbound!Send, TlsTypes
  <2> QED BY <1>4, <2>1 DEF InFlows, Inbound!Next
<1> QED BY <1>5, <1>6

LEMMA EndingAccounted ==
  ASSUME TlsInv, over' = TRUE, UNCHANGED <<peerSent, wire, raw_extra, got, plaintext>>
  PROVE  Accounted' /\ wire' \in Seq(Cell)
<1>1. PICK at : Layout(Pending, at, Len(got) + Len(plaintext), peerSent, over)
  BY DEF TlsInv, Accounted
<1>2. over'
  OBVIOUS
<1>3. Layout(Pending, at, Len(got) + Len(plaintext), peerSent, over')
  BY <1>1, <1>2, LaidEnd
<1>4. Accounted'
  BY <1>3 DEF Accounted, Pending
<1> QED BY <1>4 DEF TlsInv, TlsTypes

LEMMA PeerFinStep ==
  ASSUME TlsInv, NEW k \in 0 .. Header, PeerFin(k)
  PROVE  TlsInv' /\ InFlows
<1>t. TlsTypes
  BY DEF TlsInv
<1>1. /\ wire' = wire \o SubSeq(Cells(Record("data", 1)), 1, IF over THEN 0 ELSE k)
      /\ over' = TRUE /\ UNCHANGED <<peerSent, dialed, readVars>>
      /\ UNCHANGED <<raw_extra, got, plaintext>>
  BY DEF PeerFin, readVars
<1>2. CASE over \/ k = 0
  <2>1. wire' = wire \o SubSeq(Cells(Record("data", 1)), 1, 0)
    BY <1>1, <1>2
  <2>2. SubSeq(Cells(Record("data", 1)), 1, 0) = <<>>
    BY SubSeqEmpty
  <2>3. wire' = wire
    BY <2>1, <2>2, <1>t, ConcatEmptySeq DEF TlsTypes
  <2>4. Accounted' /\ wire' \in Seq(Cell)
    BY ONLY <2>3, <1>1, TlsInv, EndingAccounted
  <2> QED BY <2>4, <1>1, EndingStep
<1>3. CASE ~over /\ k # 0
  <2>1. /\ k \in 1 .. Header + 1 /\ k < Header + 1 /\ k # Header + 1
        /\ Header \in Nat
    BY <1>3, TlsAssumption
  <2>2. /\ wire' = wire \o SubSeq(Cells(Record("data", 1)), 1, k)
        /\ peerSent' = IF k = Header + 1 THEN peerSent + 1 ELSE peerSent
    BY <1>1, <1>3, <2>1
  <2>3. "data" \in Kinds /\ 1 \in Nat
    BY DEF Kinds
  <2>4. over' \in BOOLEAN /\ over'
    BY <1>1
  <2>5. Accounted' /\ wire' \in Seq(Cell)
    BY ONLY <1>1, <1>3, <2>1, <2>2, <2>3, <2>4, TlsInv, PeerCells
  <2> QED BY <2>5, <1>1, EndingStep
<1> QED BY <1>2, <1>3

LEMMA PeerResetStep ==
  ASSUME TlsInv, PeerReset
  PROVE  TlsInv' /\ InFlows
<1>1. /\ over' = TRUE /\ UNCHANGED <<peerSent, wire, dialed, readVars>>
      /\ UNCHANGED <<raw_extra, got, plaintext>>
  BY DEF PeerReset, readVars
<1>2. Accounted' /\ wire' \in Seq(Cell)
  BY <1>1, EndingAccounted
<1> QED BY <1>1, <1>2, EndingStep

(* Moving a front of one sequence to the back of another keeps the row.    *)
LEMMA Moved ==
  ASSUME NEW S, NEW r \in Seq(S), NEW w \in Seq(S), NEW k \in 0 .. Len(w)
  PROVE  /\ r \o SubSeq(w, 1, k) \in Seq(S) /\ SubSeq(w, k + 1, Len(w)) \in Seq(S)
         /\ (r \o SubSeq(w, 1, k)) \o SubSeq(w, k + 1, Len(w)) = r \o w
<1> DEFINE f == SubSeq(w, 1, k)  b == SubSeq(w, k + 1, Len(w))
<1>1. f \in Seq(S) /\ b \in Seq(S) /\ f \o b = w
  BY Cut
<1> HIDE DEF f, b
<1>2. r \o f \in Seq(S)
  BY ONLY <1>1, r \in Seq(S), Join
<1>3. \A x, y, z \in Seq(S) : (x \o y) \o z = x \o (y \o z)
  <2> TAKE x, y, z \in Seq(S)
  <2> QED BY ONLY x \in Seq(S), y \in Seq(S), z \in Seq(S), Regroup
<1>4. (r \o f) \o b = r \o (f \o b)
  BY <1>1, <1>3, Zenon
<1>5. r \o f \in Seq(S) /\ b \in Seq(S) /\ (r \o f) \o b = r \o w
  BY <1>1, <1>2, <1>4, Zenon
<1> QED BY <1>5, Zenon DEF f, b

(* recv moves cells from wire to raw_extra: the row is the same.           *)
LEMMA TakeStep ==
  ASSUME TlsInv, NEW k \in 0 .. Len(wire),
         raw_extra' = raw_extra \o SubSeq(wire, 1, k),
         wire' = SubSeq(wire, k + 1, Len(wire)),
         UNCHANGED <<peerVars, plaintext, maxlen, got, told>>,
         dialed', reading' # "recv"
  PROVE  TlsInv' /\ InFlows
<1>t. TlsTypes /\ raw_extra \in Seq(Cell) /\ wire \in Seq(Cell)
  BY DEF TlsInv, TlsTypes
<1>1. UNCHANGED <<peerSent, over, link, plaintext, maxlen, got, told>>
  BY DEF peerVars
<1>2. /\ raw_extra \o SubSeq(wire, 1, k) \in Seq(Cell)
      /\ SubSeq(wire, k + 1, Len(wire)) \in Seq(Cell)
      /\ (raw_extra \o SubSeq(wire, 1, k)) \o SubSeq(wire, k + 1, Len(wire)) = raw_extra \o wire
  BY <1>t, k \in 0 .. Len(wire), Moved, Zenon
<1>3. raw_extra' \in Seq(Cell) /\ wire' \in Seq(Cell)
  BY <1>2
<1>4. Pending' = Pending
  BY <1>2 DEF Pending
<1>5. TlsTypes'
  BY <1>1, <1>2, <1>3, <1>t DEF TlsTypes
<1>6. Accounted'
  BY <1>1, <1>4 DEF TlsInv, Accounted
<1>7. TlsInv'
  BY <1>1, <1>5, <1>6 DEF TlsInv
<1>8. InFlows
  BY <1>1 DEF InFlows, Inbound!stream
<1> QED BY <1>7, <1>8

LEMMA TlsDialStep ==
  ASSUME TlsInv, NEW k \in 0 .. Len(wire), TlsDial(k)
  PROVE  TlsInv' /\ InFlows
<1>t. wire \in Seq(Cell)
  BY DEF TlsInv, TlsTypes
<1>1. reading = "idle" /\ raw_extra = <<>>
  BY DEF TlsInv, TlsDial
<1>2. SubSeq(wire, 1, k) \in Seq(Cell)
  BY <1>t, Cut
<1>3. raw_extra' = raw_extra \o SubSeq(wire, 1, k)
  BY <1>1, <1>2, ConcatEmptySeq DEF TlsDial
<1> QED BY <1>1, <1>3, TakeStep DEF TlsDial

LEMMA RecvMoreStep ==
  ASSUME TlsInv, NEW k \in 1 .. Len(wire), RecvMore(k)
  PROVE  TlsInv' /\ InFlows
<1>1. dialed /\ k \in 0 .. Len(wire)
  BY DEF TlsInv, RecvMore
<1>2. dialed'
  BY <1>1 DEF RecvMore
<1> QED BY <1>1, <1>2, TakeStep DEF RecvMore

(* The steps of TlsIoRead that touch neither the row nor the stream.       *)
LEMMA TurnStep ==
  ASSUME TlsInv, (\E m \in Lengths : TlsIoRead(m)) \/ WaitMore \/ DecryptFails
  PROVE  TlsInv' /\ InFlows
<1>t. TlsTypes
  BY DEF TlsInv
<1>1. /\ UNCHANGED <<peerSent, over, link, wire, dialed, raw_extra, plaintext, got, told>>
      /\ reading' = "recv" => plaintext = <<>> /\ NeedsMore
      /\ ~dialed => reading = "idle"
  BY DEF TlsInv, TlsIoRead, WaitMore, DecryptFails, peerVars
<1>2. maxlen' \in Nat
  <2>1. ASSUME NEW m \in Lengths, TlsIoRead(m) PROVE maxlen' \in Nat
    BY <2>1, TlsAssumption DEF TlsIoRead
  <2> QED BY <2>1, <1>t DEF WaitMore, DecryptFails, TlsTypes
<1>d. dialed
  BY <1>t DEF TlsInv, TlsIoRead, WaitMore, DecryptFails, Decrypts
<1>3. NeedsMore' = NeedsMore /\ Accounted' = Accounted
  BY <1>1 DEF NeedsMore, HasRecord, FirstRecord, Accounted, Pending
<1>4. TlsTypes'
  BY <1>1, <1>2, <1>t DEF TlsTypes
<1>5. TlsInv'
  BY <1>1, <1>3, <1>4, <1>d DEF TlsInv
<1>6. InFlows
  BY <1>1 DEF InFlows, Inbound!stream
<1> QED BY <1>5, <1>6

(* The first record of the row, when raw_extra has anything.               *)
LEMMA FirstOfRow ==
  ASSUME TlsTypes, raw_extra # <<>>
  PROVE  /\ Pending # <<>> /\ Rec(Pending, 1) = FirstRecord
         /\ FirstRecord \in Records
         /\ Len(Cells(FirstRecord)) = Size(FirstRecord)
         /\ Size(FirstRecord) \in Nat \ {0} /\ Len(FirstRecord.bytes) \in Nat
<1>1. /\ Pending \in Seq(Cell) /\ Len(Pending) = Len(raw_extra) + Len(wire)
      /\ Len(raw_extra) \in Nat \ {0} /\ Len(wire) \in Nat
      /\ \A i \in 1 .. Len(raw_extra) : Pending[i] = raw_extra[i]
  <2>1. Len(raw_extra) # 0
    BY DEF TlsTypes
  <2> QED BY <2>1, PendingSeq
<1>2. 1 \in 1 .. Len(raw_extra) /\ 1 \in 1 .. Len(Pending) /\ Pending # <<>>
  BY <1>1
<1>3. Rec(Pending, 1) = FirstRecord
  BY <1>1, <1>2 DEF Rec, FirstRecord
<1>4. Rec(Pending, 1) \in Records /\ Len(Rec(Pending, 1).bytes) \in Nat
  BY <1>1, <1>2, CellParts
<1> QED BY <1>2, <1>3, <1>4, CellsSeq

(* A recv that ends the call: on an orderly end nothing is left to return. *)
LEMMA RecvFailsStep ==
  ASSUME TlsInv, RecvFails
  PROVE  TlsInv' /\ InFlows
<1>t. TlsTypes
  BY DEF TlsInv
<1>1. /\ UNCHANGED <<peerSent, over, link, wire, dialed, raw_extra, plaintext, got, maxlen>>
      /\ reading' = "idle" /\ over
      /\ told' = (told \/ link = "fin")
      /\ link = "reset" \/ (link = "fin" /\ wire = <<>>)
      /\ plaintext = <<>> /\ NeedsMore
  BY DEF TlsInv, RecvFails, peerVars
<1>2. Accounted' = Accounted
  BY <1>1 DEF Accounted, Pending
<1>3. told' \in BOOLEAN
  BY <1>1, <1>t DEF TlsTypes
<1>4. TlsTypes'
  BY <1>1, <1>3, <1>t DEF TlsTypes
<1>5. TlsInv'
  BY <1>1, <1>2, <1>4 DEF TlsInv
<1>6. CASE link = "reset"
  <2>1. told' = told
    BY <1>1, <1>6, <1>t DEF TlsTypes
  <2> QED BY <1>1, <1>5, <2>1 DEF InFlows, Inbound!stream
<1>7. CASE link = "fin" /\ wire = <<>>
  <2>1. told' = TRUE
    BY <1>1, <1>7
  <2>2. PICK at : Layout(Pending, at, Len(got) + Len(plaintext), peerSent, over)
    BY DEF TlsInv, Accounted
  <2>3. Len(plaintext) = 0 /\ Len(got) \in Nat
    BY <1>1, <1>t DEF TlsTypes
  <2>4. Len(got) = peerSent
    <3>p. /\ Pending \in Seq(Cell) /\ Len(Pending) = Len(raw_extra) /\ Len(raw_extra) \in Nat
      <4>1. Len(wire) = 0
        BY <1>7
      <4> QED BY <4>1, <1>t, PendingSeq
    <3>1. CASE raw_extra = <<>>
      <4>1. Pending = <<>>
        BY <3>1, <3>p
      <4>2. peerSent = Len(got) + Len(plaintext)
        BY <2>2, <4>1 DEF Layout
      <4> QED BY <4>2, <2>3
    <3>2. CASE raw_extra # <<>>
      <4>1. /\ Pending # <<>> /\ Rec(Pending, 1) = FirstRecord
            /\ Len(Cells(FirstRecord)) = Size(FirstRecord) /\ Size(FirstRecord) \in Nat \ {0}
            /\ Len(FirstRecord.bytes) \in Nat
        BY <3>2, <1>t, FirstOfRow
      <4>2. Len(Pending) < Size(FirstRecord)
        <5>1. Header <= Size(FirstRecord)
          BY <4>1, TlsAssumption DEF Size
        <5>2. Header \in Nat
          BY TlsAssumption
        <5> QED BY <5>1, <5>2, <4>1, <3>2, <3>p, <1>1 DEF NeedsMore, HasRecord
      <4>3. 1 \in 1 .. Len(Pending)
        BY <4>1, <3>p
      <4>4. Laid(Pending, at, peerSent, over, 1) /\ at[1] = Len(got) + Len(plaintext)
        BY <4>1, <4>3, <2>2 DEF Layout
      <4>5. Pos(Pending, 1) = 1
        BY <4>3, <4>4, <3>p, CellParts DEF Laid
      <4>6. Finish(Pending, 1) = Size(FirstRecord)
        BY <4>1, <4>5 DEF Finish, Ahead
      <4>7. peerSent = at[1]
        BY <4>2, <4>4, <4>6, <4>1, <3>p DEF Laid
      <4> QED BY <4>4, <4>7, <2>3
    <3> QED BY <3>1, <3>2
  <2>5. Inbound!End
    BY <1>1, <2>1, <2>4 DEF Inbound!End
  <2> QED BY <1>5, <2>5 DEF InFlows, Inbound!Next
<1> QED BY <1>1, <1>6, <1>7

(* DecryptMessage takes the first record off the row.                      *)
LEMMA DecryptTakes ==
  ASSUME TlsInv, Decrypts
  PROVE  /\ Extra \in Seq(Cell) /\ FirstRecord \in Records
         /\ FirstRecord.bytes = Span(Len(got), Len(FirstRecord.bytes))
         /\ FirstRecord.kind # "data" => Len(FirstRecord.bytes) = 0
         /\ \E bt : Layout(Extra \o wire, bt, Len(got) + Len(FirstRecord.bytes), peerSent, over)
         /\ FirstRecord.kind = "close" => over /\ wire = <<>> /\ peerSent = Len(got)
<1>t. TlsTypes /\ raw_extra \in Seq(Cell) /\ wire \in Seq(Cell) /\ peerSent \in Nat
  BY DEF TlsInv, TlsTypes
<1>1. plaintext = <<>> /\ raw_extra # <<>> /\ Len(raw_extra) >= Len(Cells(FirstRecord))
  BY DEF Decrypts, NeedsMore, HasRecord
<1>2. Len(plaintext) = 0 /\ Len(got) \in Nat
  BY <1>1, <1>t DEF TlsTypes
<1>3. /\ Pending # <<>> /\ Rec(Pending, 1) = FirstRecord
      /\ FirstRecord \in Records /\ Len(Cells(FirstRecord)) = Size(FirstRecord)
      /\ Size(FirstRecord) \in Nat \ {0} /\ Len(FirstRecord.bytes) \in Nat
  BY <1>t, <1>1, FirstOfRow
<1> DEFINE n == Size(FirstRecord)
           p == Extra \o wire
<1>4. /\ Pending \in Seq(Cell) /\ Len(Pending) = Len(raw_extra) + Len(wire)
      /\ Len(raw_extra) \in Nat /\ Len(wire) \in Nat
      /\ \A i \in 1 .. Len(raw_extra) : Pending[i] = raw_extra[i]
      /\ \A i \in 1 .. Len(wire) : Pending[Len(raw_extra) + i] = wire[i]
  BY <1>t, PendingSeq
<1>n. n \in Nat \ {0} /\ n <= Len(raw_extra)
  BY <1>1, <1>3, <1>4
<1>5. Extra = SubSeq(raw_extra, n + 1, Len(raw_extra))
  BY <1>3 DEF Extra
<1> HIDE DEF n
<1>6. /\ Extra \in Seq(Cell) /\ Len(Extra) = Len(raw_extra) - n
      /\ \A i \in 1 .. Len(raw_extra) - n : Extra[i] = raw_extra[n + i]
  BY <1>5, <1>n, <1>t
<1>7. /\ p \in Seq(Cell) /\ Len(p) = Len(Extra) + Len(wire)
      /\ \A i \in 1 .. Len(Extra) : p[i] = Extra[i]
      /\ \A i \in 1 .. Len(wire) : p[Len(Extra) + i] = wire[i]
  <2>1. Extra \in Seq(Cell) /\ wire \in Seq(Cell)
    BY <1>6, <1>t
  <2> QED BY ONLY <2>1, Join
<1> HIDE DEF p
<1>8. Len(p) = Len(Pending) - n
  BY <1>4, <1>6, <1>7, <1>n
<1>9. ASSUME NEW i \in 1 .. Len(p) PROVE p[i] = Pending[n + i]
  <2>1. CASE i <= Len(Extra)
    <3>1. i \in 1 .. Len(Extra) /\ n + i \in 1 .. Len(raw_extra)
      BY <2>1, <1>4, <1>6, <1>n
    <3> QED BY <3>1, <1>4, <1>6, <1>7
  <2>2. CASE ~(i <= Len(Extra))
    <3>1. /\ i - Len(Extra) \in 1 .. Len(wire) /\ i = Len(Extra) + (i - Len(Extra))
          /\ n + i = Len(raw_extra) + (i - Len(Extra))
      BY <2>2, <1>4, <1>6, <1>7, <1>n
    <3>2. p[i] = wire[i - Len(Extra)]
      BY <3>1, <1>7
    <3>3. Pending[n + i] = wire[i - Len(Extra)]
      BY <3>1, <1>4
    <3> QED BY <3>2, <3>3
  <2> QED BY <2>1, <2>2
<1>10. PICK at : Layout(Pending, at, Len(got) + Len(plaintext), peerSent, over)
  BY DEF TlsInv, Accounted
<1>11. Layout(Pending, at, Len(got), peerSent, over)
  <2>1. Len(got) + Len(plaintext) = Len(got)
    BY <1>2
  <2> QED BY <2>1, <1>10
<1>12. n = Size(Rec(Pending, 1)) /\ n <= Len(Pending)
  BY <1>3, <1>4, <1>n DEF n
<1>w. Without(p, Pending, n)
  BY <1>7, <1>8, <1>9 DEF Without
<1>13. /\ \E bt : Layout(p, bt, Len(got) + Len(Rec(Pending, 1).bytes), peerSent, over)
       /\ Rec(Pending, 1).bytes = Span(Len(got), Len(Rec(Pending, 1).bytes))
       /\ Rec(Pending, 1).kind # "data" => Len(Rec(Pending, 1).bytes) = 0
       /\ Rec(Pending, 1).kind = "close" => over /\ Len(Pending) = n
  BY ONLY <1>2, <1>3, <1>w, <1>11, <1>12, <1>t, LaidPop
<1>14. \E bt : Layout(p, bt, Len(got) + Len(FirstRecord.bytes), peerSent, over)
  BY ONLY <1>13, <1>3
<1>15. ASSUME FirstRecord.kind = "close"
       PROVE  over /\ wire = <<>> /\ peerSent = Len(got)
  <2>0. Rec(Pending, 1) = FirstRecord /\ FirstRecord.kind # "data"
    BY <1>15, <1>3
  <2>1. over /\ Len(Pending) = n /\ Len(FirstRecord.bytes) = 0
    BY ONLY <1>15, <1>13, <2>0
  <2>a. /\ Len(Pending) = Len(raw_extra) + Len(wire) /\ Len(Pending) = n
        /\ Len(raw_extra) \in Nat /\ Len(wire) \in Nat
    BY <2>1, <1>4
  <2>2. Len(wire) = 0 /\ Len(p) = 0
    BY ONLY <2>a, <1>8, <1>n
  <2>3. wire = <<>> /\ p = <<>>
    BY <2>2, <1>7, <1>t
  <2>4. peerSent = Len(got) + Len(FirstRecord.bytes)
    BY <1>14, <2>3 DEF Layout
  <2> QED BY <2>1, <2>3, <2>4, <1>2
<1> QED BY <1>3, <1>6, <1>13, <1>14, <1>15 DEF p

LEMMA DecryptStep ==
  ASSUME TlsInv, DecryptData \/ DecryptRenegotiate
  PROVE  TlsInv' /\ InFlows
<1>t. TlsTypes
  BY DEF TlsInv
<1>d. Decrypts /\ plaintext = <<>> /\ reading = "loop"
  BY DEF DecryptData, DecryptRenegotiate, Decrypts
<1>1. /\ Extra \in Seq(Cell) /\ FirstRecord \in Records
      /\ FirstRecord.bytes = Span(Len(got), Len(FirstRecord.bytes))
      /\ FirstRecord.kind # "data" => Len(FirstRecord.bytes) = 0
      /\ \E bt : Layout(Extra \o wire, bt, Len(got) + Len(FirstRecord.bytes), peerSent, over)
  BY <1>d, DecryptTakes
<1>2. /\ UNCHANGED <<peerSent, over, link, wire, dialed, maxlen, got, told>>
      /\ raw_extra' = Extra /\ reading' # "recv" /\ dialed
  BY <1>d DEF TlsInv, DecryptData, DecryptRenegotiate, peerVars
<1>3. /\ plaintext' = FirstRecord.bytes /\ plaintext' \in Seq(Nat)
      /\ Len(plaintext') = Len(FirstRecord.bytes)
  <2>1. FirstRecord.bytes \in Seq(Nat)
    BY <1>1 DEF Records
  <2>2. CASE DecryptData
    BY <2>1, <2>2 DEF DecryptData
  <2>3. CASE DecryptRenegotiate
    <3>1. FirstRecord.kind # "data"
      BY <2>3 DEF DecryptRenegotiate
    <3>2. FirstRecord.bytes = <<>>
      BY <2>1, <3>1, <1>1
    <3> QED BY <2>1, <2>3, <3>2, <1>d DEF DecryptRenegotiate
  <2> QED BY <2>2, <2>3
<1>4. TlsTypes'
  BY <1>1, <1>2, <1>3, <1>t DEF TlsTypes
<1>5. Accounted'
  BY <1>1, <1>2, <1>3 DEF Accounted, Pending
<1>6. plaintext' = Span(Len(got'), Len(plaintext'))
  BY <1>1, <1>2, <1>3
<1>7. TlsInv'
  BY <1>2, <1>4, <1>5, <1>6 DEF TlsInv
<1>8. InFlows
  BY <1>2 DEF InFlows, Inbound!stream
<1> QED BY <1>7, <1>8

(* close_notify is the last record and everything before it is returned.   *)
LEMMA DecryptCloseStep ==
  ASSUME TlsInv, DecryptClose
  PROVE  TlsInv' /\ InFlows
<1>t. TlsTypes
  BY DEF TlsInv
<1>d. Decrypts /\ plaintext = <<>> /\ FirstRecord.kind = "close"
  BY DEF DecryptClose, Decrypts
<1>1. over /\ wire = <<>> /\ peerSent = Len(got)
  BY <1>d, DecryptTakes
<1>2. /\ UNCHANGED <<peerSent, over, link, wire, dialed, maxlen, got, plaintext>>
      /\ raw_extra' = <<>> /\ reading' = "idle" /\ told' = TRUE
  BY DEF DecryptClose, peerVars
<1>3. TlsTypes'
  BY <1>2, <1>t DEF TlsTypes
<1>4. Accounted'
  <2>1. Pending' = <<>> /\ Len(got') + Len(plaintext') = peerSent'
    BY <1>1, <1>2, <1>d, <1>t DEF Pending, TlsTypes
  <2>2. Layout(<<>>, [i \in 1 .. 0 |-> 0], peerSent', peerSent', over')
    BY DEF Layout
  <2> QED BY <2>1, <2>2 DEF Accounted
<1>5. TlsInv'
  BY <1>1, <1>2, <1>3, <1>4 DEF TlsInv
<1>6. Inbound!End
  BY <1>1, <1>2 DEF Inbound!End
<1> QED BY <1>5, <1>6 DEF InFlows, Inbound!Next

LEMMA ReadReturnsStep ==
  ASSUME TlsInv, ReadReturns
  PROVE  TlsInv' /\ InFlows
<1>t. TlsTypes /\ Len(got) \in Nat /\ Len(plaintext) \in Nat /\ maxlen \in Nat
  BY DEF TlsInv, TlsTypes
<1> DEFINE n == Min({maxlen, Len(plaintext)})
           g == Len(got)
           l == Len(plaintext)
<1>1. /\ got' = got \o SubSeq(plaintext, 1, n)
      /\ plaintext' = SubSeq(plaintext, n + 1, Len(plaintext))
      /\ UNCHANGED <<peerSent, over, link, wire, dialed, raw_extra, maxlen, told>>
      /\ reading' = "idle" /\ reading = "loop"
  BY DEF ReadReturns, peerVars
<1>2. n \in 0 .. l
  BY <1>t, MinOfTwo
<1> HIDE DEF n
<1>3. plaintext = Span(g, l)
  BY DEF TlsInv
<1>4. SubSeq(plaintext, 1, n) = Span(g, n) /\ plaintext' = Span(g + n, l - n)
  <2>1. g \in Nat /\ l \in Nat /\ plaintext' = SubSeq(plaintext, n + 1, l)
    BY <1>1, <1>t
  <2> HIDE DEF g, l
  <2>2. SubSeq(Span(g, l), 1, n) = Span(g, n) /\ SubSeq(Span(g, l), n + 1, l) = Span(g + n, l - n)
    BY ONLY <2>1, <1>2, SpanSub
  <2> QED BY ONLY <2>1, <2>2, <1>3
<1>5. /\ got' = got \o Span(g, n) /\ Span(g, n) \in Seq(Nat) /\ Len(Span(g, n)) = n
      /\ plaintext' \in Seq(Nat) /\ Len(plaintext') = l - n
  <2>1. n \in Nat /\ g + n \in Nat /\ l - n \in Nat
    BY <1>2, <1>t
  <2> HIDE DEF g, l
  <2>2. /\ Span(g, n) \in Seq(Nat) /\ Len(Span(g, n)) = n
        /\ Span(g + n, l - n) \in Seq(Nat) /\ Len(Span(g + n, l - n)) = l - n
    <3>1. g \in Nat
      BY <1>t DEF g
    <3> QED BY ONLY <2>1, <3>1, SpanSeq
  <2> QED BY <2>2, <1>1, <1>4
<1>6. got' \in Seq(Nat) /\ Len(got') = g + n
  BY <1>5, <1>t, Join DEF TlsTypes
<1>7. Len(got') + Len(plaintext') = g + l
  BY <1>2, <1>5, <1>6, <1>t
<1>8. TlsTypes'
  BY <1>1, <1>5, <1>6, <1>t DEF TlsTypes
<1>9. Accounted'
  BY <1>1, <1>7 DEF TlsInv, Accounted, Pending
<1>10. plaintext' = Span(Len(got'), Len(plaintext'))
  BY <1>4, <1>5, <1>6
<1>11. TlsInv'
  BY <1>1, <1>8, <1>9, <1>10 DEF TlsInv
<1>12. n \in 0 .. peerSent - g
  <2>1. PICK at : Layout(Pending, at, g + l, peerSent, over)
    BY DEF TlsInv, Accounted
  <2>2. g + l <= peerSent
    <3>0. Pending \in Seq(Cell) /\ peerSent \in Nat
      BY <1>t, PendingSeq DEF TlsTypes
    <3>1. CASE Pending = <<>>
      <4>1. peerSent = g + l
        BY <2>1, <3>1 DEF Layout
      <4> QED BY <4>1, <1>t, <3>0
    <3>2. CASE Pending # <<>>
      <4>1. 1 \in 1 .. Len(Pending)
        BY <3>0, <3>2
      <4> QED BY <2>1, <3>2, <4>1 DEF Layout, Laid
    <3> QED BY <3>1, <3>2
  <2>3. peerSent \in Nat
    BY <1>t DEF TlsTypes
  <2> QED BY <2>2, <2>3, <1>2, <1>t
<1>13. Inbound!Receive
  <2>1. got' = got \o Inbound!After(Len(got), n)
    BY <1>5 DEF Inbound!After, Span
  <2> QED BY <2>1, <1>1, <1>12 DEF Inbound!Receive
<1> QED BY <1>11, <1>13 DEF InFlows, Inbound!Next

LEMMA TlsStep == ASSUME TlsInv, [TlsNext]_tlsVars PROVE TlsInv' /\ InFlows
<1>1. ASSUME NEW n \in Lengths, PeerSend("data", n) PROVE TlsInv' /\ InFlows
  <2>1. n \in Nat /\ "data" \in Kinds
    BY TlsAssumption DEF Kinds
  <2> QED BY <1>1, <2>1, PeerSendStep
<1>2. ASSUME NEW kind \in {"close", "renegotiate", "alert"}, PeerSend(kind, 0)
      PROVE  TlsInv' /\ InFlows
  <2>1. kind \in Kinds /\ kind # "data" /\ 0 \in Nat
    BY DEF Kinds
  <2> QED BY <1>2, <2>1, PeerSendStep
<1>3. CASE \/ \E k \in 0 .. Header : PeerFin(k)
           \/ PeerReset \/ \E k \in 0 .. Len(wire) : TlsDial(k)
  BY <1>3, PeerFinStep, PeerResetStep, TlsDialStep
<1>4. CASE ReadStep \/ \E m \in Lengths : TlsIoRead(m)
  BY <1>4, TurnStep, RecvFailsStep, RecvMoreStep, DecryptStep, DecryptCloseStep,
     ReadReturnsStep DEF ReadStep, RecvReturns
<1>5. CASE \/ \E n \in Lengths : TlsIoWrite(n)
           \/ EncryptMessage \/ (\E k \in 1 .. Len(unsent) : SendSome(k))
           \/ WriteFails \/ UNCHANGED tlsVars
  <2>1. UNCHANGED <<peerVars, wire, dialed, readVars>>
    BY <1>5 DEF TlsIoWrite, EncryptMessage, SendSome, WriteFails, tlsVars
  <2> QED BY <2>1, Aside
<1> QED BY <1>1, <1>2, <1>3, <1>4, <1>5 DEF TlsNext

(* The reading side of a TLS session is a byte stream, for records of any  *)
(* size, however recv cuts them up, wherever the handshake left off, for   *)
(* every maxlen and with TlsIoWrite going on beside it: what TlsIoRead     *)
(* returns is the plaintext of the peer's records, each byte once and in   *)
(* order, and its end comes after the last byte unless the connection is   *)
(* reset (tls_win.cc TlsIoRead, raw_extra, plaintext).                     *)
THEOREM TlsStream == TlsInit /\ [][TlsNext]_tlsVars => TlsIsStream
<1>1. TlsInit => TlsInv /\ Inbound!Init
  <2> SUFFICES ASSUME TlsInit PROVE TlsInv /\ Inbound!Init
    OBVIOUS
  <2>0. \A S : <<>> \in Seq(S)
    OBVIOUS
  <2>e. peerSent = 0 /\ maxlen = 0 /\ over \in BOOLEAN /\ told \in BOOLEAN
    BY DEF TlsInit
  <2>q. raw_extra = <<>> /\ wire = <<>> /\ got = <<>> /\ plaintext = <<>>
    BY DEF TlsInit
  <2>1. TlsTypes
    BY <2>0, <2>e, <2>q DEF TlsTypes
  <2>2. Pending = <<>> /\ Len(got) + Len(plaintext) = peerSent
    BY DEF TlsInit, Pending
  <2>3. Layout(<<>>, [i \in 1 .. 0 |-> 0], peerSent, peerSent, over)
    BY DEF Layout
  <2>4. Accounted
    BY <2>2, <2>3 DEF Accounted
  <2>5. plaintext = Span(Len(got), Len(plaintext))
    BY DEF TlsInit, Span
  <2>6. TlsInv
    BY <2>1, <2>4, <2>5 DEF TlsInv, TlsInit
  <2> QED BY <2>6 DEF TlsInit, Inbound!Init
<1>2. TlsInv /\ [TlsNext]_tlsVars => TlsInv' /\ [Inbound!Next]_(Inbound!stream)
  BY TlsStep DEF InFlows
<1> QED BY <1>1, <1>2, PTL DEF TlsIsStream, Inbound!Spec

-----------------------------------------------------------------------------
(* Flattening.  FlattenSeq is a recursive function over the places of its  *)
(* argument: that there is one, and that it is determined by the places up *)
(* to where it is looked at, takes an induction over these places.         *)

LEMMA Least ==
  ASSUME NEW T \in SUBSET Nat, T # {}
  PROVE  \E x \in T : \A y \in T : x <= y
<1>1. IsWellFoundedOn(OpToRel(<, Nat), Nat)
  BY NatLessThanWellFounded
<1>2. PICK x \in T : \A y \in T : ~(<<y, x>> \in OpToRel(<, Nat))
  BY <1>1, WFMin
<1>3. \A y \in T : ~(y < x)
  BY <1>2 DEF OpToRel
<1> QED BY <1>3

LEMMA Induct ==
  ASSUME NEW T, 0 \in T, \A n \in Nat : n \in T => n + 1 \in T
  PROVE  Nat \subseteq T
<1> SUFFICES ASSUME ~(Nat \subseteq T) PROVE FALSE
  OBVIOUS
<1> DEFINE U == Nat \ T
<1>1. U \in SUBSET Nat /\ U # {}
  OBVIOUS
<1>2. PICK x \in U : \A y \in U : x <= y
  BY <1>1, Least
<1>3. x # 0 /\ x \in Nat /\ x \notin T
  OBVIOUS
<1>4. x - 1 \in Nat /\ x - 1 \notin U
  BY <1>2, <1>3
<1> QED BY <1>3, <1>4

(* f is the table of the fronts of s, flattened, up to the n-th.           *)
Tabled(s, n, f) ==
    f = [i \in 1 .. n |-> IF i = 1 THEN s[i] ELSE f[i - 1] \o s[i]]

LEMMA TableExists == ASSUME NEW s, NEW m \in Nat PROVE \E f : Tabled(s, m, f)
<1> DEFINE T == {n \in Nat : \E f : Tabled(s, n, f)}
<1>1. 0 \in T
  <2> DEFINE f == [i \in 1 .. 0 |-> 0]
  <2>1. f = [i \in 1 .. 0 |-> IF i = 1 THEN s[i] ELSE f[i - 1] \o s[i]]
    OBVIOUS
  <2> HIDE DEF f
  <2>2. Tabled(s, 0, f)
    BY <2>1, Zenon DEF Tabled
  <2> QED BY <2>2
<1>2. ASSUME NEW n \in Nat, n \in T PROVE n + 1 \in T
  <2>1. PICK f : Tabled(s, n, f)
    BY <1>2
  <2> DEFINE last == IF n + 1 = 1 THEN s[n + 1] ELSE f[n] \o s[n + 1]
             g == [i \in 1 .. n + 1 |-> IF i <= n THEN f[i] ELSE last]
             h == [i \in 1 .. n + 1 |-> IF i = 1 THEN s[i] ELSE g[i - 1] \o s[i]]
  <2>2. \A i \in 1 .. n : f[i] = IF i = 1 THEN s[i] ELSE f[i - 1] \o s[i]
    BY <2>1 DEF Tabled
  <2>3. ASSUME NEW i \in 1 .. n + 1
        PROVE  g[i] = IF i = 1 THEN s[i] ELSE g[i - 1] \o s[i]
    <3>0. \A j \in 1 .. n : g[j] = f[j]
      OBVIOUS
    <3>1. CASE i <= n
      <4>1. i \in 1 .. n /\ g[i] = f[i] /\ (i # 1 => i - 1 \in 1 .. n)
        BY <3>1
      <4>2. i # 1 => g[i - 1] = f[i - 1]
        BY <4>1, <3>0
      <4> QED BY <2>2, <4>1, <4>2
    <3>2. CASE ~(i <= n)
      <4>1. i = n + 1 /\ g[i] = last /\ i - 1 = n /\ (i # 1 => n \in 1 .. n)
        BY <3>2
      <4> HIDE DEF g
      <4> QED BY <3>0, <4>1
    <3> QED BY <3>1, <3>2
  <2>4. g = h
    <3>1. DOMAIN g = 1 .. n + 1 /\ DOMAIN h = 1 .. n + 1
      OBVIOUS
    <3>2. \A i \in 1 .. n + 1 : g[i] = h[i]
      BY <2>3
    <3>3. g = [i \in DOMAIN g |-> g[i]] /\ h = [i \in DOMAIN h |-> h[i]]
      OBVIOUS
    <3> HIDE DEF g, h
    <3> QED BY <3>1, <3>2, <3>3
  <2>5. Tabled(s, n + 1, g)
    <3> HIDE DEF g
    <3> QED BY <2>4 DEF Tabled, h
  <2> QED BY <2>5
<1>3. Nat \subseteq T
  <2> HIDE DEF T
  <2> QED BY <1>1, <1>2, Induct
<1> QED BY <1>3

LEMMA TableAt ==
  ASSUME NEW s, NEW m \in Nat, NEW f, Tabled(s, m, f)
  PROVE  \A i \in 1 .. m : f[i] = IF i = 1 THEN s[i] ELSE f[i - 1] \o s[i]
BY DEF Tabled

(* Two sequences with a front of length k in common, and their tables.     *)
Common(s, t, m, k, f, g) ==
    /\ m \in Nat /\ k \in Nat /\ k <= m
    /\ Tabled(s, m, f) /\ Tabled(t, k, g)
    /\ \A i \in 1 .. k : s[i] = t[i]

LEMMA TablesAgree ==
  ASSUME NEW s, NEW t, NEW m, NEW k, NEW f, NEW g, Common(s, t, m, k, f, g)
  PROVE  \A i \in 1 .. k : f[i] = g[i]
<1> DEFINE T == {j \in Nat : j \in 1 .. k => f[j] = g[j]}
<1>0. /\ \A i \in 1 .. m : f[i] = IF i = 1 THEN s[i] ELSE f[i - 1] \o s[i]
      /\ \A i \in 1 .. k : g[i] = IF i = 1 THEN t[i] ELSE g[i - 1] \o t[i]
  BY TableAt DEF Common
<1>c. m \in Nat /\ k \in Nat /\ k <= m /\ \A i \in 1 .. k : s[i] = t[i]
  BY DEF Common
<1>1. 0 \in T
  OBVIOUS
<1>2. ASSUME NEW j \in Nat, j \in T PROVE j + 1 \in T
  <2> SUFFICES ASSUME j + 1 \in 1 .. k PROVE f[j + 1] = g[j + 1]
    OBVIOUS
  <2>1. j + 1 \in 1 .. m /\ s[j + 1] = t[j + 1] /\ (j + 1) - 1 = j
    BY <1>c
  <2>2. j + 1 # 1 => f[j] = g[j]
    BY <1>2, <1>c
  <2> QED BY <1>0, <1>c, <2>1, <2>2
<1>3. Nat \subseteq T
  <2> HIDE DEF T
  <2> QED BY <1>1, <1>2, Induct
<1> QED BY <1>3

LEMMA FlattenAt ==
  ASSUME NEW s, Len(s) \in Nat, Len(s) # 0
  PROVE  \E f : Tabled(s, Len(s), f) /\ FlattenSeq(s) = f[Len(s)]
<1> DEFINE f == CHOOSE g : Tabled(s, Len(s), g)
<1>1. Tabled(s, Len(s), f)
  BY TableExists
<1>2. FlattenSeq(s) = f[Len(s)]
  BY Zenon DEF FlattenSeq, Tabled
<1> QED BY <1>1, <1>2

(* One more sequence at the end.                                           *)
LEMMA FlattenStep ==
  ASSUME NEW S, NEW s \in Seq(Seq(S)), NEW t \in Seq(Seq(S)), Len(s) = Len(t) + 1,
         \A i \in 1 .. Len(t) : s[i] = t[i]
  PROVE  FlattenSeq(s) = FlattenSeq(t) \o s[Len(s)]
<1> DEFINE n == Len(t)
<1>0. n \in Nat /\ Len(s) = n + 1 /\ s[n + 1] \in Seq(S)
  OBVIOUS
<1>1. PICK f : Tabled(s, n + 1, f) /\ FlattenSeq(s) = f[n + 1]
  BY <1>0, FlattenAt
<1>2. f[n + 1] = IF n + 1 = 1 THEN s[n + 1] ELSE f[n] \o s[n + 1]
  <2>1. n + 1 \in 1 .. n + 1 /\ (n + 1) - 1 = n /\ n + 1 \in Nat
    BY <1>0
  <2>2. f[n + 1] = IF n + 1 = 1 THEN s[n + 1] ELSE f[(n + 1) - 1] \o s[n + 1]
    BY <1>1, <2>1, TableAt
  <2> QED BY <2>1, <2>2
<1>3. CASE n = 0
  <2>1. t = <<>>
    BY <1>3
  <2>2. FlattenSeq(t) = <<>>
    BY <2>1 DEF FlattenSeq
  <2>3. <<>> \o s[n + 1] = s[n + 1]
    BY <1>0
  <2> QED BY <1>0, <1>1, <1>2, <1>3, <2>2, <2>3
<1>4. CASE n # 0
  <2>1. PICK g : Tabled(t, n, g) /\ FlattenSeq(t) = g[n]
    BY <1>0, <1>4, FlattenAt
  <2>2. f[n] = g[n]
    <3> DEFINE m == n + 1
    <3>1. m \in Nat /\ n <= m /\ n \in Nat /\ n \in 1 .. n
      BY <1>0, <1>4
    <3>2. (\A i \in 1 .. n : s[i] = t[i]) /\ Tabled(s, m, f) /\ Tabled(t, n, g)
      BY <1>1, <2>1
    <3> HIDE DEF n, m
    <3>3. \A i \in 1 .. n : f[i] = g[i]
      <4>1. Common(s, t, m, n, f, g)
        BY <3>1, <3>2 DEF Common
      <4> QED BY <4>1, TablesAgree
    <3> QED BY <3>1, <3>3
  <2>3. n + 1 # 1
    BY <1>0, <1>4
  <2> QED BY <1>0, <1>1, <1>2, <2>1, <2>2, <2>3
<1> QED BY <1>3, <1>4

LEMMA FlattenNone == FlattenSeq(<<>>) = <<>>
BY DEF FlattenSeq

-----------------------------------------------------------------------------
(* The writing side of a TLS session.                                      *)

LEMMA NoneAtEnd == ASSUME NEW S, NEW s \in Seq(S) PROVE s \o <<>> = s
OBVIOUS

(* The cells and the plaintext of the records sealed so far.               *)
CellsOf(q) == [i \in 1 .. Len(q) |-> Cells(q[i])]
BytesOf(q) == [i \in 1 .. Len(q) |-> q[i].bytes]

LEMMA SealedSeqs ==
  ASSUME NEW q \in Seq(Records)
  PROVE  /\ CellsOf(q) \in Seq(Seq(Cell)) /\ Len(CellsOf(q)) = Len(q)
         /\ \A i \in 1 .. Len(q) : CellsOf(q)[i] = Cells(q[i])
         /\ BytesOf(q) \in Seq(Seq(Nat)) /\ Len(BytesOf(q)) = Len(q)
         /\ \A i \in 1 .. Len(q) : BytesOf(q)[i] = q[i].bytes
<1>1. \A i \in 1 .. Len(q) : q[i] \in Records
  OBVIOUS
<1>2. \A i \in 1 .. Len(q) : Cells(q[i]) \in Seq(Cell)
  BY <1>1, CellsSeq
<1>3. \A i \in 1 .. Len(q) : q[i].bytes \in Seq(Nat)
  BY <1>1 DEF Records
<1>4. CellsOf(q) \in [1 .. Len(q) -> Seq(Cell)]
  BY <1>2 DEF CellsOf
<1>5. BytesOf(q) \in [1 .. Len(q) -> Seq(Nat)]
  BY <1>3 DEF BytesOf
<1>6. Len(q) \in Nat
  OBVIOUS
<1>7. CellsOf(q) \in Seq(Seq(Cell)) /\ Len(CellsOf(q)) = Len(q)
  BY <1>4, <1>6
<1>8. BytesOf(q) \in Seq(Seq(Nat)) /\ Len(BytesOf(q)) = Len(q)
  BY <1>5, <1>6
<1> QED BY <1>7, <1>8 DEF CellsOf, BytesOf

(* One more record.                                                        *)
LEMMA SealOne ==
  ASSUME NEW q \in Seq(Records), NEW rec \in Records
  PROVE  /\ Append(q, rec) \in Seq(Records)
         /\ FlattenSeq(CellsOf(Append(q, rec))) = FlattenSeq(CellsOf(q)) \o Cells(rec)
         /\ FlattenSeq(BytesOf(Append(q, rec))) = FlattenSeq(BytesOf(q)) \o rec.bytes
<1> DEFINE p == Append(q, rec)  n == Len(q)
<1>1. /\ p \in Seq(Records) /\ Len(p) = n + 1 /\ n \in Nat
      /\ (\A i \in 1 .. n : p[i] = q[i]) /\ p[n + 1] = rec
  OBVIOUS
<1> HIDE DEF p
<1> DEFINE cp == CellsOf(p)  cq == CellsOf(q)  bp == BytesOf(p)  bq == BytesOf(q)
<1>2. /\ cp \in Seq(Seq(Cell)) /\ Len(cp) = n + 1 /\ \A i \in 1 .. n + 1 : cp[i] = Cells(p[i])
      /\ bp \in Seq(Seq(Nat)) /\ Len(bp) = n + 1 /\ \A i \in 1 .. n + 1 : bp[i] = p[i].bytes
  BY <1>1, SealedSeqs
<1>3. /\ cq \in Seq(Seq(Cell)) /\ Len(cq) = n /\ \A i \in 1 .. n : cq[i] = Cells(q[i])
      /\ bq \in Seq(Seq(Nat)) /\ Len(bq) = n /\ \A i \in 1 .. n : bq[i] = q[i].bytes
  BY SealedSeqs
<1> HIDE DEF cp, cq, bp, bq, n
<1>4. /\ \A i \in 1 .. Len(cq) : cp[i] = cq[i]
      /\ \A i \in 1 .. Len(bq) : bp[i] = bq[i]
  <2>1. ASSUME NEW i \in 1 .. n PROVE cp[i] = cq[i] /\ bp[i] = bq[i]
    <3>1. i \in 1 .. n + 1 /\ p[i] = q[i]
      BY <1>1
    <3>2. cp[i] = Cells(p[i]) /\ cq[i] = Cells(q[i]) /\ bp[i] = p[i].bytes /\ bq[i] = q[i].bytes
      BY <1>2, <1>3, <3>1
    <3> QED BY <3>1, <3>2, Zenon
  <2> QED BY <1>3, <2>1
<1>5. cp[Len(cp)] = Cells(rec) /\ bp[Len(bp)] = rec.bytes
  BY <1>1, <1>2
<1>6. FlattenSeq(cp) = FlattenSeq(cq) \o cp[Len(cp)]
  BY <1>2, <1>3, <1>4, FlattenStep
<1>7. FlattenSeq(bp) = FlattenSeq(bq) \o bp[Len(bp)]
  BY <1>2, <1>3, <1>4, FlattenStep
<1>8. FlattenSeq(cp) = FlattenSeq(cq) \o Cells(rec) /\ FlattenSeq(bp) = FlattenSeq(bq) \o rec.bytes
  BY <1>5, <1>6, <1>7, Zenon
<1>9. /\ FlattenSeq(CellsOf(p)) = FlattenSeq(CellsOf(q)) \o Cells(rec)
      /\ FlattenSeq(BytesOf(p)) = FlattenSeq(BytesOf(q)) \o rec.bytes
  BY <1>8, Zenon DEF cp, cq, bp, bq
<1> QED BY <1>1, <1>9, Zenon DEF p

WriteTypes ==
    /\ sealed \in Seq(Records) /\ written \in Nat
    /\ data \in Seq(Nat) /\ unsent \in Seq(Cell) /\ outWire \in Seq(Cell)

(* Until a call fails: what send took and what it still has to take are    *)
(* the records in the order they were sealed, and their plaintext is all   *)
(* that was passed to TlsIoWrite but for the data that is not sealed yet.  *)
OnTheWire(out, rest, q) == out \o rest = FlattenSeq(CellsOf(q))
InRecords(q, n) == FlattenSeq(BytesOf(q)) = Span(0, n)
ToSeal(d, n, m) == n + Len(d) = m /\ d = Span(n, Len(d))

WritesKept ==
    /\ OnTheWire(outWire, unsent, sealed)
    /\ \E n \in Nat : InRecords(sealed, n) /\ ToSeal(data, n, written)

WriteInv == WriteTypes /\ (~lost => WritesKept)

LEMMA WriteInitInv == TlsInit => WriteInv
<1> SUFFICES ASSUME TlsInit PROVE WriteInv
  OBVIOUS
<1>0. \A S : <<>> \in Seq(S)
  OBVIOUS
<1>1. sealed = <<>> /\ written = 0 /\ data = <<>> /\ unsent = <<>> /\ outWire = <<>>
  BY DEF TlsInit
<1>2. WriteTypes
  BY <1>0, <1>1 DEF WriteTypes
<1>3. CellsOf(<<>>) = <<>> /\ BytesOf(<<>>) = <<>>
  BY DEF CellsOf, BytesOf
<1>4. FlattenSeq(CellsOf(<<>>)) = <<>> /\ FlattenSeq(BytesOf(<<>>)) = <<>>
  BY <1>3, FlattenNone
<1>5. <<>> \o <<>> = <<>> /\ Span(0, 0) = <<>> /\ Len(<<>>) = 0
  BY DEF Span
<1>6. OnTheWire(outWire, unsent, sealed)
  BY <1>1, <1>4, <1>5 DEF OnTheWire
<1>7. InRecords(sealed, 0) /\ ToSeal(data, 0, written)
  BY <1>1, <1>4, <1>5 DEF InRecords, ToSeal
<1>8. WritesKept
  BY <1>6, <1>7 DEF WritesKept
<1> QED BY <1>2, <1>8, Zenon DEF WriteInv

LEMMA WriteRests ==
  ASSUME WriteInv, UNCHANGED writeVars
  PROVE  WriteInv'
<1>1. /\ sealed' = sealed /\ written' = written /\ data' = data /\ unsent' = unsent
      /\ outWire' = outWire /\ lost' = lost
  BY DEF writeVars
<1>2. WriteTypes' /\ (WritesKept => WritesKept')
  BY <1>1 DEF WriteInv, WriteTypes, WritesKept
<1> QED BY <1>1, <1>2, Zenon DEF WriteInv

LEMMA TlsIoWriteStep ==
  ASSUME WriteInv, NEW k \in Lengths, TlsIoWrite(k)
  PROVE  WriteInv'
<1>1. /\ data = <<>> /\ unsent' = unsent /\ sealed' = sealed /\ outWire' = outWire /\ lost' = lost
      /\ written' = written + k
  BY DEF TlsIoWrite
<1>2. data' = Span(written, k)
  BY DEF TlsIoWrite, Bytes, Span
<1>3. WriteTypes /\ k \in Nat
  BY TlsAssumption DEF WriteInv
<1>4. data' \in Seq(Nat) /\ Len(data') = k
  BY <1>2, <1>3, SpanSeq DEF WriteTypes
<1>5. WriteTypes'
  BY <1>1, <1>3, <1>4 DEF WriteTypes
<1>6. ASSUME WritesKept PROVE WritesKept'
  <2>1. PICK n \in Nat : InRecords(sealed, n) /\ ToSeal(data, n, written)
    BY <1>6 DEF WritesKept
  <2>2. n = written
    BY <1>1, <1>3, <2>1 DEF ToSeal, WriteTypes
  <2>3. ToSeal(data', n, written')
    BY <1>1, <1>2, <1>4, <2>2 DEF ToSeal
  <2>4. OnTheWire(outWire', unsent', sealed') /\ InRecords(sealed', n)
    BY <1>1, <1>6, <2>1 DEF WritesKept
  <2> QED BY <2>3, <2>4 DEF WritesKept
<1> QED BY <1>1, <1>5, <1>6, Zenon DEF WriteInv

LEMMA EncryptMessageStep ==
  ASSUME WriteInv, EncryptMessage
  PROVE  WriteInv'
<1> DEFINE n == Min({MaxMessage, Len(data)})
           rec == [kind |-> "data", bytes |-> SubSeq(data, 1, n)]
<1>1. /\ unsent = <<>> /\ sealed' = Append(sealed, rec) /\ unsent' = Cells(rec)
      /\ data' = SubSeq(data, n + 1, Len(data))
      /\ written' = written /\ outWire' = outWire /\ lost' = lost
  BY DEF EncryptMessage
<1>2. WriteTypes
  BY DEF WriteInv
<1>3. n \in 0 .. Len(data) /\ Len(data) \in Nat
  <2>1. MaxMessage \in Nat /\ Len(data) \in Nat
    BY <1>2, TlsAssumption DEF WriteTypes
  <2> QED BY <2>1, MinOfTwo
<1> DEFINE front == SubSeq(data, 1, n)
<1>4. front \in Seq(Nat) /\ data' \in Seq(Nat)
  <2> HIDE DEF n
  <2> QED BY <1>1, <1>2, <1>3, Cut DEF WriteTypes
<1>5. rec \in Records /\ rec.bytes = front
  <2> HIDE DEF front
  <2>1. [kind |-> "data", bytes |-> front] \in Records
    BY <1>4 DEF Records, Kinds
  <2> QED BY <2>1 DEF front
<1> HIDE DEF rec, front
<1>6. Cells(rec) \in Seq(Cell)
  BY <1>5, CellsSeq
<1>7. /\ sealed' \in Seq(Records)
      /\ FlattenSeq(CellsOf(sealed')) = FlattenSeq(CellsOf(sealed)) \o Cells(rec)
      /\ FlattenSeq(BytesOf(sealed')) = FlattenSeq(BytesOf(sealed)) \o rec.bytes
  <2>1. sealed \in Seq(Records)
    BY <1>2 DEF WriteTypes
  <2>2. /\ Append(sealed, rec) \in Seq(Records)
        /\ FlattenSeq(CellsOf(Append(sealed, rec))) = FlattenSeq(CellsOf(sealed)) \o Cells(rec)
        /\ FlattenSeq(BytesOf(Append(sealed, rec))) = FlattenSeq(BytesOf(sealed)) \o rec.bytes
    BY <1>5, <2>1, SealOne
  <2>3. sealed' = Append(sealed, rec)
    BY <1>1
  <2> QED BY <2>2, <2>3, Zenon
<1>8. WriteTypes'
  BY <1>1, <1>2, <1>4, <1>6, <1>7 DEF WriteTypes
<1>9. ASSUME WritesKept PROVE WritesKept'
  <2>1. PICK m \in Nat : InRecords(sealed, m) /\ ToSeal(data, m, written)
    BY <1>9 DEF WritesKept
  <2>2. outWire = FlattenSeq(CellsOf(sealed))
    <3>1. outWire \o <<>> = FlattenSeq(CellsOf(sealed))
      BY <1>1, <1>9, Zenon DEF WritesKept, OnTheWire
    <3>2. outWire \o <<>> = outWire
      BY <1>2, NoneAtEnd DEF WriteTypes
    <3> QED BY <3>1, <3>2, Zenon
  <2>3. OnTheWire(outWire', unsent', sealed')
    <3>1. outWire' = outWire /\ unsent' = Cells(rec)
      BY <1>1
    <3> QED BY <1>7, <2>2, <3>1, Zenon DEF OnTheWire
  <2> DEFINE L == Len(data)
  <2>4. /\ L \in Nat /\ n \in 0 .. L /\ m + L = written /\ data = Span(m, L)
        /\ FlattenSeq(BytesOf(sealed)) = Span(0, m)
    BY <1>3, <2>1 DEF ToSeal, InRecords
  <2> HIDE DEF L, n
  <2>5. SubSeq(Span(m, L), 1, n) = Span(m, n) /\ SubSeq(Span(m, L), n + 1, L) = Span(m + n, L - n)
    BY <2>4, SpanSub
  <2>6. rec.bytes = Span(m, n)
    <3>1. rec.bytes = SubSeq(Span(m, L), 1, n)
      BY <1>5, <2>4 DEF front
    <3> QED BY <2>5, <3>1, Zenon
  <2>7. data' = Span(m + n, L - n)
    <3>1. data' = SubSeq(Span(m, L), n + 1, L)
      BY <1>1, <2>4 DEF L
    <3> QED BY <2>5, <3>1, Zenon
  <2>8. m + n \in Nat /\ L - n \in Nat /\ n \in Nat /\ (m + n) + (L - n) = written
    BY <1>2, <2>4 DEF WriteTypes
  <2>9. InRecords(sealed', m + n)
    <3>1. Span(0, m) \o Span(m, n) = Span(0, m + n)
      BY <2>8, SpanConcat
    <3>2. FlattenSeq(BytesOf(sealed')) = Span(0, m) \o Span(m, n)
      BY <1>7, <2>4, <2>6, Zenon
    <3> QED BY <3>1, <3>2, Zenon DEF InRecords
  <2>10. Len(data') = L - n
    <3>1. Len(Span(m + n, L - n)) = L - n
      BY <2>8, SpanSeq
    <3> QED BY <2>7, <3>1
  <2>11. ToSeal(data', m + n, written')
    <3>1. written' = written
      BY <1>1
    <3> QED BY <2>7, <2>8, <2>10, <3>1 DEF ToSeal
  <2>12. \E j \in Nat : InRecords(sealed', j) /\ ToSeal(data', j, written')
    BY <2>8, <2>9, <2>11
  <2> QED BY <2>3, <2>12 DEF WritesKept
<1> QED BY <1>1, <1>8, <1>9, Zenon DEF WriteInv

LEMMA SendSomeStep ==
  ASSUME WriteInv, NEW k \in 1 .. Len(unsent), SendSome(k)
  PROVE  WriteInv'
<1> DEFINE front == SubSeq(unsent, 1, k)  rest == SubSeq(unsent, k + 1, Len(unsent))
<1>1. /\ outWire' = outWire \o front /\ unsent' = rest
      /\ sealed' = sealed /\ written' = written /\ data' = data /\ lost' = lost
  BY DEF SendSome, Unsent
<1>2. outWire \in Seq(Cell) /\ unsent \in Seq(Cell) /\ WriteTypes
  BY DEF WriteInv, WriteTypes
<1>3. front \in Seq(Cell) /\ rest \in Seq(Cell) /\ front \o rest = unsent
  <2>1. k \in 0 .. Len(unsent)
    BY <1>2
  <2> QED BY <1>2, <2>1, Cut
<1> HIDE DEF front, rest
<1>4. (outWire \o front) \o rest = outWire \o (front \o rest)
  <2> DEFINE o == outWire
  <2>1. o \in Seq(Cell) /\ front \in Seq(Cell) /\ rest \in Seq(Cell)
    BY <1>2, <1>3
  <2> HIDE DEF o
  <2>2. (o \o front) \o rest = o \o (front \o rest)
    BY <2>1, RegroupCells, Zenon
  <2> QED BY <2>2, Zenon DEF o
<1>5. outWire \o front \in Seq(Cell)
  BY <1>2, <1>3, Join
<1>6. WriteTypes'
  BY <1>1, <1>2, <1>3, <1>5 DEF WriteTypes
<1>7. ASSUME WritesKept PROVE WritesKept'
  <2>1. outWire \o unsent = FlattenSeq(CellsOf(sealed))
    BY <1>7, Zenon DEF WritesKept, OnTheWire
  <2>2. outWire' \o unsent' = FlattenSeq(CellsOf(sealed'))
    BY <1>1, <1>3, <1>4, <2>1, Zenon
  <2>3. OnTheWire(outWire', unsent', sealed')
    BY <2>2, Zenon DEF OnTheWire
  <2>4. \E n \in Nat : InRecords(sealed', n) /\ ToSeal(data', n, written')
    BY <1>1, <1>7 DEF WritesKept
  <2> QED BY <2>3, <2>4 DEF WritesKept
<1> QED BY <1>1, <1>6, <1>7, Zenon DEF WriteInv

LEMMA WriteFailsStep == ASSUME WriteInv, WriteFails PROVE WriteInv'
<1>1. /\ data' = <<>> /\ unsent' = <<>> /\ sealed' = sealed /\ written' = written
      /\ outWire' = outWire
  BY DEF WriteFails
<1>2. lost' = TRUE
  BY Zenon DEF WriteFails
<1>3. <<>> \in Seq(Nat) /\ <<>> \in Seq(Cell)
  OBVIOUS
<1>4. WriteTypes'
  BY <1>1, <1>3 DEF WriteInv, WriteTypes
<1> QED BY <1>2, <1>4, Zenon DEF WriteInv

LEMMA WriteSideStep == ASSUME WriteInv, [TlsNext]_tlsVars PROVE WriteInv'
<1>1. CASE \/ \E n \in Lengths : PeerSend("data", n)
           \/ \E kind \in {"close", "renegotiate", "alert"} : PeerSend(kind, 0)
           \/ \E k \in 0 .. Header : PeerFin(k)
           \/ PeerReset
           \/ \E k \in 0 .. Len(wire) : TlsDial(k)
           \/ \E m \in Lengths : TlsIoRead(m)
           \/ ReadStep
           \/ UNCHANGED tlsVars
  <2>1. UNCHANGED writeVars
    BY <1>1 DEF PeerSend, PeerFin, PeerReset, TlsDial, TlsIoRead, ReadStep, WaitMore,
       RecvReturns, RecvFails, RecvMore, DecryptData, DecryptClose, DecryptRenegotiate,
       DecryptFails, ReadReturns, tlsVars
  <2> QED BY <2>1, WriteRests
<1>2. CASE \/ \E n \in Lengths : TlsIoWrite(n)
           \/ EncryptMessage
           \/ \E k \in 1 .. Len(unsent) : SendSome(k)
           \/ WriteFails
  BY <1>2, TlsIoWriteStep, EncryptMessageStep, SendSomeStep, WriteFailsStep
<1> QED BY <1>1, <1>2 DEF TlsNext

(* The last of the records counts as whole once all of them are out.       *)
LEMMA WholeAtRest == ASSUME WriteInv PROVE WrittenIsWhole
<1> DEFINE Whole(j) == FlattenSeq([i \in 1 .. j |-> Cells(sealed[i])])
           Fronts == {j \in 0 .. Len(sealed) : IsPrefix(Whole(j), outWire)}
           n == Max(Fronts)
           L == Len(sealed)
<1> SUFFICES ASSUME data = <<>>, unsent = <<>>, ~lost
             PROVE  Arrived = Bytes(0, written)
  BY Zenon DEF WrittenIsWhole
<1>1. WriteTypes /\ WritesKept
  BY Zenon DEF WriteInv
<1>2. outWire \in Seq(Cell) /\ L \in Nat /\ written \in Nat
  BY <1>1 DEF WriteTypes
<1>3. outWire = FlattenSeq(CellsOf(sealed))
  <2>1. outWire \o <<>> = FlattenSeq(CellsOf(sealed))
    BY <1>1, Zenon DEF WritesKept, OnTheWire
  <2>2. outWire \o <<>> = outWire
    BY <1>2, NoneAtEnd
  <2> QED BY <2>1, <2>2, Zenon
<1>4. Whole(L) = outWire
  BY <1>3, Zenon DEF CellsOf
<1>5. IsPrefix(outWire, outWire)
  BY <1>2 DEF IsPrefix
<1>6. L \in Fronts
  BY <1>2, <1>4, <1>5
<1>7. n = L
  <2>1. \A y \in Fronts : y \in Nat /\ L >= y
    BY <1>2
  <2> HIDE DEF Fronts, L
  <2>2. \E x \in Fronts : \A y \in Fronts : x >= y
    BY <1>6, <2>1
  <2>3. n \in Fronts /\ \A y \in Fronts : n >= y
    BY <2>2 DEF Max
  <2>4. n \in Nat /\ L >= n /\ n >= L
    BY <1>6, <2>1, <2>3
  <2> HIDE DEF n
  <2> QED BY <1>2, <2>4
<1>8. Arrived = FlattenSeq([i \in 1 .. n |-> sealed[i].bytes])
  BY Zenon DEF Arrived
<1>9. Arrived = FlattenSeq(BytesOf(sealed))
  BY <1>7, <1>8, Zenon DEF BytesOf
<1>10. FlattenSeq(BytesOf(sealed)) = Span(0, written)
  <2>1. PICK m \in Nat : InRecords(sealed, m) /\ ToSeal(data, m, written)
    BY <1>1 DEF WritesKept
  <2>2. m = written
    BY <1>2, <2>1 DEF ToSeal
  <2> QED BY <2>1, <2>2, Zenon DEF InRecords
<1>11. Span(0, written) = Bytes(0, written)
  BY DEF Span, Bytes
<1> QED BY <1>9, <1>10, <1>11, Zenon

(* The writing side of a TLS session, for data of any length, any limit on *)
(* a record and sends of any size: when no call is under way and none has  *)
(* failed, what the peer can decrypt is all the bytes that were passed to  *)
(* TlsIoWrite, in order (tls_win.cc TlsIoWrite, SendAll).                  *)
THEOREM WholeWritten == TlsInit /\ [][TlsNext]_tlsVars => []WrittenIsWhole
<1>1. WriteInv /\ [TlsNext]_tlsVars => WriteInv'
  BY WriteSideStep
<1>2. WriteInv => WrittenIsWhole
  BY WholeAtRest
<1> QED BY WriteInitInv, <1>1, <1>2, PTL
=============================================================================
