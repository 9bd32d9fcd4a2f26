------------------------------- MODULE Buffer -------------------------------
(***************************************************************************)
(* The shared-memory buffer (src/s2/buffer.cc): a mapping that the host    *)
(* makes and the sandboxee maps again, each through its own bounds check.  *)
(* size_t is Width bits wide.  The memory goes on behind the mapping, for  *)
(* a copy that does not stay inside.                                       *)
(***************************************************************************)
EXTENDS Integers, SequencesExt

CONSTANTS
    Width,            \* bits of size_t
    MaxBufferBytes,   \* kMaxBufferBytes
    MaxCopies         \* bound: copies made

ASSUME BufferAssumption == Width \in Nat /\ MaxBufferBytes \in 1 .. 2^Width - 1 /\ MaxCopies \in Nat

SizeT == 0 .. 2^Width - 1
Sides == {"host", "child"}

VARIABLES
    mapped,     \* bytes of the mapping, 0 before there is one
    view,       \* [Sides -> size_ of its Buffer, 0 for nullptr]
    mem,        \* the mapping and the memory behind it
    copy,       \* the last copy: the caller's size_, what it asked, what it got
    copies      \* copies so far

bufferVars == <<mapped, view, mem, copy, copies>>

NoCopy == [size |-> 0, off |-> 0, n |-> 0, ok |-> TRUE, bytes |-> <<>>]

BufferInit ==
    /\ mapped = 0 /\ view = [s \in Sides |-> 0]
    /\ mem = [a \in 0 .. 2 * 2^Width |-> "outside"]
    /\ copy = NoCopy /\ copies = 0

CreateWithSize(size) ==
    /\ mapped = 0
    /\ size # 0 /\ size <= MaxBufferBytes
    /\ mapped' = size
    /\ view' = [view EXCEPT !["host"] = size]
    /\ mem' = [a \in DOMAIN mem |-> IF a < size THEN "zero" ELSE mem[a]]
    /\ UNCHANGED <<copy, copies>>

(* MapViewOfFile takes no more than there is.                              *)
CreateFromHandle(size) ==
    /\ mapped # 0 /\ view["child"] = 0
    /\ size # 0 /\ size <= MaxBufferBytes /\ size <= mapped
    /\ view' = [view EXCEPT !["child"] = size]
    /\ UNCHANGED <<mapped, mem, copy, copies>>

(* Mutant: the sum wraps.                                                  *)
FitsBySum(size, off, n) == (off + n) % 2^Width <= size
Fits(size, off, n) == IF n = 0 THEN off <= size ELSE off <= size /\ n <= size - off

Accepts(side, off, n) == view[side] # 0 /\ (n = 0 \/ Fits(view[side], off, n))

(* CopyTo, and Set for n = 1.  The bytes of a copy carry the side's mark.  *)
CopyTo(side, off, n) ==
    LET ok == Accepts(side, off, n)
    IN /\ copies < MaxCopies /\ copies' = copies + 1
       /\ mem' = [a \in DOMAIN mem |-> IF ok /\ a \in off .. off + n - 1 THEN side ELSE mem[a]]
       /\ copy' = [size |-> view[side], off |-> off, n |-> n, ok |-> ok, bytes |-> <<>>]
       /\ UNCHANGED <<mapped, view>>

(* CopyFrom, and Get for n = 1.                                            *)
CopyFrom(side, off, n) ==
    LET ok == Accepts(side, off, n)
    IN /\ copies < MaxCopies /\ copies' = copies + 1
       /\ copy' = [size |-> view[side], off |-> off, n |-> n, ok |-> ok,
                   bytes |-> IF ok THEN [k \in 1 .. n |-> mem[off + k - 1]] ELSE <<>>]
       /\ UNCHANGED <<mapped, view, mem>>

BufferNext ==
    \/ \E size \in SizeT : CreateWithSize(size) \/ CreateFromHandle(size)
    \/ \E side \in Sides, off \in SizeT, n \in SizeT :
          CopyTo(side, off, n) \/ CopyFrom(side, off, n)

-----------------------------------------------------------------------------
(* No copy reads or writes a byte behind the mapping, and one is refused   *)
(* only when, in numbers that do not wrap, it would not stay inside the    *)
(* caller's view.                                                          *)
CopiesStayInside ==
    /\ \A a \in DOMAIN mem : mem[a] = "outside" <=> a >= mapped
    /\ ~Contains(copy.bytes, "outside")
    /\ copy.size # 0 /\ ~copy.ok => copy.n > 0 /\ copy.off + copy.n > copy.size
=============================================================================
