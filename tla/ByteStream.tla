----------------------------- MODULE ByteStream -----------------------------
(***************************************************************************)
(* What one direction of a connection promises, whatever carries it: the   *)
(* bytes come out in the order they went in, each once, in pieces of any   *)
(* size, and the reader is told of the end only when it has had them all.  *)
(* The k-th byte of a stream is the number k.                              *)
(***************************************************************************)
EXTENDS Naturals, Sequences

VARIABLES
    sent,     \* bytes put in
    got,      \* the bytes the reader was given, in the order it was
    closed,   \* nothing more is put in
    told      \* the reader was told of the end

stream == <<sent, got, closed, told>>

Init == sent = 0 /\ got = <<>> /\ closed = FALSE /\ told = FALSE

Send ==
    /\ ~closed
    /\ sent' \in Nat /\ sent' >= sent
    /\ closed' \in BOOLEAN
    /\ UNCHANGED <<got, told>>

(* The bytes that follow those the reader has had.                         *)
After(n, k) == [i \in 1 .. k |-> n + i]

Receive ==
    /\ \E k \in 0 .. sent - Len(got) : got' = got \o After(Len(got), k)
    /\ UNCHANGED <<sent, closed, told>>

(* A hand-over without a buffer: what goes in comes out in the same step.  *)
Pass ==
    /\ ~closed
    /\ sent' \in Nat /\ sent' >= sent
    /\ \E k \in 0 .. sent' - Len(got) : got' = got \o After(Len(got), k)
    /\ closed' \in BOOLEAN
    /\ UNCHANGED told

End ==
    /\ closed /\ Len(got) = sent
    /\ told' = TRUE
    /\ UNCHANGED <<sent, got, closed>>

Next == Send \/ Receive \/ Pass \/ End

Spec == Init /\ [][Next]_stream
=============================================================================
