------------------------------ MODULE MCComms ------------------------------
(* Instances of Comms for TLC.                                             *)
EXTENDS Comms

(* The host's limit is 8 bytes and the sandboxee's 9, so that its 9 bytes  *)
(* are too long for the host.  Its raw frame has u32's tag and not its     *)
(* size.                                                                   *)
Limits == [e \in Ends |-> IF e = "host" THEN 8 ELSE 9]
Messages ==
    [host |-> {[kind |-> "u64", value |-> 256 * 7 + 27],
               [kind |-> "bool", value |-> TRUE]},
     child |-> {[kind |-> "u32", value |-> 228],
                [kind |-> "bytes", value |-> <<0, 1, 2, 3, 0, 1, 2, 3, 0>>],
                [kind |-> "string", value |-> <<>>],
                [kind |-> "raw", tag |-> 2, value |-> <<1, 0, 0>>]}]
Receives == [host |-> {"u32", "string", "bytes"}, child |-> {"bool", "u64"}]
Sends == [host |-> 1, child |-> 2]
Recvs == [host |-> 2, child |-> 1]
=============================================================================
