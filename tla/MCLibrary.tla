----------------------------- MODULE MCLibrary ------------------------------
(***************************************************************************)
(* The parts of the library that run by themselves, for TLC.  A behaviour  *)
(* is of one of them (part); they share nothing but the engine that the    *)
(* shim asks, so their state spaces add up.                                *)
(***************************************************************************)
EXTENDS Shim, Msg, Buffer

VARIABLE part

Library == <<pathVars, abacVars, shimVars, msgVars, bufferVars, part>>

(* A directory spelt in two ways, a file in it, one beside it with a name  *)
(* that starts alike, the root, a relative path and one that is refused.   *)
Spellings ==
    {<<"/", "a">>, <<"/", ".", "/", "a">>, <<"\\", "a", "/", "A">>, <<"/", "a", "A">>,
     <<"/", ".", ".">>, <<"a">>, <<"a", "^">>}

(* The texts meet the hypothesis under which the engine is proved.         *)
ASSUME TextsArePlain == PlainlySpelt

(* The shim's engine: without a rule, or with one that allows it all.      *)
AllowAll == [subject |-> Star, action |-> Star, resource |-> Star, effect |-> "allow"]

LibraryInit ==
    /\ part \in {"path", "abac", "shim", "msg", "buffer"}
    /\ PathInit /\ MsgInit /\ BufferInit
    /\ IF part = "shim" THEN ShimInit /\ rules_ \in {<<>>, <<AllowAll>>}
                               /\ request = NoRequest /\ granted = FALSE
       ELSE /\ AbacInit
            /\ system = FALSE /\ length = 0 /\ atOpen = 0 /\ taken = 0
            /\ failed = FALSE /\ outcome = "none"

LibraryNext ==
    \/ /\ part = "path" /\ PathNext
       /\ UNCHANGED <<abacVars, shimVars, msgVars, bufferVars, part>>
    \/ /\ part = "abac" /\ AbacNext
       /\ UNCHANGED <<pathVars, shimVars, msgVars, bufferVars, part>>
    \/ /\ part = "shim" /\ ShimNext
       /\ UNCHANGED <<pathVars, abacVars, msgVars, bufferVars, part>>
    \/ /\ part = "msg" /\ MsgNext
       /\ UNCHANGED <<pathVars, abacVars, shimVars, bufferVars, part>>
    \/ /\ part = "buffer" /\ BufferNext
       /\ UNCHANGED <<pathVars, abacVars, shimVars, msgVars, part>>

LibrarySpec == LibraryInit /\ [][LibraryNext]_Library
=============================================================================
