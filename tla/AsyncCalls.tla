---------------------------- MODULE AsyncCalls ----------------------------
(***************************************************************************)
(* What wasigo's AsyncHostBridge promises its caller, stated without       *)
(* threads, queues or condition variables: every call is given a fresh     *)
(* id, is answered once, and its answer is handed out once.  Answers may   *)
(* come in any order.  Module Bridge implements it.                        *)
(***************************************************************************)
EXTENDS Naturals

VARIABLES
    issued,     \* how many ids Submit has handed out: 1 .. issued
    answers,    \* completions ready to be collected
    collected   \* completions handed to the scheduler

avars == <<issued, answers, collected>>

Ids(S) == {c.id : c \in S}

(* Ids that were handed out and have no answer yet.                        *)
Unanswered == (1 .. issued) \ (Ids(answers) \cup Ids(collected))

AInit ==
    /\ issued = 0
    /\ answers = {}
    /\ collected = {}

Issue ==
    /\ issued' = issued + 1
    /\ UNCHANGED <<answers, collected>>

Answer ==
    /\ \E i \in Unanswered, ok \in BOOLEAN :
           answers' = answers \cup {[id |-> i, ok |-> ok]}
    /\ UNCHANGED <<issued, collected>>

Collect ==
    \E c \in answers :
        /\ answers' = answers \ {c}
        /\ collected' = collected \cup {c}
        /\ UNCHANGED issued

ANext == Issue \/ Answer \/ Collect

ASpec == AInit /\ [][ANext]_avars
===========================================================================
