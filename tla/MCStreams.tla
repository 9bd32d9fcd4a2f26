----------------------------- MODULE MCStreams ------------------------------
(***************************************************************************)
(* The two byte streams of the system, for TLC.  A behaviour is of one of  *)
(* them (under); they share nothing, so their state spaces add up.         *)
(***************************************************************************)
EXTENDS Conn, TlsSession

VARIABLE under

Streams == <<connVars, tlsVars, under>>

StreamsInit == ConnInit /\ TlsInit /\ under \in {"conn", "tls"}

StreamsNext ==
    \/ under = "conn" /\ ConnNext /\ UNCHANGED <<tlsVars, under>>
    \/ under = "tls" /\ TlsNext /\ UNCHANGED <<connVars, under>>

StreamsSpec ==
    StreamsInit /\ [][StreamsNext]_Streams /\ ConnFairness /\ TlsFairness
=============================================================================
