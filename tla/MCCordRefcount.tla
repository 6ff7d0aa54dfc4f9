--------------------------- MODULE MCCordRefcount ---------------------------
(* CordRefcount with two threads, and references enough for both of them   *)
(* to be past the limit at once.                                           *)
EXTENDS CordRefcount

CONSTANTS t1, t2, r1, r2, r3, r4, r5

TwoThreads == {t1, t2}

FiveRefs == {r1, r2, r3, r4, r5}
=============================================================================
