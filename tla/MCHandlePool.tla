---------------------------- MODULE MCHandlePool ----------------------------
(* Three threads that hold up to two requests each compete for four handles. *)
(* That is the smallest pool in which this many requests cannot block one    *)
(* another for ever: Threads * (MaxHeld - 1) < Handles.                      *)
EXTENDS HandlePool, TLC

CONSTANTS t1, t2, t3, h1, h2, h3, h4

MCThreads == {t1, t2, t3}
MCHandles == {h1, h2, h3, h4}

ASSUME EnoughHandles ==
    Cardinality(Threads) * (MaxHeld - 1) < Cardinality(Handles)
=============================================================================
