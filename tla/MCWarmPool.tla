----------------------------- MODULE MCWarmPool -----------------------------
(* A small pool for TLC: the shipped buffer of 1.5, between one and three    *)
(* warm instances, engine boots that may fail, at most four requests.        *)
EXTENDS WarmPool

MCFallible == {"boot"}
=============================================================================
