----------------------------- MODULE MCSessions -----------------------------
(* Two threads of one process and one of another.                          *)
EXTENDS Sessions, TLC

CONSTANTS t1, t2, t3, p, q

MCProcessOf == t1 :> p @@ t2 :> p @@ t3 :> q
MCCalls == t1 :> 2 @@ t2 :> 2 @@ t3 :> 2
=============================================================================
