---- MODULE MCUnlockGate ----
(* The gate on small schedules: delays of 1, 2 and 3 (4, capped) seconds.    *)
EXTENDS UnlockGate
====
