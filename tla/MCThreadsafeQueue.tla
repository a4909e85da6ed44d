------------------------- MODULE MCThreadsafeQueue -------------------------
(* Three threads and two items, as model values.                            *)
EXTENDS ThreadsafeQueue

CONSTANTS t1, t2, t3, a, b

Threads == {t1, t2, t3}
Items   == {a, b}
=============================================================================
