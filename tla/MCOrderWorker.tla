--------------------------- MODULE MCOrderWorker ---------------------------
(* OrderWorker on small instances. *)
EXTENDS OrderWorker

(* A refused amount, nothing, less than a kopeck, 29 kopecks of which the  *)
(* conversion keeps 28, and half a point, of which two exceed MaxBigint.    *)
AllAmounts  == {-10, 0, 5, 290, 500}

(* Three of them that are paid.                                            *)
SomeAmounts == {5, 290, 500}
=============================================================================
