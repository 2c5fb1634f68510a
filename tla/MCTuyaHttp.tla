----------------------------- MODULE MCTuyaHttp -----------------------------
(* TuyaHttp with two callers.  They run the same code and no property tells *)
(* them apart.                                                              *)
EXTENDS TuyaHttp, TLC

TaskSymmetry == Permutations(Tasks)
=============================================================================
