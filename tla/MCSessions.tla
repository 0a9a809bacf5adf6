----------------------------- MODULE MCSessions -----------------------------
(* Small instances of Sessions. *)
EXTENDS Sessions, TLC

MCDelays == <<1, 2>>
ProcSymmetry == Permutations(Proc)
=============================================================================
