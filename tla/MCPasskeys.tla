----------------------------- MODULE MCPasskeys -----------------------------
(* A small instance of Passkeys: one passkey, registered before or not, and requests enough  *)
(* for two logins that overlap.                                                              *)
EXTENDS Passkeys, TLC

ProcSymmetry == Permutations(Proc)
=============================================================================
