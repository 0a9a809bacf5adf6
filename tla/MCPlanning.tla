----------------------------- MODULE MCPlanning -----------------------------
(* A small instance of Planning: a fine and a coarse currency. *)
EXTENDS Planning, TLC

MCUnit == [c \in Currency |-> IF c = "JPY" THEN 2 ELSE 1]
MCGoalPatch == {[account |-> "a2"], [amount |-> 1], [account |-> "a1", amount |-> 2], [status |-> "completed"]}
MCLimitPatch == {[category |-> "rent"], [amount |-> 1], [currency |-> "JPY"], [active |-> FALSE],
                 [currency |-> "USD", amount |-> 2]}
ProcSymmetry == Permutations(Proc)
=============================================================================
