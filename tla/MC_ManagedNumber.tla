-------------------------- MODULE MC_ManagedNumber --------------------------
(* Two ticks of one order meet.                                            *)
EXTENDS ManagedNumber, TLC

CONSTANTS w1, w2

SwapWorkers == Permutations({w1, w2})
=============================================================================
