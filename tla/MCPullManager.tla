----------------------------- MODULE MCPullManager -----------------------------
(* Instances of PullManager for TLC: keys "reg" (registry source) and "dock" *)
(* (docker source).                                                          *)
EXTENDS PullManager, TLC

CONSTANTS reg, dock, c1, c2, c3

MCTwoCallers == {c1, c2}
MCThreeCallers == {c1, c2, c3}
CallerSymmetry == Permutations(MCTwoCallers)
CallerSymmetry3 == Permutations(MCThreeCallers)
===============================================================================
