------------------------------ MODULE MCInstance ------------------------------
(* Instance for TLC: two sizes, two sets of shares.                         *)
EXTENDS Instance
CONSTANTS m1, m2
MCDefault == [disk |-> 1, image |-> 1, shares |-> m1, mirror |-> FALSE]
MCLegacy == [disk |-> 2, image |-> 0, shares |-> m2, mirror |-> FALSE]
=============================================================================
