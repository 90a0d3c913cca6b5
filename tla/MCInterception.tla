---------------------------- MODULE MCInterception ----------------------------
(* Two hooked calls, one of them with a hook that ends in the real call, and  *)
(* two loads: what the first leaves is what the second finds.                 *)
EXTENDS Interception, TLC

MCOrder == <<"read", "unlink">>
=============================================================================
