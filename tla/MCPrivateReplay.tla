--------------------------- MODULE MCPrivateReplay ---------------------------
(* Instances of PrivateReplay for TLC: two projects, and one transaction   *)
(* for each call of the drill.                                             *)
EXTENDS PrivateReplay, TLC

CONSTANTS c1, c2, t1, t2, t3, t4, t5   \* members of Content and of Tx

MCOwner == (c1 :> own @@ c2 :> foreign)
MCReplayTx == [v1 |-> t1, v2 |-> t2, rollback |-> t3, crash |-> t4,
               contamination |-> t5]
=============================================================================
