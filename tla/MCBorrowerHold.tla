---------------------------- MODULE MCBorrowerHold ---------------------------
(* Two route threads r1 and r2, beside each other, the heartbeat hb and one   *)
(* borrower session b1, with every fault.                                     *)
EXTENDS BorrowerHold
=============================================================================
