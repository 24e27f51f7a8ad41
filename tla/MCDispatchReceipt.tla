------------------------- MODULE MCDispatchReceipt -------------------------
(* Small instances of DispatchReceipt for TLC. *)
EXTENDS DispatchReceipt, TLC

=============================================================================
