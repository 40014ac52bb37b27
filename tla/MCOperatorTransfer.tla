------------------------- MODULE MCOperatorTransfer -------------------------
(***************************************************************************)
(* The instances of OperatorTransfer that TLC checks: what fails.          *)
(***************************************************************************)
EXTENDS OperatorTransfer

NothingFails    == {}
EverythingFails == {"twilio", "redis", "db"}

=============================================================================
