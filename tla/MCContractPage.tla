--------------------------- MODULE MCContractPage ---------------------------
(* A small instance of ContractPage for TLC. *)
EXTENDS ContractPage, TLC

=============================================================================
