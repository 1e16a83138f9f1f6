---------------------------- MODULE MCLedgerRows ----------------------------
(* Small instances of LedgerRows and Settlements for TLC: the constants are those of     *)
(* MCEscrow, each step also remembers what it overlaps.                                  *)
EXTENDS LedgerRows, Settlements, MCEscrow

MCInit == RowsInit /\ NothingYet
MCNext == RowsNext /\ Remembers
MCSpec == MCInit /\ [][MCNext]_<<vars, rows, raced, cancelledLast, overtaken>>

=============================================================================
