--------------------------- MODULE MCTenantRecords ---------------------------
(* TenantRecords on a small instance.                                      *)
EXTENDS TenantRecords
=============================================================================
