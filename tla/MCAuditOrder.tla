--------------------------- MODULE MCAuditOrder ---------------------------
(* Model-checking instance of AuditOrder.                                  *)
EXTENDS AuditOrder
=============================================================================
