---------------------------- MODULE MCAuditTrail ----------------------------
(***************************************************************************)
(* Instance of AuditTrail.  No symmetry: the run has a liveness property.  *)
(***************************************************************************)
EXTENDS AuditTrail
=============================================================================
