---------------------------- MODULE MCAuditLedger ----------------------------
(* Model-checking instance of AuditLedger: the constants are given their    *)
(* values in the configurations AuditLedger*.cfg.                           *)
EXTENDS AuditLedger
==============================================================================
