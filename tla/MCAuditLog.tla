----------------------------- MODULE MCAuditLog -----------------------------
EXTENDS AuditLog, TLC

CONSTANTS e1, e2, e3, e4

MCEvents == {e1, e2, e3, e4}
=============================================================================
