----------------------------- MODULE MCAuditLog -----------------------------
\* Instances of AuditLog for TLC.
EXTENDS AuditLog

\* Three slots to shift, and files of one row, so that every record() of a
\* file that was opened before rotates.
ThreeSlots == 3
TwoSlots == 2
OneRow == 1
=============================================================================
