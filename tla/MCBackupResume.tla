--------------------------- MODULE MCBackupResume ---------------------------
(* The instance of BackupResume that TLC checks.                           *)
EXTENDS BackupResume

=============================================================================
