--------------------------- MODULE SfnErrorAlarms ---------------------------
(* SfnErrorNotification's pipeline together with its two alarms.           *)
EXTENDS SfnErrorNotification, DlqAlarms
=============================================================================
