----------------------------- MODULE MCMonitoring -----------------------------
(* Three runs of the monitoring of one page.                                 *)
EXTENDS Monitoring
=============================================================================
