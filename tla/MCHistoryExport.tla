-------------------------- MODULE MCHistoryExport --------------------------
(* Model-checking instances of HistoryExport.                              *)
EXTENDS HistoryExport

MCMsgIds == 1..4
=============================================================================
