---------------------------- MODULE MCExportCopies ----------------------------
(* An instance of ExportCopies for TLC: the chat with the id 12 is listed after *)
(* the chat with the id 123, which includes it.                                 *)
EXTENDS ExportCopies

MCDialogs == <<"123", "12">>
MCIncludes == {<<"r12", "12">>, <<"r12", "123">>, <<"r123", "123">>}
MCOwn == [r \in {"r12", "r123"} |-> IF r = "r12" THEN "12" ELSE "123"]
=============================================================================
