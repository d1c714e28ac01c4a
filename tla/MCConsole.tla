------------------------------ MODULE MCConsole ------------------------------
(* Small instances of Console for TLC.                                     *)
EXTENDS Console

MCStrings == { <<"\n", "\n", "\n">>, <<"#", "{RED}", "a", "#", "#">>, <<"BS", "\t", "#", "b">> }
=============================================================================
