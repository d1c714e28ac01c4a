----------------------------- MODULE MCLibrary -----------------------------
(* Small instances of the library, the clock and the timer for TLC.        *)
EXTENDS Library, SequencesExt

TheNaps == {<<"sleep", 1>>, <<"sleep", 2>>, <<"sleep", 3>>, <<"sleep_ticks", 1>>, <<"sleep_ticks", 2>>}

Pieces == {[kind |-> "char", len |-> 1], [kind |-> "number", len |-> 1], [kind |-> "number", len |-> 3],
           [kind |-> "string", len |-> 2]}
TheFormats == SeqOf(Pieces, 3)
=============================================================================
