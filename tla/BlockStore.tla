----------------------------- MODULE BlockStore -----------------------------
(***************************************************************************)
(* What rd_block(), wrt_block() and clear_block() promise their callers:   *)
(* blocks that change only when one of them is written, at one moment      *)
(* between the call and its return, and that are read as they are.         *)
(***************************************************************************)
CONSTANTS Procs, Blocks, Data

VARIABLES store, call, answer

vars == <<store, call, answer>>

None == [kind |-> "none"]
Done == [kind |-> "done"]
Calls == {None, Done} \cup [kind : {"read"}, block : Blocks]
                      \cup [kind : {"write"}, block : Blocks, data : Data]

Init ==
    /\ store \in [Blocks -> Data]
    /\ call = [p \in Procs |-> None]
    /\ answer \in [Procs -> Data]

Start(p) ==
    /\ call[p] = None
    /\ \E c \in Calls \ {None, Done} : call' = [call EXCEPT ![p] = c]
    /\ UNCHANGED <<store, answer>>

Load(p) ==
    /\ call[p].kind = "read"
    /\ answer' = [answer EXCEPT ![p] = store[call[p].block]]
    /\ call' = [call EXCEPT ![p] = None]
    /\ UNCHANGED store

Store(p) ==
    /\ call[p].kind = "write"
    /\ store' = [store EXCEPT ![call[p].block] = call[p].data]
    /\ call' = [call EXCEPT ![p] = Done]
    /\ UNCHANGED answer

Return(p) ==
    /\ call[p] = Done
    /\ call' = [call EXCEPT ![p] = None]
    /\ UNCHANGED <<store, answer>>

Next == \E p \in Procs : Start(p) \/ Load(p) \/ Store(p) \/ Return(p)

Spec == Init /\ [][Next]_vars
=============================================================================
