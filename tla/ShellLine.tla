----------------------------- MODULE ShellLine -----------------------------
(***************************************************************************)
(* The prompt of the shell: shell_main() of apps/shell_main.c reads a line *)
(* with _fgets() of shell_utils.c, which echoes keys and takes back        *)
(* characters, completes commands on a tab, and hands the line over.       *)
(***************************************************************************)
EXTENDS Integers, SequencesExt

CONSTANTS
    BufSize,     \* sizeof(cmd), 512 in the code
    Letters,     \* the characters typed, besides tab, backspace and return
    Commands,    \* the names of shell_cmds, in order, as sequences of letters
    MaxCompleted, \* longest text that is completed, 15 in the code
    MaxKeys      \* bound: keys pressed for one line

VARIABLES
    cmd,      \* the array, NUL where nothing was written
    s,        \* the pointer s of _fgets(), an index of cmd
    n, count, \* its limit and the characters it may take back
    pc,       \* "prompt", "loop" of shell_main(), "fgets"
    shown,    \* what is on the screen behind the prompt
    ran,      \* the line that shell_handle_command() was last given
    keys      \* keys pressed for this line, for the bound

lineVars == <<cmd, s, n, count, pc, shown, ran, keys>>

NUL == ""

\* strlen(cmd), and the string itself.
StrLen == IF \E i \in DOMAIN cmd : cmd[i] = NUL
          THEN CHOOSE i \in DOMAIN cmd : cmd[i] = NUL /\ \A j \in 0 .. i - 1 : cmd[j] # NUL
          ELSE BufSize
Text == [i \in 1 .. StrLen |-> cmd[i - 1]]

LineInit ==
    /\ cmd = [i \in 0 .. BufSize - 1 |-> NUL]
    /\ s = 0 /\ n = 0 /\ count = 0
    /\ pc = "loop"
    /\ shown = <<>> /\ ran = <<>>
    /\ keys = 0

(* The loop of shell_main() goes on until the text ends in a line feed.    *)
(* For an empty text it looks at cmd[-1], whatever that is.                *)
Handle ==
    /\ pc = "loop"
    /\ IF StrLen = 0 THEN TRUE ELSE Last(Text) = "\n"
    /\ ran' = Text
    /\ pc' = "prompt"
    /\ UNCHANGED <<cmd, s, n, count, shown, keys>>

Fgets ==
    /\ pc = "loop"
    /\ IF StrLen = 0 THEN TRUE ELSE Last(Text) # "\n"
    /\ s' = StrLen /\ n' = BufSize - StrLen /\ count' = 0
    /\ pc' = "fgets"
    /\ UNCHANGED <<cmd, shown, ran, keys>>

(* The next prompt, with cmd cleared.                                      *)
Prompt ==
    /\ pc = "prompt"
    /\ cmd' = [i \in 0 .. BufSize - 1 |-> NUL]
    /\ pc' = "loop"
    /\ shown' = <<>> /\ keys' = 0
    /\ UNCHANGED <<s, n, count, ran>>

(* One key inside _fgets(): the limit counts keys, not characters.         *)
Key(ch) ==
    /\ pc = "fgets" /\ n > 0 /\ keys < MaxKeys
    /\ n' = n - 1 /\ keys' = keys + 1

Character(ch) ==
    /\ Key(ch)
    /\ cmd' = [cmd EXCEPT ![s] = ch]
    /\ s' = s + 1
    /\ count' = count + 1
    /\ shown' = Append(shown, ch)
    /\ pc' = IF ch = "\n" THEN "loop" ELSE "fgets"
    /\ UNCHANGED ran

StaysAfterBackspace(i) == i
AfterBackspace(i) == i - 1

Backspace ==
    /\ Key("BS")
    /\ IF count > 0
       THEN /\ cmd' = [cmd EXCEPT ![s] = NUL]
            /\ s' = AfterBackspace(s)
            /\ count' = count - 1
            /\ shown' = Front(shown)
       ELSE UNCHANGED <<cmd, s, count, shown>>
    /\ UNCHANGED <<pc, ran>>

(* _fgets() used up its limit.                                             *)
LimitReached ==
    /\ pc = "fgets" /\ n = 0
    /\ pc' = "loop"
    /\ UNCHANGED <<cmd, s, n, count, shown, ran, keys>>

(* shell_autocomplete() of the text before the tab: the first command that *)
(* it is a prefix of is completed, in cmd and on the screen.               *)
Completion(partial) ==
    LET fits == {i \in DOMAIN Commands : IsPrefix(partial, Commands[i])}
        name == Commands[CHOOSE i \in fits : \A j \in fits : i <= j]
    IN  IF Len(partial) > MaxCompleted \/ fits = {} THEN <<>>
        ELSE SubSeq(name, Len(partial) + 1, Len(name))

Tab ==
    /\ Key("\t")
    /\ LET partial == SubSeq(Text, 1, s)
           rest    == Completion(partial)
       IN  /\ cmd' = [i \in DOMAIN cmd |->
                        IF i < s THEN cmd[i]
                        ELSE IF i < s + Len(rest) THEN rest[i - s + 1] ELSE NUL]
           /\ shown' = shown \o rest
    /\ pc' = "loop"
    /\ UNCHANGED <<s, count, ran>>

LineNext ==
    \/ Handle \/ Fgets \/ Prompt
    \/ \E ch \in Letters \cup {"\n"} : Character(ch)
    \/ Backspace \/ Tab \/ LimitReached
----------------------------------------------------------------------------
(* The line that is run is the one the user sees, whatever was typed,      *)
(* taken back and completed: _fgets() and shell_autocomplete() keep the    *)
(* array and the screen apart, and a taken-back character stays in the     *)
(* array until something is written over it.                               *)
WhatIsShownRuns == pc = "prompt" => ran = shown

(* A user who types can always end the line; a full array without a line   *)
(* feed makes the loop of shell_main() turn without reading.               *)
LineCanEnd == pc = "loop" => StrLen < BufSize \/ Last(Text) = "\n"
=============================================================================
