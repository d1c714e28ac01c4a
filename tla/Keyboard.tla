------------------------------ MODULE Keyboard ------------------------------
(***************************************************************************)
(* The keyboard driver, io/io_keyboard.c with its tables in io_keyboard.h, *)
(* in front of the input queue of the process that has the focus.  A key   *)
(* is pressed, repeated and released by the user; kb_handler() turns its   *)
(* scan code into a character, a shortcut or a new state of the modifiers, *)
(* and the process reads its queue meanwhile.                              *)
(***************************************************************************)
EXTENDS RingBuffer

CONSTANT Keys    \* the scan codes of the keys that are used, in 0 .. 127

LSHIFT == 42  RSHIFT == 54  ALT == 56  CTRL == 29  SUPER == 91  ESCAPE == 1
CursorKeys == {72, 80, 75, 77}   \* CURSOR_UP, _DOWN, _LEFT, _RIGHT
ScrollKeys == {73, 81}           \* SCROLL_UP, SCROLL_DOWN

VARIABLES
    down,             \* the keys that the user's fingers are on
    keyboard_state,   \* those that the driver has recorded as held
    shift, alt, ctrl, super_button,
    ran               \* the function that the last key ran, or "none"

modifiers == <<shift, alt, ctrl, super_button>>
keyboardVars == <<down, keyboard_state, modifiers, ran>>

(* The tables from scan codes to characters, row by row of the keyboard.   *)
(* A key without a character has NUL;  "BS"  is '\b', "BEL" is '\a', and *)
(* characters outside ASCII have names.                                    *)
NUL == ""

Row(first, chars) == [k \in first .. first + Len(chars) - 1 |-> chars[k - first + 1]]

OnKeys(rows) ==
    [k \in 0 .. 127 |->
        IF \E r \in rows : k \in DOMAIN r THEN (CHOOSE r \in rows : k \in DOMAIN r)[k] ELSE NUL]

kb_map == OnKeys({
    Row(1, <<"BEL", "1", "2", "3", "4", "5", "6", "7", "8", "9", "0", "sz", NUL, "BS", "\t">>),
    Row(16, <<"q", "w", "e", "r", "t", "z", "u", "i", "o", "p", "ue", "+", "\n">>),
    Row(30, <<"a", "s", "d", "f", "g", "h", "j", "k", "l", "oe", "ae", NUL, NUL, "#">>),
    Row(44, <<"y", "x", "c", "v", "b", "n", "m", ",", ".", "-">>),
    Row(57, <<" ">>), Row(86, <<"<">>)})

kb_shift_map == OnKeys({
    Row(2, <<"!", "\"", "section", "$", "%", "&", "/", "(", ")", "=", "?", NUL, "BS", "\t">>),
    Row(16, <<"Q", "W", "E", "R", "T", "Z", "U", "I", "O", "P", "UE", "*", "\n">>),
    Row(30, <<"A", "S", "D", "F", "G", "H", "J", "K", "L", "OE", "AE", NUL, NUL, "'">>),
    Row(44, <<"Y", "X", "C", "V", "B", "N", "M", ";", ":", "_">>),
    Row(57, <<" ">>), Row(86, <<">">>)})

kb_alt_map == OnKeys({
    Row(2, <<"one", "two", "three", "quarter", "half", "not", "{", "[", "]", "}", "\\">>),
    Row(14, <<"BS", "\t", "@">>), Row(19, <<"pilcrow">>),
    Row(24, <<"cent", "thorn", NUL, "~", "\n">>), Row(30, <<"ae_", "o_">>),
    Row(44, <<"<<", ">>", "copyright">>), Row(57, <<" ">>)})

(* The shortcuts that do_tests() registers, each with its two flags.       *)
Shortcut(control, super, ch, func) == [control |-> control, super |-> super, ch |-> ch, func |-> func]
shortcuts ==
    {Shortcut(TRUE, FALSE, s[1], s[2]) : s \in {
        <<"x", "atoi_test">>, <<"r", "ralph_wiggum">>, <<"\t", "new_shell">>,
        <<"a", "threadA_test">>, <<"b", "threadB_test">>, <<"e", "threadC_test">>, <<"f", "threadD_test">>,
        <<"p", "threadProducer_test">>, <<"c", "threadConsumer_test">>, <<"m", "paralleleModellierung">>,
        <<"+", "switch_monitor_up">>, <<"-", "switch_monitor_down">>, <<"s", "make_snapshot">>}}
    \cup {Shortcut(TRUE, TRUE, "BS", "reboot")}

\* Every key is in the tables, and the characters on it are bytes of the ring.
ASSUME KeyboardAssumption ==
    /\ Keys \subseteq 0 .. 127
    /\ \A k \in Keys : {kb_map[k], kb_shift_map[k], kb_alt_map[k]} \subseteq Bytes \cup {NUL}

KeyboardInit ==
    /\ Init
    /\ down = {} /\ keyboard_state = {}
    /\ shift = FALSE /\ alt = FALSE /\ ctrl = FALSE /\ super_button = FALSE
    /\ ran = "none"
----------------------------------------------------------------------------
(* pm_handle_input(), for a key whose entry is not 0; echo is never set.   *)
Typed(ch) ==
    IF ch = NUL THEN UNCHANGED <<fifo, pc, count, loaded>> ELSE Key(ch) \/ KeyDropped

(* The search for a shortcut with these flags.                             *)
Runs(control, super, k) ==
    LET found == {s \in shortcuts : s.control = control /\ s.super = super /\ s.ch = kb_map[k]}
    IN  ran' = IF found = {} THEN "none" ELSE (CHOOSE s \in found : TRUE).func

(* The branches of kb_handler(), in the order in which they are tried.     *)
PressedUnderShift(k) ==
    /\ shift
    /\ Typed(kb_shift_map[k])
    /\ ran' = "none"
    /\ UNCHANGED <<keyboard_state, modifiers>>

PressedUnderAlt(k) ==
    /\ ~shift /\ alt
    /\ Typed(kb_alt_map[k])
    /\ ran' = IF k = ESCAPE THEN "virt_monitor_invert" ELSE "none"
    /\ UNCHANGED <<keyboard_state, modifiers>>

PressedUnderCtrl(k) ==
    /\ ~shift /\ ~alt
    /\ \/ ctrl /\ super_button /\ Runs(TRUE, TRUE, k)
       \/ ctrl /\ ~super_button /\ k # SUPER /\ Runs(TRUE, FALSE, k)
       \/ ~ctrl /\ super_button /\ k # CTRL /\ Runs(FALSE, TRUE, k)
    /\ UNCHANGED <<keyboard_state, modifiers, fifo, pc, count, loaded>>

PressedAlone(k) ==
    /\ ~shift /\ ~alt
    /\ ~ctrl \/ (~super_button /\ k = SUPER)
    /\ ~super_button \/ (~ctrl /\ k = CTRL)
    /\ keyboard_state' = keyboard_state \cup {k}
    /\ shift' = (k \in {LSHIFT, RSHIFT})
    /\ alt' = (k = ALT)
    /\ ctrl' = (ctrl \/ k = CTRL)
    /\ super_button' = (super_button \/ k = SUPER)
    /\ ran' = IF k \in CursorKeys THEN "virt_cursor_move"
              ELSE IF k \in ScrollKeys THEN "virt_monitor_scroll" ELSE "none"
    /\ Typed(kb_map[k])

(* A key that is already down is repeated by the keyboard.                 *)
Press(k) ==
    /\ Interrupts \/ pc = "idle"
    /\ down' = down \cup {k}
    /\ PressedUnderShift(k) \/ PressedUnderAlt(k) \/ PressedUnderCtrl(k) \/ PressedAlone(k)

ClearsByOneSide(k) == k = LSHIFT
ClearsShift(k) == k \in {LSHIFT, RSHIFT}

Release(k) ==
    /\ k \in down
    /\ Interrupts \/ pc = "idle"
    /\ down' = down \ {k}
    /\ keyboard_state' = keyboard_state \ {k}
    /\ shift' = (shift /\ ~ClearsShift(k))
    /\ alt' = (alt /\ k # ALT)
    /\ ctrl' = (ctrl /\ k # CTRL)
    /\ super_button' = (super_button /\ k # SUPER)
    /\ ran' = "none"
    /\ UNCHANGED <<fifo, pc, count, loaded>>

(* The process with the focus, in rf_read() and rf_write().                *)
Process ==
    /\ \/ \E n \in Counts : BeginRead(n) \/ BeginWrite(n)
       \/ Return \/ ReadByte \/ LoadLength \/ StoreLength
       \/ \E b \in Bytes : WriteByte(b)
       \/ CountByte
    /\ UNCHANGED keyboardVars

KeyboardNext == Process \/ \E k \in Keys : Press(k) \/ Release(k)

KeyboardSpec == KeyboardInit /\ [][KeyboardNext]_<<vars, keyboardVars>>
----------------------------------------------------------------------------
(* No key is recorded as held, and no modifier taken as pressed, that the  *)
(* user has let go: whatever is pressed, repeated and released in whatever *)
(* order, the branches of kb_handler() that record nothing never leave     *)
(* behind a state that no later release clears.                            *)
NothingStuck ==
    /\ keyboard_state \subseteq down
    /\ shift => down \cap {LSHIFT, RSHIFT} # {}
    /\ alt => ALT \in down
    /\ ctrl => CTRL \in down
    /\ super_button => SUPER \in down

(* The comment of keyboard_state: "State of all keys. TRUE means the key   *)
(* is being held down right now."  A key that is pressed while a modifier  *)
(* is held is not recorded.                                                *)
AllHeldRecorded == down \subseteq keyboard_state

(* Shift acts as long as one of the two shift keys is held; in the code    *)
(* the release of either key ends it.                                      *)
ShiftWhileHeld == down = {LSHIFT} \/ down = {RSHIFT} => shift
=============================================================================
