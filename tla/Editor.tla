------------------------------- MODULE Editor -------------------------------
(***************************************************************************)
(* The text editor speed of apps/editor.c: a buffer that is doubled when   *)
(* it is full and halved when a quarter of it is used, and a list of lines *)
(* with their lengths, by which the editor knows where it may erase.  What *)
(* the list holds for the layout of the screen is left out.                *)
(***************************************************************************)
EXTENDS Integers, SequencesExt

CONSTANTS
    Letters,      \* characters of a text; "nl" ends a line, as "\n" and "\t" do
    OldTexts,     \* what the file holds at the start
    MaxText,      \* bound: characters that are typed into the file
    InUse         \* whether another process may have the file open at the end

VARIABLES
    disk,         \* the file
    str, pos,     \* the buffer, with 0 as "", and the end of the text in it
    lines,        \* num_chars of the lines, the actual one last
    seen,         \* the text the user sees, who knows nothing of buffers
    doing         \* "load", "edit" or "done"

editorVars == <<disk, str, pos, lines, seen, doing>>

Zeros(n) == [i \in 1 .. n |-> ""]
size == Len(str)

\* As many bytes are kept as half of the new buffer has.
resize_buf(newsize, buf) == [i \in 1 .. newsize |-> IF i <= newsize \div 2 THEN buf[i] ELSE ""]

Grown(buf, p) == IF p = Len(buf) - 1 THEN resize_buf(2 * Len(buf), buf) ELSE buf

HalfEmpty(buf, p) == p = (Len(buf) \div 2) - 1
Sparse(buf, p) == p = (Len(buf) \div 4) - 1
Shrunk(buf, p) == IF Sparse(buf, p) THEN resize_buf(Len(buf) \div 2, buf) ELSE buf

\* The list after a character.
Counted(ls, ch) == IF ch = "nl" THEN Append(ls, 0) ELSE [ls EXCEPT ![Len(ls)] = @ + 1]

EditorInit ==
    /\ disk \in OldTexts
    /\ str = disk \o Zeros(1)
    /\ pos = 0
    /\ lines = <<0>>
    /\ seen = <<>>
    /\ doing = "load"

\* The text is shown, and its lines are counted.
Show ==
    /\ doing = "load" /\ str[pos + 1] # ""
    /\ lines' = Counted(lines, str[pos + 1])
    /\ seen' = Append(seen, str[pos + 1])
    /\ pos' = pos + 1
    /\ str' = Grown(str, pos + 1)
    /\ UNCHANGED <<disk, doing>>

Loaded ==
    /\ doing = "load" /\ str[pos + 1] = ""
    /\ doing' = "edit"
    /\ str' = Grown(str, pos)
    /\ UNCHANGED <<disk, pos, lines, seen>>

Type ==
    /\ doing = "edit" /\ Len(seen) < MaxText
    /\ \E ch \in Letters :
          /\ str' = Grown([str EXCEPT ![pos + 1] = ch], pos + 1)
          /\ lines' = Counted(lines, ch)
          /\ seen' = Append(seen, ch)
    /\ pos' = pos + 1
    /\ UNCHANGED <<disk, doing>>

NothingToErase == Len(lines) = 1 /\ lines[1] = 0

Erase ==
    /\ doing = "edit" /\ ~NothingToErase
    /\ lines' = IF str[pos] = "nl" THEN Front(lines) ELSE [lines EXCEPT ![Len(lines)] = @ - 1]
    /\ LET buf == Shrunk([str EXCEPT ![pos] = ""], pos - 1)
       IN  str' = Grown(buf, pos - 1)
    /\ pos' = pos - 1
    /\ seen' = Front(seen)
    /\ UNCHANGED <<disk, doing>>

\* What strlen() finds.
Text == SubSeq(str, 1, (CHOOSE n \in 0 .. size - 1 : str[n + 1] = "" /\ \A i \in 1 .. n : str[i] # ""))

(* The file is removed and written anew; a file in use is not removed, and *)
(* the text goes over its beginning.                                       *)
Save ==
    /\ doing = "edit"
    /\ \E refused \in (IF InUse THEN BOOLEAN ELSE {FALSE}) :
          disk' = Text \o (IF refused /\ Len(disk) > Len(Text) THEN SubSeq(disk, Len(Text) + 1, Len(disk)) ELSE <<>>)
    /\ doing' = "done"
    /\ UNCHANGED <<str, pos, lines, seen>>

EditorNext == Show \/ Loaded \/ Type \/ Erase \/ Save
----------------------------------------------------------------------------
\* Lengths of the lines of a text.
LineLengths(text) == FoldLeft(Counted, <<0>>, text)

(* Whatever is typed and erased, and however the buffer is resized, it     *)
(* holds the text the user sees and only zeros behind it, one of them at   *)
(* least, the list has the lines of that text, and the file gets it whole. *)
TextKept ==
    /\ doing # "load" => SubSeq(str, 1, pos) = seen
    /\ doing # "load" => pos < size /\ \A i \in pos + 1 .. size : str[i] = ""
    /\ lines = LineLengths(seen)
    /\ doing = "done" => disk = seen
=============================================================================
