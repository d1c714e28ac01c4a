---------------------------- MODULE Synthesizer ----------------------------
(***************************************************************************)
(* The synthesizer of apps/synthesizer.c: what is played on the keyboard   *)
(* is printed as text, and the text, saved in a file, is played again.     *)
(* Characters are their codes, a frequency is its note and octave.         *)
(***************************************************************************)
EXTENDS Integers, SequencesExt

CONSTANTS
    Notes,          \* notes that are played, of 0 .. 11
    TopOctave,      \* 7 in the code
    FirstOctave,    \* 4 in the code
    Lengths,        \* ticks a key is held
    InitialLength,  \* tones parse_sound() has room for at first, 16 in the code
    ToneBytes,      \* sizeof(Tone), 8 in the code
    MaxSong,        \* bound: tones of a song
    Width           \* of an int, see Strings

VARIABLES
    octave,
    played,         \* what was heard: tones with their note, octave and duration
    text,           \* what was printed, or is left of it while it is parsed
    ret, length,    \* the tones that were parsed; a tone is JUNK until it is written
    step            \* "play", "parse" or "parsed"

synthVars == <<octave, played, text, ret, length, step>>

Str == INSTANCE Strings

note_names ==
    << <<67>>, <<67, 83, 72>>, <<68>>, <<68, 83, 72>>, <<69>>, <<70>>, <<70, 83, 72>>,
       <<71>>, <<71, 83, 72>>, <<65>>, <<65, 83, 72>>, <<66>> >>

JUNK == [frequency |-> <<>>, duration |-> -2]
PAUSE == <<>>
Blank == 32

SynthInit ==
    /\ octave = FirstOctave
    /\ played = <<>> /\ text = <<>>
    /\ ret = [i \in 1 .. InitialLength |-> JUNK]
    /\ length = 0
    /\ step = "play"

ChangeOctave ==
    /\ step = "play"
    /\ octave' \in {octave - 1, octave + 1} \cap 0 .. TopOctave
    /\ UNCHANGED <<played, text, ret, length, step>>

Printed(note, oct, ticks) == note_names[note + 1] \o Str!itoa(oct, 10) \o <<Blank>> \o Str!itoa(ticks, 10) \o <<Blank>>

handle_note(note, oct) ==
    \E ticks \in Lengths :
        /\ played' = Append(played, [frequency |-> <<note, oct>>, duration |-> ticks])
        /\ text' = text \o Printed(note, oct, ticks)

\* The keys of an octave, and one for the C above it.
synth ==
    /\ step = "play" /\ Len(played) < MaxSong
    /\ \/ \E note \in Notes : handle_note(note, octave)
       \/ octave < TopOctave /\ handle_note(0, octave + 1)
    /\ UNCHANGED <<octave, ret, length, step>>

Leave == step = "play" /\ step' = "parse" /\ UNCHANGED <<octave, played, text, ret, length>>
----------------------------------------------------------------------------
(* parse_sound(): one tone in each step.                                   *)
Common(name, str) ==    \* characters a name has in common with the text
    LET same(n) == n <= Len(str) /\ n <= Len(name) /\ \A i \in 1 .. n : name[i] = str[i]
    IN  CHOOSE n \in 0 .. Len(name) : same(n) /\ ~same(n + 1)

FirstMatch(str) ==
    LET hits == {i \in 1 .. Len(note_names) : Common(note_names[i], str) > 0}
    IN  IF hits = {} THEN 0 ELSE CHOOSE i \in hits : \A j \in hits : i <= j

\* The first of the names that match longest; 0 if none matches.
BestMatch(str) ==
    LET n(i) == Common(note_names[i], str)
        best == {i \in 1 .. Len(note_names) : n(i) > 0 /\ \A j \in 1 .. Len(note_names) : n(j) <= n(i)}
    IN  IF best = {} THEN 0 ELSE CHOOSE i \in best : \A j \in best : i <= j

IsDigit(str) == str # <<>> /\ str[1] \in 48 .. 57

\* The tone at the beginning of a text, and the text behind it, or none.
NONE == [ok |-> FALSE]
Tone(str) ==
    LET here == Str!Skipping(str, Str!isspace)
        best == BestMatch(here)
        rest == IF best = 0 THEN here ELSE SubSeq(here, Common(note_names[best], here) + 1, Len(here))
        oct  == Str!strtol(rest, 10)
        dur  == Str!strtol(IF best = 0 THEN rest ELSE oct.rest, 0)
    IN  IF ~IsDigit(rest) \/ (best # 0 /\ oct.value > TopOctave) \/ dur.value < 0 THEN NONE
        ELSE [ok |-> TRUE, rest |-> dur.rest,
              tone |-> [frequency |-> IF best = 0 THEN PAUSE ELSE <<best - 1, oct.value>>, duration |-> dur.value]]

\* An array twice as long, into which n bytes are copied, not tones. (It gets
\* twice the room that is counted on.)
Expanded(tones, n) == [i \in 1 .. 2 * Len(tones) |-> IF i * ToneBytes <= n THEN tones[i] ELSE JUNK]

Parse ==
    /\ step = "parse" /\ Tone(text).ok
    /\ LET room == IF length + 2 >= Len(ret) THEN Expanded(ret, length) ELSE ret
       IN  ret' = [room EXCEPT ![length + 1] = Tone(text).tone]
    /\ length' = length + 1
    /\ text' = Tone(text).rest
    /\ UNCHANGED <<octave, played, step>>

Sentinel ==
    /\ step = "parse" /\ ~Tone(text).ok
    /\ ret' = [ret EXCEPT ![length + 1] = [frequency |-> PAUSE, duration |-> -1]]
    /\ step' = "parsed"
    /\ UNCHANGED <<octave, played, text, length>>

SynthNext == ChangeOctave \/ synth \/ Leave \/ Parse \/ Sentinel
----------------------------------------------------------------------------
(* What shell_cmd_synth() plays: the tones before the sentinel.            *)
Replayed == SelectInSeq(ret, LAMBDA tone : tone.duration = -1) - 1

SameSong == step = "parsed" => SubSeq(ret, 1, Replayed) = played

(* A song that was played is heard again, tone for tone, from the text it  *)
(* was printed as, if it fits the array parse_sound() begins with: note    *)
(* names are prefixes of others, and the octave and the duration are read  *)
(* in different bases.                                                     *)
SongReadsBack == Len(played) + 2 <= InitialLength => SameSong
=============================================================================
