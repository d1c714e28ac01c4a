------------------------------- MODULE Console -------------------------------
(***************************************************************************)
(* The text of a virtual monitor (io_virtual.c): a circular buffer of      *)
(* lines of which a pane is visible, printed to by processes, scrolled by  *)
(* the user, and painted on the screen at every tick unless a process has  *)
(* opened the frame buffer (dev_framebuffer.c).                            *)
(*                                                                         *)
(* One monitor's text is modelled, printed a character at a time: the keys *)
(* arrive between two characters, or between two of the blanks that a tab  *)
(* or a new line consists of, but not inside one.                          *)
(***************************************************************************)
EXTENDS Integers, Sequences

CONSTANTS
    LINE_WIDTH,
    Tab,            \* 8
    Height,         \* lines of the pane: 24
    Lines,          \* lines of the buffer: 1000
    Monitors,       \* 0, 1, ...
    Strings,        \* what is printed, each a sequence of characters and tags
    Tags,           \* the colour tags, {RED} for one, each taken as one symbol
    Scrolls,        \* "any": at any time, "unwrapped": only until the buffer is full
    PrintsScrolled, \* whether processes print while the user has scrolled up
    SwitchDrawing,  \* whether the user switches monitors while something is drawn
    MaxPrints       \* bound on the strings printed

Pane == Height * LINE_WIDTH
BufferSize == Lines * LINE_WIDTH

ASSUME ConsoleAssumption ==
    /\ {LINE_WIDTH, Tab} \subseteq Nat \ {0} /\ LINE_WIDTH % Tab = 0
    /\ Height \in Nat /\ Height >= 2
    /\ Lines \in Nat /\ Lines > Height
    /\ 0 \in Monitors /\ Monitors \subseteq Nat
    /\ Scrolls \in {"any", "unwrapped"}
    /\ {PrintsScrolled, SwitchDrawing} \subseteq BOOLEAN
    /\ \A s \in Strings : s \in Seq({s[i] : i \in DOMAIN s})
    /\ MaxPrints \in Nat

VARIABLES
    vm,             \* the monitor's buffer, vis_begin, offset and limits
    str, fg,        \* what is left of the string being printed, and its colour
    raw,            \* whether the next character is printed whatever it is
    blanks,         \* what is left of a new line or a tab
    text,           \* all that was printed since the start, nothing ever lost
    top,            \* the first line of text in the pane that is printed to
    prints,
    disable_refresh,\* of each monitor
    active,         \* the monitor shown
    drawing         \* the monitors whose processes have the frame buffer open

string == <<str, fg, raw>>
paper == <<text, top>>
page == <<vm, string, blanks, paper, prints>>
shown == <<disable_refresh, active, drawing>>
consoleVars == <<page, shown>>

WHITE == "white"
Blank == <<" ", WHITE>>
Junk  == <<"junk", WHITE>>      \* from mallocn()

NewVirtMonitor ==
    [buffer |-> [i \in 0 .. BufferSize - 1 |-> IF i < 2 * Pane THEN Blank ELSE Junk],
     vis_begin |-> 0, offset |-> 0, scrollup_limit |-> 0, scrolldown_limit |-> 0]

ConsoleInit ==
    /\ vm = NewVirtMonitor
    /\ str = <<>> /\ fg = WHITE /\ raw = FALSE
    /\ blanks = 0
    /\ text = [i \in 0 .. Pane - 1 |-> Blank]
    /\ top = 0
    /\ prints = 0
    /\ disable_refresh = [m \in Monitors |-> FALSE]
    /\ active = 0
    /\ drawing = {}
----------------------------------------------------------------------------
(* virt_monitor_cputc().  The pane moves down before its last cell would   *)
(* be used, and the line that comes into view is cleared.                  *)
ClearedBehind(v) == (v.vis_begin + Pane) % BufferSize
ClearedLine(v) == (v.vis_begin + Pane - LINE_WIDTH) % BufferSize

LinesAboveUnbounded(n) == n + 1
LinesAbove(n) == IF n < Lines - Height THEN n + 1 ELSE n

Scroll(v) ==
    IF v.offset < Pane - 1 THEN v
    ELSE LET moved == [v EXCEPT
                 !.scrollup_limit = LinesAbove(@),
                 !.vis_begin = IF @ + LINE_WIDTH >= BufferSize THEN 0 ELSE @ + LINE_WIDTH,
                 !.offset = @ - LINE_WIDTH]
             line == ClearedLine(moved)
         IN  [moved EXCEPT !.buffer =
                 [i \in DOMAIN @ |-> IF i \in line .. line + LINE_WIDTH - 1 THEN Blank ELSE @[i]]]

Set(v, cell) == [v EXCEPT !.buffer[(v.vis_begin + v.offset) % BufferSize] = cell]

(* The same on paper: a text that grows by a line whenever the pane moves. *)
TopLine == IF vm.offset < Pane - 1 THEN top ELSE top + 1

Paper == [k \in 0 .. (TopLine + Height) * LINE_WIDTH - 1 |->
             IF k \in DOMAIN text THEN text[k] ELSE Blank]

PaperWith(v, cell) == [Paper EXCEPT ![TopLine * LINE_WIDTH + v.offset] = cell]

Put(cell) ==
    LET v == Scroll(vm)
    IN  vm' = [Set(v, cell) EXCEPT !.offset = @ + 1] /\ text' = PaperWith(v, cell) /\ top' = TopLine

BlanksUpTo(width) ==
    LET v == Scroll(vm)
    IN  vm' = v /\ text' = Paper /\ top' = TopLine /\ blanks' = width - (v.offset % width)

Erase ==
    LET v == Scroll(vm)
        b == [v EXCEPT !.offset = @ - 1]
    IN  /\ top' = TopLine
        /\ \/ v.offset = 0 /\ vm' = v /\ text' = Paper
           \/ v.offset > 0 /\ vm' = Set(b, <<" ", fg>>) /\ text' = PaperWith(b, <<" ", fg>>)

Cputc(ch) ==
    \/ ch = "\n" /\ BlanksUpTo(LINE_WIDTH)
    \/ ch = "\t" /\ BlanksUpTo(Tab)
    \/ ch = "BS" /\ Erase /\ UNCHANGED blanks
    \/ ch \notin {"\n", "\t", "BS"} /\ Put(<<ch, fg>>) /\ UNCHANGED blanks
----------------------------------------------------------------------------
(* A process prints a string, and keys arrive between two characters.      *)
MayPrint == PrintsScrolled \/ vm.scrolldown_limit = 0

(* dev_stdout_write().                                                     *)
Write(s) ==
    /\ prints < MaxPrints
    /\ str = <<>> /\ blanks = 0
    /\ prints' = prints + 1
    /\ str' = s /\ fg' = WHITE /\ raw' = FALSE
    /\ UNCHANGED <<vm, blanks, paper, shown>>

(* virt_monitor_cputs(): '#' and a tag set the colour, '##' resets it, and *)
(* the character behind either, or behind a '#' that is printed itself, is *)
(* printed whatever it is.                                                 *)
GetColorTag(s) == IF s # <<>> /\ Head(s) \in Tags THEN Head(s) ELSE WHITE

AtColor ==
    /\ ~raw /\ Head(str) = "#"
    /\ Tail(str) # <<>> /\ Head(Tail(str)) \in Tags \cup {"#"}

Color ==
    /\ str # <<>> /\ blanks = 0
    /\ AtColor
    /\ fg' = GetColorTag(Tail(str))
    /\ str' = Tail(Tail(str))
    /\ raw' = TRUE
    /\ UNCHANGED <<vm, blanks, paper, prints, shown>>

Character ==
    /\ str # <<>> /\ blanks = 0
    /\ ~AtColor
    /\ MayPrint
    /\ Cputc(Head(str))
    /\ raw' = (~raw /\ Head(str) = "#")
    /\ str' = Tail(str)
    /\ UNCHANGED <<fg, prints, shown>>

(* The loops of new lines and tabs.                                        *)
Space ==
    /\ blanks > 0
    /\ MayPrint
    /\ Put(<<" ", fg>>)
    /\ blanks' = blanks - 1
    /\ UNCHANGED <<string, prints, shown>>

(* virt_cursor_move(), by the cursor keys.                                 *)
CursorMove(dir) ==
    /\ ~disable_refresh[0]
    /\ vm' = [vm EXCEPT !.offset =
            LET column == @ % LINE_WIDTH
            IN  CASE dir = "up"    -> (@ + Pane - LINE_WIDTH) % Pane
                  [] dir = "down"  -> (@ + LINE_WIDTH) % Pane
                  [] dir = "left"  -> @ - column + ((column + LINE_WIDTH - 1) % LINE_WIDTH)
                  [] dir = "right" -> @ - column + ((@ + 1) % LINE_WIDTH)]
    /\ UNCHANGED <<string, blanks, paper, prints, shown>>

MayScroll == Scrolls = "any" \/ top + Height <= Lines

ScrollUp ==
    /\ MayScroll
    /\ vm.scrollup_limit > 0
    /\ vm' = [vm EXCEPT !.scrollup_limit = @ - 1,
                        !.vis_begin = IF @ > 0 THEN @ - LINE_WIDTH ELSE BufferSize - LINE_WIDTH,
                        !.scrolldown_limit = @ + 1]
    /\ UNCHANGED <<string, blanks, paper, prints, shown>>

(* vis_begin may get one line behind the end of the buffer here.           *)
ScrollDown ==
    /\ MayScroll
    /\ vm.scrolldown_limit > 0
    /\ vm' = [vm EXCEPT !.scrolldown_limit = @ - 1,
                        !.vis_begin = IF @ < BufferSize THEN @ + LINE_WIDTH ELSE 0,
                        !.scrollup_limit = @ + 1]
    /\ UNCHANGED <<string, blanks, paper, prints, shown>>

(* update_virt_monitor(), at every tick: what the screen shows of a buffer *)
(* when the pane begins at vis, the part at its start copied by itself.    *)
(* (VMONITOR_HEIGHT, compared with cells, counts the bytes of a pane: near *)
(* the end of the buffer another pane at most is copied below this one,    *)
(* into video memory that the screen does not show.)                       *)
Visible(v, vis) ==
    LET ahead == BufferSize - vis
    IN  [i \in 0 .. Pane - 1 |-> IF i < ahead THEN v.buffer[vis + i] ELSE v.buffer[i - ahead]]

(* The frame buffer is opened and closed by a program of monitor m, which  *)
(* the user watches when it starts.                                        *)
FramebufferOpen(m) ==
    /\ m \notin drawing /\ m = active
    /\ disable_refresh' = [disable_refresh EXCEPT ![active] = TRUE]
    /\ drawing' = drawing \cup {m}
    /\ UNCHANGED <<page, active>>

RefreshKept == disable_refresh
RefreshAgain == [disable_refresh EXCEPT ![active] = FALSE]

FramebufferClose(m) ==
    /\ m \in drawing
    /\ disable_refresh' = RefreshAgain
    /\ drawing' = drawing \ {m}
    /\ UNCHANGED <<page, active>>

SwitchMonitor(m) ==
    /\ m # active
    /\ SwitchDrawing \/ drawing = {}
    /\ active' = m
    /\ UNCHANGED <<page, disable_refresh, drawing>>

ConsoleNext ==
    \/ \E s \in Strings : Write(s)
    \/ Color \/ Character \/ Space
    \/ \E dir \in {"up", "down", "left", "right"} : CursorMove(dir)
    \/ ScrollUp \/ ScrollDown
    \/ \E m \in Monitors : FramebufferOpen(m) \/ FramebufferClose(m) \/ SwitchMonitor(m)

ConsoleSpec == ConsoleInit /\ [][ConsoleNext]_consoleVars
----------------------------------------------------------------------------
(* The circular buffer loses nothing that can be scrolled to: the line     *)
(* that is n lines above the pane is the text's, for every n that the user *)
(* can scroll by, in either direction, whatever was printed, erased and    *)
(* overwritten before, and wherever the buffer wraps (io_virtual.c:101-    *)
(* 152, 342-365).                                                          *)
PaneShowsText ==
    \A n \in -vm.scrollup_limit .. vm.scrolldown_limit :
        LET scrolled == Visible(vm, (vm.vis_begin + BufferSize + n * LINE_WIDTH) % BufferSize)
        IN  \A i \in 0 .. Pane - 1 :
                scrolled[i] = text[(top - vm.scrolldown_limit + n) * LINE_WIDTH + i]

(* The limits are what io_virtual.h:67-75 calls them, the lines beneath    *)
(* and above the pane: together all that was printed, or all that fits.    *)
LimitsCountLines ==
    vm.scrollup_limit + vm.scrolldown_limit = (IF top < Lines - Height THEN top ELSE Lines - Height)

(* A monitor is left unpainted exactly while a program of it draws on the  *)
(* screen itself (dev_framebuffer.c:37, 43).                               *)
RefreshOffWhileDrawing == \A m \in Monitors : disable_refresh[m] <=> m \in drawing
=============================================================================
