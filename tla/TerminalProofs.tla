--------------------------- MODULE TerminalProofs ---------------------------
(***************************************************************************)
(* RingBuffer is a queue for every size, every set of bytes and every      *)
(* pattern of reads and writes, as long as no key arrives in the middle of *)
(* a call (~Interrupts).  The keyboard driver in front of it, for any set  *)
(* of keys and characters, never takes a key as held that was let go, and  *)
(* what the ring does under it is still what a queue does.                 *)
(*                                                                         *)
(* The other end of the terminal, at the end: the buffer of a monitor of   *)
(* any size holds the text that was printed, whatever the strings.         *)
(***************************************************************************)
EXTENDS Keyboard, Console, SequenceTheorems, TLAPS

(* The write position is Held places after the read position, and the      *)
(* register holds what len-- is about to change.                           *)
IInv ==
    /\ TypeOK
    /\ end = start + Held \/ end = start + Held - Size
    /\ pc \in {"load", "store"} => len > 0
    /\ pc = "store" => loaded = len
    /\ pc = "count" => len < Size

(* Advancing an index wraps exactly at the end of the array.               *)
LEMMA AdvanceValue ==
    ASSUME NEW i \in Slots
    PROVE  Advance(i) \in Slots /\ Advance(i) = IF i = Size - 1 THEN 0 ELSE i + 1
  BY RingAssumption DEF RingAssumption, Slots, Advance

(* A position fewer than Size places after s wraps at most once.           *)
LEMMA WrapOnce ==
    ASSUME NEW s \in Slots, NEW d \in 0 .. Size
    PROVE  /\ (s + d) % Size \in Slots
           /\ (s + d) % Size = IF s + d < Size THEN s + d ELSE s + d - Size
<1>1. Size \in Nat \ {0}
  BY RingAssumption DEF RingAssumption
<1>2. CASE s + d < Size
  BY <1>1, <1>2 DEF Slots
<1>3. CASE s + d >= Size
  <2>1. PICK x \in 0 .. Size - 1 : s + d = x + Size
    BY <1>1, <1>3 DEF Slots
  <2>2. (x + Size) % Size = x
    BY <1>1
  <2> QED
    BY <1>1, <1>3, <2>1, <2>2 DEF Slots
<1> QED
  BY <1>1, <1>2, <1>3 DEF Slots

(* The empty ring satisfies the invariant.                                 *)
LEMMA InitIInv == Init => IInv
  BY RingAssumption DEF RingAssumption, Init, IInv, TypeOK, Held, Slots

(* Every step of a call, and every key between calls, keeps it.            *)
LEMMA NextIInv ==
    ASSUME ~Interrupts, IInv, [Next]_vars
    PROVE  IInv'
<1> USE RingAssumption DEF RingAssumption, Slots, IInv, TypeOK, Held, fifo, Full
<1>1. CASE UNCHANGED vars
  BY <1>1 DEF vars
<1>2. ASSUME NEW n \in Counts, BeginRead(n) \/ BeginWrite(n) PROVE IInv'
  BY <1>2 DEF BeginRead, BeginWrite
<1>3. CASE Return
  BY <1>3 DEF Return
<1>4. CASE ReadByte
  <2>1. start' \in Slots /\ start' = IF start = Size - 1 THEN 0 ELSE start + 1
    BY <1>4, AdvanceValue DEF ReadByte
  <2>2. pc = "read" /\ len > 0 /\ pc' = "load" /\ count' \in Nat
        /\ UNCHANGED <<data, end, len, loaded>>
    BY <1>4 DEF ReadByte
  <2>3. end = start' + (len - 1) \/ end = start' + (len - 1) - Size
    BY <2>1, <2>2, SMTT(30)
  <2> QED
    BY <2>1, <2>2, <2>3
<1>5. CASE LoadLength
  BY <1>5 DEF LoadLength
<1>6. CASE StoreLength
  BY <1>6 DEF StoreLength
<1>7. ASSUME NEW b \in Bytes, WriteByte(b) PROVE IInv'
  BY <1>7, AdvanceValue, SMTT(30) DEF WriteByte
<1>8. CASE CountByte
  BY <1>8 DEF CountByte
<1>9. ASSUME NEW b \in Bytes, Key(b) PROVE IInv'
  <2>1. end' \in Slots /\ end' = IF end = Size - 1 THEN 0 ELSE end + 1
    BY <1>9, AdvanceValue DEF Key
  <2>2. pc = "idle" /\ len < Size /\ len' = len + 1 /\ data' \in [Slots -> Bytes]
        /\ UNCHANGED <<start, pc, count, loaded>>
    BY <1>9 DEF Key
  <2>3. end' = start + len' \/ end' = start + len' - Size
    BY <2>1, <2>2, SMTT(30)
  <2> QED
    BY <2>1, <2>2, <2>3, SMTT(30)
<1>10. CASE KeyDropped
  BY <1>1, <1>10 DEF KeyDropped
<1> QED
  BY <1>1, <1>2, <1>3, <1>4, <1>5, <1>6, <1>7, <1>8, <1>9, <1>10 DEF Next

(* The inductive invariant of the ring holds in every reachable state.     *)
THEOREM InvariantHolds ==
    ASSUME ~Interrupts PROVE Spec => []IInv
<1>1. Init => IInv
  BY InitIInv
<1>2. IInv /\ [Next]_vars => IInv'
  BY NextIInv
<1> QED
  BY <1>1, <1>2, PTL DEF Spec

(* The positions and the length of every ring stay in range.               *)
THEOREM TypeCorrect ==
    ASSUME ~Interrupts PROVE Spec => []TypeOK
<1>1. IInv => TypeOK
  BY DEF IInv
<1> QED
  BY <1>1, InvariantHolds, PTL

(* rf_getlength() tells the number of used bytes, for every size.          *)
THEOREM LengthCorrect ==
    ASSUME ~Interrupts PROVE Spec => []UsedBytes
<1>1. IInv => UsedBytes
  <2> SUFFICES ASSUME IInv, pc = "idle" PROVE end = (start + len) % Size
    BY DEF UsedBytes
  <2>1. start \in Slots /\ end \in Slots /\ len \in 0 .. Size
        /\ (end = start + len \/ end = start + len - Size)
    BY DEF IInv, TypeOK, Held
  <2>2. (start + len) % Size = IF start + len < Size THEN start + len ELSE start + len - Size
    BY <2>1, WrapOnce
  <2> QED
    BY <2>1, <2>2, RingAssumption DEF RingAssumption, Slots
<1> QED
  BY <1>1, InvariantHolds, PTL
----------------------------------------------------------------------------
ContentsOK ==
    /\ Held \in 0 .. Size
    /\ Contents \in Seq(Bytes)
    /\ Len(Contents) = Held
    /\ \A i \in 1 .. Held : Contents[i] = data[(start + i - 1) % Size]

(* The contents are a sequence of Held bytes.                              *)
LEMMA ContentsSeq == IInv => ContentsOK
<1> SUFFICES ASSUME IInv PROVE ContentsOK
  OBVIOUS
<1>1. Held \in 0 .. Size /\ Size \in Nat \ {0}
  BY RingAssumption DEF RingAssumption, IInv, TypeOK, Held
<1>2. ASSUME NEW i \in 1 .. Held PROVE data[(start + i - 1) % Size] \in Bytes
  <2>1. start \in Slots /\ i - 1 \in 0 .. Size /\ data \in [Slots -> Bytes]
    BY <1>1 DEF IInv, TypeOK
  <2>2. start + i - 1 = start + (i - 1)
    BY <1>1, <2>1 DEF Slots
  <2>3. (start + (i - 1)) % Size \in Slots
    BY <2>1, WrapOnce
  <2> QED
    BY <2>1, <2>2, <2>3
<1>3. Contents \in [1 .. Held -> Bytes]
  BY <1>2 DEF Contents
<1>4. Contents \in Seq(Bytes) /\ Len(Contents) = Held
  BY <1>1, <1>3
<1> QED
  BY <1>1, <1>4 DEF Contents, ContentsOK

(* A byte written at end follows the bytes the ring holds.                 *)
LEMMA Appended ==
    ASSUME IInv, IInv', NEW b \in Bytes, Held < Size, start' = start,
           Held' = Held + 1, data' = [data EXCEPT ![end] = b]
    PROVE  Contents' = Append(Contents, b)
<1>0. Size \in Nat \ {0} /\ start \in Slots /\ end \in Slots /\ data \in [Slots -> Bytes]
      /\ Held \in 0 .. Size /\ (end = start + Held \/ end = start + Held - Size)
  BY RingAssumption, ContentsSeq DEF RingAssumption, IInv, TypeOK, ContentsOK
<1>1. (start + Held) % Size = end
  <2>1. (start + Held) % Size = IF start + Held < Size THEN start + Held ELSE start + Held - Size
    BY <1>0, WrapOnce
  <2> QED
    BY <1>0, <2>1 DEF Slots
<1>2. ASSUME NEW d \in 0 .. Size - 1, d < Held
      PROVE  (start + d) % Size \in Slots /\ (start + d) % Size # end
  <2>1. (start + d) % Size \in Slots
        /\ (start + d) % Size = IF start + d < Size THEN start + d ELSE start + d - Size
    BY <1>0, WrapOnce
  <2> QED
    BY <1>0, <1>2, <2>1 DEF Slots
<1>3. /\ Contents \in Seq(Bytes) /\ Len(Contents) = Held
      /\ \A i \in 1 .. Held : Contents[i] = data[(start + i - 1) % Size]
  BY ContentsSeq DEF ContentsOK
<1>4. /\ Contents' \in Seq(Bytes) /\ Len(Contents') = Held + 1
      /\ \A i \in 1 .. Held + 1 : Contents'[i] = data'[(start + i - 1) % Size]
  <2>1. ContentsOK'
    BY ContentsSeq, PTL
  <2> QED
    BY <2>1 DEF ContentsOK
<1>5. /\ Append(Contents, b) \in Seq(Bytes) /\ Len(Append(Contents, b)) = Held + 1
      /\ Append(Contents, b)[Held + 1] = b
      /\ \A i \in 1 .. Held : Append(Contents, b)[i] = Contents[i]
  BY <1>0, <1>3
<1>6. ASSUME NEW i \in 1 .. Held + 1 PROVE Contents'[i] = Append(Contents, b)[i]
  <2>1. CASE i = Held + 1
    <3>1. start + i - 1 = start + Held
      BY <1>0, <2>1 DEF Slots
    <3>2. Contents'[i] = data'[end]
      BY <1>1, <1>4, <3>1
    <3>3. data'[end] = b
      BY <1>0
    <3> QED
      BY <1>5, <2>1, <3>2, <3>3
  <2>2. CASE i # Held + 1
    <3>1. i \in 1 .. Held /\ i - 1 \in 0 .. Size - 1 /\ i - 1 < Held /\ start + i - 1 = start + (i - 1)
      BY <1>0, <2>2 DEF Slots
    <3>2. (start + (i - 1)) % Size \in Slots /\ (start + (i - 1)) % Size # end
      BY <1>2, <3>1
    <3>3. data'[(start + i - 1) % Size] = data[(start + i - 1) % Size]
      BY <1>0, <3>1, <3>2
    <3> QED
      BY <1>3, <1>4, <1>5, <3>1, <3>3
  <2> QED
    BY <2>1, <2>2
<1> QED
  BY <1>4, <1>5, <1>6, SeqEqual

(* Moving the read position takes the oldest byte and keeps the rest.      *)
LEMMA Taken ==
    ASSUME IInv, IInv', Held > 0, start' = Advance(start), Held' = Held - 1, data' = data
    PROVE  Contents # <<>> /\ Contents' = Tail(Contents)
<1>0. Size \in Nat \ {0} /\ start \in Slots /\ Held \in 0 .. Size
      /\ start' \in Slots /\ start' = IF start = Size - 1 THEN 0 ELSE start + 1
  BY RingAssumption, ContentsSeq, AdvanceValue DEF RingAssumption, IInv, TypeOK, ContentsOK
<1>1. /\ Contents \in Seq(Bytes) /\ Len(Contents) = Held
      /\ \A i \in 1 .. Held : Contents[i] = data[(start + i - 1) % Size]
  BY ContentsSeq DEF ContentsOK
<1>2. /\ Contents' \in Seq(Bytes) /\ Len(Contents') = Held - 1
      /\ \A i \in 1 .. Held - 1 : Contents'[i] = data[(start' + i - 1) % Size]
  <2>1. ContentsOK'
    BY ContentsSeq, PTL
  <2> QED
    BY <2>1 DEF ContentsOK
<1>3. Contents # <<>>
  BY <1>0, <1>1
<1>4. /\ Tail(Contents) \in Seq(Bytes) /\ Len(Tail(Contents)) = Held - 1
      /\ \A i \in 1 .. Held - 1 : Tail(Contents)[i] = Contents[i + 1]
  BY <1>1, <1>3, HeadTailProperties
<1>5. ASSUME NEW i \in 1 .. Held - 1 PROVE Contents'[i] = Tail(Contents)[i]
  <2>1. i - 1 \in 0 .. Size /\ i \in 0 .. Size /\ i + 1 \in 1 .. Held
        /\ start' + i - 1 = start' + (i - 1) /\ start + (i + 1) - 1 = start + i
    BY <1>0 DEF Slots
  <2>2. (start' + (i - 1)) % Size = IF start' + (i - 1) < Size THEN start' + (i - 1)
                                    ELSE start' + (i - 1) - Size
    BY <1>0, <2>1, WrapOnce
  <2>3. (start + i) % Size = IF start + i < Size THEN start + i ELSE start + i - Size
    BY <1>0, <2>1, WrapOnce
  <2>4. (start' + (i - 1)) % Size = (start + i) % Size
    BY <1>0, <2>1, <2>2, <2>3 DEF Slots
  <2> QED
    BY <1>1, <1>2, <1>4, <2>1, <2>4, SMTT(30)
<1> QED
  BY <1>2, <1>3, <1>4, <1>5, SeqEqual

(* Every step of the ring is a step of the queue, or leaves it alone.      *)
LEMMA StepRefines ==
    ASSUME ~Interrupts, IInv, IInv', [Next]_vars
    PROVE  [Queue!Next]_Contents
<1> USE DEF Queue!Next, Queue!Append1, Queue!Take1
<1>1. CASE UNCHANGED <<data, start, Held>>
  BY <1>1 DEF Contents
<1>2. CASE ReadByte
  <2>1. Held > 0 /\ Held' = Held - 1
    BY <1>2 DEF ReadByte, Held, IInv, TypeOK
  <2> QED
    BY <1>2, <2>1, Taken DEF ReadByte
<1>3. ASSUME NEW b \in Bytes, WriteByte(b) \/ Key(b)
      PROVE  [Queue!Next]_Contents
  <2>1. Held < Size /\ Held' = Held + 1 /\ start' = start /\ data' = [data EXCEPT ![end] = b]
    BY <1>3, RingAssumption DEF RingAssumption, WriteByte, Key, Full, Held, IInv, TypeOK
  <2>2. Contents' = Append(Contents, b)
    BY <2>1, Appended
  <2>3. Len(Contents) < Size
    BY <2>1, ContentsSeq DEF ContentsOK
  <2> QED
    BY <2>2, <2>3
<1>4. CASE UNCHANGED vars \/ KeyDropped
  <2>1. UNCHANGED <<data, start, Held>>
    BY <1>4 DEF vars, KeyDropped, Held
  <2> QED
    BY <1>1, <2>1
<1>5. ASSUME NEW n \in Counts, BeginRead(n) \/ BeginWrite(n) PROVE UNCHANGED <<data, start, Held>>
  BY <1>5 DEF BeginRead, BeginWrite, fifo, Held
<1>6. CASE Return \/ LoadLength
  <2>1. UNCHANGED <<data, start, Held>>
    BY <1>6 DEF Return, LoadLength, fifo, Held
  <2> QED
    BY <1>1, <2>1
<1>7. CASE StoreLength \/ CountByte
  <2>1. UNCHANGED <<data, start, Held>>
    BY <1>7 DEF StoreLength, CountByte, Held, IInv, TypeOK
  <2> QED
    BY <1>1, <2>1
<1> QED
  BY <1>1, <1>2, <1>3, <1>4, <1>5, <1>6, <1>7 DEF Next

(* The ring buffer of every size is a first-in first-out queue: the        *)
(* refinement that ImplementsQueue states.                                 *)
THEOREM RingIsQueue ==
    ASSUME ~Interrupts PROVE Spec => ImplementsQueue
<1>1. Init => Queue!Init
  <2> SUFFICES ASSUME Init PROVE Contents = <<>>
    BY DEF Queue!Init
  <2>1. IInv /\ Held = 0
    BY InitIInv DEF Init, Held
  <2>2. Contents \in Seq(Bytes) /\ Len(Contents) = 0
    BY <2>1, ContentsSeq DEF ContentsOK
  <2> QED
    BY <2>2, EmptySeq
<1>2. IInv /\ IInv' /\ [Next]_vars => [Queue!Next]_Contents
  BY StepRefines
<1> QED
  BY <1>1, <1>2, InvariantHolds, PTL DEF Spec, ImplementsQueue, Queue!Spec
----------------------------------------------------------------------------
(* The driver that feeds the ring.                                         *)
allVars == <<vars, keyboardVars>>

(* Every branch of kb_handler() only records the key being pressed, and    *)
(* every release clears what that key alone may have set.                  *)
LEMMA NothingStuckStep == NothingStuck /\ [KeyboardNext]_allVars => NothingStuck'
<1> SUFFICES ASSUME NothingStuck, [KeyboardNext]_allVars PROVE NothingStuck'
  OBVIOUS
<1> USE DEF NothingStuck, modifiers
<1>1. CASE UNCHANGED keyboardVars
  BY <1>1 DEF keyboardVars
<1>2. CASE UNCHANGED allVars \/ Process
  BY <1>1, <1>2 DEF allVars, Process
<1>3. ASSUME NEW k \in Keys, Press(k) PROVE NothingStuck'
  <2>1. down' = down \cup {k}
    BY <1>3 DEF Press
  <2>2. CASE PressedUnderShift(k) \/ PressedUnderAlt(k) \/ PressedUnderCtrl(k)
    <3>1. UNCHANGED <<keyboard_state, modifiers>>
      BY <2>2 DEF PressedUnderShift, PressedUnderAlt, PressedUnderCtrl
    <3> QED
      BY <2>1, <3>1
  <2>3. CASE PressedAlone(k)
    BY <2>1, <2>3 DEF PressedAlone
  <2> QED
    BY <1>3, <2>2, <2>3 DEF Press
<1>4. ASSUME NEW k \in Keys, Release(k) PROVE NothingStuck'
  BY <1>4 DEF Release, ClearsShift
<1> QED
  BY <1>2, <1>3, <1>4 DEF KeyboardNext

(* Whatever is pressed, repeated and released in whatever order, no key    *)
(* and no modifier stays recorded that the user has let go.                *)
THEOREM NoKeySticks == KeyboardSpec => []NothingStuck
<1>1. KeyboardInit => NothingStuck
  BY DEF KeyboardInit, NothingStuck
<1> QED
  BY <1>1, NothingStuckStep, PTL DEF KeyboardSpec, allVars
----------------------------------------------------------------------------
(* pm_handle_input() either writes its character to the ring as the        *)
(* keyboard interrupt, drops it, or leaves the ring alone.                 *)
LEMMA TypedIsRingStep ==
    ASSUME NEW ch \in Bytes \cup {NUL}, Typed(ch)
    PROVE  [Next]_vars
<1>1. CASE ch = NUL
  BY <1>1 DEF Typed, vars, fifo
<1>2. CASE ch # NUL
  BY <1>2 DEF Typed, Next
<1> QED
  BY <1>1, <1>2

(* The driver and the reading process only touch the ring by its own steps.*)
LEMMA DriverStepsAreRingSteps == [KeyboardNext]_allVars => [Next]_vars
<1> SUFFICES ASSUME [KeyboardNext]_allVars PROVE [Next]_vars
  OBVIOUS
<1>1. CASE UNCHANGED allVars
  BY <1>1 DEF allVars
<1>2. CASE Process
  BY <1>2 DEF Process, Next
<1>3. ASSUME NEW k \in Keys, Press(k) PROVE [Next]_vars
  <2>1. /\ kb_map[k] \in Bytes \cup {NUL}
        /\ kb_shift_map[k] \in Bytes \cup {NUL}
        /\ kb_alt_map[k] \in Bytes \cup {NUL}
    BY KeyboardAssumption DEF KeyboardAssumption
  <2>2. CASE PressedUnderCtrl(k)
    BY <2>2 DEF PressedUnderCtrl, vars, fifo
  <2>3. CASE PressedUnderShift(k) \/ PressedUnderAlt(k) \/ PressedAlone(k)
    <3>1. Typed(kb_shift_map[k]) \/ Typed(kb_alt_map[k]) \/ Typed(kb_map[k])
      BY <2>3 DEF PressedUnderShift, PressedUnderAlt, PressedAlone
    <3> QED
      BY <2>1, <3>1, TypedIsRingStep
  <2> QED
    BY <1>3, <2>2, <2>3 DEF Press
<1>4. ASSUME NEW k \in Keys, Release(k) PROVE [Next]_vars
  BY <1>4 DEF Release, vars, fifo
<1> QED
  BY <1>1, <1>2, <1>3, <1>4 DEF KeyboardNext

(* The driver implements the ring it is built on.                          *)
THEOREM DriverRefinesRing == KeyboardSpec => Spec
<1>1. KeyboardInit => Init
  BY DEF KeyboardInit
<1> QED
  BY <1>1, DriverStepsAreRingSteps, PTL DEF KeyboardSpec, Spec, allVars

(* As long as no key arrives in the middle of a call, the process reads    *)
(* what was typed, in the order it was typed, through every shortcut,      *)
(* modifier and dropped key.                                               *)
THEOREM TypingIsQueued ==
    ASSUME ~Interrupts PROVE KeyboardSpec => ImplementsQueue
  BY DriverRefinesRing, RingIsQueue

(* The positions and the length of the ring stay in range under the driver.*)
THEOREM KeyboardTypeCorrect ==
    ASSUME ~Interrupts PROVE KeyboardSpec => []TypeOK
  BY DriverRefinesRing, TypeCorrect
-----------------------------------------------------------------------------
(***************************************************************************)
(* The monitor.  A cell is found from the position of its character in the *)
(* text by remainders, a line at a time in the code: first what is needed  *)
(* of those.                                                               *)
(***************************************************************************)

(* Quotient and remainder.                                                 *)
LEMMA Division ==
    ASSUME NEW a \in Nat, NEW n \in Nat \ {0}
    PROVE  /\ a \div n \in Nat /\ a % n \in 0 .. n - 1
           /\ a = n * (a \div n) + (a % n)
  OBVIOUS

(* Multiplying keeps the order.                                            *)
LEMMA Monotone ==
    ASSUME NEW a \in Nat, NEW b \in Nat, NEW c \in Nat, a <= b
    PROVE  c * a \in Nat /\ c * b \in Nat /\ c * a <= c * b
<1> DEFINE d == b - a
<1>1. d \in Nat /\ b = a + d
  OBVIOUS
<1> HIDE DEF d
<1>2. c * (a + d) = c * a + c * d /\ c * d \in Nat /\ c * a \in Nat
  BY <1>1
<1> QED
  BY <1>1, <1>2

(* Two numbers less than n apart leave different remainders.               *)
LEMMA Apart ==
    ASSUME NEW n \in Nat \ {0}, NEW a \in Nat, NEW b \in Nat, a < b, b < a + n
    PROVE  a % n # b % n
<1> SUFFICES ASSUME a % n = b % n PROVE FALSE
  OBVIOUS
<1> DEFINE k == a \div n
           l == b \div n
           r == a % n
<1>1. k \in Nat /\ l \in Nat /\ r \in 0 .. n - 1 /\ a = n * k + r /\ b = n * l + r
  BY Division
<1> HIDE DEF k, l, r
<1>2. CASE l <= k
  BY <1>1, <1>2, Monotone
<1>3. CASE l >= k + 1
  <2>1. n * (k + 1) <= n * l /\ n * (k + 1) = n * k + n /\ n * k \in Nat /\ n * l \in Nat
    BY <1>1, <1>3, Monotone
  <2> QED
    BY <1>1, <2>1
<1> QED
  BY <1>1, <1>2, <1>3

(* A remainder is known by the quotient that belongs to it.                *)
LEMMA Remainder ==
    ASSUME NEW n \in Nat \ {0}, NEW q \in Nat, NEW r \in 0 .. n - 1
    PROVE  (n * q + r) % n = r
<1> DEFINE a == n * q + r
           k == a \div n
           s == a % n
<1>1. a \in Nat /\ a = n * q + r
  OBVIOUS
<1> HIDE DEF a
<1>2. k \in Nat /\ s \in 0 .. n - 1 /\ a = n * k + s
  BY <1>1, Division
<1> HIDE DEF k, s
<1>3. CASE k = q
  BY <1>1, <1>2, <1>3 DEF a, s
<1>4. CASE k >= q + 1
  <2>1. n * (q + 1) <= n * k /\ n * (q + 1) = n * q + n /\ n * q \in Nat /\ n * k \in Nat
    BY <1>2, <1>4, Monotone
  <2> QED
    BY <1>1, <1>2, <2>1
<1>5. CASE q >= k + 1
  <2>1. n * (k + 1) <= n * q /\ n * (k + 1) = n * k + n /\ n * q \in Nat /\ n * k \in Nat
    BY <1>2, <1>5, Monotone
  <2> QED
    BY <1>1, <1>2, <2>1
<1> QED
  BY <1>2, <1>3, <1>4, <1>5

(* What wraps twice might as well wrap once.                               *)
LEMMA WrapsTwice ==
    ASSUME NEW n \in Nat \ {0}, NEW a \in Nat, NEW b \in Nat
    PROVE  ((a % n) + b) % n = (a + b) % n
<1> DEFINE c == (a % n) + b
           k == a \div n
           l == c \div n
           r == c % n
<1>1. k \in Nat /\ a % n \in Nat /\ a = n * k + (a % n) /\ c \in Nat
  BY Division
<1>2. l \in Nat /\ r \in 0 .. n - 1 /\ c = n * l + r
  <2> HIDE DEF c
  <2> QED
    BY <1>1, Division
<1>3. a + b = n * k + c
  BY <1>1
<1>4. (a + b) % n = r
  <2> HIDE DEF c, k, l, r
  <2>1. n * (k + l) = n * k + n * l /\ k + l \in Nat /\ n * k \in Nat /\ n * l \in Nat
    BY <1>1, <1>2
  <2>2. a + b = n * (k + l) + r
    BY <1>2, <1>3, <2>1
  <2>3. (n * (k + l) + r) % n = r
    BY <1>2, <2>1, Remainder
  <2> QED
    BY <2>2, <2>3
<1> QED
  BY <1>4

(* The next line is the one after, or the first.                           *)
LEMMA NextLine ==
    ASSUME NEW n \in Nat \ {0}, NEW t \in Nat
    PROVE  (t + 1) % n = IF t % n = n - 1 THEN 0 ELSE (t % n) + 1
<1> DEFINE q == t \div n
           r == t % n
<1>1. q \in Nat /\ r \in 0 .. n - 1 /\ t = n * q + r
  BY Division
<1> HIDE DEF q, r
<1>2. n * (q + 1) = n * q + n /\ n * q \in Nat
  BY <1>1
<1>3. CASE r = n - 1
  <2>1. t + 1 = n * (q + 1) + 0
    BY <1>1, <1>2, <1>3
  <2>2. (n * (q + 1) + 0) % n = 0
    BY <1>1, Remainder
  <2> QED
    BY <1>3, <2>1, <2>2 DEF r
<1>4. CASE r # n - 1
  <2>1. t + 1 = n * q + (r + 1) /\ r + 1 \in 0 .. n - 1
    BY <1>1, <1>2, <1>4
  <2>2. (n * q + (r + 1)) % n = r + 1
    BY <1>1, <2>1, Remainder
  <2> QED
    BY <1>4, <2>1, <2>2 DEF r
<1> QED
  BY <1>3, <1>4 DEF r
-----------------------------------------------------------------------------
(* What is in a cell, and what may be printed.                             *)
Symbols == {" ", "junk"} \cup UNION {{s[i] : i \in DOMAIN s} : s \in Strings}
Colors == Tags \cup {WHITE}
Cell == Symbols \X Colors

\* The starts of lines, and the end of the buffer.
Starts == {LINE_WIDTH * k : k \in 0 .. Lines}

VirtMonitor ==
    [buffer : [0 .. BufferSize - 1 -> Cell], vis_begin : Starts, offset : 0 .. Pane - 1,
     scrollup_limit : Nat, scrolldown_limit : Nat]

(* How many lines above the pane the buffer still has, when it is at line t. *)
Kept(t) == IF t < Lines - Height THEN t ELSE Lines - Height

CountsAbove(v, t) == v.scrollup_limit + v.scrolldown_limit = Kept(t)

(* The pane begins at line t of the text, less what the user has scrolled, *)
(* and the buffer has the text x of all lines that are kept.               *)
Lasting(t) == (t - Kept(t)) * LINE_WIDTH .. (t + Height) * LINE_WIDTH - 1

Shows(v, t, x) ==
    /\ v.vis_begin = LINE_WIDTH * ((t - v.scrolldown_limit) % Lines)
    /\ v.scrolldown_limit > 0 => t + Height <= Lines
    /\ \A p \in Lasting(t) : v.buffer[p % BufferSize] = x[p]

(* Only the active monitor is drawn on.                                    *)
Drawing ==
    /\ drawing \subseteq Monitors /\ disable_refresh \in [Monitors -> BOOLEAN] /\ active \in Monitors
    /\ drawing \subseteq {active}
    /\ RefreshOffWhileDrawing

Page(v, t, x) ==
    /\ v \in VirtMonitor /\ t \in Nat /\ x \in [0 .. (t + Height) * LINE_WIDTH - 1 -> Cell]
    /\ ~PrintsScrolled => CountsAbove(v, t)
    /\ ~PrintsScrolled /\ Scrolls = "unwrapped" => Shows(v, t, x)

ConsoleInv ==
    /\ Page(vm, top, text)
    /\ str \in Seq(Symbols) /\ fg \in Colors /\ blanks \in Nat
    /\ ~SwitchDrawing => Drawing

(* The sizes, multiplied out.                                              *)
LEMMA Sizes ==
    /\ LINE_WIDTH \in Nat \ {0} /\ Tab \in Nat \ {0} /\ Height \in Nat /\ Lines \in Nat
    /\ Height >= 2 /\ Lines >= Height + 1
    /\ Pane \in Nat /\ Pane >= 2 * LINE_WIDTH
    /\ BufferSize \in Nat \ {0} /\ Pane + LINE_WIDTH <= BufferSize
<1>1. /\ LINE_WIDTH \in Nat \ {0} /\ Tab \in Nat \ {0} /\ Height \in Nat /\ Lines \in Nat
      /\ Height >= 2 /\ Lines >= Height + 1
  BY ConsoleAssumption DEF ConsoleAssumption
<1>2. Pane \in Nat /\ BufferSize \in Nat
  BY <1>1 DEF Pane, BufferSize
<1>3. LINE_WIDTH * 2 <= LINE_WIDTH * Height /\ LINE_WIDTH * (Height + 1) <= LINE_WIDTH * Lines
  BY <1>1, Monotone
<1>4. /\ LINE_WIDTH * (Height + 1) = Pane + LINE_WIDTH /\ LINE_WIDTH * Height = Pane
      /\ LINE_WIDTH * Lines = BufferSize
  BY <1>1 DEF Pane, BufferSize
<1> QED
  BY <1>1, <1>2, <1>3, <1>4

(* From one line to the next and back.                                     *)
LEMMA Stepwise ==
    /\ 0 \in Starts /\ BufferSize - LINE_WIDTH \in Starts
    /\ \A i \in Starts :
        /\ i \in 0 .. BufferSize
        /\ i < BufferSize => i + LINE_WIDTH \in Starts
        /\ i > 0 => i - LINE_WIDTH \in Starts
<1>1. 0 = LINE_WIDTH * 0 /\ BufferSize - LINE_WIDTH = LINE_WIDTH * (Lines - 1)
      /\ 0 \in 0 .. Lines /\ Lines - 1 \in 0 .. Lines /\ BufferSize = LINE_WIDTH * Lines
  BY Sizes DEF BufferSize
<1>2. 0 \in Starts /\ BufferSize - LINE_WIDTH \in Starts
  BY <1>1 DEF Starts
<1>3. ASSUME NEW k \in 0 .. Lines
      PROVE  LET i == LINE_WIDTH * k
             IN  /\ i \in 0 .. BufferSize
                 /\ i < BufferSize => i + LINE_WIDTH \in Starts
                 /\ i > 0 => i - LINE_WIDTH \in Starts
  <2> DEFINE i == LINE_WIDTH * k
  <2>1. i \in Nat /\ i <= BufferSize
    BY <1>1, Sizes, Monotone
  <2>2. k < Lines => i + LINE_WIDTH = LINE_WIDTH * (k + 1) /\ k + 1 \in 0 .. Lines
    BY Sizes
  <2>3. k > 0 => i - LINE_WIDTH = LINE_WIDTH * (k - 1) /\ k - 1 \in 0 .. Lines
    BY Sizes
  <2>4. (k = Lines => i = BufferSize) /\ (k = 0 => i = 0)
    BY <1>1
  <2> HIDE DEF i
  <2>5. (i < BufferSize => k < Lines) /\ (i > 0 => k > 0)
    BY <2>1, <2>4, Sizes
  <2> QED
    BY <2>1, <2>2, <2>3, <2>5, Sizes DEF Starts, i
<1> QED
  BY <1>2, <1>3 DEF Starts

(* Where line t of the text is in the buffer.                              *)
LEMMA LineStart ==
    ASSUME NEW t \in Nat, NEW c \in 0 .. LINE_WIDTH - 1
    PROVE  /\ t % Lines \in 0 .. Lines - 1
           /\ LINE_WIDTH * (t % Lines) \in Nat
           /\ LINE_WIDTH * (t % Lines) + LINE_WIDTH <= BufferSize
           /\ (t * LINE_WIDTH + c) % BufferSize = LINE_WIDTH * (t % Lines) + c
<1> DEFINE q == t \div Lines
           r == t % Lines
<1>1. q \in Nat /\ r \in 0 .. Lines - 1 /\ t = Lines * q + r
  <2>1. Lines \in Nat \ {0}
    BY Sizes
  <2> HIDE DEF q, r
  <2> QED
    BY <2>1, Division DEF q, r
<1> HIDE DEF q, r
<1>2. LINE_WIDTH * (r + 1) <= LINE_WIDTH * Lines /\ LINE_WIDTH * r \in Nat
  BY <1>1, Sizes, Monotone
<1>3. LINE_WIDTH * (r + 1) = LINE_WIDTH * r + LINE_WIDTH /\ LINE_WIDTH * Lines = BufferSize
  BY <1>1, Sizes DEF BufferSize
<1>4. LINE_WIDTH * r + c \in 0 .. BufferSize - 1
  BY <1>2, <1>3, Sizes
<1>5. t * LINE_WIDTH + c = BufferSize * q + (LINE_WIDTH * r + c)
  BY <1>1, Sizes DEF BufferSize
<1>6. (BufferSize * q + (LINE_WIDTH * r + c)) % BufferSize = LINE_WIDTH * r + c
  BY <1>1, <1>4, Sizes, Remainder
<1> QED
  BY <1>1, <1>2, <1>3, <1>5, <1>6 DEF r

(* Where the cell o cells behind the start of line t is.                   *)
LEMMA CellAt ==
    ASSUME NEW t \in Nat, NEW o \in Nat
    PROVE  /\ t * LINE_WIDTH \in Nat
           /\ (LINE_WIDTH * (t % Lines) + o) % BufferSize = (t * LINE_WIDTH + o) % BufferSize
           /\ (t * LINE_WIDTH + o) % BufferSize \in 0 .. BufferSize - 1
<1> DEFINE a == t * LINE_WIDTH
<1>1. a \in Nat
  BY Sizes
<1>2. a % BufferSize = LINE_WIDTH * (t % Lines)
  <2>1. 0 \in 0 .. LINE_WIDTH - 1
    BY Sizes
  <2>2. (a + 0) % BufferSize = LINE_WIDTH * (t % Lines) + 0 /\ LINE_WIDTH * (t % Lines) \in Nat
    BY <2>1, LineStart
  <2> HIDE DEF a
  <2> QED
    BY <1>1, <2>2
<1> HIDE DEF a
<1>3. ((a % BufferSize) + o) % BufferSize = (a + o) % BufferSize
  BY <1>1, Sizes, WrapsTwice
<1>4. a + o \in Nat /\ (a + o) % BufferSize \in 0 .. BufferSize - 1
  BY <1>1, Sizes, Division
<1> QED
  BY <1>1, <1>2, <1>3, <1>4 DEF a

(* The lines that are kept fit in the buffer, and what moves out of them   *)
(* when the pane moves is at most the oldest.                              *)
LEMMA KeptLines ==
    ASSUME NEW t \in Nat
    PROVE  /\ Kept(t) \in 0 .. t /\ Kept(t) <= Lines - Height
           /\ Kept(t + 1) \in {Kept(t), Kept(t) + 1}
           /\ t * LINE_WIDTH \in Nat /\ (t + 1) * LINE_WIDTH = t * LINE_WIDTH + LINE_WIDTH
           /\ (t + Height) * LINE_WIDTH = t * LINE_WIDTH + Pane
           /\ (t + 1 + Height) * LINE_WIDTH = t * LINE_WIDTH + Pane + LINE_WIDTH
           /\ (t - Kept(t)) * LINE_WIDTH \in Nat
           /\ (t - Kept(t)) * LINE_WIDTH <= t * LINE_WIDTH
           /\ (t + Height) * LINE_WIDTH <= (t - Kept(t)) * LINE_WIDTH + BufferSize
           /\ (t - Kept(t)) * LINE_WIDTH <= ((t + 1) - Kept(t + 1)) * LINE_WIDTH
<1>1. /\ Kept(t) \in 0 .. t /\ Kept(t) <= Lines - Height
      /\ Kept(t + 1) \in {Kept(t), Kept(t) + 1}
  BY Sizes DEF Kept
<1>2. /\ t * LINE_WIDTH \in Nat /\ (t + 1) * LINE_WIDTH = t * LINE_WIDTH + LINE_WIDTH
      /\ (t + Height) * LINE_WIDTH = t * LINE_WIDTH + Pane
      /\ (t + 1 + Height) * LINE_WIDTH = t * LINE_WIDTH + Pane + LINE_WIDTH
  BY Sizes DEF Pane
<1> DEFINE f == t - Kept(t)
           g == (t + 1) - Kept(t + 1)
<1>3. f \in Nat /\ g \in Nat /\ f <= t /\ t + Height <= f + Lines /\ f <= g
  BY <1>1, Sizes
<1> HIDE DEF f, g
<1>4. /\ LINE_WIDTH * f \in Nat /\ LINE_WIDTH * f <= LINE_WIDTH * t
      /\ LINE_WIDTH * (t + Height) <= LINE_WIDTH * (f + Lines)
      /\ LINE_WIDTH * f <= LINE_WIDTH * g
  BY <1>3, Sizes, Monotone
<1>5. /\ LINE_WIDTH * f = f * LINE_WIDTH /\ LINE_WIDTH * g = g * LINE_WIDTH
      /\ LINE_WIDTH * t = t * LINE_WIDTH
      /\ LINE_WIDTH * (t + Height) = (t + Height) * LINE_WIDTH
      /\ LINE_WIDTH * (f + Lines) = f * LINE_WIDTH + BufferSize
  BY <1>3, Sizes DEF BufferSize
<1>6. f * LINE_WIDTH \in Nat /\ f * LINE_WIDTH <= t * LINE_WIDTH
      /\ (t + Height) * LINE_WIDTH <= f * LINE_WIDTH + BufferSize
      /\ f * LINE_WIDTH <= g * LINE_WIDTH
  BY <1>4, <1>5
<1> QED
  BY <1>1, <1>2, <1>6 DEF f, g
-----------------------------------------------------------------------------
LEMMA Blanks == Blank \in Cell /\ Junk \in Cell /\ (\A c \in Colors : <<" ", c>> \in Cell) /\ WHITE \in Colors
  BY DEF Blank, Junk, Cell, Symbols, Colors

(* A cell of the pane is written, and nothing else.                        *)
LEMMA SetIs ==
    ASSUME NEW v \in VirtMonitor, NEW cell \in Cell
    PROVE  LET i == (v.vis_begin + v.offset) % BufferSize
               w == Set(v, cell)
           IN  /\ i \in 0 .. BufferSize - 1
               /\ w \in VirtMonitor
               /\ w.buffer = [v.buffer EXCEPT ![i] = cell]
               /\ w.vis_begin = v.vis_begin /\ w.offset = v.offset
               /\ w.scrollup_limit = v.scrollup_limit /\ w.scrolldown_limit = v.scrolldown_limit
<1> DEFINE i == (v.vis_begin + v.offset) % BufferSize
<1>1. i \in 0 .. BufferSize - 1
  <2>1. v.vis_begin + v.offset \in Nat /\ BufferSize \in Nat \ {0}
    <3>1. v.vis_begin \in Starts /\ v.offset \in 0 .. Pane - 1
      BY DEF VirtMonitor
    <3>2. v.vis_begin \in 0 .. BufferSize
      BY <3>1, Stepwise
    <3> QED
      BY <3>1, <3>2, Sizes
  <2> QED
    BY <2>1, Division
<1>2. Set(v, cell) = [v EXCEPT !.buffer = [@ EXCEPT ![i] = cell]]
  BY DEF Set
<1> HIDE DEF i
<1> QED
  BY <1>1, <1>2 DEF VirtMonitor, i

(* Only the offset is changed.                                             *)
LEMMA OffsetIs ==
    ASSUME NEW v \in VirtMonitor, NEW o \in 0 .. Pane - 1
    PROVE  LET w == [v EXCEPT !.offset = o]
           IN  /\ w \in VirtMonitor
               /\ w.offset = o
               /\ w.buffer = v.buffer /\ w.vis_begin = v.vis_begin
               /\ w.scrollup_limit = v.scrollup_limit /\ w.scrolldown_limit = v.scrolldown_limit
  BY DEF VirtMonitor

(* Before a character is printed the pane moves if the cursor is in its    *)
(* last cell, and the cursor is in front of the last cell then.            *)
LEMMA ScrollIs ==
    ASSUME NEW v \in VirtMonitor
    PROVE  LET w == Scroll(v)
               line == (w.vis_begin + Pane - LINE_WIDTH) % BufferSize
           IN  /\ w \in VirtMonitor /\ w.offset \in 0 .. Pane - 2
               /\ w.scrolldown_limit = v.scrolldown_limit
               /\ v.offset < Pane - 1 => w = v
               /\ v.offset >= Pane - 1 =>
                    /\ w.scrollup_limit = LinesAbove(v.scrollup_limit)
                    /\ w.vis_begin = IF v.vis_begin + LINE_WIDTH >= BufferSize THEN 0
                                     ELSE v.vis_begin + LINE_WIDTH
                    /\ w.buffer = [i \in 0 .. BufferSize - 1 |->
                                      IF i \in line .. line + LINE_WIDTH - 1 THEN Blank ELSE v.buffer[i]]
<1>1. v.offset \in 0 .. Pane - 1 /\ v.vis_begin \in Starts /\ v.buffer \in [0 .. BufferSize - 1 -> Cell]
      /\ v.scrollup_limit \in Nat
  BY DEF VirtMonitor
<1>2. CASE v.offset < Pane - 1
  <2>1. Scroll(v) = v
    BY <1>2 DEF Scroll
  <2>2. Pane \in Nat /\ v.offset \in 0 .. Pane - 2 /\ ~(v.offset >= Pane - 1)
    BY <1>1, <1>2, Sizes
  <2> QED
    BY <2>1, <2>2
<1>3. CASE ~(v.offset < Pane - 1)
  <2> DEFINE vis == IF v.vis_begin + LINE_WIDTH >= BufferSize THEN 0 ELSE v.vis_begin + LINE_WIDTH
             moved == [v EXCEPT !.scrollup_limit = LinesAbove(@), !.vis_begin = vis,
                                !.offset = @ - LINE_WIDTH]
             line == (vis + Pane - LINE_WIDTH) % BufferSize
             cleared == [i \in 0 .. BufferSize - 1 |->
                            IF i \in line .. line + LINE_WIDTH - 1 THEN Blank ELSE v.buffer[i]]
  <2>1. /\ v.offset - LINE_WIDTH \in 0 .. Pane - 2 /\ vis \in Starts
        /\ LinesAbove(v.scrollup_limit) \in Nat
    BY <1>1, <1>3, Sizes, Stepwise DEF LinesAbove
  <2>2. cleared \in [0 .. BufferSize - 1 -> Cell]
    BY <1>1, Blanks
  <2>3. Scroll(v) = [moved EXCEPT !.buffer = cleared]
    <3>1. moved.vis_begin = vis /\ moved.buffer = v.buffer
      BY DEF VirtMonitor
    <3>2. ClearedLine(moved) = line
      BY <3>1 DEF ClearedLine
    <3> HIDE DEF line, vis
    <3>3. [moved EXCEPT !.buffer =
             [i \in DOMAIN @ |-> IF i \in line .. line + LINE_WIDTH - 1 THEN Blank ELSE @[i]]]
          = [moved EXCEPT !.buffer = cleared]
      BY <1>1, <3>1
    <3> QED
      BY <1>3, <3>2, <3>3 DEF Scroll, vis
  <2> HIDE DEF cleared, line, vis
  <2>4. /\ Scroll(v) \in VirtMonitor
        /\ Scroll(v).offset = v.offset - LINE_WIDTH /\ Scroll(v).vis_begin = vis
        /\ Scroll(v).scrollup_limit = LinesAbove(v.scrollup_limit)
        /\ Scroll(v).scrolldown_limit = v.scrolldown_limit
        /\ Scroll(v).buffer = cleared
    <3>1. Pane - 2 <= Pane - 1 /\ 0 .. Pane - 2 \subseteq 0 .. Pane - 1
      BY Sizes
    <3> QED
      BY <2>1, <2>2, <2>3, <3>1 DEF VirtMonitor
  <2> QED
    BY <1>3, <2>1, <2>4 DEF cleared, line, vis
<1> QED
  BY <1>2, <1>3

(* The paper grows with the pane.                                          *)
LEMMA PaperIs ==
    ASSUME Page(vm, top, text)
    PROVE  /\ TopLine \in Nat /\ Paper \in [0 .. (TopLine + Height) * LINE_WIDTH - 1 -> Cell]
           /\ \A k \in 0 .. (TopLine + Height) * LINE_WIDTH - 1 :
                Paper[k] = IF k \in 0 .. (top + Height) * LINE_WIDTH - 1 THEN text[k] ELSE Blank
           /\ vm.offset < Pane - 1 => Paper = text
<1>1. TopLine \in Nat
  BY DEF Page, TopLine
<1>2. DOMAIN text = 0 .. (top + Height) * LINE_WIDTH - 1
      /\ text \in [0 .. (top + Height) * LINE_WIDTH - 1 -> Cell]
  BY DEF Page
<1>3. vm.offset < Pane - 1 => TopLine = top
  BY DEF TopLine
<1>4. Paper = [k \in 0 .. (TopLine + Height) * LINE_WIDTH - 1 |->
                  IF k \in 0 .. (top + Height) * LINE_WIDTH - 1 THEN text[k] ELSE Blank]
  BY <1>2 DEF Paper
<1>5. Paper \in [0 .. (TopLine + Height) * LINE_WIDTH - 1 -> Cell]
  BY <1>2, <1>4, Blanks
<1> QED
  BY <1>1, <1>2, <1>3, <1>4, <1>5

(* Every cell of the pane is on paper.                                     *)
LEMMA OnPaper ==
    ASSUME NEW t \in Nat, NEW o \in 0 .. Pane - 1
    PROVE  t * LINE_WIDTH + o \in 0 .. (t + Height) * LINE_WIDTH - 1
<1> DEFINE a == t * LINE_WIDTH
           b == (t + Height) * LINE_WIDTH
<1>1. a \in Nat /\ b = a + Pane /\ Pane \in Nat
  BY KeptLines, Sizes
<1> HIDE DEF a, b
<1>2. a + o \in 0 .. b - 1
  BY <1>1
<1> QED
  BY <1>2 DEF a, b
-----------------------------------------------------------------------------
(* The pane moves, and the buffer still shows the text.                    *)
LEMMA ScrolledShows ==
    ASSUME Page(vm, top, text), Shows(vm, top, text), vm.scrolldown_limit = 0, vm.offset >= Pane - 1
    PROVE  Shows(Scroll(vm), top + 1, Paper)
<1> DEFINE w == Scroll(vm)
           t == top
           a == t * LINE_WIDTH
           b == (t + Height) * LINE_WIDTH
           c == (t + 1 + Height) * LINE_WIDTH
           oldest == (t - Kept(t)) * LINE_WIDTH
           second == ((t + 1) - Kept(t + 1)) * LINE_WIDTH
           line == LINE_WIDTH * ((t + Height) % Lines)
<1>1. t \in Nat /\ vm \in VirtMonitor /\ TopLine = t + 1
  <2>1. ~(vm.offset < Pane - 1)
    BY Sizes DEF Page, VirtMonitor
  <2> QED
    BY <2>1 DEF Page, TopLine
<1>2. /\ vm.vis_begin = LINE_WIDTH * (t % Lines)
      /\ \A p \in oldest .. b - 1 : vm.buffer[p % BufferSize] = text[p]
  <2>1. t - 0 = t
    BY <1>1
  <2> QED
    BY <2>1 DEF Shows, Lasting
<1>3. w.vis_begin = LINE_WIDTH * ((t + 1) % Lines)
  <2> DEFINE r == t % Lines
  <2>1. r \in 0 .. Lines - 1 /\ (t + 1) % Lines = IF r = Lines - 1 THEN 0 ELSE r + 1
    <3>1. Lines \in Nat \ {0}
      BY Sizes
    <3> QED
      BY <1>1, <3>1, Division, NextLine
  <2>2. w.vis_begin = IF LINE_WIDTH * r + LINE_WIDTH >= BufferSize THEN 0 ELSE LINE_WIDTH * r + LINE_WIDTH
    BY <1>1, <1>2, ScrollIs
  <2> HIDE DEF r, w
  <2>3. LINE_WIDTH * r + LINE_WIDTH = LINE_WIDTH * (r + 1) /\ LINE_WIDTH * (r + 1) \in Nat
    BY <2>1, Sizes
  <2>4. CASE r = Lines - 1
    <3>1. LINE_WIDTH * (r + 1) = BufferSize /\ LINE_WIDTH * 0 = 0
      BY <2>4, Sizes DEF BufferSize
    <3> QED
      BY <2>1, <2>2, <2>3, <2>4, <3>1
  <2>5. CASE r # Lines - 1
    <3>1. /\ LINE_WIDTH * (r + 2) <= LINE_WIDTH * Lines
          /\ LINE_WIDTH * (r + 2) = LINE_WIDTH * (r + 1) + LINE_WIDTH
          /\ LINE_WIDTH * Lines = BufferSize
      BY <2>1, <2>5, Sizes, Monotone DEF BufferSize
    <3>2. ~(LINE_WIDTH * r + LINE_WIDTH >= BufferSize)
      BY <2>3, <3>1, Sizes
    <3> QED
      BY <2>1, <2>2, <2>3, <2>5, <3>2
  <2> QED
    BY <2>4, <2>5
<1>4. /\ a \in Nat /\ b = a + Pane /\ c = a + Pane + LINE_WIDTH
      /\ oldest \in Nat /\ second \in Nat /\ oldest <= second /\ c <= second + BufferSize
  <2>1. t + 1 \in Nat
    BY <1>1
  <2> HIDE DEF t
  <2> QED
    BY <1>1, <2>1, KeptLines
<1>5. /\ line \in Nat /\ line + LINE_WIDTH <= BufferSize
      /\ \A k \in 0 .. LINE_WIDTH - 1 : (b + k) % BufferSize = line + k
  <2>1. t + Height \in Nat /\ 0 \in 0 .. LINE_WIDTH - 1
    BY <1>1, Sizes
  <2> HIDE DEF t
  <2> QED
    BY <2>1, LineStart
<1>6. (w.vis_begin + Pane - LINE_WIDTH) % BufferSize = line
  <2> DEFINE o == Pane - LINE_WIDTH
  <2>1. t + 1 \in Nat /\ o \in Nat /\ (t + 1) * LINE_WIDTH = a + LINE_WIDTH
        /\ LINE_WIDTH * ((t + 1) % Lines) \in Nat
    BY <1>1, Sizes, KeptLines, LineStart
  <2>2. (LINE_WIDTH * ((t + 1) % Lines) + o) % BufferSize = ((t + 1) * LINE_WIDTH + o) % BufferSize
    BY <2>1, CellAt
  <2> HIDE DEF a, b, line, w
  <2>3. (t + 1) * LINE_WIDTH + o = b + 0 /\ 0 \in 0 .. LINE_WIDTH - 1 /\ line + 0 = line
    BY <1>4, <1>5, <2>1, Sizes
  <2>4. w.vis_begin + Pane - LINE_WIDTH = LINE_WIDTH * ((t + 1) % Lines) + o
    BY <1>3, <2>1, Sizes
  <2> QED
    BY <1>5, <2>2, <2>3, <2>4
<1>7. w.buffer = [i \in 0 .. BufferSize - 1 |->
                     IF i \in line .. line + LINE_WIDTH - 1 THEN Blank ELSE vm.buffer[i]]
  <2> DEFINE l == (w.vis_begin + Pane - LINE_WIDTH) % BufferSize
  <2>1. w.buffer = [i \in 0 .. BufferSize - 1 |->
                       IF i \in l .. l + LINE_WIDTH - 1 THEN Blank ELSE vm.buffer[i]]
    BY <1>1, ScrollIs, Zenon
  <2>2. l = line
    BY <1>6
  <2> HIDE DEF line, l, w
  <2> QED
    BY <2>1, <2>2
<1>8. \A k \in 0 .. c - 1 : Paper[k] = IF k \in 0 .. b - 1 THEN text[k] ELSE Blank
  BY <1>1, PaperIs
<1>9. w.scrolldown_limit = 0
  BY <1>1, ScrollIs
<1> HIDE DEF a, b, c, oldest, second, line, w
<1>10. ASSUME NEW p \in second .. c - 1
       PROVE  w.buffer[p % BufferSize] = Paper[p]
  <2>1. p \in Nat /\ p \in 0 .. c - 1 /\ p % BufferSize \in 0 .. BufferSize - 1
    <3>1. p \in Nat /\ p \in 0 .. c - 1
      BY <1>4, Sizes
    <3> QED
      BY <3>1, Sizes, Division
  <2>2. CASE p >= b
    <3>1. p - b \in 0 .. LINE_WIDTH - 1 /\ b + (p - b) = p /\ ~(p \in 0 .. b - 1)
      BY <1>4, <2>1, <2>2, Sizes
    <3>2. p % BufferSize = line + (p - b)
      BY <1>5, <3>1
    <3>3. p % BufferSize \in line .. line + LINE_WIDTH - 1
      BY <1>5, <3>1, <3>2, Sizes
    <3> QED
      BY <1>7, <1>8, <2>1, <3>1, <3>3
  <2>3. CASE p < b
    <3>1. p \in oldest .. b - 1 /\ p \in 0 .. b - 1
      BY <1>4, <2>1, <2>3, Sizes
    <3>2. ASSUME p % BufferSize \in line .. line + LINE_WIDTH - 1 PROVE FALSE
      <4> DEFINE k == (p % BufferSize) - line
      <4>1. k \in 0 .. LINE_WIDTH - 1 /\ p % BufferSize = line + k
        BY <1>5, <2>1, <3>2, Sizes
      <4> HIDE DEF k
      <4>2. b + k \in Nat /\ p < b + k /\ b + k < p + BufferSize
        BY <1>4, <2>1, <2>3, <4>1, Sizes
      <4> QED
        BY <1>5, <2>1, <4>1, <4>2, Sizes, Apart
    <3> QED
      BY <1>2, <1>7, <1>8, <2>1, <3>1, <3>2
  <2> QED
    BY <1>4, <2>1, <2>2, <2>3, Sizes
<1>11. (t + 1) - w.scrolldown_limit = t + 1
  BY <1>1, <1>9
<1>12. \A p \in Lasting(t + 1) : w.buffer[p % BufferSize] = Paper[p]
  <2>1. Lasting(t + 1) = second .. c - 1
    BY DEF Lasting, c, second
  <2> QED
    BY <1>10, <2>1, Zenon
<1>13. w.vis_begin = LINE_WIDTH * (((t + 1) - w.scrolldown_limit) % Lines) /\ ~(w.scrolldown_limit > 0)
  BY <1>3, <1>9, <1>11
<1> QED
  BY <1>12, <1>13 DEF Shows, w

LEMMA ScrolledPage ==
    ASSUME Page(vm, top, text), MayPrint
    PROVE  Page(Scroll(vm), TopLine, Paper)
<1>1. vm \in VirtMonitor /\ top \in Nat /\ vm.offset \in 0 .. Pane - 1 /\ Scroll(vm) \in VirtMonitor
  BY ScrollIs DEF Page, VirtMonitor
<1>2. CASE vm.offset < Pane - 1
  <2>1. Scroll(vm) = vm /\ TopLine = top /\ Paper = text
    BY <1>1, <1>2, ScrollIs, PaperIs DEF TopLine
  <2> QED
    BY <2>1
<1>3. CASE ~(vm.offset < Pane - 1)
  <2>1. TopLine = top + 1 /\ top + 1 \in Nat /\ vm.offset >= Pane - 1
    BY <1>1, <1>3, Sizes DEF TopLine
  <2>2. Paper \in [0 .. (top + 1 + Height) * LINE_WIDTH - 1 -> Cell]
    BY <2>1, PaperIs
  <2>3. ASSUME ~PrintsScrolled PROVE CountsAbove(Scroll(vm), top + 1)
    <3>1. /\ vm.scrolldown_limit = 0 /\ vm.scrollup_limit \in Nat
          /\ vm.scrollup_limit + vm.scrolldown_limit = Kept(top)
      BY <1>1, <2>3 DEF MayPrint, Page, CountsAbove, VirtMonitor
    <3>2. /\ Scroll(vm).scrollup_limit = LinesAbove(vm.scrollup_limit)
          /\ Scroll(vm).scrolldown_limit = vm.scrolldown_limit
      BY <1>1, <2>1, ScrollIs
    <3>3. LinesAbove(Kept(top)) = Kept(top + 1) /\ Kept(top + 1) \in Nat
      BY <1>1, Sizes DEF LinesAbove, Kept
    <3>4. vm.scrollup_limit = Kept(top) /\ Kept(top + 1) + 0 = Kept(top + 1)
      BY <3>1, <3>3
    <3> QED
      BY <3>1, <3>2, <3>3, <3>4 DEF CountsAbove
  <2>4. ASSUME ~PrintsScrolled, Scrolls = "unwrapped" PROVE Shows(Scroll(vm), top + 1, Paper)
    BY <2>1, <2>4, ScrolledShows DEF Page, MayPrint
  <2> QED
    BY <1>1, <2>1, <2>2, <2>3, <2>4 DEF Page
<1> QED
  BY <1>2, <1>3

(* A cell written in the buffer and on paper.                              *)
LEMMA WrittenPage ==
    ASSUME NEW v, NEW t, NEW x, NEW cell \in Cell,
           Page(v, t, x), ~PrintsScrolled => v.scrolldown_limit = 0
    PROVE  Page(Set(v, cell), t, [x EXCEPT ![t * LINE_WIDTH + v.offset] = cell])
<1> DEFINE w == Set(v, cell)
           o == v.offset
           q == t * LINE_WIDTH + o
           y == [x EXCEPT ![q] = cell]
           i == (v.vis_begin + o) % BufferSize
<1>1. /\ v \in VirtMonitor /\ t \in Nat /\ o \in 0 .. Pane - 1
      /\ x \in [0 .. (t + Height) * LINE_WIDTH - 1 -> Cell]
  BY DEF Page, VirtMonitor
<1>2. q \in 0 .. (t + Height) * LINE_WIDTH - 1
  BY <1>1, OnPaper
<1>3. /\ i \in 0 .. BufferSize - 1
      /\ w \in VirtMonitor
      /\ w.buffer = [v.buffer EXCEPT ![i] = cell]
      /\ w.vis_begin = v.vis_begin /\ w.offset = v.offset
      /\ w.scrollup_limit = v.scrollup_limit /\ w.scrolldown_limit = v.scrolldown_limit
  BY <1>1, SetIs
<1> HIDE DEF w, o, q, i
<1>4. y \in [0 .. (t + Height) * LINE_WIDTH - 1 -> Cell]
  BY <1>1
<1>5. ~PrintsScrolled => CountsAbove(w, t)
  BY <1>3 DEF Page, CountsAbove
<1>6. ASSUME ~PrintsScrolled, Scrolls = "unwrapped" PROVE Shows(w, t, y)
  <2>1. Shows(v, t, x) /\ v.scrolldown_limit = 0
    BY <1>6 DEF Page
  <2>2. i = q % BufferSize
    <3>1. t - v.scrolldown_limit = t
      BY <1>1, <2>1
    <3>2. v.vis_begin = LINE_WIDTH * (t % Lines) /\ o \in Nat
      BY <1>1, <2>1, <3>1 DEF Shows
    <3> QED
      BY <1>1, <3>2, CellAt DEF i, q
  <2> DEFINE b == (t + Height) * LINE_WIDTH
             oldest == (t - Kept(t)) * LINE_WIDTH
  <2>3. oldest \in Nat /\ b <= oldest + BufferSize /\ oldest <= q /\ b \in Nat /\ Lasting(t) = oldest .. b - 1
    <3>1. oldest \in Nat /\ b <= oldest + BufferSize /\ oldest <= t * LINE_WIDTH /\ t * LINE_WIDTH \in Nat
          /\ b = t * LINE_WIDTH + Pane
      BY <1>1, KeptLines
    <3> DEFINE a == t * LINE_WIDTH
    <3> HIDE DEF a, b, oldest
    <3>2. oldest \in Nat /\ b <= oldest + BufferSize /\ oldest <= a + o /\ b \in Nat
      BY <1>1, <3>1, Sizes DEF a
    <3> QED
      BY <3>2, Zenon DEF a, b, q, oldest, Lasting
  <2>4. q \in 0 .. b - 1 /\ x \in [0 .. b - 1 -> Cell]
    BY <1>1, <1>2
  <2>5. \A p \in oldest .. b - 1 : v.buffer[p % BufferSize] = x[p]
    BY <2>1, <2>3 DEF Shows
  <2> HIDE DEF b, oldest, y
  <2>6. ASSUME NEW p \in oldest .. b - 1 PROVE w.buffer[p % BufferSize] = y[p]
    <3>1. p \in Nat /\ p \in 0 .. b - 1
      BY <2>3
    <3>2. p % BufferSize \in 0 .. BufferSize - 1
      BY <3>1, Sizes, Division
    <3>3. v.buffer \in [0 .. BufferSize - 1 -> Cell]
      BY <1>1 DEF VirtMonitor
    <3>4. CASE p = q
      BY <1>3, <2>2, <2>4, <3>3, <3>4 DEF y
    <3>5. CASE p # q
      <4>1. p % BufferSize # i
        <5>1. q \in Nat /\ p < q + BufferSize /\ q < p + BufferSize
          BY <2>3, <2>4, <3>1, Sizes
        <5>2. CASE p < q
          BY <2>2, <3>1, <5>1, <5>2, Sizes, Apart
        <5>3. CASE q < p
          BY <2>2, <3>1, <5>1, <5>3, Sizes, Apart
        <5> QED
          BY <3>1, <3>5, <5>1, <5>2, <5>3
      <4> QED
        BY <1>3, <2>4, <2>5, <3>1, <3>2, <3>3, <3>5, <4>1 DEF y
    <3> QED
      BY <3>4, <3>5
  <2>7. \A p \in Lasting(t) : w.buffer[p % BufferSize] = y[p]
    BY <2>3, <2>6
  <2> QED
    BY <1>3, <2>1, <2>7 DEF Shows
<1> QED
  BY <1>1, <1>3, <1>4, <1>5, <1>6 DEF Page, w, q, o

(* The cursor moves.                                                       *)
LEMMA MovedPage ==
    ASSUME NEW v, NEW t, NEW x, NEW o \in 0 .. Pane - 1, Page(v, t, x)
    PROVE  Page([v EXCEPT !.offset = o], t, x)
<1> DEFINE w == [v EXCEPT !.offset = o]
<1>1. /\ w \in VirtMonitor
      /\ w.buffer = v.buffer /\ w.vis_begin = v.vis_begin
      /\ w.scrollup_limit = v.scrollup_limit /\ w.scrolldown_limit = v.scrolldown_limit
  BY OffsetIs DEF Page
<1> HIDE DEF w
<1>2. Page(w, t, x)
  BY <1>1 DEF Page, CountsAbove, Shows
<1> QED
  BY <1>2 DEF w
-----------------------------------------------------------------------------
(* What is smaller than n is its own remainder.                            *)
LEMMA Unwrapped ==
    ASSUME NEW n \in Nat \ {0}, NEW a \in 0 .. n - 1
    PROVE  a % n = a
<1>1. (n * 0 + a) % n = a
  BY Remainder
<1> QED
  BY <1>1

(* A new monitor.                                                          *)
LEMMA InitConsole == ConsoleInit => ConsoleInv
<1> SUFFICES ASSUME ConsoleInit PROVE ConsoleInv
  OBVIOUS
<1>1. /\ vm = NewVirtMonitor /\ top = 0 /\ text = [i \in 0 .. Pane - 1 |-> Blank]
      /\ str = <<>> /\ fg = WHITE /\ blanks = 0
      /\ disable_refresh = [m \in Monitors |-> FALSE] /\ active = 0 /\ drawing = {}
  BY DEF ConsoleInit
<1>2. (0 + Height) * LINE_WIDTH = Pane /\ 0 * LINE_WIDTH = 0 /\ LINE_WIDTH * 0 = 0
  BY Sizes DEF Pane
<1>3. vm \in VirtMonitor
  <2> DEFINE buf == [i \in 0 .. BufferSize - 1 |-> IF i < 2 * Pane THEN Blank ELSE Junk]
  <2>1. buf \in [0 .. BufferSize - 1 -> Cell]
    BY Blanks
  <2>2. 0 \in Starts /\ 0 \in 0 .. Pane - 1 /\ 0 \in Nat
    BY Sizes, Stepwise
  <2>3. vm = [buffer |-> buf, vis_begin |-> 0, offset |-> 0, scrollup_limit |-> 0, scrolldown_limit |-> 0]
    BY <1>1 DEF NewVirtMonitor
  <2> HIDE DEF buf
  <2> QED
    BY <2>1, <2>2, <2>3 DEF VirtMonitor
<1>4. Kept(0) = 0
  BY Sizes DEF Kept
<1>5. CountsAbove(vm, 0)
  BY <1>1, <1>4 DEF CountsAbove, NewVirtMonitor
<1>6. Shows(vm, 0, text)
  <2>1. 0 % Lines = 0
    BY Sizes, Unwrapped
  <2>2. vm.vis_begin = LINE_WIDTH * ((0 - vm.scrolldown_limit) % Lines) /\ ~(vm.scrolldown_limit > 0)
    <3>1. vm.vis_begin = 0 /\ vm.scrolldown_limit = 0 /\ 0 - 0 = 0
      BY <1>1 DEF NewVirtMonitor
    <3> QED
      BY <1>2, <2>1, <3>1
  <2>3. Lasting(0) = 0 .. Pane - 1
    <3>1. 0 - Kept(0) = 0
      BY <1>4
    <3> QED
      BY <1>2, <3>1 DEF Lasting
  <2>4. ASSUME NEW p \in 0 .. Pane - 1 PROVE vm.buffer[p % BufferSize] = text[p]
    <3>1. p \in 0 .. BufferSize - 1 /\ p < 2 * Pane
      BY Sizes
    <3>2. p % BufferSize = p
      BY <3>1, Sizes, Unwrapped
    <3> QED
      BY <1>1, <3>1, <3>2 DEF NewVirtMonitor
  <2> QED
    BY <2>2, <2>3, <2>4 DEF Shows
<1>7. text \in [0 .. (0 + Height) * LINE_WIDTH - 1 -> Cell]
  BY <1>1, <1>2, Blanks
<1>8. Page(vm, top, text)
  BY <1>1, <1>3, <1>5, <1>6, <1>7 DEF Page
<1>9. Drawing
  BY <1>1, ConsoleAssumption DEF ConsoleAssumption, Drawing, RefreshOffWhileDrawing
<1>10. <<>> \in Seq(Symbols) /\ 0 \in Nat
  OBVIOUS
<1> QED
  BY <1>1, <1>8, <1>9, <1>10, Blanks, Zenon DEF ConsoleInv

(* A printed character, a space of a tab or a new line.                    *)
LEMMA PutKeeps ==
    ASSUME Page(vm, top, text), MayPrint, NEW cell \in Cell, Put(cell)
    PROVE  Page(vm, top, text)'
<1> DEFINE v == Scroll(vm)
           w == Set(v, cell)
<1>1. vm' = [w EXCEPT !.offset = w.offset + 1] /\ top' = TopLine
      /\ text' = [Paper EXCEPT ![TopLine * LINE_WIDTH + v.offset] = cell]
  BY DEF Put, PaperWith
<1>2. v \in VirtMonitor /\ v.offset \in 0 .. Pane - 2 /\ v.scrolldown_limit = vm.scrolldown_limit
  BY ScrollIs DEF Page
<1>3. Page(v, TopLine, Paper)
  BY ScrolledPage
<1>4. Page(w, TopLine, text')
  BY <1>1, <1>2, <1>3, WrittenPage DEF MayPrint
<1>5. w.offset = v.offset
  BY <1>2, SetIs
<1>6. w.offset + 1 \in 0 .. Pane - 1
  BY <1>2, <1>5, Sizes
<1> HIDE DEF v, w
<1>7. Page([w EXCEPT !.offset = w.offset + 1], TopLine, text')
  BY <1>4, <1>6, MovedPage
<1> QED
  BY <1>1, <1>7 DEF Page, CountsAbove, Shows

(* A tab or a new line begins.                                             *)
LEMMA BlanksKeep ==
    ASSUME Page(vm, top, text), MayPrint, NEW width \in Nat \ {0}, BlanksUpTo(width)
    PROVE  Page(vm, top, text)' /\ blanks' \in Nat
<1>1. vm' = Scroll(vm) /\ top' = TopLine /\ text' = Paper /\ blanks' = width - (Scroll(vm).offset % width)
  BY DEF BlanksUpTo
<1>2. Page(Scroll(vm), TopLine, Paper)
  BY ScrolledPage
<1>3. Scroll(vm).offset \in Nat
  <2>1. Scroll(vm).offset \in 0 .. Pane - 2
    BY ScrollIs DEF Page
  <2> QED
    BY <2>1, Sizes
<1>4. Scroll(vm).offset % width \in 0 .. width - 1
  BY <1>3, Division
<1> QED
  BY <1>1, <1>2, <1>4 DEF Page, CountsAbove, Shows

(* A backspace.                                                            *)
LEMMA EraseKeeps ==
    ASSUME Page(vm, top, text), MayPrint, fg \in Colors, Erase
    PROVE  Page(vm, top, text)'
<1> DEFINE v == Scroll(vm)
           b == [v EXCEPT !.offset = @ - 1]
           cell == <<" ", fg>>
<1>1. top' = TopLine
  BY DEF Erase
<1>2. v \in VirtMonitor /\ v.offset \in 0 .. Pane - 2 /\ v.scrolldown_limit = vm.scrolldown_limit
  BY ScrollIs DEF Page
<1>3. Page(v, TopLine, Paper)
  BY ScrolledPage
<1>4. CASE v.offset = 0 /\ vm' = v /\ text' = Paper
  BY <1>1, <1>3, <1>4 DEF Page, CountsAbove, Shows
<1>5. CASE v.offset > 0 /\ vm' = Set(b, cell) /\ text' = PaperWith(b, cell)
  <2>1. b = [v EXCEPT !.offset = v.offset - 1] /\ v.offset - 1 \in 0 .. Pane - 1
    <3>1. b = [v EXCEPT !.offset = v.offset - 1]
      OBVIOUS
    <3> DEFINE o == v.offset
    <3>2. o > 0 /\ o \in 0 .. Pane - 2 /\ Pane \in Nat
      BY <1>2, <1>5, Sizes
    <3> HIDE DEF o
    <3>3. o - 1 \in 0 .. Pane - 1
      BY <3>2
    <3> QED
      BY <3>1, <3>3 DEF o
  <2>2. Page(b, TopLine, Paper)
    <3> HIDE DEF v, b
    <3> QED
      BY <1>3, <2>1, MovedPage
  <2>3. b.scrolldown_limit = vm.scrolldown_limit /\ cell \in Cell
    BY <1>2, Blanks DEF VirtMonitor
  <2>4. Page(Set(b, cell), TopLine, [Paper EXCEPT ![TopLine * LINE_WIDTH + b.offset] = cell])
    <3> HIDE DEF v, b, cell
    <3> QED
      BY <2>2, <2>3, WrittenPage DEF MayPrint
  <2> QED
    BY <1>1, <1>5, <2>4 DEF PaperWith, Page, CountsAbove, Shows
<1> QED
  BY <1>4, <1>5 DEF Erase

(* Any character.                                                          *)
LEMMA CputcKeeps ==
    ASSUME ConsoleInv, MayPrint, NEW ch \in Symbols, Cputc(ch)
    PROVE  Page(vm, top, text)' /\ blanks' \in Nat
<1>1. Page(vm, top, text) /\ fg \in Colors /\ blanks \in Nat
  BY DEF ConsoleInv
<1>2. CASE ch = "\n" /\ BlanksUpTo(LINE_WIDTH)
  BY <1>1, <1>2, Sizes, BlanksKeep
<1>3. CASE ch = "\t" /\ BlanksUpTo(Tab)
  BY <1>1, <1>3, Sizes, BlanksKeep
<1>4. CASE ch = "BS" /\ Erase /\ UNCHANGED blanks
  BY <1>1, <1>4, EraseKeeps
<1>5. CASE Put(<<ch, fg>>) /\ UNCHANGED blanks
  <2>1. <<ch, fg>> \in Cell
    BY <1>1 DEF Cell
  <2> QED
    BY <1>1, <1>5, <2>1, PutKeeps
<1> QED
  BY <1>2, <1>3, <1>4, <1>5 DEF Cputc

(* A string ends up as symbols, and stays so while it is printed.          *)
LEMMA StringOfSymbols ==
    ASSUME NEW s \in Strings
    PROVE  s \in Seq(Symbols)
<1> DEFINE S == {s[i] : i \in DOMAIN s}
<1>1. s \in Seq(S)
  BY ConsoleAssumption DEF ConsoleAssumption
<1>2. S \subseteq Symbols
  BY DEF Symbols
<1> HIDE DEF S
<1> QED
  BY <1>1, <1>2

LEMMA WriteKeeps ==
    ASSUME ConsoleInv, NEW s \in Strings, Write(s)
    PROVE  ConsoleInv'
<1>1. str' \in Seq(Symbols) /\ fg' \in Colors /\ blanks' \in Nat
  BY StringOfSymbols, Blanks DEF ConsoleInv, Write
<1>2. UNCHANGED <<vm, top, text>>
  BY DEF Write, paper
<1>3. UNCHANGED shown
  BY DEF Write
<1> QED
  BY <1>1, <1>2, <1>3
  DEF ConsoleInv, Page, CountsAbove, Shows, Drawing, RefreshOffWhileDrawing, shown

LEMMA ColorKeeps ==
    ASSUME ConsoleInv, Color
    PROVE  ConsoleInv'
<1>1. str \in Seq(Symbols) /\ str # <<>> /\ Tail(str) # <<>>
  BY DEF ConsoleInv, Color, AtColor
<1>2. Tail(str) \in Seq(Symbols)
  BY <1>1
<1>3. Tail(Tail(str)) \in Seq(Symbols)
  BY <1>1, <1>2
<1>4. str' \in Seq(Symbols) /\ fg' \in Colors /\ blanks' \in Nat
  BY <1>3 DEF ConsoleInv, Color, GetColorTag, Colors
<1>5. UNCHANGED <<vm, top, text>> /\ UNCHANGED shown
  BY DEF Color, paper
<1> QED
  BY <1>4, <1>5
  DEF ConsoleInv, Page, CountsAbove, Shows, Drawing, RefreshOffWhileDrawing, shown

LEMMA CharacterKeeps ==
    ASSUME ConsoleInv, Character
    PROVE  ConsoleInv'
<1>1. str \in Seq(Symbols) /\ str # <<>>
  BY DEF ConsoleInv, Character
<1>2. Head(str) \in Symbols /\ Tail(str) \in Seq(Symbols)
  BY <1>1
<1>3. Page(vm, top, text)' /\ blanks' \in Nat
  BY <1>2, CputcKeeps DEF Character
<1>4. str' = Tail(str) /\ fg' = fg /\ UNCHANGED shown
  BY DEF Character
<1> QED
  BY <1>2, <1>3, <1>4 DEF ConsoleInv, Drawing, RefreshOffWhileDrawing, shown

LEMMA SpaceKeeps ==
    ASSUME ConsoleInv, Space
    PROVE  ConsoleInv'
<1>1. <<" ", fg>> \in Cell
  BY Blanks DEF ConsoleInv
<1>2. Page(vm, top, text)'
  BY <1>1, PutKeeps DEF ConsoleInv, Space
<1>3. blanks' \in Nat /\ str' = str /\ fg' = fg /\ UNCHANGED shown
  <2>1. blanks \in Nat /\ blanks > 0 /\ blanks' = blanks - 1
    BY DEF ConsoleInv, Space
  <2>2. UNCHANGED <<string, shown>>
    BY DEF Space
  <2> QED
    BY <2>1, <2>2 DEF string
<1> QED
  BY <1>2, <1>3 DEF ConsoleInv, Drawing, RefreshOffWhileDrawing, shown

(* The cursor goes round in its line and in its column.                    *)
LEMMA CursorMoveKeeps ==
    ASSUME ConsoleInv, NEW dir \in {"up", "down", "left", "right"}, CursorMove(dir)
    PROVE  ConsoleInv'
<1> DEFINE o == vm.offset
           column == o % LINE_WIDTH
           row == o \div LINE_WIDTH
           e == CASE dir = "up"    -> (o + Pane - LINE_WIDTH) % Pane
                  [] dir = "down"  -> (o + LINE_WIDTH) % Pane
                  [] dir = "left"  -> o - column + ((column + LINE_WIDTH - 1) % LINE_WIDTH)
                  [] dir = "right" -> o - column + ((o + 1) % LINE_WIDTH)
<1>1. vm' = [vm EXCEPT !.offset = e]
  BY DEF CursorMove
<1>2. o \in 0 .. Pane - 1 /\ o \in Nat /\ Pane \in Nat \ {0}
  BY Sizes DEF ConsoleInv, Page, VirtMonitor
<1>3. column \in 0 .. LINE_WIDTH - 1 /\ row \in Nat /\ o = LINE_WIDTH * row + column
  BY <1>2, Sizes, Division
<1> HIDE DEF o
<1>4. (o + Pane - LINE_WIDTH) % Pane \in 0 .. Pane - 1 /\ (o + LINE_WIDTH) % Pane \in 0 .. Pane - 1
  <2>1. o + Pane - LINE_WIDTH \in Nat /\ o + LINE_WIDTH \in Nat
    BY <1>2, Sizes
  <2> QED
    BY <1>2, <2>1, Division
<1>5. /\ (column + LINE_WIDTH - 1) % LINE_WIDTH \in 0 .. LINE_WIDTH - 1
      /\ (o + 1) % LINE_WIDTH \in 0 .. LINE_WIDTH - 1
  <2>1. column + LINE_WIDTH - 1 \in Nat /\ o + 1 \in Nat
    <3> HIDE DEF column
    <3> QED
      BY <1>2, <1>3, Sizes
  <2> QED
    BY <2>1, Sizes, Division
<1> HIDE DEF column, row
<1>6. ASSUME NEW c \in 0 .. LINE_WIDTH - 1 PROVE o - column + c \in 0 .. Pane - 1
  <2>1. LINE_WIDTH * row \in Nat /\ o - column = LINE_WIDTH * row
    BY <1>2, <1>3, Sizes
  <2>2. LINE_WIDTH * row + LINE_WIDTH <= Pane
    <3>1. CASE row + 1 <= Height
      <4>1. LINE_WIDTH * (row + 1) <= LINE_WIDTH * Height
        BY <1>3, <3>1, Sizes, Monotone
      <4>2. LINE_WIDTH * (row + 1) = LINE_WIDTH * row + LINE_WIDTH /\ LINE_WIDTH * Height = Pane
        BY <1>3, Sizes DEF Pane
      <4> QED
        BY <4>1, <4>2
    <3>2. CASE Height <= row
      <4>1. LINE_WIDTH * Height <= LINE_WIDTH * row /\ LINE_WIDTH * Height = Pane
        BY <1>3, <3>2, Sizes, Monotone DEF Pane
      <4> QED
        BY <1>2, <1>3, <2>1, <4>1, Sizes
    <3> QED
      BY <1>3, <3>1, <3>2, Sizes
  <2> QED
    BY <1>2, <2>1, <2>2, Sizes
<1>7. e \in 0 .. Pane - 1
  BY <1>4, <1>5, <1>6
<1> HIDE DEF e
<1>8. Page(vm', top, text)
  BY <1>1, <1>7, MovedPage DEF ConsoleInv
<1>9. UNCHANGED <<str, fg, blanks, top, text>> /\ UNCHANGED shown
  BY DEF CursorMove, string, paper
<1> QED
  BY <1>8, <1>9 DEF ConsoleInv, Page, CountsAbove, Shows, Drawing, RefreshOffWhileDrawing, shown

(* Scrolling, as long as the buffer is not full: the pane is at a line of  *)
(* the buffer, which has not wrapped.                                      *)
LEMMA UnwrappedPane ==
    ASSUME Page(vm, top, text), ~PrintsScrolled, Scrolls = "unwrapped", MayScroll
    PROVE  LET m == top - vm.scrolldown_limit
           IN  /\ m \in 0 .. Lines - Height /\ m = vm.scrollup_limit
               /\ vm.vis_begin = LINE_WIDTH * m
               /\ LINE_WIDTH * m \in Nat /\ LINE_WIDTH * m < BufferSize
<1> DEFINE m == top - vm.scrolldown_limit
<1>1. /\ top \in Nat /\ vm.scrollup_limit \in Nat /\ vm.scrolldown_limit \in Nat
      /\ vm.scrollup_limit + vm.scrolldown_limit = Kept(top)
      /\ vm.vis_begin = LINE_WIDTH * (m % Lines)
  BY DEF Page, VirtMonitor, CountsAbove, Shows
<1>2. top <= Lines - Height
  BY <1>1, Sizes DEF MayScroll
<1>3. Kept(top) = top
  BY <1>1, <1>2, Sizes DEF Kept
<1>4. m \in 0 .. Lines - Height /\ m = vm.scrollup_limit
  BY <1>1, <1>2, <1>3, Sizes
<1> HIDE DEF m
<1>5. m \in 0 .. Lines - 1 /\ m + 1 <= Lines /\ Lines \in Nat \ {0}
  BY <1>4, Sizes
<1>6. m % Lines = m
  BY <1>5, Unwrapped
<1>7. LINE_WIDTH * (m + 1) <= LINE_WIDTH * Lines /\ LINE_WIDTH * m \in Nat
  BY <1>5, Sizes, Monotone
<1>8. LINE_WIDTH * (m + 1) = LINE_WIDTH * m + LINE_WIDTH /\ LINE_WIDTH * Lines = BufferSize
  BY <1>5, Sizes DEF BufferSize
<1>9. LINE_WIDTH * m < BufferSize
  BY <1>7, <1>8, Sizes
<1> QED
  BY <1>1, <1>4, <1>6, <1>7, <1>9 DEF m

LEMMA ScrollUpKeeps ==
    ASSUME ConsoleInv, ScrollUp
    PROVE  ConsoleInv'
<1> DEFINE vis == IF vm.vis_begin > 0 THEN vm.vis_begin - LINE_WIDTH ELSE BufferSize - LINE_WIDTH
           m == top - vm.scrolldown_limit
<1>1. /\ vm \in VirtMonitor /\ top \in Nat /\ MayScroll /\ vm.scrollup_limit > 0
      /\ text \in [0 .. (top + Height) * LINE_WIDTH - 1 -> Cell]
      /\ vm' = [vm EXCEPT !.scrollup_limit = vm.scrollup_limit - 1, !.vis_begin = vis,
                          !.scrolldown_limit = vm.scrolldown_limit + 1]
      /\ UNCHANGED <<str, fg, blanks, top, text>> /\ UNCHANGED shown
  BY DEF ConsoleInv, Page, ScrollUp, string, paper
<1>2. /\ vm.scrollup_limit - 1 \in Nat /\ vm.scrolldown_limit + 1 \in Nat
      /\ vm.vis_begin \in Starts /\ vm.scrollup_limit \in Nat /\ vm.scrolldown_limit \in Nat
  BY <1>1 DEF VirtMonitor
<1>3. vis \in Starts
  BY <1>1, <1>2, Stepwise
<1>4. /\ vm' \in VirtMonitor /\ vm'.buffer = vm.buffer /\ vm'.vis_begin = vis
      /\ vm'.scrollup_limit = vm.scrollup_limit - 1
      /\ vm'.scrolldown_limit = vm.scrolldown_limit + 1
  <2> HIDE DEF vis
  <2> QED
    BY <1>1, <1>2, <1>3 DEF VirtMonitor
<1>5. ~PrintsScrolled => CountsAbove(vm', top)
  BY <1>2, <1>4 DEF ConsoleInv, Page, CountsAbove
<1>6. ASSUME ~PrintsScrolled, Scrolls = "unwrapped" PROVE Shows(vm', top, text)
  <2>1. /\ m \in 0 .. Lines - Height /\ m = vm.scrollup_limit
        /\ vm.vis_begin = LINE_WIDTH * m
        /\ LINE_WIDTH * m \in Nat /\ LINE_WIDTH * m < BufferSize
    BY <1>1, <1>6, UnwrappedPane DEF ConsoleInv
  <2>2. top - (vm.scrolldown_limit + 1) = m - 1
    BY <1>1, <1>2
  <2> HIDE DEF m
  <2>3. m - 1 \in 0 .. Lines - 1 /\ Lines \in Nat \ {0}
    <3>1. m > 0 /\ m \in 0 .. Lines - Height
      BY <1>1, <2>1
    <3> QED
      BY <3>1, Sizes
  <2>4. LINE_WIDTH * m = LINE_WIDTH * (m - 1) + LINE_WIDTH /\ LINE_WIDTH * (m - 1) \in Nat
    <3> DEFINE k == m - 1
    <3>1. k \in Nat /\ m = k + 1
      BY <2>1, <2>3, Sizes
    <3> HIDE DEF k
    <3>2. LINE_WIDTH * (k + 1) = LINE_WIDTH * k + LINE_WIDTH /\ LINE_WIDTH * k \in Nat
      BY <3>1, Sizes
    <3> QED
      BY <3>1, <3>2 DEF k
  <2>5. vis = LINE_WIDTH * (m - 1)
    BY <2>1, <2>4, Sizes
  <2>6. (m - 1) % Lines = m - 1
    BY <2>3, Unwrapped
  <2>7. top + Height <= Lines
    BY <1>1, <1>6 DEF MayScroll
  <2>8. \A p \in Lasting(top) : vm'.buffer[p % BufferSize] = text[p]
    BY <1>4, <1>6 DEF ConsoleInv, Page, Shows
  <2>9. vm'.vis_begin = LINE_WIDTH * ((top - vm'.scrolldown_limit) % Lines)
    BY <1>4, <2>2, <2>5, <2>6
  <2> QED
    BY <2>7, <2>8, <2>9 DEF Shows
<1>7. Page(vm', top, text)
  BY <1>1, <1>4, <1>5, <1>6 DEF Page
<1> QED
  BY <1>1, <1>7 DEF ConsoleInv, Page, CountsAbove, Shows, Drawing, RefreshOffWhileDrawing, shown

LEMMA ScrollDownKeeps ==
    ASSUME ConsoleInv, ScrollDown
    PROVE  ConsoleInv'
<1> DEFINE vis == IF vm.vis_begin < BufferSize THEN vm.vis_begin + LINE_WIDTH ELSE 0
           m == top - vm.scrolldown_limit
<1>1. /\ vm \in VirtMonitor /\ top \in Nat /\ MayScroll /\ vm.scrolldown_limit > 0
      /\ text \in [0 .. (top + Height) * LINE_WIDTH - 1 -> Cell]
      /\ vm' = [vm EXCEPT !.scrolldown_limit = vm.scrolldown_limit - 1, !.vis_begin = vis,
                          !.scrollup_limit = vm.scrollup_limit + 1]
      /\ UNCHANGED <<str, fg, blanks, top, text>> /\ UNCHANGED shown
  BY DEF ConsoleInv, Page, ScrollDown, string, paper
<1>2. /\ vm.scrolldown_limit - 1 \in Nat /\ vm.scrollup_limit + 1 \in Nat
      /\ vm.vis_begin \in Starts /\ vm.scrollup_limit \in Nat /\ vm.scrolldown_limit \in Nat
  BY <1>1 DEF VirtMonitor
<1>3. vis \in Starts
  BY <1>1, <1>2, Stepwise
<1>4. /\ vm' \in VirtMonitor /\ vm'.buffer = vm.buffer /\ vm'.vis_begin = vis
      /\ vm'.scrollup_limit = vm.scrollup_limit + 1
      /\ vm'.scrolldown_limit = vm.scrolldown_limit - 1
  <2> HIDE DEF vis
  <2> QED
    BY <1>1, <1>2, <1>3 DEF VirtMonitor
<1>5. ~PrintsScrolled => CountsAbove(vm', top)
  BY <1>2, <1>4 DEF ConsoleInv, Page, CountsAbove
<1>6. ASSUME ~PrintsScrolled, Scrolls = "unwrapped" PROVE Shows(vm', top, text)
  <2>1. /\ m \in 0 .. Lines - Height
        /\ vm.vis_begin = LINE_WIDTH * m
        /\ LINE_WIDTH * m \in Nat /\ LINE_WIDTH * m < BufferSize
    BY <1>1, <1>6, UnwrappedPane DEF ConsoleInv
  <2>2. top - (vm.scrolldown_limit - 1) = m + 1 /\ m < top
    <3> DEFINE d == vm.scrolldown_limit
    <3>1. d \in Nat /\ d > 0 /\ top \in Nat /\ m = top - d
      BY <1>1, <1>2
    <3> HIDE DEF d, m
    <3>2. top - (d - 1) = m + 1 /\ m < top
      BY <3>1
    <3> QED
      BY <3>2 DEF d
  <2>3. top + Height <= Lines
    BY <1>1, <1>6 DEF MayScroll
  <2> HIDE DEF m
  <2>4. m + 1 \in 0 .. Lines - 1 /\ Lines \in Nat \ {0}
    <3>1. m \in 0 .. Lines - Height /\ m < top /\ top + Height <= Lines /\ top \in Nat
      BY <1>1, <2>1, <2>2, <2>3
    <3> QED
      BY <3>1, Sizes
  <2>5. LINE_WIDTH * (m + 1) = LINE_WIDTH * m + LINE_WIDTH
    BY <2>1, Sizes
  <2>6. vis = LINE_WIDTH * (m + 1)
    BY <2>1, <2>5, Sizes
  <2>7. (m + 1) % Lines = m + 1
    BY <2>4, Unwrapped
  <2>8. \A p \in Lasting(top) : vm'.buffer[p % BufferSize] = text[p]
    BY <1>4, <1>6 DEF ConsoleInv, Page, Shows
  <2>9. vm'.vis_begin = LINE_WIDTH * ((top - vm'.scrolldown_limit) % Lines)
    BY <1>4, <2>2, <2>6, <2>7
  <2> QED
    BY <2>3, <2>8, <2>9 DEF Shows
<1>7. Page(vm', top, text)
  BY <1>1, <1>4, <1>5, <1>6 DEF Page
<1> QED
  BY <1>1, <1>7 DEF ConsoleInv, Page, CountsAbove, Shows, Drawing, RefreshOffWhileDrawing, shown

(* The frame buffer and the keys that switch monitors touch no text.       *)
LEMMA ScreenKeeps ==
    ASSUME ConsoleInv, NEW m \in Monitors,
           FramebufferOpen(m) \/ FramebufferClose(m) \/ SwitchMonitor(m)
    PROVE  ConsoleInv'
<1>1. UNCHANGED <<vm, str, fg, blanks, top, text>>
  BY DEF FramebufferOpen, FramebufferClose, SwitchMonitor, page, string, paper
<1>2. ASSUME ~SwitchDrawing PROVE Drawing'
  <2>1. /\ drawing \subseteq Monitors /\ disable_refresh \in [Monitors -> BOOLEAN] /\ active \in Monitors
        /\ drawing \subseteq {active}
        /\ \A n \in Monitors : disable_refresh[n] <=> n \in drawing
    BY <1>2 DEF ConsoleInv, Drawing, RefreshOffWhileDrawing
  <2>2. CASE FramebufferOpen(m)
    BY <2>1, <2>2, Zenon DEF FramebufferOpen, Drawing, RefreshOffWhileDrawing
  <2>3. CASE FramebufferClose(m)
    BY <2>1, <2>3, Zenon DEF FramebufferClose, RefreshAgain, Drawing, RefreshOffWhileDrawing
  <2>4. CASE SwitchMonitor(m)
    BY <1>2, <2>1, <2>4, Zenon DEF SwitchMonitor, Drawing, RefreshOffWhileDrawing
  <2> QED
    BY <2>2, <2>3, <2>4
<1> QED
  BY <1>1, <1>2 DEF ConsoleInv, Page, CountsAbove, Shows

LEMMA NextConsole == ConsoleInv /\ [ConsoleNext]_consoleVars => ConsoleInv'
<1> SUFFICES ASSUME ConsoleInv, [ConsoleNext]_consoleVars PROVE ConsoleInv'
  OBVIOUS
<1>1. CASE UNCHANGED consoleVars
  BY <1>1 DEF consoleVars, page, shown, string, paper, ConsoleInv, Page, CountsAbove, Shows,
              Drawing, RefreshOffWhileDrawing
<1>2. ASSUME NEW s \in Strings, Write(s) PROVE ConsoleInv'
  BY <1>2, WriteKeeps
<1>3. CASE Color
  BY <1>3, ColorKeeps
<1>4. CASE Character
  BY <1>4, CharacterKeeps
<1>5. CASE Space
  BY <1>5, SpaceKeeps
<1>6. ASSUME NEW dir \in {"up", "down", "left", "right"}, CursorMove(dir) PROVE ConsoleInv'
  BY <1>6, CursorMoveKeeps
<1>7. CASE ScrollUp
  BY <1>7, ScrollUpKeeps
<1>8. CASE ScrollDown
  BY <1>8, ScrollDownKeeps
<1>9. ASSUME NEW m \in Monitors, FramebufferOpen(m) \/ FramebufferClose(m) \/ SwitchMonitor(m)
      PROVE  ConsoleInv'
  BY <1>9, ScreenKeeps
<1> QED
  BY <1>1, <1>2, <1>3, <1>4, <1>5, <1>6, <1>7, <1>8, <1>9, Zenon DEF ConsoleNext

(* What the user can scroll to is what was printed.                        *)
LEMMA InvShows ==
    ASSUME ConsoleInv, ~PrintsScrolled, Scrolls = "unwrapped"
    PROVE  PaneShowsText
<1> SUFFICES ASSUME NEW n \in -vm.scrollup_limit .. vm.scrolldown_limit, NEW i \in 0 .. Pane - 1
             PROVE  Visible(vm, (vm.vis_begin + BufferSize + n * LINE_WIDTH) % BufferSize)[i]
                    = text[(top - vm.scrolldown_limit + n) * LINE_WIDTH + i]
  BY Zenon DEF PaneShowsText
<1> DEFINE t == top - vm.scrolldown_limit
           m == t + n
           vis == (vm.vis_begin + BufferSize + n * LINE_WIDTH) % BufferSize
           p == m * LINE_WIDTH + i
<1>1. /\ top \in Nat /\ vm.scrollup_limit \in Nat /\ vm.scrolldown_limit \in Nat
      /\ vm.buffer \in [0 .. BufferSize - 1 -> Cell]
      /\ vm.scrollup_limit + vm.scrolldown_limit = Kept(top)
      /\ vm.vis_begin = LINE_WIDTH * (t % Lines)
      /\ \A q \in Lasting(top) : vm.buffer[q % BufferSize] = text[q]
  BY DEF ConsoleInv, Page, VirtMonitor, CountsAbove, Shows
<1>2. Kept(top) \in 0 .. top /\ Kept(top) <= Lines - Height
  BY <1>1, KeptLines
<1>3. /\ t \in Nat /\ n \in Int /\ m \in Nat /\ m <= top /\ top - Kept(top) <= m
      /\ top - Kept(top) \in Nat /\ n + Lines \in Nat
  <2> DEFINE u == vm.scrollup_limit
             d == vm.scrolldown_limit
             k == Kept(top)
  <2>1. /\ u \in Nat /\ d \in Nat /\ u + d = k /\ k \in 0 .. top /\ k <= Lines - Height
        /\ top \in Nat /\ n \in -u .. d /\ t = top - d
    BY <1>1, <1>2
  <2> HIDE DEF u, d, k, t
  <2>2. n \in Int /\ n <= d /\ -u <= n
    BY <2>1
  <2>3. t \in Nat /\ t + n \in Nat /\ t + n <= top /\ top - k <= t + n /\ top - k \in Nat
    BY <2>1, <2>2
  <2>4. n + Lines \in Nat
    BY <2>1, <2>2, Sizes
  <2> QED
    BY <2>2, <2>3, <2>4 DEF k
<1> HIDE DEF t, m
<1>4. vis = LINE_WIDTH * (m % Lines) /\ vis \in 0 .. BufferSize - 1
  <2> DEFINE o == (n + Lines) * LINE_WIDTH
  <2>1. o \in Nat /\ BufferSize + n * LINE_WIDTH = o
    BY <1>3, Sizes DEF BufferSize
  <2>2. (LINE_WIDTH * (t % Lines) + o) % BufferSize = (t * LINE_WIDTH + o) % BufferSize
        /\ t * LINE_WIDTH \in Nat /\ LINE_WIDTH * (t % Lines) \in Nat
    <3>1. 0 \in 0 .. LINE_WIDTH - 1
      BY Sizes
    <3> QED
      BY <1>3, <2>1, <3>1, CellAt, LineStart
  <2>3. t * LINE_WIDTH + o = (m + Lines) * LINE_WIDTH + 0
    BY <1>3, Sizes DEF m
  <2>4. ((m + Lines) * LINE_WIDTH + 0) % BufferSize = LINE_WIDTH * ((m + Lines) % Lines) + 0
    <3>1. 0 \in 0 .. LINE_WIDTH - 1 /\ m + Lines \in Nat
      BY <1>3, Sizes
    <3> QED
      BY <3>1, LineStart
  <2>5. (m + Lines) % Lines = m % Lines
    <3> DEFINE q == m \div Lines
               r == m % Lines
    <3>1. Lines \in Nat \ {0}
      BY Sizes
    <3>2. q \in Nat /\ r \in 0 .. Lines - 1 /\ m = Lines * q + r
      BY <1>3, <3>1, Division
    <3> HIDE DEF q, r
    <3>3. m + Lines = Lines * (q + 1) + r
      BY <3>1, <3>2
    <3>4. (Lines * (q + 1) + r) % Lines = r
      BY <3>1, <3>2, Remainder
    <3> QED
      BY <3>3, <3>4 DEF r
  <2>6. vm.vis_begin + BufferSize + n * LINE_WIDTH = LINE_WIDTH * (t % Lines) + o
    <3>1. n * LINE_WIDTH \in Int
      BY <1>3, Sizes
    <3> DEFINE a == LINE_WIDTH * (t % Lines)
               b == n * LINE_WIDTH
    <3>2. vm.vis_begin = a /\ a \in Nat /\ b \in Int /\ BufferSize \in Nat /\ BufferSize + b = o
      BY <1>1, <2>1, <2>2, <3>1, Sizes
    <3> HIDE DEF a, b, o
    <3>3. vm.vis_begin + BufferSize + b = a + o
      BY <3>2
    <3> QED
      BY <3>3 DEF a, b
  <2>7. LINE_WIDTH * (m % Lines) \in Nat /\ LINE_WIDTH * (m % Lines) + LINE_WIDTH <= BufferSize
    <3>1. 0 \in 0 .. LINE_WIDTH - 1
      BY Sizes
    <3> QED
      BY <1>3, <3>1, LineStart
  <2> HIDE DEF o
  <2>8. vis = LINE_WIDTH * (m % Lines)
    BY <2>2, <2>3, <2>4, <2>5, <2>6, <2>7
  <2> HIDE DEF vis
  <2> QED
    BY <2>7, <2>8, Sizes
<1> HIDE DEF vis
<1>5. Visible(vm, vis)[i] = vm.buffer[(vis + i) % BufferSize]
  <2>1. Visible(vm, vis)[i] = IF i < BufferSize - vis THEN vm.buffer[vis + i]
                              ELSE vm.buffer[i - (BufferSize - vis)]
    BY DEF Visible
  <2>2. CASE i < BufferSize - vis
    <3>1. vis + i \in 0 .. BufferSize - 1
      BY <1>4, <2>2, Sizes
    <3> QED
      BY <2>1, <2>2, <3>1, Sizes, Unwrapped
  <2>3. CASE ~(i < BufferSize - vis)
    <3> DEFINE r == i - (BufferSize - vis)
    <3>1. r \in 0 .. BufferSize - 1 /\ vis + i = BufferSize * 1 + r
      BY <1>4, <2>3, Sizes
    <3> HIDE DEF r
    <3>2. (BufferSize * 1 + r) % BufferSize = r
      BY <3>1, Sizes, Remainder
    <3> QED
      BY <2>1, <2>3, <3>1, <3>2 DEF r
  <2> QED
    BY <2>2, <2>3
<1>6. (vis + i) % BufferSize = p % BufferSize
  BY <1>3, <1>4, CellAt, Sizes
<1>7. p \in Lasting(top)
  <2> DEFINE a == (top - Kept(top)) * LINE_WIDTH
             b == (top + Height) * LINE_WIDTH
             c == m * LINE_WIDTH
             d == top * LINE_WIDTH
  <2>1. a \in Nat /\ c \in Nat /\ d \in Nat /\ a <= c /\ c <= d
    <3>1. /\ LINE_WIDTH * (top - Kept(top)) <= LINE_WIDTH * m /\ LINE_WIDTH * m <= LINE_WIDTH * top
      BY <1>1, <1>3, Sizes, Monotone
    <3> QED
      BY <1>1, <1>3, <3>1, Sizes
  <2>2. b = d + Pane
    BY <1>1, KeptLines
  <2>3. Lasting(top) = a .. b - 1
    BY DEF Lasting
  <2> HIDE DEF a, b, c, d
  <2>4. c + i \in a .. b - 1
    BY <2>1, <2>2, Sizes
  <2> QED
    BY <2>3, <2>4 DEF c
<1>8. Visible(vm, vis)[i] = text[p]
  BY <1>1, <1>5, <1>6, <1>7
<1> QED
  BY <1>8 DEF vis, p, m, t

(* Whatever is printed, and wherever the buffer wraps, all that the user   *)
(* can scroll to is the text, provided that nothing is printed while the   *)
(* pane is scrolled up and nobody scrolls once the buffer is full          *)
(* (io_virtual.c:101-152, 342-365).                                        *)
THEOREM ConsoleShowsText ==
    ASSUME ~PrintsScrolled, Scrolls = "unwrapped"
    PROVE  ConsoleSpec => []PaneShowsText
<1>1. ConsoleInv => PaneShowsText
  BY InvShows
<1> QED
  BY <1>1, InitConsole, NextConsole, PTL DEF ConsoleSpec

(* The limits count the lines above and beneath the pane, whenever the     *)
(* user scrolls (io_virtual.h:67-75).                                      *)
THEOREM ConsoleCountsLines ==
    ASSUME ~PrintsScrolled
    PROVE  ConsoleSpec => []LimitsCountLines
<1>1. ConsoleInv => LimitsCountLines
  BY DEF ConsoleInv, Page, CountsAbove, Kept, LimitsCountLines
<1> QED
  BY <1>1, InitConsole, NextConsole, PTL DEF ConsoleSpec

(* Painting is off exactly while a program draws, as long as nobody        *)
(* switches monitors then (dev_framebuffer.c:35-45).                       *)
THEOREM ConsolePaints ==
    ASSUME ~SwitchDrawing
    PROVE  ConsoleSpec => []RefreshOffWhileDrawing
<1>1. ConsoleInv => RefreshOffWhileDrawing
  BY DEF ConsoleInv, Drawing
<1> QED
  BY <1>1, InitConsole, NextConsole, PTL DEF ConsoleSpec
=============================================================================
