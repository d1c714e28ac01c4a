----------------------------- MODULE HeapProofs -----------------------------
(***************************************************************************)
(* What the heap keeps while its callers take turns, whatever they ask     *)
(* for, and however much memory there is.                                  *)
(***************************************************************************)
EXTENDS Heap, FiniteSetTheorems, WellFoundedInduction, TLAPS

(* The list of headers, and the blocks that the headers describe.          *)
ListInv ==
    /\ linked = Held \cup {Start, end}
    /\ Start < end /\ held[Start] = None /\ held[end] = None
    /\ next[end] = Start
    /\ \A a \in linked :
         /\ a <= end
         /\ next[a] \in linked /\ prev[a] \in linked
         /\ prev[next[a]] = a /\ next[prev[a]] = a
    /\ \A a \in linked \ {end} :
         /\ a + H + size[a] <= next[a]
         /\ \A b \in linked : a < b => next[a] <= b
    /\ size[Start] = 0
    /\ \A a \in Held : size[a] = held[a]

(* A stale header is not in the list, and the one that it points back to   *)
(* does not point to it, if that can still be read.                        *)
StaleInv ==
    \A a \in stale :
      /\ a \notin linked /\ a < end
      /\ prev[a] \in stale \cup linked => next[prev[a]] # a

MappedInv == \E m \in 1 .. Frames : end + H = m * Page /\ mapped = 0 .. m - 1

(* The hole that was found is still there, and the block to be moved is    *)
(* still in use and smaller than the new one.                              *)
CallOf(p) ==
    /\ call[p].at \in {"scan", "expand", "setup"} =>
         /\ call[p].size \in Sizes
         /\ call[p].old # None => call[p].old \in Held /\ size[call[p].old] < call[p].size
    /\ call[p].at = "scan" /\ call[p].grown => Candidates(call[p].size) # {}
    /\ call[p].at = "expand" => ~call[p].grown
    /\ call[p].at = "setup" => call[p].hole \in Candidates(call[p].size)
    /\ call[p].at = "move" =>
         /\ {call[p].old, call[p].new} \subseteq Held
         /\ size[call[p].old] < held[call[p].new]

CallInv ==
    /\ \A p, q \in Procs : call[p].at # "idle" /\ call[q].at # "idle" => p = q
    /\ \A p \in Procs : CallOf(p)

IInv == TypeOK /\ ListInv /\ StaleInv /\ MappedInv /\ CallInv
-----------------------------------------------------------------------------
(* Quotient and remainder.                                                 *)
LEMMA Division ==
    ASSUME NEW a \in Nat, NEW n \in Nat \ {0}
    PROVE  /\ a \div n \in Nat /\ a % n \in 0 .. n - 1
           /\ a = n * (a \div n) + (a % n)
  OBVIOUS

(* Quotient and remainder of a number given by them.                       *)
LEMMA Quotient ==
    ASSUME NEW n \in Nat \ {0}, NEW q \in Nat, NEW r \in 0 .. n - 1
    PROVE  (n * q + r) \div n = q /\ (n * q + r) % n = r
<1> DEFINE a == n * q + r
<1>1. a \in Nat /\ a = n * q + r
  OBVIOUS
<1> HIDE DEF a
<1> DEFINE k == a \div n
<1>2. k \in Nat /\ a = n * k + (a % n) /\ a % n \in 0 .. n - 1
  BY <1>1, Division
<1> HIDE DEF k
<1>3. n * (k - q) < n /\ n * (q - k) < n
  <2>1. n * (k - q) = n * k - n * q /\ n * (q - k) = n * q - n * k
    BY <1>2
  <2>2. n * k \in Nat /\ n * q \in Nat
    BY <1>2
  <2> QED
    BY <1>1, <1>2, <2>1, <2>2
<1>4. ASSUME k # q PROVE FALSE
  <2>1. CASE k > q
    <3>1. n * (k - q) >= n
      BY <1>2, <2>1
    <3> QED
      BY <1>2, <1>3, <3>1
  <2>2. CASE k < q
    <3>1. n * (q - k) >= n
      BY <1>2, <2>2
    <3> QED
      BY <1>2, <1>3, <3>1
  <2> QED
    BY <1>2, <1>4, <2>1, <2>2
<1> QED
  BY <1>1, <1>2, <1>4 DEF k, a

(* heap_expand() makes the heap grow by whole pages, by more than the size *)
(* asked for and a page, and visits every page that is new.                *)
LEMMA Growth ==
    ASSUME TypeOK, NEW m \in Nat, end + H = m * Page, NEW n \in Nat
    PROVE  \E j \in Nat : /\ ExpandedSize(n) = j * Page
                          /\ ExpandedSize(n) > end + H + n + Page
                          /\ NewPages(ExpandedSize(n)) = m .. j - 1
<1> DEFINE k == n \div ExpandStep + 1
           t == ExpandStep \div Page
           u == Page \div 2
           d == k * t
           j == m + d + 1
<1>1. Page \in Nat \ {0} /\ Page >= 2 /\ H \in Nat \ {0} /\ ExpandStep \in Nat \ {0}
  BY HeapAssumption DEF HeapAssumption
<1>2. u \in Nat /\ Page = 2 * u
  BY HeapAssumption DEF HeapAssumption
<1>3. t \in Nat /\ ExpandStep = Page * t
  <2>1. t \in Nat /\ ExpandStep = Page * t + (ExpandStep % Page)
    BY <1>1, Division
  <2> HIDE DEF t
  <2>2. ExpandStep % Page = 0 /\ Page * t \in Nat
    BY <1>1, <2>1, HeapAssumption DEF HeapAssumption
  <2> QED
    BY <1>1, <2>1, <2>2
<1>4. k \in Nat \ {0} /\ n < ExpandStep * k
  <2> DEFINE q == n \div ExpandStep
  <2>1. q \in Nat /\ n % ExpandStep \in 0 .. ExpandStep - 1 /\ n = ExpandStep * q + (n % ExpandStep)
    BY <1>1, Division
  <2>2. ExpandStep * (q + 1) = ExpandStep * q + ExpandStep
    BY <1>1, <2>1
  <2> HIDE DEF q
  <2>3. ExpandStep * q \in Nat
    BY <1>1, <2>1
  <2> QED
    BY <1>1, <2>1, <2>2, <2>3 DEF q
<1>5. HeapSize + k * ExpandStep = Page * (m + d) + 1 /\ d \in Nat /\ end \in Nat
  <2>1. end \in Nat
    BY DEF TypeOK, Addr
  <2>2. HeapSize = m * Page + 1
    BY <1>1, <2>1 DEF HeapSize, Start
  <2> HIDE DEF k, t
  <2>3. k * ExpandStep = Page * (k * t)
    BY <1>1, <1>3, <1>4
  <2> QED
    BY <1>1, <1>3, <1>4, <2>1, <2>2, <2>3
<1> HIDE DEF k, t, u, d
<1> DEFINE s == Page * (m + d) + 1
<1>6. s % 2 = 1
  <2>1. s = 2 * (u * (m + d)) + 1
    BY <1>2, <1>5
  <2>2. u * (m + d) \in Nat
    BY <1>2, <1>5
  <2> HIDE DEF s
  <2> QED
    BY <2>1, <2>2
<1>7. s % Page = 1
  <2> DEFINE q == m + d
  <2>1. q \in Nat /\ 1 \in 0 .. Page - 1
    BY <1>1, <1>5
  <2> HIDE DEF q
  <2>2. (Page * q + 1) % Page = 1
    BY <1>1, <2>1, Quotient
  <2> QED
    BY <2>2 DEF q
<1>8. ExpandedSize(n) = j * Page /\ j \in Nat
  <2>1. ExpandedSize(n) = PageUp(s)
    BY <1>5 DEF ExpandedSize, k
  <2>2. s = Page * (m + d) + 1 /\ Page * (m + d) + Page = j * Page /\ Page * (m + d) \in Nat /\ j \in Nat
    BY <1>1, <1>5
  <2> HIDE DEF s, j
  <2>3. PageUp(s) = s - 1 + Page
    BY <1>6, <1>7 DEF PageUp
  <2> QED
    BY <1>1, <2>1, <2>2, <2>3
<1>9. ExpandedSize(n) > end + H + n + Page
  <2>1. Page * d = ExpandStep * k
    <3>1. Page * (k * t) = (Page * t) * k
      BY <1>1, <1>3, <1>4
    <3> QED
      BY <1>3, <3>1 DEF d
  <2>2. (m + d + 1) * Page = m * Page + Page * d + Page
    BY <1>1, <1>5
  <2>3. m * Page \in Nat /\ Page * d \in Nat
    BY <1>1, <1>5
  <2> QED
    BY <1>1, <1>4, <1>5, <1>8, <2>1, <2>2, <2>3
<1>10. HeapSize = Page * m + 1
  BY <1>1, <1>5 DEF HeapSize, Start
<1> HIDE DEF j
<1>11. ASSUME NEW y \in m .. j - 1 PROVE y \in NewPages(j * Page)
  <2> DEFINE x == Page * y + 1
  <2>1. y \in Nat /\ y - m \in Nat /\ y + 1 <= j
    BY <1>8, <1>11
  <2>2. x - HeapSize = Page * (y - m) + 0 /\ x \in Nat
    BY <1>1, <1>10, <2>1
  <2>3. (x - HeapSize) % Page = 0
    <3>1. \A i \in Nat : (Page * i + 0) % Page = 0
      BY <1>1, Quotient
    <3> QED
      BY <2>1, <2>2, <3>1
  <2>4. x \div Page = y
    <3>1. 1 \in 0 .. Page - 1
      BY <1>1
    <3> QED
      BY <1>1, <2>1, <3>1, Quotient
  <2>5. Page * y >= Page * m /\ Page * (y + 1) <= j * Page
    BY <1>1, <1>8, <2>1
  <2>6. Page * (y + 1) = Page * y + Page /\ Page * y \in Nat /\ Page * m \in Nat /\ j * Page \in Nat
    BY <1>1, <1>8, <2>1
  <2>7. x \in HeapSize .. j * Page
    BY <1>1, <1>10, <2>5, <2>6
  <2> HIDE DEF x
  <2> QED
    BY <2>3, <2>4, <2>7 DEF NewPages
<1>12. ASSUME NEW y \in NewPages(j * Page) PROVE y \in m .. j - 1
  <2>1. PICK x \in HeapSize .. j * Page : (x - HeapSize) % Page = 0 /\ y = x \div Page
    BY <1>12 DEF NewPages
  <2> DEFINE e == (x - HeapSize) \div Page
  <2>2. x \in Nat /\ x - HeapSize \in Nat /\ Page * m \in Nat /\ j * Page \in Nat
    BY <1>1, <1>8, <1>10, <2>1
  <2>3. e \in Nat /\ x - HeapSize = Page * e + ((x - HeapSize) % Page)
    BY <1>1, <2>2, Division, Zenon
  <2> HIDE DEF e
  <2>4. Page * (m + e) = Page * m + Page * e /\ Page * e \in Nat
    BY <1>1, <2>3
  <2>5. x = Page * (m + e) + 1
    BY <1>10, <2>1, <2>2, <2>3, <2>4
  <2>6. y = m + e
    <3> DEFINE q == m + e
    <3>1. q \in Nat /\ 1 \in 0 .. Page - 1
      BY <1>1, <2>3
    <3> HIDE DEF q
    <3>2. (Page * q + 1) \div Page = q
      BY <1>1, <3>1, Quotient
    <3> QED
      BY <2>1, <2>5, <3>2 DEF q
  <2>7. m + e < j
    <3> SUFFICES ASSUME m + e >= j PROVE FALSE
      BY <1>8, <2>3
    <3>1. Page * (m + e) >= Page * j /\ Page * j = j * Page
      BY <1>1, <1>8, <2>3
    <3> QED
      BY <2>1, <2>2, <2>4, <2>5, <3>1
  <2> QED
    BY <1>8, <2>3, <2>6, <2>7
<1> QED
  BY <1>8, <1>9, <1>11, <1>12

(* The search of heap_mallocn() finds one of the holes that fit.           *)
LEMMA Least ==
    ASSUME NEW S, S \subseteq Nat, S # {}
    PROVE  \E m \in S : \A k \in S : m <= k
<1>1. PICK m \in S : \A k \in S : <<k, m>> \notin OpToRel(<, Nat)
  BY WFMin, NatLessThanWellFounded
<1>2. ASSUME NEW k \in S, k < m PROVE FALSE
  BY <1>1, <1>2 DEF OpToRel
<1> QED
  BY <1>2

(* The loop over the list returns the first hole that fits, if one does.   *)
LEMMA SearchFinds ==
    ASSUME TypeOK, NEW n \in Nat, Candidates(n) # {}
    PROVE  WorstFit(n) \in Candidates(n)
<1> DEFINE C == Candidates(n)
           N == Frames * Page
<1>1. N \in Nat /\ H \in Nat /\ None = -1
  BY HeapAssumption DEF HeapAssumption, None
<1>2. \A b \in C : b \in Nat /\ Hole(b) \in Int /\ Hole(b) <= N /\ b <= N
  <2> SUFFICES ASSUME NEW b \in C PROVE b \in Nat /\ Hole(b) \in Int /\ Hole(b) <= N /\ b <= N
    OBVIOUS
  <2>1. b \in Addr
    BY DEF Candidates, TypeOK
  <2>2. prev[b] \in Addr /\ size[prev[b]] \in Nat
    BY <2>1 DEF TypeOK
  <2> QED
    BY <1>1, <2>1, <2>2 DEF Hole, Position, Addr
<1> HIDE DEF C, N
<1>3. \E b \in C : \A c \in C : Hole(c) <= Hole(b)
  <2> DEFINE S == {N - Hole(b) : b \in C}
  <2>1. S \subseteq Nat /\ S # {}
    BY <1>1, <1>2 DEF C
  <2>2. PICK m \in S : \A k \in S : m <= k
    <3> HIDE DEF S
    <3> QED
      BY <2>1, Least
  <2>3. PICK b \in C : m = N - Hole(b)
    BY <2>2
  <2>4. \A c \in C : N - Hole(b) <= N - Hole(c)
    BY <2>2, <2>3
  <2> QED
    BY <1>1, <1>2, <2>4
<1>4. PICK b \in C : \A c \in C : Hole(c) <= Hole(b)
  BY <1>3
<1>5. \E a \in C : Hole(a) = Hole(b) /\ \A c \in C : Hole(c) = Hole(b) => a <= c
  <2> DEFINE S == {a \in C : Hole(a) = Hole(b)}
  <2>1. S \subseteq Nat /\ S # {}
    BY <1>2, <1>4
  <2>2. PICK a \in S : \A c \in S : a <= c
    <3> HIDE DEF S
    <3> QED
      BY <2>1, Least
  <2> QED
    BY <2>2
<1>6. \E a \in C : \A c \in C : Hole(c) < Hole(a) \/ (Hole(c) = Hole(a) /\ a <= c)
  BY <1>2, <1>4, <1>5
<1> QED
  BY <1>6 DEF WorstFit, C
----------------------------------------------------------------------------
(* The list goes from block to block, by their addresses.                  *)
LEMMA Order ==
    ASSUME TypeOK, ListInv
    PROVE  /\ H \in Nat \ {0} /\ Start = 0 /\ None = -1 /\ Sizes \subseteq Nat /\ Addr \subseteq Nat
           /\ linked \subseteq Addr /\ Held \subseteq Addr /\ Start \notin Held /\ end \notin Held
           /\ \A a \in linked : size[a] \in Nat
           /\ \A a \in linked \ {end} : a < next[a]
           /\ \A a \in linked \ {Start} :
                /\ prev[a] # end /\ prev[a] < a /\ prev[a] + H + size[prev[a]] <= a
                /\ \A b \in linked : prev[a] < b => a <= b
           /\ \A a, b \in linked : a < b => a + H + size[a] <= b
<1>1. /\ H \in Nat \ {0} /\ Start = 0 /\ None = -1 /\ Sizes \subseteq Nat /\ Addr \subseteq Nat
      /\ linked \subseteq Addr /\ Held \subseteq Addr /\ Start \notin Held /\ end \notin Held
  <2>1. H \in Nat \ {0} /\ Start = 0 /\ None = -1 /\ Sizes \subseteq Nat
    BY HeapAssumption DEF HeapAssumption, Start, None
  <2>2. Addr \subseteq Nat
    BY HeapAssumption DEF HeapAssumption, Addr
  <2>3. linked \subseteq Addr
    BY DEF TypeOK
  <2>4. Held \subseteq Addr /\ Start \notin Held /\ end \notin Held
    BY DEF ListInv, Held
  <2> QED
    BY <2>1, <2>2, <2>3, <2>4
<1>2. \A a \in linked : size[a] \in Nat /\ a \in Nat /\ next[a] \in Nat /\ next[a] \in linked
  BY <1>1 DEF TypeOK, ListInv
<1>3. \A a \in linked \ {end} : a < next[a]
  BY <1>1, <1>2 DEF ListInv
<1>4. ASSUME NEW a \in linked \ {Start}
      PROVE  /\ prev[a] # end /\ prev[a] < a /\ prev[a] + H + size[prev[a]] <= a
             /\ \A b \in linked : prev[a] < b => a <= b
  <2>1. prev[a] \in linked \ {end} /\ next[prev[a]] = a
    BY DEF ListInv
  <2> QED
    BY <1>3, <2>1 DEF ListInv
<1>5. ASSUME NEW a \in linked, NEW b \in linked, a < b PROVE a + H + size[a] <= b
  <2>1. a # end
    BY <1>1, <1>2, <1>5 DEF ListInv, TypeOK
  <2>2. a + H + size[a] <= next[a] /\ next[a] <= b
    BY <1>5, <2>1 DEF ListInv
  <2> QED
    BY <1>1, <1>2, <2>2
<1> QED
  BY <1>1, <1>2, <1>3, <1>4, <1>5

(* No byte belongs to two blocks, and the list holds all of them.          *)
LEMMA ListIsSound == ASSUME TypeOK, ListInv PROVE HeapSound
<1>1. BlocksDisjoint
  <2> SUFFICES ASSUME NEW a \in Held
               PROVE  /\ Start + H <= a /\ a + H + held[a] <= end
                      /\ \A b \in Held : a < b => a + H + held[a] <= b
    BY DEF BlocksDisjoint
  <2>1. a \in linked /\ a # Start /\ a # end /\ size[a] = held[a] /\ {Start, end} \subseteq linked
    BY Order DEF ListInv
  <2>2. Start < a /\ a < end
    BY <2>1, Order DEF ListInv
  <2>3. Start + H <= a
    BY <2>1, <2>2, Order DEF ListInv
  <2> QED
    BY <2>1, <2>2, <2>3, Order DEF ListInv
<1>2. ListInOrder
  BY Order DEF ListInOrder, ListInv
<1> QED
  BY <1>1, <1>2 DEF HeapSound

(* All the pages below the end are mapped.                                 *)
LEMMA PagesAreMapped == ASSUME TypeOK, MappedInv PROVE HeapMapped
<1>1. PICK m \in 1 .. Frames : end + H = m * Page /\ mapped = 0 .. m - 1
  BY DEF MappedInv
<1>2. Page \in Nat \ {0} /\ Start = 0 /\ end \in Nat /\ H \in Nat
  BY HeapAssumption DEF HeapAssumption, Start, TypeOK, Addr
<1> SUFFICES ASSUME NEW a \in Start .. end + H - 1 PROVE a \div Page \in mapped
  BY DEF HeapMapped
<1> DEFINE y == a \div Page
<1>3. m * Page \in Nat /\ m \in Nat /\ a \in Nat /\ a < m * Page
  BY <1>1, <1>2
<1>4. y \in Nat /\ a % Page \in 0 .. Page - 1 /\ a = Page * y + (a % Page)
  BY <1>2, <1>3, Division
<1> HIDE DEF y
<1>5. y < m
  <2> SUFFICES ASSUME y >= m PROVE FALSE
    BY <1>3, <1>4
  <2>1. Page * y >= Page * m /\ Page * m = m * Page /\ Page * y \in Nat
    BY <1>2, <1>3, <1>4
  <2> QED
    BY <1>3, <1>4, <2>1
<1> QED
  BY <1>1, <1>3, <1>4, <1>5 DEF y

(* At the start the list is the first header and the end.                  *)
LEMMA InitIInv == Init => IInv
<1> SUFFICES ASSUME Init PROVE IInv
  OBVIOUS
<1> DEFINE N == InitialPages * Page
<1>1. /\ H \in Nat \ {0} /\ Page \in Nat \ {0} /\ InitialPages \in Nat /\ Frames \in Nat
      /\ N \in Nat /\ 2 * H <= N /\ InitialPages <= Frames /\ Sizes \subseteq Nat
  BY HeapAssumption DEF HeapAssumption
<1>2. InitialPages >= 1 /\ N <= Frames * Page /\ Frames * Page \in Nat
  <2>1. InitialPages # 0
    BY <1>1
  <2> QED
    BY <1>1, <2>1
<1> HIDE DEF N
<1>3. /\ linked = {Start, end} /\ end = N - H /\ end > Start /\ end \in Addr /\ Start \in Addr /\ Start = 0
      /\ None \notin Nat
  BY <1>1, <1>2 DEF Init, Addr, Start, None, N
<1>4. TypeOK
  <2>1. mapped \subseteq 0 .. Frames
    BY <1>1 DEF Init
  <2>2. prev \in [Addr -> Addr] /\ next \in [Addr -> Addr]
    BY <1>3 DEF Init
  <2> QED
    BY <1>3, <2>1, <2>2 DEF Init, TypeOK, Idle
<1>5. Held = {}
  BY DEF Init, Held
<1>6. ListInv
  BY <1>1, <1>3, <1>5 DEF Init, ListInv
<1>7. MappedInv
  BY <1>1, <1>2, <1>3 DEF Init, MappedInv, N
<1>8. StaleInv /\ CallInv
  BY DEF Init, StaleInv, CallInv, CallOf, Idle
<1> QED
  BY <1>4, <1>6, <1>7, <1>8 DEF IInv

----------------------------------------------------------------------------
(* While callers take turns the calls of the others are idle.              *)
LEMMA OthersIdle ==
    ASSUME ~Preemptive, NEW p \in Procs, NEW at, At(p, at)
    PROVE  call[p].at = at /\ \A q \in Procs \ {p} : call[q].at = "idle"
  BY DEF At

(* What the process in the call keeps, all processes keep.                 *)
LEMMA OneCall ==
    ASSUME NEW p \in Procs, \A q \in Procs \ {p} : call'[q].at = "idle", CallOf(p)'
    PROVE  CallInv'
  BY DEF CallInv, CallOf

CallRecords == [at : {"idle", "scan", "expand", "setup", "move"},
                size : Sizes \cup {0}, old : Addr \cup {None},
                new : Addr \cup {None}, hole : Addr \cup {None},
                grown : BOOLEAN]

(* The fields of a call.                                                   *)
LEMMA CallTypes ==
    ASSUME TypeOK
    PROVE  call \in [Procs -> CallRecords] /\ Idle \in CallRecords
  BY DEF TypeOK, CallRecords, Idle

(* What does not touch the list, the blocks or the pages.                  *)
LEMMA Untouching ==
    ASSUME IInv, UNCHANGED <<headers, end, mapped, held, stale>>
    PROVE  ListInv' /\ StaleInv' /\ MappedInv'
  BY DEF IInv, ListInv, Held, StaleInv, MappedInv, headers

(* heap_mallocn() begins with a size.                                      *)
LEMMA MallocKeeps ==
    ASSUME ~Preemptive, IInv, NEW p \in Procs, NEW n \in Sizes, Malloc(p, n)
    PROVE  IInv'
<1>1. \A q \in Procs \ {p} : call[q].at = "idle"
  BY OthersIdle DEF Malloc
<1>2. /\ call' = [call EXCEPT ![p] = [Idle EXCEPT !.at = "scan", !.size = n]]
      /\ UNCHANGED <<headers, end, mapped, held, stale, panicked>>
  BY DEF Malloc
<1>3. call \in [Procs -> CallRecords] /\ Idle \in CallRecords /\ Idle.old = None /\ ~Idle.grown
  BY CallTypes DEF IInv, Idle
<1>4. [Idle EXCEPT !.at = "scan", !.size = n] \in CallRecords
  BY DEF Idle, CallRecords
<1>5. TypeOK'
  BY <1>2, <1>3, <1>4 DEF IInv, TypeOK, headers, CallRecords
<1>6. CallOf(p)'
  BY <1>2, <1>3 DEF CallOf, Idle
<1>7. \A q \in Procs \ {p} : call'[q].at = "idle"
  BY <1>1, <1>2, <1>3
<1> QED
  BY <1>2, <1>5, <1>6, <1>7, OneCall, Untouching DEF IInv

(* The loop finds a hole or asks for more memory.                          *)
LEMMA ScanKeeps ==
    ASSUME ~Preemptive, IInv, NEW p \in Procs, Scan(p)
    PROVE  IInv'
<1> DEFINE n == call[p].size
           C == Candidates(n)
<1>1. call[p].at = "scan" /\ \A q \in Procs \ {p} : call[q].at = "idle"
  BY OthersIdle DEF Scan
<1>2. UNCHANGED <<headers, end, mapped, held, stale, panicked>>
  BY DEF Scan
<1>3. call \in [Procs -> CallRecords]
  BY CallTypes DEF IInv
<1>4. n \in Sizes /\ n \in Nat /\ CallOf(p)
  BY <1>1, HeapAssumption DEF HeapAssumption, IInv, CallInv, CallOf
<1>5. C # {} => WorstFit(n) \in C /\ WorstFit(n) \in Addr
  BY <1>4, SearchFinds DEF IInv, TypeOK, Candidates
<1>6. \A m : Candidates(m)' = Candidates(m)
  BY <1>2 DEF Candidates, Fits, Hole, Position, headers
<1> HIDE DEF n, C
<1>7. \/ C # {} /\ call' = [call EXCEPT ![p].at = "setup", ![p].hole = WorstFit(n)]
      \/ C = {} /\ call' = [call EXCEPT ![p].at = "expand"]
  BY DEF Scan, C, n
<1>8. TypeOK'
  <2>1. call' \in [Procs -> CallRecords]
    BY <1>3, <1>5, <1>7 DEF CallRecords
  <2> QED
    BY <1>2, <2>1 DEF IInv, TypeOK, headers, CallRecords
<1>9. /\ call'[p].size = n /\ call'[p].old = call[p].old /\ call'[p].grown = call[p].grown
      /\ \/ C # {} /\ call'[p].at = "setup" /\ call'[p].hole = WorstFit(n)
         \/ C = {} /\ call'[p].at = "expand"
      /\ \A q \in Procs \ {p} : call'[q].at = "idle"
  BY <1>1, <1>3, <1>7 DEF CallRecords, n
<1>10. C = {} => ~call[p].grown
  BY <1>1, <1>4 DEF CallOf, n, C
<1>11. Held' = Held /\ size' = size
  BY <1>2 DEF Held, headers
<1>12. /\ n \in Sizes
       /\ call[p].old # None => call[p].old \in Held /\ size[call[p].old] < n
       /\ C # {} => WorstFit(n) \in Candidates(n)
  BY <1>1, <1>4, <1>5 DEF CallOf, n, C
<1>13. CallOf(p)'
  BY <1>6, <1>9, <1>10, <1>11, <1>12 DEF CallOf
<1> QED
  BY <1>2, <1>8, <1>9, <1>13, OneCall, Untouching DEF IInv

(* A block in a hole that fits leaves the list in order, and no stale      *)
(* header is found in it again.                                            *)
Inserted(hole, new, n) ==
    /\ linked' = linked \cup {new}
    /\ prev' = [prev EXCEPT ![new] = prev[hole], ![hole] = new]
    /\ next' = [next EXCEPT ![new] = hole, ![prev[hole]] = new]
    /\ size' = [size EXCEPT ![new] = n]
    /\ held' = [held EXCEPT ![new] = n]
    /\ stale' = Untouched(new, new + H + n)
    /\ end' = end

(* A header put into a hole large enough keeps the list in order.          *)
LEMMA InsertKeepsList ==
    ASSUME TypeOK, ListInv, StaleInv,
           NEW n \in Sizes, NEW hole \in Candidates(n), NEW new, new = Position(hole),
           Inserted(hole, new, n)
    PROVE  /\ new \in Addr \ linked
           /\ ListInv' /\ StaleInv'
           /\ linked' \subseteq Addr /\ prev' \in [Addr -> Addr] /\ next' \in [Addr -> Addr]
           /\ size' \in [Addr -> Nat] /\ held' \in [Addr -> Sizes \cup {None}] /\ stale' \subseteq Addr
<1> DEFINE q == prev[hole]
<1>1. /\ prev \in [Addr -> Addr] /\ next \in [Addr -> Addr] /\ size \in [Addr -> Nat]
      /\ held \in [Addr -> Sizes \cup {None}] /\ stale \subseteq Addr /\ end \in Addr
  BY DEF TypeOK
<1>2. /\ H \in Nat \ {0} /\ Start = 0 /\ None = -1 /\ n \in Nat /\ None \notin Sizes /\ Addr \subseteq Nat
      /\ linked \subseteq Addr
  BY Order
<1>3. /\ hole \in linked \ {Start} /\ q \in linked \ {end} /\ next[q] = hole /\ q < hole
      /\ hole \in Addr /\ q \in Addr
      /\ \A b \in linked : q < b => hole <= b
  BY <1>2, Order DEF ListInv, Candidates
<1>4. new = q + H + size[q] /\ new + H + n <= hole /\ q < new /\ new < hole /\ new \in Nat
  <2>1. q \in Nat /\ hole \in Nat /\ size[q] \in Nat
    BY <1>1, <1>2, <1>3
  <2>2. new = q + H + size[q] /\ hole - new >= n + H
    BY DEF Position, Candidates, Fits, Hole
  <2> QED
    BY <1>2, <2>1, <2>2
<1>5. new \in Addr /\ new \notin linked
  <2>1. new \in Addr
    BY <1>2, <1>3, <1>4, HeapAssumption DEF HeapAssumption, Addr
  <2> QED
    BY <1>2, <1>3, <1>4, <2>1
<1> HIDE DEF q
<1>6. /\ linked' \subseteq Addr /\ prev' \in [Addr -> Addr] /\ next' \in [Addr -> Addr]
      /\ size' \in [Addr -> Nat] /\ held' \in [Addr -> Sizes \cup {None}]
  BY <1>1, <1>2, <1>3, <1>5 DEF q, Inserted
<1>7. stale' \subseteq stale /\ new \notin stale'
  BY <1>1, <1>2, <1>4 DEF Untouched, Inserted
<1>8. /\ prev'[new] = q /\ prev'[hole] = new /\ next'[new] = hole /\ next'[q] = new
      /\ \A a \in Addr \ {new, hole} : prev'[a] = prev[a]
      /\ \A a \in Addr \ {new, q} : next'[a] = next[a]
      /\ \A a \in Addr \ {new} : size'[a] = size[a] /\ held'[a] = held[a]
      /\ size'[new] = n /\ held'[new] = n
      /\ linked' = linked \cup {new} /\ end' = end
  BY <1>1, <1>3, <1>4, <1>5, <1>2 DEF q, Inserted
<1>9. Held' = Held \cup {new}
  BY <1>2, <1>5, <1>8 DEF Held
<1>10. /\ linked' = Held' \cup {Start, end'} /\ Start < end' /\ size'[Start] = 0
       /\ held'[Start] = None /\ held'[end'] = None /\ next'[end'] = Start
       /\ \A a \in Held' : size'[a] = held'[a]
  <2>1. Start \in linked /\ end \in linked /\ Held \subseteq linked
    BY DEF ListInv
  <2>2. Start # new /\ end # new /\ end # q
    BY <1>3, <1>5, <2>1
  <2> QED
    BY <1>2, <1>5, <1>8, <1>9, <2>1, <2>2 DEF ListInv
<1> DEFINE InList(a) == /\ a \in linked /\ a \in Addr /\ a \in Nat /\ a <= end
                       /\ next[a] \in linked /\ prev[a] \in linked
                       /\ prev[next[a]] = a /\ next[prev[a]] = a /\ size[a] \in Nat
<1>11. \A a \in linked : InList(a)
  BY <1>1, <1>2 DEF ListInv
<1>12. /\ \A a \in linked \ {end} : a + H + size[a] <= next[a] /\ \A b \in linked : a < b => next[a] <= b
       /\ hole <= end /\ end \in Nat
  BY <1>1, <1>2, <1>3 DEF ListInv
<1>13. ASSUME NEW a \in linked'
       PROVE  /\ a <= end' /\ next'[a] \in linked' /\ prev'[a] \in linked'
              /\ prev'[next'[a]] = a /\ next'[prev'[a]] = a
  <2>1. CASE a = new
    BY <1>2, <1>3, <1>4, <1>8, <1>12, <2>1
  <2>2. CASE a \in linked
    <3>1. InList(a) /\ a # new
      BY <1>5, <1>11, <2>2
    <3>2. a # q => next[a] # hole
      BY <3>1 DEF q
    <3>3. a # hole => prev[a] # q
      BY <1>3, <3>1
    <3>4. CASE a = q
      <4>1. next'[a] = new /\ prev'[new] = a
        BY <1>8, <3>4
      <4>2. prev'[a] = prev[a] /\ a # hole /\ prev[a] \notin {new, q}
        BY <1>3, <1>5, <1>8, <1>2, <3>1, <3>3, <3>4
      <4> QED
        BY <1>2, <1>8, <3>1, <4>1, <4>2, ZenonT(60)
    <3>5. CASE a = hole
      <4>1. prev'[a] = new /\ next'[new] = a
        BY <1>8, <3>5
      <4>2. next'[a] = next[a] /\ a # q /\ next[a] \notin {new, hole}
        BY <1>3, <1>5, <1>8, <1>2, <3>1, <3>2, <3>5
      <4> QED
        BY <1>2, <1>8, <3>1, <4>1, <4>2, ZenonT(60)
    <3>6. CASE a \notin {q, hole}
      <4>1. prev'[a] = prev[a] /\ next'[a] = next[a]
        BY <1>8, <3>1, <3>6
      <4>2. next[a] \in Addr \ {new, hole} /\ prev[a] \in Addr \ {new, q}
        BY <1>2, <1>5, <3>1, <3>2, <3>3, <3>6
      <4> QED
        BY <1>8, <3>1, <4>1, <4>2
    <3> QED
      BY <3>4, <3>5, <3>6
  <2> QED
    BY <1>8, <2>1, <2>2
<1>14. ASSUME NEW a \in linked' \ {end'}
       PROVE  a + H + size'[a] <= next'[a] /\ \A b \in linked' : a < b => next'[a] <= b
  <2>1. CASE a = new
    <3>1. \A b \in linked : new < b => hole <= b
      BY <1>2, <1>3, <1>4, <1>11
    <3> QED
      BY <1>2, <1>4, <1>8, <2>1, <3>1
  <2>2. CASE a = q
    <3>1. size'[q] = size[q] /\ next'[q] = new /\ InList(q)
      BY <1>3, <1>4, <1>5, <1>8, <1>11
    <3>2. \A b \in linked' : q < b => new <= b
      BY <1>2, <1>3, <1>4, <1>8, <1>11
    <3> QED
      BY <1>2, <1>4, <2>2, <3>1, <3>2
  <2>3. CASE a \in linked \ {end, q}
    <3>1. next'[a] = next[a] /\ size'[a] = size[a] /\ a + H + size[a] <= next[a] /\ a \in Nat
          /\ next[a] \in linked /\ next[a] \in Nat
      BY <1>5, <1>8, <1>11, <1>12, <2>3
    <3>2. ASSUME a < new PROVE next[a] <= new
      <4>1. a <= q
        BY <1>3, <1>4, <1>11, <1>12, <2>3, <3>1, <3>2
      <4>2. a < q
        BY <1>3, <1>11, <2>3, <3>1, <4>1
      <4>3. next[a] <= q
        BY <1>3, <1>12, <2>3, <4>2
      <4> QED
        BY <1>3, <1>4, <1>11, <3>1, <4>3
    <3> QED
      BY <1>8, <1>12, <2>3, <3>1, <3>2
  <2> QED
    BY <1>8, <2>1, <2>2, <2>3
<1>15. ListInv'
  BY <1>10, <1>13, <1>14 DEF ListInv
<1>16. StaleInv'
  <2> SUFFICES ASSUME NEW a \in stale'
               PROVE  /\ a \notin linked' /\ a < end'
                      /\ prev'[a] \in stale' \cup linked' => next'[prev'[a]] # a
    BY DEF StaleInv
  <2>1. a \in stale /\ a \in Addr /\ a # new /\ a \notin linked /\ a < end /\ a # hole
    BY <1>1, <1>3, <1>7 DEF StaleInv
  <2>2. prev'[a] = prev[a] /\ prev[a] \in Addr
    BY <1>1, <1>8, <2>1
  <2>3. CASE prev[a] \in {new, q}
    BY <1>3, <1>8, <2>1, <2>2, <2>3
  <2>4. CASE prev[a] \notin {new, q}
    BY <1>7, <1>8, <2>1, <2>2, <2>4 DEF StaleInv
  <2> QED
    BY <2>1, <2>2, <2>3, <2>4
<1> QED
  BY <1>1, <1>5, <1>6, <1>7, <1>15, <1>16

(* A block is freed: heap_free() takes its header out of the list.         *)
LEMMA FreeKeepsList ==
    ASSUME TypeOK, ListInv, StaleInv, NEW a \in Held, HeapFree(a)
    PROVE  /\ ListInv' /\ StaleInv'
           /\ linked' \subseteq Addr /\ prev' \in [Addr -> Addr] /\ next' \in [Addr -> Addr]
           /\ held' \in [Addr -> Sizes \cup {None}] /\ stale' \subseteq Addr
           /\ UNCHANGED <<size, end, mapped, panicked>>
           /\ Held' = Held \ {a}
<1> DEFINE p == prev[a]
           q == next[a]
           InList(x) == /\ x \in linked /\ x \in Addr /\ x \in Nat /\ x <= end
                        /\ next[x] \in linked /\ prev[x] \in linked
                        /\ prev[next[x]] = x /\ next[prev[x]] = x /\ size[x] \in Nat
<1>1. /\ prev \in [Addr -> Addr] /\ next \in [Addr -> Addr] /\ size \in [Addr -> Nat]
      /\ held \in [Addr -> Sizes \cup {None}] /\ stale \subseteq Addr /\ end \in Addr
  BY DEF TypeOK
<1>2. /\ H \in Nat \ {0} /\ Start = 0 /\ None = -1 /\ None \notin Sizes /\ Addr \subseteq Nat
      /\ linked \subseteq Addr
  BY Order
<1>3. \A x \in linked : InList(x)
  BY <1>1, <1>2 DEF ListInv
<1>4. \A x \in linked \ {end} : x + H + size[x] <= next[x] /\ \A b \in linked : x < b => next[x] <= b
  BY DEF ListInv
<1>5. a \in linked /\ a # Start /\ a # end
  BY <1>2, Order DEF ListInv
<1>6. /\ p \in linked \ {end} /\ q \in linked \ {Start} /\ p < a /\ a < q /\ next[p] = a /\ prev[q] = a
  <2>1. p # end /\ p < a
    BY <1>5, Order
  <2>2. a < q
    BY <1>5, Order
  <2> QED
    BY <1>2, <1>3, <1>5, <2>1, <2>2
<1>7. p \in Addr /\ q \in Addr /\ p \in Nat /\ q \in Nat /\ a \in Nat /\ a \in Addr
  BY <1>3, <1>5, <1>6
<1>8. /\ linked' = linked \ {a}
      /\ next' = [next EXCEPT ![p] = q] /\ prev' = [prev EXCEPT ![q] = p]
      /\ held' = [held EXCEPT ![a] = None] /\ stale' = stale \cup {a}
      /\ UNCHANGED <<size, end, mapped, panicked>>
  BY <1>6 DEF HeapFree, Valid
<1> HIDE DEF p, q
<1>9. /\ next'[p] = q /\ prev'[q] = p
      /\ \A x \in Addr \ {p} : next'[x] = next[x]
      /\ \A x \in Addr \ {q} : prev'[x] = prev[x]
      /\ held'[a] = None /\ \A x \in Addr \ {a} : held'[x] = held[x]
  BY <1>1, <1>7, <1>8
<1>10. Held' = Held \ {a}
  BY <1>8, <1>7, <1>9 DEF Held
<1>11. /\ linked' = Held' \cup {Start, end'} /\ Start < end' /\ size'[Start] = 0
       /\ held'[Start] = None /\ held'[end'] = None /\ next'[end'] = Start
       /\ \A x \in Held' : size'[x] = held'[x]
  <2>1. \A x \in Held \ {a} : size'[x] = held'[x]
    BY <1>8, <1>9 DEF ListInv, Held
  <2>2. linked' = Held' \cup {Start, end'}
    BY <1>5, <1>8, <1>10 DEF ListInv
  <2>3. held'[Start] = None /\ held'[end'] = None /\ next'[end'] = Start
    BY <1>1, <1>2, <1>5, <1>6, <1>8, <1>9 DEF ListInv
  <2> QED
    BY <1>8, <1>10, <2>1, <2>2, <2>3 DEF ListInv
<1>12. ASSUME NEW x \in linked'
       PROVE  /\ x <= end' /\ next'[x] \in linked' /\ prev'[x] \in linked'
              /\ prev'[next'[x]] = x /\ next'[prev'[x]] = x
  <2>1. InList(x) /\ x # a
    BY <1>3, <1>8
  <2>2. x # p => next[x] # a
    BY <2>1 DEF p
  <2>3. x # q => prev[x] # a
    BY <2>1 DEF q
  <2>4. next'[x] \in linked' /\ prev'[next'[x]] = x
    <3>1. CASE x = p
      BY <1>6, <1>7, <1>8, <1>9, <3>1
    <3>2. CASE x # p
      <4>1. next'[x] = next[x] /\ next[x] # a /\ next[x] \in Addr
        BY <1>2, <1>9, <2>1, <2>2, <3>2
      <4>2. next[x] # q
        BY <1>6, <2>1
      <4> QED
        BY <1>8, <1>9, <2>1, <4>1, <4>2
    <3> QED
      BY <3>1, <3>2
  <2>5. prev'[x] \in linked' /\ next'[prev'[x]] = x
    <3>1. CASE x = q
      BY <1>6, <1>7, <1>8, <1>9, <3>1
    <3>2. CASE x # q
      <4>1. prev'[x] = prev[x] /\ prev[x] # a /\ prev[x] \in Addr
        BY <1>2, <1>9, <2>1, <2>3, <3>2
      <4>2. prev[x] # p
        BY <1>6, <2>1
      <4> QED
        BY <1>8, <1>9, <2>1, <4>1, <4>2
    <3> QED
      BY <3>1, <3>2
  <2> QED
    BY <1>8, <2>1, <2>4, <2>5
<1>13. ASSUME NEW x \in linked' \ {end'}
       PROVE  x + H + size'[x] <= next'[x] /\ \A b \in linked' : x < b => next'[x] <= b
  <2>1. CASE x = p
    <3>1. p + H + size[p] <= a /\ InList(p)
      BY <1>3, <1>4, <1>6
    <3>2. \A b \in linked' : p < b => q <= b
      <4> SUFFICES ASSUME NEW b \in linked \ {a}, p < b PROVE q <= b
        BY <1>8
      <4>1. a <= b /\ b \in Nat
        BY <1>3, <1>4, <1>6
      <4> QED
        BY <1>4, <1>5, <1>7, <4>1 DEF q
    <3> QED
      BY <1>2, <1>6, <1>7, <1>8, <1>9, <2>1, <3>1, <3>2
  <2>2. CASE x # p
    BY <1>2, <1>4, <1>8, <1>9, <2>2
  <2> QED
    BY <2>1, <2>2
<1>14. ListInv'
  BY <1>11, <1>12, <1>13 DEF ListInv
<1>15. StaleInv'
  <2> SUFFICES ASSUME NEW x \in stale'
               PROVE  /\ x \notin linked' /\ x < end'
                      /\ prev'[x] \in stale' \cup linked' => next'[prev'[x]] # x
    BY DEF StaleInv
  <2>1. CASE x = a
    <3>1. prev'[a] = p /\ a < end /\ a # q
      BY <1>1, <1>2, <1>3, <1>5, <1>6, <1>7, <1>9 DEF p
    <3> QED
      BY <1>8, <1>9, <2>1, <3>1
  <2>2. CASE x \in stale
    <3>1. x \in Addr /\ x \notin linked /\ x < end /\ x # q /\ prev'[x] = prev[x] /\ prev[x] \in Addr
      BY <1>1, <1>6, <1>9, <2>2 DEF StaleInv
    <3>2. prev[x] \in stale' \cup linked' => prev[x] \in stale \cup linked
      BY <1>5, <1>8
    <3>3. next'[prev[x]] # x \/ prev[x] \notin stale' \cup linked'
      BY <1>9, <2>2, <3>1, <3>2 DEF StaleInv
    <3> QED
      BY <1>8, <3>1, <3>3
  <2> QED
    BY <1>8, <2>1, <2>2
<1>16. /\ linked' \subseteq Addr /\ prev' \in [Addr -> Addr] /\ next' \in [Addr -> Addr]
       /\ held' \in [Addr -> Sizes \cup {None}] /\ stale' \subseteq Addr
  BY <1>1, <1>2, <1>7, <1>8
<1> QED
  BY <1>8, <1>10, <1>14, <1>15, <1>16

(* A second call of free() is refused.                                     *)
LEMMA FreeAgainRefused ==
    ASSUME TypeOK, ListInv, StaleInv, NEW p \in Procs, NEW a \in Addr, FreeAgain(p, a)
    PROVE  UNCHANGED vars
<1>1. a \in stale /\ prev[a] \in stale \cup linked /\ HeapFree(a) /\ UNCHANGED call
  BY DEF FreeAgain
<1>2. ~Valid(a)
  BY <1>1 DEF StaleInv, Valid
<1>3. held[a] = None
  BY <1>1 DEF StaleInv, ListInv, Held
<1>4. held' = held
  BY <1>1, <1>3 DEF HeapFree, TypeOK
<1> QED
  BY <1>1, <1>2, <1>4 DEF HeapFree, vars, headers

(* realloc() begins with a block in use.                                   *)
LEMMA ReallocKeeps ==
    ASSUME ~Preemptive, IInv, NEW p \in Procs, NEW a \in Addr, NEW n \in Sizes, Realloc(p, a, n)
    PROVE  IInv'
<1>1. /\ call[p].at = "idle" /\ \A q \in Procs \ {p} : call[q].at = "idle"
      /\ a \in Held /\ UNCHANGED <<linked, prev, next, end, mapped, panicked>>
  BY OthersIdle DEF Realloc
<1>2. /\ H \in Nat \ {0} /\ Start = 0 /\ None = -1 /\ None \notin Sizes /\ Addr \subseteq Nat /\ n \in Nat
      /\ linked \subseteq Addr /\ a \notin {Start, end} /\ a \in linked
  BY <1>1, Order DEF IInv, ListInv
<1>3. /\ next \in [Addr -> Addr] /\ size \in [Addr -> Nat] /\ held \in [Addr -> Sizes \cup {None}]
      /\ stale \subseteq Addr /\ call \in [Procs -> CallRecords] /\ Idle \in CallRecords
  BY CallTypes DEF IInv, TypeOK
<1>4. CASE InPlace(a, n)
  <2>1. /\ size' = [size EXCEPT ![a] = n] /\ held' = [held EXCEPT ![a] = n]
        /\ stale' = Untouched(a, a + H + n) /\ UNCHANGED call
    BY <1>4 DEF Realloc
  <2>2. /\ size'[a] = n /\ held'[a] = n
        /\ \A x \in Addr \ {a} : size'[x] = size[x] /\ held'[x] = held[x]
        /\ size' \in [Addr -> Nat] /\ held' \in [Addr -> Sizes \cup {None}] /\ stale' \subseteq stale
    BY <1>2, <1>3, <2>1 DEF Untouched
  <2>3. Held' = Held
    BY <1>1, <1>2, <2>2 DEF Held
  <2>4. TypeOK'
    BY <1>1, <1>3, <2>1, <2>2 DEF IInv, TypeOK
  <2>5. ListInv'
    <3>1. /\ \A x \in linked \ {end} : x + H + size[x] <= next[x]
          /\ a + H + n <= next[a]
      BY <1>4 DEF IInv, ListInv, InPlace
    <3>2. \A x \in linked \ {end} : x + H + size'[x] <= next[x]
      BY <1>2, <2>2, <3>1
    <3>3. size'[Start] = 0 /\ held'[Start] = None /\ held'[end] = None
          /\ \A x \in Held : size'[x] = held'[x]
      BY <1>2, <2>2, Order DEF IInv, ListInv, TypeOK
    <3> QED
      BY <1>1, <2>3, <3>2, <3>3 DEF IInv, ListInv
  <2>6. StaleInv' /\ MappedInv'
    BY <1>1, <2>2 DEF IInv, StaleInv, MappedInv
  <2>7. CallOf(p)' /\ \A q \in Procs \ {p} : call'[q].at = "idle"
    BY <1>1, <2>1 DEF CallOf
  <2> QED
    BY <2>4, <2>5, <2>6, <2>7, OneCall DEF IInv
<1>5. CASE ~InPlace(a, n)
  <2>1. /\ call' = [call EXCEPT ![p] = [Idle EXCEPT !.at = "scan", !.size = n, !.old = a]]
        /\ UNCHANGED <<size, held, stale>>
    BY <1>5 DEF Realloc
  <2>2. [Idle EXCEPT !.at = "scan", !.size = n, !.old = a] \in CallRecords
    BY DEF Idle, CallRecords
  <2>3. TypeOK'
    BY <1>1, <1>3, <2>1, <2>2 DEF IInv, TypeOK, CallRecords
  <2>4. size[a] < n
    <3>1. a + H + size[a] <= next[a]
      BY <1>2 DEF IInv, ListInv
    <3>2. next[a] \in Nat /\ size[a] \in Nat /\ a \in Nat
      BY <1>2, <1>3
    <3>3. next[a] < a + H + n
      BY <1>2, <1>5, <3>2 DEF InPlace
    <3> QED
      BY <1>2, <3>1, <3>2, <3>3
  <2>5. Held' = Held
    BY <2>1 DEF Held
  <2>6. CallOf(p)' /\ \A q \in Procs \ {p} : call'[q].at = "idle"
    BY <1>1, <1>3, <2>1, <2>4, <2>5 DEF CallOf, Idle
  <2> QED
    BY <1>1, <2>1, <2>3, <2>6, OneCall, Untouching DEF IInv, headers
<1> QED
  BY <1>4, <1>5

(* The block is set up where the hole was.                                 *)
LEMMA SetupKeeps ==
    ASSUME ~Preemptive, IInv, NEW p \in Procs, SetupBlock(p)
    PROVE  IInv'
<1> DEFINE n == call[p].size
           hole == call[p].hole
           new == Position(hole)
           old == call[p].old
<1>1. call[p].at = "setup" /\ \A q \in Procs \ {p} : call[q].at = "idle"
  BY OthersIdle DEF SetupBlock
<1>2. /\ n \in Sizes /\ hole \in Candidates(n) /\ (old # None => old \in Held /\ size[old] < n)
      /\ call \in [Procs -> CallRecords] /\ Idle \in CallRecords
  BY <1>1, CallTypes DEF IInv, CallInv, CallOf
<1>3. /\ Inserted(hole, new, n)
      /\ call' = [call EXCEPT ![p] = IF @.old = None THEN Idle
                                     ELSE [@ EXCEPT !.at = "move", !.new = new]]
      /\ UNCHANGED <<end, mapped, panicked>>
  BY DEF SetupBlock, Inserted
<1> HIDE DEF n, hole, new
<1>4. /\ new \in Addr \ linked
      /\ ListInv' /\ StaleInv'
      /\ linked' \subseteq Addr /\ prev' \in [Addr -> Addr] /\ next' \in [Addr -> Addr]
      /\ size' \in [Addr -> Nat] /\ held' \in [Addr -> Sizes \cup {None}] /\ stale' \subseteq Addr
  <2>1. new = Position(hole)
    BY DEF new
  <2> QED
    BY <1>2, <1>3, <2>1, InsertKeepsList DEF IInv
<1>5. /\ call' = [call EXCEPT ![p] = IF old = None THEN Idle
                                     ELSE [call[p] EXCEPT !.at = "move", !.new = new]]
      /\ call[p] \in CallRecords
  BY <1>2, <1>3
<1>6. TypeOK'
  <2>1. call' \in [Procs -> CallRecords]
    BY <1>2, <1>4, <1>5 DEF CallRecords
  <2> QED
    BY <1>3, <1>4, <2>1 DEF IInv, TypeOK, CallRecords
<1>7. CallOf(p)'
  <2>1. CASE old = None
    BY <1>2, <1>5, <2>1 DEF CallOf, Idle
  <2>2. CASE old # None
    <3>1. call'[p].at = "move" /\ call'[p].old = old /\ call'[p].new = new
      BY <1>2, <1>5, <2>2 DEF CallRecords
    <3> HIDE DEF old
    <3>2. old \in linked /\ old # new /\ old \in Addr
      BY <1>2, <1>4, <2>2, Order DEF IInv, ListInv
    <3>3. /\ held'[new] = n /\ held'[old] = held[old] /\ size'[old] = size[old]
      BY <1>3, <1>4, <3>2 DEF Inserted, IInv, TypeOK
    <3>4. new \in Held' /\ old \in Held' /\ size'[old] < held'[new]
      BY <1>2, <1>4, <2>2, <3>2, <3>3, Order DEF IInv, Held
    <3> QED
      BY <3>1, <3>4 DEF CallOf
  <2> QED
    BY <2>1, <2>2
<1>8. \A q \in Procs \ {p} : call'[q].at = "idle"
  BY <1>1, <1>2, <1>5
<1>9. MappedInv'
  BY <1>3 DEF IInv, MappedInv
<1> QED
  BY <1>4, <1>6, <1>7, <1>8, <1>9, OneCall DEF IInv

(* heap_free() takes a header out, or refuses.                             *)
LEMMA FreeKeeps ==
    ASSUME ~Preemptive, IInv, NEW p \in Procs,
           Move(p) \/ \E a \in Addr : Free(p, a)
    PROVE  IInv'
<1>1. PICK a \in Held : HeapFree(a)
  BY DEF IInv, CallInv, CallOf, Move, At, Free
<1>2. /\ call'[p].at = "idle" /\ call' \in [Procs -> CallRecords]
      /\ \A q \in Procs \ {p} : call[q].at = "idle" /\ call'[q].at = "idle"
  <2>1. call \in [Procs -> CallRecords] /\ Idle \in CallRecords /\ Idle.at = "idle"
    BY CallTypes DEF IInv, Idle
  <2>2. /\ \A q \in Procs \ {p} : call[q].at = "idle"
        /\ call' = [call EXCEPT ![p] = Idle] \/ (call' = call /\ call[p].at = "idle")
    BY OthersIdle DEF Move, Free
  <2> QED
    BY <2>1, <2>2
<1>3. /\ ListInv' /\ StaleInv'
      /\ linked' \subseteq Addr /\ prev' \in [Addr -> Addr] /\ next' \in [Addr -> Addr]
      /\ held' \in [Addr -> Sizes \cup {None}] /\ stale' \subseteq Addr
      /\ UNCHANGED <<size, end, mapped, panicked>>
  BY <1>1, FreeKeepsList DEF IInv
<1>4. TypeOK'
  BY <1>2, <1>3 DEF IInv, TypeOK, CallRecords
<1>5. CallOf(p)' /\ MappedInv'
  BY <1>2, <1>3 DEF CallOf, IInv, MappedInv
<1> QED
  BY <1>2, <1>3, <1>4, <1>5, OneCall DEF IInv

(* The list of a heap that has grown ends in the new header; the one that  *)
(* ended it before is abandoned.                                           *)
Ended(newEnd) ==
    LET last == prev[end]
    IN  /\ end' = newEnd
        /\ linked' = (linked \ {end}) \cup {newEnd}
        /\ next' = [next EXCEPT ![last] = newEnd, ![newEnd] = Start]
        /\ prev' = [prev EXCEPT ![newEnd] = last, ![Start] = newEnd]
        /\ size' = [size EXCEPT ![newEnd] = 0, ![Start] = 0]
        /\ UNCHANGED <<held, stale>>

(* The end moves up and stays the last header.                             *)
LEMMA EndKeepsList ==
    ASSUME TypeOK, ListInv, StaleInv, NEW newEnd \in Addr, newEnd > end, Ended(newEnd)
    PROVE  /\ ListInv' /\ StaleInv'
           /\ linked' \subseteq Addr /\ prev' \in [Addr -> Addr] /\ next' \in [Addr -> Addr]
           /\ size' \in [Addr -> Nat]
           /\ newEnd \in linked' \ {Start} /\ Position(newEnd)' <= end
           /\ \A a \in Held : size'[a] = size[a]
<1> DEFINE last == prev[end]
           InList(x) == /\ x \in linked /\ x \in Addr /\ x \in Nat /\ x <= end
                        /\ next[x] \in linked /\ prev[x] \in linked
                        /\ prev[next[x]] = x /\ next[prev[x]] = x /\ size[x] \in Nat
<1>1. /\ prev \in [Addr -> Addr] /\ next \in [Addr -> Addr] /\ size \in [Addr -> Nat]
      /\ held \in [Addr -> Sizes \cup {None}] /\ stale \subseteq Addr /\ end \in Addr
  BY DEF TypeOK
<1>2. /\ H \in Nat \ {0} /\ Start = 0 /\ None = -1 /\ None \notin Sizes /\ Addr \subseteq Nat
      /\ linked \subseteq Addr
  BY Order
<1>3. \A x \in linked : InList(x)
  BY <1>1, <1>2 DEF ListInv, InList
<1>4. \A x \in linked \ {end} : x + H + size[x] <= next[x] /\ \A b \in linked : x < b => next[x] <= b
  BY DEF ListInv
<1>5. /\ end \in linked /\ Start \in linked /\ Start < end /\ prev[Start] = end /\ next[end] = Start
      /\ size[Start] = 0 /\ linked = Held \cup {Start, end}
  BY DEF ListInv
<1>6. /\ last \in linked \ {end} /\ next[last] = end /\ last < end /\ last + H + size[last] <= end
  BY <1>2, <1>3, <1>4, <1>5, Order DEF InList
<1>7. newEnd \notin linked /\ newEnd \in Nat /\ newEnd > Start /\ newEnd # last /\ end \in Nat
  BY <1>1, <1>2, <1>3, <1>6 DEF InList
<1>8. linked' = (linked \ {end}) \cup {newEnd} /\ end' = newEnd /\ held' = held /\ stale' = stale
  BY DEF Ended
<1> HIDE DEF last, InList
<1>9. last \in Addr /\ Start \in Addr /\ newEnd \in Addr
  BY <1>2, <1>5, <1>6
<1>10. /\ linked' \subseteq Addr /\ prev' \in [Addr -> Addr] /\ next' \in [Addr -> Addr]
       /\ size' \in [Addr -> Nat]
  BY <1>1, <1>2, <1>8, <1>9 DEF Ended, last
<1>11. /\ next'[last] = newEnd /\ next'[newEnd] = Start /\ prev'[newEnd] = last /\ prev'[Start] = newEnd
       /\ \A x \in Addr \ {last, newEnd} : next'[x] = next[x]
       /\ \A x \in Addr \ {Start, newEnd} : prev'[x] = prev[x]
       /\ size'[Start] = 0 /\ \A x \in Addr \ {newEnd} : size'[x] = size[x]
  BY <1>1, <1>5, <1>7, <1>9 DEF Ended, last
<1>12. Held' = Held /\ held[newEnd] = None
  BY <1>5, <1>7, <1>8 DEF Held
<1>13. /\ linked' = Held' \cup {Start, end'} /\ Start < end' /\ size'[Start] = 0
       /\ held'[Start] = None /\ held'[end'] = None /\ next'[end'] = Start
       /\ \A x \in Held' : size'[x] = held'[x]
  <2>1. \A x \in Held : size'[x] = held[x] /\ x # end /\ x # newEnd
    BY <1>5, <1>7, <1>11, Order DEF ListInv
  <2>2. linked' = Held \cup {Start, newEnd}
    BY <1>5, <1>7, <1>8, <2>1
  <2>3. held[Start] = None
    BY DEF ListInv
  <2> QED
    BY <1>7, <1>8, <1>11, <1>12, <2>1, <2>2, <2>3
<1>14. \A x \in linked \ {end} : /\ x \in Nat /\ x \in Addr /\ x < newEnd /\ x # newEnd
                                  /\ next[x] \in linked /\ prev[x] \in linked
                                  /\ next[x] \in Addr /\ prev[x] \in Addr
                                  /\ next[x] # newEnd /\ prev[x] # newEnd
                                  /\ prev[next[x]] = x /\ next[prev[x]] = x
                                  /\ size[x] \in Nat /\ size'[x] = size[x]
  <2> SUFFICES ASSUME NEW x \in linked \ {end}
               PROVE  /\ x \in Nat /\ x \in Addr /\ x < newEnd /\ x # newEnd
                      /\ next[x] \in linked /\ prev[x] \in linked
                      /\ next[x] \in Addr /\ prev[x] \in Addr
                      /\ next[x] # newEnd /\ prev[x] # newEnd
                      /\ prev[next[x]] = x /\ next[prev[x]] = x
                      /\ size[x] \in Nat /\ size'[x] = size[x]
    OBVIOUS
  <2>1. InList(x) /\ x # newEnd
    BY <1>3, <1>7
  <2>2. x \in Nat /\ x <= end /\ x < newEnd
    BY <1>7, <2>1 DEF InList
  <2> QED
    BY <1>2, <1>7, <1>11, <2>1, <2>2 DEF InList
<1>15. ASSUME NEW x \in linked'
       PROVE  /\ x <= end' /\ next'[x] \in linked' /\ prev'[x] \in linked'
              /\ prev'[next'[x]] = x /\ next'[prev'[x]] = x
  <2>1. CASE x = newEnd
    <3>1. next'[x] = Start /\ prev'[x] = last /\ prev'[Start] = newEnd /\ next'[last] = newEnd
      BY <1>11, <2>1
    <3>2. Start \in linked' /\ last \in linked'
      BY <1>5, <1>6, <1>7, <1>8
    <3> QED
      BY <1>7, <1>8, <2>1, <3>1, <3>2
  <2>2. CASE x \in linked \ {end}
    <3>1. x <= end'
      BY <1>7, <1>8, <1>14, <2>2
    <3>2. next'[x] \in linked' /\ prev'[next'[x]] = x
      <4>1. CASE x = last
        BY <1>8, <1>11, <4>1
      <4>2. CASE x # last
        <5>1. next'[x] = next[x] /\ next[x] # end /\ next[x] # Start
          BY <1>5, <1>11, <1>14, <2>2, <4>2 DEF last
        <5> QED
          BY <1>8, <1>11, <1>14, <2>2, <5>1
      <4> QED
        BY <4>1, <4>2
    <3>3. prev'[x] \in linked' /\ next'[prev'[x]] = x
      <4>1. CASE x = Start
        BY <1>8, <1>11, <4>1
      <4>2. CASE x # Start
        <5>1. prev'[x] = prev[x] /\ prev[x] # end /\ prev[x] # last
          BY <1>5, <1>6, <1>11, <1>14, <2>2, <4>2
        <5> QED
          BY <1>8, <1>11, <1>14, <2>2, <5>1
      <4> QED
        BY <4>1, <4>2
    <3> QED
      BY <3>1, <3>2, <3>3
  <2> QED
    BY <1>8, <2>1, <2>2
<1>16. ASSUME NEW x \in linked' \ {end'}
       PROVE  x + H + size'[x] <= next'[x] /\ \A b \in linked' : x < b => next'[x] <= b
  <2>1. x \in linked \ {end} /\ size'[x] = size[x] /\ x \in Nat /\ x < newEnd
    BY <1>8, <1>14
  <2>2. CASE x = last
    <3>1. next'[x] = newEnd /\ x + H + size[x] <= newEnd
      BY <1>2, <1>6, <1>7, <1>11, <1>14, <2>1, <2>2
    <3>2. ASSUME NEW b \in linked', x < b PROVE newEnd <= b
      <4>1. CASE b = newEnd
        BY <1>7, <4>1
      <4>2. CASE b \in linked \ {end}
        <5>1. end <= b /\ b <= end /\ b \in Nat
          BY <1>3, <1>4, <1>6, <2>2, <3>2, <4>2 DEF InList
        <5> QED
          BY <1>7, <4>2, <5>1
      <4> QED
        BY <1>8, <4>1, <4>2
    <3> QED
      BY <2>1, <3>1, <3>2
  <2>3. CASE x # last
    <3>1. next'[x] = next[x] /\ next[x] <= end /\ next[x] \in Nat
      BY <1>2, <1>3, <1>11, <1>14, <2>1, <2>3 DEF InList
    <3>2. \A b \in linked : x < b => next[x] <= b
      BY <1>4, <2>1
    <3> QED
      BY <1>4, <1>7, <1>8, <2>1, <3>1, <3>2
  <2> QED
    BY <2>2, <2>3
<1>17. ListInv'
  BY <1>13, <1>15, <1>16 DEF ListInv
<1>18. StaleInv'
  <2> SUFFICES ASSUME NEW x \in stale
               PROVE  /\ x \notin linked' /\ x < end'
                      /\ prev'[x] \in stale \cup linked' => next'[prev'[x]] # x
    BY <1>8 DEF StaleInv
  <2>1. x \in Addr /\ x \notin linked /\ x < end /\ x # Start /\ x # newEnd /\ prev[x] \in Addr
    BY <1>1, <1>2, <1>5, <1>7 DEF StaleInv
  <2>2. prev'[x] = prev[x] /\ x \notin linked' /\ x < end'
    BY <1>2, <1>7, <1>8, <1>11, <2>1
  <2>3. CASE prev[x] \in {last, newEnd}
    BY <1>11, <2>1, <2>2, <2>3
  <2>4. CASE prev[x] \notin {last, newEnd}
    <3>1. prev'[x] \in stale' \cup linked' => prev[x] \in stale \cup linked
      BY <1>8, <2>2, <2>4
    <3>2. next'[prev'[x]] = next[prev[x]]
      BY <1>11, <2>1, <2>2, <2>4
    <3> QED
      BY <1>8, <2>2, <3>1, <3>2 DEF StaleInv
  <2> QED
    BY <1>8, <2>2, <2>3, <2>4
<1>19. Position(newEnd)' <= end
  BY <1>6, <1>7, <1>9, <1>11 DEF Position
<1>20. \A a \in Held : size'[a] = size[a]
  BY <1>5, <1>7, <1>11, <1>2
<1> QED
  BY <1>5, <1>7, <1>8, <1>10, <1>17, <1>18, <1>19, <1>20

(* heap_expand() maps what it adds, and the call finds room there.         *)
LEMMA ExpandKeeps ==
    ASSUME ~Preemptive, IInv, NEW p \in Procs, Expand(p)
    PROVE  IInv'
<1>1. /\ call[p].at = "expand" /\ \A q \in Procs \ {p} : call[q].at = "idle"
      /\ held' = held /\ stale' = stale
  BY OthersIdle DEF Expand, At
<1>2. PICK n \in Sizes : n = call[p].size
  BY <1>1 DEF IInv, CallInv, CallOf
<1> DEFINE newSize == ExpandedSize(n)
           pages == mapped \cup NewPages(newSize)
<1>3. /\ call \in [Procs -> CallRecords] /\ n \in Nat
      /\ call[p].old # None => call[p].old \in Held /\ size[call[p].old] < n
  BY <1>1, <1>2, CallTypes, HeapAssumption DEF IInv, CallInv, CallOf, HeapAssumption
<1>4. CASE OutOfFrames(pages)
  <2>1. panicked' = TRUE /\ UNCHANGED <<headers, end, mapped, call, held, stale>>
    BY <1>1, <1>2, <1>4 DEF Expand
  <2>2. TypeOK' /\ ListInv' /\ StaleInv' /\ MappedInv'
    BY <2>1, Untouching DEF IInv, TypeOK, headers
  <2>3. CallOf(p)'
    <3>1. call' = call
      BY <2>1
    <3> QED
      BY <1>1, <1>3, <2>1, <3>1 DEF IInv, CallInv, CallOf, Held, headers
  <2> QED
    BY <1>1, <2>1, <2>2, <2>3, OneCall DEF IInv
<1>5. CASE ~OutOfFrames(pages)
  <2>1. /\ mapped' = pages /\ Ended(newSize - H) /\ panicked' = panicked
        /\ call' = [call EXCEPT ![p].at = "scan", ![p].grown = TRUE]
    BY <1>1, <1>2, <1>5 DEF Expand, Ended
  <2>2. PICK m \in 1 .. Frames : end + H = m * Page /\ mapped = 0 .. m - 1
    BY DEF IInv, MappedInv
  <2>3. PICK j \in Nat : newSize = j * Page /\ newSize > end + H + n + Page /\ NewPages(newSize) = m .. j - 1
    BY <1>3, <2>2, Growth DEF IInv
  <2> HIDE DEF newSize
  <2> DEFINE newEnd == j * Page - H
  <2>4. /\ Page \in Nat \ {0} /\ H \in Nat \ {0} /\ H <= Page /\ Frames \in Nat /\ end \in Nat
        /\ end \in Addr /\ Addr = 0 .. Frames * Page - 1
    BY HeapAssumption DEF HeapAssumption, IInv, TypeOK, Addr
  <2>5. j > m
    <3> SUFFICES ASSUME j <= m PROVE FALSE
      BY <2>2
    <3>1. j * Page <= m * Page /\ j * Page \in Nat /\ m * Page \in Nat
      BY <2>2, <2>4
    <3> QED
      BY <1>3, <2>2, <2>3, <2>4, <3>1
  <2>6. mapped' = 0 .. j - 1
    BY <2>1, <2>2, <2>3, <2>5
  <2>7. j \in 1 .. Frames
    <3>1. Cardinality(0 .. j - 1) = j
      BY <2>3, <2>5, FS_Interval
    <3>2. ~(Cardinality(pages) > Frames) /\ pages = 0 .. j - 1
      BY <1>5, <2>1, <2>6 DEF OutOfFrames
    <3> HIDE DEF pages
    <3>3. Cardinality(pages) = j
      BY <3>1, <3>2
    <3> QED
      BY <2>2, <2>4, <2>5, <3>2, <3>3
  <2>8. newEnd \in Addr /\ newEnd > end /\ newEnd >= end + n + H
    <3>1. j * Page <= Frames * Page /\ j * Page \in Nat /\ Frames * Page \in Nat
      BY <2>4, <2>7
    <3> QED
      BY <1>3, <2>3, <2>4, <3>1
  <2> HIDE DEF newEnd
  <2>9. /\ ListInv' /\ StaleInv'
        /\ linked' \subseteq Addr /\ prev' \in [Addr -> Addr] /\ next' \in [Addr -> Addr]
        /\ size' \in [Addr -> Nat]
        /\ newEnd \in linked' \ {Start} /\ Position(newEnd)' <= end
        /\ \A a \in Held : size'[a] = size[a]
    <3>1. Ended(newEnd)
      BY <2>1, <2>3 DEF newEnd
    <3> QED
      BY <2>8, <3>1, EndKeepsList DEF IInv
  <2>10. call' \in [Procs -> CallRecords] /\ call'[p] = [call[p] EXCEPT !.at = "scan", !.grown = TRUE]
    BY <1>3, <2>1, ZenonT(60) DEF CallRecords
  <2>11. TypeOK'
    <3>1. end' \in Addr /\ panicked' \in BOOLEAN /\ held' \in [Addr -> Sizes \cup {None}] /\ stale' \subseteq Addr
      BY <1>1, <2>1, <2>3, <2>8 DEF IInv, TypeOK, Ended, newEnd
    <3>2. mapped' \subseteq 0 .. Frames
      BY <2>6, <2>7, <2>4
    <3> QED
      BY <2>9, <2>10, <3>1, <3>2 DEF TypeOK, CallRecords
  <2>12. MappedInv'
    <3>1. end' + H = j * Page
      BY <2>1, <2>3, <2>4 DEF Ended
    <3> QED
      BY <2>6, <2>7, <3>1 DEF MappedInv
  <2>13. \A k : newEnd \in Candidates(k)' <=> newEnd \in linked' \ {Start} /\ newEnd - Position(newEnd)' >= k + H
    BY DEF Candidates, Fits, Hole
  <2>14. newEnd \in Candidates(n)'
    <3>1. Position(newEnd)' \in Int
      <4>1. prev'[newEnd] \in Addr
        BY <2>8, <2>9
      <4>2. prev'[newEnd] \in Int /\ H \in Int /\ size'[prev'[newEnd]] \in Int
        BY <2>4, <2>9, <4>1
      <4>3. Position(newEnd)' = prev'[newEnd] + H + size'[prev'[newEnd]]
        BY DEF Position
      <4>4. prev'[newEnd] + H + size'[prev'[newEnd]] \in Int
        BY <4>2
      <4> QED
        BY <4>3, <4>4, Zenon
    <3> QED
      BY <1>3, <2>4, <2>8, <2>9, <2>13, <3>1, SMTT(30)
  <2>15. CallOf(p)'
    <3>1. /\ call'[p].at = "scan" /\ call'[p].size = n /\ call'[p].old = call[p].old
      BY <1>2, <1>3, <2>10 DEF CallRecords
    <3>2. Held' = Held
      BY <1>1 DEF Held
    <3>3. \A k : k = n => newEnd \in Candidates(k)'
      BY <2>14
    <3> QED
      BY <1>3, <2>9, <3>1, <3>2, <3>3 DEF CallOf
  <2>16. \A q \in Procs \ {p} : call'[q].at = "idle"
    BY <1>1, <1>3, <2>1
  <2> QED
    BY <2>9, <2>11, <2>12, <2>15, <2>16, OneCall DEF IInv
<1> QED
  BY <1>4, <1>5
(* No step breaks the invariant, a second free() of the same block         *)
(* included.                                                               *)
LEMMA NextIInv == ASSUME ~Preemptive, IInv, [Next]_vars PROVE IInv'
<1>1. CASE UNCHANGED vars
  <2>1. TypeOK' /\ ListInv' /\ StaleInv' /\ MappedInv'
    BY <1>1, Untouching DEF IInv, TypeOK, vars, headers
  <2>2. CallInv'
    BY <1>1 DEF IInv, CallInv, CallOf, Held, Candidates, Fits, Hole, Position, vars, headers
  <2> QED
    BY <2>1, <2>2 DEF IInv
<1>2. CASE Halted
  BY <1>1, <1>2 DEF Halted
<1>3. ASSUME NEW p \in Procs, \E n \in Sizes : Malloc(p, n) PROVE IInv'
  BY <1>3, MallocKeeps
<1>4. ASSUME NEW p \in Procs, \E a \in Addr, n \in Sizes : Realloc(p, a, n) PROVE IInv'
  BY <1>4, ReallocKeeps
<1>5. ASSUME NEW p \in Procs, Scan(p) PROVE IInv'
  BY <1>5, ScanKeeps
<1>6. ASSUME NEW p \in Procs, Expand(p) PROVE IInv'
  BY <1>6, ExpandKeeps
<1>7. ASSUME NEW p \in Procs, SetupBlock(p) PROVE IInv'
  BY <1>7, SetupKeeps
<1>8. ASSUME NEW p \in Procs, Move(p) PROVE IInv'
  BY <1>8, FreeKeeps
<1>9. ASSUME NEW p \in Procs, \E a \in Addr : Free(p, a) PROVE IInv'
  BY <1>9, FreeKeeps
<1>10. ASSUME NEW p \in Procs, NEW a \in Addr, FreeAgain(p, a) PROVE IInv'
  <2>1. UNCHANGED vars
    BY <1>10, FreeAgainRefused DEF IInv
  <2> QED
    BY <1>1, <2>1
<1>11. CASE Next
  BY <1>2, <1>3, <1>4, <1>5, <1>6, <1>7, <1>8, <1>9, <1>10, <1>11, Zenon DEF Next
<1> QED
  BY <1>1, <1>11

(* The invariant holds in every reachable state.                           *)
LEMMA Inductive == ASSUME ~Preemptive PROVE Spec => []IInv
<1>1. IInv /\ [Next]_vars => IInv'
  BY NextIInv
<1> QED
  BY <1>1, InitIInv, PTL DEF Spec

(* While one call follows another the blocks stay disjoint and inside the  *)
(* heap, and the list leads through exactly them, in the order of their    *)
(* addresses: whatever mallocn(), realloc() and free() are asked for, and  *)
(* although heap_free() is given blocks that were freed before and has only *)
(* the stale header to tell (mm_heap.c).                                   *)
THEOREM HeapIsSound == ASSUME ~Preemptive PROVE Spec => []HeapSound
<1>1. IInv => HeapSound
  BY ListIsSound DEF IInv
<1> QED
  BY <1>1, Inductive, PTL

(* While one call follows another, heap_expand() maps every page that the  *)
(* list may use, with a size rounded by a test for an odd number, and one  *)
(* expansion makes room: heap_mallocn() never calls itself a second time.  *)
THEOREM GrowthIsSound == ASSUME ~Preemptive PROVE Spec => []GrowthSound
<1>1. IInv => GrowthSound
  BY PagesAreMapped DEF IInv, CallInv, CallOf, GrowthSound, OneExpansionSuffices
<1> QED
  BY <1>1, Inductive, PTL

(* While one call follows another, realloc() moves a block only into one   *)
(* that holds more than it: the memmove() of the old block's size stays    *)
(* inside the new block.                                                   *)
THEOREM MovesFit == ASSUME ~Preemptive PROVE Spec => []MoveFits
<1>1. IInv => MoveFits
  BY DEF IInv, CallInv, CallOf, MoveFits
<1> QED
  BY <1>1, Inductive, PTL
=============================================================================
