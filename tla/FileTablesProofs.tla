-------------------------- MODULE FileTablesProofs --------------------------
(***************************************************************************)
(* What the tables behind a file descriptor keep, for any number of        *)
(* processes, files, slots and inodes.                                     *)
(***************************************************************************)
EXTENDS FileTables, FiniteSetTheorems, WellFoundedInduction, TLAPS

\* No call is switched between looking for an inode or slot and taking it.
Undisturbed == Switches \cap BetweenLookAndTake = {}

(* The entries of the gft: the root's inode is never given away, no name   *)
(* is entered twice, and every entry has an inode.                         *)
TableInv ==
    /\ inodes[RootInode] = Root
    /\ \A s \in Slots : Used(s) => gft[s].inode \in Inodes
    /\ \A s, u \in Slots : Used(s) /\ gft[s].name = gft[u].name => s = u
    /\ EntriesOwnInodes

(* A call about to enter its file has read an inode for it that no entry   *)
(* and no other call has, and one that has its file has a slot; the root   *)
(* is never searched for nor created.                                      *)
Inserting == {"insert", "slot", "fill"}
Inserts(p) == call[p].at \in Inserting

Unentered == {"search", "create", "alloc", "mark"}

CallInv ==
    /\ \A p \in Procs : call[p].at \in Unentered \/ call[p].creat => call[p].path # Root
    /\ \A p \in Procs : call[p].at \in {"fill", "opened"} => call[p].fd \in Slots
    /\ \A p \in Procs : Inserts(p) =>
         /\ call[p].inode \in Inodes
         /\ inodes[call[p].inode] = call[p].path
         /\ call[p].path = Root => call[p].inode = RootInode
    /\ \A p \in Procs, s \in Slots :
         Inserts(p) /\ call[p].path # Root /\ Used(s) => call[p].inode # gft[s].inode
    /\ \A p, q \in Procs :
         Inserts(p) /\ Inserts(q) /\ p # q /\ call[p].path # Root => call[p].inode # call[q].inode

(* What a call has looked for and not taken yet is still to be had.        *)
Seen(p) ==
    /\ call[p].at = "mark" => call[p].inode \in Inodes /\ inodes[call[p].inode] = Nil
    /\ call[p].at \in {"slot", "fill"} => Named(call[p].path) = {}
    /\ call[p].at = "fill" => ~Used(call[p].fd)

Base == TypeOK /\ TableInv /\ CallInv

IInv == Base /\ \A p \in Procs : Seen(p)

(* One process at a time, which keeps to the rules.                        *)
Opens(s) == {d \in live \X Fds : pft[d[1]][d[2]].f = s}
Having == {"opened", "shrink", "closing"}

(* f_count is right even in the middle of a call, and an entry that nobody *)
(* has open belongs to the call that has just found or made it.            *)
DescriptorInv ==
    /\ HandleKeepsFile
    /\ \A p \in live, i \in Fds : pft[p][i].f # Nil => Used(pft[p][i].f)
    /\ \A s \in Slots : Used(s) =>
         /\ gft[s].count = Cardinality(Opens(s))
         /\ gft[s].count = 0 => \E p \in Procs : call[p].at \in Having /\ call[p].fd = s

\* An inode in the table is that of an entry, or of the file being entered.
InodeInv ==
    \A i \in Inodes \ {RootInode} : inodes[i] # Nil =>
        \/ \E s \in Slots : Used(s) /\ gft[s].inode = i
        \/ \E p \in Procs : Inserts(p) /\ call[p].inode = i

(* What the process in a call has seen still holds.                        *)
ProgressOf(p, c) ==
    /\ c.at # "idle" => p \in live
    /\ c.at \in Unentered \cup Inserting /\ c.path # Root => Named(c.path) = {}
    /\ c.at \in {"remove", "delete"} => Named(c.path) = {}
    /\ c.at \in Having => Used(c.fd)
    /\ c.at \in Having /\ c.op # "close" => gft[c.fd].name = c.path
    /\ c.at = "closing" => c.op \in {"stat", "close", "unlink", "truncate"}
    /\ c.at = "closing" /\ c.op \in {"stat", "close"} => c.pf \in Fds /\ pft[p][c.pf].f = c.fd
    /\ c.at \notin {"idle", "closing"} /\ c.op \in {"open", "stat"} => FreeFds(p) # {}
    /\ c.at # "idle" /\ c.op \in {"unlink", "truncate"} => c.path \notin OpenPaths /\ c.pf = Nil
    /\ c.at = "remove" => c.op = "unlink"
    /\ c.at = "shrink" => c.op = "truncate"

Progress(p) == ProgressOf(p, call[p])

ProgressInv ==
    /\ \A p, q \in Procs : p # q => call[p].at = "idle" \/ call[q].at = "idle"
    /\ \A p \in Procs : Progress(p)

CarefulInv == IInv /\ DescriptorInv /\ InodeInv /\ ProgressInv

KeepsToTheRules == Switches = {} /\ Careless = {} /\ NumInodes <= NumFiles
----------------------------------------------------------------------------
(* The search loops return the first entry that fits.                      *)
LEMMA LowestIn ==
    ASSUME NEW S, S \subseteq Nat, S # {}
    PROVE  Lowest(S) \in S
<1>1. PICK m \in S : \A k \in S : <<k, m>> \notin OpToRel(<, Nat)
  BY WFMin, NatLessThanWellFounded
<1>2. ASSUME NEW k \in S, k < m PROVE FALSE
  BY <1>1, <1>2 DEF OpToRel
<1>3. \A k \in S : m <= k
  BY <1>2
<1> QED
  BY <1>3 DEF Lowest

(* Sizes, slots and names, as the proofs use them.                         *)
LEMMA Constants ==
    /\ NumFiles \in Nat \ {0} /\ NumInodes \in Nat \ {0} /\ NumProcFiles \in Nat \ {0}
    /\ RootInode \in Inodes /\ Root \in Names /\ Paths \subseteq Names /\ Root \notin Paths
    /\ Nil \notin Names /\ Nil \notin Slots /\ Nil \notin Inodes /\ Nil \notin Fds
    /\ Slots \subseteq Nat /\ Fds \subseteq Nat /\ Inodes \subseteq Nat
  BY FileTablesAssumption
     DEF FileTablesAssumption, RootInode, Inodes, Slots, Fds, Names, Nil

(* What the searches find.                                                 *)
LEMMA Searches ==
    /\ \A path : Named(path) # {} => Lowest(Named(path)) \in Named(path)
    /\ FreeSlots # {} => Lowest(FreeSlots) \in FreeSlots
    /\ FreeInodes # {} => Lowest(FreeInodes) \in FreeInodes
    /\ \A p : FreeFds(p) # {} => Lowest(FreeFds(p)) \in FreeFds(p)
<1>1. /\ \A path : Named(path) \subseteq Nat
      /\ FreeSlots \subseteq Nat /\ FreeInodes \subseteq Nat
      /\ \A p : FreeFds(p) \subseteq Nat
  BY Constants DEF Named, FreeSlots, FreeInodes, FreeFds
<1> QED
  BY <1>1, LowestIn

(* Where a call that looks a path up goes on.                              *)
LEMMA EntryTypes ==
    ASSUME NEW path \in Names
    PROVE  /\ Entry(path) \in {"opened", "search", "insert"}
           /\ Entry(path) = "opened" => path # Root /\ EntryFd(path) \in Named(path)
           /\ Entry(path) = "search" => path # Root /\ Named(path) = {}
           /\ Entry(path) = "insert" => path = Root
           /\ EntryFd(path) \in Slots \cup {Nil}
  BY Searches DEF Entry, EntryFd, Named
----------------------------------------------------------------------------
(* What free_file() does: an entry is counted down, or removed together    *)
(* with its inode.                                                         *)
TablesShrink ==
    /\ \A s \in Slots : Used(s)' =>
         Used(s) /\ gft'[s].name = gft[s].name /\ gft'[s].inode = gft[s].inode
    /\ \A i \in Inodes : inodes'[i] # inodes[i] =>
         /\ i # RootInode
         /\ \E s \in Slots : Used(s) /\ ~Used(s)' /\ gft[s].inode = i

(* The types of the tables alone.                                          *)
TableTypes ==
    /\ gft \in [Slots -> Entries]
    /\ inodes \in [Inodes -> Names \cup {Nil}]

(* free_file() removes an entry with its inode, or lowers its count.       *)
LEMMA FreeFileShrinks ==
    ASSUME TableTypes, TableInv, NEW i, FreeFile(i)
    PROVE  TableTypes' /\ TablesShrink
<1> USE DEF TableTypes, Entries
<1>1. CASE ~Used(i)
  BY <1>1 DEF FreeFile, TablesShrink, Used
<1>2. CASE Used(i)
  <2> DEFINE n == CountAfterClose(gft[i].count)
  <2>1. n \in Nat /\ i \in Slots /\ gft[i].inode \in Inodes
    BY <1>2 DEF CountAfterClose, Used, TableInv
  <2>2. CASE n = 0
    <3>1. gft' = [gft EXCEPT ![i] = Unused] /\ inodes' = InodesAfterFree(gft[i].inode)
      BY <1>2, <2>2 DEF FreeFile
    <3>2. ~Used(i)' /\ \A s \in Slots \ {i} : gft'[s] = gft[s]
      BY <2>1, <3>1 DEF Used, Unused
    <3>3. TableTypes'
      BY <2>1, <3>1 DEF Unused, InodesAfterFree
    <3>4. ASSUME NEW j \in Inodes, inodes'[j] # inodes[j]
          PROVE  j # RootInode /\ gft[i].inode = j
      BY <2>1, <3>1, <3>4 DEF InodesAfterFree
    <3> QED
      BY <1>2, <2>1, <3>2, <3>3, <3>4 DEF TablesShrink, Used
  <2>3. CASE n # 0
    <3>1. gft' = [gft EXCEPT ![i] = [@ EXCEPT !.count = n]] /\ inodes' = inodes
      BY <1>2, <2>3 DEF FreeFile
    <3>2. \A s \in Slots : gft'[s].name = gft[s].name /\ gft'[s].inode = gft[s].inode
      BY <2>1, <3>1
    <3>3. TableTypes'
      BY <2>1, <3>1
    <3> QED
      BY <3>1, <3>2, <3>3 DEF TablesShrink, Used
  <2> QED
    BY <2>2, <2>3
<1> QED
  BY <1>1, <1>2

(* Tables that only shrink keep what the entries and the calls rely on.    *)
LEMMA ShrinkKeepsTables ==
    ASSUME TableTypes, TableInv, TablesShrink
    PROVE  TableInv'
<1>1. ASSUME NEW s \in Slots, Used(s)'
      PROVE  inodes'[gft'[s].inode] = gft'[s].name /\ gft'[s].inode \in Inodes
  <2>1. /\ Used(s) /\ gft'[s].name = gft[s].name /\ gft'[s].inode = gft[s].inode
        /\ gft[s].inode \in Inodes /\ inodes[gft[s].inode] = gft[s].name
    BY <1>1 DEF TablesShrink, TableInv, EntriesOwnInodes
  <2>2. CASE inodes'[gft[s].inode] # inodes[gft[s].inode]
    <3>1. PICK u \in Slots : Used(u) /\ ~Used(u)' /\ gft[u].inode = gft[s].inode
      BY <2>1, <2>2 DEF TablesShrink
    <3>2. u = s
      BY <2>1, <3>1 DEF TableInv, EntriesOwnInodes
    <3> QED
      BY <1>1, <3>1, <3>2
  <2> QED
    BY <2>1, <2>2
<1>2. ASSUME NEW s \in Slots, NEW u \in Slots, Used(s)', Used(u)'
      PROVE  /\ gft'[s].name = gft'[u].name => s = u
             /\ s # u => gft'[s].inode # gft'[u].inode
  BY <1>2 DEF TablesShrink, TableInv, EntriesOwnInodes
<1>3. \A s, u \in Slots : Used(s)' /\ gft'[s].name = gft'[u].name => Used(u)'
  BY DEF Used
<1>4. inodes'[RootInode] = Root
  BY Constants DEF TablesShrink, TableInv
<1> QED
  BY <1>1, <1>2, <1>3, <1>4 DEF TableInv, EntriesOwnInodes
----------------------------------------------------------------------------
(* A call that gets on while the tables at most shrink: it enters no file, *)
(* or the root, or what it was about to enter.                             *)
LEMMA CallMoves ==
    ASSUME Base, TableTypes', TablesShrink,
           NEW p \in Procs, NEW c \in CallRecords, call' = [call EXCEPT ![p] = c],
           c.at \in Unentered \/ c.creat => c.path # Root,
           c.at \in Inserting =>
               \/ c.path = Root /\ c.inode = RootInode
               \/ Inserts(p) /\ c.path = call[p].path /\ c.inode = call[p].inode,
           c.at \in {"fill", "opened"} => c.fd \in Slots
    PROVE  TableInv' /\ CallInv' /\ call' \in [Procs -> CallRecords]
<1>0. /\ call \in [Procs -> CallRecords] /\ call' \in [Procs -> CallRecords]
      /\ call'[p] = c /\ \A q \in Procs \ {p} : call'[q] = call[q]
  BY DEF Base, TypeOK
<1>6. TableInv'
  BY ShrinkKeepsTables DEF Base, TypeOK, TableTypes
<1>1. ASSUME NEW q \in Procs, call'[q].at \in Unentered \/ call'[q].creat
      PROVE  call'[q].path # Root
  BY <1>0, <1>1 DEF Base, CallInv
<1>5. ASSUME NEW q \in Procs, call'[q].at \in {"fill", "opened"} PROVE call'[q].fd \in Slots
  BY <1>0, <1>5 DEF Base, CallInv
<1>7. ASSUME NEW q \in Procs, Inserts(q)'
      PROVE  \/ q = p /\ call'[q].path = Root /\ call'[q].inode = RootInode
             \/ Inserts(q) /\ call'[q].path = call[q].path /\ call'[q].inode = call[q].inode
  BY <1>0, <1>7 DEF Inserts
<1>8. ASSUME NEW q \in Procs, Inserts(q)
      PROVE  call[q].inode \in Inodes /\ inodes[call[q].inode] = call[q].path
  BY <1>8 DEF Base, CallInv
<1>2. ASSUME NEW q \in Procs, Inserts(q)'
      PROVE  /\ call'[q].inode \in Inodes
             /\ inodes'[call'[q].inode] = call'[q].path
             /\ call'[q].path = Root => call'[q].inode = RootInode
  <2>1. CASE call'[q].path = Root /\ call'[q].inode = RootInode
    BY <1>6, <2>1, Constants DEF TableInv
  <2>2. CASE Inserts(q) /\ call'[q].path = call[q].path /\ call'[q].inode = call[q].inode
    <3>1. CASE call[q].path = Root
      BY <1>6, <2>2, <3>1, Constants DEF TableInv, Base, CallInv
    <3>2. CASE call[q].path # Root
      <4>1. /\ call[q].inode \in Inodes /\ inodes[call[q].inode] = call[q].path
            /\ \A s \in Slots : Used(s) => call[q].inode # gft[s].inode
        BY <2>2, <3>2 DEF Base, CallInv
      <4>2. inodes'[call[q].inode] = inodes[call[q].inode]
        BY <4>1 DEF TablesShrink
      <4> QED
        BY <2>2, <3>2, <4>1, <4>2
    <3> QED
      BY <3>1, <3>2
  <2> QED
    BY <1>2, <1>7, <2>1, <2>2
<1>3. ASSUME NEW q \in Procs, NEW s \in Slots, Inserts(q)', call'[q].path # Root, Used(s)'
      PROVE  call'[q].inode # gft'[s].inode
  <2>1. Inserts(q) /\ call'[q].path = call[q].path /\ call'[q].inode = call[q].inode
    BY <1>3, <1>7
  <2>2. Used(s) /\ gft'[s].inode = gft[s].inode
    BY <1>3 DEF TablesShrink
  <2> QED
    BY <1>3, <2>1, <2>2 DEF Base, CallInv
<1>4. ASSUME NEW q \in Procs, NEW r \in Procs, Inserts(q)', Inserts(r)', q # r, call'[q].path # Root
      PROVE  call'[q].inode # call'[r].inode
  <2>1. Inserts(q) /\ call'[q].path = call[q].path /\ call'[q].inode = call[q].inode
    BY <1>4, <1>7
  <2>2. CASE call'[r].path = Root
    <3>1. inodes'[call'[q].inode] = call'[q].path /\ inodes'[call'[r].inode] = Root
      BY <1>2, <1>4, <2>2
    <3> QED
      BY <1>4, <3>1
  <2>3. CASE call'[r].path # Root
    <3>1. Inserts(r) /\ call'[r].path = call[r].path /\ call'[r].inode = call[r].inode
      BY <1>4, <1>7, <2>3
    <3> QED
      BY <1>4, <2>1, <3>1 DEF Base, CallInv
  <2> QED
    BY <2>2, <2>3
<1>9. CallInv'
  BY <1>1, <1>2, <1>3, <1>4, <1>5 DEF CallInv
<1> QED
  BY <1>0, <1>6, <1>9

(* Nothing happens to the tables.                                          *)
LEMMA SameTables ==
    ASSUME TypeOK, UNCHANGED <<gft, inodes>>
    PROVE  TableTypes /\ TableTypes' /\ TablesShrink
  BY DEF TypeOK, TableTypes, TablesShrink, Used

(* The records of the calls, as the steps change them.                     *)
LEMMA CallStates ==
    ASSUME Base, NEW p \in Procs
    PROVE  /\ call \in [Procs -> CallRecords] /\ call[p] \in CallRecords
           /\ call[p].path \in Names /\ call[p].inode \in Inodes \cup {Nil}
           /\ call[p].fd \in Slots \cup {Nil}
           /\ Idle \in CallRecords /\ Idle.at = "idle" /\ ~Idle.creat
  BY Constants DEF Base, TypeOK, CallRecords, Idle, Points

(* fs_open() finds the file open, or searches for it, or has the root.     *)
LEMMA LooksUp ==
    ASSUME NEW c \in CallRecords
    PROVE  /\ LookedUp(c) \in CallRecords
           /\ LookedUp(c).op = c.op /\ LookedUp(c).path = c.path
           /\ LookedUp(c).creat = c.creat /\ LookedUp(c).pf = c.pf
           /\ LookedUp(c).at \in {"opened", "search", "insert"}
           /\ LookedUp(c).at = "opened" =>
                c.path # Root /\ LookedUp(c).fd \in Named(c.path) /\ LookedUp(c).fd \in Slots
           /\ LookedUp(c).at = "search" => c.path # Root /\ Named(c.path) = {}
           /\ LookedUp(c).at = "insert" => c.path = Root /\ LookedUp(c).inode = RootInode
<1> DEFINE i == IF c.path = Root THEN RootInode ELSE Nil
<1>1. /\ c.path \in Names /\ i \in Inodes \cup {Nil} /\ Entry(c.path) \in Points \cup {"idle"}
      /\ EntryFd(c.path) \in Slots \cup {Nil}
  BY Constants, EntryTypes DEF CallRecords, Points
<1>2. LookedUp(c) = [c EXCEPT !.at = Entry(c.path), !.fd = EntryFd(c.path), !.inode = i]
  BY DEF LookedUp
<1> HIDE DEF i
<1>3. /\ LookedUp(c) \in CallRecords
      /\ LookedUp(c).at = Entry(c.path) /\ LookedUp(c).fd = EntryFd(c.path)
      /\ LookedUp(c).inode = i
      /\ LookedUp(c).op = c.op /\ LookedUp(c).path = c.path
      /\ LookedUp(c).creat = c.creat /\ LookedUp(c).pf = c.pf
  BY <1>1, <1>2 DEF CallRecords
<1>4. Named(c.path) \subseteq Slots /\ (c.path = Root => i = RootInode)
  BY DEF Named, i
<1> QED
  BY <1>1, <1>3, <1>4, EntryTypes

(* A call that looks its file up.                                          *)
LEMMA LookUpKeeps ==
    ASSUME Base, NEW p \in Procs, NEW c \in CallRecords, c.creat => c.path # Root,
           call' = [call EXCEPT ![p] = LookedUp(c)], UNCHANGED <<gft, inodes>>
    PROVE  TableInv' /\ CallInv' /\ call' \in [Procs -> CallRecords]
<1>1. TableTypes' /\ TablesShrink
  BY SameTables DEF Base
<1>2. /\ LookedUp(c) \in CallRecords
      /\ LookedUp(c).at \in Unentered \/ LookedUp(c).creat => LookedUp(c).path # Root
      /\ LookedUp(c).at \in Inserting => LookedUp(c).path = Root /\ LookedUp(c).inode = RootInode
      /\ LookedUp(c).at \in {"fill", "opened"} => LookedUp(c).fd \in Slots
  BY LooksUp DEF Unentered, Inserting
<1> QED
  BY <1>1, <1>2, CallMoves

(* A call that returns, or goes on without entering a file.                *)
LEMMA MoveKeeps ==
    ASSUME Base, NEW p \in Procs, TableTypes', TablesShrink,
           \/ Returns(p)
           \/ \E at \in {"create", "alloc", "closing", "remove", "shrink", "delete"} :
                Goes(p, at) /\ (at \in {"create", "alloc"} => call[p].path # Root)
    PROVE  TableInv' /\ CallInv' /\ call' \in [Procs -> CallRecords]
<1>1. CASE Returns(p)
  BY <1>1, CallStates, CallMoves DEF Returns, Unentered, Inserting
<1>2. ASSUME NEW at \in {"create", "alloc", "closing", "remove", "shrink", "delete"},
             Goes(p, at), at \in {"create", "alloc"} => call[p].path # Root
      PROVE  TableInv' /\ CallInv' /\ call' \in [Procs -> CallRecords]
  <2> DEFINE c == [call[p] EXCEPT !.at = at]
  <2>1. c \in CallRecords /\ c.at = at /\ c.path = call[p].path /\ c.creat = call[p].creat
        /\ call' = [call EXCEPT ![p] = c]
    BY <1>2, CallStates DEF Goes, CallRecords, Points
  <2>2. /\ c.at \in Unentered \/ c.creat => c.path # Root
        /\ c.at \notin Inserting /\ c.at \notin {"fill", "opened"}
    BY <1>2, <2>1 DEF Base, CallInv, Unentered, Inserting
  <2> HIDE DEF c
  <2> QED
    BY <2>1, <2>2, CallMoves
<1> QED
  BY <1>1, <1>2

(* A call that is not given its file, and tries again or fails.            *)
LEMMA MissedKeeps ==
    ASSUME Base, NEW p \in Procs, Missed(p), UNCHANGED <<disk, gft, inodes, pft, live, wild>>
    PROVE  Base'
<1>1. TableTypes' /\ TablesShrink
  BY SameTables DEF Base
<1>2. \/ Returns(p) \/ Goes(p, "delete")
      \/ Goes(p, "create") /\ call[p].path # Root
  BY DEF Missed, Base, CallInv
<1>3. ret' = ret \/ ret' = [ret EXCEPT ![p] = Nil]
  BY DEF Missed
<1>4. TableInv' /\ CallInv' /\ call' \in [Procs -> CallRecords]
  BY <1>1, <1>2, MoveKeeps
<1> QED
  BY <1>3, <1>4 DEF Base, TypeOK

(* A call that begins.                                                     *)
LEMMA BeginKeeps ==
    ASSUME Base, NEW p \in Procs, NEW op \in {"open", "stat", "unlink"}, NEW path \in Names,
           NEW creat \in BOOLEAN, creat => path # Root, Begin(p, op, path, creat)
    PROVE  Base'
<1> DEFINE c == [Idle EXCEPT !.op = op, !.path = path, !.creat = creat]
<1>1. /\ call' = [call EXCEPT ![p] = LookedUp(c)]
      /\ UNCHANGED <<disk, gft, inodes, pft, live, ret, wild>>
  BY DEF Begin
<1>2. c \in CallRecords /\ c.path = path /\ c.creat = creat
  BY Constants DEF CallRecords, Idle, Points
<1> HIDE DEF c
<1>3. TableInv' /\ CallInv' /\ call' \in [Procs -> CallRecords]
  BY <1>1, <1>2, LookUpKeeps
<1> QED
  BY <1>1, <1>3 DEF Base, TypeOK

(* The file was created, or not, and is looked up again.                   *)
LEMMA CreateKeeps == ASSUME Base, NEW p \in Procs, Create(p) PROVE Base'
<1> DEFINE c == [call[p] EXCEPT !.creat = FALSE]
<1>1. UNCHANGED <<gft, inodes, pft, live, ret, wild>> /\ call[p].path # Root
      /\ disk' \in {disk, disk \cup {call[p].path}}
  BY DEF Create, At, Base, CallInv, Unentered
<1>2. c \in CallRecords /\ c.creat = FALSE
  BY CallStates DEF CallRecords
<1>3. call' = [call EXCEPT ![p] = LookedUp(c)]
  BY CallStates DEF Create
<1> HIDE DEF c
<1>4. TableInv' /\ CallInv' /\ call' \in [Procs -> CallRecords]
  BY <1>1, <1>2, <1>3, LookUpKeeps
<1>5. disk' \subseteq Paths
  BY <1>1, CallStates DEF Base, TypeOK, Names
<1> QED
  BY <1>1, <1>4, <1>5 DEF Base, TypeOK

(* The search on the disk leaves the tables alone.                         *)
LEMMA SearchKeeps == ASSUME Base, NEW p \in Procs, Search(p) PROVE Base'
<1>1. UNCHANGED <<disk, gft, inodes, pft, live, wild>> /\ call[p].path # Root
  BY DEF Search, At, Base, CallInv, Unentered
<1>2. CASE Missed(p)
  BY <1>1, <1>2, MissedKeeps
<1>3. CASE ~Missed(p)
  <2>1. Goes(p, "alloc") /\ UNCHANGED ret
    BY <1>3 DEF Search
  <2>2. TableTypes' /\ TablesShrink
    BY <1>1, SameTables DEF Base
  <2>3. TableInv' /\ CallInv' /\ call' \in [Procs -> CallRecords]
    BY <1>1, <2>1, <2>2, MoveKeeps
  <2> QED
    BY <1>1, <2>1, <2>3 DEF Base, TypeOK
<1> QED
  BY <1>2, <1>3
----------------------------------------------------------------------------
(* alloc_inode() has seen an inode that is free.                           *)
LEMMA AllocInodeKeeps == ASSUME Base, NEW p \in Procs, AllocInode(p) PROVE Base' /\ Seen(p)'
<1>1. UNCHANGED <<disk, gft, inodes, pft, live, wild>> /\ call[p].at = "alloc" /\ call[p].path # Root
  BY DEF AllocInode, At, Base, CallInv, Unentered
<1>2. CASE FreeInodes = {}
  <2>1. Missed(p)
    BY <1>2 DEF AllocInode
  <2>2. call'[p].at \notin {"mark", "slot", "fill"}
    BY <2>1, CallStates DEF Missed, Returns, Goes, CallRecords
  <2> QED
    BY <1>1, <2>1, <2>2, MissedKeeps DEF Seen
<1>3. CASE FreeInodes # {}
  <2> DEFINE j == Lowest(FreeInodes)
             c == [call[p] EXCEPT !.at = "mark", !.inode = j]
  <2>1. j \in Inodes /\ inodes[j] = Nil
    BY <1>3, Searches DEF FreeInodes
  <2>2. call' = [call EXCEPT ![p].at = "mark", ![p].inode = j] /\ UNCHANGED ret
    BY <1>3 DEF AllocInode
  <2> HIDE DEF j
  <2>3. /\ c \in CallRecords /\ c.at = "mark" /\ c.inode = j
        /\ c.path = call[p].path /\ c.creat = call[p].creat
        /\ call' = [call EXCEPT ![p] = c]
    <3>1. call' = [call EXCEPT ![p] = c]
      BY <2>2, CallStates
    <3>2. "mark" \in Points
      BY DEF Points
    <3>3. c \in CallRecords
      <4>1. [call[p] EXCEPT !.inode = j] \in CallRecords
        BY <2>1, CallStates DEF CallRecords
      <4> QED
        BY <3>2, <4>1 DEF CallRecords
    <3>4. c.at = "mark" /\ c.inode = j /\ c.path = call[p].path /\ c.creat = call[p].creat
      BY CallStates DEF CallRecords
    <3> QED
      BY <3>1, <3>3, <3>4
  <2> HIDE DEF c
  <2>4. TableInv' /\ CallInv' /\ call' \in [Procs -> CallRecords]
    <3>1. TableTypes' /\ TablesShrink
      BY <1>1, SameTables DEF Base
    <3> QED
      BY <1>1, <2>3, <3>1, CallMoves DEF Inserting
  <2>5. Seen(p)'
    BY <1>1, <2>1, <2>3, CallStates DEF Seen
  <2> QED
    BY <1>1, <2>2, <2>4, <2>5 DEF Base, TypeOK
<1> QED
  BY <1>2, <1>3

(* The inode that is marked belongs to no entry and to no other call.      *)
LEMMA MarkInodeKeeps == ASSUME Base, NEW p \in Procs, Seen(p), MarkInode(p) PROVE Base'
<1> DEFINE j == call[p].inode
           c == [call[p] EXCEPT !.at = "insert"]
<1>1. /\ inodes' = [inodes EXCEPT ![j] = call[p].path]
      /\ call' = [call EXCEPT ![p].at = "insert"]
      /\ UNCHANGED <<disk, gft, pft, live, ret, wild>>
      /\ call[p].at = "mark" /\ call[p].path # Root
  BY DEF MarkInode, At, Goes, Base, CallInv, Unentered
<1>2. j \in Inodes /\ inodes[j] = Nil /\ j # RootInode
  BY <1>1, Constants DEF Seen, Base, TableInv
<1>3. /\ call \in [Procs -> CallRecords] /\ inodes \in [Inodes -> Names \cup {Nil}]
      /\ call[p].path \in Names
  BY CallStates DEF Base, TypeOK
<1>4. /\ c \in CallRecords /\ call' = [call EXCEPT ![p] = c] /\ call'[p] = c
      /\ c.at = "insert" /\ c.inode = j /\ c.path = call[p].path /\ c.creat = call[p].creat
      /\ \A q \in Procs \ {p} : call'[q] = call[q]
  BY <1>1, <1>3, CallStates DEF CallRecords, Points
<1> HIDE DEF c, j
<1>5. TypeOK'
  BY <1>1, <1>2, <1>3, <1>4 DEF Base, TypeOK
<1>6. \A s \in Slots : Used(s)' <=> Used(s)
  BY <1>1 DEF Used
<1>7. \A s \in Slots : Used(s) => gft[s].inode # j /\ inodes'[gft[s].inode] = gft[s].name
  <2> SUFFICES ASSUME NEW s \in Slots, Used(s)
               PROVE  gft[s].inode # j /\ inodes'[gft[s].inode] = gft[s].name
    OBVIOUS
  <2>1. gft[s].inode \in Inodes /\ inodes[gft[s].inode] = gft[s].name /\ gft[s].name # Nil
    BY DEF Used, Base, TableInv, EntriesOwnInodes
  <2> QED
    BY <1>1, <1>2, <1>3, <2>1
<1>8. TableInv'
  BY <1>1, <1>2, <1>3, <1>6, <1>7, Constants DEF Base, TableInv, EntriesOwnInodes
<1>9. ASSUME NEW q \in Procs, Inserts(q), q # p
      PROVE  call[q].inode # j /\ inodes'[call[q].inode] = call[q].path /\ call[q].inode \in Inodes
  <2>1. call[q].inode \in Inodes /\ inodes[call[q].inode] = call[q].path /\ call[q].path # Nil
    BY <1>3, <1>9, Constants DEF Base, CallInv, CallRecords
  <2> QED
    BY <1>1, <1>2, <1>3, <2>1
<1>10. CallInv'
  <2>1. ASSUME NEW q \in Procs PROVE Inserts(q)' <=> q = p \/ Inserts(q)
    BY <1>4 DEF Inserts, Inserting
  <2>2. ASSUME NEW q \in Procs, call'[q].at \in Unentered \/ call'[q].creat
        PROVE  call'[q].path # Root
    BY <1>1, <1>4, <2>2 DEF Base, CallInv
  <2>3. ASSUME NEW q \in Procs, Inserts(q)'
        PROVE  /\ call'[q].inode \in Inodes
               /\ inodes'[call'[q].inode] = call'[q].path
               /\ call'[q].path = Root => call'[q].inode = RootInode
    <3>1. CASE q = p
      BY <1>1, <1>2, <1>3, <1>4, <3>1
    <3>2. CASE q # p
      BY <1>4, <1>9, <2>1, <2>3, <3>2 DEF Base, CallInv
    <3> QED
      BY <3>1, <3>2
  <2>4. ASSUME NEW q \in Procs, NEW s \in Slots, Inserts(q)', call'[q].path # Root, Used(s)'
        PROVE  call'[q].inode # gft'[s].inode
    <3>1. CASE q = p
      BY <1>1, <1>4, <1>6, <1>7, <2>4, <3>1
    <3>2. CASE q # p
      <4>1. Inserts(q) /\ call[q].path # Root /\ Used(s) /\ call'[q] = call[q]
        BY <1>4, <1>6, <2>1, <2>4, <3>2
      <4> QED
        BY <1>1, <4>1 DEF Base, CallInv
    <3> QED
      BY <3>1, <3>2
  <2>5. ASSUME NEW q \in Procs, NEW r \in Procs, Inserts(q)', Inserts(r)', q # r,
               call'[q].path # Root
        PROVE  call'[q].inode # call'[r].inode
    BY <1>4, <1>9, <2>1, <2>5 DEF Base, CallInv
  <2>6. ASSUME NEW q \in Procs, call'[q].at \in {"fill", "opened"} PROVE call'[q].fd \in Slots
    BY <1>4, <2>6 DEF Base, CallInv
  <2> QED
    BY <2>2, <2>3, <2>4, <2>5, <2>6 DEF CallInv
<1> QED
  BY <1>5, <1>8, <1>10 DEF Base

(* insert_file() has found the entry, or seen that there is none.          *)
LEMMA InsertFileKeeps == ASSUME Base, NEW p \in Procs, InsertFile(p) PROVE Base' /\ Seen(p)'
<1> DEFINE path == call[p].path
           k == Lowest(Named(path))
<1>1. UNCHANGED <<disk, gft, inodes, pft, live, ret, wild>> /\ Inserts(p)
  BY DEF InsertFile, At, Inserts, Inserting
<1>2. TableTypes' /\ TablesShrink
  BY <1>1, SameTables DEF Base
<1>3. CASE Named(path) # {}
  <2> DEFINE c == [call[p] EXCEPT !.at = "opened", !.fd = k, !.inode = Nil]
  <2>1. k \in Slots
    BY <1>3, Searches DEF Named
  <2>2. call' = [call EXCEPT ![p].at = "opened", ![p].fd = k, ![p].inode = Nil]
    BY <1>3 DEF InsertFile
  <2> HIDE DEF k
  <2>3. /\ c \in CallRecords /\ c.at = "opened" /\ c.fd = k /\ c.path = path
        /\ c.creat = call[p].creat /\ call' = [call EXCEPT ![p] = c]
    BY <2>1, <2>2, CallStates DEF CallRecords, Points
  <2>4. c.creat => c.path # Root
    BY <2>3 DEF Base, CallInv
  <2> HIDE DEF c
  <2>5. TableInv' /\ CallInv' /\ call' \in [Procs -> CallRecords]
    BY <1>2, <2>1, <2>3, <2>4, CallMoves DEF Unentered, Inserting
  <2>6. Seen(p)'
    BY <2>3, CallStates DEF Seen
  <2> QED
    BY <1>1, <2>5, <2>6 DEF Base, TypeOK
<1>4. CASE Named(path) = {}
  <2> DEFINE c == [call[p] EXCEPT !.at = "slot"]
  <2>1. /\ c \in CallRecords /\ c.at = "slot" /\ c.inode = call[p].inode /\ c.path = path
        /\ c.creat = call[p].creat /\ call' = [call EXCEPT ![p] = c]
    BY <1>4, CallStates DEF InsertFile, Goes, CallRecords, Points
  <2>2. c.creat => c.path # Root
    BY <2>1 DEF Base, CallInv
  <2> HIDE DEF c
  <2>3. TableInv' /\ CallInv' /\ call' \in [Procs -> CallRecords]
    BY <1>1, <1>2, <2>1, <2>2, CallMoves DEF Unentered
  <2>4. Seen(p)'
    BY <1>1, <1>4, <2>1, CallStates DEF Seen, Named
  <2> QED
    BY <1>1, <2>3, <2>4 DEF Base, TypeOK
<1> QED
  BY <1>3, <1>4

(* alloc_file() has seen a slot that is free.                              *)
LEMMA AllocFileKeeps ==
    ASSUME Base, NEW p \in Procs, Seen(p), AllocFile(p) PROVE Base' /\ Seen(p)'
<1>1. UNCHANGED <<disk, gft, inodes, pft, live, wild>> /\ call[p].at = "slot" /\ Inserts(p)
  BY DEF AllocFile, At, Inserts, Inserting
<1>2. CASE FreeSlots = {}
  <2>1. Missed(p)
    BY <1>2 DEF AllocFile
  <2>2. call'[p].at \notin {"mark", "slot", "fill"}
    BY <2>1, CallStates DEF Missed, Returns, Goes, CallRecords
  <2> QED
    BY <1>1, <2>1, <2>2, MissedKeeps DEF Seen
<1>3. CASE FreeSlots # {}
  <2> DEFINE k == Lowest(FreeSlots)
             c == [call[p] EXCEPT !.at = "fill", !.fd = k]
  <2>1. k \in Slots /\ ~Used(k)
    BY <1>3, Searches DEF FreeSlots, Used
  <2>2. call' = [call EXCEPT ![p].at = "fill", ![p].fd = k] /\ UNCHANGED ret
    BY <1>3 DEF AllocFile
  <2> HIDE DEF k
  <2>3. /\ c \in CallRecords /\ c.at = "fill" /\ c.fd = k /\ c.inode = call[p].inode
        /\ c.path = call[p].path /\ c.creat = call[p].creat
        /\ call' = [call EXCEPT ![p] = c]
    BY <2>1, <2>2, CallStates DEF CallRecords, Points
  <2>4. c.creat => c.path # Root
    BY <2>3 DEF Base, CallInv
  <2> HIDE DEF c
  <2>5. TableInv' /\ CallInv' /\ call' \in [Procs -> CallRecords]
    <3>1. TableTypes' /\ TablesShrink
      BY <1>1, SameTables DEF Base
    <3> QED
      BY <1>1, <2>1, <2>3, <2>4, <3>1, CallMoves DEF Unentered
  <2>6. Seen(p)'
    <3>1. Named(call[p].path) = {} /\ call'[p] = c
      BY <1>1, <2>3, CallStates DEF Seen
    <3> QED
      BY <1>1, <2>1, <2>3, <3>1 DEF Seen, Named, Used
  <2> QED
    BY <1>1, <2>2, <2>5, <2>6 DEF Base, TypeOK
<1> QED
  BY <1>2, <1>3

(* The new entry takes over the inode of the call.                         *)
LEMMA FillFileKeeps == ASSUME Base, NEW p \in Procs, Seen(p), FillFile(p) PROVE Base'
<1> DEFINE path == call[p].path
           k == call[p].fd
           c == [call[p] EXCEPT !.at = "opened", !.inode = Nil]
           e == [name |-> path, inode |-> call[p].inode, count |-> 0]
<1>1. /\ call' = [call EXCEPT ![p].at = "opened", ![p].inode = Nil]
      /\ gft' = [gft EXCEPT ![k] = e]
      /\ UNCHANGED <<disk, ret, inodes, pft, live, wild>>
      /\ call[p].at = "fill" /\ Inserts(p)
  BY DEF FillFile, At, Inserts, Inserting
<1>2. k \in Slots /\ ~Used(k) /\ Named(path) = {}
  BY <1>1 DEF Seen, Base, CallInv
<1>3. /\ path \in Names /\ call[p].inode \in Inodes
      /\ inodes[call[p].inode] = path /\ (path = Root => call[p].inode = RootInode)
  BY <1>1, CallStates DEF Base, CallInv
<1>4. e.name = path /\ e.inode = call[p].inode /\ e \in Entries
  BY <1>3 DEF Entries
<1>5. /\ c \in CallRecords /\ c.at = "opened" /\ c.path = path /\ c.creat = call[p].creat
      /\ c.fd = k /\ call' = [call EXCEPT ![p] = c] /\ call'[p] = c
      /\ \A q \in Procs \ {p} : call'[q] = call[q]
  BY <1>1, CallStates DEF CallRecords, Points
<1> HIDE DEF e, c
<1>6. gft'[k] = e /\ \A s \in Slots \ {k} : gft'[s] = gft[s]
  BY <1>1, <1>2 DEF Base, TypeOK
<1>7. TypeOK'
  <2>1. gft' \in [Slots -> Entries] /\ call' \in [Procs -> CallRecords]
    BY <1>1, <1>4, <1>5, CallStates DEF Base, TypeOK
  <2> QED
    BY <1>1, <2>1 DEF Base, TypeOK
<1>8. \A s \in Slots : Used(s)' <=> s = k \/ Used(s)
  BY <1>3, <1>4, <1>6, Constants DEF Used
<1>9. \A s \in Slots : Used(s) => s # k /\ gft[s].name # path /\ gft[s].inode # call[p].inode
  BY <1>2, <1>3 DEF Named, Base, TableInv, EntriesOwnInodes
<1>10. TableInv'
  <2>1. ASSUME NEW s \in Slots, Used(s)'
        PROVE  gft'[s].inode \in Inodes /\ inodes[gft'[s].inode] = gft'[s].name
    BY <1>3, <1>4, <1>6, <1>8, <2>1 DEF Base, TableInv, EntriesOwnInodes
  <2>2. ASSUME NEW s \in Slots, NEW u \in Slots, Used(s)', Used(u)'
        PROVE  /\ gft'[s].name = gft'[u].name => s = u
               /\ s # u => gft'[s].inode # gft'[u].inode
    BY <1>4, <1>6, <1>8, <1>9, <2>2 DEF Base, TableInv, EntriesOwnInodes
  <2>3. \A s, u \in Slots : Used(s)' /\ gft'[s].name = gft'[u].name => Used(u)'
    BY DEF Used
  <2>4. inodes'[RootInode] = Root
    BY <1>1 DEF Base, TableInv
  <2> QED
    BY <1>1, <2>1, <2>2, <2>3, <2>4 DEF TableInv, EntriesOwnInodes
<1>11. CallInv'
  <2>1. ASSUME NEW q \in Procs
        PROVE  (Inserts(q)' <=> q # p /\ Inserts(q)) /\ (q # p => call'[q] = call[q])
    BY <1>5 DEF Inserts, Inserting
  <2>2. ASSUME NEW q \in Procs, call'[q].at \in Unentered \/ call'[q].creat
        PROVE  call'[q].path # Root
    BY <1>5, <2>2 DEF Base, CallInv, Unentered
  <2>3. ASSUME NEW q \in Procs, NEW s \in Slots, Inserts(q)', call'[q].path # Root, Used(s)'
        PROVE  call'[q].inode # gft'[s].inode
    <3>1. q # p /\ Inserts(q) /\ call[q].path # Root /\ call'[q] = call[q]
      BY <2>1, <2>3
    <3>2. CASE s = k
      BY <1>1, <1>4, <1>6, <3>1, <3>2 DEF Base, CallInv
    <3>3. CASE s # k
      BY <1>6, <1>8, <2>3, <3>1, <3>3 DEF Base, CallInv
    <3> QED
      BY <3>2, <3>3
  <2>4. ASSUME NEW q \in Procs, Inserts(q)'
        PROVE  /\ call'[q].inode \in Inodes
               /\ inodes'[call'[q].inode] = call'[q].path
               /\ call'[q].path = Root => call'[q].inode = RootInode
    BY <1>1, <2>1, <2>4 DEF Base, CallInv
  <2>5. ASSUME NEW q \in Procs, NEW r \in Procs, Inserts(q)', Inserts(r)', q # r,
               call'[q].path # Root
        PROVE  call'[q].inode # call'[r].inode
    BY <2>1, <2>5 DEF Base, CallInv
  <2>6. ASSUME NEW q \in Procs, call'[q].at \in {"fill", "opened"} PROVE call'[q].fd \in Slots
    BY <1>2, <1>5, <2>6 DEF Base, CallInv
  <2> QED
    BY <2>2, <2>3, <2>4, <2>5, <2>6 DEF CallInv
<1> QED
  BY <1>7, <1>10, <1>11 DEF Base
----------------------------------------------------------------------------
(* insert_proc_file() changes a count and no entry's name or inode.        *)
LEMMA InsertProcFileKeeps ==
    ASSUME Base, NEW p \in Procs, call[p].fd \in Slots, InsertProcFile(p), UNCHANGED inodes
    PROVE  /\ InsertedAt(p) \in Fds \cup {Nil}
           /\ pft' \in [Procs -> [Fds -> Descriptors]]
           /\ TableTypes' /\ TablesShrink
<1>1. InsertedAt(p) \in Fds \cup {Nil}
  BY Searches DEF InsertedAt, FreeFds
<1>2. pft' \in [Procs -> [Fds -> Descriptors]]
  <2> DEFINE d == [f |-> call[p].fd, path |-> call[p].path]
             row == [pft[p] EXCEPT ![InsertedAt(p)] = d]
  <2>1. d \in Descriptors
    BY CallStates DEF Descriptors
  <2>2. pft' = pft \/ pft' = [pft EXCEPT ![p] = row]
    BY DEF InsertProcFile
  <2>3. pft \in [Procs -> [Fds -> Descriptors]] /\ pft[p] \in [Fds -> Descriptors]
    BY DEF Base, TypeOK
  <2> HIDE DEF d
  <2>4. row \in [Fds -> Descriptors]
    BY <2>1, <2>3
  <2> HIDE DEF row
  <2> QED
    BY <2>2, <2>3, <2>4
<1>3. gft' = gft \/ gft' = [gft EXCEPT ![call[p].fd].count = CountAfterOpen(@)]
  BY DEF InsertProcFile
<1>4. CASE gft' = gft
  BY <1>1, <1>2, <1>4, SameTables DEF Base
<1>5. CASE gft' = [gft EXCEPT ![call[p].fd].count = CountAfterOpen(@)]
  <2>1. gft \in [Slots -> Entries]
    BY DEF Base, TypeOK
  <2>2. gft' \in [Slots -> Entries]
        /\ \A s \in Slots : gft'[s].name = gft[s].name /\ gft'[s].inode = gft[s].inode
    BY <1>5, <2>1 DEF Entries, CountAfterOpen
  <2> QED
    BY <1>1, <1>2, <2>2 DEF Base, TypeOK, TableTypes, TablesShrink, Used
<1> QED
  BY <1>3, <1>4, <1>5

(* The process enters the file in its own table and the file is counted.   *)
LEMMA OpenDoneKeeps == ASSUME Base, NEW p \in Procs, OpenDone(p) PROVE Base'
<1>1. /\ Returns(p) /\ UNCHANGED <<disk, inodes, live, wild>>
      /\ ret' = [ret EXCEPT ![p] = Handle(InsertedAt(p))]
      /\ call[p].fd \in Slots /\ InsertProcFile(p)
  BY DEF OpenDone, At, Base, CallInv
<1>2. /\ InsertedAt(p) \in Fds \cup {Nil} /\ pft' \in [Procs -> [Fds -> Descriptors]]
      /\ TableTypes' /\ TablesShrink
  BY <1>1, InsertProcFileKeeps
<1>3. ret' \in [Procs -> {Nil} \cup (MAX_DEVICES - 1 .. MAX_DEVICES + NumProcFiles - 1)]
  <2>1. Handle(InsertedAt(p)) \in MAX_DEVICES - 1 .. MAX_DEVICES + NumProcFiles - 1
    BY <1>2, Constants DEF Handle, MAX_DEVICES, Fds, Nil
  <2> QED
    BY <1>1, <2>1 DEF Base, TypeOK
<1>4. TableInv' /\ CallInv' /\ call' \in [Procs -> CallRecords]
  BY <1>1, <1>2, MoveKeeps
<1> QED
  BY <1>1, <1>2, <1>3, <1>4 DEF Base, TypeOK, TableTypes

(* stat enters the file in the process' table, too.                        *)
LEMMA StatFileKeeps == ASSUME Base, NEW p \in Procs, StatFile(p) PROVE Base'
<1> DEFINE c == [call[p] EXCEPT !.at = "closing", !.pf = InsertedAt(p)]
<1>1. /\ UNCHANGED <<disk, inodes, live, ret>> /\ wild' \in BOOLEAN
      /\ call' = [call EXCEPT ![p].at = "closing", ![p].pf = InsertedAt(p)]
      /\ call[p].fd \in Slots /\ InsertProcFile(p)
  BY DEF StatFile, At, Base, CallInv
<1>2. /\ InsertedAt(p) \in Fds \cup {Nil} /\ pft' \in [Procs -> [Fds -> Descriptors]]
      /\ TableTypes' /\ TablesShrink
  BY <1>1, InsertProcFileKeeps
<1>3. /\ c \in CallRecords /\ c.at = "closing" /\ c.path = call[p].path /\ c.creat = call[p].creat
      /\ call' = [call EXCEPT ![p] = c]
  BY <1>1, <1>2, CallStates DEF CallRecords, Points
<1>4. c.creat => c.path # Root
  BY <1>3 DEF Base, CallInv
<1> HIDE DEF c
<1>5. TableInv' /\ CallInv' /\ call' \in [Procs -> CallRecords]
  BY <1>2, <1>3, <1>4, CallMoves DEF Unentered, Inserting
<1> QED
  BY <1>1, <1>2, <1>5 DEF Base, TypeOK, TableTypes

(* The steps that change no table and go on.                               *)
LEMMA GoesKeeps ==
    ASSUME Base, NEW p \in Procs,
           Returns(p) \/ \E at \in {"closing", "remove", "shrink", "delete"} : Goes(p, at),
           disk' \subseteq disk, UNCHANGED <<gft, inodes, pft, live, ret>>, wild' \in BOOLEAN
    PROVE  Base'
<1>1. TableTypes' /\ TablesShrink
  BY SameTables DEF Base
<1>2. TableInv' /\ CallInv' /\ call' \in [Procs -> CallRecords]
  BY <1>1, MoveKeeps
<1> QED
  BY <1>2 DEF Base, TypeOK

(* unlink has its file and closes it.                                      *)
LEMMA UnlinkDecideKeeps == ASSUME Base, NEW p \in Procs, UnlinkDecide(p) PROVE Base'
<1> DEFINE op == IF Used(call[p].fd) /\ gft[call[p].fd].count > 0 THEN "refuse" ELSE "unlink"
           c == [call[p] EXCEPT !.at = "closing", !.op = op]
<1>1. /\ UNCHANGED <<disk, gft, inodes, pft, live, ret>> /\ wild' \in BOOLEAN
      /\ call' = [call EXCEPT ![p].at = "closing", ![p].op = op]
      /\ op \in {"refuse", "unlink"}
  BY DEF UnlinkDecide
<1> HIDE DEF op
<1>2. /\ c \in CallRecords /\ c.at = "closing" /\ c.path = call[p].path /\ c.creat = call[p].creat
      /\ call' = [call EXCEPT ![p] = c]
  BY <1>1, CallStates DEF CallRecords, Points
<1>3. c.creat => c.path # Root
  BY <1>2 DEF Base, CallInv
<1> HIDE DEF c
<1>4. TableTypes' /\ TablesShrink
  BY <1>1, SameTables DEF Base
<1>5. TableInv' /\ CallInv' /\ call' \in [Procs -> CallRecords]
  BY <1>2, <1>3, <1>4, CallMoves DEF Unentered, Inserting
<1> QED
  BY <1>1, <1>5 DEF Base, TypeOK

(* do_remove() looks the file up to truncate it.                           *)
LEMMA RemoveKeeps == ASSUME Base, NEW p \in Procs, Remove(p) PROVE Base'
<1> DEFINE c == [call[p] EXCEPT !.op = "truncate"]
<1>1. UNCHANGED <<disk, gft, inodes, pft, live, ret, wild>>
      /\ (Returns(p) \/ call' = [call EXCEPT ![p] = LookedUp(c)])
  BY CallStates DEF Remove
<1>2. c \in CallRecords /\ c.creat = call[p].creat /\ c.path = call[p].path
  BY CallStates DEF CallRecords
<1>3. c.creat => c.path # Root
  BY <1>2 DEF Base, CallInv
<1> HIDE DEF c
<1>4. CASE Returns(p)
  BY <1>1, <1>4, GoesKeeps DEF Base, TypeOK
<1>5. CASE call' = [call EXCEPT ![p] = LookedUp(c)]
  <2>1. TableInv' /\ CallInv' /\ call' \in [Procs -> CallRecords]
    BY <1>1, <1>2, <1>3, <1>5, LookUpKeeps
  <2> QED
    BY <1>1, <2>1 DEF Base, TypeOK
<1> QED
  BY <1>1, <1>4, <1>5

(* The truncation and the deletion leave the tables alone.                 *)
LEMMA DeletionKeeps ==
    ASSUME Base, NEW p \in Procs, Truncate(p) \/ TruncateCloses(p) \/ Delete(p)
    PROVE  Base'
<1>1. CASE Truncate(p)
  BY <1>1, GoesKeeps DEF Truncate
<1>2. CASE TruncateCloses(p)
  BY <1>2, GoesKeeps DEF TruncateCloses, Base, TypeOK
<1>3. CASE Delete(p)
  BY <1>3, GoesKeeps DEF Delete, Base, TypeOK
<1> QED
  BY <1>1, <1>2, <1>3

(* close begins with a descriptor that is in use.                          *)
LEMMA CloseKeeps == ASSUME Base, NEW p \in Procs, NEW i \in Fds, Close(p, i) PROVE Base'
<1> DEFINE c == [Idle EXCEPT !.op = "close", !.at = "closing", !.fd = pft[p][i].f, !.pf = i]
<1>1. UNCHANGED <<disk, gft, inodes, pft, live, ret, wild>>
      /\ (call' = call \/ call' = [call EXCEPT ![p] = c])
  BY DEF Close
<1>2. pft[p][i].f \in Slots \cup {Nil}
  BY DEF Base, TypeOK, Descriptors
<1>3. c \in CallRecords /\ c.at = "closing" /\ ~c.creat
  BY <1>2, Constants DEF Idle, CallRecords, Points
<1> HIDE DEF c
<1>4. TableTypes' /\ TablesShrink
  BY <1>1, SameTables DEF Base
<1>5. CASE call' = call
  BY <1>1, <1>5 DEF Base, TypeOK, TableInv, EntriesOwnInodes, CallInv, Inserts, Used
<1>6. CASE call' = [call EXCEPT ![p] = c]
  <2>1. TableInv' /\ CallInv' /\ call' \in [Procs -> CallRecords]
    BY <1>3, <1>4, <1>6, CallMoves DEF Unentered, Inserting
  <2> QED
    BY <1>1, <2>1 DEF Base, TypeOK
<1> QED
  BY <1>1, <1>5, <1>6

(* The entry is freed and the descriptor cleared.                          *)
LEMMA FileClosedKeeps == ASSUME Base, NEW p \in Procs, FileClosed(p) PROVE Base'
<1>1. /\ FreeFile(call[p].fd) /\ UNCHANGED <<disk, live, ret, wild>>
      /\ Returns(p) \/ Goes(p, "remove") \/ Goes(p, "delete")
      /\ pft' = IF call[p].pf = Nil THEN pft ELSE [pft EXCEPT ![p][call[p].pf] = Closed]
  BY DEF FileClosed
<1>2. TableTypes' /\ TablesShrink
  BY <1>1, FreeFileShrinks DEF Base, TypeOK, TableTypes
<1>3. TableInv' /\ CallInv' /\ call' \in [Procs -> CallRecords]
  BY <1>1, <1>2, MoveKeeps
<1>4. pft' \in [Procs -> [Fds -> Descriptors]]
  BY <1>1 DEF Base, TypeOK, Closed, Descriptors
<1> QED
  BY <1>1, <1>2, <1>3, <1>4 DEF Base, TypeOK, TableTypes

(* A process that exits, or that follows NULL, leaves the tables of the    *)
(* whole system alone.                                                     *)
LEMMA ExitKeeps ==
    ASSUME IInv, NEW p \in Procs, Exit(p) \/ \E i \in Fds : CloseUnopened(p, i) PROVE IInv'
<1>1. /\ UNCHANGED <<disk, gft, inodes, call, ret>> /\ live' \subseteq live /\ wild' \in BOOLEAN
      /\ pft' = pft \/ pft' = [pft EXCEPT ![p] = [i \in Fds |-> Closed]]
  BY DEF Exit, CloseUnopened, IInv, Base, TypeOK
<1>2. [i \in Fds |-> Closed] \in [Fds -> Descriptors]
  BY DEF Closed, Descriptors
<1>3. TypeOK'
  BY <1>1, <1>2 DEF IInv, Base, TypeOK
<1>4. TableInv' /\ CallInv'
  BY <1>1 DEF IInv, Base, TableInv, EntriesOwnInodes, CallInv, Inserts, Used
<1>5. \A q \in Procs : Seen(q)'
  BY <1>1 DEF IInv, Seen, Named, Used
<1> QED
  BY <1>3, <1>4, <1>5 DEF IInv, Base
----------------------------------------------------------------------------
(* At the start only the root has an inode, and there are no entries.      *)
LEMMA InitIInv == Init => IInv
<1> SUFFICES ASSUME Init PROVE IInv
  OBVIOUS
<1>1. Idle \in CallRecords /\ Unused \in Entries /\ Closed \in Descriptors
      /\ Idle.at = "idle" /\ ~Idle.creat /\ Unused.name = Nil
  BY Constants DEF Idle, CallRecords, Unused, Entries, Closed, Descriptors, Points
<1>2. TypeOK
  BY <1>1, Constants DEF Init, TypeOK
<1>3. \A s \in Slots : ~Used(s)
  BY <1>1 DEF Init, Used
<1>4. TableInv
  <2>1. \A s \in Slots, u \in Slots : gft[s].name # gft[u].name \/ ~Used(s)
    BY <1>3
  <2> QED
    BY <1>3, <2>1, Constants DEF Init, TableInv, EntriesOwnInodes
<1>5. \A p \in Procs : call[p].at = "idle" /\ ~call[p].creat
  BY <1>1 DEF Init
<1>6. CallInv /\ \A p \in Procs : Seen(p)
  BY <1>5 DEF CallInv, Inserts, Seen, Unentered, Inserting
<1> QED
  BY <1>2, <1>4, <1>6 DEF IInv, Base

(* While a process moves, no other is between looking and taking.          *)
LEMMA SeenByOne ==
    ASSUME Undisturbed, IInv, NEW p \in Procs, NEW at, At(p, at), NEW c,
           call' = [call EXCEPT ![p] = c],
           Seen(p)' \/ c.at \notin BetweenLookAndTake
    PROVE  \A q \in Procs : Seen(q)'
<1>1. call'[p] = c /\ \A q \in Procs \ {p} : call'[q] = call[q]
  BY DEF IInv, Base, TypeOK
<1>2. ASSUME NEW q \in Procs \ {p} PROVE Seen(q)'
  <2>1. call'[q].at \notin {"mark", "slot", "fill"}
    BY <1>1 DEF At, Undisturbed, BetweenLookAndTake
  <2> QED
    BY <2>1 DEF Seen
<1>3. Seen(p)'
  BY <1>1 DEF Seen, BetweenLookAndTake
<1> QED
  BY <1>2, <1>3

(* The steps that take a process out of or past looking and taking.        *)
LEMMA MovesUnseen ==
    ASSUME Undisturbed, IInv, NEW p \in Procs, NEW at, At(p, at), NEW to,
           to \notin BetweenLookAndTake,
           Returns(p) \/ Goes(p, to)
    PROVE  \A q \in Procs : Seen(q)'
<1>1. call \in [Procs -> CallRecords] /\ call[p] \in CallRecords
  BY CallStates DEF IInv
<1>2. CASE Returns(p)
  BY <1>2, SeenByOne DEF Returns, Idle, BetweenLookAndTake
<1>3. CASE Goes(p, to)
  <2> DEFINE c == [call[p] EXCEPT !.at = to]
  <2>1. call' = [call EXCEPT ![p] = c] /\ c.at = to
    BY <1>1, <1>3 DEF Goes, CallRecords
  <2> HIDE DEF c
  <2> QED
    BY <2>1, SeenByOne
<1> QED
  BY <1>2, <1>3

(* A call that looks its file up is not yet between looking and taking.    *)
LEMMA LookUpUnseen ==
    ASSUME Undisturbed, IInv, NEW p \in Procs, NEW at, At(p, at), NEW c \in CallRecords,
           call' = [call EXCEPT ![p] = LookedUp(c)]
    PROVE  \A q \in Procs : Seen(q)'
<1>1. LookedUp(c).at \notin BetweenLookAndTake
  BY LooksUp DEF BetweenLookAndTake
<1> QED
  BY <1>1, SeenByOne

(* A call that begins has not looked for anything to take.                 *)
LEMMA BeginUnseen ==
    ASSUME Undisturbed, IInv, NEW p \in Procs, NEW op \in {"open", "stat", "unlink"},
           NEW path \in Names, NEW creat \in BOOLEAN, Begin(p, op, path, creat)
    PROVE  \A q \in Procs : Seen(q)'
<1> DEFINE c == [Idle EXCEPT !.op = op, !.path = path, !.creat = creat]
<1>1. c \in CallRecords
  BY Constants DEF CallRecords, Idle, Points
<1>2. At(p, "idle") /\ call' = [call EXCEPT ![p] = LookedUp(c)]
  BY DEF Begin
<1> HIDE DEF c
<1> QED
  BY <1>1, <1>2, LookUpUnseen

(* What has been looked for is still to be had after every step.           *)
LEMMA OpeningSeen ==
    ASSUME Undisturbed, IInv, NEW p \in Procs,
           Search(p) \/ Create(p) \/ AllocInode(p) \/ MarkInode(p) \/ InsertFile(p)
               \/ AllocFile(p) \/ FillFile(p)
    PROVE  \A q \in Procs : Seen(q)'
<1>0. Base /\ Seen(p) /\ call \in [Procs -> CallRecords] /\ call[p] \in CallRecords
  BY CallStates DEF IInv
<1>1. CASE Search(p)
  <2>1. At(p, "search") /\ (Goes(p, "alloc") \/ Missed(p))
    BY <1>1 DEF Search
  <2>2. Returns(p) \/ Goes(p, "alloc") \/ Goes(p, "create") \/ Goes(p, "delete")
    BY <2>1 DEF Missed
  <2> QED
    BY <2>1, <2>2, MovesUnseen DEF BetweenLookAndTake
<1>2. CASE Create(p)
  <2> DEFINE c == [call[p] EXCEPT !.creat = FALSE]
  <2>1. At(p, "create") /\ call' = [call EXCEPT ![p] = LookedUp(c)] /\ c \in CallRecords
    BY <1>0, <1>2 DEF Create, CallRecords
  <2> HIDE DEF c
  <2> QED
    BY <2>1, LookUpUnseen
<1>3. CASE AllocInode(p)
  <2>1. Seen(p)' /\ At(p, "alloc")
    BY <1>0, <1>3, AllocInodeKeeps DEF AllocInode
  <2>2. \E c : call' = [call EXCEPT ![p] = c]
    BY <1>0, <1>3 DEF AllocInode, Missed, Goes, Returns
  <2> QED
    BY <2>1, <2>2, SeenByOne
<1>4. CASE MarkInode(p)
  BY <1>4, MovesUnseen DEF MarkInode, BetweenLookAndTake
<1>5. CASE InsertFile(p)
  <2>1. Seen(p)' /\ At(p, "insert")
    BY <1>0, <1>5, InsertFileKeeps DEF InsertFile
  <2>2. \E c : call' = [call EXCEPT ![p] = c]
    BY <1>0, <1>5 DEF InsertFile, Goes
  <2> QED
    BY <2>1, <2>2, SeenByOne
<1>6. CASE AllocFile(p)
  <2>1. Seen(p)' /\ At(p, "slot")
    BY <1>0, <1>6, AllocFileKeeps DEF AllocFile
  <2>2. \E c : call' = [call EXCEPT ![p] = c]
    BY <1>0, <1>6 DEF AllocFile, Missed, Goes, Returns
  <2> QED
    BY <2>1, <2>2, SeenByOne
<1>7. CASE FillFile(p)
  <2> DEFINE c == [call[p] EXCEPT !.at = "opened", !.inode = Nil]
  <2>1. At(p, "fill") /\ call' = [call EXCEPT ![p] = c] /\ c.at = "opened"
    BY <1>0, <1>7 DEF FillFile, CallRecords
  <2> HIDE DEF c
  <2> QED
    BY <2>1, SeenByOne DEF BetweenLookAndTake
<1> QED
  BY <1>1, <1>2, <1>3, <1>4, <1>5, <1>6, <1>7

(* The steps that follow the opening look for nothing to take.             *)
LEMMA OpenedSeen ==
    ASSUME Undisturbed, IInv, NEW p \in Procs,
           OpenDone(p) \/ StatFile(p) \/ UnlinkDecide(p) \/ Remove(p) \/ Truncate(p)
               \/ TruncateCloses(p) \/ Delete(p) \/ FileClosed(p)
    PROVE  \A q \in Procs : Seen(q)'
<1>0. call \in [Procs -> CallRecords] /\ call[p] \in CallRecords
  BY CallStates DEF IInv
<1>1. CASE OpenDone(p) \/ Delete(p)
  <2>1. Returns(p) /\ (At(p, "opened") \/ At(p, "delete")) /\ "idle" \notin BetweenLookAndTake
    BY <1>1 DEF OpenDone, Delete, BetweenLookAndTake
  <2> QED
    BY <2>1, MovesUnseen
<1>2. CASE StatFile(p)
  <2> DEFINE c == [call[p] EXCEPT !.at = "closing", !.pf = InsertedAt(p)]
  <2>1. At(p, "opened") /\ call' = [call EXCEPT ![p] = c] /\ c.at = "closing"
    BY <1>0, <1>2 DEF StatFile, CallRecords
  <2> HIDE DEF c
  <2> QED
    BY <2>1, SeenByOne DEF BetweenLookAndTake
<1>3. CASE UnlinkDecide(p)
  <2> DEFINE op == IF Used(call[p].fd) /\ gft[call[p].fd].count > 0 THEN "refuse" ELSE "unlink"
             c == [call[p] EXCEPT !.at = "closing", !.op = op]
  <2>1. At(p, "opened") /\ call' = [call EXCEPT ![p] = c] /\ c.at = "closing"
    BY <1>0, <1>3 DEF UnlinkDecide, CallRecords
  <2> HIDE DEF c
  <2> QED
    BY <2>1, SeenByOne DEF BetweenLookAndTake
<1>4. CASE Remove(p)
  <2> DEFINE c == [call[p] EXCEPT !.op = "truncate"]
  <2>1. At(p, "remove") /\ (Returns(p) \/ call' = [call EXCEPT ![p] = LookedUp(c)])
    BY <1>0, <1>4 DEF Remove
  <2>2. c \in CallRecords
    BY <1>0 DEF CallRecords
  <2> HIDE DEF c
  <2>3. CASE Returns(p)
    BY <2>1, <2>3, MovesUnseen DEF BetweenLookAndTake
  <2> QED
    BY <2>1, <2>2, <2>3, LookUpUnseen
<1>5. CASE Truncate(p) \/ TruncateCloses(p)
  <2>1. /\ At(p, "opened") \/ At(p, "shrink")
        /\ Goes(p, "shrink") \/ Goes(p, "closing") \/ Goes(p, "delete")
    BY <1>5 DEF Truncate, TruncateCloses
  <2> QED
    BY <2>1, MovesUnseen DEF BetweenLookAndTake
<1>6. CASE FileClosed(p)
  <2>1. At(p, "closing") /\ (Returns(p) \/ Goes(p, "remove") \/ Goes(p, "delete"))
    BY <1>6 DEF FileClosed
  <2> QED
    BY <2>1, MovesUnseen DEF BetweenLookAndTake
<1> QED
  BY <1>1, <1>2, <1>3, <1>4, <1>5, <1>6

(* Closing looks for nothing either.                                       *)
LEMMA CloseSeen ==
    ASSUME Undisturbed, IInv, NEW p \in Procs, NEW i \in Fds, Close(p, i)
    PROVE  \A q \in Procs : Seen(q)'
<1> DEFINE c == [Idle EXCEPT !.op = "close", !.at = "closing", !.fd = pft[p][i].f, !.pf = i]
<1>1. /\ At(p, "idle") /\ UNCHANGED <<gft, inodes>>
      /\ call' = call \/ call' = [call EXCEPT ![p] = c]
      /\ c.at = "closing"
  BY DEF Close, Idle
<1> HIDE DEF c
<1>2. CASE call' = call
  BY <1>1, <1>2 DEF IInv, Seen, Named, Used
<1>3. CASE call' = [call EXCEPT ![p] = c]
  BY <1>1, <1>3, SeenByOne DEF BetweenLookAndTake
<1> QED
  BY <1>1, <1>2, <1>3

(* Every step of every call keeps the invariant, if no call is switched    *)
(* between looking and taking.                                             *)
LEMMA NextIInv == ASSUME Undisturbed, IInv, [Next]_vars PROVE IInv'
<1>1. CASE UNCHANGED vars
  <2>1. Base'
    BY <1>1 DEF vars, IInv, Base, TypeOK, TableInv, EntriesOwnInodes, CallInv, Inserts, Used
  <2>2. \A p \in Procs : Seen(p)'
    BY <1>1 DEF vars, IInv, Seen, Named, Used
  <2> QED
    BY <2>1, <2>2 DEF IInv
<1>2. ASSUME NEW p \in Procs, Call(p) PROVE IInv'
  <2>0. Base /\ Seen(p)
    BY DEF IInv
  <2>1. ASSUME NEW path \in Names, NEW creat \in BOOLEAN, Open(p, path, creat) PROVE IInv'
    BY <2>0, <2>1, BeginKeeps, BeginUnseen DEF Open, IInv
  <2>2. ASSUME NEW path \in Names, Stat(p, path) PROVE IInv'
    BY <2>0, <2>2, BeginKeeps, BeginUnseen DEF Stat, IInv
  <2>3. ASSUME NEW path \in Paths, Unlink(p, path) PROVE IInv'
    BY <2>0, <2>3, BeginKeeps, BeginUnseen, Constants DEF Unlink, IInv
  <2>4. CASE Search(p) \/ Create(p) \/ AllocInode(p) \/ MarkInode(p) \/ InsertFile(p)
               \/ AllocFile(p) \/ FillFile(p)
    <3>1. Base'
      BY <2>0, <2>4, SearchKeeps, CreateKeeps, AllocInodeKeeps, MarkInodeKeeps, InsertFileKeeps,
         AllocFileKeeps, FillFileKeeps
    <3> QED
      BY <2>4, <3>1, OpeningSeen DEF IInv
  <2>5. CASE OpenDone(p) \/ StatFile(p) \/ UnlinkDecide(p) \/ Remove(p) \/ Truncate(p)
               \/ TruncateCloses(p) \/ Delete(p) \/ FileClosed(p)
    <3>1. Base'
      BY <2>0, <2>5, OpenDoneKeeps, StatFileKeeps, UnlinkDecideKeeps, RemoveKeeps, DeletionKeeps,
         FileClosedKeeps
    <3> QED
      BY <2>5, <3>1, OpenedSeen DEF IInv
  <2>6. ASSUME NEW i \in Fds, Close(p, i) PROVE IInv'
    BY <2>0, <2>6, CloseKeeps, CloseSeen DEF IInv
  <2>7. CASE Exit(p) \/ \E i \in Fds : CloseUnopened(p, i)
    BY <2>7, ExitKeeps
  <2> QED
    BY <1>2, <2>1, <2>2, <2>3, <2>4, <2>5, <2>6, <2>7 DEF Call
<1>3. CASE Undefined \/ Over
  BY <1>1, <1>3 DEF Undefined, Over
<1> QED
  BY <1>1, <1>2, <1>3 DEF Next

(* However many processes open, look at, remove and close files, careless  *)
(* as they like, no entry of the gft loses its inode to another one:       *)
(* wherever their calls are switched, except between looking for an inode  *)
(* or slot and taking it.                                                  *)
THEOREM EntriesKeepInodes ==
    ASSUME Undisturbed PROVE Spec => [](TypeOK /\ EntriesOwnInodes)
<1>1. IInv => TypeOK /\ EntriesOwnInodes
  BY DEF IInv, Base, TableInv
<1>2. IInv /\ [Next]_vars => IInv'
  BY NextIInv
<1> QED
  BY <1>1, <1>2, InitIInv, PTL DEF Spec

(* The entries have an inode each, and the file that is about to be        *)
(* entered has another one: so they do not fill a table as large as that   *)
(* of the inodes.                                                          *)
LEMMA SlotsSuffice ==
    ASSUME NumInodes <= NumFiles, IInv
    PROVE  SlotForEveryInode
<1> SUFFICES ASSUME NEW p \in live, call[p].at \in {"insert", "slot"},
                    Named(call[p].path) = {}, FreeSlots = {}
             PROVE  FALSE
  BY DEF SlotForEveryInode
<1>1. /\ p \in Procs /\ Inserts(p) /\ call[p].inode \in Inodes
      /\ inodes[call[p].inode] = call[p].path
  BY DEF IInv, Base, TypeOK, CallInv, Inserts, Inserting
<1> DEFINE others == Inodes \ {call[p].inode}
           f == [s \in Slots |-> gft[s].inode]
<1>2. ASSUME NEW s \in Slots
      PROVE  Used(s) /\ gft[s].inode \in others
  <2>1. Used(s) /\ gft[s].name # call[p].path
    BY DEF FreeSlots, Named, Used
  <2> QED
    BY <1>1, <2>1 DEF IInv, Base, TableInv, EntriesOwnInodes
<1>3. f \in [Slots -> others]
  BY <1>2
<1>4. IsFiniteSet(Slots) /\ Cardinality(Slots) = NumFiles
      /\ IsFiniteSet(Inodes) /\ Cardinality(Inodes) = NumInodes
  BY Constants, FS_Interval DEF Slots, Inodes
<1>5. IsFiniteSet(others) /\ Cardinality(others) = NumInodes - 1
  BY <1>1, <1>4, FS_RemoveElement
<1>6. PICK s \in Slots, u \in Slots : s # u /\ f[s] = f[u]
  <2>1. Cardinality(others) < Cardinality(Slots)
    BY <1>4, <1>5, Constants
  <2> HIDE DEF f, others
  <2> QED
    BY <1>3, <1>4, <1>5, <2>1, FS_PigeonHole
<1> QED
  BY <1>2, <1>6 DEF IInv, Base, TableInv, EntriesOwnInodes

(* fs_open() never reads an inode it has no slot for, given that NUM_FILES *)
(* is no smaller than NUM_INODES, and wherever calls are switched except   *)
(* between looking and taking.                                             *)
THEOREM SlotsForInodes ==
    ASSUME Undisturbed, NumInodes <= NumFiles PROVE Spec => []SlotForEveryInode
<1>1. IInv => SlotForEveryInode
  BY SlotsSuffice
<1>2. IInv /\ [Next]_vars => IInv'
  BY NextIInv
<1> QED
  BY <1>1, <1>2, InitIInv, PTL DEF Spec
----------------------------------------------------------------------------
(* Descriptors are finitely many.                                          *)
LEMMA OpensFinite ==
    ASSUME IInv, NEW s
    PROVE  /\ IsFiniteSet(Opens(s)) /\ Cardinality(Opens(s)) \in Nat
           /\ Cardinality(Opens(s)) = 0 <=> Opens(s) = {}
<1>1. IsFiniteSet(live)
  BY FileTablesAssumption, FS_Subset DEF FileTablesAssumption, IInv, Base, TypeOK
<1>2. IsFiniteSet(Fds)
  BY Constants, FS_Interval DEF Fds
<1>3. IsFiniteSet(live \X Fds)
  BY <1>1, <1>2, FS_Product
<1>4. Opens(s) \subseteq live \X Fds
  BY DEF Opens
<1> QED
  BY <1>3, <1>4, FS_Subset, FS_CardinalityType, FS_EmptySet

(* A process in a call is alone, so that what it leaves behind is all.     *)
LEMMA ActsAlone ==
    ASSUME KeepsToTheRules, CarefulInv, NEW p \in Procs, NEW at, At(p, at)
    PROVE  /\ p \in live /\ call[p].at = at /\ ~wild
           /\ \A q \in Procs \ {p} : call[q].at = "idle" /\ ~Inserts(q)
           /\ \A s \in Slots : Used(s) /\ gft[s].count = 0 => at \in Having /\ call[p].fd = s
           /\ at \notin Inserting => ~Inserts(p)
  BY DEF KeepsToTheRules, At, CarefulInv, DescriptorInv, Inserts, Inserting, Having

(* What a call has seen holds if its own step keeps it: no other is in one.*)
LEMMA ProgressOfOne ==
    ASSUME KeepsToTheRules, CarefulInv, NEW p \in Procs, NEW at, At(p, at),
           \A q \in Procs \ {p} : call'[q] = call[q], Progress(p)'
    PROVE  ProgressInv'
<1>1. \A q \in Procs \ {p} : call'[q].at = "idle"
  BY ActsAlone
<1>2. \A q \in Procs \ {p} : Progress(q)'
  BY <1>1 DEF Progress, ProgressOf, Unentered, Inserting, Having
<1> QED
  BY <1>1, <1>2 DEF ProgressInv

(* A step of a call that touches no table: it does not let go of an entry  *)
(* or inode that it has.                                                   *)
LEMMA CallGoesOn ==
    ASSUME KeepsToTheRules, CarefulInv, UNCHANGED <<gft, inodes, pft, live>>,
           NEW p \in Procs, NEW at, At(p, at), NEW c, call' = [call EXCEPT ![p] = c],
           at \in Having => c.at \in Having /\ c.fd = call[p].fd,
           at \in Inserting =>
               call[p].inode = RootInode \/ (c.at \in Inserting /\ c.inode = call[p].inode),
           ProgressOf(p, c)
    PROVE  DescriptorInv' /\ InodeInv' /\ ProgressInv'
<1>0. /\ call'[p] = c /\ \A q \in Procs \ {p} : call'[q] = call[q]
      /\ call[p].at = at
  BY ActsAlone DEF CarefulInv, IInv, Base, TypeOK
<1>1. \A s : (Used(s)' <=> Used(s)) /\ Opens(s)' = Opens(s)
  BY DEF Used, Opens
<1>2. DescriptorInv'
  <2>1. ASSUME NEW s \in Slots, Used(s), gft[s].count = 0
        PROVE  call'[p].at \in Having /\ call'[p].fd = s
    BY <1>0, <2>1, ActsAlone
  <2> QED
    BY <1>1, <2>1 DEF CarefulInv, DescriptorInv, HandleKeepsFile
<1>3. InodeInv'
  <2> SUFFICES ASSUME NEW i \in Inodes \ {RootInode}, inodes[i] # Nil,
                      ~\E s \in Slots : Used(s) /\ gft[s].inode = i
               PROVE  Inserts(p)' /\ call'[p].inode = i
    BY <1>1 DEF InodeInv
  <2>1. PICK q \in Procs : Inserts(q) /\ call[q].inode = i
    BY DEF CarefulInv, InodeInv
  <2>2. q = p
    BY <2>1, ActsAlone
  <2> QED
    BY <1>0, <2>1, <2>2 DEF Inserts
<1>4. Progress(p)'
  <2>1. \A x : Named(x)' = Named(x) /\ (Used(x)' <=> Used(x))
    BY DEF Named, Used
  <2>2. FreeFds(p)' = FreeFds(p) /\ OpenPaths' = OpenPaths
    BY DEF FreeFds, OpenPaths
  <2>3. Named(call[p].path)' = Named(c.path) /\ (Used(call[p].fd)' <=> Used(c.fd))
    BY <1>0 DEF Named, Used
  <2> QED
    BY <1>0, <2>2, <2>3 DEF Progress, ProgressOf
<1> QED
  BY <1>0, <1>2, <1>3, <1>4, ProgressOfOne

(* What a process in a call has seen, and the record of its call.          *)
LEMMA InCall ==
    ASSUME KeepsToTheRules, CarefulInv, NEW p \in Procs, NEW at, At(p, at)
    PROVE  /\ p \in live /\ call[p].at = at /\ ProgressOf(p, call[p])
           /\ call \in [Procs -> CallRecords] /\ call[p] \in CallRecords
           /\ at \in Unentered => call[p].path # Root
  BY ActsAlone, CallStates DEF CarefulInv, ProgressInv, Progress, IInv, Base, CallInv

(* A call that returns, or goes on without its file.                       *)
LEMMA ReturnsCareful ==
    ASSUME KeepsToTheRules, CarefulInv, NEW p \in Procs, NEW at, At(p, at), Returns(p)
    PROVE  /\ ProgressInv'
           /\ \A q \in Procs : call'[q].at = "idle"
<1>1. call'[p].at = "idle" /\ \A q \in Procs \ {p} : call'[q] = call[q]
  BY DEF Returns, Idle, CarefulInv, IInv, Base, TypeOK
<1>2. Progress(p)'
  BY <1>1 DEF Progress, ProgressOf, Unentered, Inserting, Having
<1> QED
  BY <1>1, <1>2, ActsAlone, ProgressOfOne

(* A call that looks its file up has seen the tables as they are.          *)
LEMMA LookUpCareful ==
    ASSUME KeepsToTheRules, CarefulInv, UNCHANGED <<gft, inodes, pft, live>>,
           NEW p \in Procs, NEW at, At(p, at), at \notin Having \cup Inserting,
           NEW c \in CallRecords, call' = [call EXCEPT ![p] = LookedUp(c)],
           c.op \in {"open", "stat"} => FreeFds(p) # {},
           c.op \in {"unlink", "truncate"} => c.path \notin OpenPaths /\ c.pf = Nil
    PROVE  DescriptorInv' /\ InodeInv' /\ ProgressInv'
<1>1. p \in live
  BY ActsAlone
<1>2. LookedUp(c).at = "opened" =>
          Used(LookedUp(c).fd) /\ gft[LookedUp(c).fd].name = LookedUp(c).path
  BY LooksUp, Constants DEF Used, Named, CallRecords
<1>3. ProgressOf(p, LookedUp(c))
  BY <1>1, <1>2, LooksUp DEF ProgressOf, Unentered, Inserting, Having
<1> QED
  BY <1>3, CallGoesOn

(* A call that begins.                                                     *)
LEMMA BeginCareful ==
    ASSUME KeepsToTheRules, CarefulInv, NEW p \in Procs, NEW op \in {"open", "stat", "unlink"},
           NEW path \in Names, NEW creat \in BOOLEAN, Begin(p, op, path, creat),
           op \in {"open", "stat"} => FreeFds(p) # {},
           op = "unlink" => path \notin OpenPaths
    PROVE  DescriptorInv' /\ InodeInv' /\ ProgressInv'
<1> DEFINE c == [Idle EXCEPT !.op = op, !.path = path, !.creat = creat]
<1>1. /\ At(p, "idle") /\ call' = [call EXCEPT ![p] = LookedUp(c)]
      /\ UNCHANGED <<disk, gft, inodes, pft, live, ret, wild>>
  BY DEF Begin
<1>2. c \in CallRecords /\ c.op = op /\ c.path = path /\ c.pf = Nil
  BY Constants DEF CallRecords, Idle, Points
<1> HIDE DEF c
<1>3. "idle" \notin Having \cup Inserting
  BY DEF Having, Inserting
<1> QED
  BY <1>1, <1>2, <1>3, LookUpCareful

(* The file that was created, or not, is looked up again.                  *)
LEMMA CreateCareful ==
    ASSUME KeepsToTheRules, CarefulInv, NEW p \in Procs, Create(p)
    PROVE  DescriptorInv' /\ InodeInv' /\ ProgressInv'
<1> DEFINE c == [call[p] EXCEPT !.creat = FALSE]
<1>1. At(p, "create") /\ UNCHANGED <<gft, inodes, pft, live>>
  BY DEF Create
<1>2. ProgressOf(p, call[p]) /\ call[p].at = "create"
  BY <1>1, InCall
<1>3. call' = [call EXCEPT ![p] = LookedUp(c)]
  BY <1>1, InCall DEF Create
<1>4. c \in CallRecords /\ c.op = call[p].op /\ c.path = call[p].path /\ c.pf = call[p].pf
  BY <1>1, InCall DEF CallRecords
<1> HIDE DEF c
<1>5. "create" \notin Having \cup Inserting
  BY DEF Having, Inserting
<1> QED
  BY <1>1, <1>2, <1>3, <1>4, <1>5, LookUpCareful DEF ProgressOf

(* unlink looks its file up once more, unless it is gone.                  *)
LEMMA RemoveCareful ==
    ASSUME KeepsToTheRules, CarefulInv, NEW p \in Procs, Remove(p)
    PROVE  DescriptorInv' /\ InodeInv' /\ ProgressInv'
<1> DEFINE c == [call[p] EXCEPT !.op = "truncate"]
<1>1. At(p, "remove") /\ UNCHANGED <<gft, inodes, pft, live>>
  BY DEF Remove
<1>2. ProgressOf(p, call[p]) /\ call[p].at = "remove" /\ "remove" \notin Having \cup Inserting
  BY <1>1, InCall DEF Having, Inserting
<1>3. Returns(p) \/ call' = [call EXCEPT ![p] = LookedUp(c)]
  BY <1>1, InCall DEF Remove
<1>4. c \in CallRecords /\ c.op = "truncate" /\ c.path = call[p].path /\ c.pf = call[p].pf
  BY <1>1, InCall DEF CallRecords
<1> HIDE DEF c
<1>5. CASE Returns(p)
  <2>1. ProgressOf(p, Idle)
    BY DEF ProgressOf, Idle, Unentered, Inserting, Having
  <2> QED
    BY <1>1, <1>2, <1>5, <2>1, CallGoesOn DEF Returns
<1>6. CASE call' = [call EXCEPT ![p] = LookedUp(c)]
  BY <1>1, <1>2, <1>4, <1>6, LookUpCareful DEF ProgressOf
<1> QED
  BY <1>3, <1>5, <1>6

(* A file that is not found is created, or deleted, or the call returns.   *)
LEMMA MissedCareful ==
    ASSUME KeepsToTheRules, CarefulInv, UNCHANGED <<gft, inodes, pft, live>>,
           NEW p \in Procs, NEW at \in {"search", "alloc"}, At(p, at), Missed(p)
    PROVE  DescriptorInv' /\ InodeInv' /\ ProgressInv'
<1>1. /\ p \in live /\ call[p].at = at /\ ProgressOf(p, call[p]) /\ call[p] \in CallRecords
      /\ call[p].path # Root /\ call \in [Procs -> CallRecords]
  BY InCall DEF Unentered
<1>2. at \notin Having \cup Inserting
  BY DEF Having, Inserting
<1>3. CASE Returns(p)
  <2>1. ProgressOf(p, Idle)
    BY DEF ProgressOf, Idle, Unentered, Inserting, Having
  <2> QED
    BY <1>2, <1>3, <2>1, CallGoesOn DEF Returns
<1>4. ASSUME NEW to \in {"create", "delete"}, Goes(p, to)
      PROVE  DescriptorInv' /\ InodeInv' /\ ProgressInv'
  <2> DEFINE c == [call[p] EXCEPT !.at = to]
  <2>1. /\ call' = [call EXCEPT ![p] = c]
        /\ c.at = to /\ c.op = call[p].op /\ c.path = call[p].path /\ c.pf = call[p].pf
    BY <1>1, <1>4 DEF Goes, CallRecords
  <2> HIDE DEF c
  <2>2. ProgressOf(p, c)
    BY <1>1, <2>1 DEF ProgressOf, Unentered, Inserting, Having
  <2> QED
    BY <1>2, <2>1, <2>2, CallGoesOn
<1> QED
  BY <1>3, <1>4 DEF Missed

(* The search on the disk changes no table.                                *)
LEMMA SearchCareful ==
    ASSUME KeepsToTheRules, CarefulInv, NEW p \in Procs, Search(p)
    PROVE  DescriptorInv' /\ InodeInv' /\ ProgressInv'
<1>1. At(p, "search") /\ UNCHANGED <<gft, inodes, pft, live>> /\ (Missed(p) \/ Goes(p, "alloc"))
  BY DEF Search
<1>2. CASE Missed(p)
  BY <1>1, <1>2, MissedCareful
<1>3. CASE Goes(p, "alloc")
  <2> DEFINE c == [call[p] EXCEPT !.at = "alloc"]
  <2>1. /\ call' = [call EXCEPT ![p] = c]
        /\ c.at = "alloc" /\ c.op = call[p].op /\ c.path = call[p].path /\ c.pf = call[p].pf
    BY <1>1, <1>3, InCall DEF Goes, CallRecords
  <2> HIDE DEF c
  <2>2. ProgressOf(p, c) /\ "search" \notin Having \cup Inserting
    BY <1>1, <2>1, InCall DEF ProgressOf, Unentered, Inserting, Having
  <2> QED
    BY <1>1, <2>1, <2>2, CallGoesOn
<1> QED
  BY <1>1, <1>2, <1>3

(* alloc_inode() has found an inode, and does not take it yet.             *)
LEMMA AllocInodeCareful ==
    ASSUME KeepsToTheRules, CarefulInv, NEW p \in Procs, AllocInode(p)
    PROVE  DescriptorInv' /\ InodeInv' /\ ProgressInv'
<1>1. At(p, "alloc") /\ UNCHANGED <<gft, inodes, pft, live>>
  BY DEF AllocInode
<1>2. CASE FreeInodes = {}
  BY <1>1, <1>2, MissedCareful DEF AllocInode
<1>3. CASE FreeInodes # {}
  <2> DEFINE j == Lowest(FreeInodes)
             c == [call[p] EXCEPT !.at = "mark", !.inode = j]
  <2>1. /\ call' = [call EXCEPT ![p] = c]
        /\ c.at = "mark" /\ c.op = call[p].op /\ c.path = call[p].path /\ c.pf = call[p].pf
    BY <1>1, <1>3, InCall DEF AllocInode, CallRecords
  <2> HIDE DEF c
  <2>2. ProgressOf(p, c) /\ "alloc" \notin Having \cup Inserting
    BY <1>1, <2>1, InCall DEF ProgressOf, Unentered, Inserting, Having
  <2> QED
    BY <1>1, <2>1, <2>2, CallGoesOn
<1> QED
  BY <1>2, <1>3

(* The inode that is read belongs to the call until it is entered.         *)
LEMMA MarkInodeCareful ==
    ASSUME KeepsToTheRules, CarefulInv, NEW p \in Procs, MarkInode(p)
    PROVE  DescriptorInv' /\ InodeInv' /\ ProgressInv'
<1> DEFINE j == call[p].inode
           c == [call[p] EXCEPT !.at = "insert"]
<1>1. /\ At(p, "mark") /\ UNCHANGED <<gft, pft, live>>
      /\ inodes' = [inodes EXCEPT ![j] = call[p].path]
  BY DEF MarkInode
<1>2. /\ call[p].at = "mark" /\ call[p] \in CallRecords /\ ProgressOf(p, call[p])
      /\ call \in [Procs -> CallRecords]
  BY <1>1, InCall
<1>3. /\ call' = [call EXCEPT ![p] = c]
      /\ c.at = "insert" /\ c.op = call[p].op /\ c.path = call[p].path
      /\ c.inode = j /\ c.pf = call[p].pf
  BY <1>2 DEF MarkInode, Goes, CallRecords
<1>4. j \in Inodes
  BY <1>2 DEF CarefulInv, IInv, Seen
<1> HIDE DEF c, j
<1>5. call'[p] = c /\ \A q \in Procs \ {p} : call'[q] = call[q]
  BY <1>2, <1>3
<1>6. \A s : (Used(s)' <=> Used(s)) /\ Opens(s)' = Opens(s)
  BY <1>1 DEF Used, Opens
<1>7. DescriptorInv'
  <2>1. \A s \in Slots : Used(s) => gft[s].count # 0
    BY <1>1, ActsAlone DEF Having
  <2> QED
    BY <1>1, <1>6, <2>1 DEF CarefulInv, DescriptorInv, HandleKeepsFile
<1>8. InodeInv'
  <2>1. \A q \in Procs : ~Inserts(q)
    BY <1>1, ActsAlone DEF Inserting
  <2>2. ASSUME NEW i \in Inodes \ {RootInode}, inodes'[i] # Nil, i # j
        PROVE  \E s \in Slots : Used(s)' /\ gft'[s].inode = i
    <3>1. inodes[i] # Nil
      BY <1>1, <2>2 DEF CarefulInv, IInv, Base, TypeOK
    <3> QED
      BY <1>1, <1>6, <2>1, <3>1 DEF CarefulInv, InodeInv
  <2>3. Inserts(p)' /\ call'[p].inode = j
    BY <1>3, <1>5 DEF Inserts, Inserting
  <2> QED
    BY <2>2, <2>3 DEF InodeInv
<1>9. Progress(p)'
  <2>1. Named(call[p].path)' = Named(c.path)
    BY <1>1, <1>5 DEF Named
  <2>2. FreeFds(p)' = FreeFds(p) /\ OpenPaths' = OpenPaths
    BY <1>1 DEF FreeFds, OpenPaths
  <2> QED
    BY <1>1, <1>2, <1>3, <1>5, <2>1, <2>2 DEF Progress, ProgressOf, Unentered, Inserting, Having
<1> QED
  BY <1>1, <1>5, <1>7, <1>8, <1>9, ProgressOfOne

(* Only the root can be there already: with no other call under way, the   *)
(* file that was searched for has no entry yet.                            *)
LEMMA InsertFileCareful ==
    ASSUME KeepsToTheRules, CarefulInv, NEW p \in Procs, InsertFile(p)
    PROVE  DescriptorInv' /\ InodeInv' /\ ProgressInv'
<1> DEFINE k == Lowest(Named(call[p].path))
           c == [call[p] EXCEPT !.at = "opened", !.fd = k, !.inode = Nil]
           d == [call[p] EXCEPT !.at = "slot"]
<1>1. At(p, "insert") /\ UNCHANGED <<gft, inodes, pft, live>>
  BY DEF InsertFile
<1>2. /\ call[p].at = "insert" /\ call[p] \in CallRecords /\ ProgressOf(p, call[p])
      /\ call \in [Procs -> CallRecords]
      /\ call[p].path \in Names /\ call[p].path # Nil
  BY <1>1, InCall, Constants DEF CallRecords
<1>3. CASE Named(call[p].path) # {}
  <2>1. /\ call' = [call EXCEPT ![p] = c]
        /\ c.at = "opened" /\ c.op = call[p].op /\ c.path = call[p].path
        /\ c.fd = k /\ c.pf = call[p].pf
    BY <1>2, <1>3 DEF InsertFile, CallRecords
  <2>2. k \in Slots /\ gft[k].name = call[p].path
    BY <1>3, Searches DEF Named
  <2> HIDE DEF c, k
  <2>3. call[p].inode = RootInode
    BY <1>2, <1>3 DEF ProgressOf, Inserting, CarefulInv, IInv, Base, CallInv, Inserts
  <2>4. ProgressOf(p, c)
    BY <1>2, <2>1, <2>2 DEF ProgressOf, Used, Unentered, Inserting, Having
  <2>5. "insert" \notin Having
    BY DEF Having
  <2> QED
    BY <1>1, <2>1, <2>3, <2>4, <2>5, CallGoesOn
<1>4. CASE Named(call[p].path) = {}
  <2>1. /\ call' = [call EXCEPT ![p] = d]
        /\ d.at = "slot" /\ d.op = call[p].op /\ d.path = call[p].path
        /\ d.inode = call[p].inode /\ d.pf = call[p].pf
    BY <1>2, <1>4 DEF InsertFile, Goes, CallRecords
  <2> HIDE DEF d
  <2>2. ProgressOf(p, d) /\ d.at \in Inserting /\ "insert" \notin Having
    BY <1>2, <2>1 DEF ProgressOf, Unentered, Inserting, Having
  <2> QED
    BY <1>1, <2>1, <2>2, CallGoesOn
<1> QED
  BY <1>3, <1>4

(* There is a slot for it.                                                 *)
LEMMA AllocFileCareful ==
    ASSUME KeepsToTheRules, CarefulInv, NEW p \in Procs, AllocFile(p)
    PROVE  DescriptorInv' /\ InodeInv' /\ ProgressInv' /\ ret' = ret
<1> DEFINE c == [call[p] EXCEPT !.at = "fill", !.fd = Lowest(FreeSlots)]
<1>1. At(p, "slot") /\ UNCHANGED <<gft, inodes, pft, live>>
  BY DEF AllocFile
<1>2. /\ call[p].at = "slot" /\ call[p] \in CallRecords /\ ProgressOf(p, call[p])
      /\ p \in live /\ call \in [Procs -> CallRecords]
  BY <1>1, InCall
<1>3. FreeSlots # {}
  BY <1>2, SlotsSuffice DEF KeepsToTheRules, CarefulInv, SlotForEveryInode, IInv, Seen
<1>4. /\ call' = [call EXCEPT ![p] = c] /\ ret' = ret
      /\ c.at = "fill" /\ c.op = call[p].op /\ c.path = call[p].path
      /\ c.inode = call[p].inode /\ c.pf = call[p].pf
  BY <1>2, <1>3 DEF AllocFile, CallRecords
<1> HIDE DEF c
<1>5. ProgressOf(p, c) /\ c.at \in Inserting /\ "slot" \notin Having
  BY <1>2, <1>4 DEF ProgressOf, Unentered, Inserting, Having
<1> QED
  BY <1>1, <1>4, <1>5, CallGoesOn

(* The new entry takes over the inode of the call, and has no descriptor.  *)
LEMMA FillFileCareful ==
    ASSUME KeepsToTheRules, CarefulInv, NEW p \in Procs, FillFile(p)
    PROVE  DescriptorInv' /\ InodeInv' /\ ProgressInv'
<1> DEFINE path == call[p].path
           k == call[p].fd
           e == [name |-> path, inode |-> call[p].inode, count |-> 0]
           c == [call[p] EXCEPT !.at = "opened", !.inode = Nil]
<1>1. At(p, "fill") /\ UNCHANGED <<inodes, pft, live>> /\ gft' = [gft EXCEPT ![k] = e]
  BY DEF FillFile
<1>2. /\ p \in live /\ call[p].at = "fill" /\ ProgressOf(p, call[p])
      /\ call \in [Procs -> CallRecords] /\ call[p] \in CallRecords
      /\ \A q \in Procs \ {p} : ~Inserts(q)
      /\ \A s \in Slots : Used(s) => gft[s].count # 0
  BY <1>1, ActsAlone, InCall DEF Having
<1>3. k \in Slots /\ ~Used(k) /\ path \in Names /\ path # Nil
  BY <1>2, Constants DEF CarefulInv, IInv, Base, CallInv, Seen, CallRecords
<1>4. /\ call' = [call EXCEPT ![p] = c]
      /\ c.at = "opened" /\ c.path = path /\ c.op = call[p].op /\ c.fd = k /\ c.pf = call[p].pf
  BY <1>2 DEF FillFile, CallRecords
<1> HIDE DEF c
<1>5. call'[p] = c /\ \A q \in Procs \ {p} : call'[q] = call[q]
  BY <1>2, <1>4
<1>6. e.name = path /\ e.inode = call[p].inode /\ e.count = 0
  OBVIOUS
<1> HIDE DEF e
<1>7. gft'[k] = e /\ \A s \in Slots \ {k} : gft'[s] = gft[s] /\ (Used(s)' <=> Used(s))
  BY <1>1, <1>3 DEF CarefulInv, IInv, Base, TypeOK, Used
<1>8. \A s : Opens(s)' = Opens(s)
  BY <1>1 DEF Opens
<1>9. Opens(k) = {} /\ \A q \in live, i \in Fds : pft[q][i].f # k
  <2>1. ASSUME NEW q \in live, NEW i \in Fds, pft[q][i].f = k PROVE FALSE
    BY <1>3, <2>1, Constants DEF CarefulInv, DescriptorInv
  <2> QED
    BY <2>1 DEF Opens
<1>10. DescriptorInv'
  <2>1. ASSUME NEW q \in live', NEW i \in Fds, pft'[q][i].f # Nil
        PROVE  Used(pft[q][i].f)' /\ gft'[pft'[q][i].f].name = pft'[q][i].path
    <3>1. /\ pft[q][i].f # Nil /\ pft[q][i].f # k /\ Used(pft[q][i].f)
          /\ gft[pft[q][i].f].name = pft[q][i].path
      BY <1>1, <1>9, <2>1 DEF CarefulInv, DescriptorInv, HandleKeepsFile
    <3>2. pft[q][i].f \in Slots \ {k} /\ pft' = pft
      BY <1>1, <3>1 DEF Used
    <3> QED
      BY <1>7, <3>1, <3>2 DEF Used
  <2>2. ASSUME NEW s \in Slots, Used(s)'
        PROVE  /\ gft'[s].count = Cardinality(Opens(s)')
               /\ gft'[s].count = 0 => call'[p].at \in Having /\ call'[p].fd = s
    <3>1. CASE s = k
      BY <1>4, <1>5, <1>6, <1>7, <1>8, <1>9, <3>1, FS_EmptySet DEF Having
    <3>2. CASE s # k
      BY <1>2, <1>7, <1>8, <2>2, <3>2 DEF CarefulInv, DescriptorInv
    <3> QED
      BY <3>1, <3>2
  <2> QED
    BY <1>1, <2>1, <2>2 DEF DescriptorInv, HandleKeepsFile
<1>11. InodeInv'
  <2>1. ASSUME NEW i \in Inodes \ {RootInode}, inodes'[i] # Nil
        PROVE  \E s \in Slots : Used(s)' /\ gft'[s].inode = i
    <3>1. CASE i = call[p].inode
      BY <1>3, <1>6, <1>7, <3>1 DEF Used
    <3>2. CASE i # call[p].inode
      <4>1. PICK s \in Slots : Used(s) /\ gft[s].inode = i
        BY <1>1, <1>2, <2>1, <3>2 DEF CarefulInv, InodeInv
      <4> QED
        BY <1>3, <1>7, <4>1
    <3> QED
      BY <3>1, <3>2
  <2> QED
    BY <2>1 DEF InodeInv
<1>12. Progress(p)'
  <2>1. FreeFds(p)' = FreeFds(p) /\ OpenPaths' = OpenPaths
    BY <1>1 DEF FreeFds, OpenPaths
  <2>2. Used(call[p].fd)' /\ gft'[call'[p].fd].name = call'[p].path
    BY <1>3, <1>4, <1>5, <1>6, <1>7 DEF Used
  <2> QED
    BY <1>1, <1>2, <1>4, <1>5, <2>1, <2>2 DEF Progress, ProgressOf, Unentered, Inserting, Having
<1> QED
  BY <1>1, <1>5, <1>10, <1>11, <1>12, ProgressOfOne
----------------------------------------------------------------------------
(* free_file() for a file that is counted right: it goes when, and only    *)
(* when, the last descriptor does.                                         *)
LEMMA FreeFileCareful ==
    ASSUME CarefulInv, NEW s \in Slots, Used(s), FreeFile(s), live' = live,
           \A u \in Slots \ {s} : Used(u) => gft[u].count # 0,
           \A u \in Slots \ {s} : Opens(u)' = Opens(u),
           Cardinality(Opens(s)') = CountAfterClose(gft[s].count),
           Cardinality(Opens(s)') = 0 => Opens(s)' = {},
           \A p \in live, i \in Fds : pft'[p][i] = pft[p][i] \/ pft'[p][i].f = Nil,
           \A p \in Procs : ~Inserts(p)
    PROVE  /\ DescriptorInv' /\ InodeInv'
           /\ \A path : gft[s].count \in {0, 1} /\ gft[s].name = path => Named(path)' = {}
<1> DEFINE n == CountAfterClose(gft[s].count)
<1>1. /\ gft' = [gft EXCEPT ![s] = IF n = 0 THEN Unused ELSE [@ EXCEPT !.count = n]]
      /\ inodes' = IF n = 0 THEN InodesAfterFree(gft[s].inode) ELSE inodes
  BY DEF FreeFile
<1>2. gft \in [Slots -> Entries] /\ gft[s] \in Entries /\ n \in Nat
  BY DEF CarefulInv, IInv, Base, TypeOK, Entries, CountAfterClose
<1>3. /\ \A u \in Slots \ {s} : gft'[u] = gft[u] /\ (Used(u)' <=> Used(u))
      /\ n = 0 => ~Used(s)' /\ gft'[s].name = Nil
      /\ n # 0 => gft'[s].name = gft[s].name /\ gft'[s].inode = gft[s].inode
                  /\ gft'[s].count = n /\ Used(s)'
  BY <1>1, <1>2 DEF Used, Unused, Entries
<1>4. DescriptorInv'
  <2>1. ASSUME NEW p \in live', NEW i \in Fds, pft'[p][i].f # Nil
        PROVE  Used(pft[p][i].f)' /\ gft'[pft'[p][i].f].name = pft'[p][i].path
    <3>1. /\ pft'[p][i] = pft[p][i] /\ Used(pft[p][i].f) /\ p \in live
          /\ gft[pft[p][i].f].name = pft[p][i].path
      BY <2>1 DEF CarefulInv, DescriptorInv, HandleKeepsFile
    <3>2. pft[p][i].f = s => n # 0
      <4>1. pft[p][i].f = s => <<p, i>> \in Opens(s)'
        BY <3>1 DEF Opens
      <4> QED
        BY <4>1
    <3>3. pft[p][i].f \in Slots
      BY <3>1 DEF Used
    <3> QED
      BY <1>3, <3>1, <3>2, <3>3 DEF Used
  <2>2. ASSUME NEW u \in Slots, Used(u)'
        PROVE  gft'[u].count = Cardinality(Opens(u)') /\ gft'[u].count # 0
    <3>1. CASE u = s
      BY <1>3, <2>2, <3>1
    <3>2. CASE u # s
      BY <1>3, <2>2, <3>2 DEF CarefulInv, DescriptorInv
    <3> QED
      BY <3>1, <3>2
  <2> QED
    BY <2>1, <2>2 DEF DescriptorInv, HandleKeepsFile
<1>5. InodeInv'
  <2>1. ASSUME NEW i \in Inodes \ {RootInode}, inodes'[i] # Nil
        PROVE  \E u \in Slots : Used(u)' /\ gft'[u].inode = i
    <3>1. inodes \in [Inodes -> Names \cup {Nil}]
      BY DEF CarefulInv, IInv, Base, TypeOK
    <3>2. inodes[i] # Nil /\ (n = 0 => i # gft[s].inode)
      BY <1>1, <2>1, <3>1 DEF InodesAfterFree
    <3>3. PICK u \in Slots : Used(u) /\ gft[u].inode = i
      BY <3>2 DEF CarefulInv, InodeInv
    <3> QED
      BY <1>3, <3>2, <3>3
  <2> QED
    BY <2>1 DEF InodeInv
<1>6. \A path : gft[s].count \in {0, 1} /\ gft[s].name = path => Named(path)' = {}
  <2> SUFFICES ASSUME gft[s].count \in {0, 1}, NEW u \in Slots, gft'[u].name = gft[s].name
               PROVE  FALSE
    BY DEF Named
  <2>1. gft[s].name # Nil /\ n = 0 /\ u # s
    BY <1>3 DEF Used, CountAfterClose
  <2> QED
    BY <1>3, <2>1 DEF CarefulInv, IInv, Base, TableInv
<1> QED
  BY <1>4, <1>5, <1>6

(* insert_proc_file() for a process that has a descriptor left: it is new,  *)
(* and it is counted.                                                      *)
LEMMA InsertProcFileCareful ==
    ASSUME KeepsToTheRules, CarefulInv, NEW p \in Procs, At(p, "opened"),
           call[p].op \in {"open", "stat"}, InsertProcFile(p), UNCHANGED <<inodes, live>>
    PROVE  /\ InsertedAt(p) \in Fds /\ pft'[p][InsertedAt(p)].f = call[p].fd
           /\ Used(call[p].fd) /\ call[p].fd \in Slots
           /\ \A u \in Slots : gft'[u].name = gft[u].name /\ (Used(u)' <=> Used(u))
           /\ DescriptorInv' /\ InodeInv'
<1> DEFINE s == call[p].fd
           i == InsertedAt(p)
           e == [f |-> s, path |-> call[p].path]
<1>3. /\ p \in live /\ call[p].at = "opened"
      /\ \A q \in Procs : ~Inserts(q)
      /\ \A u \in Slots \ {s} : Used(u) => gft[u].count # 0
      /\ Used(s) /\ gft[s].name = call[p].path /\ FreeFds(p) # {} /\ s \in Slots
  BY ActsAlone, InCall DEF ProgressOf, Used, Having, Inserting
<1>4. i \in Fds /\ pft[p][i].f = Nil
  BY <1>3, Searches DEF InsertedAt, FreeFds
<1>5. /\ pft' = [pft EXCEPT ![p][i] = e]
      /\ gft' = [gft EXCEPT ![s].count = CountAfterOpen(@)]
  BY <1>3 DEF InsertProcFile
<1> HIDE DEF i
<1>6. gft \in [Slots -> Entries] /\ pft \in [Procs -> [Fds -> Descriptors]]
      /\ call[p].path \in Names
  BY InCall DEF CarefulInv, IInv, Base, TypeOK, CallRecords
<1>7. /\ gft'[s].count = gft[s].count + 1 /\ gft[s].count \in Nat
      /\ \A u \in Slots : gft'[u].name = gft[u].name /\ gft'[u].inode = gft[u].inode
      /\ \A u \in Slots \ {s} : gft'[u].count = gft[u].count
  BY <1>3, <1>5, <1>6 DEF Entries, CountAfterOpen
<1>8. \A u \in Slots : Used(u)' <=> Used(u)
  BY <1>7 DEF Used
<1>9. /\ pft'[p][i] = e /\ e.f = s /\ e.path = call[p].path
      /\ \A q \in live, j \in Fds : <<q, j>> # <<p, i>> => pft'[q][j] = pft[q][j]
  BY <1>3, <1>4, <1>5, <1>6 DEF CarefulInv, IInv, Base, TypeOK
<1> HIDE DEF e
<1>10. \A u \in Slots :
         /\ Opens(u)' = IF u = s THEN Opens(u) \cup {<<p, i>>} ELSE Opens(u)
         /\ <<p, i>> \notin Opens(u)
  <2>1. ASSUME NEW d \in live \X Fds
        PROVE  pft'[d[1]][d[2]].f = IF d = <<p, i>> THEN s ELSE pft[d[1]][d[2]].f
    BY <1>9
  <2>2. pft[p][i].f \notin Slots
    BY <1>4, Constants
  <2> QED
    BY <1>3, <1>4, <2>1, <2>2 DEF Opens
<1>11. DescriptorInv'
  <2>1. ASSUME NEW q \in live', NEW j \in Fds, pft'[q][j].f # Nil
        PROVE  /\ pft'[q][j].f \in Slots /\ Used(pft[q][j].f)'
               /\ gft'[pft'[q][j].f].name = pft'[q][j].path
    <3>1. CASE <<q, j>> = <<p, i>>
      BY <1>3, <1>6, <1>7, <1>9, <3>1, Constants DEF Used
    <3>2. CASE <<q, j>> # <<p, i>>
      <4>1. /\ pft'[q][j] = pft[q][j] /\ Used(pft[q][j].f)
            /\ gft[pft[q][j].f].name = pft[q][j].path
        BY <1>9, <2>1, <3>2 DEF CarefulInv, DescriptorInv, HandleKeepsFile
      <4> QED
        BY <1>7, <4>1 DEF Used
    <3> QED
      BY <3>1, <3>2
  <2>2. ASSUME NEW u \in Slots, Used(u)'
        PROVE  gft'[u].count = Cardinality(Opens(u)') /\ gft'[u].count # 0
    <3>1. CASE u = s
      <4>1. Cardinality(Opens(s) \cup {<<p, i>>}) = Cardinality(Opens(s)) + 1
        BY <1>3, <1>10, OpensFinite, FS_AddElement DEF CarefulInv
      <4>2. gft[s].count = Cardinality(Opens(s)) /\ Opens(u)' = Opens(s) \cup {<<p, i>>}
        BY <1>3, <1>10, <3>1 DEF CarefulInv, DescriptorInv
      <4> QED
        BY <1>7, <3>1, <4>1, <4>2
    <3>2. CASE u # s
      BY <1>3, <1>7, <1>8, <1>10, <2>2, <3>2 DEF CarefulInv, DescriptorInv
    <3> QED
      BY <3>1, <3>2
  <2> QED
    BY <2>1, <2>2 DEF DescriptorInv, HandleKeepsFile
<1>12. InodeInv'
  <2>1. ASSUME NEW j \in Inodes \ {RootInode}, inodes'[j] # Nil
        PROVE  \E u \in Slots : Used(u)' /\ gft'[u].inode = j
    BY <1>3, <1>7, <1>8, <2>1 DEF CarefulInv, InodeInv
  <2> QED
    BY <2>1 DEF InodeInv
<1> QED
  BY <1>3, <1>4, <1>7, <1>8, <1>9, <1>11, <1>12 DEF i

(* What _open() returns is the descriptor.                                 *)
LEMMA OpenDoneCareful ==
    ASSUME KeepsToTheRules, CarefulInv, NEW p \in Procs, OpenDone(p)
    PROVE  DescriptorInv' /\ InodeInv' /\ ProgressInv' /\ HandleReturned
<1>1. /\ At(p, "opened") /\ call[p].op = "open" /\ Returns(p) /\ InsertProcFile(p)
      /\ UNCHANGED <<disk, inodes, live>> /\ ret' = [ret EXCEPT ![p] = Handle(InsertedAt(p))]
  BY DEF OpenDone
<1>2. ProgressInv'
  BY <1>1, ReturnsCareful
<1>3. /\ DescriptorInv' /\ InodeInv'
      /\ InsertedAt(p) \in Fds /\ pft'[p][InsertedAt(p)].f = call[p].fd /\ call[p].fd \in Slots
  BY <1>1, InsertProcFileCareful
<1>4. /\ ret'[p] = Handle(InsertedAt(p))
      /\ \A q \in Procs \ {p} : ret'[q] = ret[q]
  BY <1>1 DEF CarefulInv, IInv, Base, TypeOK
<1>5. ret'[p] - MAX_DEVICES = InsertedAt(p)
  BY <1>3, <1>4, Constants DEF Handle, MAX_DEVICES, Fds
<1> QED
  BY <1>2, <1>3, <1>4, <1>5, Constants DEF HandleReturned

(* stat enters the file, too, and will close it again.                     *)
LEMMA StatFileCareful ==
    ASSUME KeepsToTheRules, CarefulInv, NEW p \in Procs, StatFile(p)
    PROVE  DescriptorInv' /\ InodeInv' /\ ProgressInv'
<1> DEFINE i == InsertedAt(p)
           c == [call[p] EXCEPT !.at = "closing", !.pf = i]
<1>1. /\ At(p, "opened") /\ call[p].op = "stat" /\ InsertProcFile(p)
      /\ UNCHANGED <<disk, inodes, live>>
  BY DEF StatFile
<1>2. /\ DescriptorInv' /\ InodeInv'
      /\ i \in Fds /\ pft'[p][i].f = call[p].fd
      /\ Used(call[p].fd) /\ call[p].fd \in Slots
      /\ \A u \in Slots : gft'[u].name = gft[u].name /\ (Used(u)' <=> Used(u))
  BY <1>1, InsertProcFileCareful
<1>3. /\ call[p].at = "opened" /\ ProgressOf(p, call[p]) /\ p \in live
      /\ call \in [Procs -> CallRecords] /\ call[p] \in CallRecords
  BY <1>1, InCall
<1>4. /\ call' = [call EXCEPT ![p] = c]
      /\ c.at = "closing" /\ c.op = "stat" /\ c.path = call[p].path /\ c.fd = call[p].fd
      /\ c.pf = i
  BY <1>1, <1>3 DEF StatFile, CallRecords
<1> HIDE DEF c, i
<1>5. call'[p] = c /\ \A q \in Procs \ {p} : call'[q] = call[q]
  BY <1>3, <1>4
<1>6. Progress(p)'
  <2>2. c.fd = call[p].fd /\ call'[p].fd = call[p].fd /\ c.path = call[p].path
    BY <1>4, <1>5
  <2>3. gft[call[p].fd].name = call[p].path
    BY <1>1, <1>3 DEF ProgressOf, Having
  <2>1. Used(call[p].fd)' /\ gft'[c.fd].name = c.path
    BY <1>2, <2>2, <2>3 DEF Used
  <2> QED
    BY <1>1, <1>2, <1>3, <1>4, <1>5, <2>1 DEF Progress, ProgressOf, Unentered, Inserting, Having
<1> QED
  BY <1>1, <1>2, <1>5, <1>6, ProgressOfOne
----------------------------------------------------------------------------
(* A file that nobody has open is counted by nobody.                       *)
LEMMA NotOpen ==
    ASSUME KeepsToTheRules, CarefulInv, NEW p \in Procs, NEW at \in Having, At(p, at),
           call[p].op \in {"unlink", "truncate"}
    PROVE  /\ Used(call[p].fd) /\ call[p].fd \in Slots /\ gft[call[p].fd].name = call[p].path
           /\ Opens(call[p].fd) = {} /\ gft[call[p].fd].count = 0
<1> DEFINE s == call[p].fd
<1>1. /\ Used(s) /\ s \in Slots /\ gft[s].name = call[p].path
      /\ call[p].path \notin OpenPaths /\ call[p].path # Nil
  BY InCall DEF ProgressOf, Used, Having
<1>2. ASSUME NEW d \in Opens(s) PROVE FALSE
  <2>1. d[1] \in live /\ d[2] \in Fds /\ pft[d[1]][d[2]].f = s
    BY DEF Opens
  <2>2. pft[d[1]][d[2]].f # Nil
    BY <1>1, <2>1, Constants
  <2>3. gft[pft[d[1]][d[2]].f].name = pft[d[1]][d[2]].path
    BY <2>1, <2>2 DEF CarefulInv, DescriptorInv, HandleKeepsFile
  <2>4. pft[d[1]][d[2]].path = call[p].path
    BY <1>1, <2>1, <2>3
  <2> QED
    BY <1>1, <2>1, <2>4 DEF OpenPaths
<1>3. Opens(s) = {}
  BY <1>2
<1>4. gft[s].count = Cardinality(Opens(s))
  BY <1>1 DEF CarefulInv, DescriptorInv
<1> QED
  BY <1>1, <1>3, <1>4, FS_EmptySet

(* unlink finds its file open by nobody.                                   *)
LEMMA UnlinkDecideCareful ==
    ASSUME KeepsToTheRules, CarefulInv, NEW p \in Procs, UnlinkDecide(p)
    PROVE  DescriptorInv' /\ InodeInv' /\ ProgressInv'
<1> DEFINE c == [call[p] EXCEPT !.at = "closing", !.op = "unlink"]
<1>1. At(p, "opened") /\ call[p].op = "unlink" /\ UNCHANGED <<gft, inodes, pft, live>>
  BY DEF UnlinkDecide
<1>2. Used(call[p].fd) /\ gft[call[p].fd].count = 0 /\ "opened" \in Having
  BY <1>1, NotOpen DEF Having
<1>3. /\ call[p].at = "opened" /\ call[p] \in CallRecords /\ ProgressOf(p, call[p])
      /\ call \in [Procs -> CallRecords]
  BY <1>1, InCall
<1>4. call' = [call EXCEPT ![p].at = "closing", ![p].op = "unlink"]
  BY <1>2 DEF UnlinkDecide
<1>5. /\ call' = [call EXCEPT ![p] = c]
      /\ c.at = "closing" /\ c.op = "unlink" /\ c.path = call[p].path /\ c.fd = call[p].fd
      /\ c.pf = call[p].pf
  BY <1>3, <1>4 DEF CallRecords
<1> HIDE DEF c
<1>6. ProgressOf(p, c) /\ c.at \in Having /\ "opened" \notin Inserting
  BY <1>1, <1>3, <1>5 DEF ProgressOf, Unentered, Inserting, Having
<1> QED
  BY <1>1, <1>5, <1>6, CallGoesOn

(* The steps of fs_truncate(), which has the file.                         *)
LEMMA TruncationCareful ==
    ASSUME KeepsToTheRules, CarefulInv, NEW p \in Procs, Truncate(p) \/ TruncateCloses(p)
    PROVE  DescriptorInv' /\ InodeInv' /\ ProgressInv'
<1>1. ASSUME NEW at \in Having, NEW to \in {"shrink", "closing"}, At(p, at), Goes(p, to),
             UNCHANGED <<gft, inodes, pft, live>>, call[p].op = "truncate"
      PROVE  DescriptorInv' /\ InodeInv' /\ ProgressInv'
  <2> DEFINE c == [call[p] EXCEPT !.at = to]
  <2>1. /\ call[p].at = at /\ call[p] \in CallRecords /\ ProgressOf(p, call[p])
        /\ call \in [Procs -> CallRecords]
    BY <1>1, InCall
  <2>2. /\ call' = [call EXCEPT ![p] = c]
        /\ c.at = to /\ c.op = "truncate" /\ c.path = call[p].path /\ c.fd = call[p].fd
        /\ c.pf = call[p].pf
    BY <1>1, <2>1 DEF Goes, CallRecords
  <2> HIDE DEF c
  <2>3. ProgressOf(p, c) /\ c.at \in Having /\ at \notin Inserting
    BY <1>1, <2>1, <2>2 DEF ProgressOf, Unentered, Inserting, Having
  <2> QED
    BY <1>1, <2>2, <2>3, CallGoesOn
<1>2. CASE Truncate(p)
  BY <1>1, <1>2 DEF Truncate, Having
<1>3. CASE TruncateCloses(p)
  <2>1. At(p, "shrink") /\ "shrink" \in Having /\ UNCHANGED <<gft, inodes, pft, live>>
    BY <1>3 DEF TruncateCloses, Having
  <2>2. Used(call[p].fd) /\ call[p].op = "truncate"
    BY <2>1, InCall DEF ProgressOf, Having
  <2> QED
    BY <1>1, <1>3, <2>1, <2>2 DEF TruncateCloses
<1> QED
  BY <1>2, <1>3

(* The name is removed from the directory.                                 *)
LEMMA DeleteCareful ==
    ASSUME KeepsToTheRules, CarefulInv, NEW p \in Procs, Delete(p)
    PROVE  DescriptorInv' /\ InodeInv' /\ ProgressInv'
<1>1. At(p, "delete") /\ Returns(p) /\ UNCHANGED <<gft, inodes, pft, live>>
  BY DEF Delete
<1>2. ProgressOf(p, Idle) /\ "delete" \notin Having \cup Inserting
  BY DEF ProgressOf, Idle, Unentered, Inserting, Having
<1> QED
  BY <1>1, <1>2, CallGoesOn DEF Returns

(* A descriptor that is in use denotes an entry.                           *)
LEMMA CloseCareful ==
    ASSUME KeepsToTheRules, CarefulInv, NEW p \in Procs, NEW i \in Fds, Close(p, i)
    PROVE  DescriptorInv' /\ InodeInv' /\ ProgressInv'
<1> DEFINE c == [Idle EXCEPT !.op = "close", !.at = "closing", !.fd = pft[p][i].f, !.pf = i]
<1>1. At(p, "idle") /\ pft[p][i].f # Nil /\ UNCHANGED <<gft, inodes, pft, live>>
  BY DEF Close
<1>2. p \in live /\ Used(pft[p][i].f)
  BY <1>1, ActsAlone DEF CarefulInv, DescriptorInv
<1>3. /\ call' = [call EXCEPT ![p] = c]
      /\ c.at = "closing" /\ c.op = "close" /\ c.fd = pft[p][i].f /\ c.pf = i
  BY <1>2 DEF Close, Idle
<1> HIDE DEF c
<1>4. ProgressOf(p, c) /\ "idle" \notin Having \cup Inserting
  BY <1>2, <1>3 DEF ProgressOf, Unentered, Inserting, Having
<1> QED
  BY <1>1, <1>3, <1>4, CallGoesOn

(* The file that unlink looked at, or truncated, goes again.               *)
LEMMA UnreferencedGoes ==
    ASSUME KeepsToTheRules, CarefulInv, NEW p \in Procs, At(p, "closing"),
           call[p].op \in {"unlink", "truncate"}, UNCHANGED <<pft, live>>,
           FreeFile(call[p].fd)
    PROVE  DescriptorInv' /\ InodeInv' /\ \A path : path = call[p].path => Named(path)' = {}
<1>1. /\ Used(call[p].fd) /\ call[p].fd \in Slots /\ gft[call[p].fd].name = call[p].path
      /\ Opens(call[p].fd) = {} /\ gft[call[p].fd].count = 0
      /\ \A q \in Procs : ~Inserts(q)
      /\ \A u \in Slots \ {call[p].fd} : Used(u) => gft[u].count # 0
  BY NotOpen, ActsAlone DEF Having, Inserting
<1>2. \A s : Opens(s)' = Opens(s)
  BY DEF Opens
<1>3. ASSUME NEW s \in Slots, s = call[p].fd
      PROVE  /\ DescriptorInv' /\ InodeInv'
             /\ \A path : gft[s].name = path => Named(path)' = {}
  <2>1. Cardinality(Opens(s)') = CountAfterClose(gft[s].count) /\ Opens(s)' = {}
    BY <1>1, <1>2, <1>3, FS_EmptySet DEF CountAfterClose
  <2>2. Used(s) /\ FreeFile(s)
    BY <1>1, <1>3
  <2> QED
    BY <1>1, <1>2, <1>3, <2>1, <2>2, FreeFileCareful
<1> QED
  BY <1>1, <1>3 DEF Named

(* close, and stat, take one descriptor away and count one less.           *)
LEMMA DescriptorGoes ==
    ASSUME KeepsToTheRules, CarefulInv, NEW p \in Procs, At(p, "closing"),
           call[p].op \in {"close", "stat"}, FreeFile(call[p].fd), UNCHANGED live,
           pft' = [pft EXCEPT ![p][call[p].pf] = Closed]
    PROVE  DescriptorInv' /\ InodeInv'
<1> DEFINE i == call[p].pf
<1>1. /\ p \in live /\ i \in Fds /\ pft[p][i].f = call[p].fd
      /\ Used(call[p].fd) /\ call[p].fd \in Slots
      /\ \A u \in Slots \ {call[p].fd} : Used(u) => gft[u].count # 0
      /\ \A q \in Procs : ~Inserts(q)
  BY ActsAlone, InCall DEF ProgressOf, Used, Having, Inserting
<1>2. /\ pft'[p][i].f = Nil
      /\ \A q \in live, j \in Fds : <<q, j>> # <<p, i>> => pft'[q][j] = pft[q][j]
  BY <1>1 DEF CarefulInv, IInv, Base, TypeOK, Closed
<1>3. ASSUME NEW u \in Slots
      PROVE  Opens(u)' = IF u = pft[p][i].f THEN Opens(u) \ {<<p, i>>} ELSE Opens(u)
  <2>1. ASSUME NEW d \in live \X Fds
        PROVE  pft'[d[1]][d[2]].f = IF d = <<p, i>> THEN Nil ELSE pft[d[1]][d[2]].f
    BY <1>2
  <2> QED
    BY <1>1, <2>1, Constants DEF Opens
<1>4. ASSUME NEW s \in Slots, s = pft[p][i].f
      PROVE  DescriptorInv' /\ InodeInv'
  <2>1. <<p, i>> \in Opens(s)
    BY <1>1, <1>4 DEF Opens
  <2>2. IsFiniteSet(Opens(s)) /\ gft[s].count = Cardinality(Opens(s)) /\ gft[s].count \in Nat
    BY <1>1, <1>4, OpensFinite, SMTT(30) DEF CarefulInv, DescriptorInv
  <2>3. /\ Opens(s)' = Opens(s) \ {<<p, i>>}
        /\ IsFiniteSet(Opens(s) \ {<<p, i>>})
        /\ Cardinality(Opens(s) \ {<<p, i>>}) = gft[s].count - 1
    <3>1. Opens(s)' = Opens(s) \ {<<p, i>>}
      BY <1>3, <1>4
    <3>2. /\ IsFiniteSet(Opens(s) \ {<<p, i>>})
          /\ Cardinality(Opens(s) \ {<<p, i>>}) = Cardinality(Opens(s)) - 1
      BY <2>1, <2>2, FS_RemoveElement
    <3> QED
      BY <2>2, <3>1, <3>2
  <2>4. Cardinality(Opens(s)') = CountAfterClose(gft[s].count)
    <3>1. Cardinality(Opens(s)') = gft[s].count - 1
      BY <2>3, Zenon
    <3>2. gft[s].count # 0
      BY <2>1, <2>2, FS_EmptySet
    <3> QED
      BY <2>2, <3>1, <3>2 DEF CountAfterClose
  <2>5. Cardinality(Opens(s)') = 0 => Opens(s)' = {}
    BY <2>3, FS_EmptySet
  <2>6. \A u \in Slots \ {s} : Opens(u)' = Opens(u)
    BY <1>3, <1>4
  <2>7. \A q \in live, j \in Fds : pft'[q][j] = pft[q][j] \/ pft'[q][j].f = Nil
    BY <1>2
  <2>8. Used(s) /\ FreeFile(s) /\ live' = live
    BY <1>1, <1>4
  <2> QED
    BY <1>1, <1>4, <2>4, <2>5, <2>6, <2>7, <2>8, FreeFileCareful
<1> QED
  BY <1>1, <1>4

(* The file is closed for the call that had it.                            *)
LEMMA FileClosedCareful ==
    ASSUME KeepsToTheRules, CarefulInv, NEW p \in Procs, FileClosed(p)
    PROVE  DescriptorInv' /\ InodeInv' /\ ProgressInv'
<1>1. At(p, "closing") /\ FreeFile(call[p].fd) /\ UNCHANGED <<disk, live, ret, wild>>
  BY DEF FileClosed
<1>2. /\ call[p].at = "closing" /\ call[p] \in CallRecords /\ ProgressOf(p, call[p])
      /\ call \in [Procs -> CallRecords] /\ p \in live
      /\ call[p].op \in {"stat", "close", "unlink", "truncate"}
  BY <1>1, InCall DEF ProgressOf
<1>3. CASE call[p].op \in {"stat", "close"}
  <2>1. call[p].pf \in Fds
    BY <1>2, <1>3 DEF ProgressOf
  <2>2. pft' = [pft EXCEPT ![p][call[p].pf] = Closed] /\ Returns(p)
    BY <1>3, <2>1, Constants DEF FileClosed
  <2> QED
    BY <1>1, <1>3, <2>2, DescriptorGoes, ReturnsCareful
<1>4. CASE call[p].op \in {"unlink", "truncate"}
  <2> DEFINE to == IF call[p].op = "unlink" THEN "remove" ELSE "delete"
             c == [call[p] EXCEPT !.at = to]
  <2>1. call[p].path \notin OpenPaths /\ call[p].pf = Nil
    BY <1>2, <1>4 DEF ProgressOf
  <2>2. pft' = pft /\ Goes(p, to)
    BY <1>4, <2>1 DEF FileClosed
  <2>3. to \in {"remove", "delete"} /\ (to = "remove" => call[p].op = "unlink")
    OBVIOUS
  <2> HIDE DEF to
  <2>4. /\ call' = [call EXCEPT ![p] = c]
        /\ c.at = to /\ c.op = call[p].op /\ c.path = call[p].path /\ c.pf = call[p].pf
    BY <1>2, <2>2 DEF Goes, CallRecords
  <2> HIDE DEF c
  <2>5. call'[p] = c /\ \A q \in Procs \ {p} : call'[q] = call[q]
    BY <1>2, <2>4
  <2>6. DescriptorInv' /\ InodeInv' /\ \A path : path = call[p].path => Named(path)' = {}
    BY <1>1, <1>4, <2>2, UnreferencedGoes
  <2>7. Progress(p)'
    <3>1. \A path : path = call'[p].path => Named(path)' = {}
      BY <2>4, <2>5, <2>6
    <3>2. Named(call[p].path)' = {}
      BY <3>1 DEF Named
    <3>3. OpenPaths' = OpenPaths
      BY <1>1, <2>2 DEF OpenPaths
    <3> QED
      BY <1>1, <1>2, <1>4, <2>1, <2>3, <2>4, <2>5, <3>2, <3>3
         DEF Progress, ProgressOf, Unentered, Inserting, Having
  <2> QED
    BY <1>1, <2>5, <2>6, <2>7, ProgressOfOne
<1> QED
  BY <1>2, <1>3, <1>4

(* Who exits has no file open.                                             *)
LEMMA ExitCareful ==
    ASSUME KeepsToTheRules, CarefulInv, NEW p \in Procs, Exit(p)
    PROVE  DescriptorInv' /\ InodeInv' /\ ProgressInv'
<1>1. /\ At(p, "idle") /\ live' = live \ {p} /\ UNCHANGED <<disk, gft, inodes, call, ret, wild>>
      /\ pft' = [pft EXCEPT ![p] = [i \in Fds |-> Closed]]
      /\ \A i \in Fds : pft[p][i].f = Nil
  BY DEF Exit, KeepsToTheRules
<1>2. /\ \A q \in Procs : call[q].at = "idle" /\ call'[q].at = "idle" /\ ~Inserts(q)
      /\ \A s \in Slots : Used(s) => gft[s].count # 0
  BY <1>1, ActsAlone DEF Having, Inserting
<1>3. \A q \in live' : pft'[q] = pft[q] /\ q \in live
  BY <1>1 DEF CarefulInv, IInv, Base, TypeOK
<1>4. \A s : Used(s)' <=> Used(s)
  BY <1>1 DEF Used
<1>5. ASSUME NEW s \in Slots PROVE Opens(s)' = Opens(s)
  <2>1. ASSUME NEW d PROVE d \in Opens(s)' <=> d \in Opens(s)
    <3>1. d[1] \in live /\ d[2] \in Fds /\ pft[d[1]][d[2]].f = s => d[1] # p
      BY <1>1, Constants
    <3> QED
      BY <1>1, <1>3, <3>1 DEF Opens
  <2> QED
    BY <2>1
<1>6. DescriptorInv'
  BY <1>1, <1>2, <1>3, <1>4, <1>5 DEF CarefulInv, DescriptorInv, HandleKeepsFile
<1>7. InodeInv'
  BY <1>1, <1>2, <1>4 DEF CarefulInv, InodeInv
<1>8. ProgressInv'
  BY <1>2 DEF ProgressInv, Progress, ProgressOf, Unentered, Inserting, Having
<1> QED
  BY <1>6, <1>7, <1>8
----------------------------------------------------------------------------
(* At the start nothing is open.                                           *)
LEMMA InitCareful == Init => CarefulInv
<1> SUFFICES ASSUME Init PROVE CarefulInv
  OBVIOUS
<1>1. IInv
  BY InitIInv
<1>2. /\ \A s \in Slots : ~Used(s)
      /\ \A p \in Procs, i \in Fds : pft[p][i].f = Nil
      /\ \A p \in Procs : call[p].at = "idle"
  BY DEF Init, Used, Unused, Closed, Idle
<1>3. DescriptorInv
  BY <1>2 DEF Init, DescriptorInv, HandleKeepsFile
<1>4. InodeInv
  BY <1>2 DEF Init, InodeInv
<1>5. ProgressInv
  BY <1>2 DEF ProgressInv, Progress, ProgressOf, Unentered, Inserting, Having
<1> QED
  BY <1>1, <1>3, <1>4, <1>5 DEF CarefulInv

(* Every step of a program that keeps to the rules, while no other process *)
(* is in a call, keeps the descriptors, the counts and the inodes right.   *)
LEMMA NextCareful ==
    ASSUME KeepsToTheRules, CarefulInv, [Next]_vars
    PROVE  CarefulInv' /\ HandleReturned
<1>1. IInv'
  <2>1. Undisturbed
    BY DEF KeepsToTheRules, Undisturbed
  <2> QED
    BY <2>1, NextIInv DEF CarefulInv
<1>2. CASE UNCHANGED vars
  <2>1. /\ \A s : (Used(s)' <=> Used(s)) /\ Opens(s)' = Opens(s) /\ Named(s)' = Named(s)
        /\ OpenPaths' = OpenPaths
        /\ \A p : FreeFds(p)' = FreeFds(p)
    BY <1>2 DEF vars, Used, Opens, Named, OpenPaths, FreeFds
  <2>2. UNCHANGED <<gft, inodes, pft, live, call, ret>>
    BY <1>2 DEF vars
  <2>3. DescriptorInv'
    BY <2>1, <2>2 DEF CarefulInv, DescriptorInv, HandleKeepsFile
  <2>4. InodeInv'
    BY <2>1, <2>2 DEF CarefulInv, InodeInv, Inserts
  <2>5. ProgressInv'
    <3>1. ASSUME NEW p \in Procs PROVE Progress(p)'
      <4>1. Progress(p) /\ Named(call[p].path)' = Named(call[p].path)
            /\ (Used(call[p].fd)' <=> Used(call[p].fd))
        BY <2>2 DEF CarefulInv, ProgressInv, Named, Used
      <4> QED
        BY <2>1, <2>2, <4>1 DEF Progress, ProgressOf
    <3> QED
      BY <2>2, <3>1 DEF CarefulInv, ProgressInv
  <2> QED
    BY <1>1, <2>2, <2>3, <2>4, <2>5 DEF CarefulInv, HandleReturned
<1>3. ASSUME NEW p \in Procs, Call(p)
      PROVE  DescriptorInv' /\ InodeInv' /\ ProgressInv' /\ HandleReturned
  <2> DEFINE Kept == DescriptorInv' /\ InodeInv' /\ ProgressInv'
  <2>1. ASSUME NEW path \in Names, NEW creat \in BOOLEAN, Open(p, path, creat)
        PROVE  Kept /\ ret' = ret
    <3>1. Begin(p, "open", path, creat) /\ FreeFds(p) # {}
      BY <2>1 DEF Open, KeepsToTheRules
    <3> QED
      BY <3>1, BeginCareful DEF Begin
  <2>2. ASSUME NEW path \in Names, Stat(p, path) PROVE Kept /\ ret' = ret
    <3>1. Begin(p, "stat", path, FALSE) /\ FreeFds(p) # {}
      BY <2>2 DEF Stat, KeepsToTheRules
    <3> QED
      BY <3>1, BeginCareful DEF Begin
  <2>3. ASSUME NEW path \in Paths, Unlink(p, path) PROVE Kept /\ ret' = ret
    <3>1. Begin(p, "unlink", path, FALSE) /\ path \notin OpenPaths
      BY <2>3 DEF Unlink, KeepsToTheRules
    <3> QED
      BY <3>1, BeginCareful, Constants DEF Begin
  <2>4. CASE Search(p) \/ AllocInode(p)
    <3>1. Kept
      BY <2>4, SearchCareful, AllocInodeCareful
    <3>2. ret' = ret \/ ret' = [ret EXCEPT ![p] = Nil]
      BY <2>4 DEF Search, AllocInode, Missed
    <3>3. HandleReturned
      BY <3>2 DEF HandleReturned, CarefulInv, IInv, Base, TypeOK
    <3> QED
      BY <3>1, <3>3
  <2>5. CASE OpenDone(p)
    BY <2>5, OpenDoneCareful
  <2>6. CASE Create(p) \/ MarkInode(p) \/ InsertFile(p) \/ AllocFile(p) \/ FillFile(p)
    <3>1. Kept
      BY <2>6, CreateCareful, MarkInodeCareful, InsertFileCareful, AllocFileCareful, FillFileCareful
    <3>2. ret' = ret
      BY <2>6, AllocFileCareful DEF Create, MarkInode, InsertFile, FillFile
    <3> QED
      BY <3>1, <3>2 DEF HandleReturned
  <2>7. CASE StatFile(p) \/ UnlinkDecide(p) \/ Remove(p) \/ Truncate(p) \/ TruncateCloses(p)
               \/ Delete(p) \/ FileClosed(p) \/ Exit(p)
    <3>1. Kept
      BY <2>7, StatFileCareful, UnlinkDecideCareful, RemoveCareful, TruncationCareful,
         DeleteCareful, FileClosedCareful, ExitCareful
    <3>2. ret' = ret
      BY <2>7 DEF StatFile, UnlinkDecide, Remove, Truncate, TruncateCloses, Delete, FileClosed, Exit
    <3> QED
      BY <3>1, <3>2 DEF HandleReturned
  <2>8. ASSUME NEW i \in Fds, Close(p, i) \/ CloseUnopened(p, i) PROVE Kept /\ ret' = ret
    <3>1. Close(p, i)
      BY <2>8 DEF CloseUnopened, KeepsToTheRules
    <3> QED
      BY <3>1, CloseCareful DEF Close
  <2>9. ret' = ret => HandleReturned
    BY DEF HandleReturned
  <2> QED
    BY <1>3, <2>1, <2>2, <2>3, <2>4, <2>5, <2>6, <2>7, <2>8, <2>9 DEF Call
<1>4. CASE Undefined \/ Over
  BY <1>2, <1>4 DEF Undefined, Over
<1> QED
  BY <1>1, <1>2, <1>3, <1>4 DEF Next, CarefulInv

(* The invariant says what the properties ask between calls.               *)
LEMMA CarefulInvSays ==
    ASSUME CarefulInv
    PROVE  HandleKeepsFile /\ CountsDescriptors /\ InodesOfOpenFiles
<1>1. HandleKeepsFile
  BY DEF CarefulInv, DescriptorInv
<1>2. CountsDescriptors
  <2>1. ASSUME Quiet, NEW s \in Slots, Used(s)
        PROVE  gft[s].count > 0 /\ gft[s].count = Cardinality(Opens(s))
    <3>1. gft[s].count # 0 /\ gft[s].count = Cardinality(Opens(s))
      BY <2>1 DEF CarefulInv, DescriptorInv, Quiet, Having
    <3>2. gft[s].count \in Nat
      BY DEF CarefulInv, IInv, Base, TypeOK, Entries
    <3> QED
      BY <3>1, <3>2
  <2> QED
    BY <2>1 DEF CountsDescriptors, Opens
<1>3. InodesOfOpenFiles
  <2> SUFFICES ASSUME Quiet, NEW i \in Inodes \ {RootInode}, inodes[i] # Nil
               PROVE  \E s \in Slots : gft[s].name = inodes[i] /\ gft[s].inode = i
    BY DEF InodesOfOpenFiles
  <2>1. PICK s \in Slots : Used(s) /\ gft[s].inode = i
    BY DEF CarefulInv, InodeInv, Quiet, Inserts, Inserting
  <2> QED
    BY <2>1 DEF CarefulInv, IInv, Base, TableInv, EntriesOwnInodes
<1> QED
  BY <1>1, <1>2, <1>3

(* Programs that keep to the rules, and make their calls one at a time,    *)
(* have descriptors that denote what was opened, counts that are those of  *)
(* the descriptors, and an inode table as full as their open files make it.*)
THEOREM RulesKeepTables ==
    ASSUME KeepsToTheRules
    PROVE  Spec => [](HandleKeepsFile /\ CountsDescriptors /\ InodesOfOpenFiles)
<1>1. CarefulInv /\ [Next]_vars => CarefulInv'
  BY NextCareful
<1>2. CarefulInv => HandleKeepsFile /\ CountsDescriptors /\ InodesOfOpenFiles
  BY CarefulInvSays
<1> QED
  BY <1>1, <1>2, InitCareful, PTL DEF Spec

(* What _open() returns to them is the handle of an open descriptor or -1. *)
THEOREM RulesReturnHandles ==
    ASSUME KeepsToTheRules PROVE Spec => OpenReturnsHandle
<1>1. CarefulInv /\ [Next]_vars => CarefulInv' /\ HandleReturned
  BY NextCareful
<1> QED
  BY <1>1, InitCareful, PTL DEF Spec, OpenReturnsHandle
=============================================================================
