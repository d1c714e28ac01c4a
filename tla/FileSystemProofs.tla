-------------------------- MODULE FileSystemProofs --------------------------
(***************************************************************************)
(* Every block of the disk has one owner, for every size of disk, inode    *)
(* and address block, every series of operations, and wherever the machine *)
(* stops during a write.                                                   *)
(*                                                                         *)
(* Each block has a role, which says which of its words are pointers and   *)
(* what those lead to.  An operation is followed sector by sector with the *)
(* roles it gives to the blocks it allocates and takes from those it frees.*)
(***************************************************************************)
EXTENDS FileSystem, WellFoundedInduction, TLAPS

(* A set of natural numbers that is not empty has a least element.         *)
LEMMA LeastIn ==
    ASSUME NEW S, S \subseteq Nat, S # {}
    PROVE  \E m \in S : \A n \in S : m <= n
<1>1. PICK x \in S : \A y \in S : ~(<<y, x>> \in OpToRel(<, Nat))
  BY NatLessThanWellFounded, WFMin
<1>2. \A y \in S : y < x => <<y, x>> \in OpToRel(<, Nat)
  BY DEF OpToRel
<1>3. \A y \in S : ~(y < x)
  BY <1>1, <1>2, Zenon
<1> QED
  BY <1>3

(* Induction: a set with 0, and with n + 1 for each of its n, has every    *)
(* natural number.                                                         *)
LEMMA InductionOnSet ==
    ASSUME NEW T, 0 \in T, \A n \in Nat : n \in T => n + 1 \in T
    PROVE  Nat \subseteq T
<1> SUFFICES ASSUME Nat \ T # {} PROVE FALSE
  OBVIOUS
<1>1. PICK m \in Nat \ T : \A n \in Nat \ T : m <= n
  BY LeastIn
<1>2. m # 0 /\ m - 1 \in Nat
  BY <1>1
<1>3. m - 1 \in T
  BY <1>1, <1>2
<1> QED
  BY <1>1, <1>2, <1>3

(* Written() is what its recursion says.                                   *)
LEMMA WrittenExists ==
    ASSUME NEW log, NEW f, NEW pos
    PROVE  \E g : g = [i \in Nat |-> IF i = 0 THEN Begin(log, f)
                                      ELSE WriteChunk(g[i - 1], ChunkAt(pos, i))]
<1> DEFINE base == Begin(log, f)
           step(s, i) == WriteChunk(s, ChunkAt(pos, i))
           Up(n, g) == g = [i \in 0 .. n |-> IF i = 0 THEN base ELSE step(g[i - 1], i)]
<1> HIDE DEF base, step
<1>1. \A n \in Nat : \E g : Up(n, g)
  <2> DEFINE T == {n \in Nat : \E g : Up(n, g)}
  <2>1. 0 \in T
    <3>1. Up(0, [i \in 0 .. 0 |-> base])
      OBVIOUS
    <3> QED
      BY <3>1
  <2>2. ASSUME NEW n \in Nat, n \in T PROVE n + 1 \in T
    <3>1. PICK g : Up(n, g)
      BY <2>2
    <3>2. Up(n + 1, [i \in 0 .. n + 1 |-> IF i = n + 1 THEN step(g[n], n + 1) ELSE g[i]])
      BY <3>1
    <3> HIDE DEF Up
    <3> QED
      BY <3>2
  <2> HIDE DEF T
  <2>3. Nat \subseteq T
    BY <2>1, <2>2, InductionOnSet
  <2> QED
    BY <2>3 DEF T
<1>2. ASSUME NEW n \in Nat, NEW m \in Nat, NEW g, NEW h, Up(n, g), Up(m, h)
      PROVE  \A i \in Nat : i <= n /\ i <= m => g[i] = h[i]
  <2> DEFINE T == {i \in Nat : i <= n /\ i <= m => g[i] = h[i]}
  <2>1. 0 \in T
    BY <1>2
  <2>2. ASSUME NEW i \in Nat, i \in T PROVE i + 1 \in T
    <3>1. CASE i + 1 <= n /\ i + 1 <= m
      <4>1. g[i + 1] = step(g[i], i + 1) /\ h[i + 1] = step(h[i], i + 1)
        BY <1>2, <3>1
      <4> QED
        BY <2>2, <3>1, <4>1
    <3> QED
      BY <3>1
  <2> HIDE DEF T
  <2>3. Nat \subseteq T
    BY <2>1, <2>2, InductionOnSet
  <2> QED
    BY <2>3 DEF T
<1> DEFINE G(n) == CHOOSE g : Up(n, g)
           f0 == [i \in Nat |-> G(i)[i]]
<1>3. \A n \in Nat : Up(n, G(n))
  BY <1>1
<1> HIDE DEF G
<1>4. \A n \in Nat : n # 0 => G(n)[n] = step(G(n - 1)[n - 1], n)
  <2> TAKE n \in Nat
  <2> HAVE n # 0
  <2>1. G(n)[n] = step(G(n)[n - 1], n)
    BY <1>3
  <2>2. n - 1 \in Nat /\ n - 1 <= n
    BY <2>1
  <2>3. G(n)[n - 1] = G(n - 1)[n - 1]
    <3> HIDE DEF Up
    <3> QED
      BY <1>2, <1>3, <2>2
  <2> QED
    BY <2>1, <2>3
<1>5. G(0)[0] = base
  BY <1>3
<1>6. f0 = [i \in Nat |-> IF i = 0 THEN base ELSE step(f0[i - 1], i)]
  BY <1>4, <1>5
<1> QED
  BY <1>6 DEF base, step

(* fs_write() one chunk at a time, as it was defined.                      *)
LEMMA WrittenSteps ==
    ASSUME NEW log, NEW f, NEW pos
    PROVE  /\ Written(log, f, pos)[0] = Begin(log, f)
           /\ \A i \in Nat \ {0} :
                Written(log, f, pos)[i] = WriteChunk(Written(log, f, pos)[i - 1], ChunkAt(pos, i))
<1> DEFINE P(g) == g = [i \in Nat |-> IF i = 0 THEN Begin(log, f)
                                     ELSE WriteChunk(g[i - 1], ChunkAt(pos, i))]
<1>1. \E g : P(g)
  BY WrittenExists
<1>2. Written(log, f, pos) = CHOOSE g : P(g)
  BY DEF Written
<1>3. P(CHOOSE g : P(g))
  <2> HIDE DEF P
  <2> QED
    BY <1>1
<1>4. P(Written(log, f, pos))
  BY <1>2, <1>3
<1> QED
  BY <1>4
-----------------------------------------------------------------------------
(* What a block is used for.                                               *)
Roles == {"free", "root", "dir", "inode", "single", "double", "data"}

(* The pointers that a block of each role has, and what they lead to.      *)
Used(r) ==
    CASE r = "root" -> {0}
      [] r = "dir" -> Names
      [] r = "inode" -> 0 .. InodeSlots - 1
      [] r \in {"single", "double"} -> 0 .. ADDRS_PER_BLOCK - 1
      [] r \in {"data", "free"} -> {}

(* What a pointer leads to, by the block and the slot it is in.            *)
Below(r, i) ==
    CASE r = "root" -> "dir"
      [] r = "dir" -> "inode"
      [] r = "inode" -> IF i = SIP THEN "single" ELSE IF i = DIP THEN "double" ELSE "data"
      [] r = "double" -> "single"
      [] r = "single" -> "data"

(* Null, super block, root inode and bitmap.                               *)
Special == 0 .. FirstDataBlock - 1

(* A role for each block, of which the disk keeps to: blocks in use are    *)
(* marked, each pointer leads to a block of the right role, and no two     *)
(* pointers lead to the same block.                                        *)
Owned(role, d) ==
    /\ role \in [Blocks -> Roles]
    /\ \A b \in Blocks : role[b] = "root" <=> b = ROOT_INODE_BLOCK
    /\ Special \subseteq d.marked
    /\ \A b \in Blocks : role[b] \notin {"free", "root"} => b \in d.marked /\ b \notin Special
    /\ \A b \in Blocks : \A i \in Used(role[b]) :
            d.block[b].ptr[i] # NULL => role[d.block[b].ptr[i]] = Below(role[b], i)
    /\ \A b, c \in Blocks : \A i \in Used(role[b]), j \in Used(role[c]) :
            d.block[b].ptr[i] # NULL /\ d.block[b].ptr[i] = d.block[c].ptr[j] => b = c /\ i = j

(* There are such roles.                                                   *)
Good(d) == \E role : Owned(role, d)

(* What the assumption says of the numbers.                                *)
LEMMA Constants ==
    /\ BLOCK_SIZE \in Nat \ {0} /\ NUM_DIRECT_POINTER \in Nat \ {0} /\ ADDRS_PER_BLOCK \in Nat \ {0}
    /\ LastBlock \in Nat /\ LastBlock >= 4
  BY FileSystemAssumption DEF FirstDataBlock

(* Where the blocks and slots with a name of their own are.                *)
LEMMA Places ==
    /\ NULL = 0 /\ NULL \in Blocks /\ NULL \in Special
    /\ ROOT_INODE_BLOCK \in Blocks /\ ROOT_INODE_BLOCK \in Special /\ ROOT_INODE_BLOCK # NULL
    /\ SUPER_BLOCK \in Blocks
    /\ Special \subseteq Blocks
    /\ Names \subseteq Slots
    /\ 0 .. InodeSlots - 1 \subseteq Slots
    /\ 0 .. ADDRS_PER_BLOCK - 1 \subseteq Slots
    /\ 0 \in Slots /\ SIP \in Slots /\ DIP \in Slots /\ SIP # DIP
    /\ SIP \in 0 .. InodeSlots - 1 /\ DIP \in 0 .. InodeSlots - 1
    /\ Blocks \subseteq Nat /\ Slots \subseteq Nat
  BY Constants, FileSystemAssumption
     DEF NULL, Blocks, Special, FirstDataBlock, ROOT_INODE_BLOCK, SUPER_BLOCK, SIP, DIP, InodeSlots, Slots

(* The slots that each role uses are slots.                                *)
LEMMA RoleSlots ==
    /\ \A r \in Roles : Used(r) \subseteq Slots
    /\ Used("free") = {} /\ Used("data") = {} /\ Used("root") = {0} /\ Used("dir") = Names
    /\ Used("inode") = 0 .. InodeSlots - 1
    /\ Used("single") = 0 .. ADDRS_PER_BLOCK - 1
    /\ Used("double") = 0 .. ADDRS_PER_BLOCK - 1
  BY Places DEF Roles, Used

(* What the pointers of each role lead to.                                 *)
LEMMA RoleBelow ==
    /\ \A r \in Roles : \A i \in Used(r) :
            Below(r, i) \in Roles /\ Below(r, i) \notin {"free", "root"}
    /\ Below("root", 0) = "dir"
    /\ \A i : Below("dir", i) = "inode"
    /\ Below("inode", SIP) = "single" /\ Below("inode", DIP) = "double"
    /\ \A i : i \notin {SIP, DIP} => Below("inode", i) = "data"
    /\ \A i : Below("double", i) = "single"
    /\ \A i : Below("single", i) = "data"
  BY Places, RoleSlots DEF Roles, Below

(* Empty blocks and user data are blocks.                                  *)
LEMMA ZeroWords == Zero \in Words /\ UserData \in Words
  BY Places DEF Zero, UserData, Words

(* Less is referred to, and no less is marked.                             *)
LEMMA OwnedLess ==
    ASSUME NEW role, NEW d \in Disks, NEW e \in Disks, Owned(role, d), d.marked \subseteq e.marked,
           \A b \in Blocks : \A i \in Used(role[b]) : e.block[b].ptr[i] \in {NULL, d.block[b].ptr[i]}
    PROVE  Owned(role, e)
<1>1. \A b \in Blocks : \A i \in Used(role[b]) : e.block[b].ptr[i] # NULL =>
            e.block[b].ptr[i] = d.block[b].ptr[i]
  OBVIOUS
<1>2. \A b \in Blocks : \A i \in Used(role[b]) :
            e.block[b].ptr[i] # NULL => role[e.block[b].ptr[i]] = Below(role[b], i)
  BY <1>1 DEF Owned
<1>3. \A b, c \in Blocks : \A i \in Used(role[b]), j \in Used(role[c]) :
            e.block[b].ptr[i] # NULL /\ e.block[b].ptr[i] = e.block[c].ptr[j] => b = c /\ i = j
  BY <1>1 DEF Owned
<1> QED
  BY <1>2, <1>3 DEF Owned

(* A free block gets a role and a pointer to it.                           *)
LEMMA OwnedMore ==
    ASSUME NEW role, NEW d \in Disks, NEW e \in Disks, Owned(role, d),
           NEW at \in Blocks, NEW slot \in Used(role[at]), NEW new \in Blocks,
           d.block[at].ptr[slot] = NULL, new \notin d.marked,
           e.marked = d.marked \cup {new},
           \A i \in Slots : e.block[new].ptr[i] = NULL,
           \A b \in Blocks \ {new} : \A i \in Slots :
                e.block[b].ptr[i] = IF b = at /\ i = slot THEN new ELSE d.block[b].ptr[i]
    PROVE  LET r == [role EXCEPT ![new] = Below(role[at], slot)]
           IN  /\ Owned(r, e)
               /\ \A b \in Blocks : role[b] # "free" => r[b] = role[b]
<1> DEFINE r == [role EXCEPT ![new] = Below(role[at], slot)]
<1>1. role \in [Blocks -> Roles] /\ role[new] = "free" /\ new \notin Special /\ role[at] # "free" /\ at # new
  BY Places, RoleSlots DEF Owned
<1>2. Below(role[at], slot) \in Roles /\ Below(role[at], slot) \notin {"free", "root"}
  BY <1>1, RoleBelow
<1>3. r \in [Blocks -> Roles] /\ r[new] = Below(role[at], slot) /\ \A b \in Blocks \ {new} : r[b] = role[b]
  BY <1>1, <1>2
<1> HIDE DEF r
<1>4. \A b \in Blocks : \A i \in Used(r[b]) : i \in Slots
  BY <1>3, RoleSlots
<1>5. \A b \in Blocks : role[b] # "free" => r[b] = role[b]
  BY <1>1, <1>3
<1>6. \A b \in Blocks : \A i \in Used(r[b]) : e.block[b].ptr[i] # NULL =>
            \/ b = at /\ i = slot /\ e.block[b].ptr[i] = new
            \/ b # new /\ i \in Used(role[b]) /\ e.block[b].ptr[i] = d.block[b].ptr[i]
               /\ role[d.block[b].ptr[i]] = Below(role[b], i)
               /\ ~(b = at /\ i = slot)
  BY <1>3, <1>4 DEF Owned
<1>7. \A b \in Blocks : \A i \in Used(role[b]) : d.block[b].ptr[i] # NULL =>
            d.block[b].ptr[i] \in Blocks /\ role[d.block[b].ptr[i]] # "free" /\ d.block[b].ptr[i] # new
  <2>1. \A b \in Blocks : \A i \in Used(role[b]) : d.block[b].ptr[i] \in Blocks
    BY <1>1, RoleSlots DEF Disks, Words
  <2> QED
    BY <1>1, <2>1, RoleBelow DEF Owned
<1>8. \A b \in Blocks : r[b] = "root" <=> b = ROOT_INODE_BLOCK
  BY <1>1, <1>2, <1>3, Places DEF Owned
<1>9. \A b \in Blocks : r[b] \notin {"free", "root"} => b \in e.marked /\ b \notin Special
  BY <1>1, <1>3 DEF Owned
<1>10. \A b \in Blocks : \A i \in Used(r[b]) :
            e.block[b].ptr[i] # NULL => r[e.block[b].ptr[i]] = Below(r[b], i)
  BY <1>1, <1>3, <1>6, <1>7
<1>11. \A b, c \in Blocks : \A i \in Used(r[b]), j \in Used(r[c]) :
            e.block[b].ptr[i] # NULL /\ e.block[b].ptr[i] = e.block[c].ptr[j] => b = c /\ i = j
  BY <1>6, <1>7 DEF Owned
<1> QED
  BY <1>3, <1>5, <1>8, <1>9, <1>10, <1>11 DEF Owned, r

(* Blocks become free, and no pointer leads to them any more.              *)
LEMMA OwnedFreed ==
    ASSUME NEW role, NEW d \in Disks, NEW e \in Disks, Owned(role, d),
           NEW F, F \cap Special = {}, e.marked = d.marked \ F,
           \A b \in Blocks \ F : \A i \in Used(role[b]) :
                \/ e.block[b].ptr[i] = NULL
                \/ e.block[b].ptr[i] = d.block[b].ptr[i] /\ d.block[b].ptr[i] \notin F
    PROVE  Owned([b \in Blocks |-> IF b \in F THEN "free" ELSE role[b]], e)
<1> DEFINE r == [b \in Blocks |-> IF b \in F THEN "free" ELSE role[b]]
<1>1. role \in [Blocks -> Roles] /\ "free" \in Roles
  BY DEF Owned, Roles
<1>2. r \in [Blocks -> Roles] /\ \A b \in Blocks : r[b] = IF b \in F THEN "free" ELSE role[b]
  BY <1>1
<1> HIDE DEF r
<1>3. \A b \in Blocks : \A i \in Used(r[b]) : e.block[b].ptr[i] # NULL =>
            /\ b \notin F /\ i \in Used(role[b]) /\ r[b] = role[b]
            /\ e.block[b].ptr[i] = d.block[b].ptr[i] /\ d.block[b].ptr[i] \notin F
            /\ d.block[b].ptr[i] \in Blocks
  <2>1. \A b \in Blocks : \A i \in Used(r[b]) : b \notin F /\ r[b] = role[b] /\ i \in Slots
    BY <1>1, <1>2, RoleSlots
  <2> QED
    BY <2>1 DEF Disks, Words
<1>4. \A b \in Blocks : \A i \in Used(r[b]) :
            e.block[b].ptr[i] # NULL => r[e.block[b].ptr[i]] = Below(r[b], i)
  BY <1>2, <1>3 DEF Owned
<1>5. \A b, c \in Blocks : \A i \in Used(r[b]), j \in Used(r[c]) :
            e.block[b].ptr[i] # NULL /\ e.block[b].ptr[i] = e.block[c].ptr[j] => b = c /\ i = j
  BY <1>3 DEF Owned
<1>6. \A b \in Blocks : r[b] = "root" <=> b = ROOT_INODE_BLOCK
  BY <1>2, Places DEF Owned
<1>7. Special \subseteq e.marked /\ \A b \in Blocks : r[b] \notin {"free", "root"} => b \in e.marked /\ b \notin Special
  BY <1>2 DEF Owned
<1> QED
  BY <1>2, <1>4, <1>5, <1>6, <1>7 DEF Owned, r
-----------------------------------------------------------------------------
(* A script while it grows: the disk as it will be once the inode in       *)
(* memory is written, too.                                                 *)
Scripts == {s \in [log : Seq(Disks), adr : Blocks, ino : Words, at : Blocks, found : BOOLEAN] : s.log # <<>>}

(* The disk once the inode in memory is written.                           *)
Full(s) == [Now(s) EXCEPT !.block[s.adr] = s.ino]

(* Wherever the operation stops, the disk is good.                         *)
AllGood(s) == \A i \in 1 .. Len(s.log) : Good(s.log[i])

(* Roles for the disk with the inode in memory; until it is written, the   *)
(* one on disk may lack pointers.                                          *)
Sound(role, s) ==
    /\ s \in Scripts
    /\ Owned(role, Full(s))
    /\ role[s.adr] \in {"root", "inode"}
    /\ \A i \in Slots : Now(s).block[s.adr].ptr[i] \in {NULL, s.ino.ptr[i]}

(* No block that was in use changes its role.                              *)
Extends(role, r) == \A b \in Blocks : role[b] # "free" => r[b] = role[b]

(* The parts of a script have their types.                                 *)
LEMMA ScriptFields ==
    ASSUME NEW s \in Scripts
    PROVE  /\ s.log \in Seq(Disks) /\ Len(s.log) \in Nat \ {0}
           /\ s.adr \in Blocks /\ s.ino \in Words /\ s.at \in Blocks /\ s.found \in BOOLEAN
           /\ Now(s) \in Disks
           /\ s.ino.size \in Nat /\ s.ino.ptr \in [Slots -> Blocks]
           /\ Now(s).marked \in SUBSET Blocks /\ Now(s).block \in [Blocks -> Words]
           /\ s = [log |-> s.log, adr |-> s.adr, ino |-> s.ino, at |-> s.at, found |-> s.found]
<1>1. s \in [log : Seq(Disks), adr : Blocks, ino : Words, at : Blocks, found : BOOLEAN] /\ s.log # <<>>
  BY DEF Scripts
<1>2. s.log \in Seq(Disks) /\ s.log # <<>> /\ s.ino \in Words /\ s.adr \in Blocks /\ s.at \in Blocks
      /\ s.found \in BOOLEAN
  BY <1>1
<1>3. Len(s.log) \in Nat \ {0}
  BY <1>2
<1>4. Now(s) \in Disks
  BY <1>2, <1>3 DEF Now
<1>5. Now(s).marked \in SUBSET Blocks /\ Now(s).block \in [Blocks -> Words]
  BY <1>4 DEF Disks
<1>6. s.ino.size \in Nat /\ s.ino.ptr \in [Slots -> Blocks]
  BY <1>2 DEF Words
<1>7. s = [log |-> s.log, adr |-> s.adr, ino |-> s.ino, at |-> s.at, found |-> s.found]
  BY <1>1
<1> QED
  BY <1>2, <1>3, <1>4, <1>5, <1>6, <1>7

(* The disk with the inode in memory differs in that block alone.          *)
LEMMA FullFields ==
    ASSUME NEW s \in Scripts
    PROVE  /\ Full(s) \in Disks
           /\ Full(s).marked = Now(s).marked
           /\ Full(s).block \in [Blocks -> Words]
           /\ Full(s).block[s.adr] = s.ino
           /\ \A b \in Blocks \ {s.adr} : Full(s).block[b] = Now(s).block[b]
  BY ScriptFields DEF Full, Disks

(* The updates of a script, field by field.                                *)
LEMMA Updates ==
    ASSUME NEW L, NEW A, NEW W, NEW P,
           NEW s \in [log : L, adr : A, ino : W, at : P, found : BOOLEAN]
    PROVE  /\ \A d : Then(s, d) = [log |-> Append(s.log, d), adr |-> s.adr, ino |-> s.ino,
                                    at |-> s.at, found |-> s.found]
           /\ \A b : [s EXCEPT !.at = b] = [log |-> s.log, adr |-> s.adr, ino |-> s.ino,
                                    at |-> b, found |-> s.found]
           /\ \A v : [s EXCEPT !.ino = v] = [log |-> s.log, adr |-> s.adr, ino |-> v,
                                    at |-> s.at, found |-> s.found]
           /\ \A m : [s EXCEPT !.log = m] = [log |-> m, adr |-> s.adr, ino |-> s.ino,
                                    at |-> s.at, found |-> s.found]
  BY DEF Then

(* One more sector is written.                                             *)
LEMMA ThenIs ==
    ASSUME NEW s \in Scripts, NEW d \in Disks
    PROVE  /\ Then(s, d) \in Scripts
           /\ Now(Then(s, d)) = d
           /\ Len(Then(s, d).log) = Len(s.log) + 1
           /\ Then(s, d).adr = s.adr /\ Then(s, d).ino = s.ino
           /\ Then(s, d).at = s.at /\ Then(s, d).found = s.found
           /\ AllGood(s) /\ Good(d) => AllGood(Then(s, d))
<1> USE ScriptFields
<1>1. Then(s, d) = [log |-> Append(s.log, d), adr |-> s.adr, ino |-> s.ino, at |-> s.at, found |-> s.found]
  <2>1. s \in [log : Seq(Disks), adr : Blocks, ino : Words, at : Blocks, found : BOOLEAN]
    BY DEF Scripts
  <2> QED
    BY <2>1, Updates
<1>2. Append(s.log, d) \in Seq(Disks) /\ Append(s.log, d) # <<>> /\ Len(Append(s.log, d)) = Len(s.log) + 1
      /\ Append(s.log, d)[Len(s.log) + 1] = d
      /\ \A i \in 1 .. Len(s.log) : Append(s.log, d)[i] = s.log[i]
  OBVIOUS
<1>3. Then(s, d) \in Scripts
  BY <1>1, <1>2 DEF Scripts
<1>4. Now(Then(s, d)) = d
  BY <1>1, <1>2 DEF Now
<1>5. AllGood(s) /\ Good(d) => AllGood(Then(s, d))
  BY <1>1, <1>2 DEF AllGood
<1> QED
  BY <1>1, <1>2, <1>3, <1>4, <1>5

(* A disk on which the inode is not written yet is good as well.           *)
LEMMA SoundNow ==
    ASSUME NEW role, NEW s, Sound(role, s)
    PROVE  Owned(role, Now(s)) /\ Good(Now(s)) /\ Good(Full(s))
<1>1. s \in Scripts /\ Owned(role, Full(s))
  BY DEF Sound
<1>2. \A b \in Blocks : \A i \in Used(role[b]) : Now(s).block[b].ptr[i] \in {NULL, Full(s).block[b].ptr[i]}
  <2>1. \A b \in Blocks : \A i \in Used(role[b]) : i \in Slots
    BY <1>1, RoleSlots DEF Owned
  <2> QED
    BY <1>1, <2>1, FullFields DEF Sound
<1>3. Owned(role, Now(s))
  BY <1>1, <1>2, FullFields, ScriptFields, OwnedLess
<1> QED
  BY <1>1, <1>3 DEF Good

(* get_free_block() finds nothing or a block that is not marked.           *)
LEMMA GetFreeBlockIs ==
    ASSUME NEW d, NEW start
    PROVE  \/ GetFreeBlock(d, start) = NOT_FOUND
           \/ GetFreeBlock(d, start) \in Blocks /\ GetFreeBlock(d, start) \notin d.marked
<1> DEFINE free == {b \in Blocks : b >= start /\ b \notin d.marked}
<1>1. CASE free # {}
  <2>1. \E m \in free : \A n \in free : m <= n
    BY <1>1, LeastIn, Places
  <2>2. Lowest(free) \in free
    BY <2>1 DEF Lowest
  <2> QED
    BY <1>1, <2>2 DEF GetFreeBlock
<1> QED
  BY <1>1 DEF GetFreeBlock

(* Every step of a script keeps its form, and that no block was found.     *)
IsScript(s) == \E L, A, W, P : s \in [log : L, adr : A, ino : W, at : P, found : BOOLEAN]

(* The script goes on, and a missing block stays missing.                  *)
Later(s, t) == IsScript(t) /\ (t.found => s.found)

(* Each step that the operations are made of goes on with the script.      *)
LEMMA LaterSteps ==
    ASSUME NEW s, IsScript(s)
    PROVE  /\ Later(s, s)
           /\ \A d : Later(s, Then(s, d))
           /\ \A b : Later(s, MarkBlock(s, b)) /\ Later(s, UnmarkBlock(s, b))
           /\ \A b, w : Later(s, WrtBlock(s, b, w))
           /\ Later(s, WriteInode(s))
           /\ \A b : Later(s, [s EXCEPT !.at = b])
           /\ \A w : Later(s, [s EXCEPT !.ino = w])
           /\ \A new : Later(s, AllocBlock(s, new)) /\ (AllocBlock(s, new).found => new # NOT_FOUND)
<1>0. PICK L, A, W, P : s \in [log : L, adr : A, ino : W, at : P, found : BOOLEAN]
  BY DEF IsScript
<1>1. \A d : Later(s, Then(s, d))
  <2> TAKE d
  <2>1. Then(s, d) \in [log : {Append(s.log, d)}, adr : A, ino : W, at : P, found : BOOLEAN]
        /\ Then(s, d).found = s.found
    BY <1>0, Updates
  <2> QED
    BY <2>1, Zenon DEF Later, IsScript
<1>2. \A b, w : Later(s, WrtBlock(s, b, w))
  BY <1>1, Zenon DEF WrtBlock
<1>3. \A new : Later(s, AllocBlock(s, new)) /\ (AllocBlock(s, new).found => new # NOT_FOUND)
  <2> TAKE new
  <2> DEFINE m == MarkBlock(s, new)
  <2>1. PICK M : m \in [log : M, adr : A, ino : W, at : P, found : BOOLEAN] /\ m.found = s.found
    <3>1. m = Then(s, [Now(s) EXCEPT !.marked = @ \cup {new}])
      BY DEF MarkBlock
    <3> HIDE DEF m
    <3>2. m \in [log : {m.log}, adr : A, ino : W, at : P, found : BOOLEAN] /\ m.found = s.found
      BY <1>0, <3>1, Updates
    <3> QED
      BY <3>2, Zenon
  <2>2. AllocBlock(s, new) = [m EXCEPT !.found = @ /\ new # NOT_FOUND]
    BY DEF AllocBlock
  <2> HIDE DEF m
  <2>3. AllocBlock(s, new) \in [log : M, adr : A, ino : W, at : P, found : BOOLEAN]
        /\ AllocBlock(s, new).found = (s.found /\ new # NOT_FOUND)
    BY <2>1, <2>2
  <2> QED
    BY <2>3, Zenon DEF Later, IsScript
<1>4. \A b : Later(s, [s EXCEPT !.at = b])
  <2> TAKE b
  <2>1. [s EXCEPT !.at = b] \in [log : L, adr : A, ino : W, at : {b}, found : BOOLEAN]
        /\ [s EXCEPT !.at = b].found = s.found
    BY <1>0
  <2> QED
    BY <2>1, Zenon DEF Later, IsScript
<1>5. \A w : Later(s, [s EXCEPT !.ino = w])
  <2> TAKE w
  <2>1. [s EXCEPT !.ino = w] \in [log : L, adr : A, ino : {w}, at : P, found : BOOLEAN]
        /\ [s EXCEPT !.ino = w].found = s.found
    BY <1>0
  <2> QED
    BY <2>1, Zenon DEF Later, IsScript
<1> QED
  BY <1>0, <1>1, <1>2, <1>3, <1>4, <1>5, Zenon DEF MarkBlock, UnmarkBlock, WriteInode, Later, IsScript
-----------------------------------------------------------------------------
(* Going on twice is going on.                                             *)
LEMMA LaterTrans ==
    ASSUME NEW s, NEW t, NEW u, Later(s, t), Later(t, u)
    PROVE  Later(s, u)
  BY Zenon DEF Later

(* enlarge_file() goes on, and tells of a missing block.                   *)
LEMMA LaterEnlarge ==
    ASSUME NEW s, IsScript(s), NEW slot, NEW start
    PROVE  /\ Later(s, EnlargeFile(s, slot, start))
           /\ EnlargeFile(s, slot, start).found => GetFreeBlock(Now(s), start) # NOT_FOUND
<1> DEFINE new == GetFreeBlock(Now(s), start)
           a == AllocBlock(s, new)
           c == WrtBlock(a, new, Zero)
           t == [c EXCEPT !.at = new]
           u == [t EXCEPT !.ino = [t.ino EXCEPT !.ptr = [t.ino.ptr EXCEPT ![slot] = new]]]
           v == WrtBlock(t, s.at, [Sector(Now(s), s.at) EXCEPT !.ptr[slot] = new])
<1>0. EnlargeFile(s, slot, start) = IF s.at = s.adr THEN u ELSE v
  BY DEF EnlargeFile, AllocCleared
<1> HIDE DEF new
<1>1. Later(s, a) /\ (a.found => new # NOT_FOUND)
  BY LaterSteps, Zenon
<1> HIDE DEF a
<1>2. Later(a, c)
  BY <1>1, LaterSteps, Zenon DEF Later
<1> HIDE DEF c
<1>3. Later(c, t)
  BY <1>2, LaterSteps, Zenon DEF Later
<1> HIDE DEF t
<1>4. Later(t, u) /\ Later(t, v)
  <2>1. PICK w : u = [t EXCEPT !.ino = w]
    OBVIOUS
  <2>2. PICK b, x : v = WrtBlock(t, b, x)
    BY Zenon
  <2> HIDE DEF u, v
  <2>3. IsScript(t)
    BY <1>3 DEF Later
  <2>4. Later(t, [t EXCEPT !.ino = w]) /\ Later(t, WrtBlock(t, b, x))
    BY <2>3, LaterSteps, Zenon
  <2> QED
    BY <2>1, <2>2, <2>4
<1> HIDE DEF u, v
<1> QED
  BY <1>0, <1>1, <1>2, <1>3, <1>4, Zenon DEF Later, new

(* Following a pointer, which may be missing, goes on.                     *)
LEMMA LaterFollow ==
    ASSUME NEW s, IsScript(s), NEW slot, NEW start
    PROVE  Later(s, Follow(s, slot, start))
<1>1. \/ Follow(s, slot, start) = EnlargeFile(s, slot, start)
      \/ \E b : Follow(s, slot, start) = [s EXCEPT !.at = b]
  BY Zenon DEF Follow
<1> QED
  <2>1. CASE Follow(s, slot, start) = EnlargeFile(s, slot, start)
    BY <2>1, LaterEnlarge, Zenon
  <2>2. ASSUME NEW b, Follow(s, slot, start) = [s EXCEPT !.at = b] PROVE Later(s, Follow(s, slot, start))
    <3>1. Later(s, [s EXCEPT !.at = b])
      BY LaterSteps, Zenon
    <3> QED
      BY <2>2, <3>1
  <2> QED
    BY <1>1, <2>1, <2>2

(* get_data_block(), case by case.                                         *)
LEMMA GetDataBlockCases ==
    ASSUME NEW s, NEW pos \in Nat
    PROVE  LET blk_nr == pos \div BLOCK_SIZE
               single == blk_nr - NUM_DIRECT_POINTER
               double == single - ADDRS_PER_BLOCK
               inode  == [s EXCEPT !.at = s.adr]
               sip    == Follow(inode, SIP, s.adr)
               dip    == Follow(inode, DIP, s.adr)
               dipsip == Follow(dip, double \div ADDRS_PER_BLOCK, dip.at)
           IN  /\ blk_nr \in Nat
               /\ \/ single < 0 /\ GetDataBlock(s, pos) = WriteInode(Follow(inode, blk_nr, s.adr))
                  \/ single >= 0 /\ double < 0 /\ GetDataBlock(s, pos) = WriteInode(Follow(sip, single, sip.at))
                  \/ single >= 0 /\ double >= 0
                     /\ GetDataBlock(s, pos) = WriteInode(Follow(dipsip, double % ADDRS_PER_BLOCK, dip.at))
<1> DEFINE blk_nr == pos \div BLOCK_SIZE
           single == blk_nr - NUM_DIRECT_POINTER
           double == single - ADDRS_PER_BLOCK
           inode  == [s EXCEPT !.at = s.adr]
           sip    == Follow(inode, SIP, s.adr)
           dip    == Follow(inode, DIP, s.adr)
           dipsip == Follow(dip, double \div ADDRS_PER_BLOCK, dip.at)
           d1     == Follow(inode, blk_nr, s.adr)
           d2     == Follow(sip, single, sip.at)
           d3     == Follow(dipsip, double % ADDRS_PER_BLOCK, dip.at)
           t      == CASE single < 0 -> d1
                       [] single >= 0 /\ double < 0 -> d2
                       [] double >= 0 -> d3
<1>1. GetDataBlock(s, pos) = WriteInode(t)
  BY DEF GetDataBlock
<1>2. blk_nr \in Nat
  BY Constants
<1> HIDE DEF blk_nr
<1>3. single \in Int /\ double \in Int /\ (double >= 0 => single >= 0)
  BY <1>2, Constants
<1> HIDE DEF d1, d2, d3, single, double
<1>4. \/ single < 0 /\ t = d1
      \/ single >= 0 /\ double < 0 /\ t = d2
      \/ single >= 0 /\ double >= 0 /\ t = d3
  BY <1>3
<1> HIDE DEF t
<1> QED
  BY <1>1, <1>2, <1>4, Zenon DEF blk_nr, single, double, d1, d2, d3

(* get_data_block() and one chunk of fs_write() go on.                     *)
LEMMA LaterChunk ==
    ASSUME NEW s, IsScript(s), NEW pos \in Nat
    PROVE  Later(s, GetDataBlock(s, pos)) /\ Later(s, WriteChunk(s, pos))
<1> DEFINE blk_nr == pos \div BLOCK_SIZE
           single == blk_nr - NUM_DIRECT_POINTER
           double == single - ADDRS_PER_BLOCK
           inode  == [s EXCEPT !.at = s.adr]
           sip    == Follow(inode, SIP, s.adr)
           dip    == Follow(inode, DIP, s.adr)
           dipsip == Follow(dip, double \div ADDRS_PER_BLOCK, dip.at)
           d1     == Follow(inode, blk_nr, s.adr)
           d2     == Follow(sip, single, sip.at)
           d3     == Follow(dipsip, double % ADDRS_PER_BLOCK, dip.at)
<1>1. \E d \in {d1, d2, d3} : GetDataBlock(s, pos) = WriteInode(d)
  BY GetDataBlockCases, Zenon
<1>2. Later(s, inode)
  BY LaterSteps, Zenon
<1> HIDE DEF inode
<1>3. Later(inode, sip) /\ Later(inode, dip) /\ Later(inode, d1)
  BY <1>2, LaterFollow, Zenon DEF Later
<1> HIDE DEF sip, dip, d1
<1>4. Later(sip, d2) /\ Later(dip, dipsip)
  BY <1>3, LaterFollow, Zenon DEF Later
<1> HIDE DEF d2, dipsip
<1>5. Later(dipsip, d3)
  BY <1>4, LaterFollow, Zenon DEF Later
<1> HIDE DEF d3
<1>6. Later(s, d1) /\ Later(s, d2) /\ Later(s, d3)
  BY <1>2, <1>3, <1>4, <1>5, Zenon DEF Later
<1>7. Later(s, GetDataBlock(s, pos))
  <2>1. PICK d : Later(s, d) /\ GetDataBlock(s, pos) = WriteInode(d)
    BY <1>1, <1>6
  <2>2. Later(d, WriteInode(d))
    BY <2>1, LaterSteps, Zenon DEF Later
  <2> QED
    BY <2>1, <2>2, Zenon DEF Later
<1>8. Later(GetDataBlock(s, pos), WriteChunk(s, pos))
  BY <1>7, LaterSteps, Zenon DEF Later, WriteChunk
<1> QED
  BY <1>7, <1>8, Zenon DEF Later
-----------------------------------------------------------------------------
(* A disk with another bitmap, or with another block, field by field.      *)
LEMMA DiskUpdates ==
    ASSUME NEW d \in Disks
    PROVE  /\ d.marked \in SUBSET Blocks /\ d.block \in [Blocks -> Words]
           /\ \A S \in SUBSET Blocks :
                /\ [d EXCEPT !.marked = S] \in Disks
                /\ [d EXCEPT !.marked = S].marked = S
                /\ [d EXCEPT !.marked = S].block = d.block
           /\ \A b \in Blocks, w \in Words :
                /\ [d EXCEPT !.block[b] = w] \in Disks
                /\ [d EXCEPT !.block[b] = w].marked = d.marked
                /\ [d EXCEPT !.block[b] = w].block[b] = w
                /\ \A c \in Blocks \ {b} : [d EXCEPT !.block[b] = w].block[c] = d.block[c]
  BY DEF Disks

(* A block with another pointer, slot by slot.                             *)
LEMMA WordsUpdates ==
    ASSUME NEW w \in Words, NEW slot \in Slots, NEW b \in Blocks
    PROVE  /\ [w EXCEPT !.ptr[slot] = b] \in Words
           /\ [w EXCEPT !.ptr[slot] = b].size = w.size
           /\ [w EXCEPT !.ptr[slot] = b].ptr[slot] = b
           /\ \A i \in Slots \ {slot} : [w EXCEPT !.ptr[slot] = b].ptr[i] = w.ptr[i]
           /\ w.size \in Nat /\ \A i \in Slots : w.ptr[i] \in Blocks
  BY DEF Words

(* alloc_block() marks the block and changes nothing else.                 *)
LEMMA MarkIs ==
    ASSUME NEW s \in Scripts, NEW new \in Blocks
    PROVE  LET t == AllocBlock(s, new)
           IN  /\ t \in Scripts /\ Len(t.log) = Len(s.log) + 1
               /\ t.adr = s.adr /\ t.ino = s.ino /\ t.at = s.at
               /\ Now(t) \in Disks /\ Now(t).marked = Now(s).marked \cup {new} /\ Now(t).block = Now(s).block
               /\ AllGood(s) /\ Good(Now(t)) => AllGood(t)
<1> DEFINE d == [Now(s) EXCEPT !.marked = @ \cup {new}]
           m == Then(s, d)
           t == AllocBlock(s, new)
<1>1. d \in Disks /\ d.marked = Now(s).marked \cup {new} /\ d.block = Now(s).block
  <2>1. Now(s) \in Disks /\ Now(s).marked \cup {new} \in SUBSET Blocks
    BY ScriptFields
  <2> QED
    BY <2>1, DiskUpdates
<1>2. t = [m EXCEPT !.found = @ /\ new # NOT_FOUND]
  BY DEF AllocBlock, MarkBlock
<1> HIDE DEF d, t
<1>3. m \in Scripts /\ Now(m) = d /\ Len(m.log) = Len(s.log) + 1 /\ m.adr = s.adr /\ m.ino = s.ino /\ m.at = s.at
      /\ (AllGood(s) /\ Good(d) => AllGood(m))
  BY <1>1, ThenIs
<1> HIDE DEF m
<1>4. t \in Scripts /\ t.log = m.log /\ t.adr = m.adr /\ t.ino = m.ino /\ t.at = m.at
  BY <1>2, <1>3 DEF Scripts
<1>5. Now(t) = Now(m) /\ (AllGood(m) => AllGood(t))
  BY <1>4 DEF Now, AllGood
<1> QED
  BY <1>1, <1>3, <1>4, <1>5 DEF t

(* wrt_sector() changes the one block.                                     *)
LEMMA WrtIs ==
    ASSUME NEW s \in Scripts, NEW b \in Blocks, NEW w \in Words
    PROVE  LET t == WrtBlock(s, b, w)
           IN  /\ t \in Scripts /\ Len(t.log) = Len(s.log) + 1
               /\ t.adr = s.adr /\ t.ino = s.ino /\ t.at = s.at /\ t.found = s.found
               /\ Now(t) \in Disks /\ Now(t).marked = Now(s).marked
               /\ Now(t).block[b] = w
               /\ \A c \in Blocks \ {b} : Now(t).block[c] = Now(s).block[c]
               /\ AllGood(s) /\ Good(Now(t)) => AllGood(t)
<1> DEFINE d == [Now(s) EXCEPT !.block[b] = w]
<1>1. d \in Disks /\ d.marked = Now(s).marked /\ d.block[b] = w
      /\ \A c \in Blocks \ {b} : d.block[c] = Now(s).block[c]
  BY ScriptFields, DiskUpdates
<1>2. WrtBlock(s, b, w) = Then(s, d)
  BY DEF WrtBlock
<1> HIDE DEF d
<1> QED
  BY <1>1, <1>2, ThenIs

(* The operation turns to another block.                                   *)
LEMMA AtIs ==
    ASSUME NEW s \in Scripts, NEW b \in Blocks
    PROVE  LET t == [s EXCEPT !.at = b]
           IN  /\ t \in Scripts /\ t.log = s.log /\ t.adr = s.adr /\ t.ino = s.ino /\ t.at = b
               /\ t.found = s.found
               /\ Now(t) = Now(s) /\ Full(t) = Full(s) /\ (AllGood(s) => AllGood(t))
<1> DEFINE t == [s EXCEPT !.at = b]
<1>1. t \in Scripts /\ t.log = s.log /\ t.adr = s.adr /\ t.ino = s.ino /\ t.at = b /\ t.found = s.found
  BY DEF Scripts
<1> HIDE DEF t
<1>2. Now(t) = Now(s) /\ Full(t) = Full(s) /\ (AllGood(s) => AllGood(t))
  BY <1>1 DEF Now, Full, AllGood
<1> QED
  BY <1>1, <1>2 DEF t

(* The inode in memory changes, the disk does not.                         *)
LEMMA InoIs ==
    ASSUME NEW s \in Scripts, NEW w \in Words
    PROVE  LET t == [s EXCEPT !.ino = w]
           IN  /\ t \in Scripts /\ t.log = s.log /\ t.adr = s.adr /\ t.ino = w /\ t.at = s.at
               /\ t.found = s.found
               /\ Now(t) = Now(s) /\ (AllGood(s) => AllGood(t))
<1> DEFINE t == [s EXCEPT !.ino = w]
<1>1. t \in Scripts /\ t.log = s.log /\ t.adr = s.adr /\ t.ino = w /\ t.at = s.at /\ t.found = s.found
  BY DEF Scripts
<1> HIDE DEF t
<1>2. Now(t) = Now(s) /\ (AllGood(s) => AllGood(t))
  BY <1>1 DEF Now, AllGood
<1> QED
  BY <1>1, <1>2 DEF t

(* What an operation has reached: the block it is at has the role q.       *)
Reached(role, s, r, t, q) ==
    /\ Sound(r, t) /\ AllGood(t) /\ Extends(role, r)
    /\ r[t.at] = q
    /\ t.adr = s.adr /\ t.ino.size = s.ino.size

(* enlarge_file() leaves a good disk behind each of its sectors, and the   *)
(* new block has the role that its slot gives it, is empty and was free.   *)
LEMMA EnlargeSound ==
    ASSUME NEW role, NEW s, Sound(role, s), AllGood(s),
           NEW slot \in Used(role[s.at]), Full(s).block[s.at].ptr[slot] = NULL,
           NEW start, EnlargeFile(s, slot, start).found
    PROVE  LET t == EnlargeFile(s, slot, start)
           IN  \E r : /\ Reached(role, s, r, t, Below(role[s.at], slot))
                      /\ role[t.at] = "free"
                      /\ Full(t).block[t.at] = Zero
                      /\ \A b \in Blocks \ {s.at, t.at} : Full(t).block[b] = Full(s).block[b]
<1> DEFINE new == GetFreeBlock(Now(s), start)
           m == AllocBlock(s, new)
           c == WrtBlock(m, new, Zero)
           t0 == [c EXCEPT !.at = new]
           w == [t0.ino EXCEPT !.ptr[slot] = new]
           u == [t0 EXCEPT !.ino = w]
           w2 == [Sector(Now(s), s.at) EXCEPT !.ptr[slot] = new]
           v == WrtBlock(t0, s.at, w2)
           t == EnlargeFile(s, slot, start)
           r == [role EXCEPT ![new] = Below(role[s.at], slot)]
<1>0. t = IF s.at = s.adr THEN u ELSE v
  BY DEF EnlargeFile, AllocCleared
<1>1. s \in Scripts /\ Owned(role, Full(s)) /\ role[s.adr] \in {"root", "inode"}
      /\ \A i \in Slots : Now(s).block[s.adr].ptr[i] \in {NULL, s.ino.ptr[i]}
  BY DEF Sound
<1>2. IsScript(s)
  BY <1>1, Zenon DEF Scripts, IsScript
<1>3. new \in Blocks /\ new \notin Now(s).marked
  BY <1>2, LaterEnlarge, GetFreeBlockIs
<1> HIDE DEF new
<1>4. role \in [Blocks -> Roles] /\ slot \in Slots /\ s.at \in Blocks
  BY <1>1, ScriptFields, RoleSlots DEF Owned
<1>5. new # s.at /\ new # s.adr /\ role[new] = "free"
  <2>1. s.at \in Full(s).marked /\ s.adr \in Full(s).marked
    <3>1. role[s.at] # "free" /\ role[s.adr] # "free" /\ s.adr \in Blocks
      BY <1>1, RoleSlots, ScriptFields
    <3>2. \A b \in Blocks : role[b] # "free" => b \in Full(s).marked
      BY <1>1, Places DEF Owned
    <3> QED
      BY <1>4, <3>1, <3>2
  <2>2. role[new] = "free"
    BY <1>1, <1>3, FullFields, Places DEF Owned
  <2> QED
    BY <1>1, <1>3, <2>1, <2>2, FullFields
<1>6. m \in Scripts /\ m.adr = s.adr /\ m.ino = s.ino /\ Now(m).marked = Now(s).marked \cup {new}
      /\ Now(m).block = Now(s).block /\ (Good(Now(m)) => AllGood(m)) /\ Now(m) \in Disks
  BY <1>1, <1>3, MarkIs
<1>7. AllGood(m)
  <2>1. \A b \in Blocks : \A i \in Used(role[b]) : Now(s).block[b].ptr[i] \in {NULL, Full(s).block[b].ptr[i]}
    <3>1. \A b \in Blocks : \A i \in Used(role[b]) : i \in Slots
      BY <1>4, RoleSlots
    <3> QED
      BY <1>1, <3>1, FullFields
  <2>2. Owned(role, Now(m))
    BY <1>1, <1>6, <2>1, OwnedLess, FullFields
  <2> QED
    BY <1>6, <2>2 DEF Good
<1> HIDE DEF m
<1>8. c \in Scripts /\ c.adr = s.adr /\ c.ino = s.ino /\ Now(c).marked = Now(s).marked \cup {new}
      /\ Now(c).block[new] = Zero /\ (\A b \in Blocks \ {new} : Now(c).block[b] = Now(s).block[b])
      /\ (Good(Now(c)) => AllGood(c)) /\ Now(c) \in Disks
  BY <1>3, <1>6, <1>7, WrtIs, ZeroWords
<1> HIDE DEF c
<1>9. t0 \in Scripts /\ t0.adr = s.adr /\ t0.ino = s.ino /\ t0.at = new /\ Now(t0) = Now(c)
      /\ (AllGood(c) => AllGood(t0))
  BY <1>3, <1>8, AtIs
<1> HIDE DEF t0
<1>10. s.ino \in Words /\ s.adr \in Blocks /\ Zero \in Words /\ \A i \in Slots : Zero.ptr[i] = NULL
  BY <1>1, ScriptFields, ZeroWords DEF Zero
<1>11. \A b \in Blocks \ {s.adr} : Full(s).block[b] = Now(s).block[b]
  BY <1>1, FullFields
<1>12. Full(s).block[s.adr] = s.ino /\ Full(s) \in Disks /\ Full(s).marked = Now(s).marked
  BY <1>1, FullFields
<1>13. Extends(role, r) /\ r[new] = Below(role[s.at], slot)
  BY <1>4, <1>5, <1>3 DEF Extends
<1> DEFINE Linked(e) ==
        /\ e \in Disks /\ e.marked = Now(s).marked \cup {new}
        /\ e.block[new] = Zero
        /\ \A b \in Blocks \ {new} : \A i \in Slots :
                e.block[b].ptr[i] = IF b = s.at /\ i = slot THEN new ELSE Full(s).block[b].ptr[i]
<1>14. ASSUME NEW e, Linked(e) PROVE Owned(r, e)
  <2>1. new \notin Full(s).marked /\ e.marked = Full(s).marked \cup {new} /\ e \in Disks
        /\ (\A i \in Slots : e.block[new].ptr[i] = NULL)
        /\ \A b \in Blocks \ {new} : \A i \in Slots :
                e.block[b].ptr[i] = IF b = s.at /\ i = slot THEN new ELSE Full(s).block[b].ptr[i]
    BY <1>3, <1>10, <1>12, <1>14
  <2> HIDE DEF Linked
  <2> QED
    BY <1>1, <1>3, <1>4, <1>12, <2>1, OwnedMore, Zenon
<1>15. ASSUME NEW e, Linked(e) PROVE AllGood(c)
  <2>1. \A b \in Blocks : \A i \in Slots : Now(c).block[b].ptr[i] \in {NULL, e.block[b].ptr[i]}
    <3>1. \A i \in Slots : Now(c).block[new].ptr[i] = NULL
      BY <1>8, <1>10
    <3>2. \A b \in Blocks \ {new, s.adr} : \A i \in Slots : Now(c).block[b].ptr[i] \in {NULL, e.block[b].ptr[i]}
      BY <1>8, <1>11, <1>15
    <3>3. \A i \in Slots : Now(c).block[s.adr].ptr[i] \in {NULL, e.block[s.adr].ptr[i]}
      <4>1. \A i \in Slots : Now(c).block[s.adr].ptr[i] \in {NULL, s.ino.ptr[i]}
        BY <1>1, <1>5, <1>8, <1>10
      <4>2. \A i \in Slots :
                e.block[s.adr].ptr[i] = IF s.adr = s.at /\ i = slot THEN new ELSE s.ino.ptr[i]
        BY <1>5, <1>10, <1>12, <1>15
      <4>3. s.adr = s.at => s.ino.ptr[slot] = NULL
        BY <1>12
      <4> HIDE DEF Linked
      <4> QED
        BY <4>1, <4>2, <4>3
    <3> QED
      BY <3>1, <3>2, <3>3, <1>10
  <2>2. Owned(r, e) /\ \A b \in Blocks : \A i \in Used(r[b]) : i \in Slots
    BY <1>14, <1>15, RoleSlots DEF Owned
  <2>3. Owned(r, Now(c))
    BY <1>8, <1>15, <2>1, <2>2, OwnedLess
  <2> QED
    BY <1>8, <2>3 DEF Good
<1>16. CASE s.at = s.adr
  <2>1. w \in Words /\ w.size = s.ino.size /\ w.ptr[slot] = new
        /\ \A i \in Slots \ {slot} : w.ptr[i] = s.ino.ptr[i]
    BY <1>3, <1>4, <1>9, <1>10, WordsUpdates
  <2> HIDE DEF w
  <2>2. u \in Scripts /\ u.adr = s.adr /\ u.ino = w /\ u.at = new /\ Now(u) = Now(c)
        /\ (AllGood(c) => AllGood(u))
    BY <1>9, <2>1, InoIs
  <2> HIDE DEF u
  <2>3. Full(u).marked = Now(s).marked \cup {new} /\ Full(u).block[s.adr] = w
        /\ Full(u).block[new] = Zero /\ Full(u) \in Disks
        /\ \A b \in Blocks \ {s.adr, new} : Full(u).block[b] = Full(s).block[b]
    BY <1>3, <1>5, <1>8, <1>11, <2>2, FullFields
  <2>4. Linked(Full(u))
    BY <1>3, <1>5, <1>10, <1>12, <1>16, <2>1, <2>3
  <2> HIDE DEF Linked
  <2>5. \A i \in Slots : Now(u).block[u.adr].ptr[i] \in {NULL, u.ino.ptr[i]}
    BY <1>1, <1>5, <1>8, <1>10, <1>12, <1>16, <2>1, <2>2
  <2>6. r[u.adr] \in {"root", "inode"}
    BY <1>1, <1>10, <1>13, <2>2 DEF Extends
  <2>7. Sound(r, u)
    BY <1>14, <2>2, <2>4, <2>5, <2>6 DEF Sound
  <2>8. AllGood(u)
    BY <1>15, <2>2, <2>4
  <2> HIDE DEF r
  <2>9. EnlargeFile(s, slot, start) = u
    BY <1>0, <1>16
  <2>10. Reached(role, s, r, u, Below(role[s.at], slot))
    BY <1>13, <2>1, <2>2, <2>7, <2>8, Zenon DEF Reached
  <2>11. role[u.at] = "free" /\ Full(u).block[u.at] = Zero
         /\ \A b \in Blocks \ {s.at, u.at} : Full(u).block[b] = Full(s).block[b]
    BY <1>5, <1>16, <2>2, <2>3
  <2> QED
    BY <2>9, <2>10, <2>11, Zenon
<1>17. CASE s.at # s.adr
  <2>1. w2 \in Words /\ w2.ptr[slot] = new
        /\ \A i \in Slots \ {slot} : w2.ptr[i] = Full(s).block[s.at].ptr[i]
    <3>1. Sector(Now(s), s.at) = Full(s).block[s.at] /\ Full(s).block[s.at] \in Words
      BY <1>1, <1>4, <1>11, <1>17, FullFields DEF Sector
    <3> QED
      BY <1>3, <1>4, <3>1, WordsUpdates
  <2> HIDE DEF w2
  <2>2. v \in Scripts /\ v.adr = s.adr /\ v.ino = s.ino /\ v.at = new /\ Now(v).marked = Now(s).marked \cup {new}
        /\ Now(v).block[s.at] = w2 /\ (\A b \in Blocks \ {s.at} : Now(v).block[b] = Now(c).block[b])
        /\ (AllGood(c) /\ Good(Now(v)) => AllGood(v)) /\ Now(v) \in Disks
    <3>1. /\ v \in Scripts /\ v.adr = t0.adr /\ v.ino = t0.ino /\ v.at = t0.at
          /\ Now(v) \in Disks /\ Now(v).marked = Now(t0).marked
          /\ Now(v).block[s.at] = w2
          /\ \A b \in Blocks \ {s.at} : Now(v).block[b] = Now(t0).block[b]
          /\ AllGood(t0) /\ Good(Now(v)) => AllGood(v)
      BY <1>4, <1>9, <2>1, WrtIs
    <3> QED
      BY <1>8, <1>9, <3>1
  <2> HIDE DEF v
  <2>3. Full(v).marked = Now(s).marked \cup {new} /\ Full(v).block[s.adr] = s.ino
        /\ Full(v).block[new] = Zero /\ Full(v) \in Disks /\ Full(v).block[s.at] = w2
        /\ \A b \in Blocks \ {s.adr, s.at, new} : Full(v).block[b] = Full(s).block[b]
    BY <1>3, <1>4, <1>5, <1>8, <1>11, <1>17, <2>2, FullFields
  <2>4. Linked(Full(v))
    BY <1>3, <1>5, <1>10, <1>12, <1>17, <2>1, <2>3
  <2> HIDE DEF Linked
  <2>5. \A i \in Slots : Now(v).block[v.adr].ptr[i] \in {NULL, v.ino.ptr[i]}
    BY <1>1, <1>5, <1>8, <1>10, <1>17, <2>2
  <2>6. r[v.adr] \in {"root", "inode"}
    BY <1>1, <1>10, <1>13, <2>2 DEF Extends
  <2>7. Sound(r, v)
    BY <1>14, <2>2, <2>4, <2>5, <2>6 DEF Sound
  <2>8. AllGood(v)
    BY <1>15, <2>2, <2>4, <2>7, SoundNow
  <2>12. \A b \in Blocks \ {s.at, new} : Full(v).block[b] = Full(s).block[b]
    BY <1>12, <2>3
  <2> HIDE DEF r
  <2>9. EnlargeFile(s, slot, start) = v
    BY <1>0, <1>17
  <2>10. Reached(role, s, r, v, Below(role[s.at], slot))
    BY <1>13, <2>2, <2>7, <2>8, Zenon DEF Reached
  <2>11. role[v.at] = "free" /\ Full(v).block[v.at] = Zero
         /\ \A b \in Blocks \ {s.at, v.at} : Full(v).block[b] = Full(s).block[b]
    BY <1>5, <2>2, <2>3, <2>12
  <2> QED
    BY <2>9, <2>10, <2>11, Zenon
<1> QED
  BY <1>16, <1>17
-----------------------------------------------------------------------------
(* So does following a pointer, whether the block is there or is           *)
(* allocated.                                                              *)
LEMMA FollowSound ==
    ASSUME NEW role, NEW s, Sound(role, s), AllGood(s),
           NEW slot \in Used(role[s.at]), NEW start, Follow(s, slot, start).found
    PROVE  \E r : Reached(role, s, r, Follow(s, slot, start), Below(role[s.at], slot))
<1> DEFINE words == IF s.at = s.adr THEN s.ino ELSE Sector(Now(s), s.at)
           p == words.ptr[slot]
           t == [s EXCEPT !.at = p]
<1>1. s \in Scripts /\ Owned(role, Full(s)) /\ s.at \in Blocks /\ role \in [Blocks -> Roles]
  BY ScriptFields DEF Sound, Owned
<1>2. words = Full(s).block[s.at]
  BY <1>1, FullFields DEF Sector
<1>3. Follow(s, slot, start) = IF p = NULL THEN EnlargeFile(s, slot, start) ELSE t
  BY DEF Follow
<1> HIDE DEF words
<1>4. CASE p = NULL
  BY <1>2, <1>3, <1>4, EnlargeSound
<1>5. CASE p # NULL
  <2>1. p \in Blocks /\ role[p] = Below(role[s.at], slot)
    <3>1. slot \in Slots
      BY <1>1, RoleSlots
    <3>2. Full(s).block[s.at].ptr[slot] \in Blocks
      BY <1>1, <3>1, FullFields DEF Words
    <3> QED
      BY <1>1, <1>2, <1>5, <3>2 DEF Owned
  <2> HIDE DEF p
  <2>2. t \in Scripts /\ t.adr = s.adr /\ t.ino = s.ino /\ t.at = p /\ Now(t) = Now(s)
        /\ Full(t) = Full(s) /\ AllGood(t)
    BY <1>1, <2>1, AtIs
  <2> HIDE DEF t
  <2>3. Sound(role, t)
    BY <2>2 DEF Sound
  <2>4. Reached(role, s, role, t, Below(role[s.at], slot))
    BY <2>1, <2>2, <2>3 DEF Reached, Extends
  <2> QED
    BY <1>3, <1>5, <2>4
<1> QED
  BY <1>4, <1>5

(* What is reached from what was reached is reached.                       *)
LEMMA ReachedTrans ==
    ASSUME NEW role, NEW s, NEW r, NEW t, NEW p, NEW u, NEW v, NEW q,
           Reached(role, s, r, t, p), Reached(r, t, u, v, q)
    PROVE  Reached(role, s, u, v, q)
<1>1. \A b \in Blocks : role[b] # "free" => u[b] = role[b]
  BY DEF Reached, Extends
<1> QED
  BY <1>1, Zenon DEF Reached, Extends

(* The same before the inode is written, whose old pointers may lead to    *)
(* blocks that are already free.                                           *)
Whole(role, s) == s \in Scripts /\ Owned(role, Full(s)) /\ role[s.adr] \in {"root", "inode"}

(* Writing the inode brings the disk to what it was to become.             *)
LEMMA InodeWritten ==
    ASSUME NEW role, NEW s, Whole(role, s)
    PROVE  LET t == WriteInode(s)
           IN  /\ Sound(role, t) /\ (AllGood(s) => AllGood(t))
               /\ Now(t) = Full(s) /\ Full(t) = Full(s) /\ Len(t.log) = Len(s.log) + 1
               /\ t.adr = s.adr /\ t.ino = s.ino /\ t.at = s.at /\ t.found = s.found
<1> DEFINE t == WriteInode(s)
<1>1. s \in Scripts /\ Full(s) \in Disks /\ Good(Full(s)) /\ role[s.adr] \in {"root", "inode"}
      /\ Owned(role, Full(s))
  BY FullFields DEF Whole, Good
<1>2. t = Then(s, Full(s))
  BY DEF WriteInode, WrtBlock, Full
<1> HIDE DEF t
<1>3. t \in Scripts /\ Now(t) = Full(s) /\ Len(t.log) = Len(s.log) + 1
      /\ t.adr = s.adr /\ t.ino = s.ino /\ t.at = s.at /\ t.found = s.found /\ (AllGood(s) => AllGood(t))
  BY <1>1, <1>2, ThenIs
<1>4. Full(t) = Full(s)
  <2>1. Full(t).marked = Full(s).marked /\ \A b \in Blocks : Full(t).block[b] = Full(s).block[b]
    BY <1>1, <1>3, FullFields
  <2>2. Full(t) \in Disks
    BY <1>3, FullFields
  <2> QED
    BY <1>1, <2>1, <2>2 DEF Disks
<1>5. \A i \in Slots : Now(t).block[t.adr].ptr[i] \in {NULL, t.ino.ptr[i]}
  BY <1>1, <1>3, FullFields
<1>6. Sound(role, t)
  BY <1>1, <1>3, <1>4, <1>5 DEF Sound
<1> QED
  BY <1>3, <1>4, <1>6 DEF t

(* Dividing by what a block holds.                                         *)
LEMMA Quotient ==
    ASSUME NEW n \in Nat, NEW d \in Nat \ {0}
    PROVE  /\ n \div d \in Nat /\ n % d \in 0 .. d - 1
           /\ n = d * (n \div d) + (n % d)
  OBVIOUS

(* A number below d * m is in one of the first m groups of d.              *)
LEMMA QuotientBelow ==
    ASSUME NEW n \in Nat, NEW d \in Nat \ {0}, NEW m \in Nat, n < d * m
    PROVE  n \div d < m
  BY Quotient

(* get_data_block() reaches a data block, through the inode, through one   *)
(* or through two address blocks, and has written the inode.               *)
LEMMA GetDataBlockSound ==
    ASSUME NEW role, NEW s, Sound(role, s), AllGood(s), role[s.adr] = "inode",
           NEW pos \in Nat, pos \div BLOCK_SIZE < MaxBlocks, GetDataBlock(s, pos).found
    PROVE  LET t == GetDataBlock(s, pos)
           IN  /\ \E r : Reached(role, s, r, t, "data")
               /\ Now(t) = Full(t) /\ Len(t.log) >= 2
<1> DEFINE blk_nr == pos \div BLOCK_SIZE
           single == blk_nr - NUM_DIRECT_POINTER
           double == single - ADDRS_PER_BLOCK
           row == double \div ADDRS_PER_BLOCK
           col == double % ADDRS_PER_BLOCK
           inode  == [s EXCEPT !.at = s.adr]
           sip    == Follow(inode, SIP, s.adr)
           dip    == Follow(inode, DIP, s.adr)
           dipsip == Follow(dip, row, dip.at)
           d1     == Follow(inode, blk_nr, s.adr)
           d2     == Follow(sip, single, sip.at)
           d3     == Follow(dipsip, col, dip.at)
           t      == GetDataBlock(s, pos)
<1>1. /\ blk_nr \in Nat
      /\ \/ single < 0 /\ t = WriteInode(d1)
         \/ single >= 0 /\ double < 0 /\ t = WriteInode(d2)
         \/ single >= 0 /\ double >= 0 /\ t = WriteInode(d3)
  BY GetDataBlockCases
<1>2. /\ single < 0 => blk_nr \in 0 .. NUM_DIRECT_POINTER - 1
      /\ single >= 0 /\ double < 0 => single \in 0 .. ADDRS_PER_BLOCK - 1
      /\ double >= 0 => row \in 0 .. ADDRS_PER_BLOCK - 1 /\ col \in 0 .. ADDRS_PER_BLOCK - 1
  <2>1. blk_nr \in Nat /\ single \in Int /\ double \in Int
    BY <1>1, Constants
  <2>2. double >= 0 => double \in Nat /\ double < ADDRS_PER_BLOCK * ADDRS_PER_BLOCK
    BY <1>1, Constants DEF MaxBlocks
  <2> HIDE DEF double
  <2>3. double >= 0 => row \in 0 .. ADDRS_PER_BLOCK - 1 /\ col \in 0 .. ADDRS_PER_BLOCK - 1
    <3> SUFFICES ASSUME double >= 0 PROVE row \in 0 .. ADDRS_PER_BLOCK - 1 /\ col \in 0 .. ADDRS_PER_BLOCK - 1
      OBVIOUS
    <3>1. row \in Nat /\ col \in 0 .. ADDRS_PER_BLOCK - 1
      BY <2>2, Constants, Quotient
    <3>2. row < ADDRS_PER_BLOCK
      BY <2>2, Constants, QuotientBelow
    <3> HIDE DEF row, col
    <3> QED
      BY <3>1, <3>2, Constants
  <2> HIDE DEF blk_nr, row, col
  <2>4. single < 0 => blk_nr \in 0 .. NUM_DIRECT_POINTER - 1
    BY <2>1, Constants
  <2>5. single >= 0 /\ double < 0 => single \in 0 .. ADDRS_PER_BLOCK - 1
    BY <2>1, Constants DEF double
  <2> QED
    BY <2>3, <2>4, <2>5
<1>3. s \in Scripts /\ s.adr \in Blocks /\ IsScript(s)
  <2>1. s \in Scripts
    BY DEF Sound
  <2> QED
    BY <2>1, ScriptFields, Zenon DEF Scripts, IsScript
<1>4. inode \in Scripts /\ inode.adr = s.adr /\ inode.ino = s.ino /\ inode.at = s.adr /\ Now(inode) = Now(s)
      /\ Full(inode) = Full(s) /\ AllGood(inode)
  BY <1>3, AtIs
<1>5. IsScript(inode)
  BY <1>3, LaterSteps, Zenon DEF Later
<1> HIDE DEF inode, row, col
<1>6. Sound(role, inode) /\ role[inode.at] = "inode" /\ Reached(role, s, role, inode, "inode")
  <2>1. Sound(role, inode)
    BY <1>4 DEF Sound
  <2> QED
    BY <1>4, <2>1 DEF Reached, Extends
<1>7. Later(inode, sip) /\ Later(inode, dip) /\ Later(inode, d1)
  BY <1>5, LaterFollow, Zenon
<1>8. ASSUME d1.found, single < 0 PROVE \E r : Reached(role, s, r, d1, "data")
  <2>1. blk_nr \in Used("inode") /\ Below("inode", blk_nr) = "data"
    BY <1>2, <1>8, RoleSlots, RoleBelow, Constants DEF InodeSlots, SIP, DIP
  <2> HIDE DEF blk_nr, d1
  <2>2. \E r : Reached(role, inode, r, d1, "data")
    BY <1>4, <1>6, <1>8, <2>1, FollowSound DEF d1
  <2> QED
    BY <1>6, <2>2, ReachedTrans
<1> HIDE DEF d1
<1>9. ASSUME d2.found, single >= 0, double < 0 PROVE \E r : Reached(role, s, r, d2, "data")
  <2>1. single \in Used("single") /\ Below("single", single) = "data"
    BY <1>2, <1>9, RoleSlots, RoleBelow
  <2> HIDE DEF single, double
  <2>2. Later(sip, d2)
    BY <1>7, LaterFollow, Zenon DEF Later
  <2>3. sip.found
    BY <1>9, <2>2 DEF Later
  <2>4. SIP \in Used("inode") /\ Below("inode", SIP) = "single"
    BY Places, RoleSlots, RoleBelow
  <2>5. PICK r : Reached(role, inode, r, sip, "single")
    BY <1>4, <1>6, <2>3, <2>4, FollowSound
  <2> HIDE DEF sip
  <2>6. Sound(r, sip) /\ AllGood(sip) /\ r[sip.at] = "single"
    BY <2>5 DEF Reached
  <2>7. PICK u : Reached(r, sip, u, d2, "data")
    BY <1>9, <2>1, <2>6, FollowSound
  <2> HIDE DEF d2
  <2> QED
    BY <1>6, <2>5, <2>7, ReachedTrans
<1> HIDE DEF sip, d2
<1>10. ASSUME d3.found, double >= 0 PROVE \E r : Reached(role, s, r, d3, "data")
  <2>1. row \in Used("double") /\ Below("double", row) = "single"
        /\ col \in Used("single") /\ Below("single", col) = "data"
    BY <1>2, <1>10, RoleSlots, RoleBelow
  <2> HIDE DEF double
  <2>2. Later(dip, dipsip)
    BY <1>7, LaterFollow, Zenon DEF Later
  <2>3. Later(dipsip, d3)
    BY <2>2, LaterFollow, Zenon DEF Later
  <2>4. dip.found /\ dipsip.found
    BY <1>10, <2>2, <2>3 DEF Later
  <2>5. DIP \in Used("inode") /\ Below("inode", DIP) = "double"
    BY Places, RoleSlots, RoleBelow
  <2>6. PICK r : Reached(role, inode, r, dip, "double")
    BY <1>4, <1>6, <2>4, <2>5, FollowSound
  <2> HIDE DEF dip
  <2>7. Sound(r, dip) /\ AllGood(dip) /\ r[dip.at] = "double"
    BY <2>6 DEF Reached
  <2>8. PICK u : Reached(r, dip, u, dipsip, "single")
    BY <2>1, <2>4, <2>7, FollowSound
  <2> HIDE DEF dipsip
  <2>9. Sound(u, dipsip) /\ AllGood(dipsip) /\ u[dipsip.at] = "single"
    BY <2>8 DEF Reached
  <2>10. PICK v : Reached(u, dipsip, v, d3, "data")
    BY <1>10, <2>1, <2>9, FollowSound
  <2> HIDE DEF d3
  <2>11. Reached(role, s, r, dip, "double")
    BY <1>6, <2>6, ReachedTrans
  <2>12. Reached(role, s, u, dipsip, "single")
    BY <2>8, <2>11, ReachedTrans
  <2> QED
    BY <2>10, <2>12, ReachedTrans
<1> HIDE DEF dip, dipsip, d3
<1>11. PICK d : t = WriteInode(d) /\ (d.found => \E r : Reached(role, s, r, d, "data")) /\ IsScript(d)
  <2>1. IsScript(d1) /\ IsScript(d2) /\ IsScript(d3)
    <3>1. Later(sip, d2)
      BY <1>7, LaterFollow, Zenon DEF Later, d2
    <3>2. Later(dip, dipsip)
      BY <1>7, LaterFollow, Zenon DEF Later, dipsip
    <3>3. Later(dipsip, d3)
      BY <3>2, LaterFollow, Zenon DEF Later, d3
    <3> QED
      BY <1>7, <3>1, <3>3 DEF Later
  <2> HIDE DEF t, single, double
  <2> QED
    BY <1>1, <1>8, <1>9, <1>10, <2>1
<1>12. d.found
  BY <1>11, LaterSteps, Zenon DEF Later
<1>13. PICK r : Reached(role, s, r, d, "data")
  BY <1>11, <1>12
<1>14. Sound(r, d) /\ AllGood(d) /\ r[d.at] = "data" /\ d \in Scripts /\ Len(d.log) \in Nat \ {0}
  BY <1>13, ScriptFields DEF Reached, Sound
<1>15. Reached(r, d, r, t, "data") /\ Now(t) = Full(t) /\ Len(t.log) = Len(d.log) + 1
  <2>1. Whole(r, d)
    BY <1>14 DEF Sound, Whole
  <2>2. Sound(r, t) /\ AllGood(t) /\ Now(t) = Full(d) /\ Full(t) = Full(d) /\ Len(t.log) = Len(d.log) + 1
        /\ t.adr = d.adr /\ t.ino = d.ino /\ t.at = d.at
    BY <1>11, <1>14, <2>1, InodeWritten
  <2> HIDE DEF t
  <2> QED
    BY <1>14, <2>2 DEF Reached, Extends
<1> HIDE DEF t
<1>16. Reached(role, s, r, t, "data")
  BY <1>13, <1>15, ReachedTrans
<1>17. Len(t.log) >= 2
  BY <1>14, <1>15
<1> QED
  BY <1>15, <1>16, <1>17 DEF t
-----------------------------------------------------------------------------
(* A multiple divided by its divisor.                                      *)
LEMMA Multiple ==
    ASSUME NEW q \in Nat, NEW d \in Nat \ {0}
    PROVE  d * q \in Nat /\ (d * q) \div d = q
  OBVIOUS

(* Division keeps the order.                                               *)
LEMMA QuotientMonotone ==
    ASSUME NEW m \in Nat, NEW n \in Nat, m <= n, NEW d \in Nat \ {0}
    PROVE  m \div d <= n \div d
  OBVIOUS

(* An operation on a good disk begins soundly.                             *)
LEMMA BeginSound ==
    ASSUME NEW role, NEW d \in Disks, Owned(role, d), NEW f \in Blocks, role[f] \in {"root", "inode"}
    PROVE  LET s == Begin(<<d>>, f)
           IN  /\ Sound(role, s) /\ AllGood(s) /\ s.adr = f /\ s.at = f /\ s.ino = d.block[f] /\ s.found
               /\ Now(s) = d /\ Full(s) = d /\ s.log = <<d>> /\ Len(s.log) = 1 /\ IsScript(s)
<1> DEFINE s == Begin(<<d>>, f)
<1>1. d.block \in [Blocks -> Words]
  BY DEF Disks
<1>2. s = [log |-> <<d>>, adr |-> f, ino |-> d.block[f], at |-> f, found |-> TRUE]
  BY DEF Begin, Sector
<1> HIDE DEF s
<1>3. <<d>> \in Seq(Disks) /\ <<d>> # <<>> /\ Len(<<d>>) = 1 /\ <<d>>[1] = d /\ d.block[f] \in Words
  BY <1>1
<1>4. s \in Scripts /\ s.adr = f /\ s.at = f /\ s.ino = d.block[f] /\ s.found /\ s.log = <<d>>
  BY <1>2, <1>3 DEF Scripts
<1>5. Now(s) = d
  BY <1>3, <1>4 DEF Now
<1>6. Full(s) = d
  <2>1. Full(s).marked = d.marked /\ (\A b \in Blocks : Full(s).block[b] = d.block[b]) /\ Full(s) \in Disks
    BY <1>4, <1>5, FullFields
  <2> QED
    BY <1>1, <2>1 DEF Disks
<1>7. AllGood(s)
  BY <1>4 DEF AllGood, Good
<1>8. Sound(role, s)
  BY <1>4, <1>5, <1>6 DEF Sound
<1>9. IsScript(s)
  BY <1>4, Zenon DEF Scripts, IsScript
<1> QED
  BY <1>3, <1>4, <1>5, <1>6, <1>7, <1>8, <1>9 DEF s

(* A new size changes no pointer.                                          *)
LEMMA ResizedSound ==
    ASSUME NEW role, NEW s, Whole(role, s), NEW size \in Nat
    PROVE  LET t == Resized(s, size)
           IN  /\ Sound(role, t) /\ (AllGood(s) => AllGood(t)) /\ Now(t) = Full(t) /\ Len(t.log) = Len(s.log) + 1
               /\ t.adr = s.adr /\ t.at = s.at /\ t.found = s.found
               /\ Full(t).marked = Full(s).marked
               /\ \A b \in Blocks : Full(t).block[b].ptr = Full(s).block[b].ptr
<1> DEFINE w == [s.ino EXCEPT !.size = size]
           u == [s EXCEPT !.ino = w]
           t == Resized(s, size)
<1>1. t = WriteInode(u)
  BY DEF Resized
<1>2. s \in Scripts /\ w \in Words /\ w.ptr = s.ino.ptr
  BY ScriptFields DEF Whole, Words
<1> HIDE DEF w
<1>3. u \in Scripts /\ u.log = s.log /\ u.adr = s.adr /\ u.ino = w /\ u.at = s.at /\ u.found = s.found
      /\ Now(u) = Now(s) /\ (AllGood(s) => AllGood(u))
  BY <1>2, InoIs
<1> HIDE DEF u, t
<1>4. Full(u) \in Disks /\ Full(s) \in Disks
      /\ Full(u).marked = Full(s).marked /\ \A b \in Blocks : Full(u).block[b].ptr = Full(s).block[b].ptr
  BY <1>2, <1>3, FullFields
<1>5. Owned(role, Full(u))
  <2>1. Owned(role, Full(s))
    BY DEF Whole
  <2>2. \A b \in Blocks : \A i \in Used(role[b]) :
            Full(u).block[b].ptr[i] \in {NULL, Full(s).block[b].ptr[i]}
    BY <1>4
  <2> QED
    BY <1>4, <2>1, <2>2, OwnedLess
<1>6. Whole(role, u)
  BY <1>2, <1>3, <1>5 DEF Whole
<1>7. Sound(role, t) /\ (AllGood(u) => AllGood(t)) /\ Now(t) = Full(u) /\ Full(t) = Full(u)
      /\ Len(t.log) = Len(u.log) + 1 /\ t.adr = u.adr /\ t.at = u.at /\ t.found = u.found
  BY <1>1, <1>6, InodeWritten
<1> QED
  BY <1>3, <1>4, <1>7 DEF t

(* A chunk of fs_write() leaves a good disk behind each of its sectors:    *)
(* the user data goes where no pointers are read.                          *)
LEMMA WriteChunkSound ==
    ASSUME NEW role, NEW s, Sound(role, s), AllGood(s), role[s.adr] = "inode",
           NEW pos \in Nat, pos \div BLOCK_SIZE < MaxBlocks, WriteChunk(s, pos).found
    PROVE  LET t == WriteChunk(s, pos)
           IN  \E r : Reached(role, s, r, t, "data") /\ Len(t.log) >= 2
<1> DEFINE g == GetDataBlock(s, pos)
           t == WrtBlock(g, g.at, UserData)
<1>1. s \in Scripts /\ IsScript(s) /\ s.adr \in Blocks
  <2>1. s \in Scripts
    BY DEF Sound
  <2> QED
    BY <2>1, ScriptFields, Zenon DEF Scripts, IsScript
<1>2. WriteChunk(s, pos) = t
  BY DEF WriteChunk
<1>3. IsScript(g)
  BY <1>1, LaterChunk DEF Later
<1>4. g.found
  BY <1>2, <1>3, LaterSteps DEF Later
<1>5. PICK r : Reached(role, s, r, g, "data")
  BY <1>4, GetDataBlockSound
<1>6. Now(g) = Full(g) /\ Len(g.log) >= 2
  BY <1>4, GetDataBlockSound
<1> HIDE DEF g
<1>7. Sound(r, g) /\ AllGood(g) /\ r[g.at] = "data" /\ g.adr = s.adr /\ r[s.adr] = "inode" /\ Extends(role, r)
      /\ g.ino.size = s.ino.size
  BY <1>1, <1>5 DEF Reached, Extends
<1>8. g \in Scripts /\ Owned(r, Full(g)) /\ g.at \in Blocks /\ g.adr \in Blocks /\ Len(g.log) \in Nat /\ g.at # g.adr
  BY <1>7, ScriptFields DEF Sound
<1>9. /\ t \in Scripts /\ Len(t.log) = Len(g.log) + 1
      /\ t.adr = g.adr /\ t.ino = g.ino /\ t.at = g.at
      /\ Now(t) \in Disks /\ Now(t).marked = Now(g).marked
      /\ (\A c \in Blocks \ {g.at} : Now(t).block[c] = Now(g).block[c])
      /\ (AllGood(g) /\ Good(Now(t)) => AllGood(t))
  BY <1>8, WrtIs, ZeroWords
<1> HIDE DEF t
<1>10. Full(t) \in Disks /\ Full(g) \in Disks /\ Full(t).marked = Full(g).marked
       /\ \A b \in Blocks \ {g.at} : Full(t).block[b] = Full(g).block[b]
  BY <1>8, <1>9, FullFields
<1>11. Owned(r, Full(t))
  <2>1. \A b \in Blocks : \A i \in Used(r[b]) : Full(t).block[b].ptr[i] \in {NULL, Full(g).block[b].ptr[i]}
    BY <1>7, <1>10, RoleSlots
  <2> QED
    BY <1>8, <1>10, <2>1, OwnedLess
<1>12. Sound(r, t)
  <2>1. \A i \in Slots : Now(t).block[t.adr].ptr[i] \in {NULL, t.ino.ptr[i]}
    BY <1>7, <1>8, <1>9 DEF Sound
  <2> QED
    BY <1>7, <1>9, <1>11, <2>1 DEF Sound
<1>13. AllGood(t)
  BY <1>7, <1>9, <1>12, SoundNow
<1>14. Reached(role, s, r, t, "data") /\ Len(t.log) >= 2
  <2>1. Len(t.log) >= 2
    BY <1>6, <1>8, <1>9
  <2> QED
    BY <1>7, <1>9, <1>12, <1>13, <2>1, Zenon DEF Reached
<1> QED
  BY <1>2, <1>14

(* Each of the chunks, as long as they are within what a file can hold.    *)
LEMMA WrittenSound ==
    ASSUME NEW role, NEW d \in Disks, Owned(role, d), NEW f \in Blocks, role[f] = "inode",
           NEW pos \in Nat, NEW k \in Nat, k >= 1, pos \div BLOCK_SIZE + k <= MaxBlocks,
           Written(<<d>>, f, pos)[k].found
    PROVE  \E r : /\ Sound(r, Written(<<d>>, f, pos)[k]) /\ AllGood(Written(<<d>>, f, pos)[k])
                  /\ Len(Written(<<d>>, f, pos)[k].log) >= 2
<1> DEFINE W == Written(<<d>>, f, pos)
           first == pos \div BLOCK_SIZE
           T == {i \in Nat : /\ IsScript(W[i])
                             /\ W[i].found /\ first + i <= MaxBlocks =>
                                    \E r : /\ Sound(r, W[i]) /\ AllGood(W[i])
                                           /\ W[i].adr = f /\ r[f] = "inode"
                                           /\ i >= 1 => Len(W[i].log) >= 2}
<1>1. W[0] = Begin(<<d>>, f) /\ \A i \in Nat \ {0} : W[i] = WriteChunk(W[i - 1], ChunkAt(pos, i))
  BY WrittenSteps
<1> HIDE DEF W
<1>2. 0 \in T
  BY <1>1, BeginSound
<1>3. first \in Nat /\ MaxBlocks \in Nat
  BY Constants DEF MaxBlocks
<1>4. \A i \in Nat \ {0} : ChunkAt(pos, i) \in Nat /\ ChunkAt(pos, i) \div BLOCK_SIZE = first + i - 1
  <2> TAKE i \in Nat \ {0}
  <2>1. CASE i = 1
    BY <1>3, <2>1 DEF ChunkAt
  <2>2. CASE i # 1
    <3>1. ChunkAt(pos, i) = BLOCK_SIZE * (first + i - 1)
      BY <2>2 DEF ChunkAt
    <3> HIDE DEF first
    <3>2. first + i - 1 \in Nat
      BY <1>3
    <3> QED
      BY <3>1, <3>2, Constants, Multiple
  <2> QED
    BY <2>1, <2>2
<1> HIDE DEF first
<1>5. ASSUME NEW i \in Nat, i \in T PROVE i + 1 \in T
  <2>1. W[i + 1] = WriteChunk(W[i], ChunkAt(pos, i + 1)) /\ ChunkAt(pos, i + 1) \in Nat
        /\ ChunkAt(pos, i + 1) \div BLOCK_SIZE = first + i
    BY <1>1, <1>3, <1>4
  <2>2. IsScript(W[i]) /\ Later(W[i], W[i + 1])
    BY <1>5, <2>1, LaterChunk
  <2> SUFFICES ASSUME W[i + 1].found, first + (i + 1) <= MaxBlocks
               PROVE  \E r : /\ Sound(r, W[i + 1]) /\ AllGood(W[i + 1])
                             /\ W[i + 1].adr = f /\ r[f] = "inode"
                             /\ Len(W[i + 1].log) >= 2
    BY <2>2 DEF Later
  <2>3. W[i].found /\ first + i <= MaxBlocks /\ first + i < MaxBlocks
    BY <1>3, <2>2 DEF Later
  <2>4. PICK r : Sound(r, W[i]) /\ AllGood(W[i]) /\ W[i].adr = f /\ r[f] = "inode"
    BY <1>5, <2>3
  <2>5. PICK u : Reached(r, W[i], u, W[i + 1], "data") /\ Len(W[i + 1].log) >= 2
    BY <2>1, <2>3, <2>4, WriteChunkSound
  <2>6. Sound(u, W[i + 1]) /\ AllGood(W[i + 1]) /\ W[i + 1].adr = f /\ u[f] = "inode"
    BY <2>4, <2>5 DEF Reached, Extends
  <2> QED
    BY <2>5, <2>6
<1> HIDE DEF T
<1>6. k \in T
  BY <1>2, <1>5, InductionOnSet
<1>7. first + k <= MaxBlocks /\ W[k].found
  BY DEF first, W
<1>8. \E r : Sound(r, W[k]) /\ AllGood(W[k]) /\ Len(W[k].log) >= 2
  BY <1>6, <1>7 DEF T
<1> QED
  BY <1>8 DEF W

(* What fs_write() did so far is a script, whatever it found.              *)
LEMMA WrittenIsScript ==
    ASSUME NEW d, NEW f, NEW pos \in Nat, NEW k \in Nat, IsScript(Begin(<<d>>, f))
    PROVE  IsScript(Written(<<d>>, f, pos)[k])
<1> DEFINE W == Written(<<d>>, f, pos)
           T == {i \in Nat : IsScript(W[i])}
<1>1. W[0] = Begin(<<d>>, f) /\ \A i \in Nat \ {0} : W[i] = WriteChunk(W[i - 1], ChunkAt(pos, i))
  BY WrittenSteps
<1> HIDE DEF W
<1>2. ASSUME NEW i \in Nat, i \in T PROVE i + 1 \in T
  <2>1. ChunkAt(pos, i + 1) \in Nat
    BY Constants, Quotient DEF ChunkAt
  <2>2. W[i + 1] = WriteChunk(W[i], ChunkAt(pos, i + 1))
    BY <1>1
  <2> QED
    BY <1>2, <2>1, <2>2, LaterChunk DEF Later
<1>3. 0 \in T
  BY <1>1
<1> HIDE DEF T
<1>4. k \in T
  BY <1>2, <1>3, InductionOnSet
<1> QED
  BY <1>4 DEF T, W

(* fs_write() leaves a good disk behind each of its sectors.               *)
LEMMA FsWriteSound ==
    ASSUME NEW role, NEW d \in Disks, Owned(role, d), NEW f \in Blocks, role[f] = "inode",
           NEW pos \in Nat, pos < MaxSize, NEW n \in Nat \ {0}, FsWrite(<<d>>, f, pos, n).found
    PROVE  LET t == FsWrite(<<d>>, f, pos, n)
           IN  t \in Scripts /\ AllGood(t) /\ Len(t.log) >= 2
<1> DEFINE first == pos \div BLOCK_SIZE
           last == (pos + n - 1) \div BLOCK_SIZE
           k == last - first + 1
           l == MaxBlocks - first
           s == Written(<<d>>, f, pos)[k]
           z == Written(<<d>>, f, pos)[l]
           v == Resized(s, SizeOf(s, pos + n))
           t == FsWrite(<<d>>, f, pos, n)
<1>1. t = IF last < MaxBlocks THEN v ELSE z
  BY DEF FsWrite
<1>2. first \in Nat /\ last \in Nat /\ first <= last
  <2>1. pos + n - 1 \in Nat /\ pos <= pos + n - 1
    OBVIOUS
  <2>2. first \in Nat /\ last \in Nat
    BY <2>1, Constants, Quotient
  <2>3. first <= last
    BY <2>1, Constants, QuotientMonotone
  <2> QED
    BY <2>2, <2>3
<1>3. MaxBlocks \in Nat /\ first < MaxBlocks
  BY Constants, QuotientBelow DEF MaxBlocks, MaxSize
<1> HIDE DEF first, last, t
<1>4. CASE last < MaxBlocks
  <2>1. k \in Nat /\ k >= 1 /\ first + k <= MaxBlocks
    BY <1>2, <1>3, <1>4
  <2> HIDE DEF k
  <2>2. IsScript(s)
    BY <2>1, BeginSound, WrittenIsScript
  <2>3. s.found
    <3>1. Later(s, v)
      <4>1. v = WriteInode([s EXCEPT !.ino = [s.ino EXCEPT !.size = SizeOf(s, pos + n)]])
        BY DEF Resized
      <4> HIDE DEF s, v
      <4>2. Later(s, [s EXCEPT !.ino = [s.ino EXCEPT !.size = SizeOf(s, pos + n)]])
        BY <2>2, LaterSteps, Zenon
      <4> QED
        BY <4>1, <4>2, LaterSteps, Zenon DEF Later
    <3> QED
      BY <1>1, <1>4, <3>1 DEF Later, t
  <2>4. PICK r : Sound(r, s) /\ AllGood(s) /\ Len(s.log) >= 2
    BY <2>1, <2>3, WrittenSound DEF first
  <2> HIDE DEF s
  <2>5. SizeOf(s, pos + n) \in Nat /\ Whole(r, s)
    BY <2>4, ScriptFields DEF SizeOf, Sound, Whole
  <2>6. Sound(r, v) /\ AllGood(v) /\ Len(v.log) = Len(s.log) + 1
    BY <2>4, <2>5, ResizedSound
  <2> HIDE DEF v
  <2>7. v \in Scripts /\ AllGood(v) /\ Len(v.log) >= 2
    BY <2>4, <2>6, ScriptFields DEF Sound
  <2> QED
    BY <1>1, <1>4, <2>7 DEF t
<1>5. CASE ~(last < MaxBlocks)
  <2>1. l \in Nat /\ l >= 1 /\ first + l <= MaxBlocks
    BY <1>2, <1>3, <1>5
  <2> HIDE DEF l
  <2>2. z = t
    BY <1>1, <1>5
  <2>3. PICK r : Sound(r, z) /\ AllGood(z) /\ Len(z.log) >= 2
    BY <2>1, <2>2, WrittenSound DEF first, t
  <2> QED
    BY <2>2, <2>3 DEF Sound, t
<1> QED
  BY <1>4, <1>5
-----------------------------------------------------------------------------
(* One block becomes free in the bitmap.                                   *)
LEMMA UnmarkIs ==
    ASSUME NEW s \in Scripts, NEW b
    PROVE  LET t == UnmarkBlock(s, b)
           IN  /\ t \in Scripts /\ Len(t.log) = Len(s.log) + 1
               /\ t.adr = s.adr /\ t.ino = s.ino /\ t.at = s.at /\ t.found = s.found
               /\ Now(t).marked = Now(s).marked \ {b} /\ Now(t).block = Now(s).block
<1> DEFINE d == [Now(s) EXCEPT !.marked = @ \ {b}]
<1>1. d \in Disks /\ d.marked = Now(s).marked \ {b} /\ d.block = Now(s).block
  <2>1. Now(s) \in Disks /\ Now(s).marked \ {b} \in SUBSET Blocks
    BY ScriptFields
  <2> QED
    BY <2>1, DiskUpdates
<1>2. UnmarkBlock(s, b) = Then(s, d)
  BY DEF UnmarkBlock
<1> HIDE DEF d
<1> QED
  BY <1>1, <1>2, ThenIs

(* Disks appended to a log of disks.                                       *)
LEMMA LogsAppended ==
    ASSUME NEW a \in Seq(Disks), NEW b \in Seq(Disks)
    PROVE  a \o b \in Seq(Disks) /\ Len(a \o b) = Len(a) + Len(b)
  OBVIOUS

(* Several blocks become free in the bitmap.                               *)
LEMMA UnmarkBlocksIs ==
    ASSUME NEW s \in Scripts, NEW bs \in Seq(Blocks)
    PROVE  LET t == UnmarkBlocks(s, bs)
           IN  /\ t \in Scripts /\ Len(t.log) >= Len(s.log)
               /\ t.adr = s.adr /\ t.ino = s.ino /\ t.at = s.at /\ t.found = s.found
               /\ Now(t).marked = Now(s).marked \ ({bs[j] : j \in 1 .. Len(bs)} \ {NULL})
               /\ Now(t).block = Now(s).block
<1> DEFINE D(i) == [Now(s) EXCEPT !.marked = @ \ ({bs[j] : j \in 1 .. i} \ {NULL})]
           more == [i \in 1 .. Len(bs) |-> D(i)]
           log == s.log \o more
           t == UnmarkBlocks(s, bs)
<1>1. \A i : D(i) \in Disks /\ D(i).block = Now(s).block
             /\ D(i).marked = Now(s).marked \ ({bs[j] : j \in 1 .. i} \ {NULL})
  <2> TAKE i
  <2> DEFINE S == Now(s).marked \ ({bs[j] : j \in 1 .. i} \ {NULL})
  <2>1. Now(s) \in Disks /\ S \in SUBSET Blocks
    BY ScriptFields
  <2>2. D(i) = [Now(s) EXCEPT !.marked = S]
    OBVIOUS
  <2> HIDE DEF S, D
  <2>3. D(i) \in Disks /\ D(i).block = Now(s).block /\ D(i).marked = S
    BY <2>1, <2>2, DiskUpdates
  <2> QED
    BY <2>3 DEF S
<1>2. t = [s EXCEPT !.log = log]
  BY DEF UnmarkBlocks
<1> HIDE DEF D
<1>3. more \in Seq(Disks) /\ Len(more) = Len(bs) /\ Len(bs) \in Nat /\ \A i \in 1 .. Len(bs) : more[i] = D(i)
  BY <1>1
<1> HIDE DEF more
<1>4. log \in Seq(Disks) /\ Len(log) = Len(s.log) + Len(bs) /\ log # <<>>
      /\ log[Len(log)] = IF Len(bs) = 0 THEN Now(s) ELSE D(Len(bs))
  <2>1. s.log \in Seq(Disks) /\ Len(s.log) \in Nat \ {0} /\ Now(s) = s.log[Len(s.log)]
    BY ScriptFields DEF Now
  <2>2. log \in Seq(Disks) /\ Len(log) = Len(s.log) + Len(bs)
    <3>1. more \in Seq(Disks) /\ s.log \in Seq(Disks) /\ Len(more) = Len(bs)
      BY <1>3, <2>1, Zenon
    <3> QED
      BY <3>1, LogsAppended
  <2>3. log[Len(log)] = IF Len(bs) = 0 THEN Now(s) ELSE D(Len(bs))
    <3>1. CASE Len(bs) = 0
      BY <1>3, <2>1, <2>2, <3>1
    <3>2. CASE Len(bs) # 0
      <4>1. log[Len(log)] = more[Len(bs)]
        BY <1>3, <2>1, <2>2, <3>2
      <4> QED
        BY <1>3, <3>2, <4>1
    <3> QED
      BY <3>1, <3>2
  <2>4. log # <<>>
    <3> HIDE DEF log
    <3> QED
      BY <1>3, <2>1, <2>2
  <2> QED
    BY <2>2, <2>3, <2>4
<1> HIDE DEF log, t
<1>5. t \in Scripts /\ t.log = log /\ t.adr = s.adr /\ t.ino = s.ino /\ t.at = s.at /\ t.found = s.found
  BY <1>2, <1>4 DEF Scripts
<1>6. Now(t) = IF Len(bs) = 0 THEN Now(s) ELSE D(Len(bs))
  BY <1>4, <1>5 DEF Now
<1>7. /\ Now(t).marked = Now(s).marked \ ({bs[j] : j \in 1 .. Len(bs)} \ {NULL})
      /\ Now(t).block = Now(s).block
  BY <1>1, <1>3, <1>6
<1> QED
  BY <1>3, <1>4, <1>5, <1>7, ScriptFields DEF t

(* The pointers of a range of slots, as a set.                             *)
LEMMA PointersAre ==
    ASSUME NEW w \in Words, NEW lo \in Nat, NEW hi \in Nat, lo .. hi - 1 \subseteq Slots
    PROVE  /\ Pointers(w, lo, hi) \in Seq(Blocks)
           /\ {Pointers(w, lo, hi)[j] : j \in 1 .. Len(Pointers(w, lo, hi))} = {w.ptr[i] : i \in lo .. hi - 1}
<1> DEFINE n == AtLeast0(hi - lo)
           p == Pointers(w, lo, hi)
<1>1. n \in Nat /\ n = (IF hi < lo THEN 0 ELSE hi - lo)
  BY DEF AtLeast0
<1>2. p = [i \in 1 .. n |-> w.ptr[lo + i - 1]]
  BY DEF Pointers
<1> HIDE DEF n, p
<1>3. \A i \in 1 .. n : lo + i - 1 \in lo .. hi - 1
  BY <1>1
<1>4. \A i \in lo .. hi - 1 : w.ptr[i] \in Blocks
  BY DEF Words
<1>5. p \in Seq(Blocks) /\ Len(p) = n /\ \A j \in 1 .. n : p[j] = w.ptr[lo + j - 1]
  BY <1>1, <1>2, <1>3, <1>4
<1>6. {p[j] : j \in 1 .. n} \subseteq {w.ptr[i] : i \in lo .. hi - 1}
  BY <1>3, <1>5
<1>7. {w.ptr[i] : i \in lo .. hi - 1} \subseteq {p[j] : j \in 1 .. n}
  <2> SUFFICES ASSUME NEW i \in lo .. hi - 1 PROVE w.ptr[i] \in {p[j] : j \in 1 .. n}
    OBVIOUS
  <2>1. i - lo + 1 \in 1 .. n /\ lo + (i - lo + 1) - 1 = i
    BY <1>1
  <2> QED
    BY <1>5, <2>1
<1> QED
  BY <1>5, <1>6, <1>7 DEF p

(* A block without a range of its pointers.                                *)
LEMMA CutIs ==
    ASSUME NEW w \in Words, NEW lo \in Int, NEW hi \in Int
    PROVE  /\ Cut(w, lo, hi) \in Words /\ Cut(w, lo, hi).size = w.size
           /\ \A i \in Slots : Cut(w, lo, hi).ptr[i] = IF lo <= i /\ i < hi THEN NULL ELSE w.ptr[i]
<1>1. w.ptr \in [Slots -> Blocks] /\ NULL \in Blocks
  BY Places DEF Words
<1>2. [i \in Slots |-> IF lo <= i /\ i < hi THEN NULL ELSE w.ptr[i]] \in [Slots -> Blocks]
  BY <1>1
<1> QED
  BY <1>2 DEF Cut, Words

(* What shrink_file() frees.                                               *)
Gone(w, b, start) ==
    IF start >= ADDRS_PER_BLOCK THEN {}
    ELSE ({w.ptr[i] : i \in start .. ADDRS_PER_BLOCK - 1} \ {NULL}) \cup (IF start = 0 THEN {b} ELSE {})

(* shrink_file() as a whole: what it frees and which pointers it clears.   *)
LEMMA ShrinkFileIs ==
    ASSUME NEW s \in Scripts, NEW b \in Blocks, NEW start \in Nat
    PROVE  LET t == ShrinkFile(s, b, start)
           IN  /\ t \in Scripts /\ Len(t.log) >= Len(s.log)
               /\ t.adr = s.adr /\ t.ino = s.ino /\ t.at = s.at /\ t.found = s.found
               /\ Now(t).marked = Now(s).marked \ Gone(Now(s).block[b], b, start)
               /\ \A c \in Blocks \ {b} : Now(t).block[c] = Now(s).block[c]
               /\ \A i \in Slots : Now(t).block[b].ptr[i] =
                        IF 0 < start /\ start <= i /\ i < ADDRS_PER_BLOCK THEN NULL ELSE Now(s).block[b].ptr[i]
<1> DEFINE words == Sector(Now(s), b)
           bs == Pointers(words, start, ADDRS_PER_BLOCK)
           freed == UnmarkBlocks(s, bs)
           cut == Cut(words, start, ADDRS_PER_BLOCK)
           u == UnmarkBlock(freed, b)
           v == WrtBlock(freed, b, cut)
           t == ShrinkFile(s, b, start)
<1>1. words = Now(s).block[b] /\ words \in Words
  BY ScriptFields DEF Sector
<1>2. t = CASE start >= ADDRS_PER_BLOCK -> s
            [] start = 0 -> u
            [] start > 0 /\ start < ADDRS_PER_BLOCK -> v
  BY DEF ShrinkFile
<1> HIDE DEF words
<1>3. CASE start >= ADDRS_PER_BLOCK
  <2>1. ~(start = 0) /\ ~(start < ADDRS_PER_BLOCK)
    BY <1>3, Constants
  <2> HIDE DEF u, v
  <2>2. t = s
    BY <1>2, <1>3, <2>1
  <2>3. Gone(Now(s).block[b], b, start) = {}
    BY <1>3 DEF Gone
  <2>4. \A i \in Slots : ~(0 < start /\ start <= i /\ i < ADDRS_PER_BLOCK)
    BY <1>3, Constants, Places
  <2> QED
    BY <2>2, <2>3, <2>4, ScriptFields
<1>4. CASE start < ADDRS_PER_BLOCK
  <2>1. start .. ADDRS_PER_BLOCK - 1 \subseteq Slots /\ ADDRS_PER_BLOCK \in Nat
    BY Constants DEF Slots, InodeSlots
  <2>2. bs \in Seq(Blocks) /\ {bs[j] : j \in 1 .. Len(bs)} = {words.ptr[i] : i \in start .. ADDRS_PER_BLOCK - 1}
    BY <1>1, <2>1, PointersAre
  <2> HIDE DEF bs
  <2>3. /\ freed \in Scripts /\ Len(freed.log) >= Len(s.log)
        /\ freed.adr = s.adr /\ freed.ino = s.ino /\ freed.at = s.at /\ freed.found = s.found
        /\ Now(freed).marked = Now(s).marked \ ({words.ptr[i] : i \in start .. ADDRS_PER_BLOCK - 1} \ {NULL})
        /\ Now(freed).block = Now(s).block
    BY <2>2, UnmarkBlocksIs
  <2> HIDE DEF freed
  <2>4. CASE start = 0
    <3>1. /\ u \in Scripts /\ Len(u.log) = Len(freed.log) + 1
          /\ u.adr = s.adr /\ u.ino = s.ino /\ u.at = s.at /\ u.found = s.found
          /\ Now(u).marked = Now(freed).marked \ {b} /\ Now(u).block = Now(freed).block
      BY <2>3, UnmarkIs
    <3> HIDE DEF u, v
    <3>2. t = u
      BY <1>2, <1>4, <2>4, Constants
    <3>3. Now(u).marked = Now(s).marked \ Gone(Now(s).block[b], b, start)
      BY <1>1, <1>4, <2>3, <2>4, <3>1, Constants DEF Gone
    <3> QED
      BY <2>3, <2>4, <3>1, <3>2, <3>3, ScriptFields
  <2>5. CASE start > 0
    <3>1. cut \in Words /\ \A i \in Slots : cut.ptr[i] = IF start <= i /\ i < ADDRS_PER_BLOCK THEN NULL ELSE words.ptr[i]
      BY <1>1, Constants, CutIs
    <3> HIDE DEF cut
    <3>2. /\ v \in Scripts /\ Len(v.log) = Len(freed.log) + 1
          /\ v.adr = freed.adr /\ v.ino = freed.ino /\ v.at = freed.at /\ v.found = freed.found
          /\ Now(v).marked = Now(freed).marked
          /\ Now(v).block[b] = cut
          /\ \A c \in Blocks \ {b} : Now(v).block[c] = Now(freed).block[c]
      BY <2>3, <3>1, WrtIs
    <3> HIDE DEF u, v
    <3>3. t = v
      BY <1>2, <1>4, <2>5, Constants
    <3>4. Now(v).marked = Now(s).marked \ Gone(Now(s).block[b], b, start)
      BY <1>1, <1>4, <2>3, <2>5, <3>2, Constants DEF Gone
    <3> QED
      BY <1>1, <2>3, <2>5, <3>1, <3>2, <3>3, <3>4, ScriptFields
  <2> QED
    BY <2>4, <2>5
<1> QED
  BY <1>3, <1>4, Constants

(* Blocks that are not data or address blocks of the lowest level keep     *)
(* their roles.                                                            *)
Keeps(role, r) ==
    \A b \in Blocks : role[b] \in {"root", "dir", "inode", "double"} => r[b] = role[b]

(* An address block loses its pointers from a slot on, or goes altogether. *)
LEMMA OwnedShrunk ==
    ASSUME NEW role, NEW d \in Disks, NEW e \in Disks, Owned(role, d),
           NEW p \in Blocks, NEW i \in Used(role[p]), Below(role[p], i) = "single",
           NEW b \in Blocks, b = d.block[p].ptr[i], b # NULL, NEW start \in Nat,
           e.marked = d.marked \ Gone(d.block[b], b, start),
           \A c \in Blocks : \A j \in Slots :
                e.block[c].ptr[j] =
                    IF \/ c = b /\ 0 < start /\ start <= j /\ j < ADDRS_PER_BLOCK
                       \/ c = p /\ j = i /\ start = 0
                    THEN NULL ELSE d.block[c].ptr[j]
    PROVE  \E r : Owned(r, e) /\ Keeps(role, r)
<1> DEFINE F == Gone(d.block[b], b, start)
           r == [c \in Blocks |-> IF c \in F THEN "free" ELSE role[c]]
<1>1. role[b] = "single" /\ Used("single") = 0 .. ADDRS_PER_BLOCK - 1 /\ role \in [Blocks -> Roles]
  BY RoleSlots DEF Owned
<1>2. \A x \in F : \/ x = b /\ start = 0
                   \/ \E k \in 0 .. ADDRS_PER_BLOCK - 1 : start <= k /\ x = d.block[b].ptr[k] /\ x # NULL
  BY DEF Gone
<1>3. start = 0 => b \in F
  BY Constants DEF Gone
<1> HIDE DEF F
<1>4. \A k \in 0 .. ADDRS_PER_BLOCK - 1 : d.block[b].ptr[k] # NULL =>
            d.block[b].ptr[k] \in Blocks /\ role[d.block[b].ptr[k]] = "data"
  <2> TAKE k \in 0 .. ADDRS_PER_BLOCK - 1
  <2>1. k \in Slots /\ k \in Used(role[b])
    BY <1>1, Places
  <2>2. d.block[b].ptr[k] \in Blocks
    BY <2>1 DEF Disks, Words
  <2> QED
    BY <1>1, <2>1, <2>2, RoleBelow DEF Owned
<1>5. \A x \in F : x \in Blocks /\ role[x] \in {"single", "data"} /\ x \notin Special
  <2> TAKE x \in F
  <2>1. x \in Blocks /\ role[x] \in {"single", "data"}
    BY <1>1, <1>2, <1>4
  <2> QED
    BY <2>1 DEF Owned
<1>6. \A c \in Blocks \ F : \A j \in Used(role[c]) :
            \/ e.block[c].ptr[j] = NULL
            \/ e.block[c].ptr[j] = d.block[c].ptr[j] /\ d.block[c].ptr[j] \notin F
  <2> SUFFICES ASSUME NEW c \in Blocks \ F, NEW j \in Used(role[c]), e.block[c].ptr[j] # NULL
               PROVE  e.block[c].ptr[j] = d.block[c].ptr[j] /\ d.block[c].ptr[j] \notin F
    OBVIOUS
  <2>1. j \in Slots
    BY <1>1, RoleSlots
  <2>2. e.block[c].ptr[j] = d.block[c].ptr[j]
        /\ ~(c = b /\ 0 < start /\ start <= j /\ j < ADDRS_PER_BLOCK)
        /\ ~(c = p /\ j = i /\ start = 0)
    BY <2>1
  <2>3. \A y \in Blocks : \A l \in Used(role[y]) : d.block[c].ptr[j] = d.block[y].ptr[l] => c = y /\ j = l
    BY <2>2 DEF Owned
  <2>4. ~(d.block[c].ptr[j] = b /\ start = 0)
    BY <2>2, <2>3
  <2>5. ASSUME NEW k \in 0 .. ADDRS_PER_BLOCK - 1, start <= k, d.block[c].ptr[j] = d.block[b].ptr[k] PROVE FALSE
    <3>1. c = b /\ j = k
      BY <1>1, <2>3, <2>5
    <3> QED
      BY <1>3, <2>2, <2>5, <3>1, Constants
  <2> QED
    BY <1>2, <2>2, <2>4, <2>5
<1>7. F \cap Special = {} /\ e.marked = d.marked \ F
  BY <1>5 DEF F
<1>8. Owned(r, e)
  BY <1>6, <1>7, OwnedFreed
<1>9. Keeps(role, r)
  BY <1>5 DEF Keeps
<1> QED
  BY <1>8, <1>9
-----------------------------------------------------------------------------
(* Directory and inodes keep their roles.                                  *)
KeepsFiles(role, r) ==
    \A b \in Blocks : role[b] \in {"root", "dir", "inode"} => r[b] = role[b]

(* A part of the file is gone, the directory is as it was.                 *)
Shrunk(role, s, r, t) ==
    /\ Whole(r, t) /\ KeepsFiles(role, r)
    /\ t.adr = s.adr
    /\ Len(t.log) >= Len(s.log)
    /\ \A c \in Blocks : role[c] \in {"root", "dir"} => Full(t).block[c] = Full(s).block[c]

(* One part of the file goes, then another.                                *)
LEMMA ShrunkTrans ==
    ASSUME NEW role, NEW s, NEW r, NEW t, NEW u, NEW v, Whole(role, s),
           Shrunk(role, s, r, t), Shrunk(r, t, u, v)
    PROVE  Shrunk(role, s, u, v)
<1>1. Len(s.log) \in Nat /\ Len(t.log) \in Nat /\ Len(v.log) \in Nat
  BY ScriptFields DEF Shrunk, Whole
<1>2. Len(v.log) >= Len(s.log)
  BY <1>1 DEF Shrunk
<1>3. \A c \in Blocks : role[c] \in {"root", "dir"} => r[c] = role[c]
  BY DEF Shrunk, KeepsFiles
<1>4. KeepsFiles(role, u)
  BY DEF Shrunk, KeepsFiles
<1> QED
  BY <1>2, <1>3, <1>4, Zenon DEF Shrunk

(* The direct pointers: what they lead to becomes free and they become     *)
(* null.                                                                   *)
LEMMA ShrinkDirectSound ==
    ASSUME NEW role, NEW s, Whole(role, s), role[s.adr] = "inode", NEW start \in Nat
    PROVE  \E r : Shrunk(role, s, r, ShrinkDirect(s, start))
<1> DEFINE bs == Pointers(s.ino, start, NUM_DIRECT_POINTER)
           freed == UnmarkBlocks(s, bs)
           cut == Cut(freed.ino, start, NUM_DIRECT_POINTER)
           t == ShrinkDirect(s, start)
           F == {s.ino.ptr[i] : i \in start .. NUM_DIRECT_POINTER - 1} \ {NULL}
           r == [c \in Blocks |-> IF c \in F THEN "free" ELSE role[c]]
<1>1. s \in Scripts /\ Owned(role, Full(s)) /\ s.ino \in Words /\ s.adr \in Blocks /\ role \in [Blocks -> Roles]
      /\ Full(s) \in Disks /\ Full(s).marked = Now(s).marked /\ Full(s).block[s.adr] = s.ino
      /\ Len(s.log) \in Nat /\ \A b \in Blocks \ {s.adr} : Full(s).block[b] = Now(s).block[b]
  BY ScriptFields, FullFields DEF Whole, Owned
<1>2. bs \in Seq(Blocks) /\ {bs[j] : j \in 1 .. Len(bs)} = {s.ino.ptr[i] : i \in start .. NUM_DIRECT_POINTER - 1}
  <2>1. start .. NUM_DIRECT_POINTER - 1 \subseteq Slots /\ NUM_DIRECT_POINTER \in Nat
    BY Constants DEF Slots, InodeSlots
  <2> QED
    BY <1>1, <2>1, PointersAre
<1> HIDE DEF bs
<1>3. /\ freed \in Scripts /\ Len(freed.log) >= Len(s.log)
      /\ freed.adr = s.adr /\ freed.ino = s.ino
      /\ Now(freed).marked = Now(s).marked \ F
      /\ Now(freed).block = Now(s).block
  BY <1>1, <1>2, UnmarkBlocksIs
<1>4. t = [freed EXCEPT !.ino = cut]
  BY DEF ShrinkDirect, bs
<1> HIDE DEF freed
<1>5. cut \in Words /\ \A i \in Slots : cut.ptr[i] = IF start <= i /\ i < NUM_DIRECT_POINTER THEN NULL ELSE s.ino.ptr[i]
  BY <1>1, <1>3, Constants, CutIs
<1> HIDE DEF cut, t
<1>6. t \in Scripts /\ t.log = freed.log /\ t.adr = s.adr /\ t.ino = cut /\ Now(t) = Now(freed)
  BY <1>3, <1>4, <1>5, InoIs
<1>7. /\ Full(t) \in Disks /\ Full(t).marked = Full(s).marked \ F
      /\ Full(t).block[s.adr] = cut
      /\ \A b \in Blocks \ {s.adr} : Full(t).block[b] = Full(s).block[b]
  BY <1>1, <1>3, <1>6, FullFields
<1>8. \A x \in F : \E k \in start .. NUM_DIRECT_POINTER - 1 :
            k \in Used(role[s.adr]) /\ x = s.ino.ptr[k] /\ x # NULL /\ role[x] = "data" /\ x \in Blocks
  <2> TAKE x \in F
  <2>1. PICK k \in start .. NUM_DIRECT_POINTER - 1 : x = s.ino.ptr[k] /\ x # NULL
    OBVIOUS
  <2>2. k \in Used("inode") /\ k \in Slots /\ Below("inode", k) = "data"
    BY RoleSlots, RoleBelow, Constants DEF InodeSlots, Slots, SIP, DIP
  <2>3. x \in Blocks
    BY <1>1, <2>1, <2>2 DEF Words
  <2> QED
    BY <1>1, <2>1, <2>2, <2>3 DEF Owned
<1> HIDE DEF F
<1>9. \A c \in Blocks \ F : \A j \in Used(role[c]) :
            \/ Full(t).block[c].ptr[j] = NULL
            \/ Full(t).block[c].ptr[j] = Full(s).block[c].ptr[j] /\ Full(s).block[c].ptr[j] \notin F
  <2> SUFFICES ASSUME NEW c \in Blocks \ F, NEW j \in Used(role[c]), Full(t).block[c].ptr[j] # NULL
               PROVE  Full(t).block[c].ptr[j] = Full(s).block[c].ptr[j] /\ Full(s).block[c].ptr[j] \notin F
    OBVIOUS
  <2>1. j \in Slots
    BY <1>1, RoleSlots
  <2>2. Full(t).block[c].ptr[j] = Full(s).block[c].ptr[j]
        /\ ~(c = s.adr /\ start <= j /\ j < NUM_DIRECT_POINTER)
    BY <1>1, <1>5, <1>7, <2>1
  <2>3. \A l \in Used(role[s.adr]) : Full(s).block[c].ptr[j] = s.ino.ptr[l] => c = s.adr /\ j = l
    BY <1>1, <2>2 DEF Owned
  <2>4. ASSUME Full(s).block[c].ptr[j] \in F PROVE FALSE
    <3>1. PICK k \in start .. NUM_DIRECT_POINTER - 1 : k \in Used(role[s.adr]) /\ Full(s).block[c].ptr[j] = s.ino.ptr[k]
      BY <1>8, <2>4
    <3>2. c = s.adr /\ j = k
      BY <2>3, <3>1
    <3> QED
      BY <2>2, <3>1, <3>2, Constants
  <2> QED
    BY <2>2, <2>4
<1>10. F \cap Special = {}
  <2>1. \A x \in F : x \in Blocks /\ role[x] = "data"
    BY <1>8
  <2> QED
    BY <1>1, <2>1 DEF Owned
<1>11. Owned(r, Full(t))
  <2>1. Owned(role, Full(s)) /\ Full(s) \in Disks /\ Full(t) \in Disks /\ Full(t).marked = Full(s).marked \ F
    BY <1>1, <1>7
  <2> QED
    BY <1>9, <1>10, <2>1, OwnedFreed
<1>12. KeepsFiles(role, r) /\ r[s.adr] = "inode"
  BY <1>1, <1>8 DEF KeepsFiles
<1>13. Whole(r, t)
  BY <1>6, <1>11, <1>12 DEF Whole
<1> HIDE DEF r
<1>14. Shrunk(role, s, r, t)
  BY <1>3, <1>6, <1>7, <1>12, <1>13 DEF Shrunk
<1> QED
  BY <1>14 DEF t

(* The indirect pointer: its address block goes as a whole or loses its    *)
(* last pointers.                                                          *)
LEMMA ShrinkSingleSound ==
    ASSUME NEW role, NEW s, Whole(role, s), role[s.adr] = "inode", NEW start \in Nat
    PROVE  \E r : Shrunk(role, s, r, ShrinkSingle(s, start))
<1> DEFINE from == AtLeast0(start - NUM_DIRECT_POINTER)
           b == s.ino.ptr[SIP]
           u == ShrinkFile(s, b, from)
           w == [u.ino EXCEPT !.ptr[SIP] = IF from = 0 THEN NULL ELSE @]
           v == [u EXCEPT !.ino = w]
           t == ShrinkSingle(s, start)
<1>1. s \in Scripts /\ Owned(role, Full(s)) /\ s.ino \in Words /\ s.adr \in Blocks /\ role \in [Blocks -> Roles]
      /\ Full(s) \in Disks /\ Full(s).marked = Now(s).marked /\ Full(s).block[s.adr] = s.ino
      /\ Len(s.log) \in Nat /\ \A c \in Blocks \ {s.adr} : Full(s).block[c] = Now(s).block[c]
  BY ScriptFields, FullFields DEF Whole, Owned
<1>2. from \in Nat
  BY Constants DEF AtLeast0
<1>3. t = IF b = NULL \/ from >= ADDRS_PER_BLOCK THEN s ELSE v
  BY DEF ShrinkSingle
<1> HIDE DEF from
<1>4. CASE b = NULL \/ from >= ADDRS_PER_BLOCK
  <2>1. Shrunk(role, s, role, s)
    BY <1>1 DEF Shrunk, KeepsFiles
  <2>2. t = s
    BY <1>3, <1>4
  <2> HIDE DEF t
  <2>3. \E r : Shrunk(role, s, r, t)
    BY <2>1, <2>2
  <2> QED
    BY <2>3 DEF t
<1>5. CASE b # NULL /\ from < ADDRS_PER_BLOCK
  <2>1. b \in Blocks /\ SIP \in Slots /\ SIP \in Used(role[s.adr]) /\ Below(role[s.adr], SIP) = "single"
    BY <1>1, RoleSlots, RoleBelow, Places DEF Words
  <2>2. role[b] = "single" /\ b # s.adr
    BY <1>1, <1>5, <2>1 DEF Owned
  <2> HIDE DEF b
  <2>3. /\ u \in Scripts /\ Len(u.log) >= Len(s.log)
        /\ u.adr = s.adr /\ u.ino = s.ino
        /\ Now(u).marked = Now(s).marked \ Gone(Now(s).block[b], b, from)
        /\ \A c \in Blocks \ {b} : Now(u).block[c] = Now(s).block[c]
        /\ \A i \in Slots : Now(u).block[b].ptr[i] =
                IF 0 < from /\ from <= i /\ i < ADDRS_PER_BLOCK THEN NULL ELSE Now(s).block[b].ptr[i]
    BY <1>1, <1>2, <2>1, ShrinkFileIs
  <2> HIDE DEF u
  <2>4. w \in Words /\ \A i \in Slots : w.ptr[i] = IF i = SIP /\ from = 0 THEN NULL ELSE s.ino.ptr[i]
    <3>1. NULL \in Blocks /\ s.ino.ptr[SIP] \in Blocks
      BY <1>1, <2>1, Places DEF Words
    <3>2. w = [s.ino EXCEPT !.ptr[SIP] = IF from = 0 THEN NULL ELSE s.ino.ptr[SIP]]
      BY <2>3
    <3> HIDE DEF w
    <3>3. (IF from = 0 THEN NULL ELSE s.ino.ptr[SIP]) \in Blocks
      BY <3>1
    <3> QED
      BY <1>1, <2>1, <3>2, <3>3, WordsUpdates
  <2> HIDE DEF w
  <2>5. v \in Scripts /\ v.log = u.log /\ v.adr = s.adr /\ v.ino = w /\ Now(v) = Now(u)
    BY <2>3, <2>4, InoIs
  <2> HIDE DEF v
  <2>6. /\ Full(v) \in Disks /\ Full(v).marked = Full(s).marked \ Gone(Full(s).block[b], b, from)
        /\ Full(v).block[s.adr] = w
        /\ \A c \in Blocks \ {b, s.adr} : Full(v).block[c] = Full(s).block[c]
        /\ \A i \in Slots : Full(v).block[b].ptr[i] =
                IF 0 < from /\ from <= i /\ i < ADDRS_PER_BLOCK THEN NULL ELSE Full(s).block[b].ptr[i]
    BY <1>1, <2>1, <2>2, <2>3, <2>5, FullFields
  <2>7. \A c \in Blocks : \A j \in Slots : Full(v).block[c].ptr[j] =
            IF \/ c = b /\ 0 < from /\ from <= j /\ j < ADDRS_PER_BLOCK
               \/ c = s.adr /\ j = SIP /\ from = 0
            THEN NULL ELSE Full(s).block[c].ptr[j]
    <3>1. \A j \in Slots : Full(v).block[s.adr].ptr[j] = IF j = SIP /\ from = 0 THEN NULL ELSE Full(s).block[s.adr].ptr[j]
      BY <1>1, <2>4, <2>6
    <3> QED
      BY <2>2, <2>6, <3>1
  <2>8. b = Full(s).block[s.adr].ptr[SIP]
    BY <1>1 DEF b
  <2>9. PICK r : Owned(r, Full(v)) /\ Keeps(role, r)
    BY <1>1, <1>2, <1>5, <2>1, <2>6, <2>7, <2>8, OwnedShrunk
  <2>10. Whole(r, v)
    BY <1>1, <2>5, <2>9 DEF Whole, Keeps
  <2>11. Shrunk(role, s, r, v)
    BY <2>2, <2>3, <2>5, <2>6, <2>9, <2>10 DEF Shrunk, KeepsFiles, Keeps
  <2>12. t = v
    BY <1>2, <1>3, <1>5, Constants DEF b
  <2> QED
    BY <2>11, <2>12
<1> QED
  BY <1>2, <1>4, <1>5, Constants
-----------------------------------------------------------------------------
(* ShrunkChildren() is what its recursion says.                            *)
AfterChildren(s, words, start, g) ==
    g = [n \in Nat |-> IF n = 0 THEN s
                          ELSE ShrinkFile(g[n - 1], words.ptr[FirstShrunk(start) + n - 1],
                                          ShrinkFrom(start, FirstShrunk(start) + n - 1))]

(* The recursion of ShrunkChildren() has a solution.                       *)
LEMMA ShrunkChildrenExists ==
    ASSUME NEW s, NEW words, NEW start
    PROVE  \E g : AfterChildren(s, words, start, g)
<1> DEFINE step(t, n) == ShrinkFile(t, words.ptr[FirstShrunk(start) + n - 1],
                                    ShrinkFrom(start, FirstShrunk(start) + n - 1))
           Up(n, g) == g = [i \in 0 .. n |-> IF i = 0 THEN s ELSE step(g[i - 1], i)]
<1> HIDE DEF step
<1>1. \A n \in Nat : \E g : Up(n, g)
  <2> DEFINE T == {n \in Nat : \E g : Up(n, g)}
  <2>1. 0 \in T
    <3>1. Up(0, [i \in 0 .. 0 |-> s])
      OBVIOUS
    <3> QED
      BY <3>1
  <2>2. ASSUME NEW n \in Nat, n \in T PROVE n + 1 \in T
    <3>1. PICK g : Up(n, g)
      BY <2>2
    <3>2. Up(n + 1, [i \in 0 .. n + 1 |-> IF i = n + 1 THEN step(g[n], n + 1) ELSE g[i]])
      BY <3>1
    <3> HIDE DEF Up
    <3> QED
      BY <3>2
  <2> HIDE DEF T
  <2>3. Nat \subseteq T
    BY <2>1, <2>2, InductionOnSet
  <2> QED
    BY <2>3 DEF T
<1>2. ASSUME NEW n \in Nat, NEW m \in Nat, NEW g, NEW h, Up(n, g), Up(m, h)
      PROVE  \A i \in Nat : i <= n /\ i <= m => g[i] = h[i]
  <2> DEFINE T == {i \in Nat : i <= n /\ i <= m => g[i] = h[i]}
  <2>1. 0 \in T
    BY <1>2
  <2>2. ASSUME NEW i \in Nat, i \in T PROVE i + 1 \in T
    <3>1. CASE i + 1 <= n /\ i + 1 <= m
      <4>1. g[i + 1] = step(g[i], i + 1) /\ h[i + 1] = step(h[i], i + 1)
        BY <1>2, <3>1
      <4> QED
        BY <2>2, <3>1, <4>1
    <3> QED
      BY <3>1
  <2> HIDE DEF T
  <2>3. Nat \subseteq T
    BY <2>1, <2>2, InductionOnSet
  <2> QED
    BY <2>3 DEF T
<1> DEFINE G(n) == CHOOSE g : Up(n, g)
           f0 == [i \in Nat |-> G(i)[i]]
<1>3. \A n \in Nat : Up(n, G(n))
  BY <1>1
<1> HIDE DEF G
<1>4. \A n \in Nat : n # 0 => G(n)[n] = step(G(n - 1)[n - 1], n)
  <2> TAKE n \in Nat
  <2> HAVE n # 0
  <2>1. G(n)[n] = step(G(n)[n - 1], n)
    BY <1>3
  <2>2. n - 1 \in Nat /\ n - 1 <= n
    BY <2>1
  <2>3. G(n)[n - 1] = G(n - 1)[n - 1]
    <3> HIDE DEF Up
    <3> QED
      BY <1>2, <1>3, <2>2
  <2> QED
    BY <2>1, <2>3
<1>5. G(0)[0] = s
  BY <1>3
<1>6. f0 = [i \in Nat |-> IF i = 0 THEN s ELSE step(f0[i - 1], i)]
  BY <1>4, <1>5
<1> QED
  BY <1>6 DEF step, AfterChildren

(* The loop over the address blocks, one block at a time.                  *)
LEMMA ShrunkChildrenSteps ==
    ASSUME NEW s, NEW words, NEW start
    PROVE  /\ ShrunkChildren(s, words, start)[0] = s
           /\ \A n \in Nat \ {0} :
                ShrunkChildren(s, words, start)[n] =
                    ShrinkFile(ShrunkChildren(s, words, start)[n - 1],
                               words.ptr[FirstShrunk(start) + n - 1],
                               ShrinkFrom(start, FirstShrunk(start) + n - 1))
<1>1. ShrunkChildren(s, words, start) = CHOOSE g : AfterChildren(s, words, start, g)
  BY DEF ShrunkChildren, AfterChildren
<1>2. AfterChildren(s, words, start, CHOOSE g : AfterChildren(s, words, start, g))
  BY ShrunkChildrenExists
<1>3. AfterChildren(s, words, start, ShrunkChildren(s, words, start))
  BY <1>1, <1>2
<1> QED
  BY <1>3 DEF AfterChildren

(* The lowest element of a set of numbers.                                 *)
LEMMA LowestIs ==
    ASSUME NEW S, S \subseteq Nat, S # {}
    PROVE  Lowest(S) \in S /\ \A n \in S : Lowest(S) <= n
<1>1. \E m \in S : \A n \in S : m <= n
  BY LeastIn
<1> QED
  BY <1>1 DEF Lowest

(* The loop visits address blocks that exist and ends within the block of  *)
(* their addresses.                                                        *)
LEMMA ShrinkBounds ==
    ASSUME NEW words, NEW start \in Nat
    PROVE  /\ Behind(start) \in Int /\ FirstShrunk(start) \in Nat
           /\ \A i \in Nat : ShrinkFrom(start, i) \in Nat
           /\ ShrinkStop(words, start) \in Nat /\ ShrinkStop(words, start) <= ADDRS_PER_BLOCK
           /\ \A i \in FirstShrunk(start) .. ShrinkStop(words, start) - 1 :
                    i \in 0 .. ADDRS_PER_BLOCK - 1 /\ words.ptr[i] # NULL
<1> DEFINE first == FirstShrunk(start)
           missing == {i \in first .. ADDRS_PER_BLOCK - 1 : words.ptr[i] = NULL}
           stop == ShrinkStop(words, start)
<1>1. Behind(start) \in Int
  BY Constants DEF Behind
<1>2. first \in Nat
  BY <1>1, Constants DEF FirstShrunk, AtLeast0
<1>3. \A i \in Nat : ShrinkFrom(start, i) \in Nat
  <2> TAKE i \in Nat
  <2>1. Behind(start) - i * ADDRS_PER_BLOCK \in Int
    BY <1>1, Constants
  <2> QED
    BY <2>1 DEF ShrinkFrom, AtLeast0
<1>4. stop = IF missing = {} THEN ADDRS_PER_BLOCK ELSE Lowest(missing)
  BY DEF ShrinkStop
<1> HIDE DEF first, stop
<1>5. missing \subseteq first .. ADDRS_PER_BLOCK - 1 /\ first .. ADDRS_PER_BLOCK - 1 \subseteq Nat
  BY <1>2, Constants
<1>6. CASE missing = {}
  <2>1. stop = ADDRS_PER_BLOCK
    BY <1>4, <1>6
  <2>2. \A i \in first .. ADDRS_PER_BLOCK - 1 : words.ptr[i] # NULL
    BY <1>6
  <2> QED
    BY <1>1, <1>2, <1>3, <2>1, <2>2, Constants DEF first, stop
<1>7. CASE missing # {}
  <2>1. stop \in missing /\ \A i \in missing : stop <= i
    BY <1>4, <1>5, <1>7, LowestIs
  <2>2. stop \in Nat /\ stop <= ADDRS_PER_BLOCK - 1
    BY <1>5, <2>1, Constants
  <2>3. \A i \in first .. stop - 1 : i \in first .. ADDRS_PER_BLOCK - 1 /\ ~(stop <= i)
    BY <1>2, <2>2, Constants
  <2>4. \A i \in first .. stop - 1 : words.ptr[i] # NULL
    BY <2>1, <2>3
  <2> QED
    BY <1>1, <1>2, <1>3, <2>2, <2>3, <2>4, Constants DEF first, stop
<1> QED
  BY <1>6, <1>7
-----------------------------------------------------------------------------
(* An address block without what shrink_file() freed as a whole: as if the *)
(* pointers to the first n of the visited blocks were gone already.        *)
Kept(words, start, n) ==
    [words EXCEPT !.ptr = [i \in Slots |->
        IF FirstShrunk(start) <= i /\ i < FirstShrunk(start) + n /\ ShrinkFrom(start, i) = 0
        THEN NULL ELSE words.ptr[i]]]

(* That block is a block, slot by slot.                                    *)
LEMMA KeptIs ==
    ASSUME NEW words \in Words, NEW start, NEW n
    PROVE  /\ Kept(words, start, n) \in Words
           /\ \A i \in Slots : Kept(words, start, n).ptr[i] =
                IF FirstShrunk(start) <= i /\ i < FirstShrunk(start) + n /\ ShrinkFrom(start, i) = 0
                THEN NULL ELSE words.ptr[i]
<1> DEFINE p == [i \in Slots |->
        IF FirstShrunk(start) <= i /\ i < FirstShrunk(start) + n /\ ShrinkFrom(start, i) = 0
        THEN NULL ELSE words.ptr[i]]
<1>1. p \in [Slots -> Blocks]
  BY Places DEF Words
<1>2. Kept(words, start, n) = [words EXCEPT !.ptr = p]
  BY DEF Kept
<1>3. Kept(words, start, n).ptr = p
  <2> HIDE DEF p
  <2> QED
    BY <1>2 DEF Words
<1>4. Kept(words, start, n) \in Words
  <2> HIDE DEF p
  <2> QED
    BY <1>1, <1>2 DEF Words
<1> QED
  BY <1>3, <1>4

(* What holds after k address blocks: but for the pointers in the block of *)
(* addresses, which are cleared at the end, the disk is good.              *)
ChildrenShrunk(role, s, dip, words, start, k, t) ==
    /\ t \in Scripts /\ t.adr = s.adr /\ t.ino = s.ino /\ Len(t.log) >= Len(s.log)
    /\ Now(t).block[dip] = words
    /\ \A c \in Blocks : role[c] \in {"root", "dir"} => Now(t).block[c] = Now(s).block[c]
    /\ \E r : Keeps(role, r) /\ Owned(r, [Full(t) EXCEPT !.block[dip] = Kept(words, start, k)])

(* It holds after each of them.                                            *)
LEMMA ShrunkChildrenSound ==
    ASSUME NEW role, NEW s, Whole(role, s), role[s.adr] = "inode",
           NEW dip \in Blocks, role[dip] = "double", NEW words, words = Now(s).block[dip],
           NEW start \in Nat, NEW k \in Nat, k > 0 => FirstShrunk(start) + k <= ADDRS_PER_BLOCK,
           \A i \in FirstShrunk(start) .. FirstShrunk(start) + k - 1 : words.ptr[i] # NULL
    PROVE  ChildrenShrunk(role, s, dip, words, start, k, ShrunkChildren(s, words, start)[k])
<1> DEFINE C == ShrunkChildren(s, words, start)
           first == FirstShrunk(start)
           from(i) == ShrinkFrom(start, i)
           V(n) == [Full(C[n]) EXCEPT !.block[dip] = Kept(words, start, n)]
           T == {n \in Nat : n <= k =>
                    /\ C[n] \in Scripts /\ C[n].adr = s.adr /\ C[n].ino = s.ino /\ Len(C[n].log) >= Len(s.log)
                    /\ Now(C[n]).block[dip] = words
                    /\ \A c \in Blocks : role[c] \in {"root", "dir"} => Now(C[n]).block[c] = Now(s).block[c]
                    /\ \E r : Keeps(role, r) /\ Owned(r, V(n))}
<1>1. C[0] = s /\ \A n \in Nat \ {0} : C[n] = ShrinkFile(C[n - 1], words.ptr[first + n - 1], from(first + n - 1))
  BY ShrunkChildrenSteps
<1> HIDE DEF C
<1>2. /\ s \in Scripts /\ Owned(role, Full(s)) /\ s.ino \in Words /\ s.adr \in Blocks /\ role \in [Blocks -> Roles]
      /\ Full(s) \in Disks /\ Full(s).block[s.adr] = s.ino /\ words \in Words /\ dip # s.adr
      /\ Len(s.log) \in Nat /\ \A c \in Blocks \ {s.adr} : Full(s).block[c] = Now(s).block[c]
  BY ScriptFields, FullFields DEF Whole, Owned
<1>3. first \in Nat /\ (\A i \in Nat : from(i) \in Nat) /\ ADDRS_PER_BLOCK \in Nat
  BY ShrinkBounds, Constants
<1>4. \A n : Kept(words, start, n) \in Words /\ \A i \in Slots : Kept(words, start, n).ptr[i] =
                IF first <= i /\ i < first + n /\ from(i) = 0 THEN NULL ELSE words.ptr[i]
  BY <1>2, KeptIs
<1> HIDE DEF first, from
<1>5. ASSUME NEW n \in Nat, C[n] \in Scripts, C[n].adr = s.adr, C[n].ino = s.ino
      PROVE  /\ V(n) \in Disks /\ V(n).marked = Now(C[n]).marked
             /\ V(n).block[dip] = Kept(words, start, n)
             /\ V(n).block[s.adr] = s.ino
             /\ \A c \in Blocks \ {dip, s.adr} : V(n).block[c] = Now(C[n]).block[c]
  <2> DEFINE w == Kept(words, start, n)
  <2>1. w \in Words
    BY <1>4
  <2> HIDE DEF w
  <2>2. /\ Full(C[n]) \in Disks /\ Full(C[n]).marked = Now(C[n]).marked
        /\ Full(C[n]).block[s.adr] = s.ino
        /\ \A b \in Blocks \ {s.adr} : Full(C[n]).block[b] = Now(C[n]).block[b]
    BY <1>5, FullFields
  <2>3. /\ [Full(C[n]) EXCEPT !.block[dip] = w] \in Disks
        /\ [Full(C[n]) EXCEPT !.block[dip] = w].marked = Full(C[n]).marked
        /\ [Full(C[n]) EXCEPT !.block[dip] = w].block[dip] = w
        /\ \A c \in Blocks \ {dip} : [Full(C[n]) EXCEPT !.block[dip] = w].block[c] = Full(C[n]).block[c]
    BY <2>1, <2>2, DiskUpdates
  <2> QED
    BY <1>2, <2>2, <2>3 DEF w
<1>6. 0 \in T
  <2>1. V(0) \in Disks /\ V(0).marked = Now(s).marked /\ V(0).block[dip] = Kept(words, start, 0)
        /\ V(0).block[s.adr] = s.ino /\ \A c \in Blocks \ {dip, s.adr} : V(0).block[c] = Now(s).block[c]
    <3>1. C[0] \in Scripts /\ C[0].adr = s.adr /\ C[0].ino = s.ino /\ 0 \in Nat
      BY <1>1, <1>2
    <3>2. /\ V(0) \in Disks /\ V(0).marked = Now(C[0]).marked
          /\ V(0).block[dip] = Kept(words, start, 0)
          /\ V(0).block[s.adr] = s.ino
          /\ \A c \in Blocks \ {dip, s.adr} : V(0).block[c] = Now(C[0]).block[c]
      BY <1>5, <3>1
    <3> HIDE DEF V
    <3> QED
      BY <1>1, <3>2
  <2>2. \A i \in Slots : Kept(words, start, 0).ptr[i] = words.ptr[i]
    BY <1>3, <1>4, Places
  <2> HIDE DEF V
  <2>3. \A b \in Blocks : \A i \in Slots : V(0).block[b].ptr[i] = Full(s).block[b].ptr[i]
    BY <1>2, <2>1, <2>2
  <2>4. \A b \in Blocks : \A i \in Used(role[b]) : i \in Slots
    BY <1>2, RoleSlots
  <2>5. Full(s).marked \subseteq V(0).marked
    BY <1>2, <2>1, FullFields
  <2>6. Owned(role, V(0))
    BY <1>2, <2>1, <2>3, <2>4, <2>5, OwnedLess
  <2>7. Keeps(role, role)
    BY DEF Keeps
  <2> QED
    BY <1>1, <1>2, <2>6, <2>7
<1>7. ASSUME NEW n \in Nat, n \in T PROVE n + 1 \in T
  <2> SUFFICES ASSUME n + 1 <= k
               PROVE  /\ C[n + 1] \in Scripts /\ C[n + 1].adr = s.adr /\ C[n + 1].ino = s.ino
                      /\ Len(C[n + 1].log) >= Len(s.log)
                      /\ Now(C[n + 1]).block[dip] = words
                      /\ \A c \in Blocks : role[c] \in {"root", "dir"} => Now(C[n + 1]).block[c] = Now(s).block[c]
                      /\ \E r : Keeps(role, r) /\ Owned(r, V(n + 1))
    OBVIOUS
  <2> DEFINE i == first + n
             b == words.ptr[i]
             t == C[n]
             u == C[n + 1]
             d == V(n)
             e == V(n + 1)
  <2>1. /\ t \in Scripts /\ t.adr = s.adr /\ t.ino = s.ino /\ Len(t.log) >= Len(s.log)
        /\ Now(t).block[dip] = words
        /\ \A c \in Blocks : role[c] \in {"root", "dir"} => Now(t).block[c] = Now(s).block[c]
        /\ n <= k
    BY <1>7
  <2>2. PICK r : Keeps(role, r) /\ Owned(r, d)
    BY <1>7, <2>1
  <2> HIDE DEF T
  <2>3. i \in 0 .. ADDRS_PER_BLOCK - 1 /\ i \in Slots /\ b # NULL /\ b \in Blocks /\ from(i) \in Nat
    <3>0. n < k /\ n \in Nat /\ k \in Nat
      BY <2>1
    <3>1. i \in Nat /\ i \in FirstShrunk(start) .. FirstShrunk(start) + k - 1
      <4>1. first \in Nat /\ first = FirstShrunk(start)
        BY <1>3 DEF first
      <4> QED
        BY <3>0, <4>1
    <3>2. i \in 0 .. ADDRS_PER_BLOCK - 1
      BY <1>3, <3>1 DEF first
    <3>3. i \in Slots
      BY <3>2, Places
    <3>4. b # NULL
      BY <3>1
    <3> HIDE DEF i
    <3> QED
      BY <1>2, <1>3, <3>1, <3>2, <3>3, <3>4 DEF Words
  <2>4. u = ShrinkFile(t, b, from(i))
    <3>1. n + 1 \in Nat \ {0} /\ (n + 1) - 1 = n /\ first + (n + 1) - 1 = i
      BY <1>3
    <3> QED
      BY <1>1, <3>1
  <2>5. d \in Disks /\ d.marked = Now(t).marked /\ d.block[dip] = Kept(words, start, n)
        /\ d.block[s.adr] = s.ino /\ \A c \in Blocks \ {dip, s.adr} : d.block[c] = Now(t).block[c]
    BY <1>5, <2>1
  <2> HIDE DEF t
  <2>6. /\ u \in Scripts /\ Len(u.log) >= Len(t.log)
        /\ u.adr = s.adr /\ u.ino = s.ino
        /\ Now(u).marked = Now(t).marked \ Gone(Now(t).block[b], b, from(i))
        /\ \A c \in Blocks \ {b} : Now(u).block[c] = Now(t).block[c]
        /\ \A j \in Slots : Now(u).block[b].ptr[j] =
                IF 0 < from(i) /\ from(i) <= j /\ j < ADDRS_PER_BLOCK THEN NULL ELSE Now(t).block[b].ptr[j]
    <3> DEFINE x == from(i)
    <3>1. x \in Nat /\ u = ShrinkFile(t, b, x)
      BY <2>3, <2>4
    <3> HIDE DEF b, u, i, x
    <3>2. /\ u \in Scripts /\ Len(u.log) >= Len(t.log)
          /\ u.adr = t.adr /\ u.ino = t.ino
          /\ Now(u).marked = Now(t).marked \ Gone(Now(t).block[b], b, x)
          /\ \A c \in Blocks \ {b} : Now(u).block[c] = Now(t).block[c]
          /\ \A j \in Slots : Now(u).block[b].ptr[j] =
                IF 0 < x /\ x <= j /\ j < ADDRS_PER_BLOCK THEN NULL ELSE Now(t).block[b].ptr[j]
      BY <2>1, <2>3, <3>1, ShrinkFileIs
    <3> QED
      BY <2>1, <3>2 DEF x
  <2>7. e \in Disks /\ e.marked = Now(u).marked /\ e.block[dip] = Kept(words, start, n + 1)
        /\ e.block[s.adr] = s.ino /\ \A c \in Blocks \ {dip, s.adr} : e.block[c] = Now(u).block[c]
    <3>1. n + 1 \in Nat
      OBVIOUS
    <3> DEFINE m == n + 1
    <3> HIDE DEF m
    <3>2. m \in Nat /\ C[m] \in Scripts /\ C[m].adr = s.adr /\ C[m].ino = s.ino
      BY <2>6, <3>1 DEF m
    <3>3. V(m) \in Disks /\ V(m).marked = Now(C[m]).marked
          /\ V(m).block[dip] = Kept(words, start, m)
          /\ V(m).block[s.adr] = s.ino
          /\ \A c \in Blocks \ {dip, s.adr} : V(m).block[c] = Now(C[m]).block[c]
      BY <1>5, <3>2
    <3> HIDE DEF V
    <3> QED
      BY <3>3 DEF m
  <2> HIDE DEF u, d, e, V
  <2>8. r \in [Blocks -> Roles] /\ r[dip] = "double" /\ r[s.adr] = "inode"
        /\ \A c \in Blocks : role[c] \in {"root", "dir"} => r[c] \in {"root", "dir"}
    BY <1>2, <2>2 DEF Keeps, Owned
  <2>9. i \in Used(r[dip]) /\ Below(r[dip], i) = "single"
    BY <2>3, <2>8, RoleSlots, RoleBelow
  <2> HIDE DEF i
  <2>10. d.block[dip].ptr[i] = b
    BY <1>3, <1>4, <2>3, <2>5 DEF i
  <2>11. r[b] = "single"
    BY <2>2, <2>3, <2>9, <2>10 DEF Owned
  <2> HIDE DEF b
  <2>12. b # dip /\ b # s.adr /\ \A c \in Blocks : role[c] \in {"root", "dir"} => b # c
    BY <2>8, <2>11
  <2>13. e.marked = d.marked \ Gone(d.block[b], b, from(i))
    BY <2>3, <2>5, <2>6, <2>7, <2>12
  <2>14. \A j \in Slots : Kept(words, start, n + 1).ptr[j] =
                IF j = i /\ from(i) = 0 THEN NULL ELSE Kept(words, start, n).ptr[j]
    <3>1. \A j \in Slots : j < first + (n + 1) <=> j < first + n \/ j = i
      BY <1>3, Places DEF i
    <3>2. first <= i
      BY <1>3 DEF i
    <3> QED
      BY <1>4, <3>1, <3>2
  <2>15. \A c \in Blocks : \A j \in Slots :
            e.block[c].ptr[j] =
                IF \/ c = b /\ 0 < from(i) /\ from(i) <= j /\ j < ADDRS_PER_BLOCK
                   \/ c = dip /\ j = i /\ from(i) = 0
                THEN NULL ELSE d.block[c].ptr[j]
    <3>1. \A j \in Slots : e.block[dip].ptr[j] = IF j = i /\ from(i) = 0 THEN NULL ELSE d.block[dip].ptr[j]
      BY <2>5, <2>7, <2>14
    <3>2. \A j \in Slots : e.block[b].ptr[j] =
            IF 0 < from(i) /\ from(i) <= j /\ j < ADDRS_PER_BLOCK THEN NULL ELSE d.block[b].ptr[j]
      BY <2>3, <2>5, <2>6, <2>7, <2>12
    <3>3. \A c \in Blocks \ {dip, b} : e.block[c] = d.block[c]
      BY <2>3, <2>5, <2>6, <2>7, <2>12
    <3> QED
      BY <2>12, <3>1, <3>2, <3>3
  <2>16. PICK q : Owned(q, e) /\ Keeps(r, q)
    BY <2>2, <2>3, <2>5, <2>7, <2>9, <2>10, <2>13, <2>15, OwnedShrunk
  <2>17. Keeps(role, q)
    BY <2>2, <2>16 DEF Keeps
  <2>18. Now(u).block[dip] = words /\ \A c \in Blocks : role[c] \in {"root", "dir"} => Now(u).block[c] = Now(s).block[c]
    BY <2>1, <2>6, <2>12 DEF t
  <2>19. Len(u.log) >= Len(s.log)
    BY <1>2, <2>1, <2>6, ScriptFields DEF t
  <2> QED
    BY <2>6, <2>16, <2>17, <2>18, <2>19 DEF u, e
<1> HIDE DEF T
<1>8. k \in T
  BY <1>6, <1>7, InductionOnSet
<1>9. k <= k
  OBVIOUS
<1> QED
  BY <1>8, <1>9 DEF T, C, ChildrenShrunk
-----------------------------------------------------------------------------
(* The doubly indirect pointer: some of the address blocks go, and with    *)
(* all of them the block of their addresses.                               *)
LEMMA ShrinkDoubleSound ==
    ASSUME NEW role, NEW s, Whole(role, s), role[s.adr] = "inode", NEW start \in Nat
    PROVE  \E r : Shrunk(role, s, r, ShrinkDouble(s, start))
<1> DEFINE dip == s.ino.ptr[DIP]
           words == Sector(Now(s), dip)
           first == FirstShrunk(start)
           stop == ShrinkStop(words, start)
           k == AtLeast0(stop - first)
           visited == first .. stop - 1
           C == ShrunkChildren(s, words, start)[k]
           gone == UnmarkBlock(C, dip)
           w == [gone.ino EXCEPT !.ptr[DIP] = NULL]
           u == [gone EXCEPT !.ino = w]
           kept == [words EXCEPT !.ptr = [i \in Slots |->
                        IF i \in visited /\ ShrinkFrom(start, i) = 0 THEN NULL ELSE @[i]]]
           v == WrtBlock(C, dip, kept)
           K == Kept(words, start, k)
           V == [Full(C) EXCEPT !.block[dip] = K]
           t == ShrinkDouble(s, start)
<1>1. /\ s \in Scripts /\ Owned(role, Full(s)) /\ s.ino \in Words /\ s.adr \in Blocks /\ role \in [Blocks -> Roles]
      /\ Full(s) \in Disks /\ Full(s).block[s.adr] = s.ino
      /\ Len(s.log) \in Nat /\ \A c \in Blocks \ {s.adr} : Full(s).block[c] = Now(s).block[c]
  BY ScriptFields, FullFields DEF Whole, Owned
<1>2. DIP \in Slots /\ dip \in Blocks /\ (dip # NULL => role[dip] = "double" /\ dip # s.adr)
  <2>1. DIP \in Slots /\ DIP \in Used(role[s.adr]) /\ Below(role[s.adr], DIP) = "double"
    BY Places, RoleSlots, RoleBelow
  <2>2. dip \in Blocks
    BY <1>1, <2>1 DEF Words
  <2> QED
    BY <1>1, <2>1, <2>2 DEF Owned
<1>3. t = CASE dip = NULL -> s
            [] dip # NULL /\ Behind(start) < 0 -> u
            [] dip # NULL /\ Behind(start) >= 0 -> v
  BY DEF ShrinkDouble
<1>4. words = Now(s).block[dip] /\ words \in Words
  BY <1>1, <1>2, ScriptFields DEF Sector
<1> HIDE DEF words
<1>5. /\ Behind(start) \in Int /\ first \in Nat /\ stop \in Nat /\ stop <= ADDRS_PER_BLOCK
      /\ \A i \in first .. stop - 1 : words.ptr[i] # NULL
  BY ShrinkBounds
<1> HIDE DEF first, stop, C, v, u, K
<1>6. k \in Nat /\ k = IF stop < first THEN 0 ELSE stop - first
  BY <1>5 DEF AtLeast0
<1>7. CASE dip = NULL
  <2>1. Shrunk(role, s, role, s)
    BY <1>1 DEF Shrunk, KeepsFiles
  <2>2. t = s
    BY <1>3, <1>7
  <2> HIDE DEF t
  <2>3. \E r : Shrunk(role, s, r, t)
    BY <2>1, <2>2
  <2> QED
    BY <2>3 DEF t
<1>8. CASE dip # NULL
  <2>1. (k > 0 => first + k <= ADDRS_PER_BLOCK) /\ \A i \in first .. first + k - 1 : words.ptr[i] # NULL
    BY <1>5, <1>6
  <2> HIDE DEF k
  <2>2. /\ C \in Scripts /\ C.adr = s.adr /\ C.ino = s.ino /\ Len(C.log) >= Len(s.log)
        /\ Now(C).block[dip] = words
        /\ \A c \in Blocks : role[c] \in {"root", "dir"} => Now(C).block[c] = Now(s).block[c]
        /\ \E r : Keeps(role, r) /\ Owned(r, V)
    <3>1. Whole(role, s) /\ role[s.adr] = "inode" /\ role[dip] = "double" /\ k \in Nat /\ dip \in Blocks
      BY <1>2, <1>6, <1>8
    <3>2. (k > 0 => FirstShrunk(start) + k <= ADDRS_PER_BLOCK)
          /\ \A i \in FirstShrunk(start) .. FirstShrunk(start) + k - 1 : words.ptr[i] # NULL
      BY <2>1 DEF first
    <3>3. C = ShrunkChildren(s, words, start)[k]
      BY DEF C, k
    <3> HIDE DEF dip, V
    <3> DEFINE D == ShrunkChildren(s, words, start)[k]
    <3>4. ChildrenShrunk(role, s, dip, words, start, k, D)
      <4>1. words = Now(s).block[dip]
        BY <1>4
      <4> QED
        BY <3>1, <3>2, <4>1, ShrunkChildrenSound
    <3> HIDE DEF D
    <3>5. C = D
      BY <3>3 DEF D
    <3>6. V = [Full(D) EXCEPT !.block[dip] = Kept(words, start, k)]
      BY <3>5 DEF V, K
    <3> QED
      BY <3>4, <3>5, <3>6 DEF ChildrenShrunk
  <2>3. PICK r : Keeps(role, r) /\ Owned(r, V)
    BY <2>2
  <2>4. K \in Words /\ \A i \in Slots : K.ptr[i] =
                IF first <= i /\ i < first + k /\ ShrinkFrom(start, i) = 0 THEN NULL ELSE words.ptr[i]
    BY <1>4, KeptIs DEF K, first
  <2> HIDE DEF dip
  <2>5. /\ V \in Disks /\ V.marked = Now(C).marked
        /\ V.block[dip] = K
        /\ V.block[s.adr] = s.ino
        /\ \A c \in Blocks \ {dip, s.adr} : V.block[c] = Now(C).block[c]
    <3>1. /\ Full(C) \in Disks /\ Full(C).marked = Now(C).marked
          /\ Full(C).block[s.adr] = s.ino
          /\ \A b \in Blocks \ {s.adr} : Full(C).block[b] = Now(C).block[b]
      BY <2>2, FullFields
    <3>2. /\ V \in Disks /\ V.marked = Full(C).marked /\ V.block[dip] = K
          /\ \A c \in Blocks \ {dip} : V.block[c] = Full(C).block[c]
      BY <1>2, <2>4, <3>1, DiskUpdates
    <3> QED
      BY <1>1, <1>2, <1>8, <3>1, <3>2
  <2> HIDE DEF V
  <2>6. r \in [Blocks -> Roles] /\ r[dip] = "double" /\ r[s.adr] = "inode"
        /\ \A c \in Blocks : role[c] \in {"root", "dir"} => role[c] = r[c] /\ c # dip /\ c # s.adr
    BY <1>1, <1>2, <1>8, <2>3 DEF Keeps, Owned
  <2>7. CASE Behind(start) < 0
    <3>1. /\ gone \in Scripts /\ Len(gone.log) = Len(C.log) + 1
          /\ gone.adr = s.adr /\ gone.ino = s.ino
          /\ Now(gone).marked = Now(C).marked \ {dip} /\ Now(gone).block = Now(C).block
      BY <2>2, UnmarkIs
    <3>2. w \in Words /\ \A i \in Slots : w.ptr[i] = IF i = DIP THEN NULL ELSE s.ino.ptr[i]
      BY <1>1, <1>2, <3>1, Places, WordsUpdates
    <3> HIDE DEF w
    <3>3. u \in Scripts /\ u.log = gone.log /\ u.adr = s.adr /\ u.ino = w /\ Now(u) = Now(gone)
      <4> HIDE DEF gone
      <4> QED
        BY <3>1, <3>2, InoIs DEF u
    <3> HIDE DEF gone
    <3>4. /\ Full(u) \in Disks /\ Full(u).marked = V.marked \ {dip}
          /\ Full(u).block[s.adr] = w
          /\ \A c \in Blocks \ {s.adr} : Full(u).block[c] = Now(C).block[c]
      BY <2>5, <3>1, <3>3, FullFields
    <3>5. \A c \in Blocks \ {dip} : \A j \in Used(r[c]) :
            \/ Full(u).block[c].ptr[j] = NULL
            \/ Full(u).block[c].ptr[j] = V.block[c].ptr[j] /\ V.block[c].ptr[j] \notin {dip}
      <4> SUFFICES ASSUME NEW c \in Blocks \ {dip}, NEW j \in Used(r[c]), Full(u).block[c].ptr[j] # NULL
                   PROVE  Full(u).block[c].ptr[j] = V.block[c].ptr[j] /\ V.block[c].ptr[j] # dip
        OBVIOUS
      <4>1. j \in Slots
        BY <2>6, RoleSlots
      <4>2. Full(u).block[c].ptr[j] = V.block[c].ptr[j] /\ ~(c = s.adr /\ j = DIP)
        BY <2>5, <3>2, <3>4, <4>1
      <4>3. DIP \in Used(r[s.adr]) /\ V.block[s.adr].ptr[DIP] = dip
        BY <2>5, <2>6, Places, RoleSlots DEF dip
      <4>4. V.block[c].ptr[j] # NULL /\ V.block[c].ptr[j] = V.block[s.adr].ptr[DIP] => c = s.adr /\ j = DIP
        BY <1>1, <2>3, <4>3 DEF Owned
      <4> QED
        BY <4>2, <4>3, <4>4
    <3>6. {dip} \cap Special = {}
      BY <1>2, <2>3, <2>6 DEF Owned
    <3> DEFINE q == [b \in Blocks |-> IF b \in {dip} THEN "free" ELSE r[b]]
    <3>7. Owned(q, Full(u))
      <4> DEFINE F == {dip}
      <4>1. Owned(r, V) /\ V \in Disks /\ Full(u) \in Disks /\ Full(u).marked = V.marked \ F
            /\ F \cap Special = {}
        BY <2>3, <2>5, <3>4, <3>6
      <4>2. \A b \in Blocks \ F : \A i \in Used(r[b]) :
                \/ Full(u).block[b].ptr[i] = NULL
                \/ Full(u).block[b].ptr[i] = V.block[b].ptr[i] /\ V.block[b].ptr[i] \notin F
        BY <3>5
      <4>3. q = [b \in Blocks |-> IF b \in F THEN "free" ELSE r[b]]
        OBVIOUS
      <4> HIDE DEF F, q
      <4> QED
        BY <4>1, <4>2, <4>3, OwnedFreed
    <3>8. \A c \in Blocks : role[c] \in {"root", "dir"} => Full(u).block[c] = Full(s).block[c]
      BY <1>1, <2>2, <2>6, <3>4
    <3>9. q[s.adr] = "inode"
      BY <1>1, <1>2, <1>8, <2>6
    <3>10. Whole(q, u)
      BY <3>3, <3>7, <3>9 DEF Whole
    <3>11. t = u
      <4>1. ~(Behind(start) >= 0)
        BY <1>5, <2>7
      <4> HIDE DEF t
      <4> QED
        BY <1>3, <1>8, <2>7, <4>1 DEF dip
    <3>12. Len(u.log) >= Len(s.log)
      <4>1. Len(C.log) \in Nat
        BY <2>2, ScriptFields
      <4> QED
        BY <1>1, <2>2, <3>1, <3>3, <4>1
    <3>13. KeepsFiles(role, q)
      BY <1>2, <1>8, <2>3 DEF KeepsFiles, Keeps, dip
    <3> HIDE DEF q, t
    <3>14. Shrunk(role, s, q, u)
      BY <3>3, <3>8, <3>10, <3>12, <3>13 DEF Shrunk
    <3>15. \E r0 : Shrunk(role, s, r0, t)
      BY <3>11, <3>14
    <3> QED
      BY <3>15 DEF t
  <2>8. CASE Behind(start) >= 0
    <3>1. kept \in Words /\ \A i \in Slots : kept.ptr[i] = K.ptr[i]
      <4> DEFINE p == [i \in Slots |-> IF i \in visited /\ ShrinkFrom(start, i) = 0 THEN NULL ELSE words.ptr[i]]
      <4>1. p \in [Slots -> Blocks]
        BY <1>4, Places DEF Words
      <4>2. \A i \in Slots : i \in visited <=> first <= i /\ i < first + k
        BY <1>5, <1>6, Places
      <4>3. \A i \in Slots : p[i] = K.ptr[i]
        BY <2>4, <4>2
      <4>4. kept = [words EXCEPT !.ptr = p]
        OBVIOUS
      <4> HIDE DEF p, kept
      <4>5. kept \in Words /\ kept.ptr = p
        BY <1>4, <4>1, <4>4 DEF Words
      <4> QED
        BY <4>3, <4>5
    <3> HIDE DEF kept
    <3>2. /\ v \in Scripts /\ Len(v.log) = Len(C.log) + 1
          /\ v.adr = s.adr /\ v.ino = s.ino
          /\ Now(v).marked = Now(C).marked /\ Now(v).block[dip] = kept
          /\ \A c \in Blocks \ {dip} : Now(v).block[c] = Now(C).block[c]
      BY <1>2, <2>2, <3>1, WrtIs DEF v
    <3>3. /\ Full(v) \in Disks /\ Full(v).marked = V.marked
          /\ Full(v).block[s.adr] = s.ino /\ Full(v).block[dip] = kept
          /\ \A c \in Blocks \ {s.adr, dip} : Full(v).block[c] = Now(C).block[c]
      BY <1>1, <1>2, <1>8, <2>5, <3>2, FullFields DEF dip
    <3>4. Owned(r, Full(v))
      <4>1. \A b \in Blocks : \A i \in Slots : Full(v).block[b].ptr[i] = V.block[b].ptr[i]
        BY <2>5, <3>1, <3>3
      <4>2. \A b \in Blocks : \A i \in Used(r[b]) : i \in Slots
        BY <2>6, RoleSlots
      <4> QED
        BY <2>3, <2>5, <3>3, <4>1, <4>2, OwnedLess
    <3>5. \A c \in Blocks : role[c] \in {"root", "dir"} => Full(v).block[c] = Full(s).block[c]
      BY <1>1, <2>2, <2>6, <3>3
    <3>6. Whole(r, v)
      BY <2>6, <3>2, <3>4 DEF Whole
    <3>7. t = v
      <4>1. ~(Behind(start) < 0)
        BY <1>5, <2>8
      <4> QED
        BY <1>3, <1>8, <2>8, <4>1 DEF dip
    <3>8. Len(v.log) >= Len(s.log)
      <4>1. Len(C.log) \in Nat
        BY <2>2, ScriptFields
      <4> QED
        BY <1>1, <2>2, <3>2, <4>1
    <3>9. KeepsFiles(role, r)
      BY <2>3 DEF KeepsFiles, Keeps
    <3> HIDE DEF t
    <3>10. Shrunk(role, s, r, v)
      BY <3>2, <3>5, <3>6, <3>8, <3>9 DEF Shrunk
    <3>11. \E r0 : Shrunk(role, s, r0, t)
      BY <3>7, <3>10
    <3> QED
      BY <3>11 DEF t
  <2> QED
    BY <1>5, <2>7, <2>8
<1> QED
  BY <1>7, <1>8

(* fs_truncate() ends with a good disk; a file that does not grow leaves   *)
(* the directory as it was.                                                *)
LEMMA FsTruncateSound ==
    ASSUME NEW role, NEW d \in Disks, Owned(role, d), NEW f \in Blocks, role[f] = "inode",
           NEW size \in Nat, size > d.block[f].size => FsTruncate(<<d>>, f, size).found
    PROVE  LET t == FsTruncate(<<d>>, f, size)
           IN  /\ t \in Scripts /\ Len(t.log) >= 2
               /\ \E r : /\ Owned(r, Now(t))
                         /\ size <= d.block[f].size =>
                                /\ KeepsFiles(role, r)
                                /\ \A c \in Blocks : role[c] \in {"root", "dir"} =>
                                        Now(t).block[c].ptr = d.block[c].ptr
<1> DEFINE s == Begin(<<d>>, f)
           start == FirstObsolete(size)
           a == ShrinkDirect(s, start)
           b == ShrinkSingle(a, start)
           c == ShrinkDouble(b, start)
           g == GetDataBlock(s, size)
           t == FsTruncate(<<d>>, f, size)
<1>1. t = CASE size < s.ino.size -> Resized(c, size)
            [] size > s.ino.size /\ size < MaxSize -> Resized(g, size)
            [] size >= s.ino.size /\ (size = s.ino.size \/ size >= MaxSize) -> Resized(s, size)
  BY DEF FsTruncate
<1>2. /\ Sound(role, s) /\ AllGood(s) /\ s.adr = f /\ s.ino = d.block[f] /\ Full(s) = d /\ IsScript(s)
      /\ Len(s.log) = 1
  BY BeginSound
<1> HIDE DEF s
<1>3. Whole(role, s) /\ role[s.adr] = "inode" /\ s.ino.size \in Nat /\ start \in Nat /\ MaxSize \in Nat
      /\ s \in Scripts
  <2>1. start \in Nat
    BY Constants, Quotient DEF FirstObsolete
  <2>2. MaxSize \in Nat
    BY Constants DEF MaxSize, MaxBlocks
  <2> QED
    BY <1>2, <2>1, <2>2, ScriptFields DEF Sound, Whole
<1> HIDE DEF start
<1>4. CASE size < s.ino.size
  <2>1. t = Resized(c, size)
    BY <1>1, <1>3, <1>4
  <2>2. PICK r1 : Shrunk(role, s, r1, a)
    BY <1>3, ShrinkDirectSound
  <2> HIDE DEF a
  <2>3. Whole(r1, a) /\ r1[a.adr] = "inode"
    BY <1>3, <2>2, ScriptFields DEF Shrunk, KeepsFiles
  <2>4. PICK r2 : Shrunk(r1, a, r2, b)
    BY <1>3, <2>3, ShrinkSingleSound
  <2> HIDE DEF b
  <2>5. Whole(r2, b) /\ r2[b.adr] = "inode"
    BY <2>3, <2>4, ScriptFields DEF Shrunk, KeepsFiles, Whole
  <2>6. PICK r : Shrunk(r2, b, r, c)
    BY <1>3, <2>5, ShrinkDoubleSound
  <2> HIDE DEF c
  <2>7. Shrunk(role, s, r2, b)
    BY <1>3, <2>2, <2>4, ShrunkTrans
  <2>8. Shrunk(role, s, r, c)
    BY <1>3, <2>6, <2>7, ShrunkTrans
  <2>9. Whole(r, c) /\ Len(c.log) >= 1 /\ Len(c.log) \in Nat
    BY <1>2, <2>8, ScriptFields DEF Shrunk, Whole
  <2>10. Sound(r, t) /\ Now(t) = Full(t) /\ Len(t.log) = Len(c.log) + 1
         /\ \A x \in Blocks : Full(t).block[x].ptr = Full(c).block[x].ptr
    BY <2>1, <2>9, ResizedSound
  <2> HIDE DEF t
  <2>11. t \in Scripts /\ Owned(r, Now(t)) /\ Len(t.log) >= 2
    BY <2>9, <2>10 DEF Sound
  <2>12. \A x \in Blocks : role[x] \in {"root", "dir"} => Now(t).block[x].ptr = d.block[x].ptr
    BY <1>2, <2>8, <2>10 DEF Shrunk
  <2> QED
    BY <2>8, <2>11, <2>12 DEF Shrunk, t
<1>5. CASE size > s.ino.size /\ size < MaxSize
  <2>1. t = Resized(g, size)
    BY <1>1, <1>3, <1>5
  <2>2. IsScript(g)
    BY <1>2, LaterChunk DEF Later
  <2>3. g.found
    <3>1. Later(g, t)
      <4>1. t = WriteInode([g EXCEPT !.ino = [g.ino EXCEPT !.size = size]])
        BY <2>1 DEF Resized
      <4> HIDE DEF g, t
      <4>2. Later(g, [g EXCEPT !.ino = [g.ino EXCEPT !.size = size]])
        BY <2>2, LaterSteps, Zenon
      <4> QED
        BY <4>1, <4>2, LaterSteps, Zenon DEF Later
    <3>2. t.found
      BY <1>2, <1>5
    <3> QED
      BY <3>1, <3>2 DEF Later
  <2>4. size \div BLOCK_SIZE < MaxBlocks
    BY <1>5, Constants, QuotientBelow DEF MaxSize, MaxBlocks
  <2>5. PICK r : Reached(role, s, r, g, "data")
    BY <1>2, <1>3, <2>3, <2>4, GetDataBlockSound
  <2>6. Len(g.log) >= 2
    BY <1>2, <1>3, <2>3, <2>4, GetDataBlockSound
  <2> HIDE DEF g
  <2>7. Whole(r, g) /\ Len(g.log) \in Nat
    BY <2>5, ScriptFields DEF Reached, Sound, Whole
  <2>8. Sound(r, t) /\ Now(t) = Full(t) /\ Len(t.log) = Len(g.log) + 1
    BY <2>1, <2>7, ResizedSound
  <2> HIDE DEF t
  <2>9. t \in Scripts /\ Owned(r, Now(t)) /\ Len(t.log) >= 2
    BY <2>6, <2>7, <2>8 DEF Sound
  <2>10. ~(size <= d.block[f].size)
    BY <1>2, <1>3, <1>5
  <2> QED
    BY <2>9, <2>10 DEF t
<1>6. CASE size >= s.ino.size /\ (size = s.ino.size \/ size >= MaxSize)
  <2>1. t = Resized(s, size)
    BY <1>1, <1>3, <1>6
  <2>2. Sound(role, t) /\ Now(t) = Full(t) /\ Len(t.log) = Len(s.log) + 1
        /\ \A x \in Blocks : Full(t).block[x].ptr = Full(s).block[x].ptr
    BY <1>3, <2>1, ResizedSound
  <2> HIDE DEF t
  <2>3. t \in Scripts /\ Owned(role, Now(t)) /\ Len(t.log) >= 2
    BY <1>2, <2>2 DEF Sound
  <2>4. KeepsFiles(role, role)
    BY DEF KeepsFiles
  <2> QED
    BY <1>2, <2>2, <2>3, <2>4 DEF t
<1> QED
  BY <1>3, <1>4, <1>5, <1>6
-----------------------------------------------------------------------------
(* An operation begins with what is on the disk.                           *)
LEMMA BeginIs ==
    ASSUME NEW log \in Seq(Disks), log # <<>>, NEW f \in Blocks
    PROVE  LET s == Begin(log, f)
           IN  /\ s \in Scripts /\ s.adr = f /\ s.log = log /\ s.found
               /\ Now(s) = log[Len(log)] /\ Full(s) = log[Len(log)] /\ log[Len(log)] \in Disks
<1> DEFINE s == Begin(log, f)
           d == log[Len(log)]
<1>1. d \in Disks
  OBVIOUS
<1>2. d.block \in [Blocks -> Words]
  BY <1>1 DEF Disks
<1>3. s = [log |-> log, adr |-> f, ino |-> d.block[f], at |-> f, found |-> TRUE]
  BY DEF Begin, Sector
<1> HIDE DEF s, d
<1>4. s \in Scripts /\ s.adr = f /\ s.log = log /\ s.found /\ s.ino = d.block[f]
  BY <1>2, <1>3 DEF Scripts
<1>5. Now(s) = d
  BY <1>4 DEF Now, d
<1>6. Full(s) = d
  <2>1. Full(s).marked = d.marked /\ (\A b \in Blocks : Full(s).block[b] = d.block[b]) /\ Full(s) \in Disks
    BY <1>4, <1>5, FullFields
  <2> QED
    BY <1>1, <1>2, <2>1 DEF Disks
<1> QED
  BY <1>1, <1>4, <1>5, <1>6 DEF s, d

(* Where the files of the directory are entered.                           *)
LEMMA Directory ==
    ASSUME NEW role, NEW d \in Disks, Owned(role, d), NEW n \in Names
    PROVE  /\ role[ROOT_INODE_BLOCK] = "root" /\ 0 \in Used("root") /\ n \in Used("dir") /\ n \in Slots
           /\ EntryBlock(d) \in Blocks
           /\ EntryBlock(d) # NULL =>
                /\ role[EntryBlock(d)] = "dir" /\ EntryBlock(d) # ROOT_INODE_BLOCK
                /\ Entry(d, n) = d.block[EntryBlock(d)].ptr[n]
                /\ Entry(d, n) \in Blocks
                /\ Entry(d, n) # NULL => role[Entry(d, n)] = "inode" /\ Entry(d, n) \notin Special
           /\ EntryBlock(d) = NULL => Entry(d, n) = NULL
<1>1. role[ROOT_INODE_BLOCK] = "root" /\ 0 \in Used("root") /\ n \in Used("dir") /\ n \in Slots
      /\ ROOT_INODE_BLOCK \in Blocks /\ 0 \in Slots
  BY Places, RoleSlots DEF Owned
<1>2. EntryBlock(d) \in Blocks
  BY <1>1 DEF EntryBlock, Disks, Words
<1>3. ASSUME EntryBlock(d) # NULL
      PROVE  role[EntryBlock(d)] = "dir" /\ EntryBlock(d) # ROOT_INODE_BLOCK
  BY <1>1, <1>2, <1>3, RoleBelow DEF EntryBlock, Owned
<1>4. EntryBlock(d) # NULL => Entry(d, n) = d.block[EntryBlock(d)].ptr[n]
  BY DEF Entry
<1>5. EntryBlock(d) # NULL => Entry(d, n) \in Blocks
  BY <1>1, <1>2, <1>4 DEF Disks, Words
<1>6. ASSUME EntryBlock(d) # NULL, Entry(d, n) # NULL
      PROVE  role[Entry(d, n)] = "inode" /\ Entry(d, n) \notin Special
  <2>1. role[Entry(d, n)] = Below("dir", n)
    BY <1>1, <1>2, <1>3, <1>4, <1>6 DEF Owned
  <2>2. role[Entry(d, n)] = "inode"
    BY <2>1, RoleBelow
  <2> QED
    BY <1>5, <1>6, <2>2 DEF Owned
<1> QED
  BY <1>1, <1>2, <1>3, <1>4, <1>5, <1>6 DEF Entry

(* The files that are left, and the directory as it was.                   *)
DirectoryKept(role, d, e) ==
    \E r : /\ Owned(r, e) /\ KeepsFiles(role, r)
          /\ \A c \in Blocks : role[c] \in {"root", "dir"} => e.block[c].ptr = d.block[c].ptr

(* A file truncated to nothing.                                            *)
LEMMA Emptied ==
    ASSUME NEW role, NEW d \in Disks, Owned(role, d), NEW f \in Blocks, role[f] = "inode"
    PROVE  LET t == FsTruncate(<<d>>, f, 0)
           IN  t \in Scripts /\ DirectoryKept(role, d, Now(t))
<1>1. d.block[f].size \in Nat
  BY DEF Disks, Words
<1>2. ~(0 > d.block[f].size) /\ 0 <= d.block[f].size /\ 0 \in Nat
  BY <1>1
<1>3. /\ FsTruncate(<<d>>, f, 0) \in Scripts
      /\ \E r : /\ Owned(r, Now(FsTruncate(<<d>>, f, 0)))
                /\ 0 <= d.block[f].size =>
                      /\ KeepsFiles(role, r)
                      /\ \A c \in Blocks : role[c] \in {"root", "dir"} =>
                                Now(FsTruncate(<<d>>, f, 0)).block[c].ptr = d.block[c].ptr
  BY <1>2, FsTruncateSound, ZenonT(30)
<1> DEFINE t == FsTruncate(<<d>>, f, 0)
<1>4. t \in Scripts
  BY <1>3
<1>5. PICK r : /\ Owned(r, Now(t)) /\ KeepsFiles(role, r)
               /\ \A c \in Blocks : role[c] \in {"root", "dir"} => Now(t).block[c].ptr = d.block[c].ptr
  BY <1>2, <1>3
<1> HIDE DEF t
<1>6. DirectoryKept(role, d, Now(t))
  BY <1>5 DEF DirectoryKept
<1> QED
  BY <1>4, <1>6 DEF t

(* Deleting a file ends with a good disk, whether or not fs_truncate()     *)
(* could open it: its blocks are lost then, but they belong to nobody      *)
(* else.                                                                   *)
LEMMA FsDeleteSound ==
    ASSUME NEW role, NEW d \in Disks, Owned(role, d), NEW n \in Names, Entry(d, n) # NULL, NEW opened
    PROVE  LET t == FsDelete(<<d>>, n, opened)
           IN  t \in Scripts /\ Len(t.log) >= 2 /\ Good(Now(t))
<1> DEFINE f == Entry(d, n)
           entries == EntryBlock(d)
           trunc == FsTruncate(<<d>>, f, 0)
           empty == IF opened THEN trunc.log ELSE <<d>>
           s == Begin(empty, ROOT_INODE_BLOCK)
           freed == UnmarkBlock(s, f)
           w == [Sector(Now(freed), EntryBlock(Now(freed))) EXCEPT !.ptr[n] = NULL]
           v == WrtBlock(freed, EntryBlock(Now(freed)), w)
           t == FsDelete(<<d>>, n, opened)
           e == empty[Len(empty)]
<1>1. t = WriteInode(v)
  <2>1. <<d>>[Len(<<d>>)] = d
    OBVIOUS
  <2> QED
    BY <2>1 DEF FsDelete
<1>2. /\ entries # NULL /\ entries \in Blocks /\ role[entries] = "dir" /\ entries # ROOT_INODE_BLOCK
      /\ f = d.block[entries].ptr[n] /\ f \in Blocks /\ role[f] = "inode" /\ f \notin Special
      /\ role[ROOT_INODE_BLOCK] = "root" /\ n \in Slots /\ n \in Used("dir") /\ ROOT_INODE_BLOCK \in Blocks
  BY Directory, Places
<1> HIDE DEF f
<1>3. empty \in Seq(Disks) /\ empty # <<>> /\ DirectoryKept(role, d, e)
  <2>1. CASE opened
    <3>1. trunc \in Scripts /\ DirectoryKept(role, d, Now(trunc))
      BY <1>2, Emptied
    <3>2. empty = trunc.log
      BY <2>1
    <3> HIDE DEF trunc, empty
    <3>3. e = Now(trunc)
      BY <3>2 DEF Now
    <3> HIDE DEF e
    <3> QED
      BY <3>1, <3>2, <3>3, ScriptFields DEF Scripts
  <2>2. CASE ~opened
    <3>1. empty = <<d>>
      BY <2>2
    <3> HIDE DEF empty
    <3>2. e = d /\ empty \in Seq(Disks) /\ empty # <<>>
      BY <3>1
    <3> HIDE DEF e
    <3>3. KeepsFiles(role, role)
      BY DEF KeepsFiles
    <3>4. DirectoryKept(role, d, d)
      BY <3>3 DEF DirectoryKept
    <3> QED
      BY <3>2, <3>4
  <2> QED
    BY <2>1, <2>2
<1>4. PICK r : /\ Owned(r, e) /\ KeepsFiles(role, r)
               /\ \A c \in Blocks : role[c] \in {"root", "dir"} => e.block[c].ptr = d.block[c].ptr
  <2> HIDE DEF e
  <2> QED
    BY <1>3 DEF DirectoryKept
<1> HIDE DEF empty, entries
<1>5. s \in Scripts /\ s.adr = ROOT_INODE_BLOCK /\ Now(s) = e /\ Full(s) = e /\ e \in Disks
  BY <1>2, <1>3, BeginIs
<1> HIDE DEF s, e
<1>6. /\ freed \in Scripts /\ Len(freed.log) = Len(s.log) + 1
      /\ freed.adr = ROOT_INODE_BLOCK /\ freed.ino = s.ino
      /\ Now(freed).marked = e.marked \ {f} /\ Now(freed).block = e.block
  BY <1>5, UnmarkIs
<1> HIDE DEF freed
<1>7. EntryBlock(Now(freed)) = entries /\ Sector(Now(freed), entries) = e.block[entries]
      /\ e.block[entries] \in Words /\ e.block[entries].ptr[n] = f
  <2>1. EntryBlock(Now(freed)) = e.block[ROOT_INODE_BLOCK].ptr[0]
    BY <1>6 DEF EntryBlock
  <2>2. e.block[ROOT_INODE_BLOCK].ptr[0] = entries
    BY <1>2, <1>4 DEF EntryBlock, entries
  <2> QED
    BY <1>2, <1>4, <1>5, <1>6, <2>1, <2>2 DEF Sector, Disks
<1>8. w \in Words /\ \A i \in Slots : w.ptr[i] = IF i = n THEN NULL ELSE e.block[entries].ptr[i]
  <2>1. w = [e.block[entries] EXCEPT !.ptr[n] = NULL]
    BY <1>7
  <2> HIDE DEF w
  <2> QED
    BY <1>2, <1>7, <2>1, Places, WordsUpdates
<1> HIDE DEF w
<1>9. /\ v \in Scripts /\ Len(v.log) = Len(freed.log) + 1
      /\ v.adr = ROOT_INODE_BLOCK /\ v.ino = s.ino
      /\ Now(v).marked = e.marked \ {f} /\ Now(v).block[entries] = w
      /\ \A c \in Blocks \ {entries} : Now(v).block[c] = e.block[c]
  <2>1. v = WrtBlock(freed, entries, w)
    BY <1>7
  <2> HIDE DEF v
  <2>2. /\ v \in Scripts /\ Len(v.log) = Len(freed.log) + 1
        /\ v.adr = freed.adr /\ v.ino = freed.ino
        /\ Now(v).marked = Now(freed).marked /\ Now(v).block[entries] = w
        /\ \A c \in Blocks \ {entries} : Now(v).block[c] = Now(freed).block[c]
    <3>1. freed \in Scripts /\ entries \in Blocks /\ w \in Words
      BY <1>2, <1>6, <1>8
    <3> QED
      BY <2>1, <3>1, WrtIs
  <2> QED
    BY <1>6, <2>2
<1> HIDE DEF v
<1>10. /\ Full(v) \in Disks /\ Full(v).marked = e.marked \ {f} /\ Full(v).block[entries] = w
       /\ \A c \in Blocks \ {entries} : Full(v).block[c] = e.block[c]
  <2>1. s.ino = e.block[ROOT_INODE_BLOCK]
    BY <1>5, FullFields
  <2> QED
    BY <1>2, <1>5, <1>9, <2>1, FullFields
<1> DEFINE F == {f}
           q == [b \in Blocks |-> IF b \in F THEN "free" ELSE r[b]]
<1>11. r \in [Blocks -> Roles] /\ r[entries] = "dir" /\ r[f] = "inode" /\ r[ROOT_INODE_BLOCK] = "root"
  BY <1>2, <1>4 DEF Owned, KeepsFiles
<1>12. \A c \in Blocks \ F : \A j \in Used(r[c]) :
            \/ Full(v).block[c].ptr[j] = NULL
            \/ Full(v).block[c].ptr[j] = e.block[c].ptr[j] /\ e.block[c].ptr[j] \notin F
  <2> SUFFICES ASSUME NEW c \in Blocks \ F, NEW j \in Used(r[c]), Full(v).block[c].ptr[j] # NULL
               PROVE  Full(v).block[c].ptr[j] = e.block[c].ptr[j] /\ e.block[c].ptr[j] # f
    OBVIOUS
  <2>1. j \in Slots
    BY <1>11, RoleSlots
  <2>2. Full(v).block[c].ptr[j] = e.block[c].ptr[j] /\ ~(c = entries /\ j = n)
    BY <1>8, <1>10, <2>1
  <2>3. e.block[c].ptr[j] = e.block[entries].ptr[n] => c = entries /\ j = n
    BY <1>2, <1>4, <1>11, <2>2 DEF Owned
  <2> QED
    BY <1>7, <2>2, <2>3
<1>13. Owned(r, e) /\ e \in Disks /\ Full(v) \in Disks /\ F \cap Special = {} /\ Full(v).marked = e.marked \ F
  BY <1>2, <1>4, <1>5, <1>10
<1> HIDE DEF F
<1>14. Owned(q, Full(v))
  <2>1. q = [b \in Blocks |-> IF b \in F THEN "free" ELSE r[b]]
    OBVIOUS
  <2> HIDE DEF q
  <2> QED
    <3>1. Owned(r, e) /\ e \in Disks /\ Full(v) \in Disks
      BY <1>13
    <3>2. F \cap Special = {} /\ Full(v).marked = e.marked \ F
      BY <1>13
    <3> DEFINE u == Full(v)
    <3>3. u \in Disks /\ u.marked = e.marked \ F
          /\ \A b \in Blocks \ F : \A i \in Used(r[b]) :
                \/ u.block[b].ptr[i] = NULL
                \/ u.block[b].ptr[i] = e.block[b].ptr[i] /\ e.block[b].ptr[i] \notin F
      BY <1>12, <3>1, <3>2
    <3> HIDE DEF u
    <3>4. Owned(q, u)
      BY <2>1, <3>1, <3>2, <3>3, OwnedFreed
    <3> QED
      BY <3>4 DEF u
<1>15. q[ROOT_INODE_BLOCK] = "root"
  BY <1>2, <1>11, Places DEF F
<1> HIDE DEF q
<1>16. Whole(q, v)
  BY <1>9, <1>14, <1>15 DEF Whole
<1>17. Sound(q, t) /\ Now(t) = Full(v) /\ Len(t.log) = Len(v.log) + 1
  BY <1>1, <1>16, InodeWritten
<1> HIDE DEF t
<1>18. t \in Scripts /\ Len(t.log) >= 2 /\ Good(Now(t))
  <2>1. Len(s.log) \in Nat
    BY <1>5, ScriptFields
  <2>2. Len(t.log) >= 2
    BY <1>6, <1>9, <1>17, <2>1
  <2> QED
    BY <1>14, <1>17, <2>2 DEF Sound, Good
<1> QED
  BY <1>18 DEF t
-----------------------------------------------------------------------------
(* The operation has got to the block of entries, in which nothing is      *)
(* entered that was not before.                                            *)
AtDirectory(r, d, t) ==
    /\ Sound(r, t) /\ Now(t) = Full(t) /\ Len(t.log) >= 2
    /\ r[t.at] = "dir" /\ t.adr = ROOT_INODE_BLOCK
    /\ \A n \in Names : Entry(d, n) = NULL => Full(t).block[t.at].ptr[n] = NULL

(* The block of entries is there or is allocated, and is empty then.       *)
LEMMA DirectoryFollowed ==
    ASSUME NEW role, NEW d \in Disks, Owned(role, d), NEW s, Sound(role, s), AllGood(s),
           s.at = ROOT_INODE_BLOCK, s.adr = ROOT_INODE_BLOCK, Full(s) = d, s.ino = d.block[ROOT_INODE_BLOCK],
           NEW start, Follow(s, 0, start).found
    PROVE  LET t == Follow(s, 0, start)
           IN  \E r : /\ Sound(r, t) /\ r[t.at] = "dir" /\ t.adr = ROOT_INODE_BLOCK
                      /\ \A n \in Names : Entry(d, n) = NULL => Full(t).block[t.at].ptr[n] = NULL
<1> DEFINE t == Follow(s, 0, start)
<1>1. /\ role[ROOT_INODE_BLOCK] = "root" /\ Used("root") = {0} /\ Below("root", 0) = "dir"
      /\ 0 \in Slots /\ ROOT_INODE_BLOCK \in Blocks /\ Names \subseteq Slots
      /\ EntryBlock(d) \in Blocks
      /\ EntryBlock(d) = d.block[ROOT_INODE_BLOCK].ptr[0]
      /\ s \in Scripts /\ role \in [Blocks -> Roles]
  BY Places, RoleSlots, RoleBelow DEF Owned, EntryBlock, Sound, Disks, Words
<1>2. t = IF EntryBlock(d) = NULL THEN EnlargeFile(s, 0, start) ELSE [s EXCEPT !.at = EntryBlock(d)]
  BY <1>1 DEF Follow
<1>3. CASE EntryBlock(d) = NULL
  <2>1. t = EnlargeFile(s, 0, start)
    BY <1>2, <1>3
  <2>2. 0 \in Used(role[s.at]) /\ Full(s).block[s.at].ptr[0] = NULL /\ Below(role[s.at], 0) = "dir"
    BY <1>1, <1>3
  <2> HIDE DEF t
  <2>3. t.found
    BY DEF t
  <2>4. PICK r : Reached(role, s, r, t, "dir") /\ Full(t).block[t.at] = Zero
    BY <2>1, <2>2, <2>3, EnlargeSound
  <2>5. \A n \in Names : Full(t).block[t.at].ptr[n] = NULL
    BY <1>1, <2>4 DEF Zero
  <2> QED
    BY <2>4, <2>5 DEF Reached, t
<1>4. CASE EntryBlock(d) # NULL
  <2>1. t = [s EXCEPT !.at = EntryBlock(d)]
    BY <1>2, <1>4
  <2> HIDE DEF t
  <2>2. /\ t \in Scripts /\ t.adr = s.adr /\ t.ino = s.ino /\ t.at = EntryBlock(d)
        /\ Now(t) = Now(s) /\ Full(t) = d
    BY <1>1, <2>1, AtIs
  <2>3. role[t.at] = "dir"
    BY <1>1, <1>4, <2>2 DEF Owned
  <2>4. Sound(role, t)
    BY <2>2 DEF Sound
  <2>5. \A n \in Names : Entry(d, n) = NULL => Full(t).block[t.at].ptr[n] = NULL
    BY <1>4, <2>2 DEF Entry
  <2> QED
    BY <2>2, <2>3, <2>4, <2>5 DEF t
<1> QED
  BY <1>3, <1>4

(* insert_file_into_dir() reaches the block of entries.                    *)
LEMMA DirectoryReached ==
    ASSUME NEW role, NEW d \in Disks, Owned(role, d),
           GetDataBlock(Begin(<<d>>, ROOT_INODE_BLOCK), 0).found
    PROVE  \E r : AtDirectory(r, d, GetDataBlock(Begin(<<d>>, ROOT_INODE_BLOCK), 0))
<1> DEFINE s == Begin(<<d>>, ROOT_INODE_BLOCK)
           i == [s EXCEPT !.at = s.adr]
           u == Follow(i, 0, s.adr)
           t == GetDataBlock(s, 0)
<1>1. ROOT_INODE_BLOCK \in Blocks /\ role[ROOT_INODE_BLOCK] = "root" /\ d.block \in [Blocks -> Words]
  BY Places DEF Owned, Disks
<1>2. /\ Sound(role, s) /\ AllGood(s) /\ s.adr = ROOT_INODE_BLOCK /\ s.at = ROOT_INODE_BLOCK
      /\ s.ino = d.block[ROOT_INODE_BLOCK] /\ Full(s) = d /\ IsScript(s)
  BY <1>1, BeginSound
<1>3. t = WriteInode(u)
  <2>1. 0 \div BLOCK_SIZE = 0 /\ 0 - NUM_DIRECT_POINTER < 0
    BY Constants
  <2>2. 0 \div BLOCK_SIZE - NUM_DIRECT_POINTER < 0 /\ ~(0 \div BLOCK_SIZE - NUM_DIRECT_POINTER >= 0)
    BY <2>1, Constants
  <2> HIDE DEF s
  <2>3. GetDataBlock(s, 0) = WriteInode(Follow([s EXCEPT !.at = s.adr], 0 \div BLOCK_SIZE, s.adr))
    BY <2>2, GetDataBlockCases
  <2> QED
    BY <2>1, <2>3
<1> HIDE DEF s
<1>4. /\ i \in Scripts /\ i.adr = s.adr /\ i.ino = s.ino /\ i.at = s.adr
      /\ Now(i) = Now(s) /\ Full(i) = Full(s) /\ AllGood(i)
  <2>1. s \in Scripts
    BY <1>2 DEF Sound
  <2> QED
    BY <1>1, <1>2, <2>1, AtIs
<1>5. Sound(role, i) /\ IsScript(i)
  BY <1>2, <1>4, LaterSteps DEF Sound, Later
<1> HIDE DEF i
<1>6. u.found
  <2>1. IsScript(u)
    BY <1>5, LaterFollow DEF Later
  <2>2. t.found
    BY DEF s
  <2> HIDE DEF u, t
  <2> QED
    BY <1>3, <2>1, <2>2, LaterSteps DEF Later
<1>7. PICK r : /\ Sound(r, u) /\ r[u.at] = "dir" /\ u.adr = ROOT_INODE_BLOCK
               /\ \A n \in Names : Entry(d, n) = NULL => Full(u).block[u.at].ptr[n] = NULL
  <2>1. i.at = ROOT_INODE_BLOCK /\ i.adr = ROOT_INODE_BLOCK /\ Full(i) = d /\ i.ino = d.block[ROOT_INODE_BLOCK]
    BY <1>2, <1>4
  <2> QED
    BY <1>4, <1>5, <1>6, <2>1, DirectoryFollowed
<1> HIDE DEF u
<1>8. Whole(r, u)
  BY <1>7 DEF Whole, Sound
<1>9. Sound(r, t) /\ Now(t) = Full(u) /\ Full(t) = Full(u) /\ Len(t.log) = Len(u.log) + 1
      /\ t.adr = u.adr /\ t.at = u.at
  <2> HIDE DEF t
  <2> QED
    BY <1>3, <1>8, InodeWritten
<1> HIDE DEF t
<1>10. Len(t.log) >= 2
  <2>1. Len(u.log) \in Nat \ {0}
    BY <1>8, ScriptFields DEF Whole
  <2> QED
    BY <1>9, <2>1
<1>11. AtDirectory(r, d, t)
  BY <1>7, <1>9, <1>10 DEF AtDirectory
<1> QED
  BY <1>11 DEF t, s
-----------------------------------------------------------------------------
(* If no free block is missing, the block of the new inode was free.       *)
LEMMA FsCreateFound ==
    ASSUME NEW d \in Disks, NEW n, FsCreate(<<d>>, n).found
    PROVE  LET dir == GetDataBlock(Begin(<<d>>, ROOT_INODE_BLOCK), 0)
               new == GetFreeBlock(Now(dir), dir.at)
           IN  dir.found /\ new # NOT_FOUND
<1> DEFINE s == Begin(<<d>>, ROOT_INODE_BLOCK)
           dir == GetDataBlock(s, 0)
           new == GetFreeBlock(Now(dir), dir.at)
           a == AllocBlock(dir, new)
           size == SizeOf(dir, BLOCK_SIZE)
           b == [a EXCEPT !.ino.size = size]
           grown == WriteInode(b)
           words == [Sector(Now(grown), dir.at) EXCEPT !.ptr[n] = new]
           named == WrtBlock(grown, dir.at, words)
           z == WrtBlock(named, new, Zero)
           u == [z EXCEPT !.adr = new, !.ino = Zero]
           t == FsCreate(<<d>>, n)
<1>1. t = WriteInode(u)
  BY DEF FsCreate, Resized
<1>2. IsScript(dir)
  <2>1. s = [log |-> <<d>>, adr |-> ROOT_INODE_BLOCK, ino |-> Sector(<<d>>[Len(<<d>>)], ROOT_INODE_BLOCK),
             at |-> ROOT_INODE_BLOCK, found |-> TRUE]
    BY DEF Begin
  <2> HIDE DEF s
  <2>2. s \in [log : {s.log}, adr : {s.adr}, ino : {s.ino}, at : {s.at}, found : BOOLEAN]
    BY <2>1
  <2>3. IsScript(s)
    BY <2>2, Zenon DEF IsScript
  <2> QED
    BY <2>3, LaterChunk DEF Later
<1> HIDE DEF s, dir
<1>3. Later(dir, a) /\ (a.found => new # NOT_FOUND)
  BY <1>2, LaterSteps
<1> HIDE DEF a
<1>4. IsScript(b) /\ b.found = a.found
  <2>1. PICK L, A, W, P : a \in [log : L, adr : A, ino : W, at : P, found : BOOLEAN]
    BY <1>3 DEF Later, IsScript
  <2>2. b \in [log : L, adr : A, ino : {b.ino}, at : P, found : BOOLEAN] /\ b.found = a.found
    <3> DEFINE i == [a.ino EXCEPT !.size = size]
    <3>1. b = [a EXCEPT !.ino = i]
      OBVIOUS
    <3> HIDE DEF i, b
    <3> QED
      BY <2>1, <3>1
  <2> HIDE DEF b
  <2> QED
    BY <2>2, Zenon DEF IsScript
<1> HIDE DEF b
<1>5. Later(b, grown)
  BY <1>4, LaterSteps
<1> HIDE DEF grown
<1>6. Later(grown, named)
  BY <1>5, LaterSteps DEF Later
<1> HIDE DEF named
<1>7. Later(named, z)
  BY <1>6, LaterSteps DEF Later
<1> HIDE DEF z
<1>8. IsScript(u) /\ u.found = z.found
  <2>1. PICK L, A, W, P : z \in [log : L, adr : A, ino : W, at : P, found : BOOLEAN]
    BY <1>7 DEF Later, IsScript
  <2>2. u \in [log : L, adr : {new}, ino : {Zero}, at : P, found : BOOLEAN] /\ u.found = z.found
    <3> HIDE DEF new
    <3> QED
      BY <2>1
  <2> HIDE DEF u
  <2> QED
    BY <2>2, Zenon DEF IsScript
<1> HIDE DEF u
<1>9. Later(u, t)
  <2> HIDE DEF t
  <2> QED
    BY <1>1, <1>8, LaterSteps
<1>10. dir.found /\ new # NOT_FOUND
  <2>1. t.found
    OBVIOUS
  <2> HIDE DEF t, new
  <2> QED
    BY <1>3, <1>4, <1>5, <1>6, <1>7, <1>8, <1>9, <2>1 DEF Later
<1> QED
  BY <1>10 DEF dir, s

(* The new inode is entered, and so is its block.                          *)
LEMMA FsCreateSound ==
    ASSUME NEW role, NEW d \in Disks, Owned(role, d), NEW n \in Names, Entry(d, n) = NULL,
           FsCreate(<<d>>, n).found
    PROVE  LET t == FsCreate(<<d>>, n)
           IN  t \in Scripts /\ Len(t.log) >= 2 /\ Good(Now(t))
<1> DEFINE dir == GetDataBlock(Begin(<<d>>, ROOT_INODE_BLOCK), 0)
           new == GetFreeBlock(Now(dir), dir.at)
           a == AllocBlock(dir, new)
           size == SizeOf(dir, BLOCK_SIZE)
           grown == Resized(a, size)
           words == [Sector(Now(grown), dir.at) EXCEPT !.ptr[n] = new]
           named == WrtBlock(grown, dir.at, words)
           z == WrtBlock(named, new, Zero)
           u == [z EXCEPT !.adr = new, !.ino = Zero]
           t == FsCreate(<<d>>, n)
<1>1. t = WriteInode(u)
  BY DEF FsCreate
<1>2. dir.found /\ new # NOT_FOUND
  BY FsCreateFound
<1>3. PICK r : AtDirectory(r, d, dir)
  BY <1>2, DirectoryReached
<1> HIDE DEF dir
<1> DEFINE D == Full(dir)
<1>4. /\ Sound(r, dir) /\ dir \in Scripts /\ Now(dir) = D /\ Len(dir.log) >= 2 /\ Len(dir.log) \in Nat
      /\ dir.at \in Blocks /\ r[dir.at] = "dir" /\ D.block[dir.at].ptr[n] = NULL
      /\ Owned(r, D) /\ D \in Disks /\ dir.adr = ROOT_INODE_BLOCK /\ r[ROOT_INODE_BLOCK] = "root"
      /\ n \in Used(r[dir.at]) /\ n \in Slots
  BY <1>3, ScriptFields, FullFields, RoleSlots, Places DEF AtDirectory, Sound, Owned
<1>5. new \in Blocks /\ new \notin D.marked
  BY <1>2, <1>4, GetFreeBlockIs
<1>6. size \in Nat
  <2>1. dir.ino.size \in Nat /\ BLOCK_SIZE \in Nat
    BY <1>4, ScriptFields, Constants
  <2> QED
    BY <2>1 DEF SizeOf
<1> HIDE DEF D, size, new
<1>7. /\ a \in Scripts /\ Len(a.log) = Len(dir.log) + 1
      /\ a.adr = dir.adr /\ a.ino = dir.ino /\ a.at = dir.at
      /\ Now(a).marked = D.marked \cup {new} /\ Now(a).block = D.block
  BY <1>4, <1>5, MarkIs
<1> HIDE DEF a
<1>8. /\ Full(a) \in Disks /\ Full(a).marked = D.marked \cup {new}
      /\ \A b \in Blocks : Full(a).block[b] = D.block[b]
  <2>1. dir.ino = D.block[dir.adr]
    BY <1>4, FullFields DEF D
  <2> QED
    BY <1>4, <1>7, <2>1, FullFields
<1>9. Owned(r, Full(a))
  <2>1. D.marked \subseteq Full(a).marked
    BY <1>8
  <2>2. \A b \in Blocks : \A i \in Used(r[b]) : Full(a).block[b].ptr[i] \in {NULL, D.block[b].ptr[i]}
    BY <1>8
  <2> QED
    BY <1>4, <1>8, <2>1, <2>2, OwnedLess
<1>10. Whole(r, a)
  BY <1>4, <1>7, <1>9 DEF Whole
<1>11. /\ grown \in Scripts /\ Now(grown) = Full(grown) /\ Len(grown.log) = Len(a.log) + 1
       /\ grown.adr = a.adr
       /\ Full(grown).marked = Full(a).marked
       /\ \A b \in Blocks : Full(grown).block[b].ptr = Full(a).block[b].ptr
  BY <1>6, <1>10, ResizedSound DEF Sound
<1> HIDE DEF grown
<1>12. /\ Now(grown) \in Disks /\ Now(grown).block \in [Blocks -> Words]
       /\ Now(grown).marked = D.marked \cup {new}
       /\ \A b \in Blocks : Now(grown).block[b].ptr = D.block[b].ptr
  BY <1>8, <1>11, ScriptFields
<1>13. words \in Words /\ \A i \in Slots : words.ptr[i] = IF i = n THEN new ELSE D.block[dir.at].ptr[i]
  <2>1. words = [Now(grown).block[dir.at] EXCEPT !.ptr[n] = new] /\ Now(grown).block[dir.at] \in Words
    BY <1>4, <1>12 DEF Sector
  <2> HIDE DEF words
  <2>2. /\ words \in Words /\ words.ptr[n] = new
        /\ \A i \in Slots \ {n} : words.ptr[i] = Now(grown).block[dir.at].ptr[i]
    BY <1>4, <1>5, <2>1, WordsUpdates
  <2> QED
    BY <1>4, <1>12, <2>2
<1> HIDE DEF words
<1>14. /\ named \in Scripts /\ Len(named.log) = Len(grown.log) + 1
       /\ Now(named).marked = Now(grown).marked /\ Now(named).block[dir.at] = words
       /\ \A c \in Blocks \ {dir.at} : Now(named).block[c] = Now(grown).block[c]
  <2>1. grown \in Scripts /\ dir.at \in Blocks /\ words \in Words
    BY <1>4, <1>11, <1>13
  <2> QED
    BY <2>1, WrtIs
<1> HIDE DEF named
<1>15. /\ z \in Scripts /\ Len(z.log) = Len(named.log) + 1
       /\ Now(z).marked = Now(named).marked /\ Now(z).block[new] = Zero
       /\ \A c \in Blocks \ {new} : Now(z).block[c] = Now(named).block[c]
  BY <1>5, <1>14, ZeroWords, WrtIs
<1> HIDE DEF z
<1>16. u \in Scripts /\ u.log = z.log /\ u.adr = new /\ u.ino = Zero
  BY <1>5, <1>15, ZeroWords DEF Scripts
<1> HIDE DEF u
<1>17. /\ t \in Scripts /\ Len(t.log) = Len(z.log) + 1
       /\ Now(t).marked = Now(z).marked /\ Now(t).block[new] = Zero
       /\ \A c \in Blocks \ {new} : Now(t).block[c] = Now(z).block[c]
  <2>1. t = WrtBlock(u, new, Zero) /\ Now(u) = Now(z)
    BY <1>1, <1>16 DEF WriteInode, Now
  <2> HIDE DEF t
  <2> QED
    BY <1>5, <1>16, <2>1, ZeroWords, WrtIs
<1> HIDE DEF t
<1>18. dir.at # new
  BY <1>4, <1>5 DEF Owned
<1>19. /\ Now(t) \in Disks /\ Now(t).marked = D.marked \cup {new}
       /\ \A i \in Slots : Now(t).block[new].ptr[i] = NULL
  BY <1>12, <1>14, <1>15, <1>17, ScriptFields DEF Zero
<1>20. \A b \in Blocks \ {new} : \A i \in Slots :
            Now(t).block[b].ptr[i] = IF b = dir.at /\ i = n THEN new ELSE D.block[b].ptr[i]
  BY <1>12, <1>13, <1>14, <1>15, <1>17, <1>18
<1>21. Owned([r EXCEPT ![new] = Below(r[dir.at], n)], Now(t))
  <2> DEFINE e == Now(t)
             at == dir.at
  <2>1. /\ D \in Disks /\ e \in Disks /\ Owned(r, D) /\ at \in Blocks /\ n \in Used(r[at]) /\ new \in Blocks
        /\ D.block[at].ptr[n] = NULL /\ new \notin D.marked /\ e.marked = D.marked \cup {new}
    BY <1>4, <1>5, <1>19
  <2>2. \A i \in Slots : e.block[new].ptr[i] = NULL
    BY <1>19
  <2>3. \A b \in Blocks \ {new} : \A i \in Slots :
            e.block[b].ptr[i] = IF b = at /\ i = n THEN new ELSE D.block[b].ptr[i]
    BY <1>20
  <2> HIDE DEF e, at
  <2>4. Owned([r EXCEPT ![new] = Below(r[at], n)], e)
    BY <2>1, <2>2, <2>3, OwnedMore
  <2> QED
    BY <2>4 DEF e, at
<1>22. Good(Now(t))
  BY <1>21 DEF Good
<1>23. Len(t.log) >= 2
  BY <1>4, <1>7, <1>11, <1>14, <1>15, <1>17
<1> QED
  BY <1>17, <1>22, <1>23 DEF t
-----------------------------------------------------------------------------
(* A pointer that leads from a block in use to a block in use.             *)
IsReference(role, p) ==
    \E b \in Blocks : \E i \in Used(role[b]) :
        p = <<b, i, disk.block[b].ptr[i]>> /\ disk.block[b].ptr[i] # NULL

(* The pointers of a block that are listed are among those its role uses.  *)
LEMMA PointersUsed ==
    ASSUME NEW role, NEW b \in Blocks, NEW n, 0 .. n - 1 \subseteq Used(role[b])
    PROVE  \A p \in PointersOf(b, n) : IsReference(role, p)
  BY DEF PointersOf, IsReference

(* Where a used pointer leads to.                                          *)
LEMMA PointerIs ==
    ASSUME NEW role, disk \in Disks, Owned(role, disk), NEW b \in Blocks, NEW i \in Used(role[b]),
           disk.block[b].ptr[i] # NULL
    PROVE  disk.block[b].ptr[i] \in Blocks /\ role[disk.block[b].ptr[i]] = Below(role[b], i)
<1>1. i \in Slots
  BY RoleSlots DEF Owned
<1> QED
  BY <1>1 DEF Owned, Disks, Words

(* All pointers of a file are used pointers.                               *)
LEMMA FilePointersUsed ==
    ASSUME NEW role, disk \in Disks, Owned(role, disk), NEW f \in Blocks, role[f] = "inode"
    PROVE  \A p \in FilePointers(f) : IsReference(role, p)
<1> DEFINE sip == disk.block[f].ptr[SIP]
           dip == disk.block[f].ptr[DIP]
           double == PointersOf(dip, ADDRS_PER_BLOCK)
<1>1. SIP \in Used(role[f]) /\ DIP \in Used(role[f]) /\ Below(role[f], SIP) = "single"
      /\ Below(role[f], DIP) = "double"
  BY Places, RoleSlots, RoleBelow
<1>2. \A p \in PointersOf(f, InodeSlots) : IsReference(role, p)
  BY RoleSlots, PointersUsed
<1>3. ASSUME sip # NULL
      PROVE  \A p \in PointersOf(sip, ADDRS_PER_BLOCK) : IsReference(role, p)
  <2>1. sip \in Blocks /\ role[sip] = "single"
    BY <1>1, <1>3, PointerIs
  <2> HIDE DEF sip
  <2> QED
    BY <2>1, RoleSlots, PointersUsed
<1>4. ASSUME dip # NULL
      PROVE  \A p \in double : /\ IsReference(role, p)
                               /\ \A q \in PointersOf(p[3], ADDRS_PER_BLOCK) : IsReference(role, q)
  <2>1. dip \in Blocks /\ role[dip] = "double"
    BY <1>1, <1>4, PointerIs
  <2> HIDE DEF dip
  <2>2. \A p \in double : IsReference(role, p)
    BY <2>1, RoleSlots, PointersUsed
  <2>3. ASSUME NEW p \in double
        PROVE  \A q \in PointersOf(p[3], ADDRS_PER_BLOCK) : IsReference(role, q)
    <3>1. PICK i \in 0 .. ADDRS_PER_BLOCK - 1 :
                p = <<dip, i, disk.block[dip].ptr[i]>> /\ disk.block[dip].ptr[i] # NULL
      BY <2>3 DEF PointersOf
    <3>2. i \in Used(role[dip])
      BY <2>1, RoleSlots
    <3>3. p[3] \in Blocks /\ role[p[3]] = "single"
      BY <2>1, <3>1, <3>2, PointerIs, RoleBelow
    <3> QED
      BY <3>3, RoleSlots, PointersUsed
  <2> QED
    BY <2>2, <2>3
<1> HIDE DEF sip, dip
<1>5. FilePointers(f) = PointersOf(f, InodeSlots)
            \cup (IF sip = NULL THEN {} ELSE PointersOf(sip, ADDRS_PER_BLOCK))
            \cup (IF dip = NULL THEN {}
                  ELSE double \cup UNION {PointersOf(p[3], ADDRS_PER_BLOCK) : p \in double})
  BY DEF FilePointers, sip, dip
<1> HIDE DEF double
<1> QED
  BY <1>2, <1>3, <1>4, <1>5

(* All pointers that are reached from the root directory are used          *)
(* pointers.                                                               *)
LEMMA ReferencesUsed ==
    ASSUME NEW role, disk \in Disks, Owned(role, disk)
    PROVE  \A p \in References : IsReference(role, p)
<1>1. \A p \in PointersOf(ROOT_INODE_BLOCK, 1) : IsReference(role, p)
  <2>1. ROOT_INODE_BLOCK \in Blocks /\ role[ROOT_INODE_BLOCK] = "root" /\ 0 .. 1 - 1 \subseteq Used("root")
    BY Places, RoleSlots DEF Owned
  <2> QED
    BY <2>1, PointersUsed
<1>2. \A n \in Names : Entry(disk, n) # NULL => IsReference(role, <<EntryBlock(disk), n, Entry(disk, n)>>)
  <2> TAKE n \in Names
  <2> HAVE Entry(disk, n) # NULL
  <2>1. /\ EntryBlock(disk) # NULL /\ EntryBlock(disk) \in Blocks /\ n \in Used("dir")
        /\ role[EntryBlock(disk)] = "dir" /\ Entry(disk, n) = disk.block[EntryBlock(disk)].ptr[n]
    BY Directory
  <2> QED
    BY <2>1 DEF IsReference
<1>3. \A f \in FileInodes : \A p \in FilePointers(f) : IsReference(role, p)
  <2> TAKE f \in FileInodes
  <2>1. PICK n \in Names : f = Entry(disk, n) /\ Entry(disk, n) # NULL
    BY DEF FileInodes
  <2>2. f \in Blocks /\ role[f] = "inode"
    BY <2>1, Directory
  <2> QED
    BY <2>2, FilePointersUsed
<1> QED
  BY <1>1, <1>2, <1>3 DEF References

(* On a good disk no two references lead to the same block.                *)
LEMMA OwnedOnce ==
    ASSUME disk \in Disks, Good(disk)
    PROVE  \A p, q \in References : p[3] = q[3] => p = q
<1>1. PICK role : Owned(role, disk)
  BY DEF Good
<1> SUFFICES ASSUME NEW p \in References, NEW q \in References, p[3] = q[3]
             PROVE  p = q
  OBVIOUS
<1>2. IsReference(role, p) /\ IsReference(role, q)
  BY <1>1, ReferencesUsed
<1>3. PICK b \in Blocks : \E i \in Used(role[b]) :
            p = <<b, i, disk.block[b].ptr[i]>> /\ disk.block[b].ptr[i] # NULL
  BY <1>2 DEF IsReference
<1>4. PICK i \in Used(role[b]) : p = <<b, i, disk.block[b].ptr[i]>> /\ disk.block[b].ptr[i] # NULL
  BY <1>3
<1>5. PICK c \in Blocks : \E j \in Used(role[c]) :
            q = <<c, j, disk.block[c].ptr[j]>> /\ disk.block[c].ptr[j] # NULL
  BY <1>2 DEF IsReference
<1>6. PICK j \in Used(role[c]) : q = <<c, j, disk.block[c].ptr[j]>> /\ disk.block[c].ptr[j] # NULL
  BY <1>5
<1>7. disk.block[b].ptr[i] = disk.block[c].ptr[j]
  BY <1>4, <1>6
<1>8. b = c /\ i = j
  BY <1>1, <1>4, <1>7 DEF Owned
<1> QED
  BY <1>4, <1>6, <1>8

(* On a good disk what is referred to is marked.                           *)
LEMMA Marked ==
    ASSUME disk \in Disks, Good(disk)
    PROVE  Referenced \subseteq disk.marked \cap (FirstDataBlock .. LastBlock)
<1>1. PICK role : Owned(role, disk)
  BY DEF Good
<1> SUFFICES ASSUME NEW p \in References
             PROVE  p[3] \in disk.marked \cap (FirstDataBlock .. LastBlock)
  BY DEF Referenced
<1>2. IsReference(role, p)
  BY <1>1, ReferencesUsed
<1>3. PICK b \in Blocks : \E i \in Used(role[b]) :
            p = <<b, i, disk.block[b].ptr[i]>> /\ disk.block[b].ptr[i] # NULL
  BY <1>2 DEF IsReference
<1>4. PICK i \in Used(role[b]) : p = <<b, i, disk.block[b].ptr[i]>> /\ disk.block[b].ptr[i] # NULL
  BY <1>3
<1>5. role[b] \in Roles
  BY <1>1 DEF Owned
<1>6. p[3] \in Blocks /\ role[p[3]] = Below(role[b], i)
  BY <1>1, <1>4, PointerIs
<1>7. p[3] \in disk.marked /\ p[3] \notin Special
  BY <1>1, <1>5, <1>6, RoleBelow DEF Owned
<1> QED
  BY <1>6, <1>7, Constants DEF Blocks, Special, FirstDataBlock
(* The invariant.                                                          *)
IInv ==
    /\ TypeOK
    /\ Settled => Good(disk)
    /\ doing = "write" => \A i \in 1 .. Len(pending) : Good(pending[i])
    /\ doing # "idle" => Good(pending[Len(pending)])

(* The disk that init_fs() leaves is good.                                 *)
LEMMA InitSound == Init => IInv
<1> SUFFICES ASSUME Init
             PROVE  IInv
  OBVIOUS
<1>1. 0 .. FirstDataBlock - 1 \subseteq Blocks
  BY Places DEF Special
<1>2. disk \in Disks
  BY <1>1, ZeroWords DEF Init, Disks
<1> DEFINE role == [b \in Blocks |-> IF b = ROOT_INODE_BLOCK THEN "root" ELSE "free"]
<1>3. role \in [Blocks -> Roles] /\ \A b \in Blocks : role[b] = IF b = ROOT_INODE_BLOCK THEN "root" ELSE "free"
  BY DEF Roles
<1> HIDE DEF role
<1>4. \A b \in Blocks : \A i \in Used(role[b]) : disk.block[b].ptr[i] = NULL
  <2>1. \A b \in Blocks : \A i \in Used(role[b]) : i \in Slots
    BY <1>3, RoleSlots
  <2> QED
    BY <2>1 DEF Init, Zero
<1>5. Special \subseteq disk.marked
  BY DEF Init, Special
<1>6. Owned(role, disk)
  BY <1>3, <1>4, <1>5 DEF Owned
<1>7. TypeOK
  BY <1>2, FileSystemAssumption DEF Init, TypeOK
<1> QED
  BY <1>6, <1>7 DEF Init, IInv, Good

(* An operation starts whose last disk is good, and all of them if it may  *)
(* be interrupted.                                                         *)
LEMMA StartSound ==
    ASSUME IInv, NEW op \in {"create", "write", "truncate", "delete"}, NEW t \in Scripts, Len(t.log) >= 2,
           Good(Now(t)), op = "write" => AllGood(t), Start(op, t)
    PROVE  IInv'
<1>1. t.log \in Seq(Disks) /\ Len(t.log) \in Nat
  BY ScriptFields
<1>2. /\ doing = "idle" /\ ops < MaxOps /\ doing' = op /\ ops' = ops + 1 /\ pending' = Tail(t.log)
      /\ disk' = disk /\ crashes' = crashes
  BY DEF Start
<1>3. /\ Tail(t.log) \in Seq(Disks) /\ Tail(t.log) # <<>> /\ Len(Tail(t.log)) = Len(t.log) - 1
      /\ \A i \in 1 .. Len(t.log) - 1 : Tail(t.log)[i] = t.log[i + 1]
  BY <1>1
<1>4. TypeOK'
  <2>1. ops' \in 0 .. MaxOps
    BY <1>2, FileSystemAssumption DEF IInv, TypeOK
  <2> QED
    BY <1>2, <1>3, <2>1 DEF IInv, TypeOK
<1>5. Settled' => Good(disk')
  BY <1>2 DEF IInv, Settled
<1>6. doing' = "write" => \A i \in 1 .. Len(pending') : Good(pending'[i])
  <2>1. \A i \in 1 .. Len(t.log) - 1 : i + 1 \in 1 .. Len(t.log)
    BY <1>1
  <2> QED
    BY <1>2, <1>3, <2>1 DEF AllGood
<1>7. pending'[Len(pending')] = Now(t)
  BY <1>1, <1>2, <1>3 DEF Now
<1> QED
  BY <1>4, <1>5, <1>6, <1>7 DEF IInv

(* Every step keeps the invariant.                                         *)
LEMMA StepSound ==
    ASSUME CrashIn \subseteq {"write"}, IInv, [Next]_vars
    PROVE  IInv'
<1>1. disk \in Disks /\ pending \in Seq(Disks)
  BY DEF IInv, TypeOK
<1>2. ASSUME NEW n \in Names, Create(n)
      PROVE  IInv'
  <2>1. PICK role : Owned(role, disk)
    BY <1>2 DEF Create, Start, IInv, Settled, Good
  <2> DEFINE t == FsCreate(<<disk>>, n)
  <2>2. Entry(disk, n) = NULL /\ Start("create", t) /\ t.found
    BY <1>2 DEF Create, Start
  <2>3. t \in Scripts /\ Len(t.log) >= 2 /\ Good(Now(t))
    BY <1>1, <2>1, <2>2, FsCreateSound
  <2> HIDE DEF t
  <2> QED
    BY <2>2, <2>3, StartSound
<1>3. ASSUME NEW n \in Names, NEW pos \in 0 .. MaxSize - 1, NEW len \in Lengths, Write(n, pos, len)
      PROVE  IInv'
  <2>1. PICK role : Owned(role, disk)
    BY <1>3 DEF Write, Start, IInv, Settled, Good
  <2> DEFINE f == Entry(disk, n)
             t == FsWrite(<<disk>>, f, pos, len)
  <2>2. Entry(disk, n) # NULL /\ pos < MaxSize /\ Start("write", t) /\ t.found
    BY <1>3 DEF Write, Start
  <2>3. f \in Blocks /\ role[f] = "inode" /\ pos \in Nat /\ len \in Nat \ {0}
    BY <1>1, <2>1, <2>2, Directory, FileSystemAssumption
  <2> HIDE DEF f
  <2>4. t \in Scripts /\ AllGood(t) /\ Len(t.log) >= 2
    BY <1>1, <2>1, <2>2, <2>3, FsWriteSound
  <2> HIDE DEF t
  <2>5. Good(Now(t))
    BY <2>4, ScriptFields DEF AllGood, Now
  <2> QED
    BY <2>2, <2>4, <2>5, StartSound
<1>4. ASSUME NEW n \in Names, NEW size \in Sizes, Truncate(n, size)
      PROVE  IInv'
  <2>1. PICK role : Owned(role, disk)
    BY <1>4 DEF Truncate, Start, IInv, Settled, Good
  <2> DEFINE f == Entry(disk, n)
             t == FsTruncate(<<disk>>, f, size)
  <2>2. Entry(disk, n) # NULL /\ Start("truncate", t) /\ t.found
    BY <1>4 DEF Truncate, Start
  <2>3. f \in Blocks /\ role[f] = "inode" /\ size \in Nat
    BY <1>1, <2>1, <2>2, Directory, FileSystemAssumption
  <2> HIDE DEF f
  <2>4. t \in Scripts /\ Len(t.log) >= 2 /\ \E r : Owned(r, Now(t))
    BY <1>1, <2>1, <2>2, <2>3, FsTruncateSound
  <2> HIDE DEF t
  <2>5. Good(Now(t))
    BY <2>4 DEF Good
  <2> QED
    BY <2>2, <2>4, <2>5, StartSound
<1>5. ASSUME NEW n \in Names, NEW opened \in OpenSucceeds, Delete(n, opened)
      PROVE  IInv'
  <2>1. PICK role : Owned(role, disk)
    BY <1>5 DEF Delete, Start, IInv, Settled, Good
  <2> DEFINE t == FsDelete(<<disk>>, n, opened)
  <2>2. Entry(disk, n) # NULL /\ Start("delete", t)
    BY <1>5 DEF Delete
  <2>3. t \in Scripts /\ Len(t.log) >= 2 /\ Good(Now(t))
    BY <1>1, <2>1, <2>2, FsDeleteSound
  <2> HIDE DEF t
  <2> QED
    BY <2>2, <2>3, StartSound
<1>6. ASSUME WriteSector
      PROVE  IInv'
  <2>1. /\ pending # <<>> /\ disk' = Head(pending) /\ pending' = Tail(pending)
        /\ doing' = IF Tail(pending) = <<>> THEN "idle" ELSE doing
        /\ crashes' = crashes /\ ops' = ops /\ doing # "idle"
    BY <1>6 DEF WriteSector, IInv, TypeOK
  <2>2. /\ Len(pending) \in Nat \ {0} /\ Head(pending) \in Disks /\ Head(pending) = pending[1]
        /\ Tail(pending) \in Seq(Disks) /\ Len(Tail(pending)) = Len(pending) - 1
        /\ \A i \in 1 .. Len(pending) - 1 : Tail(pending)[i] = pending[i + 1]
        /\ (Tail(pending) = <<>> <=> Len(pending) = 1)
    <3>1. Len(pending) \in Nat \ {0} /\ Head(pending) \in Disks /\ Head(pending) = pending[1]
      BY <1>1, <2>1
    <3>2. Tail(pending) \in Seq(Disks) /\ Len(Tail(pending)) = Len(pending) - 1
      BY <1>1, <2>1
    <3>3. \A i \in 1 .. Len(pending) - 1 : Tail(pending)[i] = pending[i + 1]
      BY <1>1, <2>1
    <3>4. Tail(pending) = <<>> <=> Len(Tail(pending)) = 0
      BY <3>2
    <3> QED
      BY <3>1, <3>2, <3>3, <3>4
  <2>3. TypeOK'
    BY <2>1, <2>2 DEF IInv, TypeOK
  <2>4. Settled' => Good(disk')
    <3>1. Len(pending) = 1 => Good(pending[1])
      BY <2>1 DEF IInv
    <3>2. Len(pending) # 1 /\ Settled' => doing = "write"
      BY <2>1, <2>2 DEF Settled
    <3>3. doing = "write" => Good(pending[1])
      BY <2>2 DEF IInv
    <3> QED
      BY <2>1, <2>2, <3>1, <3>2, <3>3
  <2>5. doing' = "write" => \A i \in 1 .. Len(pending') : Good(pending'[i])
    <3>1. \A i \in 1 .. Len(pending) - 1 : i + 1 \in 1 .. Len(pending)
      BY <2>2
    <3>2. doing' = "write" => doing = "write"
      BY <2>1
    <3> QED
      BY <2>1, <2>2, <3>1, <3>2 DEF IInv
  <2>6. doing' # "idle" => pending'[Len(pending')] = pending[Len(pending)]
    BY <2>1, <2>2
  <2> QED
    BY <2>1, <2>3, <2>4, <2>5, <2>6 DEF IInv
<1>7. ASSUME Crash
      PROVE  IInv'
  <2>1. /\ doing = "write" /\ crashes < MaxCrashes /\ pending' = <<>> /\ doing' = "idle"
        /\ crashes' = crashes + 1 /\ disk' = disk /\ ops' = ops
    BY <1>7 DEF Crash
  <2>2. crashes' \in 0 .. MaxCrashes
    BY <2>1, FileSystemAssumption DEF IInv, TypeOK
  <2>3. TypeOK'
    BY <2>1, <2>2 DEF IInv, TypeOK
  <2> QED
    BY <2>1, <2>3 DEF IInv, Settled
<1>8. ASSUME UNCHANGED vars
      PROVE  IInv'
  BY <1>8 DEF vars, IInv, TypeOK, Settled
<1> QED
  BY <1>2, <1>3, <1>4, <1>5, <1>6, <1>7, <1>8 DEF Next, Idle

(* The invariant holds as long as the machine does not stop while an inode *)
(* is created, truncated or deleted, for every size of disk, inode and     *)
(* address block, with seeking and without, and whatever fs_open() tells   *)
(* fs_truncate().                                                          *)
THEOREM FileSystemInvariant ==
    ASSUME CrashIn \subseteq {"write"}
    PROVE  Spec => []IInv
<1>1. Init => IInv
  BY InitSound
<1>2. IInv /\ [Next]_vars => IInv'
  BY StepSound
<1> QED
  BY <1>1, <1>2, PTL DEF Spec

(* The types.                                                              *)
THEOREM FileSystemTypeOK ==
    ASSUME CrashIn \subseteq {"write"}
    PROVE  Spec => []TypeOK
<1>1. IInv => TypeOK
  BY DEF IInv
<1> QED
  BY <1>1, FileSystemInvariant, PTL

(* No block belongs to two files, or twice to one, after any sector of a   *)
(* write and after every other operation of fs_create_delete.c and         *)
(* fs_dir.c.                                                               *)
THEOREM FileSystemBlocksOwnedOnce ==
    ASSUME CrashIn \subseteq {"write"}
    PROVE  Spec => []BlocksOwnedOnce
<1>1. IInv => BlocksOwnedOnce
  BY OwnedOnce DEF IInv, TypeOK, BlocksOwnedOnce
<1> QED
  BY <1>1, FileSystemInvariant, PTL

(* alloc_block() never gives away a block that a file or the directory     *)
(* still refers to.                                                        *)
THEOREM FileSystemReferencedAreMarked ==
    ASSUME CrashIn \subseteq {"write"}
    PROVE  Spec => []ReferencedAreMarked
<1>1. IInv => ReferencedAreMarked
  BY Marked DEF IInv, TypeOK, ReferencedAreMarked
<1> QED
  BY <1>1, FileSystemInvariant, PTL
=============================================================================
