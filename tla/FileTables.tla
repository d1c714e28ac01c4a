----------------------------- MODULE FileTables -----------------------------
(***************************************************************************)
(* The three tables behind a file descriptor: the process file tables      *)
(* (pft), the global file table (gft) and the inode table, and the system  *)
(* calls that change them: _open(), _close(), _stat(), _unlink(), _exit(). *)
(*                                                                         *)
(* A system call runs with interrupts enabled: it may be switched off the  *)
(* processor anywhere, and is while it waits for the disk in search_file(),*)
(* read_minode(), write_inode() and the directory's functions.  A call is  *)
(* cut into steps at those waits, and between looking for an unused inode  *)
(* or slot and taking it; Switches says at which of these points other     *)
(* processes run.  The assignments that fill an entry or free one are one  *)
(* step.  Files are directly below the root; what is in them is not        *)
(* modelled.                                                               *)
(***************************************************************************)
EXTENDS Integers, FiniteSets

CONSTANTS
    Procs, Paths, Root,   \* Root is the path "/"
    NumFiles,             \* NUM_FILES
    NumInodes,            \* NUM_INODES
    NumProcFiles,         \* NUM_PROC_FILES
    Switches,             \* the points of a call at which other processes run
    Careless              \* what the programs do that they had better not

\* The points of a system call: what it is about to do.
Points == {"search", "create", "alloc", "mark", "insert", "slot", "fill",
           "opened", "closing", "remove", "shrink", "delete"}

\* An unused inode or slot has been looked for, and is not taken yet.
BetweenLookAndTake == {"mark", "slot", "fill"}

ASSUME FileTablesAssumption ==
    /\ NumFiles \in Nat \ {0} /\ NumInodes \in Nat \ {0} /\ NumProcFiles \in Nat \ {0}
    /\ Root \notin Paths /\ -1 \notin Paths \cup {Root}
    /\ IsFiniteSet(Procs)
    /\ Switches \subseteq Points
    /\ Careless \subseteq {"unlink_open", "exit_open", "open_many", "close_unopened"}

Nil == -1               \* NIL_FILE, NIL_INODE, NOT_FOUND, NOT_POSSIBLE
MAX_DEVICES == 100      \* where the descriptors of files start
RootInode == 0

Names  == Paths \cup {Root}
Slots  == 0 .. NumFiles - 1
Inodes == 0 .. NumInodes - 1
Fds    == 0 .. NumProcFiles - 1

VARIABLES
    disk,     \* the files that exist
    gft,      \* gft[i]: name (Nil if unused), inode, and f_count
    inodes,   \* inode_table[i]: the file it was read from, Nil if unused
    pft,      \* pft[p][i]: pf_f_desc (Nil if unused) and the path opened
    live,     \* the processes that exist
    call,     \* the system call each process is in
    ret,      \* what the last _open() of each process returned
    wild      \* TRUE once a NULL pointer was followed

vars == <<disk, gft, inodes, pft, live, call, ret, wild>>

Idle == [op |-> "none", at |-> "idle", path |-> Root, creat |-> FALSE,
         inode |-> Nil, fd |-> Nil, pf |-> Nil]
Unused == [name |-> Nil, inode |-> Nil, count |-> 0]
Closed == [f |-> Nil, path |-> Nil]

Init ==
    /\ disk \in SUBSET Paths
    /\ gft = [i \in Slots |-> Unused]
    /\ inodes = [i \in Inodes |-> IF i = RootInode THEN Root ELSE Nil]
    /\ pft = [p \in Procs |-> [i \in Fds |-> Closed]]
    /\ live = Procs
    /\ call = [p \in Procs |-> Idle]
    /\ ret = [p \in Procs |-> Nil]
    /\ wild = FALSE

Lowest(S) == CHOOSE i \in S : \A j \in S : i <= j

\* name2desc(), alloc_file(), alloc_inode(), alloc_proc_file(): the loops
\* that stop at the first entry that fits.
Named(path) == {i \in Slots : gft[i].name = path}
FreeSlots == {i \in Slots : gft[i].name = Nil}
FreeInodes == {i \in Inodes : inodes[i] = Nil}
FreeFds(p) == {i \in Fds : pft[p][i].f = Nil}
Used(i) == i \in Slots /\ gft[i].name # Nil

(* Process p is at the given point, and may go on: the others are between  *)
(* calls, or where they can be switched.                                   *)
At(p, at) ==
    /\ ~wild /\ p \in live
    /\ call[p].at = at
    /\ \A q \in Procs \ {p} : call[q].at \in Switches \cup {"idle"}

Goes(p, at) == call' = [call EXCEPT ![p].at = at]
Returns(p) == call' = [call EXCEPT ![p] = Idle]

\* The paths of the descriptors that are open somewhere.
OpenPaths == {pft[p][i].path : p \in live, i \in Fds} \ {Nil}
----------------------------------------------------------------------------
(* do_open(), fs_open(): a file that is open already is found by its name, *)
(* and the root has its inode in the table.                                *)
Entry(path) ==
    CASE path # Root /\ Named(path) # {} -> "opened"
      [] path # Root /\ Named(path) = {} -> "search"
      [] path = Root                     -> "insert"

EntryFd(path) == IF Entry(path) = "opened" THEN Lowest(Named(path)) ELSE Nil

LookedUp(c) ==
    [c EXCEPT !.at = Entry(c.path), !.fd = EntryFd(c.path),
              !.inode = IF c.path = Root THEN RootInode ELSE Nil]

Begin(p, op, path, creat) ==
    /\ At(p, "idle")
    /\ call' = [call EXCEPT ![p] =
                  LookedUp([Idle EXCEPT !.op = op, !.path = path, !.creat = creat])]
    /\ UNCHANGED <<disk, gft, inodes, pft, live, ret, wild>>

Open(p, path, creat) ==
    /\ creat => path # Root
    /\ FreeFds(p) # {} \/ "open_many" \in Careless
    /\ Begin(p, "open", path, creat)

Stat(p, path) ==
    /\ FreeFds(p) # {} \/ "open_many" \in Careless
    /\ Begin(p, "stat", path, FALSE)

Unlink(p, path) ==
    /\ path \notin OpenPaths \/ "unlink_open" \in Careless
    /\ Begin(p, "unlink", path, FALSE)

(* fs_open() failed.  sys_open() goes on to create the file if it is to,   *)
(* fs_delete() deletes it all the same, and the others return -1.          *)
Missed(p) ==
    \/ call[p].creat /\ Goes(p, "create") /\ UNCHANGED ret
    \/ call[p].op = "truncate" /\ Goes(p, "delete") /\ UNCHANGED ret
    \/ /\ ~call[p].creat /\ call[p].op # "truncate"
       /\ Returns(p)
       /\ ret' = IF call[p].op = "open" THEN [ret EXCEPT ![p] = Nil] ELSE ret

(* search_file(): the directory is read from the disk.                     *)
Search(p) ==
    /\ At(p, "search")
    /\ IF call[p].path \in disk THEN Goes(p, "alloc") /\ UNCHANGED ret ELSE Missed(p)
    /\ UNCHANGED <<disk, gft, inodes, pft, live, wild>>

(* sys_open() with O_CREAT: do_mkfile(), for which the file system may     *)
(* have no room, then do_open() again.                                     *)
Create(p) ==
    /\ At(p, "create")
    /\ disk' \in {disk, disk \cup {call[p].path}}
    /\ call' = [call EXCEPT ![p] = LookedUp([@ EXCEPT !.creat = FALSE])]
    /\ UNCHANGED <<gft, inodes, pft, live, ret, wild>>

(* alloc_inode() looks for an unused inode, ...                            *)
AllocInode(p) ==
    /\ At(p, "alloc")
    /\ IF FreeInodes = {} THEN Missed(p)
       ELSE /\ call' = [call EXCEPT ![p].at = "mark", ![p].inode = Lowest(FreeInodes)]
            /\ UNCHANGED ret
    /\ UNCHANGED <<disk, gft, inodes, pft, live, wild>>

(* ... and marks it; the file's inode is read into it from the disk.       *)
MarkInode(p) ==
    /\ At(p, "mark")
    /\ inodes' = [inodes EXCEPT ![call[p].inode] = call[p].path]
    /\ Goes(p, "insert")
    /\ UNCHANGED <<disk, gft, pft, live, ret, wild>>

(* insert_file() returns the entry that has the name by now, ...           *)
InsertFile(p) ==
    LET found == Named(call[p].path)
    IN  /\ At(p, "insert")
        /\ IF found # {}
           THEN call' = [call EXCEPT ![p].at = "opened", ![p].fd = Lowest(found),
                                     ![p].inode = Nil]
           ELSE Goes(p, "slot")
        /\ UNCHANGED <<disk, gft, inodes, pft, live, ret, wild>>

(* ... or looks for an unused slot (without one the inode stays marked) ...*)
AllocFile(p) ==
    /\ At(p, "slot")
    /\ IF FreeSlots = {} THEN Missed(p)
       ELSE /\ call' = [call EXCEPT ![p].at = "fill", ![p].fd = Lowest(FreeSlots)]
            /\ UNCHANGED ret
    /\ UNCHANGED <<disk, gft, inodes, pft, live, wild>>

(* ... and fills it.                                                       *)
FillFile(p) ==
    /\ At(p, "fill")
    /\ gft' = [gft EXCEPT ![call[p].fd] =
                 [name |-> call[p].path, inode |-> call[p].inode, count |-> 0]]
    /\ call' = [call EXCEPT ![p].at = "opened", ![p].inode = Nil]
    /\ UNCHANGED <<disk, inodes, pft, live, ret, wild>>
----------------------------------------------------------------------------
(* free_file() after its test that the file exists.                        *)
CountAfterCloseKept(n) == n
CountAfterCloseUnchecked(n) == n - 1
CountAfterClose(n) == IF n > 0 THEN n - 1 ELSE 0

\* free_inode(), for every file but the root.
InodesLeaked(i) == inodes
InodesWithRootFreed(i) == [inodes EXCEPT ![i] = Nil]
InodesAfterFree(i) == IF i = RootInode THEN inodes ELSE [inodes EXCEPT ![i] = Nil]

FreeFile(i) ==
    LET n == CountAfterClose(gft[i].count)
    IN  IF ~Used(i) THEN UNCHANGED <<gft, inodes>>
        ELSE /\ gft' = [gft EXCEPT ![i] = IF n = 0 THEN Unused ELSE [@ EXCEPT !.count = n]]
             /\ inodes' = IF n = 0 THEN InodesAfterFree(gft[i].inode) ELSE inodes

(* insert_proc_file(): the count goes up only if the global entry exists.  *)
CountAfterOpenUncounted(n) == n
CountAfterOpen(n) == n + 1

InsertedAt(p) == IF FreeFds(p) # {} THEN Lowest(FreeFds(p)) ELSE Nil

InsertProcFile(p) ==
    IF FreeFds(p) = {} THEN UNCHANGED <<pft, gft>>
    ELSE /\ pft' = [pft EXCEPT ![p][InsertedAt(p)] =
                      [f |-> call[p].fd, path |-> call[p].path]]
         /\ gft' = IF Used(call[p].fd)
                   THEN [gft EXCEPT ![call[p].fd].count = CountAfterOpen(@)]
                   ELSE gft

\* The handle that _open() returns for a descriptor, or for none.
HandleOfFile(fd) == fd
Handle(fd) == fd + MAX_DEVICES

\* Nothing checks in sys_open() whether insert_proc_file() failed.
OpenDone(p) ==
    /\ At(p, "opened") /\ call[p].op = "open"
    /\ InsertProcFile(p)
    /\ ret' = [ret EXCEPT ![p] = Handle(InsertedAt(p))]
    /\ Returns(p)
    /\ UNCHANGED <<disk, inodes, live, wild>>

(* sys_stat() enters the file in the pft, looks at it and closes it again. *)
(* With no descriptor left do_close_pf() follows NULL, and get_file_info() *)
(* does when the file is gone by now.                                      *)
StatFile(p) ==
    /\ At(p, "opened") /\ call[p].op = "stat"
    /\ InsertProcFile(p)
    /\ wild' = (FreeFds(p) = {} \/ ~Used(call[p].fd))
    /\ call' = [call EXCEPT ![p].at = "closing", ![p].pf = InsertedAt(p)]
    /\ UNCHANGED <<disk, inodes, live, ret>>

(* sys_unlink() closes the file, and refuses if it is in use.              *)
UnlinkDecide(p) ==
    /\ At(p, "opened") /\ call[p].op = "unlink"
    /\ wild' = ~Used(call[p].fd)
    /\ call' = [call EXCEPT ![p].at = "closing",
                            ![p].op = IF Used(call[p].fd) /\ gft[call[p].fd].count > 0
                                      THEN "refuse" ELSE "unlink"]
    /\ UNCHANGED <<disk, gft, inodes, pft, live, ret>>

(* do_remove(): fs_delete() looks for the file, and has it truncated.      *)
Remove(p) ==
    /\ At(p, "remove")
    /\ IF call[p].path \in disk
       THEN call' = [call EXCEPT ![p] = LookedUp([@ EXCEPT !.op = "truncate"])]
       ELSE Returns(p)
    /\ UNCHANGED <<disk, gft, inodes, pft, live, ret, wild>>

(* fs_truncate() with the file open: it releases the blocks, ...           *)
Truncate(p) ==
    /\ At(p, "opened") /\ call[p].op = "truncate"
    /\ wild' = ~Used(call[p].fd)
    /\ Goes(p, "shrink")
    /\ UNCHANGED <<disk, gft, inodes, pft, live, ret>>

(* ... and closes the file if it is still there.                           *)
TruncateCloses(p) ==
    /\ At(p, "shrink")
    /\ Goes(p, IF Used(call[p].fd) THEN "closing" ELSE "delete")
    /\ UNCHANGED <<disk, gft, inodes, pft, live, ret, wild>>

(* delete_file_from_dir().                                                 *)
Delete(p) ==
    /\ At(p, "delete")
    /\ disk' = disk \ {call[p].path}
    /\ Returns(p)
    /\ UNCHANGED <<gft, inodes, pft, live, ret, wild>>

(* do_close_pf(): fs_close() refuses a file that is not there, and then    *)
(* the descriptor stays.                                                   *)
Close(p, i) ==
    /\ At(p, "idle")
    /\ pft[p][i].f # Nil
    /\ IF Used(pft[p][i].f)
       THEN call' = [call EXCEPT ![p] = [Idle EXCEPT !.op = "close", !.at = "closing",
                                                     !.fd = pft[p][i].f, !.pf = i]]
       ELSE UNCHANGED call
    /\ UNCHANGED <<disk, gft, inodes, pft, live, ret, wild>>

(* do_close_pf() follows the NULL that get_proc_file() returns for a       *)
(* descriptor that is not open.                                            *)
CloseUnopened(p, i) ==
    /\ At(p, "idle") /\ "close_unopened" \in Careless
    /\ pft[p][i].f = Nil
    /\ wild' = TRUE
    /\ UNCHANGED <<disk, gft, inodes, pft, live, call, ret>>

(* fs_close() has written the inode to the disk: the entries are freed,    *)
(* and the call the file was closed for goes on.                           *)
FileClosed(p) ==
    /\ At(p, "closing")
    /\ FreeFile(call[p].fd)
    /\ pft' = IF call[p].pf = Nil THEN pft ELSE [pft EXCEPT ![p][call[p].pf] = Closed]
    /\ \/ call[p].op = "unlink" /\ Goes(p, "remove")
       \/ call[p].op = "truncate" /\ Goes(p, "delete")
       \/ call[p].op \notin {"unlink", "truncate"} /\ Returns(p)
    /\ UNCHANGED <<disk, live, ret, wild>>

(* The process ends: pm_destroy_thread() frees its pft and closes nothing. *)
Exit(p) ==
    /\ At(p, "idle")
    /\ "exit_open" \in Careless \/ \A i \in Fds : pft[p][i].f = Nil
    /\ live' = live \ {p}
    /\ pft' = [pft EXCEPT ![p] = [i \in Fds |-> Closed]]
    /\ UNCHANGED <<disk, gft, inodes, call, ret, wild>>

Undefined == wild /\ UNCHANGED vars

\* Every process has ended.
Over == live = {} /\ UNCHANGED vars

Call(p) ==
    \/ \E path \in Names, creat \in BOOLEAN : Open(p, path, creat)
    \/ \E path \in Names : Stat(p, path)
    \/ \E path \in Paths : Unlink(p, path)
    \/ Search(p) \/ Create(p) \/ AllocInode(p) \/ MarkInode(p)
    \/ InsertFile(p) \/ AllocFile(p) \/ FillFile(p)
    \/ OpenDone(p) \/ StatFile(p)
    \/ UnlinkDecide(p) \/ Remove(p) \/ Truncate(p) \/ TruncateCloses(p) \/ Delete(p)
    \/ \E i \in Fds : Close(p, i) \/ CloseUnopened(p, i)
    \/ FileClosed(p)
    \/ Exit(p)

Next == (\E p \in Procs : Call(p)) \/ Undefined \/ Over

Spec == Init /\ [][Next]_vars
----------------------------------------------------------------------------
(* Types.                                                                  *)
Entries == [name : Names \cup {Nil}, inode : Inodes \cup {Nil}, count : Nat]
Descriptors == [f : Slots \cup {Nil}, path : Names \cup {Nil}]
CallRecords ==
    [op : {"none", "open", "stat", "unlink", "refuse", "truncate", "close"},
     at : Points \cup {"idle"}, path : Names, creat : BOOLEAN,
     inode : Inodes \cup {Nil}, fd : Slots \cup {Nil}, pf : Fds \cup {Nil}]

TypeOK ==
    /\ disk \subseteq Paths
    /\ gft \in [Slots -> Entries]
    /\ inodes \in [Inodes -> Names \cup {Nil}]
    /\ pft \in [Procs -> [Fds -> Descriptors]]
    /\ live \subseteq Procs
    /\ call \in [Procs -> CallRecords]
    /\ ret \in [Procs -> {Nil} \cup (MAX_DEVICES - 1 .. MAX_DEVICES + NumProcFiles - 1)]
    /\ wild \in BOOLEAN

(* An open descriptor keeps denoting the file it was opened for, whatever  *)
(* other processes open, close, look at or remove.                         *)
HandleKeepsFile ==
    \A p \in live, i \in Fds :
        pft[p][i].f # Nil => gft[pft[p][i].f].name = pft[p][i].path

Quiet == \A p \in Procs : call[p].at = "idle"

(* Between calls f_count is the "number of process file descriptors        *)
(* accessing this file", and a file nobody has open has no entry.          *)
CountsDescriptors ==
    Quiet => \A s \in Slots : Used(s) =>
        /\ gft[s].count > 0
        /\ gft[s].count = Cardinality({d \in live \X Fds : pft[d[1]][d[2]].f = s})

(* Between calls the inode table holds the inodes of the open files, one   *)
(* each, and none besides: it is as full as the files opened make it.      *)
InodesOfOpenFiles ==
    Quiet => \A i \in Inodes \ {RootInode} : inodes[i] # Nil =>
        \E s \in Slots : gft[s].name = inodes[i] /\ gft[s].inode = i

(* Whatever the programs do, an entry of the gft has an inode of its own   *)
(* that was read for it: free_inode() never gives away an inode that       *)
(* another entry still uses.  Calls may interleave at every wait for the   *)
(* disk, but not between looking for an inode or slot and taking it: there *)
(* two calls take the same.                                                *)
EntriesOwnInodes ==
    /\ \A s \in Slots : Used(s) => inodes[gft[s].inode] = gft[s].name
    /\ \A s, u \in Slots : Used(s) /\ Used(u) /\ s # u => gft[s].inode # gft[u].inode

(* With NUM_FILES no smaller than NUM_INODES, insert_file() always finds a *)
(* slot: fs_open() never takes the path on which it would lose the inode.  *)
SlotForEveryInode ==
    \A p \in live : call[p].at \in {"insert", "slot"} =>
        Named(call[p].path) \cup FreeSlots # {}

(* _open() returns "a valid handle on success or -1 if failed".            *)
HandleReturned ==
    \A p \in Procs : ret'[p] # ret[p] =>
        ret'[p] = Nil \/ (/\ ret'[p] - MAX_DEVICES \in Fds
                          /\ pft'[p][ret'[p] - MAX_DEVICES].f # Nil)
OpenReturnsHandle == [][HandleReturned]_vars

(* No system call follows a NULL pointer.                                  *)
NoNullAccess == ~wild
=============================================================================
