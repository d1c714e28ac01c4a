---------------------------- MODULE MCFileTables ----------------------------
(* Small instances of FileTables for TLC.  Programs that keep to the rules *)
(* and make one call at a time are told from programs that do what they    *)
(* like, whose calls are switched at the points of Switches, with fewer    *)
(* descriptors.                                                            *)
EXTENDS FileTables, TLC

VARIABLE programs    \* "careful" or "careless"

Careful == INSTANCE FileTables
    WITH Switches <- {}, Careless <- {}, NumProcFiles <- NumProcFiles + 1

MCInit ==
    \/ programs = "careful" /\ Careful!Init
    \/ programs = "careless" /\ Init

MCNext ==
    /\ \/ programs = "careful" /\ Careful!Next
       \/ programs = "careless" /\ Next
    /\ UNCHANGED programs

allVars == <<disk, gft, inodes, pft, live, call, ret, wild, programs>>

MCSpec == MCInit /\ [][MCNext]_allVars

\* Nothing tells the processes apart, nor the files.
Symmetry == Permutations(Procs) \cup Permutations(Paths)
----------------------------------------------------------------------------
(* Careful programs: a descriptor keeps denoting its file, and f_count is  *)
(* the number of descriptors, as fs_types.h says.                          *)
DescriptorsDenote == programs = "careful" => Careful!HandleKeepsFile /\ Careful!CountsDescriptors

(* Careful programs: the inode table is as full as the open files make it. *)
InodesAreThoseOpen == programs = "careful" => Careful!InodesOfOpenFiles

(* Careful programs: _open() returns a valid handle or -1.                 *)
HandlesAreValid == [][programs = "careful" => Careful!HandleReturned]_allVars

(* Careless programs, whose calls are not switched between looking and     *)
(* taking: no two entries share an inode, none loses its own, and there is *)
(* a slot for every inode that was read.                                   *)
EntriesSurvive == programs = "careless" => EntriesOwnInodes /\ SlotForEveryInode
=============================================================================
