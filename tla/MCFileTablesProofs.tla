------------------------- MODULE MCFileTablesProofs -------------------------
(***************************************************************************)
(* What TLC checks of two processes and two files, in MCFileTables, holds  *)
(* of any number of both and of tables of any size.                        *)
(***************************************************************************)
EXTENDS MCFileTables, FileTablesProofs

\* The theorems about the tables of the careful programs.
Rules == INSTANCE FileTablesProofs
    WITH Switches <- {}, Careless <- {}, NumProcFiles <- NumProcFiles + 1

(* They are about the same program.                                        *)
LEMMA SameProgram ==
    /\ Careful!Init <=> Rules!Init
    /\ Careful!Next <=> Rules!Next
    /\ Careful!HandleKeepsFile <=> Rules!HandleKeepsFile
    /\ Careful!CountsDescriptors <=> Rules!CountsDescriptors
    /\ Careful!InodesOfOpenFiles <=> Rules!InodesOfOpenFiles
    /\ Careful!HandleReturned <=> Rules!HandleReturned
  BY DEF
       Careful!Nil, Rules!Nil, Careful!MAX_DEVICES, Rules!MAX_DEVICES, Careful!RootInode,
       Rules!RootInode, Careful!Names, Rules!Names, Careful!Slots, Rules!Slots,
       Careful!Inodes, Rules!Inodes, Careful!Fds, Rules!Fds, Careful!vars, Rules!vars,
       Careful!Idle, Rules!Idle, Careful!Unused, Rules!Unused, Careful!Closed, Rules!Closed,
       Careful!Init, Rules!Init, Careful!Lowest, Rules!Lowest, Careful!Named, Rules!Named,
       Careful!FreeSlots, Rules!FreeSlots, Careful!FreeInodes, Rules!FreeInodes,
       Careful!FreeFds, Rules!FreeFds, Careful!Used, Rules!Used, Careful!At, Rules!At,
       Careful!Goes, Rules!Goes, Careful!Returns, Rules!Returns, Careful!OpenPaths,
       Rules!OpenPaths, Careful!Entry, Rules!Entry, Careful!EntryFd, Rules!EntryFd,
       Careful!LookedUp, Rules!LookedUp, Careful!Begin, Rules!Begin, Careful!Open,
       Rules!Open, Careful!Stat, Rules!Stat, Careful!Unlink, Rules!Unlink, Careful!Missed,
       Rules!Missed, Careful!Search, Rules!Search, Careful!Create, Rules!Create,
       Careful!AllocInode, Rules!AllocInode, Careful!MarkInode, Rules!MarkInode,
       Careful!InsertFile, Rules!InsertFile, Careful!AllocFile, Rules!AllocFile,
       Careful!FillFile, Rules!FillFile, Careful!CountAfterClose, Rules!CountAfterClose,
       Careful!InodesAfterFree, Rules!InodesAfterFree, Careful!FreeFile, Rules!FreeFile,
       Careful!CountAfterOpen, Rules!CountAfterOpen, Careful!InsertedAt, Rules!InsertedAt,
       Careful!InsertProcFile, Rules!InsertProcFile, Careful!Handle, Rules!Handle,
       Careful!OpenDone, Rules!OpenDone, Careful!StatFile, Rules!StatFile,
       Careful!UnlinkDecide, Rules!UnlinkDecide, Careful!Remove, Rules!Remove,
       Careful!Truncate, Rules!Truncate, Careful!TruncateCloses, Rules!TruncateCloses,
       Careful!Delete, Rules!Delete, Careful!Close, Rules!Close, Careful!CloseUnopened,
       Rules!CloseUnopened, Careful!FileClosed, Rules!FileClosed, Careful!Exit, Rules!Exit,
       Careful!Undefined, Rules!Undefined, Careful!Over, Rules!Over, Careful!Call,
       Rules!Call, Careful!Next, Rules!Next, Careful!HandleKeepsFile, Rules!HandleKeepsFile,
       Careful!Quiet, Rules!Quiet, Careful!Cardinality, Rules!Cardinality,
       Careful!CountsDescriptors, Rules!CountsDescriptors, Careful!InodesOfOpenFiles,
       Rules!InodesOfOpenFiles, Careful!HandleReturned, Rules!HandleReturned

MCInv ==
    /\ programs \in {"careful", "careless"}
    /\ programs = "careful" => Rules!CarefulInv
    /\ programs = "careless" /\ Undisturbed => IInv

(* More descriptors are still enough of them.                              *)
LEMMA CarefulAssumption == Rules!FileTablesAssumption
  BY FileTablesAssumption
  DEF FileTablesAssumption, Rules!FileTablesAssumption, IsFiniteSet, Rules!IsFiniteSet,
      Points, Rules!Points

(* Careful programs keep to the rules.                                     *)
LEMMA CarefulKeepsToTheRules ==
    ASSUME NumInodes <= NumFiles PROVE Rules!KeepsToTheRules
  BY FileTablesAssumption DEF FileTablesAssumption, Rules!KeepsToTheRules

(* Both kinds of programs start and go on with their tables in order.      *)
LEMMA MCInitInv == MCInit => MCInv
<1>1. Careful!Init => Rules!CarefulInv
  BY SameProgram, CarefulAssumption, Rules!InitCareful
<1> QED
  BY <1>1, InitIInv DEF MCInit, MCInv

(* Both kinds of programs go on with their tables in order.                *)
LEMMA MCNextInv ==
    ASSUME NumInodes <= NumFiles, MCInv, [MCNext]_allVars
    PROVE  MCInv' /\ (programs = "careful" => Careful!HandleReturned)
<1>1. CASE programs = "careful"
  <2>1. programs' = "careful" /\ [Careful!Next]_vars
    BY <1>1 DEF MCNext, allVars, vars
  <2>2. Rules!CarefulInv /\ [Rules!Next]_(Rules!vars)
    BY <1>1, <2>1, SameProgram DEF MCInv, vars, Rules!vars
  <2>3. Rules!CarefulInv' /\ Careful!HandleReturned
    BY <2>2, SameProgram, CarefulAssumption, CarefulKeepsToTheRules, Rules!NextCareful
  <2> QED
    BY <1>1, <2>1, <2>3 DEF MCInv
<1>2. CASE programs = "careless"
  <2>1. programs' = "careless" /\ [Next]_vars
    BY <1>2 DEF MCNext, allVars, vars
  <2>2. Undisturbed => IInv'
    BY <1>2, <2>1, NextIInv DEF MCInv
  <2> QED
    BY <1>2, <2>1, <2>2 DEF MCInv, Undisturbed
<1> QED
  BY <1>1, <1>2 DEF MCInv

(* What the run checks follows.                                            *)
LEMMA MCInvSays ==
    ASSUME NumInodes <= NumFiles, MCInv
    PROVE  DescriptorsDenote /\ InodesAreThoseOpen /\ (Undisturbed => EntriesSurvive)
<1>1. programs = "careful" =>
        Careful!HandleKeepsFile /\ Careful!CountsDescriptors /\ Careful!InodesOfOpenFiles
  BY SameProgram, CarefulAssumption, Rules!CarefulInvSays DEF MCInv
<1>2. programs = "careless" /\ Undisturbed => EntriesOwnInodes /\ SlotForEveryInode
  BY SlotsSuffice DEF MCInv, IInv, Base, TableInv
<1> QED
  BY <1>1, <1>2 DEF DescriptorsDenote, InodesAreThoseOpen, EntriesSurvive

(* What is checked of two processes and two files holds of any number of   *)
(* both, for tables of any size.                                           *)
LEMMA TablesCorrect ==
    ASSUME NumInodes <= NumFiles
    PROVE  MCSpec => []( /\ DescriptorsDenote /\ InodesAreThoseOpen
                         /\ Undisturbed => EntriesSurvive )
<1>1. MCInv /\ [MCNext]_allVars => MCInv'
  BY MCNextInv
<1>2. MCInv => DescriptorsDenote /\ InodesAreThoseOpen /\ (Undisturbed => EntriesSurvive)
  BY MCInvSays
<1> QED
  BY <1>1, <1>2, MCInitInv, PTL DEF MCSpec

(* A descriptor keeps denoting the file it was opened for, and f_count of  *)
(* the file's entry counts the descriptors.                                *)
THEOREM DescriptorsCorrect ==
    ASSUME NumInodes <= NumFiles PROVE MCSpec => []DescriptorsDenote
BY TablesCorrect, PTL

(* free_inode() and alloc_inode() keep the inodes of the open files.       *)
THEOREM InodesCorrect ==
    ASSUME NumInodes <= NumFiles PROVE MCSpec => []InodesAreThoseOpen
BY TablesCorrect, PTL

(* No interleaving of opening, closing, looking, unlinking and exiting     *)
(* takes away an entry's inode or gives it to two entries, and every inode *)
(* that is read finds a slot, wherever calls are switched except between   *)
(* looking for an inode or slot and taking it.                             *)
THEOREM EntriesCorrect ==
    ASSUME Undisturbed, NumInodes <= NumFiles PROVE MCSpec => []EntriesSurvive
<1>1. Undisturbed /\ (Undisturbed => EntriesSurvive) => EntriesSurvive
  OBVIOUS
<1> QED
  BY <1>1, TablesCorrect, PTL

(* _open() returns the handle of an open descriptor, or -1.                *)
THEOREM HandlesCorrect ==
    ASSUME NumInodes <= NumFiles PROVE MCSpec => HandlesAreValid
<1>1. MCInv /\ [MCNext]_allVars => MCInv' /\ (programs = "careful" => Careful!HandleReturned)
  BY MCNextInv
<1> QED
  BY <1>1, MCInitInv, PTL DEF MCSpec, HandlesAreValid
=============================================================================
