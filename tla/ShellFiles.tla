----------------------------- MODULE ShellFiles -----------------------------
(***************************************************************************)
(* The commands of the shell that work on files (apps/shell_cmds.c), over  *)
(* the system calls of pm/pm_syscalls.c that they make.  A step is one     *)
(* system call of one shell with what the command does up to the next.     *)
(* cwd and path_buf are globals of the program: all shells share them.     *)
(***************************************************************************)
EXTENDS Integers, SequencesExt, TLC

CONSTANTS
    Shells,
    Args,      \* the paths typed: [abs |-> whether there is a leading slash, names |-> a sequence]
    Texts,     \* what the write command writes
    Buf,       \* sizeof(buf), 512 in the code
    MaxDepth,  \* bound: the depth of paths
    MaxNodes,  \* bound: nothing is created beside this many files and directories
    Preempt    \* whether shells interleave inside a command

VARIABLES
    dirs, files,    \* the directories, and the contents of the regular files, by path
    used,           \* the directories that ever had an entry
    cwd, path_buf,
    pc, cmd,        \* per shell: where it stands, and the command it runs
    src, dst,       \* its descriptors: a path and a position
    chunk, out,     \* what it read last, and what it printed
    made, source    \* the path it made last, and what the file read held when it was opened

tree == <<dirs, files, used>>
shellVars == <<dirs, files, used, cwd, path_buf, pc, cmd, src, dst, chunk, out, made, source>>

NoFd == [path |-> <<"none">>, pos |-> -1]
NoCmd == [name |-> "none"]

ShellInit ==
    /\ dirs = {<<>>} /\ files = [p \in {} |-> <<>>] /\ used = {}
    /\ cwd = <<>> /\ path_buf = <<>>
    /\ pc = [s \in Shells |-> "prompt"] /\ cmd = [s \in Shells |-> NoCmd]
    /\ src = [s \in Shells |-> NoFd] /\ dst = [s \in Shells |-> NoFd]
    /\ chunk = [s \in Shells |-> <<>>] /\ out = [s \in Shells |-> <<>>]
    /\ made = [s \in Shells |-> <<>>] /\ source = [s \in Shells |-> <<>>]
----------------------------------------------------------------------------
\* shell_makepath(): paths without a leading slash start at cwd.
shell_makepath(arg) == IF arg.abs THEN arg.names ELSE cwd \o arg.names

Exists(p) == p \in dirs \/ p \in DOMAIN files

(* What a read finds: the bytes of a file, the entries of a directory.     *)
Data(p) ==
    IF p \in dirs THEN SetToSeq({Last(q) : q \in {r \in dirs \cup DOMAIN files : r # <<>> /\ Front(r) = p}})
    ELSE files[p]

(* sys_open(): a path that does not exist is created when O_CREAT is set   *)
(* and its directory exists, as a directory if it ends in a slash.         *)
CanCreate(p) == ~Exists(p) /\ p # <<>> /\ Front(p) \in dirs

OpenFails(p, creat) == ~Exists(p) /\ ~(creat /\ CanCreate(p))

Created(p, kind) ==
    IF ~CanCreate(p) THEN UNCHANGED tree
    ELSE /\ used' = used \cup {Front(p)}
         /\ IF kind = "dir" THEN dirs' = dirs \cup {p} /\ UNCHANGED files
            ELSE files' = (p :> <<>>) @@ files /\ UNCHANGED dirs

At(p) == [path |-> p, pos |-> 0]

(* sys_read() and sys_write() work at the position of the descriptor.      *)
Overwritten(old, pos, text) ==
    SubSeq(old, 1, Min({pos, Len(old)})) \o text \o SubSeq(old, pos + Len(text) + 1, Len(old))

ReadAt(fd) == SubSeq(Data(fd.path), fd.pos + 1, Min({fd.pos + Buf, Len(Data(fd.path))}))

WriteFails(fd) == fd = NoFd \/ fd.path \notin DOMAIN files

SysWrite(fd, text) ==
    IF WriteFails(fd) THEN UNCHANGED tree
    ELSE files' = [files EXCEPT ![fd.path] = Overwritten(@, fd.pos, text)] /\ UNCHANGED <<dirs, used>>

(* sys_unlink(): refused while a descriptor is open, and for a directory   *)
(* with a size: its size never shrinks, so one that once had an entry      *)
(* cannot be removed, empty or not.                                        *)
Unlinkable(p) ==
    /\ p # <<>> /\ Exists(p)
    /\ \A s \in Shells : src[s].path # p /\ dst[s].path # p
    /\ p \notin used
----------------------------------------------------------------------------
Names == {"touch", "mkdir", "rm", "cat", "ls", "write", "cd", "cp"}

\* A command with the right number of arguments.
Begin(s) ==
    /\ pc[s] = "prompt"
    /\ Preempt \/ \A t \in Shells : pc[t] = "prompt"
    /\ \E name \in Names, arg \in Args, arg2 \in Args, text \in Texts :
          /\ name # "cp" => arg2 = arg
          /\ name # "write" => text = <<>>
          /\ name \in {"touch", "mkdir", "cp"} => Cardinality(dirs \cup DOMAIN files) < MaxNodes
          /\ Len(shell_makepath(arg)) <= MaxDepth /\ Len(shell_makepath(arg2)) <= MaxDepth
          /\ cmd' = [cmd EXCEPT ![s] = [name |-> name, arg |-> arg, arg2 |-> arg2, text |-> text]]
          /\ path_buf' = shell_makepath(arg)
          /\ made' = [made EXCEPT ![s] = shell_makepath(arg)]
    /\ pc' = [pc EXCEPT ![s] = "open"]
    /\ UNCHANGED <<tree, cwd, src, dst, chunk, out, source>>

(* Back to the prompt, with the descriptors closed.                        *)
Finish(s) ==
    /\ pc' = [pc EXCEPT ![s] = "prompt"] /\ cmd' = [cmd EXCEPT ![s] = NoCmd]
    /\ src' = [src EXCEPT ![s] = NoFd] /\ dst' = [dst EXCEPT ![s] = NoFd]
    /\ chunk' = [chunk EXCEPT ![s] = <<>>] /\ out' = [out EXCEPT ![s] = <<>>]
    /\ made' = [made EXCEPT ![s] = <<>>] /\ source' = [source EXCEPT ![s] = <<>>]

\* The first system call of the command opens, or unlinks, path_buf.
NextPc(name) ==
    CASE name \in {"cat", "ls"}     -> "read"
      [] name = "cp"                -> "target"
      [] name = "write"             -> "write"
      [] name = "cd"                -> "change"
      [] name \in {"touch", "mkdir"} -> "close"

Open(s) ==
    /\ pc[s] = "open" /\ cmd[s].name # "rm"
    /\ LET creat == cmd[s].name \in {"touch", "mkdir"}
       IN  IF OpenFails(path_buf, creat)
           THEN Finish(s) /\ UNCHANGED tree
           ELSE /\ Created(path_buf, IF cmd[s].name = "mkdir" THEN "dir"
                                     ELSE IF creat THEN "file" ELSE "none")
                /\ src' = [src EXCEPT ![s] = At(path_buf)]
                /\ source' = [source EXCEPT ![s] = IF Exists(path_buf) THEN Data(path_buf) ELSE <<>>]
                /\ pc' = [pc EXCEPT ![s] = NextPc(cmd[s].name)]
                /\ UNCHANGED <<dst, cmd, chunk, out, made>>
    /\ UNCHANGED <<cwd, path_buf>>

RemoveFile(s) ==
    /\ pc[s] = "open" /\ cmd[s].name = "rm"
    /\ IF Unlinkable(path_buf)
       THEN /\ dirs' = dirs \ {path_buf}
            /\ files' = [p \in DOMAIN files \ {path_buf} |-> files[p]]
            /\ UNCHANGED used
       ELSE UNCHANGED tree
    /\ Finish(s)
    /\ UNCHANGED <<cwd, path_buf>>

\* strcpy(cwd, new_dir), where new_dir is path_buf
ChangeDir(s) ==
    /\ pc[s] = "change"
    /\ cwd' = path_buf
    /\ Finish(s)
    /\ UNCHANGED <<tree, path_buf>>

WriteText(s) ==
    /\ pc[s] = "write"
    /\ SysWrite(src[s], cmd[s].text)
    /\ Finish(s)
    /\ UNCHANGED <<cwd, path_buf>>

Close(s) ==
    /\ pc[s] \in {"close", "done"}
    /\ Finish(s)
    /\ UNCHANGED <<tree, cwd, path_buf>>

(* The second path of cp.  That it could not be opened goes unnoticed: the *)
(* code tests the first descriptor once more.                              *)
Target(s) ==
    /\ pc[s] = "target"
    /\ path_buf' = shell_makepath(cmd[s].arg2)
    /\ made' = [made EXCEPT ![s] = path_buf']
    /\ pc' = [pc EXCEPT ![s] = "create"]
    /\ UNCHANGED <<tree, cwd, cmd, src, dst, chunk, out, source>>

OpenTarget(s) ==
    /\ pc[s] = "create"
    /\ Created(path_buf, "file")
    /\ dst' = [dst EXCEPT ![s] = IF OpenFails(path_buf, TRUE) THEN NoFd ELSE At(path_buf)]
    /\ pc' = [pc EXCEPT ![s] = "read"]
    /\ UNCHANGED <<cwd, path_buf, cmd, src, chunk, out, made, source>>

(* The loops of cat and cp end with a chunk that is not full, that of ls   *)
(* with an empty one.                                                      *)
MoreAfterEmpty(name, got) == got = 0
MoreAfter(name, got) == IF name = "ls" THEN got # 0 ELSE got = Buf

ReadChunk(s) ==
    /\ pc[s] = "read"
    /\ chunk' = [chunk EXCEPT ![s] = ReadAt(src[s])]
    /\ src' = [src EXCEPT ![s].pos = @ + Len(ReadAt(src[s]))]
    /\ pc' = [pc EXCEPT ![s] = "put"]
    /\ UNCHANGED <<tree, cwd, path_buf, cmd, dst, out, made, source>>

PutChunk(s) ==
    /\ pc[s] = "put"
    /\ IF cmd[s].name = "cp"
       THEN /\ SysWrite(dst[s], chunk[s])
            /\ dst' = [dst EXCEPT ![s].pos = IF WriteFails(dst[s]) THEN @ ELSE @ + Len(chunk[s])]
            /\ UNCHANGED out
       ELSE out' = [out EXCEPT ![s] = @ \o chunk[s]] /\ UNCHANGED <<tree, dst>>
    /\ pc' = [pc EXCEPT ![s] = IF MoreAfter(cmd[s].name, Len(chunk[s])) THEN "read" ELSE "done"]
    /\ UNCHANGED <<cwd, path_buf, cmd, src, chunk, made, source>>

ShellNext ==
    \E s \in Shells :
        \/ Begin(s) \/ Open(s) \/ RemoveFile(s) \/ ChangeDir(s) \/ WriteText(s) \/ Close(s)
        \/ Target(s) \/ OpenTarget(s) \/ ReadChunk(s) \/ PutChunk(s)
----------------------------------------------------------------------------
(* cat and ls print all of what they opened, and cp leaves all of a file   *)
(* at the start of the target, for contents shorter and longer than the    *)
(* buffer or exactly as long, onto a longer file, and onto itself.         *)
WholeFileMoved ==
    \A s \in Shells : pc[s] = "done" =>
        IF cmd[s].name = "cp"
        THEN ~WriteFails(dst[s]) /\ src[s].path \in DOMAIN files => IsPrefix(source[s], files[dst[s].path])
        ELSE out[s] = source[s]

(* "Could not create target file": a copy that ends has a target.  The     *)
(* code tests src_fd again instead of target_fd.                           *)
CopyHasTarget ==
    \A s \in Shells : pc[s] = "done" /\ cmd[s].name = "cp" => dst[s] # NoFd

(* A command opens and removes the path it made.  path_buf is shared, and  *)
(* "only valid until the next call" of any shell.                          *)
ActsOnItsPath ==
    \A s \in Shells : pc[s] \in {"open", "create", "change"} => path_buf = made[s]

(* The working directory is a directory: cd takes any path that exists,    *)
(* and rm any that never had an entry.                                     *)
CwdIsDirectory == cwd \in dirs
=============================================================================
