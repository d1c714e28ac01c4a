---------------------------- MODULE MCFileSystem ----------------------------
(* Small instances of FileSystem for TLC.                                  *)
EXTENDS FileSystem
=============================================================================
