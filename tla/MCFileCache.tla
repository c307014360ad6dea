----------------------------- MODULE MCFileCache -----------------------------
(***************************************************************************)
(* A small instance of FileCache for TLC: one monitor and one tracker that *)
(* share a cache file.                                                     *)
(***************************************************************************)
EXTENDS FileCache

=============================================================================
