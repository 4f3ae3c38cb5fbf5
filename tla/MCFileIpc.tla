------------------------------ MODULE MCFileIpc ------------------------------
(***************************************************************************)
(* Small instances of FileIpc.                                              *)
(***************************************************************************)
EXTENDS FileIpc

CONSTANTS t1, t2, a, b, r1, r2
=============================================================================
