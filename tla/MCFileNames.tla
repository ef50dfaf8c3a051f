------------------------------ MODULE MCFileNames ------------------------------
(* A hidden name for temporary files, for TLC.                              *)
EXTENDS FileNamesProperties

TmpName == <<".", "x">>
================================================================================
