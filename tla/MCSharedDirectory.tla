--------------------------- MODULE MCSharedDirectory ---------------------------
(* Command lines and kinds of files for TLC.                                *)
EXTENDS SharedDirectoryProperties, TLC

CONSTANTS A, B, f1, f2

Symmetry == Permutations({A, B})

cmd(dst, final, hidden) ==
  [ dst_convention |-> dst, binaries |-> FALSE, final_char_has_to_be_eol |-> final,
    process_hidden |-> hidden ]

kind(endings, eol) == [endings |-> endings, binary |-> FALSE, eol |-> eol]

SomeKinds == {kind({"CRLF"}, TRUE), kind({"LF"}, FALSE)}
OneKind   == {kind({"CRLF"}, TRUE)}

BothWays == {cmd("LF", FALSE, FALSE), cmd("LF", TRUE, TRUE), cmd("CRLF", FALSE, TRUE)}
SameWay  == {cmd("LF", TRUE, TRUE)}
================================================================================
