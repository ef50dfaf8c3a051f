----------------------------- MODULE MCConvertFile -----------------------------
(* Directories, command lines and faults for TLC.                           *)
EXTENDS ConvertFileProperties

CONSTANTS A, B, C, f1, f2, tmpA, tmpB

\* Two processes have two pids.
OwnNames    == [p \in Procs |-> IF p = A THEN tmpA ELSE tmpB]

\* C has the pid of A.
ReusedNames == [p \in Procs |-> IF p = B THEN tmpB ELSE tmpA]

kind(endings, binary, eol) == [endings |-> endings, binary |-> binary, eol |-> eol]

SomeKinds == { kind({"CRLF"}, FALSE, TRUE), kind({"LF", "CRLF"}, TRUE, FALSE), kind({"LF"}, FALSE, FALSE) }

MostKinds == {k \in Kind : k.endings \in {{}, {"CRLF"}, {"CR", "LF"}}}

CRLFFile == { kind({"CRLF"}, FALSE, TRUE) }

cmd(dst, binaries, final, keepdate) ==
  [ dst_convention |-> dst, binaries |-> binaries,
    final_char_has_to_be_eol |-> final, keepdate |-> keepdate ]

SomeCommands == { cmd("LF", FALSE, TRUE, TRUE), cmd("CRLF", TRUE, FALSE, FALSE),
                  cmd("LF", FALSE, FALSE, FALSE), cmd("NO_CONVENTION", FALSE, FALSE, FALSE) }

ToLF       == { cmd("LF", FALSE, FALSE, FALSE) }
ToLFKeep   == { cmd("LF", FALSE, FALSE, TRUE) }
ToLFKeepAll == ToLFKeep \cup { cmd("LF", TRUE, FALSE, TRUE) }
AllButClose == AllFaults \ {"close"}

\* The bounds of the run with three processes: A and B are launched with the same
\* command line, or A and, when it has ended, C, which may be given --binaries and
\* then converts a file that A has left alone.  No process has to be launched, so that
\* nobody's fair step is cut off.
ReuseBounds ==
  /\ \A p \in {A, B} : ~ invocation[p].binaries
  /\ pc[B] # "unborn" => pc[C] = "unborn" /\ invocation[C] = invocation[A]
  /\ pc[C] # "unborn" => pc[A] # "unborn"
================================================================================
