------------------------------- MODULE SafeReplace -------------------------------
(***************************************************************************)
(* What conversion comes to when one looks at the files only: a process    *)
(* reads a file; it may take that file away, and then has the duty to put  *)
(* back the conversion of what it read, in the same place, which nobody    *)
(* else may have filled meanwhile.  Nothing else ever happens to a file.   *)
(***************************************************************************)
EXTENDS Endlines

CONSTANTS Procs, Files, Absent

VARIABLES
  command,   \* what each process was asked for
  content,   \* what each file holds, or Absent
  read,      \* what each process has read last: of which file, and what
  taken      \* the file each process has taken away, or Absent

vars == <<command, content, read, taken>>

Init ==
  /\ \A p \in Procs : read[p].of \in Files /\ read[p].kind = content[read[p].of]
  /\ taken = [p \in Procs |-> Absent]

Read(p) ==
  /\ taken[p] = Absent
  /\ \E f \in Files :
       /\ content[f] # Absent
       /\ read' = [read EXCEPT ![p] = [of |-> f, kind |-> content[f]]]
  /\ UNCHANGED <<command, content, taken>>

Take(p) ==
  LET f == read[p].of
  IN  /\ taken[p] = Absent
      /\ content[f] # Absent
      /\ content' = [content EXCEPT ![f] = Absent]
      /\ taken' = [taken EXCEPT ![p] = f]
      /\ UNCHANGED <<command, read>>

PutBack(p) ==
  LET f == taken[p]
  IN  /\ f # Absent /\ f = read[p].of
      /\ content[f] = Absent
      /\ content' = [content EXCEPT ![f] = converted(read[p].kind, command[p])]
      /\ taken' = [taken EXCEPT ![p] = Absent]
      /\ UNCHANGED <<command, read>>

Next == \E p \in Procs : Read(p) \/ Take(p) \/ PutBack(p)

Spec == Init /\ [][Next]_vars
================================================================================
