----------------------------- MODULE SharedDirectory -----------------------------
(***************************************************************************)
(* Several walks in one directory that may come to each other's temporary  *)
(* files: with --hidden they are names like any other.  Here it matters    *)
(* which inode a process has open while the names change under it, so that *)
(* names lead to inodes, and a file that is being written can be read.     *)
(*                                                                         *)
(* ConvertFile has the system calls that fail, and the metadata; this      *)
(* machine keeps what touches names and texts.                             *)
(***************************************************************************)
EXTENDS Endlines

CONSTANTS
  Procs,        \* processes; the temporary file of each has its name
  Files,        \* the files of the user
  Absent,       \* what a name that is not in the directory stands for
  Commands,     \* the command lines
  Kinds,        \* what the files may be
  Careful,      \* whether walks with --hidden are run with no other walk beside them
  Faults        \* "kill", "rename", "read"

Names  == Files \cup Procs
Inodes == Files \cup (Procs \X Names)    \* <<p, n>> was made by p out of the file n

Command == [ dst_convention           : LineEndings,
             binaries                 : BOOLEAN,
             final_char_has_to_be_eol : BOOLEAN,
             process_hidden           : BOOLEAN ]
Text == [of : Files, whole : BOOLEAN, kind : Kind]

ASSUME NamesAssumption   == /\ Files # {} /\ Files \cap Procs = {} /\ Absent \notin Inodes
                            /\ Files \cap (Procs \X Names) = {}
ASSUME CommandAssumption == Commands \subseteq Command
ASSUME KindAssumption    == Kinds \subseteq Kind
ASSUME FaultsAssumption  == Careful \in BOOLEAN /\ Faults \subseteq {"kill", "rename", "read"}

VARIABLES
  invocation,
  dir,          \* the inode each name leads to
  text,         \* what each inode holds
  pc, todo, filename,
  in, out,      \* the inodes each process has open
  got,          \* what its conversion has read
  done          \* the files each process has replaced and returned DONE for

work == <<todo, filename>>
vars == <<invocation, dir, text, pc, work, in, out, got, done>>

Dead    == {"exited", "aborted", "killed"}
Working == {"precheck", "create", "convert", "close", "discard", "remove", "rename"}
Places  == {"unborn", "idle"} \cup Working \cup Dead

May(fault)     == fault \in Faults
Goto(p, place) == pc' = [pc EXCEPT ![p] = place]

\* The user starts a process.
Launch(p) ==
  /\ pc[p] = "unborn"
  /\ Careful => \A q \in Procs : \/ pc[q] \in Dead \cup {"unborn"}
                                 \/ ~ invocation[p].process_hidden /\ ~ invocation[q].process_hidden
  /\ Goto(p, "idle")
  /\ UNCHANGED <<invocation, dir, text, work, in, out, got, done>>

\* walk_filenames and open_to_read; what is not there any more is an error.
Open(p) ==
  /\ pc[p] = "idle"
  /\ \E n \in todo[p] :
       /\ todo' = [todo EXCEPT ![p] = @ \ {n}]
       /\ filename' = [filename EXCEPT ![p] = n]
       /\ \/ /\ dir[n] = Absent
             /\ UNCHANGED <<pc, in>>
          \/ /\ dir[n] # Absent
             /\ in' = [in EXCEPT ![p] = dir[n]]
             /\ Goto(p, "precheck")
  /\ UNCHANGED <<invocation, dir, text, out, got, done>>

pre_conversion_check(p) ==
  /\ pc[p] = "precheck"
  /\ \/ May("read") /\ Goto(p, "idle")
     \/ \E scan \in scan_reports(text[in[p]].kind, invocation[p]) :
          Goto(p, IF pre_conversion_verdict(scan, invocation[p]) = "CAN_CONTINUE"
                  THEN "create" ELSE "idle")
  /\ UNCHANGED <<invocation, dir, text, work, in, out, got, done>>

Empty == [endings |-> {}, binary |-> FALSE, eol |-> FALSE]

\* Faulty: the temporary file is not created.
OpenedToWrite_existing(p) == dir[p]
OpenedToWrite(p) == IF dir[p] = Absent THEN <<p, filename[p]>> ELSE dir[p]

\* fopen(..., "wb") truncates a file of that name, whatever it is.  That a process is
\* given the pid of an earlier one, and truncates what that one has left, is in
\* ConvertFile: here each process has a name, and inodes, of its own.
open_to_write(p) ==
  LET inode == OpenedToWrite(p)
  IN  /\ pc[p] = "create"
      /\ dir' = [dir EXCEPT ![p] = inode]
      /\ out' = [out EXCEPT ![p] = inode]
      /\ text' = [text EXCEPT ![inode] =
                    [of |-> text[in[p]].of, whole |-> FALSE, kind |-> Empty]]
      /\ Goto(p, "convert")
      /\ UNCHANGED <<invocation, work, in, got, done>>

\* The kinds of what has reached the file after some calls of fwrite.
PartsOf(kind) == [endings : SUBSET kind.endings, binary : {FALSE, kind.binary}, eol : {FALSE}]

\* Faulty: a read error is the end of the file.
AfterConvert_unasked(failed, unwanted) == IF unwanted THEN "discard" ELSE "close"
AfterConvert(failed, unwanted) == IF failed \/ unwanted THEN "discard" ELSE "close"

\* The conversion reads what the inode holds now, and writes most of it.
Convert(p) ==
  /\ pc[p] = "convert"
  /\ \E failed \in {FALSE, May("read")} :
       /\ got' = [got EXCEPT ![p] = [text[in[p]] EXCEPT !.whole = @ /\ ~ failed]]
       /\ Goto(p, AfterConvert(failed, IsUnwantedBinary(text[in[p]].kind, invocation[p])))
  /\ \E part \in PartsOf(converted(text[in[p]].kind, invocation[p])) :
       text' = [text EXCEPT ![out[p]].kind = part]
  /\ UNCHANGED <<invocation, dir, work, in, out, done>>

\* The last bytes go to the inode that is open, whatever its name is by now.
CloseStreams(p) ==
  /\ pc[p] = "close"
  /\ text' = [text EXCEPT ![out[p]] =
                [got[p] EXCEPT !.kind = converted(@, invocation[p])]]
  /\ Goto(p, "remove")
  /\ UNCHANGED <<invocation, dir, work, in, out, got, done>>

\* remove(tmp) on the error paths
Discard(p) ==
  /\ pc[p] = "discard"
  /\ dir' = [dir EXCEPT ![p] = Absent]
  /\ Goto(p, "idle")
  /\ UNCHANGED <<invocation, text, work, in, out, got, done>>

RemoveOriginal(p) ==
  /\ pc[p] = "remove"
  /\ IF dir[filename[p]] = Absent
     THEN Goto(p, "discard") /\ UNCHANGED dir
     ELSE Goto(p, "rename") /\ dir' = [dir EXCEPT ![filename[p]] = Absent]
  /\ UNCHANGED <<invocation, text, work, in, out, got, done>>

\* Faulty: a failed renaming is cleaned up like any other failure.
RenameFails_tidy(p) == Goto(p, "discard")
RenameFails(p) == Goto(p, "aborted")

\* rename takes the inode that has the temporary name by now.
RenameTmp(p) ==
  /\ pc[p] = "rename"
  /\ \/ /\ dir[p] = Absent \/ May("rename")
        /\ RenameFails(p)
        /\ UNCHANGED <<dir, done>>
     \/ /\ dir[p] # Absent
        /\ dir' = [dir EXCEPT ![filename[p]] = dir[p], ![p] = Absent]
        /\ done' = [done EXCEPT ![p] = @ \cup {filename[p]}]
        /\ Goto(p, "idle")
  /\ UNCHANGED <<invocation, text, work, in, out, got>>

Exit(p) ==
  /\ pc[p] = "idle" /\ todo[p] = {}
  /\ Goto(p, "exited")
  /\ UNCHANGED <<invocation, dir, text, work, in, out, got, done>>

Kill(p) ==
  /\ May("kill") /\ pc[p] \in Working
  /\ Goto(p, "killed")
  /\ UNCHANGED <<invocation, dir, text, work, in, out, got, done>>

--------------------------------------------------------------------------------
Init ==
  /\ invocation \in [Procs -> Commands]
  /\ dir = [n \in Names |-> IF n \in Files THEN n ELSE Absent]
  /\ \E kinds \in [Files -> Kinds] :
       text = [i \in Inodes |-> IF i \in Files
                                THEN [of |-> i, whole |-> TRUE, kind |-> kinds[i]]
                                ELSE [of |-> CHOOSE f \in Files : TRUE, whole |-> FALSE, kind |-> Empty]]
  /\ pc = [p \in Procs |-> "unborn"]
  /\ todo = [p \in Procs |-> IF invocation[p].process_hidden THEN Names ELSE Files]
  /\ filename = [p \in Procs |-> CHOOSE f \in Files : TRUE]
  /\ in = filename /\ out = filename
  /\ got = [p \in Procs |-> text[in[p]]]
  /\ done = [p \in Procs |-> {}]

Step(p) ==
  \/ Launch(p) \/ Open(p) \/ pre_conversion_check(p) \/ open_to_write(p) \/ Convert(p)
  \/ CloseStreams(p) \/ Discard(p) \/ RemoveOriginal(p) \/ RenameTmp(p) \/ Exit(p) \/ Kill(p)

Next == \E p \in Procs : Step(p)

Spec == Init /\ [][Next]_vars
================================================================================
