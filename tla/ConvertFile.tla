------------------------------ MODULE ConvertFile ------------------------------
(***************************************************************************)
(* main.c and file_operations.c: what endlines processes do to the files   *)
(* of a directory, one action per system call.  Several processes may work *)
(* on the same files at the same time; any system call may fail, and any   *)
(* process may be killed between two of them.                              *)
(*                                                                         *)
(* convert_stream appears here by its effect on a file as a whole (see     *)
(* Endlines); its own steps are those of ConvertStream.                    *)
(***************************************************************************)
EXTENDS Endlines

CONSTANTS
  Procs,                  \* endlines processes
  Files,                  \* the regular files of the directory
  Tmps,                   \* names for temporary files
  session_tmp_filename,   \* the temporary name of each process, made of its pid
  KnownBinaryNames,       \* the files that has_known_binary_file_extension knows
  Invocations,            \* the command lines of the processes
  Kinds,                  \* what the files may hold at first
  Faults,                 \* the system calls that may fail, "kill" and "atime"
  Absent                  \* what a name that is not in the directory stands for

Command == [ dst_convention           : Targets,
             binaries                 : BOOLEAN,
             final_char_has_to_be_eol : BOOLEAN,
             keepdate                 : BOOLEAN ]

\* The contents of an inode: which file's text it is, and whether all of it.
Text == [of : Files, whole : BOOLEAN, kind : Kind]

\* "special" is a mode with a set-user-ID or set-group-ID bit, "fresh" what fopen
\* gives a new file; "new" is any time after the processes were launched.
Meta == [mode  : {"plain", "special", "fresh"}, owner : {"original", "fresh"},
         mtime : {"original", "new"},           atime : {"original", "new"}]

\* by: the process that wrote the inode, or "user" for the files there were.
Inode == [text : Text, by : Procs \cup {"user"}, meta : Meta]

AllFaults == {"stat", "access", "open", "read", "create", "write", "close", "remove",
              "rename", "chmod", "chown", "utime", "kill", "atime"}

ASSUME NamesAssumption   == /\ Files # {} /\ Files \cap Tmps = {}
                            /\ session_tmp_filename \in [Procs -> Tmps]
                            /\ "user" \notin Procs
ASSUME BinaryAssumption  == KnownBinaryNames \subseteq Files
ASSUME CommandAssumption == Invocations \subseteq Command
ASSUME KindAssumption    == /\ Kinds \subseteq Kind
                            /\ \A k \in Kinds : k.eol => k.endings # {}
ASSUME FaultsAssumption  == Faults \subseteq AllFaults
ASSUME AbsentAssumption == Absent \notin Inode \cup Kind \cup Files

VARIABLES
  invocation,   \* of each process
  original,     \* the directory before any process was launched
  dir,          \* the directory: an inode for each name, or Absent
  pc,           \* what each process does next
  todo,         \* the files each process has not come to yet
  filename,     \* the file each process works on
  statinfo,     \* what stat said of it
  in,           \* the inode each process has open for reading
  report,       \* how its convert_stream ended: "ok", "error" or "binary"
  outcome       \* what each process has returned for each file

given == <<invocation, original>>
work  == <<todo, filename, statinfo, in>>
vars  == <<given, dir, pc, work, report, outcome>>

Names == Files \cup Tmps
tmp(p) == session_tmp_filename[p]

\* A process whose renaming failed, or that was killed just before it, has left the
\* only copy of a file under the temporary name: "aborted", "stranded".
Dead    == {"exited", "aborted", "stranded", "killed"}
Working == {"access", "open", "check", "precheck", "create", "convert", "close",
            "discard", "remove", "rename", "chmod", "chown", "utime"}
Places  == {"unborn", "idle"} \cup Working \cup Dead

May(fault) == fault \in Faults

--------------------------------------------------------------------------------
(* Steps of a process.                                                      *)

Goto(p, place) == pc' = [pc EXCEPT ![p] = place]

Return(p, f, status) ==
  /\ Goto(p, "idle")
  /\ outcome' = [outcome EXCEPT ![p][f] = status]

FreshMeta == [mode |-> "fresh", owner |-> "fresh", mtime |-> "new", atime |-> "new"]

\* Reading may move the access time of the inode that is open, if it still has a name.
ReadFrom(p) ==
  LET f == filename[p]
  IN  \/ UNCHANGED dir
      \/ /\ May("atime")
         /\ dir[f] # Absent /\ dir[f].by = in[p].by
         /\ dir' = [dir EXCEPT ![f].meta.atime = "new"]

\* A process starts; no two living processes have the same pid.
Launch(p) ==
  /\ pc[p] = "unborn"
  /\ \A q \in Procs \ {p} :
       tmp(q) = tmp(p) => pc[q] \in Dead \cup {"unborn"}
  /\ Goto(p, "idle")
  /\ UNCHANGED <<given, work, dir, report, outcome>>

\* Faulty: the extension is not looked at.
KnownBinary_unknown(p, f) == FALSE
KnownBinary(p, f) == f \in KnownBinaryNames /\ ~ invocation[p].binaries

\* Faulty: a file that was seen is seen again.
Unseen_relisted(p, f) == todo[p]
Unseen(p, f) == todo[p] \ {f}

\* walk_filenames calls stat, and walkers_callback on success.
Stat(p) ==
  /\ pc[p] = "idle"
  /\ \E f \in todo[p] :
       /\ todo' = [todo EXCEPT ![p] = Unseen(p, f)]
       /\ filename' = [filename EXCEPT ![p] = f]
       /\ \/ /\ dir[f] = Absent \/ May("stat")
             /\ Return(p, f, "UNREADABLE")
             /\ UNCHANGED statinfo
          \/ /\ dir[f] # Absent
             /\ statinfo' = [statinfo EXCEPT ![p] = dir[f].meta]
             /\ IF KnownBinary(p, f)
                THEN Return(p, f, "SKIPPED_BINARY")
                ELSE /\ Goto(p, IF invocation[p].dst_convention = "NO_CONVENTION"
                                THEN "open" ELSE "access")
                     /\ UNCHANGED outcome
  /\ UNCHANGED <<given, dir, in, report>>

check_write_access(p) ==
  /\ pc[p] = "access"
  /\ \/ /\ dir[filename[p]] = Absent \/ May("access")
        /\ Return(p, filename[p], "FILEOP_ERROR")
     \/ /\ dir[filename[p]] # Absent
        /\ Goto(p, "open")
        /\ UNCHANGED outcome
  /\ UNCHANGED <<given, work, dir, report>>

open_to_read(p) ==
  /\ pc[p] = "open"
  /\ \/ /\ dir[filename[p]] = Absent \/ May("open")
        /\ Return(p, filename[p], "FILEOP_ERROR")
        /\ UNCHANGED in
     \/ /\ dir[filename[p]] # Absent
        /\ in' = [in EXCEPT ![p] = dir[filename[p]]]
        /\ Goto(p, IF invocation[p].dst_convention = "NO_CONVENTION" THEN "check" ELSE "precheck")
        /\ UNCHANGED outcome
  /\ UNCHANGED <<given, dir, todo, filename, statinfo, report>>

\* Faulty: one enum is returned for another.
check_status_mixed(kind, inv) ==
  get_source_convention(report_of(kind.binary, kind.eol, kind.endings).count_by_convention)

check_status(kind, inv) == IF IsUnwantedBinary(kind, inv) THEN "SKIPPED_BINARY" ELSE "DONE"

\* check_one_file behind its open_to_read
check_one_file(p) ==
  /\ pc[p] = "check"
  /\ ReadFrom(p)
  /\ \/ May("read") /\ Return(p, filename[p], "FILEOP_ERROR")
     \/ Return(p, filename[p], check_status(in[p].text.kind, invocation[p]))
  /\ UNCHANGED <<given, work, report>>

pre_conversion_check(p) ==
  /\ pc[p] = "precheck"
  /\ ReadFrom(p)
  /\ \/ May("read") /\ Return(p, filename[p], "FILEOP_ERROR")
     \/ \E scan \in scan_reports(in[p].text.kind, invocation[p]) :
          LET verdict == pre_conversion_verdict(scan, invocation[p])
          IN  IF verdict = "CAN_CONTINUE"
              THEN Goto(p, "create") /\ UNCHANGED outcome
              ELSE Return(p, filename[p], verdict)
  /\ UNCHANGED <<given, work, report>>

\* Truncates a file of that name that an interrupted process has left.  A path too
\* long for the temporary name ends the same way as a file that can not be created.
open_to_write(p) ==
  LET meta == IF dir[tmp(p)] = Absent THEN FreshMeta
              ELSE [dir[tmp(p)].meta EXCEPT !.mtime = "new"]
  IN  /\ pc[p] = "create"
      /\ \/ /\ May("create")
            /\ Return(p, filename[p], "FILEOP_ERROR")
            /\ UNCHANGED dir
         \/ /\ dir' = [dir EXCEPT ![tmp(p)] =
                         [text |-> [in[p].text EXCEPT !.whole = FALSE], by |-> p, meta |-> meta]]
            /\ Goto(p, "convert")
            /\ UNCHANGED outcome
      /\ UNCHANGED <<given, work, report>>

\* The second convert_stream: this one reads on to the end or to a control character.
Convert(p) ==
  /\ pc[p] = "convert"
  /\ ReadFrom(p)
  /\ \/ /\ May("read") \/ May("write")
        /\ report' = [report EXCEPT ![p] = "error"]
     \/ report' = [report EXCEPT ![p] =
                     IF IsUnwantedBinary(in[p].text.kind, invocation[p])
                     THEN "binary" ELSE "ok"]
  /\ Goto(p, "close")
  /\ UNCHANGED <<given, work, outcome>>

\* Faulty: the report of the conversion is not looked at.
AfterClose_unchecked(p) == "remove"
AfterClose(p) == IF report[p] = "ok" THEN "remove" ELSE "discard"

\* fclose(in) and fclose(out): what stdio still held reaches the disk only here,
\* and the code does not look whether it did.
CloseStreams(p) ==
  /\ pc[p] = "close"
  /\ \/ /\ report[p] # "ok" \/ May("close")
        /\ UNCHANGED dir
     \/ /\ report[p] = "ok"
        /\ dir' = [dir EXCEPT ![tmp(p)].text =
                     [in[p].text EXCEPT !.kind = converted(@, invocation[p])]]
  /\ Goto(p, AfterClose(p))
  /\ UNCHANGED <<given, work, report, outcome>>

\* Faulty: one of the error paths does not remove the temporary file.
WithoutTmp_forgetful(p) == IF report[p] = "binary" THEN dir ELSE [dir EXCEPT ![tmp(p)] = Absent]
WithoutTmp(p) == [dir EXCEPT ![tmp(p)] = Absent]

\* remove(tmp) on the three error paths; its own result is ignored.
Discard(p) ==
  /\ pc[p] = "discard"
  /\ \/ May("remove") /\ UNCHANGED dir
     \/ dir' = WithoutTmp(p)
  /\ Return(p, filename[p], IF report[p] = "binary" THEN "SKIPPED_BINARY" ELSE "FILEOP_ERROR")
  /\ UNCHANGED <<given, work, report>>

--------------------------------------------------------------------------------
(* move_temp_file_to_destination, and the end of convert_one_file.          *)

RemoveOriginal(p) ==
  /\ pc[p] = "remove"
  /\ \/ /\ dir[filename[p]] = Absent \/ May("remove")
        /\ report' = [report EXCEPT ![p] = "error"]
        /\ Goto(p, "discard")
        /\ UNCHANGED dir
     \/ /\ dir[filename[p]] # Absent
        /\ dir' = [dir EXCEPT ![filename[p]] = Absent]
        /\ Goto(p, "rename")
        /\ UNCHANGED report
  /\ UNCHANGED <<given, work, outcome>>

\* Faulty: a failed renaming is cleaned up like any other failure ...
RenameFails_tidy(p) == dir' = WithoutTmp(p) /\ Goto(p, "aborted") /\ UNCHANGED outcome

\* ... or reported, and the process goes on.
RenameFails_carryingon(p) == UNCHANGED dir /\ Return(p, filename[p], "FILEOP_ERROR")

\* It ends the process at once: "You will find your data in" the temporary file.
RenameFails(p) == Goto(p, "aborted") /\ UNCHANGED <<dir, outcome>>

RenameTmp(p) ==
  /\ pc[p] = "rename"
  /\ \/ May("rename") /\ RenameFails(p)
     \/ /\ dir' = [dir EXCEPT ![filename[p]] = dir[tmp(p)], ![tmp(p)] = Absent]
        /\ Goto(p, "chmod")
        /\ UNCHANGED outcome
  /\ UNCHANGED <<given, work, report>>

\* chmod, chown and utime go by name: they meet whatever inode has it by now.
SetMeta(p, fault, meta) ==
  LET f == filename[p]
  IN  \/ (dir[f] = Absent \/ May(fault)) /\ UNCHANGED dir
      \/ dir[f] # Absent /\ dir' = [dir EXCEPT ![f].meta = meta]

MetaOf(p) == dir[filename[p]].meta

\* Faulty: a failed chmod is an error of the file ...
AfterChmod_strict(p) == \/ Return(p, filename[p], "FILEOP_ERROR")
                        \/ Goto(p, "chown") /\ UNCHANGED outcome
AfterChmod(p) == Goto(p, "chown") /\ UNCHANGED outcome

\* ... or there is no chmod.
ModeRestored_missing(p) == MetaOf(p)
ModeRestored(p) == [MetaOf(p) EXCEPT !.mode = statinfo[p].mode]

RestoreMode(p) ==
  /\ pc[p] = "chmod"
  /\ SetMeta(p, "chmod", ModeRestored(p))
  /\ AfterChmod(p)
  /\ UNCHANGED <<given, work, report>>

\* chown takes the set-user-ID and set-group-ID bits away.
RestoreOwner(p) ==
  /\ pc[p] = "chown"
  /\ SetMeta(p, "chown",
             [MetaOf(p) EXCEPT !.owner = statinfo[p].owner,
                               !.mode = IF @ = "special" THEN "plain" ELSE @])
  /\ IF invocation[p].keepdate
     THEN Goto(p, "utime") /\ UNCHANGED outcome
     ELSE Return(p, filename[p], "DONE")
  /\ UNCHANGED <<given, work, report>>

RestoreTimes(p) ==
  /\ pc[p] = "utime"
  /\ SetMeta(p, "utime", [MetaOf(p) EXCEPT !.mtime = statinfo[p].mtime,
                                        !.atime = statinfo[p].atime])
  /\ Return(p, filename[p], "DONE")
  /\ UNCHANGED <<given, work, report>>

Exit(p) ==
  /\ pc[p] = "idle"
  /\ todo[p] = {}
  /\ Goto(p, "exited")
  /\ UNCHANGED <<given, work, dir, report, outcome>>

Kill(p) ==
  /\ May("kill")
  /\ pc[p] \in Working
  /\ Goto(p, IF pc[p] = "rename" THEN "stranded" ELSE "killed")
  /\ UNCHANGED <<given, work, dir, report, outcome>>

--------------------------------------------------------------------------------
UserFile(f, kind, mode) ==
  [ text |-> [of |-> f, whole |-> TRUE, kind |-> kind],
    by   |-> "user",
    meta |-> [mode |-> mode, owner |-> "original", mtime |-> "original", atime |-> "original"] ]

Init ==
  /\ invocation \in [Procs -> Invocations]
  /\ \E kinds \in [Files -> Kinds], modes \in [Files -> {"plain", "special"}] :
       original = [f \in Files |-> UserFile(f, kinds[f], modes[f])]
  /\ dir = [n \in Names |-> IF n \in Files THEN original[n] ELSE Absent]
  /\ pc = [p \in Procs |-> "unborn"]
  /\ todo = [p \in Procs |-> Files]
  /\ filename = [p \in Procs |-> CHOOSE f \in Files : TRUE]
  /\ statinfo = [p \in Procs |-> FreshMeta]
  /\ in = [p \in Procs |-> original[filename[p]]]
  /\ report = [p \in Procs |-> "ok"]
  /\ outcome = [p \in Procs |-> [f \in Files |-> "CAN_CONTINUE"]]

Step(p) ==
  \/ Launch(p) \/ Stat(p) \/ check_write_access(p) \/ open_to_read(p)
  \/ check_one_file(p) \/ pre_conversion_check(p)
  \/ open_to_write(p) \/ Convert(p) \/ CloseStreams(p) \/ Discard(p)
  \/ RemoveOriginal(p) \/ RenameTmp(p)
  \/ RestoreMode(p) \/ RestoreOwner(p) \/ RestoreTimes(p) \/ Exit(p)

Next == \E p \in Procs : Step(p) \/ Kill(p)

Spec == Init /\ [][Next]_vars

\* A process that was launched and not stopped goes on; nobody has to launch it.
Continue(p) == pc[p] # "unborn" /\ Step(p)

FairSpec == Spec /\ \A p \in Procs : WF_vars(Continue(p))
================================================================================
