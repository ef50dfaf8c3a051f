------------------------- MODULE ConvertFileProperties -------------------------
(***************************************************************************)
(* What endlines processes promise about the files of a directory.         *)
(***************************************************************************)
EXTENDS ConvertFile

TypeOK ==
  /\ invocation \in [Procs -> Command]
  /\ original \in [Files -> Inode]
  /\ dir \in [Names -> Inode \cup {Absent}]
  /\ pc \in [Procs -> Places]
  /\ todo \in [Procs -> SUBSET Files]
  /\ filename \in [Procs -> Files]
  /\ statinfo \in [Procs -> Meta]
  /\ in \in [Procs -> Inode]
  /\ report \in [Procs -> {"ok", "error", "binary"}]
  /\ outcome \in [Procs -> [Files -> FileOp_Status \cup {"UNREADABLE"}]]

Present(n)      == dir[n] # Absent
Replaced(f, p)  == Present(f) /\ dir[f].by = p
IsCopy(i, f)    == i.text.of = f /\ i.text.whole

\* A file that a conversion under this command line leaves as it is.
NothingToDo(kind, inv) ==
  /\ kind.endings \subseteq {inv.dst_convention}
  /\ inv.final_char_has_to_be_eol => kind.eol
  /\ kind.binary => inv.binaries

Converts(p) == invocation[p].dst_convention # "NO_CONVENTION"

\* All conversions that are going on were asked for with the same command line.
Agreeing == \A p, q \in Procs : Converts(p) /\ Converts(q) => invocation[p] = invocation[q]

AllReturned == \A p \in Procs : pc[p] \in {"unborn", "exited"}

\* p has removed f and has yet to rename the complete copy it has made, or was
\* stopped there.
Takers == {"rename", "aborted", "stranded"}
HasTaken(p, f) == /\ filename[p] = f /\ pc[p] \in Takers
                  /\ Present(tmp(p)) /\ IsCopy(dir[tmp(p)], f)

--------------------------------------------------------------------------------
(* Safety.                                                                  *)

\* At every moment the directory holds a complete copy of every file, in its own
\* place or under a temporary name: through the removal, the renaming, a kill
\* between the two and other processes doing the same.
DataSurvives == \A f \in Files : \E n \in Names : Present(n) /\ IsCopy(dir[n], f)

\* A file is out of its place only while, or because, one process is between its
\* removal and its renaming; an error that convert_one_file returns never leaves
\* it away.
AbsentOnlyInTheWindow ==
  \A f \in Files : ~ Present(f) => \E p \in Procs : HasTaken(p, f)

\* DONE is said only of a complete file that is in the wanted convention and has
\* its final end of line, if wanted, unless another process has it in hand.
DoneIsConverted ==
  Agreeing =>
    \A p \in Procs, f \in Files :
      (outcome[p][f] = "DONE" /\ Converts(p)) =>
        \/ Present(f) /\ dir[f].text.whole /\ NothingToDo(dir[f].text.kind, invocation[p])
        \/ \E q \in Procs \ {p} : HasTaken(q, f)

\* A process that returns an error or a skip for a file has not replaced it.
NotDoneIsUntouched ==
  \A p \in Procs, f \in Files :
    outcome[p][f] \in {"FILEOP_ERROR", "SKIPPED_BINARY", "UNREADABLE"} => ~ Replaced(f, p)

\* Without --binaries a file with control characters, or a known extension, is
\* never replaced, also when the dry scan stopped before it saw them.
BinariesStay ==
  \A f \in Files :
    (\A p \in Procs : ~ invocation[p].binaries)
    /\ (original[f].text.kind.binary \/ f \in KnownBinaryNames) =>
      Present(f) /\ dir[f].by = "user"

\* A file that no process has reason to convert is never rewritten.
UnneededStay ==
  \A f \in Files :
    (\A p \in Procs : Converts(p) => NothingToDo(original[f].text.kind, invocation[p])) =>
      Present(f) /\ dir[f].by = "user"

\* A temporary file outlives the conversion it was made for only when its process
\* was stopped: every path of convert_one_file that returns has cleaned up.
NoLeftoverTmp ==
  May("remove") \/
    \A p \in Procs :
      Present(tmp(p)) =>
        \E q \in Procs : /\ tmp(q) = tmp(p)
                         /\ pc[q] \in {"convert", "close", "discard", "remove", "rename",
                                       "aborted", "stranded", "killed"}

\* When all is over, converted files have the owner and the mode they had, special
\* bits apart, and under -k their modification time: also when two processes
\* replaced one another's result.
MetaRestored ==
  (Agreeing /\ AllReturned) =>
    \A f \in Files :
      LET was == original[f].meta
      IN  /\ Present(f)
          /\ dir[f].meta.owner = was.owner
          /\ was.mode = "plain" => dir[f].meta.mode = "plain"
          /\ (\A p \in Procs : invocation[p].keepdate) => dir[f].meta.mtime = was.mtime

\* The copy that a process leaves under its temporary name, where "You will find your
\* data in %s" sends the user or where a kill has left it: neither the failure itself
\* nor any step of any process disturbs it, until a later process, which was given the
\* same pid, creates its own temporary file over it.
LeftCopyStays ==
  [][\A p \in Procs :
       LET copy == dir[tmp(p)]
       IN  (pc'[p] \in {"aborted", "stranded"} /\ copy # Absent
            /\ copy.by = p /\ IsCopy(copy, filename[p])) =>
             \/ dir'[tmp(p)] = copy
             \/ \E q \in Procs \ {p} :
                  tmp(q) = tmp(p) /\ pc[q] = "create" /\ pc'[q] = "convert"]_vars

--------------------------------------------------------------------------------
(* Refinement: what the processes do to the files is what SafeReplace says.  *)

content == [f \in Files |-> IF Present(f) THEN dir[f].text.kind ELSE Absent]
read    == [p \in Procs |-> [of |-> in[p].text.of, kind |-> in[p].text.kind]]
taken   == [p \in Procs |-> IF pc[p] \in Takers THEN filename[p] ELSE Absent]

Abstract == INSTANCE SafeReplace WITH command <- invocation

\* Through all interleavings, failures and kills a file is only ever taken away by a
\* process that has read it, while it is there, and given back by that process as the
\* conversion of what it read; the renaming never lands on a file that is there.
ReplacesSafely == Abstract!Spec

--------------------------------------------------------------------------------
(* Liveness.                                                                *)

\* Every process that was launched ends.
Termination == \A p \in Procs : pc[p] = "idle" ~> pc[p] \in Dead

\* A file that is out of its place comes back, unless a process that took it away
\* was stopped: then the copy waits under the temporary name, and LeftCopyStays says
\* for how long.
AbsentIsTransient ==
  \A f \in Files :
    ~ Present(f) ~> \/ Present(f)
                    \/ \E p \in Procs : filename[p] = f /\ pc[p] \in {"aborted", "stranded"}

--------------------------------------------------------------------------------
(* What a document says of the program and the code does not do.            *)

\* endlines.h of DONE: "The file has been fully processed without any error."
DoneIsWhole ==
  \A p \in Procs, f \in Files :
    outcome[p][f] = "DONE" /\ Replaced(f, p) => dir[f].text.whole
================================================================================
