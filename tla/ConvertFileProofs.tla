-------------------------- MODULE ConvertFileProofs --------------------------
(***************************************************************************)
(* Proofs about ConvertFile, for any processes, files, command lines and   *)
(* faults: its type invariant; that no interleaving, failure or kill ever  *)
(* costs a file its last complete copy, and that it implements SafeReplace,*)
(* provided that fclose does not fail and that the processes have different*)
(* temporary names; which files stay untouched; and what is left behind.   *)
(***************************************************************************)
EXTENDS ConvertFileProperties, TLAPS

Statuses    == FileOp_Status \cup {"UNREADABLE"}
Outcomes    == [Procs -> [Files -> Statuses]]
Directories == [Names -> Inode \cup {Absent}]

\* A process that has something open for conversion was asked to convert.
OnlyConvertersConvert ==
  \A p \in Procs : pc[p] \in {"precheck", "create", "convert", "close"} => Converts(p)

\* Two living processes have different temporary names.
LivingApart ==
  \A p, q \in Procs :
    p # q /\ pc[p] \notin Dead \cup {"unborn"} /\ pc[q] \notin Dead \cup {"unborn"} => tmp(p) # tmp(q)

\* The temporary file is there from its creation to the end of the copy.
TmpIsThere == \A p \in Procs : pc[p] \in {"convert", "close"} => Present(tmp(p))

TypeInv == TypeOK /\ OnlyConvertersConvert /\ LivingApart /\ TmpIsThere

USE DEF Present, tmp, Converts, given, work, Takers

\* The parts of actions that have names of their own.
USE DEF KnownBinary, Unseen, check_status, AfterClose, WithoutTmp, RenameFails, AfterChmod

\* The dry scan has a status for verdict.
LEMMA VerdictIsStatus ==
  ASSUME NEW scan, NEW inv
  PROVE  pre_conversion_verdict(scan, inv) \in FileOp_Status
  BY DEF pre_conversion_verdict, FileOp_Status

\* Where a step goes, and what it returns, concerns its process alone.
LEMMA GotoType ==
  ASSUME NEW p \in Procs, NEW place \in Places, pc \in [Procs -> Places], Goto(p, place)
  PROVE  /\ pc' \in [Procs -> Places]
         /\ pc'[p] = place
         /\ \A q \in Procs \ {p} : pc'[q] = pc[q]
  BY DEF Goto

LEMMA ReturnType ==
  ASSUME NEW p \in Procs, NEW f \in Files, NEW status \in Statuses,
         pc \in [Procs -> Places], outcome \in Outcomes, Return(p, f, status)
  PROVE  /\ pc' \in [Procs -> Places]
         /\ pc'[p] = "idle"
         /\ \A q \in Procs \ {p} : pc'[q] = pc[q]
         /\ outcome' \in Outcomes
  <1>1. Goto(p, "idle") /\ "idle" \in Places
    BY DEF Return, Places
  <1>2. outcome' = [outcome EXCEPT ![p] = [outcome[p] EXCEPT ![f] = status]]
    BY DEF Return
  <1>3. [outcome[p] EXCEPT ![f] = status] \in [Files -> Statuses]
    BY DEF Outcomes
  <1>4. outcome' \in Outcomes
    BY <1>2, <1>3 DEF Outcomes
  <1> QED
    BY <1>1, <1>4, GotoType

\* Which places a step leads to, from where, and that it moves nobody else.
LEMMA Moves ==
  ASSUME NEW p \in Procs, TypeOK, Step(p) \/ Kill(p)
  PROVE  /\ pc' \in [Procs -> Places]
         /\ \A q \in Procs \ {p} : pc'[q] = pc[q]
         /\ invocation' = invocation /\ original' = original
         /\ pc'[p] = "precheck" => Converts(p)
         /\ pc'[p] = "create" => pc[p] = "precheck"
         /\ pc'[p] = "convert" => pc[p] = "create"
         /\ pc'[p] = "close" => pc[p] = "convert"
         /\ pc'[p] = "remove" => pc[p] = "close"
         /\ pc'[p] = "rename" => pc[p] = "remove"
         /\ pc'[p] \in {"aborted", "stranded"} => pc[p] = "rename"
         /\ pc[p] \notin Dead
         /\ pc[p] = "unborn" =>
              \A q \in Procs \ {p} : tmp(q) = tmp(p) => pc[q] \in Dead \cup {"unborn"}
  <1> USE DEF Places, Working, Dead
  <1> /\ pc \in [Procs -> Places] /\ outcome \in Outcomes
      /\ filename[p] \in Files
    BY DEF TypeOK, Outcomes, Statuses
  <1> \A status \in FileOp_Status : status \in Statuses
    BY DEF Statuses
  <1> {"DONE", "SKIPPED_BINARY", "FILEOP_ERROR"} \subseteq FileOp_Status
    BY DEF FileOp_Status
  <1>1. CASE Launch(p)
    BY <1>1, GotoType DEF Launch
  <1>2. CASE Stat(p)
    <2> PICK g \in Files :
          \/ Return(p, g, "UNREADABLE") \/ Return(p, g, "SKIPPED_BINARY")
          \/ Goto(p, "open") \/ Goto(p, "access")
      BY <1>2 DEF Stat, TypeOK
    <2> "UNREADABLE" \in Statuses
      BY DEF Statuses
    <2> QED
      BY <1>2, GotoType, ReturnType DEF Stat
  <1>3. CASE check_write_access(p)
    BY <1>3, GotoType, ReturnType DEF check_write_access
  <1>4. CASE open_to_read(p)
    BY <1>4, GotoType, ReturnType DEF open_to_read
  <1>5. CASE check_one_file(p)
    BY <1>5, ReturnType DEF check_one_file
  <1>6. CASE pre_conversion_check(p)
    BY <1>6, GotoType, ReturnType, VerdictIsStatus DEF pre_conversion_check
  <1>7. CASE open_to_write(p)
    BY <1>7, GotoType, ReturnType DEF open_to_write
  <1>8. CASE Convert(p)
    BY <1>8, GotoType DEF Convert
  <1>9. CASE CloseStreams(p)
    BY <1>9, GotoType DEF CloseStreams
  <1>10. CASE Discard(p)
    BY <1>10, ReturnType DEF Discard
  <1>11. CASE RemoveOriginal(p)
    BY <1>11, GotoType DEF RemoveOriginal
  <1>12. CASE RenameTmp(p)
    BY <1>12, GotoType DEF RenameTmp
  <1>13. CASE RestoreMode(p)
    BY <1>13, GotoType DEF RestoreMode
  <1>14. CASE RestoreOwner(p)
    BY <1>14, GotoType, ReturnType DEF RestoreOwner
  <1>15. CASE RestoreTimes(p)
    BY <1>15, ReturnType DEF RestoreTimes
  <1>16. CASE Exit(p)
    BY <1>16, GotoType DEF Exit
  <1>17. CASE Kill(p)
    BY <1>17, GotoType DEF Kill
  <1> QED
    BY <1>1, <1>2, <1>3, <1>4, <1>5, <1>6, <1>7, <1>8, <1>9, <1>10, <1>11, <1>12,
       <1>13, <1>14, <1>15, <1>16, <1>17 DEF Step

--------------------------------------------------------------------------------
(* The directory.                                                           *)

\* A conversion turns a kind of text into a kind of text.
LEMMA ConvertedIsKind ==
  ASSUME NEW kind \in Kind, NEW inv \in Command, inv.dst_convention # "NO_CONVENTION"
  PROVE  converted(kind, inv) \in Kind
  BY DEF converted, Kind, Command, Targets, LineEndings

\* A change of the metadata of one file keeps every text, every owner, every absence.
SameTexts ==
  \A n \in Names : /\ Present(n)' <=> Present(n)
                   /\ Present(n) => dir'[n].text = dir[n].text /\ dir'[n].by = dir[n].by

LEMMA MetaUpdate ==
  ASSUME NEW f \in Files, NEW meta \in Meta, dir \in Directories, Present(f),
         dir' = [dir EXCEPT ![f].meta = meta]
  PROVE  dir' \in Directories /\ SameTexts
  <1>1. f \in Names /\ dir[f] \in Inode
    BY DEF Directories, Names
  <1> DEFINE inode == [dir[f] EXCEPT !.meta = meta]
  <1>2. inode \in Inode /\ inode.text = dir[f].text /\ inode.by = dir[f].by
    BY <1>1 DEF Inode
  <1>3. dir' = [dir EXCEPT ![f] = inode]
    OBVIOUS
  <1> HIDE DEF inode
  <1> QED
    BY <1>1, <1>2, <1>3, AbsentAssumption DEF Directories, SameTexts

LEMMA Reading ==
  ASSUME NEW p \in Procs, filename[p] \in Files, dir \in Directories, ReadFrom(p)
  PROVE  dir' \in Directories /\ SameTexts
  <1> DEFINE f == filename[p]
             meta == [dir[f].meta EXCEPT !.atime = "new"]
  <1>1. CASE UNCHANGED dir
    BY <1>1 DEF SameTexts
  <1>2. CASE Present(f) /\ dir' = [dir EXCEPT ![f].meta.atime = "new"]
    <2>1. dir[f] \in Inode
      BY <1>2 DEF Directories, Names
    <2>2. meta \in Meta
      BY <2>1 DEF Inode, Meta
    <2>3. dir' = [dir EXCEPT ![f].meta = meta]
      BY <1>2
    <2> HIDE DEF meta
    <2> QED
      BY <1>2, <2>2, <2>3, MetaUpdate
  <1> QED
    BY <1>1, <1>2 DEF ReadFrom

LEMMA SettingMeta ==
  ASSUME NEW p \in Procs, NEW fault, NEW meta, SetMeta(p, fault, meta),
         filename[p] \in Files, dir \in Directories,
         Present(filename[p]) => meta \in Meta
  PROVE  dir' \in Directories /\ SameTexts
  <1>1. CASE UNCHANGED dir
    BY <1>1 DEF SameTexts
  <1>2. CASE Present(filename[p]) /\ dir' = [dir EXCEPT ![filename[p]].meta = meta]
    BY <1>2, MetaUpdate
  <1> QED
    BY <1>1, <1>2 DEF SetMeta

\* chmod, chown and utime set values of their types.
LEMMA Restoring ==
  ASSUME NEW p \in Procs, TypeOK, RestoreMode(p) \/ RestoreOwner(p) \/ RestoreTimes(p)
  PROVE  dir' \in Directories /\ SameTexts
  <1>1. filename[p] \in Files /\ dir \in Directories /\ statinfo[p] \in Meta
    BY DEF TypeOK, Directories
  <1>2. Present(filename[p]) => MetaOf(p) \in Meta
    BY <1>1 DEF Directories, MetaOf, Inode, Names
  <1>3. CASE RestoreMode(p)
    <2>1. Present(filename[p]) => ModeRestored(p) \in Meta
      BY <1>1, <1>2 DEF Meta, ModeRestored
    <2> QED
      BY <1>1, <1>3, <2>1, SettingMeta DEF RestoreMode
  <1>4. CASE RestoreOwner(p)
    <2>1. Present(filename[p]) =>
            [MetaOf(p) EXCEPT !.owner = statinfo[p].owner,
                              !.mode = IF @ = "special" THEN "plain" ELSE @] \in Meta
      BY <1>1, <1>2 DEF Meta
    <2> QED
      BY <1>1, <1>4, <2>1, SettingMeta DEF RestoreOwner
  <1>5. CASE RestoreTimes(p)
    <2>1. Present(filename[p]) => [MetaOf(p) EXCEPT !.mtime = statinfo[p].mtime,
                                                    !.atime = statinfo[p].atime] \in Meta
      BY <1>1, <1>2 DEF Meta
    <2> QED
      BY <1>1, <1>5, <2>1, SettingMeta DEF RestoreTimes
  <1> QED
    BY <1>3, <1>4, <1>5

\* What a step may do to the directory, told by its action: it touches nothing but
\* the file and the temporary file of its process.
NewTmp(p) ==
  \E inode \in Inode : /\ inode.text.of = in[p].text.of
                       /\ dir' = [dir EXCEPT ![tmp(p)] = inode]

Completed(p) ==
  \E inode \in Inode : /\ inode.text.of = in[p].text.of /\ inode.text.whole = in[p].text.whole
                       /\ inode.text.kind = converted(in[p].text.kind, invocation[p])
                       /\ dir' = [dir EXCEPT ![tmp(p)] = inode]

LEMMA Creating ==
  ASSUME NEW p \in Procs, TypeOK, open_to_write(p)
  PROVE  \/ UNCHANGED dir /\ pc'[p] # "convert"
         \/ NewTmp(p)
  <1> DEFINE meta == IF dir[tmp(p)] = Absent THEN FreshMeta
                     ELSE [dir[tmp(p)].meta EXCEPT !.mtime = "new"]
             text == [in[p].text EXCEPT !.whole = FALSE]
             inode == [text |-> text, by |-> p, meta |-> meta]
  <1>1. dir[tmp(p)] \in Inode \cup {Absent} /\ in[p] \in Inode
    BY NamesAssumption DEF TypeOK, Names
  <1>2. meta \in Meta
    BY <1>1 DEF FreshMeta, Inode, Meta
  <1>3. text \in Text /\ text.of = in[p].text.of
    BY <1>1 DEF Inode, Text
  <1> HIDE DEF meta, text
  <1>4. inode \in Inode /\ inode.text.of = in[p].text.of
    BY <1>2, <1>3 DEF Inode
  <1>5. \/ UNCHANGED dir /\ Return(p, filename[p], "FILEOP_ERROR")
        \/ dir' = [dir EXCEPT ![tmp(p)] = inode]
    BY DEF open_to_write, meta, text
  <1> HIDE DEF inode
  <1> QED
    BY <1>4, <1>5 DEF NewTmp, Return, Goto, TypeOK

LEMMA Closing ==
  ASSUME NEW p \in Procs, TypeOK, CloseStreams(p), Present(tmp(p)), Converts(p)
  PROVE  (UNCHANGED dir /\ (report[p] # "ok" \/ May("close"))) \/ Completed(p)
  <1> DEFINE text == [in[p].text EXCEPT !.kind = converted(@, invocation[p])]
             inode == [dir[tmp(p)] EXCEPT !.text = text]
  <1>1. dir[tmp(p)] \in Inode /\ in[p].text \in Text /\ invocation[p] \in Command
    BY NamesAssumption DEF TypeOK, Names, Inode
  <1>2. converted(in[p].text.kind, invocation[p]) \in Kind
    BY <1>1, ConvertedIsKind DEF Text
  <1>3. /\ text \in Text /\ text.of = in[p].text.of /\ text.whole = in[p].text.whole
        /\ text.kind = converted(in[p].text.kind, invocation[p])
    BY <1>1, <1>2 DEF Text
  <1>4. \/ UNCHANGED dir /\ (report[p] # "ok" \/ May("close"))
        \/ dir' = [dir EXCEPT ![tmp(p)].text = text]
    BY DEF CloseStreams
  <1> HIDE DEF text
  <1>5. inode \in Inode /\ inode.text = text
    BY <1>1, <1>3 DEF Inode
  <1> QED
    BY <1>3, <1>4, <1>5 DEF Completed

\* So the directory stays a directory.
LEMMA DirectoryType ==
  ASSUME NEW p \in Procs, TypeInv, Step(p) \/ Kill(p)
  PROVE  dir' \in Directories
  <1> /\ filename[p] \in Files /\ filename[p] \in Names /\ tmp(p) \in Names
      /\ dir \in Directories
    BY NamesAssumption DEF TypeInv, TypeOK, Names, Directories
  <1> USE DEF TypeInv
  <1>1. CASE UNCHANGED dir
    BY <1>1
  <1>2. CASE check_one_file(p) \/ pre_conversion_check(p) \/ Convert(p)
    BY <1>2, Reading DEF check_one_file, pre_conversion_check, Convert
  <1>3. CASE open_to_write(p)
    BY <1>3, Creating DEF NewTmp, Directories
  <1>4. CASE CloseStreams(p)
    <2>1. Present(tmp(p)) /\ Converts(p)
      BY <1>4 DEF CloseStreams, TmpIsThere, OnlyConvertersConvert
    <2> QED
      BY <1>4, <2>1, Closing DEF Completed, Directories
  <1>5. CASE Discard(p)
    BY <1>5 DEF Discard, Directories
  <1>6. CASE RemoveOriginal(p)
    BY <1>6 DEF RemoveOriginal, Directories
  <1>7. CASE RenameTmp(p)
    BY <1>7 DEF RenameTmp, Directories
  <1>8. CASE RestoreMode(p) \/ RestoreOwner(p) \/ RestoreTimes(p)
    BY <1>8, Restoring
  <1> QED
    BY <1>1, <1>2, <1>3, <1>4, <1>5, <1>6, <1>7, <1>8
    DEF Step, Launch, Stat, check_write_access, open_to_read, Exit, Kill

\* Outcomes stay outcomes, and what a process remembers keeps its type.
LEMMA MemoryType ==
  ASSUME NEW p \in Procs, TypeInv, Step(p) \/ Kill(p)
  PROVE  /\ outcome' \in Outcomes
         /\ todo' \in [Procs -> SUBSET Files]
         /\ filename' \in [Procs -> Files]
         /\ statinfo' \in [Procs -> Meta]
         /\ in' \in [Procs -> Inode]
         /\ report' \in [Procs -> {"ok", "error", "binary"}]
  <1> USE DEF TypeInv
  <1> /\ pc \in [Procs -> Places] /\ outcome \in Outcomes
      /\ filename[p] \in Files /\ dir \in Directories
    BY DEF TypeOK, Outcomes, Statuses, Directories
  <1> /\ \A status \in FileOp_Status : status \in Statuses
      /\ {"DONE", "SKIPPED_BINARY", "FILEOP_ERROR"} \subseteq FileOp_Status
      /\ "UNREADABLE" \in Statuses
    BY DEF FileOp_Status, Statuses
  <1>1. outcome' \in Outcomes
    <2>1. CASE UNCHANGED outcome
      BY <2>1
    <2>2. CASE \E f \in Files, status \in Statuses : Return(p, f, status)
      BY <2>2, ReturnType
    <2>3. UNCHANGED outcome \/ \E f \in Files, status \in Statuses : Return(p, f, status)
      <3>1. CASE Stat(p)
        <4> PICK g \in Files : \/ UNCHANGED outcome
                               \/ Return(p, g, "UNREADABLE") \/ Return(p, g, "SKIPPED_BINARY")
          BY <3>1 DEF Stat, TypeOK
        <4> QED
          OBVIOUS
      <3>2. CASE check_write_access(p) \/ open_to_read(p) \/ check_one_file(p)
        BY <3>2 DEF check_write_access, open_to_read, check_one_file
      <3>3. CASE pre_conversion_check(p)
        BY <3>3, VerdictIsStatus DEF pre_conversion_check
      <3>4. CASE open_to_write(p) \/ Discard(p) \/ RestoreOwner(p) \/ RestoreTimes(p)
        BY <3>4 DEF open_to_write, Discard, RestoreOwner, RestoreTimes
      <3> QED
        BY <3>1, <3>2, <3>3, <3>4
        DEF Step, Launch, Convert, CloseStreams, RemoveOriginal, RenameTmp, RestoreMode, Exit, Kill
    <2> QED
      BY <2>1, <2>2, <2>3
  <1>2. CASE Stat(p)
    <2> PICK g \in todo[p] :
          /\ todo' = [todo EXCEPT ![p] = @ \ {g}]
          /\ filename' = [filename EXCEPT ![p] = g]
          /\ \/ UNCHANGED statinfo
             \/ Present(g) /\ statinfo' = [statinfo EXCEPT ![p] = dir[g].meta]
      BY <1>2 DEF Stat
    <2>1. g \in Files
      BY DEF TypeOK
    <2>2. Present(g) => dir[g].meta \in Meta
      BY <2>1 DEF Directories, Names, Inode
    <2> QED
      BY <1>1, <1>2, <2>1, <2>2 DEF Stat, TypeOK
  <1>3. CASE open_to_read(p)
    <2>1. \/ UNCHANGED in
          \/ Present(filename[p]) /\ in' = [in EXCEPT ![p] = dir[filename[p]]]
      BY <1>3 DEF open_to_read
    <2>2. Present(filename[p]) => dir[filename[p]] \in Inode
      BY DEF Directories, Names
    <2> QED
      BY <1>1, <1>3, <2>1, <2>2 DEF open_to_read, TypeOK
  <1>4. CASE UNCHANGED <<todo, filename, statinfo, in>>
    <2>1. report' \in [Procs -> {"ok", "error", "binary"}]
      BY <1>4 DEF TypeOK, Step, Launch, Stat, check_write_access, open_to_read, check_one_file,
                  pre_conversion_check, open_to_write, Convert, CloseStreams, Discard,
                  RemoveOriginal, RenameTmp, RestoreMode, RestoreOwner, RestoreTimes, Exit, Kill
    <2> QED
      BY <1>1, <1>4, <2>1 DEF TypeOK
  <1> QED
    BY <1>2, <1>3, <1>4
    DEF Step, Launch, check_write_access, check_one_file, pre_conversion_check, open_to_write,
        Convert, CloseStreams, Discard, RemoveOriginal, RenameTmp, RestoreMode, RestoreOwner,
        RestoreTimes, Exit, Kill

--------------------------------------------------------------------------------
(* The type invariant.                                                      *)

LEMMA TypeInit == Init => TypeInv
  <1> SUFFICES ASSUME Init PROVE TypeInv
    OBVIOUS
  <1>1. original \in [Files -> Inode]
    BY KindAssumption DEF Init, UserFile, Inode, Text, Meta
  <1>2. filename \in [Procs -> Files]
    BY NamesAssumption DEF Init
  <1>3. FreshMeta \in Meta
    BY DEF FreshMeta, Meta
  <1>4. dir \in [Names -> Inode \cup {Absent}]
    BY <1>1 DEF Init, Names
  <1>5. in \in [Procs -> Inode]
    BY <1>1, <1>2 DEF Init
  <1> QED
    BY <1>1, <1>2, <1>3, <1>4, <1>5, CommandAssumption
    DEF Init, TypeInv, TypeOK, OnlyConvertersConvert, LivingApart, TmpIsThere, Places,
        FileOp_Status

\* A step keeps the temporary file of every process that is writing one.
LEMMA TmpStays ==
  ASSUME NEW p \in Procs, TypeInv, Step(p) \/ Kill(p)
  PROVE  TmpIsThere'
  <1> SUFFICES ASSUME NEW q \in Procs, pc'[q] \in {"convert", "close"}
               PROVE  Present(tmp(q))'
    BY DEF TmpIsThere
  <1> /\ tmp(q) \in Names /\ tmp(q) \notin Files /\ filename[p] \in Files /\ tmp(p) \in Names
      /\ dir \in Directories
    BY NamesAssumption DEF TypeInv, TypeOK, Names, Directories
  <1>1. CASE q # p
    <2>1. Present(tmp(q)) /\ pc[q] \in {"convert", "close"}
      BY <1>1, Moves DEF TypeInv, TmpIsThere
    <2>2. pc[p] # "unborn" => tmp(q) # tmp(p)
      BY <1>1, <2>1, Moves DEF TypeInv, LivingApart, Dead
    <2>3. CASE check_one_file(p) \/ pre_conversion_check(p) \/ Convert(p)
      BY <2>1, <2>3, Reading DEF check_one_file, pre_conversion_check, Convert, SameTexts
    <2>4. CASE RestoreMode(p) \/ RestoreOwner(p) \/ RestoreTimes(p)
      BY <2>1, <2>4, Restoring DEF TypeInv, SameTexts
    <2>5. CASE Launch(p)
      BY <2>1, <2>5 DEF Launch
    <2>6. CASE open_to_write(p) \/ CloseStreams(p) \/ Discard(p) \/ RemoveOriginal(p) \/ RenameTmp(p)
      BY <2>1, <2>2, <2>6
      DEF open_to_write, CloseStreams, Discard, RemoveOriginal, RenameTmp, Directories
    <2> QED
      BY <2>1, <2>3, <2>4, <2>5, <2>6
      DEF Step, Stat, check_write_access, open_to_read, Exit, Kill
  <1>2. CASE q = p
    <2>1. \/ pc[p] = "create" /\ pc'[p] = "convert"
          \/ pc[p] = "convert" /\ pc'[p] = "close"
      BY <1>2, Moves DEF TypeInv
    <2>2. CASE pc[p] = "create"
      <3>1. open_to_write(p)
        BY <2>1, <2>2 DEF Step, Launch, Stat, check_write_access, open_to_read, check_one_file,
             pre_conversion_check, Convert, CloseStreams, Discard, RemoveOriginal, RenameTmp,
             RestoreMode, RestoreOwner, RestoreTimes, Exit, Kill, Goto, TypeInv, TypeOK
      <3> QED
        BY <1>2, <2>1, <2>2, <3>1, Creating, AbsentAssumption DEF TypeInv, NewTmp, Directories
    <2>3. CASE pc[p] = "convert"
      <3>1. Convert(p)
        BY <2>1, <2>3 DEF Step, Launch, Stat, check_write_access, open_to_read, check_one_file,
             pre_conversion_check, open_to_write, CloseStreams, Discard, RemoveOriginal, RenameTmp,
             RestoreMode, RestoreOwner, RestoreTimes, Exit, Kill, Goto, TypeInv, TypeOK
      <3> QED
        BY <1>2, <2>3, <3>1, Reading DEF Convert, TypeInv, TmpIsThere, SameTexts
    <2> QED
      BY <2>1, <2>2, <2>3
  <1> QED
    BY <1>1, <1>2

LEMMA TypeNext == TypeInv /\ [Next]_vars => TypeInv'
  <1> SUFFICES ASSUME TypeInv, [Next]_vars PROVE TypeInv'
    OBVIOUS
  <1>1. CASE UNCHANGED vars
    BY <1>1 DEF vars, TypeInv, TypeOK, OnlyConvertersConvert, LivingApart, TmpIsThere
  <1>2. ASSUME NEW p \in Procs, Step(p) \/ Kill(p) PROVE TypeInv'
    <2>1. TypeOK'
      BY <1>2, Moves, DirectoryType, MemoryType
      DEF TypeInv, TypeOK, Directories, Outcomes, Statuses
    <2>2. OnlyConvertersConvert'
      BY <1>2, Moves DEF TypeInv, OnlyConvertersConvert
    <2>3. LivingApart'
      BY <1>2, Moves DEF TypeInv, LivingApart, Dead
    <2>4. TmpIsThere'
      BY <1>2, TmpStays
    <2> QED
      BY <2>1, <2>3, <2>2, <2>4 DEF TypeInv
  <1> QED
    BY <1>1, <1>2 DEF Next

\* The variables of ConvertFile keep their types, whatever the processes do.
THEOREM TypeCorrect == Spec => []TypeOK
  BY TypeInit, TypeNext, PTL DEF Spec, TypeInv

--------------------------------------------------------------------------------
(* Every file keeps a complete copy.                                        *)

DistinctNames == \A p, q \in Procs : p # q => tmp(p) # tmp(q)

\* What is in place is complete ...
InPlace == \A f \in Files : Present(f) => IsCopy(dir[f], f)

\* ... so is what a process converts ...
Converting == {"precheck", "create", "convert", "close", "remove", "rename"}
WhatIsOpen == \A p \in Procs : pc[p] \in Converting => IsCopy(in[p], filename[p])

\* ... and so is, from the closing of the streams to the renaming, what it has made.
IsMade(p)  == Present(tmp(p)) /\ IsCopy(dir[tmp(p)], filename[p])
WhatIsMade == \A p \in Procs : pc[p] \in {"remove"} \cup Takers => IsMade(p)

CopyInv == InPlace /\ WhatIsOpen /\ WhatIsMade /\ AbsentOnlyInTheWindow

\* A process changes no other process's file name or open file, and its own only
\* when it calls stat and fopen.
LEMMA Remembers ==
  ASSUME NEW p \in Procs, TypeOK, Step(p) \/ Kill(p)
  PROVE  /\ \A q \in Procs \ {p} : filename'[q] = filename[q] /\ in'[q] = in[q]
         /\ pc[p] # "idle" => filename'[p] = filename[p]
         /\ pc[p] # "open" => in'[p] = in[p]
  <1>1. CASE Stat(p)
    BY <1>1 DEF Stat, TypeOK
  <1>2. CASE open_to_read(p)
    BY <1>2 DEF open_to_read, TypeOK
  <1> QED
    BY <1>1, <1>2
    DEF Step, Launch, check_write_access, check_one_file, pre_conversion_check, open_to_write,
        Convert, CloseStreams, Discard, RemoveOriginal, RenameTmp, RestoreMode, RestoreOwner,
        RestoreTimes, Exit, Kill

\* The four things a step can do to the directory.
Removes(p) == /\ pc[p] = "remove" /\ pc'[p] = "rename"
              /\ dir' = [dir EXCEPT ![filename[p]] = Absent]
Renames(p) == /\ pc[p] = "rename" /\ pc'[p] = "chmod"
              /\ dir' = [dir EXCEPT ![filename[p]] = dir[tmp(p)], ![tmp(p)] = Absent]
WorksOnTmp(p) == /\ pc[p] \in {"create", "close", "discard"}
                 /\ \A n \in Names \ {tmp(p)} : dir'[n] = dir[n]

LEMMA Effects ==
  ASSUME NEW p \in Procs, TypeInv, Step(p) \/ Kill(p)
  PROVE  SameTexts \/ WorksOnTmp(p) \/ Removes(p) \/ Renames(p)
  <1> /\ filename[p] \in Files /\ tmp(p) \in Names /\ dir \in Directories /\ pc \in [Procs -> Places]
    BY NamesAssumption DEF TypeInv, TypeOK, Names, Directories
  <1>1. CASE UNCHANGED dir
    BY <1>1 DEF SameTexts
  <1>2. CASE check_one_file(p) \/ pre_conversion_check(p) \/ Convert(p)
    BY <1>2, Reading DEF check_one_file, pre_conversion_check, Convert
  <1>3. CASE open_to_write(p) \/ CloseStreams(p) \/ Discard(p)
    BY <1>1, <1>3 DEF open_to_write, CloseStreams, Discard, Directories, WorksOnTmp
  <1>4. CASE RemoveOriginal(p)
    BY <1>1, <1>4 DEF RemoveOriginal, Removes, Goto
  <1>5. CASE RenameTmp(p)
    BY <1>1, <1>5 DEF RenameTmp, Renames, Goto
  <1>6. CASE RestoreMode(p) \/ RestoreOwner(p) \/ RestoreTimes(p)
    BY <1>6, Restoring DEF TypeInv
  <1> QED
    BY <1>1, <1>2, <1>3, <1>4, <1>5, <1>6
    DEF Step, Launch, Stat, check_write_access, open_to_read, Exit, Kill

LEMMA CopyInit == Init => CopyInv
  <1> SUFFICES ASSUME Init PROVE CopyInv
    OBVIOUS
  <1>1. \A f \in Files : /\ f \in Names /\ dir[f] = original[f]
                         /\ IsCopy(original[f], f)
    BY DEF Init, Names, UserFile, IsCopy
  <1>2. \A f \in Files : original[f] \in Inode
    BY KindAssumption DEF Init, UserFile, Inode, Text, Meta
  <1> QED
    BY <1>1, <1>2, AbsentAssumption
    DEF Init, CopyInv, InPlace, WhatIsOpen, WhatIsMade, AbsentOnlyInTheWindow, Converting

LEMMA CopyNext ==
  ASSUME DistinctNames, ~ May("close"), TypeInv, CopyInv, [Next]_vars
  PROVE  CopyInv'
  <1>1. CASE UNCHANGED vars
    BY <1>1 DEF vars, CopyInv, InPlace, WhatIsOpen, WhatIsMade, AbsentOnlyInTheWindow,
                HasTaken, IsCopy, IsMade, Converting
  <1>2. ASSUME NEW p \in Procs, Step(p) \/ Kill(p) PROVE CopyInv'
    <2> /\ filename \in [Procs -> Files] /\ dir \in Directories /\ dir' \in Directories
        /\ pc \in [Procs -> Places]
        /\ \A q \in Procs : tmp(q) \in Names /\ tmp(q) \notin Files
        /\ Files \subseteq Names
      BY <1>2, NamesAssumption, DirectoryType DEF TypeInv, TypeOK, Names, Directories
    <2> \A q \in Procs \ {p} : tmp(q) # tmp(p)
      BY DEF DistinctNames
    <2> USE DEF TypeInv
    <2>1. InPlace'
      <3> SUFFICES ASSUME NEW f \in Files, Present(f)' PROVE IsCopy(dir'[f], f)
        BY DEF InPlace, IsCopy
      <3>1. CASE Renames(p)
        BY <3>1 DEF Renames, CopyInv, InPlace, WhatIsMade, IsMade, Directories, IsCopy
      <3>2. CASE SameTexts
        BY <3>2 DEF SameTexts, CopyInv, InPlace, IsCopy
      <3>3. CASE WorksOnTmp(p) \/ Removes(p)
        BY <3>3 DEF WorksOnTmp, Removes, CopyInv, InPlace, Directories
      <3> QED
        BY <1>2, <3>1, <3>2, <3>3, Effects
    <2>2. WhatIsOpen'
      <3> SUFFICES ASSUME NEW q \in Procs, pc'[q] \in Converting
                   PROVE  IsCopy(in'[q], filename'[q])
        BY DEF WhatIsOpen, IsCopy
      <3> USE DEF Converting
      <3>1. CASE q # p
        BY <1>2, <3>1, Moves, Remembers DEF CopyInv, WhatIsOpen
      <3>2. CASE q = p /\ pc'[p] = "precheck"
        <4>1. open_to_read(p)
          BY <1>2, <3>2 DEF Step, Launch, Stat, check_write_access, check_one_file,
             pre_conversion_check, open_to_write, Convert, CloseStreams, Discard, RemoveOriginal,
             RenameTmp, RestoreMode, RestoreOwner, RestoreTimes, Exit, Kill, Goto, Return
        <4>2. /\ Present(filename[p]) /\ in' = [in EXCEPT ![p] = dir[filename[p]]]
              /\ filename' = filename
          BY <3>2, <4>1 DEF open_to_read, Return, Goto
        <4> QED
          BY <3>2, <4>2 DEF CopyInv, InPlace, TypeOK
      <3>3. CASE q = p /\ pc'[p] # "precheck"
        BY <1>2, <3>3, Moves, Remembers DEF CopyInv, WhatIsOpen
      <3> QED
        BY <3>1, <3>2, <3>3
    <2>3. WhatIsMade'
      <3> SUFFICES ASSUME NEW q \in Procs, pc'[q] \in {"remove"} \cup Takers
                   PROVE  Present(tmp(q))' /\ IsCopy(dir'[tmp(q)], filename'[q])
        BY DEF WhatIsMade, IsMade, IsCopy
      <3> USE DEF IsMade
      <3>1. CASE q = p /\ pc'[p] = "remove"
        <4>1. pc[p] = "close"
          BY <1>2, <3>1, Moves
        <4>2. CloseStreams(p) /\ report[p] = "ok"
          BY <1>2, <3>1, <4>1 DEF Step, Launch, Stat, check_write_access, open_to_read,
             check_one_file, pre_conversion_check, open_to_write, Convert, CloseStreams, Discard,
             RemoveOriginal, RenameTmp, RestoreMode, RestoreOwner, RestoreTimes, Exit, Kill, Goto
        <4>3. Completed(p)
          BY <4>1, <4>2, Closing DEF TmpIsThere, OnlyConvertersConvert
        <4>4. IsCopy(in[p], filename[p]) /\ filename'[p] = filename[p]
          BY <1>2, <4>1, Remembers DEF CopyInv, WhatIsOpen, Converting
        <4> QED
          BY <3>1, <4>3, <4>4, AbsentAssumption DEF Completed, IsCopy, Directories
      <3>2. CASE ~ (q = p /\ pc'[p] = "remove")
        <4>1. /\ pc[q] \in {"remove"} \cup Takers /\ filename'[q] = filename[q]
              /\ q = p => pc[p] = "remove" \/ pc'[p] \in {"aborted", "stranded"}
          BY <1>2, <3>2, Moves, Remembers
        <4>2. Present(tmp(q)) /\ IsCopy(dir[tmp(q)], filename[q])
          BY <4>1 DEF CopyInv, WhatIsMade
        <4>3. CASE SameTexts
          BY <4>1, <4>2, <4>3 DEF SameTexts, IsCopy
        <4>4. CASE WorksOnTmp(p) \/ Removes(p) \/ Renames(p)
          BY <4>1, <4>2, <4>4 DEF WorksOnTmp, Removes, Renames, Directories
        <4> QED
          BY <1>2, <4>3, <4>4, Effects
      <3> QED
        BY <3>1, <3>2
    <2>4. AbsentOnlyInTheWindow'
      <3> SUFFICES ASSUME NEW f \in Files, ~ Present(f)' PROVE \E q \in Procs : HasTaken(q, f)'
        BY DEF AbsentOnlyInTheWindow
      <3>1. CASE Present(f)
        <4>1. Removes(p) /\ f = filename[p]
          <5>1. CASE Renames(p)
            BY <3>1, <5>1 DEF Renames, CopyInv, WhatIsMade, IsMade, Directories
          <5>2. CASE SameTexts \/ WorksOnTmp(p)
            BY <3>1, <5>2 DEF SameTexts, WorksOnTmp
          <5>3. CASE Removes(p)
            BY <3>1, <5>3 DEF Removes, Directories
          <5> QED
            BY <1>2, <5>1, <5>2, <5>3, Effects
        <4>2. Present(tmp(p))' /\ IsCopy(dir'[tmp(p)], f)
          BY <4>1 DEF Removes, CopyInv, WhatIsMade, IsMade, Directories
        <4>3. filename'[p] = f
          BY <1>2, <4>1, Remembers DEF Removes
        <4>4. HasTaken(p, f)'
          BY <4>1, <4>2, <4>3 DEF HasTaken, Removes, IsCopy
        <4> QED
          BY <4>4
      <3>2. CASE ~ Present(f)
        <4> PICK q \in Procs : HasTaken(q, f)
          BY <3>2 DEF CopyInv, AbsentOnlyInTheWindow
        <4>1. CASE q # p
          <5>1. pc'[q] = pc[q] /\ filename'[q] = filename[q]
            BY <1>2, <4>1, Moves, Remembers
          <5>2. Present(tmp(q))' /\ IsCopy(dir'[tmp(q)], f)
            <6>1. CASE SameTexts
              BY <6>1 DEF SameTexts, HasTaken, IsCopy
            <6>2. CASE WorksOnTmp(p) \/ Removes(p) \/ Renames(p)
              BY <4>1, <6>2 DEF WorksOnTmp, Removes, Renames, Directories, HasTaken
            <6> QED
              BY <1>2, <6>1, <6>2, Effects
          <5>3. HasTaken(q, f)'
            BY <5>1, <5>2 DEF HasTaken, IsCopy
          <5> QED
            BY <5>3
        <4>2. CASE q = p
          <5>1. pc[p] = "rename" /\ filename[p] = f
            BY <1>2, <4>2, Moves DEF HasTaken, Dead
          <5>2. RenameTmp(p) \/ Kill(p)
            BY <1>2, <5>1 DEF Step, Launch, Stat, check_write_access, open_to_read,
               check_one_file, pre_conversion_check, open_to_write, Convert, CloseStreams, Discard,
               RemoveOriginal, RestoreMode, RestoreOwner, RestoreTimes, Exit
          <5>3. ~ Renames(p)
            BY <3>2, <4>2, <5>1 DEF Renames, HasTaken, Directories
          <5>4. UNCHANGED <<dir, filename>> /\ pc'[p] \in {"aborted", "stranded"}
            BY <5>1, <5>2, <5>3 DEF RenameTmp, Kill, Renames, Goto
          <5>5. HasTaken(p, f)'
            BY <4>2, <5>4 DEF HasTaken, IsCopy
          <5> QED
            BY <5>5
        <4> QED
          BY <4>1, <4>2
      <3> QED
        BY <3>1, <3>2
    <2> QED
      BY <2>1, <2>3, <2>2, <2>4 DEF CopyInv
  <1> QED
    BY <1>1, <1>2 DEF Next

LEMMA CopyInvSuffices == ASSUME TypeOK, CopyInv PROVE DataSurvives
  <1> SUFFICES ASSUME NEW f \in Files PROVE \E n \in Names : Present(n) /\ IsCopy(dir[n], f)
    BY DEF DataSurvives
  <1>1. CASE Present(f)
    BY <1>1 DEF CopyInv, InPlace, Names
  <1>2. CASE ~ Present(f)
    BY <1>2, NamesAssumption DEF CopyInv, AbsentOnlyInTheWindow, HasTaken, Names
  <1> QED
    BY <1>1, <1>2

\* Whatever the number of processes and of files, the command lines, the failures
\* and the kills: at every moment there is a complete copy of every file.
THEOREM DataAlwaysSurvives ==
  ASSUME DistinctNames, ~ May("close")
  PROVE  Spec => []DataSurvives
  <1>1. Init => TypeInv /\ CopyInv
    BY TypeInit, CopyInit
  <1>2. TypeInv /\ CopyInv /\ [Next]_vars => (TypeInv /\ CopyInv)'
    BY TypeNext, CopyNext
  <1>3. TypeInv /\ CopyInv => DataSurvives
    BY CopyInvSuffices DEF TypeInv
  <1> QED
    BY <1>1, <1>2, <1>3, PTL DEF Spec

\* And a file that is not in its place is complete under the temporary name of a
\* process that was about to rename it.
THEOREM AbsenceIsExplained ==
  ASSUME DistinctNames, ~ May("close")
  PROVE  Spec => []AbsentOnlyInTheWindow
  <1>1. Init => TypeInv /\ CopyInv
    BY TypeInit, CopyInit
  <1>2. TypeInv /\ CopyInv /\ [Next]_vars => (TypeInv /\ CopyInv)'
    BY TypeNext, CopyNext
  <1>3. CopyInv => AbsentOnlyInTheWindow
    BY DEF CopyInv
  <1> QED
    BY <1>1, <1>2, <1>3, PTL DEF Spec

--------------------------------------------------------------------------------
(***************************************************************************)
(* The proof that ConvertFile implements SafeReplace, for any processes,   *)
(* files, command lines and faults but a failing fclose, provided that the *)
(* processes have different temporary names.                               *)
(***************************************************************************)
\* What is renamed is the conversion of what was read ...
MadeOfRead ==
  \A p \in Procs :
    pc[p] \in {"remove", "rename"} =>
      dir[tmp(p)].text.kind = converted(in[p].text.kind, invocation[p])

\* ... and a file that was taken is away, and was taken once.
TakenOnce ==
  \A p \in Procs :
    pc[p] \in Takers =>
      /\ ~ Present(filename[p])
      /\ \A q \in Procs \ {p} : pc[q] \in Takers => filename[q] # filename[p]

RefinementInv == TypeInv /\ CopyInv /\ MadeOfRead /\ TakenOnce


\* Who is a taker, what was taken and what was read stays so, except in three steps.
LEMMA TakerMoves ==
  ASSUME NEW p \in Procs, TypeInv, Step(p) \/ Kill(p)
  PROVE  \/ Removes(p) /\ UNCHANGED <<filename, in, invocation>> /\ Present(filename[p])
         \/ Renames(p) /\ UNCHANGED <<filename, in, invocation>>
         \/ /\ ~ Removes(p) /\ ~ Renames(p)
            /\ pc'[p] \in Takers <=> pc[p] \in Takers
            /\ pc[p] \in Takers => filename'[p] = filename[p] /\ UNCHANGED <<dir, in>>
            /\ \A f \in Files : /\ Present(f)' <=> Present(f)
                                /\ Present(f) => dir'[f].text = dir[f].text
  <1> /\ filename[p] \in Files /\ tmp(p) \in Names /\ tmp(p) \notin Files /\ Files \subseteq Names
      /\ dir \in Directories /\ pc \in [Procs -> Places]
    BY NamesAssumption DEF TypeInv, TypeOK, Names, Directories
  <1> DEFINE Quiet == \A f \in Files : /\ Present(f)' <=> Present(f)
                                       /\ Present(f) => dir'[f].text = dir[f].text
  <1>1. CASE RemoveOriginal(p)
    <2>1. CASE UNCHANGED dir
      BY <1>1, <2>1 DEF RemoveOriginal, Goto, Removes, Renames
    <2>2. CASE Present(filename[p]) /\ Goto(p, "rename") /\ dir' = [dir EXCEPT ![filename[p]] = Absent]
      BY <1>1, <2>2 DEF RemoveOriginal, Goto, Removes
    <2> QED
      BY <1>1, <2>1, <2>2 DEF RemoveOriginal
  <1>2. CASE RenameTmp(p)
    <2>1. CASE RenameFails(p)
      BY <1>2, <2>1 DEF RenameTmp, RenameFails, Goto, Removes, Renames
    <2>2. CASE ~ RenameFails(p)
      BY <1>2, <2>2 DEF RenameTmp, Goto, Renames
    <2> QED
      BY <2>1, <2>2
  <1>3. CASE Kill(p)
    BY <1>3 DEF Kill, Goto, Removes, Renames, Working
  <1>4. CASE Step(p) /\ ~ RemoveOriginal(p) /\ ~ RenameTmp(p)
    <2>1. pc[p] \notin {"remove", "rename"}
      BY <1>4 DEF Step, Launch, Stat, check_write_access, open_to_read, check_one_file,
         pre_conversion_check, open_to_write, Convert, CloseStreams, Discard, RestoreMode,
         RestoreOwner, RestoreTimes, Exit
    <2>2. pc[p] \notin Takers /\ pc'[p] \notin Takers
      BY <1>4, <2>1, Moves DEF TypeInv, Dead
    <2>3. Quiet
      BY <1>4, <2>1, Effects DEF SameTexts, WorksOnTmp, Removes, Renames
    <2> QED
      BY <2>1, <2>2, <2>3 DEF Removes, Renames
  <1> QED
    BY <1>1, <1>2, <1>3, <1>4

LEMMA RefinementInit == Init => RefinementInv
  BY TypeInit, CopyInit DEF Init, RefinementInv, MadeOfRead, TakenOnce

LEMMA MadeOfReadNext ==
  ASSUME DistinctNames, ~ May("close"), RefinementInv, NEW p \in Procs, Step(p) \/ Kill(p)
  PROVE  MadeOfRead'
  <1> SUFFICES ASSUME NEW q \in Procs, pc'[q] \in {"remove", "rename"}
               PROVE  dir'[tmp(q)].text.kind = converted(in'[q].text.kind, invocation'[q])
    BY DEF MadeOfRead
  <1> USE DEF RefinementInv, TypeInv
  <1> /\ dir \in Directories /\ pc \in [Procs -> Places] /\ filename[p] \in Files
      /\ tmp(q) \in Names /\ tmp(q) \notin Files
      /\ tmp(p) \in Names
    BY NamesAssumption DEF TypeOK, Names, Directories
  <1>1. CASE q = p /\ pc'[p] = "remove"
    <2>1. pc[p] = "close"
      BY <1>1, Moves
    <2>2. CloseStreams(p) /\ report[p] = "ok"
      BY <1>1, <2>1 DEF Step, Launch, Stat, check_write_access, open_to_read,
         check_one_file, pre_conversion_check, open_to_write, Convert, CloseStreams, Discard,
         RemoveOriginal, RenameTmp, RestoreMode, RestoreOwner, RestoreTimes, Exit, Kill, Goto
    <2>3. Completed(p)
      BY <2>1, <2>2, Closing DEF TmpIsThere, OnlyConvertersConvert
    <2>4. in'[p] = in[p] /\ invocation' = invocation
      BY <2>1, Moves, Remembers
    <2> QED
      BY <1>1, <2>3, <2>4 DEF Completed, Directories
  <1>2. CASE ~ (q = p /\ pc'[p] = "remove")
    <2>1. /\ pc[q] \in {"remove", "rename"} /\ in'[q] = in[q] /\ invocation' = invocation
          /\ q = p => pc[p] = "remove" /\ pc'[p] = "rename"
      BY <1>2, Moves, Remembers
    <2>2. Present(tmp(q)) /\ dir[tmp(q)].text.kind = converted(in[q].text.kind, invocation[q])
      BY <2>1 DEF MadeOfRead, CopyInv, WhatIsMade, IsMade
    <2>3. CASE SameTexts
      BY <2>1, <2>2, <2>3 DEF SameTexts
    <2>4. CASE WorksOnTmp(p) \/ Removes(p) \/ Renames(p)
      BY <2>1, <2>2, <2>4 DEF WorksOnTmp, Removes, Renames, Directories, DistinctNames
    <2> QED
      BY <2>3, <2>4, Effects
  <1> QED
    BY <1>1, <1>2

LEMMA TakenOnceNext ==
  ASSUME RefinementInv, NEW p \in Procs, Step(p) \/ Kill(p)
  PROVE  TakenOnce'
  <1> USE DEF RefinementInv
  <1> /\ dir \in Directories /\ filename \in [Procs -> Files] /\ Files \subseteq Names
      /\ \A q \in Procs : tmp(q) \notin Files
    BY NamesAssumption DEF TypeInv, TypeOK, Names, Directories
  <1>1. \A q \in Procs \ {p} : pc'[q] = pc[q] /\ filename'[q] = filename[q]
    BY Moves, Remembers DEF TypeInv
  <1>2. CASE Removes(p) /\ UNCHANGED <<filename, in, invocation>> /\ Present(filename[p])
    <2>1. \A q \in Procs : pc[q] \in Takers => filename[q] # filename[p]
      BY <1>2 DEF TakenOnce
    <2>2. \A f \in Files : Present(f)' <=> Present(f) /\ f # filename[p]
      BY <1>2 DEF Removes, Directories
    <2> QED
      BY <1>1, <1>2, <2>1, <2>2 DEF TakenOnce
  <1>3. CASE Renames(p) /\ UNCHANGED <<filename, in, invocation>>
    <2>1. \A q \in Procs \ {p} : pc[q] \in Takers => filename[q] # filename[p]
      BY <1>3 DEF TakenOnce, Renames
    <2>2. \A f \in Files \ {filename[p]} : dir'[f] = dir[f]
      BY <1>3 DEF Renames, Directories
    <2>3. pc'[p] \notin Takers
      BY <1>3 DEF Renames
    <2> QED
      BY <1>1, <1>3, <2>1, <2>2, <2>3 DEF TakenOnce
  <1>4. CASE /\ pc'[p] \in Takers <=> pc[p] \in Takers
             /\ pc[p] \in Takers => filename'[p] = filename[p]
             /\ \A f \in Files : Present(f)' <=> Present(f)
    BY <1>1, <1>4 DEF TakenOnce
  <1> QED
    BY <1>2, <1>3, <1>4, TakerMoves

LEMMA RefinementNext ==
  ASSUME DistinctNames, ~ May("close"), RefinementInv, [Next]_vars
  PROVE  RefinementInv'
  <1>1. TypeInv' /\ CopyInv'
    BY TypeNext, CopyNext DEF RefinementInv
  <1>2. CASE UNCHANGED vars
    BY <1>1, <1>2 DEF vars, RefinementInv, MadeOfRead, TakenOnce
  <1>3. CASE Next
    BY <1>1, <1>3, MadeOfReadNext, TakenOnceNext DEF Next, RefinementInv
  <1> QED
    BY <1>2, <1>3

--------------------------------------------------------------------------------
(* The refinement: initial states, then steps.                              *)

LEMMA ImplementsInit == Init => Abstract!Init
  <1> SUFFICES ASSUME Init PROVE Abstract!Init
    OBVIOUS
  <1>1. ASSUME NEW p \in Procs
        PROVE  read[p].of \in Files /\ read[p].kind = content[read[p].of]
    <2>1. filename[p] \in Files
      BY NamesAssumption DEF Init
    <2>2. in[p] = original[filename[p]] /\ dir[filename[p]] = original[filename[p]]
      BY <2>1 DEF Init, Names
    <2>3. /\ original[filename[p]].text.of = filename[p]
          /\ original[filename[p]] \in Inode
      BY <2>1, KindAssumption DEF Init, UserFile, Inode, Text, Meta
    <2> QED
      BY <2>1, <2>3, <2>2, AbsentAssumption DEF read, content
  <1>2. taken = [p \in Procs |-> Absent]
    BY DEF Init, taken
  <1> QED
    BY <1>1, <1>2 DEF Abstract!Init

\* The two definitions of what a conversion makes are one: the copy of Endlines that
\* comes with SafeReplace says the same.
LEMMA SameConversion ==
  ASSUME NEW kind, NEW inv
  PROVE  Abstract!converted(kind, inv) = converted(kind, inv)
  BY DEF Abstract!converted, converted

\* content follows the texts of the directory.
LEMMA ContentOf ==
  ASSUME TypeOK, NEW f \in Files
  PROVE  /\ ~ Present(f) => content[f] = Absent
         /\ Present(f) => content[f] = dir[f].text.kind /\ content[f] # Absent
  <1>1. Present(f) => dir[f] \in Inode
    BY DEF TypeOK, Names
  <1> QED
    BY <1>1, AbsentAssumption DEF content, Inode, Text

LEMMA QuietIsStuttering ==
  ASSUME \A f \in Files : /\ Present(f)' <=> Present(f)
                          /\ Present(f) => dir'[f].text = dir[f].text
  PROVE  content' = content
  BY DEF content

LEMMA ReadStays ==
  ASSUME in' = in
  PROVE  read' = read
  BY DEF read

\* fopen reads the file that is in place.
LEMMA OpeningReads ==
  ASSUME RefinementInv, NEW p \in Procs, open_to_read(p), in' # in
  PROVE  Abstract!Read(p)
  <1> DEFINE f == filename[p]
  <1>1. pc[p] = "open" /\ Present(f) /\ in' = [in EXCEPT ![p] = dir[f]] /\ UNCHANGED <<dir, filename, given>>
    BY DEF open_to_read
  <1>2. f \in Files /\ in \in [Procs -> Inode] /\ pc \in [Procs -> Places] /\ TypeOK
    BY DEF RefinementInv, TypeInv, TypeOK
  <1>3. dir[f].text.of = f
    BY <1>1, <1>2 DEF RefinementInv, CopyInv, InPlace, IsCopy
  <1>4. content[f] = dir[f].text.kind /\ content[f] # Absent
    BY <1>1, <1>2, ContentOf
  <1>5. read' = [read EXCEPT ![p] = [of |-> f, kind |-> content[f]]]
    <2>1. in'[p] = dir[f] /\ \A q \in Procs \ {p} : in'[q] = in[q]
      BY <1>1, <1>2
    <2> QED
      BY <2>1, <1>3, <1>4 DEF read
  <1>6. content' = content
    BY <1>1 DEF content
  <1>7. pc'[p] \notin Takers /\ \A q \in Procs \ {p} : pc'[q] = pc[q]
    BY <1>1, <1>2, Moves, TakerMoves DEF Step, RefinementInv, Removes, Renames
  <1>8. taken[p] = Absent /\ taken' = taken
    BY <1>1, <1>7 DEF taken
  <1> HIDE DEF f
  <1> QED
    BY <1>1, <1>2, <1>4, <1>5, <1>6, <1>8 DEF Abstract!Read

\* The removal takes the file away ...
LEMMA RemovingTakes ==
  ASSUME RefinementInv, NEW p \in Procs, Step(p) \/ Kill(p),
         Removes(p), UNCHANGED <<filename, in, invocation>>, Present(filename[p])
  PROVE  Abstract!Take(p)
  <1> DEFINE f == filename[p]
  <1>1. /\ f \in Files /\ pc \in [Procs -> Places] /\ TypeOK /\ dir \in Directories
        /\ f \in Names /\ Files \subseteq Names
    BY DEF RefinementInv, TypeInv, TypeOK, Names, Directories
  <1>2. read[p].of = f
    BY DEF Removes, RefinementInv, CopyInv, WhatIsOpen, Converting, IsCopy, read
  <1>3. taken[p] = Absent
    BY DEF Removes, taken
  <1>4. content[f] # Absent
    BY <1>1, ContentOf
  <1>5. content' = [content EXCEPT ![f] = Absent]
    <2>1. dir'[f] = Absent /\ \A g \in Files \ {f} : dir'[g] = dir[g]
      BY <1>1 DEF Removes, Directories
    <2> QED
      BY <2>1 DEF content
  <1>6. taken' = [taken EXCEPT ![p] = f]
    <2>1. \A q \in Procs \ {p} : pc'[q] = pc[q]
      BY Moves DEF RefinementInv, TypeInv
    <2> QED
      BY <2>1 DEF taken, Removes
  <1>7. read' = read
    BY ReadStays
  <1> HIDE DEF f
  <1> QED
    BY <1>2, <1>3, <1>4, <1>5, <1>6, <1>7 DEF Abstract!Take

\* ... and the renaming puts its conversion back.
LEMMA RenamingPutsBack ==
  ASSUME RefinementInv, NEW p \in Procs, Step(p) \/ Kill(p),
         Renames(p), UNCHANGED <<filename, in, invocation>>
  PROVE  Abstract!PutBack(p)
  <1> DEFINE f == filename[p]
             kind == converted(in[p].text.kind, invocation[p])
  <1>1. /\ f \in Files /\ pc \in [Procs -> Places] /\ TypeOK /\ dir \in Directories
        /\ tmp(p) \in Names /\ tmp(p) \notin Files /\ Files \subseteq Names
    BY NamesAssumption DEF RefinementInv, TypeInv, TypeOK, Names, Directories
  <1>2. taken[p] = f /\ f # Absent
    BY <1>1, AbsentAssumption DEF Renames, taken
  <1>3. read[p].of = f /\ read[p].kind = in[p].text.kind
    BY DEF Renames, RefinementInv, CopyInv, WhatIsOpen, Converting, IsCopy, read
  <1>4. content[f] = Absent
    BY <1>1, ContentOf DEF Renames, RefinementInv, TakenOnce
  <1>5. Present(tmp(p)) /\ dir[tmp(p)].text.kind = kind
    BY DEF Renames, RefinementInv, CopyInv, WhatIsMade, IsMade, MadeOfRead
  <1>6. content' = [content EXCEPT ![f] = kind]
    <2>1. dir'[f] = dir[tmp(p)] /\ \A g \in Files \ {f} : dir'[g] = dir[g]
      BY <1>1 DEF Renames, Directories
    <2> HIDE DEF kind
    <2> QED
      BY <1>5, <2>1 DEF content
  <1>7. taken' = [taken EXCEPT ![p] = Absent]
    <2>1. \A q \in Procs \ {p} : pc'[q] = pc[q]
      BY Moves DEF RefinementInv, TypeInv
    <2> QED
      BY <2>1 DEF taken, Renames
  <1>8. read' = read
    BY ReadStays
  <1>9. kind = Abstract!converted(read[p].kind, invocation[p])
    BY <1>3, SameConversion
  <1> HIDE DEF f, kind
  <1> QED
    BY <1>2, <1>3, <1>4, <1>6, <1>7, <1>8, <1>9 DEF Abstract!PutBack

LEMMA ImplementsNext ==
  ASSUME RefinementInv, [Next]_vars
  PROVE  [Abstract!Next]_Abstract!vars
  <1>1. CASE UNCHANGED vars
    BY <1>1 DEF vars, Abstract!vars, content, read, taken
  <1>2. ASSUME NEW p \in Procs, Step(p) \/ Kill(p)
        PROVE  Abstract!Next \/ UNCHANGED Abstract!vars
    <2>1. CASE Removes(p) /\ UNCHANGED <<filename, in, invocation>> /\ Present(filename[p])
      BY <1>2, <2>1, RemovingTakes DEF Abstract!Next
    <2>2. CASE Renames(p) /\ UNCHANGED <<filename, in, invocation>>
      BY <1>2, <2>2, RenamingPutsBack DEF Abstract!Next
    <2>3. CASE open_to_read(p) /\ in' # in
      BY <2>3, OpeningReads DEF Abstract!Next
    <2>4. CASE /\ in' = in
               /\ pc'[p] \in Takers <=> pc[p] \in Takers
               /\ pc[p] \in Takers => filename'[p] = filename[p]
               /\ \A f \in Files : /\ Present(f)' <=> Present(f)
                                   /\ Present(f) => dir'[f].text = dir[f].text
      <3>1. \A q \in Procs \ {p} : pc'[q] = pc[q] /\ filename'[q] = filename[q]
        BY <1>2, Moves, Remembers DEF RefinementInv, TypeInv
      <3>2. taken' = taken
        BY <2>4, <3>1 DEF taken
      <3>3. read' = read /\ content' = content /\ invocation' = invocation
        BY <1>2, <2>4, Moves, ReadStays, QuietIsStuttering DEF RefinementInv, TypeInv
      <3> QED
        BY <3>2, <3>3 DEF Abstract!vars
    <2>5. in' = in \/ open_to_read(p)
      BY <1>2 DEF Step, Launch, Stat, check_write_access, check_one_file, pre_conversion_check,
         open_to_write, Convert, CloseStreams, Discard, RemoveOriginal, RenameTmp, RestoreMode,
         RestoreOwner, RestoreTimes, Exit, Kill
    <2> QED
      BY <1>2, <2>1, <2>3, <2>2, <2>4, <2>5, TakerMoves DEF RefinementInv
  <1> QED
    BY <1>1, <1>2 DEF Next

\* Whatever the processes, the files, the command lines, the failures and the kills:
\* what happens to the files is what SafeReplace allows.
THEOREM ImplementsSafeReplace ==
  ASSUME DistinctNames, ~ May("close")
  PROVE  Spec => ReplacesSafely
  <1>1. Init => RefinementInv /\ Abstract!Init
    BY RefinementInit, ImplementsInit
  <1>2. RefinementInv /\ [Next]_vars => RefinementInv'
    BY RefinementNext
  <1>3. RefinementInv /\ [Next]_vars => [Abstract!Next]_Abstract!vars
    BY ImplementsNext
  <1> QED
    BY <1>1, <1>2, <1>3, PTL DEF Spec, ReplacesSafely, Abstract!Spec

--------------------------------------------------------------------------------
(***************************************************************************)
(* Proofs about the files that are not replaced, for any processes, files, *)
(* command lines and faults: those that every process has a reason to      *)
(* spare, and those for which a process returns anything else than DONE.   *)
(***************************************************************************)

\* A process has a reason to spare a file: its extension, its control characters, or
\* that it is already as wanted.
Spares(p, f) ==
  \/ KnownBinary(p, f)
  \/ IsUnwantedBinary(original[f].text.kind, invocation[p])
  \/ NothingToDo(original[f].text.kind, invocation[p])

Spared(f) == \A p \in Procs : Converts(p) => Spares(p, f)

\* A text without line endings has no final one.
EndedHasEndings ==
  \A f \in Files : original[f].text.kind.eol => original[f].text.kind.endings # {}

\* A process that works on a spared file works on the original text; if the extension
\* did not stop it, the dry scan will, and else the control characters.
Halts(p, f) ==
  /\ pc[p] \in Working => ~ KnownBinary(p, f)
  /\ pc[p] \in {"precheck", "create", "convert", "close"} => in[p].text = original[f].text
  /\ pc[p] \in {"create", "convert", "close"} =>
       ~ NothingToDo(original[f].text.kind, invocation[p])
  /\ pc[p] = "close" => report[p] # "ok"
  /\ pc[p] \notin {"remove", "rename"}

SparedInv ==
  \A f \in Files :
    Spared(f) =>
      /\ Present(f) /\ dir[f].by = "user" /\ dir[f].text = original[f].text
      /\ \A p \in Procs : filename[p] = f => Halts(p, f)

\* The dry scan of a file that is as wanted reads it to the end and sees it.
LEMMA NothingToDoIsSeen ==
  ASSUME NEW kind \in Kind, NEW inv \in Command, inv.dst_convention # "NO_CONVENTION",
         NothingToDo(kind, inv), kind.eol => kind.endings # {},
         NEW scan \in scan_reports(kind, inv)
  PROVE  pre_conversion_verdict(scan, inv) # "CAN_CONTINUE"
  <1>1. scan = report_of(kind.binary, kind.eol, kind.endings)
    <2>1. Foreign(kind, inv) = {}
      BY DEF NothingToDo, Foreign
    <2>2. ~ IsUnwantedBinary(kind, inv)
      BY DEF NothingToDo, IsUnwantedBinary
    <2>3. scan_reports(kind, inv) = {report_of(kind.binary, kind.eol, kind.endings)}
      BY <2>1, <2>2 DEF scan_reports
    <2> QED
      BY <2>3
  <1> DEFINE dst == inv.dst_convention
             met == {c \in LineEndings : scan.count_by_convention[c] > 0}
  <1>2. dst \in LineEndings /\ kind.endings \subseteq LineEndings
    BY DEF Command, Targets, Kind
  <1>3. met = kind.endings
    <2>1. \A c \in LineEndings :
            scan.count_by_convention[c] = IF c \in kind.endings THEN 1 ELSE 0
      BY <1>1 DEF report_of
    <2> QED
      BY <1>2, <2>1
  <1>4. kind.endings = {} \/ kind.endings = {dst}
    BY DEF NothingToDo
  <1>5. get_source_convention(scan.count_by_convention) =
          IF kind.endings = {} THEN "NO_CONVENTION" ELSE dst
    BY <1>2, <1>3, <1>4 DEF get_source_convention
  <1>6. /\ scan.contains_non_text_chars = kind.binary /\ scan.has_final_eol = kind.eol
        /\ scan.error_during_conversion = FALSE
    BY <1>1 DEF report_of
  <1> QED
    BY <1>4, <1>5, <1>6 DEF pre_conversion_verdict, needs_no_conversion, NothingToDo

LEMMA SparedInit == Init => EndedHasEndings /\ SparedInv
  <1> SUFFICES ASSUME Init, NEW f \in Files
               PROVE  /\ original[f].text.kind.eol => original[f].text.kind.endings # {}
                      /\ Present(f) /\ dir[f].by = "user" /\ dir[f].text = original[f].text
                      /\ \A p \in Procs : Halts(p, f)
    BY DEF EndedHasEndings, SparedInv
  <1>1. PICK kinds \in [Files -> Kinds], modes \in [Files -> {"plain", "special"}] :
          original = [g \in Files |-> UserFile(g, kinds[g], modes[g])]
    BY DEF Init
  <1>2. original[f].text.kind \in Kinds /\ original[f].by = "user" /\ original[f] \in Inode
    BY <1>1, KindAssumption DEF UserFile, Inode, Text, Meta
  <1>3. dir[f] = original[f]
    BY DEF Init, Names
  <1>4. \A p \in Procs : pc[p] = "unborn"
    BY DEF Init
  <1> QED
    BY <1>2, <1>3, <1>4, KindAssumption, AbsentAssumption DEF Halts, Working

\* Who is spared is settled when the processes are launched.
LEMMA SparedStays ==
  ASSUME NEW p \in Procs, NEW f \in Files, TypeInv, Step(p) \/ Kill(p)
  PROVE  /\ Spared(f)' <=> Spared(f)
         /\ \A q \in Procs : KnownBinary(q, f)' <=> KnownBinary(q, f)
         /\ EndedHasEndings => EndedHasEndings'
  <1> invocation' = invocation /\ original' = original
    BY Moves DEF TypeInv
  <1> QED
    BY DEF Spared, Spares, EndedHasEndings

\* A process that comes to work on a spared file, or goes on with it, is still halted.
LEMMA HaltsAgain ==
  ASSUME NEW p \in Procs, NEW f \in Files, TypeInv, EndedHasEndings, Spared(f),
         dir[f].text = original[f].text, Present(f),
         filename[p] = f => Halts(p, f), Step(p) \/ Kill(p), filename'[p] = f
  PROVE  Halts(p, f)'
  <1> USE DEF TypeInv
  <1> /\ pc \in [Procs -> Places] /\ filename \in [Procs -> Files] /\ in \in [Procs -> Inode]
      /\ report \in [Procs -> {"ok", "error", "binary"}] /\ original[f] \in Inode
      /\ invocation[p] \in Command
    BY DEF TypeOK
  <1> DEFINE kind == original[f].text.kind
             inv  == invocation[p]
  <1>1. invocation' = invocation /\ original' = original
    BY Moves
  <1>2. kind \in Kind /\ (kind.eol => kind.endings # {})
    BY DEF Inode, Text, EndedHasEndings
  <1>3. CASE Stat(p)
    <2>1. KnownBinary(p, f) => pc'[p] = "idle"
      BY <1>3 DEF Stat, Return, Goto
    <2>2. pc'[p] \in {"idle", "open", "access"}
      BY <1>3 DEF Stat, Return, Goto
    <2> QED
      BY <1>1, <2>1, <2>2 DEF Halts, Working
  <1>4. CASE ~ Stat(p)
    <2>1. filename[p] = f /\ Halts(p, f)
      BY <1>4, Remembers DEF Step, Launch, check_write_access, open_to_read, check_one_file,
         pre_conversion_check, open_to_write, Convert, CloseStreams, Discard, RemoveOriginal,
         RenameTmp, RestoreMode, RestoreOwner, RestoreTimes, Exit, Kill
    <2>2. pc'[p] \in Working => pc[p] \in Working
      BY <1>4 DEF Step, Launch, check_write_access, open_to_read, check_one_file,
         pre_conversion_check, open_to_write, Convert, CloseStreams, Discard, RemoveOriginal,
         RenameTmp, RestoreMode, RestoreOwner, RestoreTimes, Exit, Kill, Goto, Return, Working, Dead
    <2>3. pc'[p] \in {"precheck", "create", "convert", "close"} => in'[p].text = original[f].text
      <3>1. CASE pc'[p] = "precheck"
        <4>1. open_to_read(p)
          BY <1>4, <3>1 DEF Step, Launch, check_write_access, check_one_file,
             pre_conversion_check, open_to_write, Convert, CloseStreams, Discard, RemoveOriginal,
             RenameTmp, RestoreMode, RestoreOwner, RestoreTimes, Exit, Kill, Goto, Return
        <4> QED
          BY <2>1, <3>1, <4>1 DEF open_to_read, Goto, Return
      <3>2. CASE pc'[p] \in {"create", "convert", "close"}
        BY <2>1, <3>2, Moves, Remembers DEF Halts
      <3> QED
        BY <3>1, <3>2
    <2>4. pc'[p] \in {"create", "convert", "close"} => ~ NothingToDo(kind, inv)
      <3>1. CASE pc'[p] = "create"
        <4>1. pc[p] = "precheck"
          BY <3>1, Moves
        <4>2. pre_conversion_check(p)
          BY <1>4, <3>1, <4>1 DEF Step, Launch, check_write_access, open_to_read, check_one_file,
             open_to_write, Convert, CloseStreams, Discard, RemoveOriginal,
             RenameTmp, RestoreMode, RestoreOwner, RestoreTimes, Exit, Kill, Goto, Return
        <4>3. PICK scan \in scan_reports(kind, inv) :
                pre_conversion_verdict(scan, inv) = "CAN_CONTINUE"
          BY <2>1, <3>1, <4>1, <4>2 DEF pre_conversion_check, Halts, Goto, Return
        <4>4. inv.dst_convention # "NO_CONVENTION"
          BY <4>1 DEF OnlyConvertersConvert
        <4> QED
          BY <1>2, <4>3, <4>4, NothingToDoIsSeen
      <3>2. CASE pc'[p] \in {"convert", "close"}
        BY <2>1, <3>2, Moves DEF Halts
      <3> QED
        BY <3>1, <3>2
    <2>5. pc'[p] = "close" => report'[p] # "ok"
      <3> SUFFICES ASSUME pc'[p] = "close" PROVE report'[p] # "ok"
        OBVIOUS
      <3>1. pc[p] = "convert"
        BY Moves
      <3>2. Convert(p)
        BY <1>4, <3>1 DEF Step, Launch, check_write_access, open_to_read, check_one_file,
           pre_conversion_check, open_to_write, CloseStreams, Discard, RemoveOriginal,
           RenameTmp, RestoreMode, RestoreOwner, RestoreTimes, Exit, Kill, Goto, Return
      <3>3. IsUnwantedBinary(kind, inv)
        BY <2>1, <3>1 DEF Spared, Spares, Halts, Working, OnlyConvertersConvert
      <3> QED
        BY <2>1, <3>1, <3>2, <3>3 DEF Convert, Halts
    <2>6. pc'[p] \notin {"remove", "rename"}
      <3>1. pc'[p] # "rename"
        BY <2>1, Moves DEF Halts
      <3>2. ASSUME pc'[p] = "remove" PROVE FALSE
        <4>1. pc[p] = "close"
          BY <3>2, Moves
        <4>2. CloseStreams(p)
          BY <1>4, <3>2, <4>1 DEF Step, Launch, check_write_access, open_to_read, check_one_file,
             pre_conversion_check, open_to_write, Convert, Discard, RemoveOriginal,
             RenameTmp, RestoreMode, RestoreOwner, RestoreTimes, Exit, Kill, Goto, Return
        <4> QED
          BY <2>1, <3>2, <4>1, <4>2 DEF CloseStreams, Halts, Goto
      <3> QED
        BY <3>1, <3>2
    <2> QED
      BY <1>1, <2>1, <2>3, <2>2, <2>4, <2>5, <2>6 DEF Halts
  <1> QED
    BY <1>3, <1>4

LEMMA SparedNext ==
  ASSUME TypeInv, EndedHasEndings, SparedInv, [Next]_vars
  PROVE  EndedHasEndings' /\ SparedInv'
  <1>1. CASE UNCHANGED vars
    <2>1. /\ invocation' = invocation /\ original' = original /\ dir' = dir /\ pc' = pc
          /\ filename' = filename /\ in' = in /\ report' = report
      BY <1>1 DEF vars
    <2> QED
      BY <2>1 DEF EndedHasEndings, SparedInv, Spared, Spares, Halts
  <1>2. ASSUME NEW p \in Procs, Step(p) \/ Kill(p) PROVE EndedHasEndings' /\ SparedInv'
    <2>1. EndedHasEndings'
      BY <1>2, SparedStays, NamesAssumption
    <2>2. ASSUME NEW f \in Files, Spared(f)'
          PROVE  /\ Present(f)' /\ dir'[f].by = "user" /\ dir'[f].text = original'[f].text
                 /\ \A q \in Procs : filename'[q] = f => Halts(q, f)'
      <3>1. Spared(f)
        BY <1>2, <2>2, SparedStays
      <3>2. /\ Present(f) /\ dir[f].by = "user" /\ dir[f].text = original[f].text
            /\ \A q \in Procs : filename[q] = f => Halts(q, f)
        BY <3>1 DEF SparedInv
      <3>3. /\ f \in Names /\ tmp(p) # f /\ dir \in Directories /\ filename[p] \in Files
            /\ original' = original /\ invocation' = invocation
        BY <1>2, NamesAssumption, Moves DEF TypeInv, TypeOK, Names, Directories
      <3>4. Present(f)' /\ dir'[f].by = dir[f].by /\ dir'[f].text = dir[f].text
        <4>1. CASE SameTexts
          BY <3>2, <3>3, <4>1 DEF SameTexts
        <4>2. CASE WorksOnTmp(p)
          BY <3>2, <3>3, <4>2 DEF WorksOnTmp
        <4>3. CASE Removes(p) \/ Renames(p)
          <5>1. filename[p] # f
            BY <3>2, <4>3 DEF Removes, Renames, Halts
          <5> QED
            BY <3>2, <3>3, <4>3, <5>1 DEF Removes, Renames, Directories
        <4> QED
          BY <1>2, <4>1, <4>2, <4>3, Effects
      <3>5. ASSUME NEW q \in Procs, filename'[q] = f PROVE Halts(q, f)'
        <4>1. CASE q = p
          BY <1>2, <3>1, <3>2, <3>5, <4>1, HaltsAgain
        <4>2. CASE q # p
          <5>1. Halts(q, f)
            BY <1>2, <3>2, <3>5, <4>2, Remembers DEF TypeInv
          <5>2. pc'[q] = pc[q] /\ in'[q] = in[q] /\ report'[q] = report[q]
            <6>1. report'[q] = report[q]
              BY <1>2, <4>2 DEF Step, Launch, Stat, check_write_access, open_to_read,
                 check_one_file, pre_conversion_check, open_to_write, Convert, CloseStreams,
                 Discard, RemoveOriginal, RenameTmp, RestoreMode, RestoreOwner, RestoreTimes,
                 Exit, Kill, TypeInv, TypeOK
            <6> QED
              BY <1>2, <4>2, <6>1, Moves, Remembers DEF TypeInv
          <5> QED
            BY <3>3, <5>1, <5>2 DEF Halts
        <4> QED
          BY <4>1, <4>2
      <3> QED
        BY <3>2, <3>3, <3>4, <3>5
    <2> QED
      BY <2>1, <2>2 DEF SparedInv
  <1> QED
    BY <1>1, <1>2 DEF Next

UntouchedInv == TypeInv /\ EndedHasEndings /\ SparedInv

LEMMA UntouchedInit == Init => UntouchedInv
  BY TypeInit, SparedInit DEF UntouchedInv

LEMMA UntouchedNext == UntouchedInv /\ [Next]_vars => UntouchedInv'
  BY TypeNext, SparedNext DEF UntouchedInv

\* Without --binaries no process ever replaces a file with control characters or with
\* a known extension, whatever happens and however many they are.
THEOREM BinariesAlwaysStay == Spec => []BinariesStay
  <1>1. ASSUME UntouchedInv PROVE BinariesStay
    <2> SUFFICES ASSUME NEW f \in Files, \A p \in Procs : ~ invocation[p].binaries,
                        original[f].text.kind.binary \/ f \in KnownBinaryNames
                 PROVE  Present(f) /\ dir[f].by = "user"
      BY DEF BinariesStay
    <2>1. Spared(f)
      BY DEF Spared, Spares, IsUnwantedBinary
    <2> QED
      BY <1>1, <2>1 DEF UntouchedInv, SparedInv
  <1> QED
    BY <1>1, UntouchedInit, UntouchedNext, PTL DEF Spec

\* No process ever replaces a file that is already what all processes want.
THEOREM UnneededAlwaysStay == Spec => []UnneededStay
  <1>1. ASSUME UntouchedInv PROVE UnneededStay
    <2> SUFFICES ASSUME NEW f \in Files,
                        \A p \in Procs : Converts(p) =>
                           NothingToDo(original[f].text.kind, invocation[p])
                 PROVE  Present(f) /\ dir[f].by = "user"
      BY DEF UnneededStay
    <2>1. Spared(f)
      BY DEF Spared, Spares
    <2> QED
      BY <1>1, <2>1 DEF UntouchedInv, SparedInv
  <1> QED
    BY <1>1, UntouchedInit, UntouchedNext, PTL DEF Spec

--------------------------------------------------------------------------------
(* What a process returns for a file it has replaced.                       *)

\* What a process does, told by where it is.
LEMMA ActsByPlace ==
  ASSUME NEW p \in Procs, Step(p) \/ Kill(p)
  PROVE  /\ pc[p] = "unborn" => Launch(p)
         /\ pc[p] = "idle" => Stat(p) \/ Exit(p)
         /\ pc[p] = "access" => check_write_access(p) \/ Kill(p)
         /\ pc[p] = "open" => open_to_read(p) \/ Kill(p)
         /\ pc[p] = "check" => check_one_file(p) \/ Kill(p)
         /\ pc[p] = "precheck" => pre_conversion_check(p) \/ Kill(p)
         /\ pc[p] = "create" => open_to_write(p) \/ Kill(p)
         /\ pc[p] = "convert" => Convert(p) \/ Kill(p)
         /\ pc[p] = "close" => CloseStreams(p) \/ Kill(p)
         /\ pc[p] = "discard" => Discard(p) \/ Kill(p)
         /\ pc[p] = "remove" => RemoveOriginal(p) \/ Kill(p)
         /\ pc[p] = "rename" => RenameTmp(p) \/ Kill(p)
         /\ pc[p] = "chmod" => RestoreMode(p) \/ Kill(p)
         /\ pc[p] = "chown" => RestoreOwner(p) \/ Kill(p)
         /\ pc[p] = "utime" => RestoreTimes(p) \/ Kill(p)
         /\ pc[p] \in {"unborn", "idle"} \cup Working
  BY DEF Step, Launch, Stat, check_write_access, open_to_read, check_one_file,
     pre_conversion_check, open_to_write, Convert, CloseStreams, Discard, RemoveOriginal,
     RenameTmp, RestoreMode, RestoreOwner, RestoreTimes, Exit, Kill, Working

\* Where a process goes from there.
LEMMA Leads ==
  ASSUME NEW p \in Procs, TypeOK, Step(p) \/ Kill(p)
  PROVE  /\ pc[p] = "unborn" => pc'[p] = "idle"
         /\ pc[p] = "idle" => pc'[p] \in {"idle", "access", "open", "exited"}
         /\ pc[p] = "access" => pc'[p] \in {"idle", "open", "killed"}
         /\ pc[p] = "open" => pc'[p] \in {"idle", "check", "precheck", "killed"}
         /\ pc[p] = "check" => pc'[p] \in {"idle", "killed"}
         /\ pc[p] = "precheck" => pc'[p] \in {"idle", "create", "killed"}
         /\ pc[p] = "create" => pc'[p] \in {"idle", "convert", "killed"}
         /\ pc[p] = "convert" => pc'[p] \in {"close", "killed"}
         /\ pc[p] = "close" => pc'[p] \in {"remove", "discard", "killed"}
         /\ pc[p] = "discard" => pc'[p] \in {"idle", "killed"}
         /\ pc[p] = "remove" => pc'[p] \in {"discard", "rename", "killed"}
         /\ pc[p] = "rename" => pc'[p] \in {"chmod", "aborted", "stranded"}
         /\ pc[p] = "chmod" => pc'[p] \in {"chown", "killed"}
         /\ pc[p] = "chown" => pc'[p] \in {"utime", "idle", "killed"}
         /\ pc[p] = "utime" => pc'[p] \in {"idle", "killed"}
  <1> pc \in [Procs -> Places]
    BY DEF TypeOK
  <1> USE ActsByPlace
  <1>1. pc[p] \in {"unborn", "idle", "access", "open", "check", "precheck"} =>
          /\ pc[p] = "unborn" => pc'[p] = "idle"
          /\ pc[p] = "idle" => pc'[p] \in {"idle", "access", "open", "exited"}
          /\ pc[p] = "access" => pc'[p] \in {"idle", "open", "killed"}
          /\ pc[p] = "open" => pc'[p] \in {"idle", "check", "precheck", "killed"}
          /\ pc[p] = "check" => pc'[p] \in {"idle", "killed"}
          /\ pc[p] = "precheck" => pc'[p] \in {"idle", "create", "killed"}
    BY DEF Launch, Stat, Exit, check_write_access, open_to_read, check_one_file,
       pre_conversion_check, Kill, Goto, Return
  <1>2. pc[p] \in {"create", "convert", "close", "discard", "remove"} =>
          /\ pc[p] = "create" => pc'[p] \in {"idle", "convert", "killed"}
          /\ pc[p] = "convert" => pc'[p] \in {"close", "killed"}
          /\ pc[p] = "close" => pc'[p] \in {"remove", "discard", "killed"}
          /\ pc[p] = "discard" => pc'[p] \in {"idle", "killed"}
          /\ pc[p] = "remove" => pc'[p] \in {"discard", "rename", "killed"}
    BY DEF open_to_write, Convert, CloseStreams, Discard, RemoveOriginal, Kill, Goto, Return
  <1>3. pc[p] \in {"rename", "chmod", "chown", "utime"} =>
          /\ pc[p] = "rename" => pc'[p] \in {"chmod", "aborted", "stranded"}
          /\ pc[p] = "chmod" => pc'[p] \in {"chown", "killed"}
          /\ pc[p] = "chown" => pc'[p] \in {"utime", "idle", "killed"}
          /\ pc[p] = "utime" => pc'[p] \in {"idle", "killed"}
    BY DEF RenameTmp, RestoreMode, RestoreOwner, RestoreTimes, Kill, Goto, Return
  <1> QED
    BY <1>1, <1>2, <1>3

\* From its creation to its renaming, or removal, the temporary file is the process's own.
Owning == {"convert", "close", "discard", "remove", "rename"}
TmpIsMine == \A p \in Procs : pc[p] \in Owning => dir[tmp(p)].by = p

\* Before and behind the renaming.
Before == {"access", "open", "check", "precheck", "create", "convert", "close", "discard",
           "remove", "rename"}
Behind == {"chmod", "chown", "utime"}

\* A process comes to each file once; until it returns nothing is said of the file, and
\* until the renaming the file is not its own.
NotYet ==
  \A p \in Procs :
    /\ \A f \in todo[p] : outcome[p][f] = "CAN_CONTINUE" /\ ~ Replaced(f, p)
    /\ pc[p] \in Before \cup Behind =>
         outcome[p][filename[p]] = "CAN_CONTINUE" /\ filename[p] \notin todo[p]
    /\ pc[p] \in Before => ~ Replaced(filename[p], p)

ReturnInv == TypeInv /\ TmpIsMine /\ NotYet /\ NotDoneIsUntouched

LEMMA ReturnInit == Init => ReturnInv
  <1> SUFFICES ASSUME Init PROVE ReturnInv
    OBVIOUS
  <1>1. \A f \in Files : f \in Names /\ dir[f] = original[f] /\ original[f].by = "user"
    BY DEF Init, UserFile, Names
  <1>2. TypeInv
    BY TypeInit
  <1>3. \A p \in Procs : pc[p] = "unborn" /\ todo[p] = Files
    BY DEF Init
  <1>4. \A p \in Procs, f \in Files : outcome[p][f] = "CAN_CONTINUE"
    BY DEF Init
  <1>5. \A p \in Procs, f \in Files : ~ Replaced(f, p)
    BY <1>1, NamesAssumption DEF Replaced
  <1> QED
    BY <1>2, <1>3, <1>4, <1>5 DEF ReturnInv, TmpIsMine, Owning, NotYet, NotDoneIsUntouched, Before, Behind

\* What a step does to the list of files and the outcomes of its process: it takes a
\* file off the list, returns for the file it has, or goes on with it.
Returns(p) ==
  \E status \in Statuses :
    /\ pc'[p] = "idle" /\ outcome'[p] = [outcome[p] EXCEPT ![filename'[p]] = status]
    /\ pc[p] \in Behind => status = "DONE"
TakesOff(p) ==
  /\ pc[p] = "idle" /\ dir' = dir
  /\ filename'[p] \in todo[p] /\ todo'[p] = todo[p] \ {filename'[p]}
  /\ Returns(p) \/ (outcome'[p] = outcome[p] /\ pc'[p] \in Before)
Keeps(p) == todo'[p] = todo[p] /\ filename'[p] = filename[p]
Ends(p) == Keeps(p) /\ pc[p] \in Before \cup Behind /\ Returns(p) /\ ~ Renames(p)
GoesOn(p) ==
  /\ Keeps(p) /\ outcome'[p] = outcome[p]
  /\ pc'[p] \in Before => pc[p] \in Before
  /\ pc'[p] \in Behind => pc[p] \in Before \cup Behind

LEMMA ReturnsSo ==
  ASSUME NEW p \in Procs, NEW f \in Files, NEW status \in Statuses, TypeOK,
         Return(p, f, status), filename'[p] = f, pc[p] \in Behind => status = "DONE"
  PROVE  /\ Returns(p) /\ pc'[p] = "idle"
         /\ \A q \in Procs \ {p} : outcome'[q] = outcome[q]
  <1>1. pc \in [Procs -> Places] /\ outcome \in Outcomes
    BY DEF TypeOK, Outcomes, Statuses
  <1>2. pc'[p] = "idle"
    BY <1>1 DEF Return, Goto
  <1>3. outcome'[p] = [outcome[p] EXCEPT ![f] = status]
    BY <1>1 DEF Return, Outcomes
  <1>4. \A q \in Procs \ {p} : outcome'[q] = outcome[q]
    BY <1>1 DEF Return, Outcomes
  <1> QED
    BY <1>2, <1>3, <1>4 DEF Returns

LEMMA ReturnMoves ==
  ASSUME NEW p \in Procs, TypeOK, Step(p) \/ Kill(p)
  PROVE  /\ TakesOff(p) \/ Ends(p) \/ GoesOn(p)
         /\ \A q \in Procs \ {p} : outcome'[q] = outcome[q] /\ todo'[q] = todo[q]
  <1> USE DEF Before, Behind
  <1> /\ pc \in [Procs -> Places] /\ outcome \in Outcomes /\ todo \in [Procs -> SUBSET Files]
      /\ filename \in [Procs -> Files]
    BY DEF TypeOK, Outcomes, Statuses
  <1> /\ \A status \in FileOp_Status : status \in Statuses
      /\ {"DONE", "SKIPPED_BINARY", "FILEOP_ERROR"} \subseteq FileOp_Status
      /\ "UNREADABLE" \in Statuses
    BY DEF FileOp_Status, Statuses
  <1>1. CASE Stat(p)
    <2> PICK g \in todo[p] :
          /\ todo' = [todo EXCEPT ![p] = @ \ {g}]
          /\ filename' = [filename EXCEPT ![p] = g]
          /\ \/ Return(p, g, "UNREADABLE")
             \/ Return(p, g, "SKIPPED_BINARY")
             \/ (Goto(p, "open") \/ Goto(p, "access")) /\ outcome' = outcome
      BY <1>1 DEF Stat
    <2>1. /\ pc[p] = "idle" /\ dir' = dir /\ g \in Files
          /\ filename'[p] = g /\ todo'[p] = todo[p] \ {g}
          /\ \A q \in Procs \ {p} : todo'[q] = todo[q]
      BY <1>1 DEF Stat
    <2>2. CASE (Goto(p, "open") \/ Goto(p, "access")) /\ outcome' = outcome
      BY <2>1, <2>2 DEF Goto, TakesOff
    <2>3. CASE Return(p, g, "UNREADABLE") \/ Return(p, g, "SKIPPED_BINARY")
      BY <2>1, <2>3, ReturnsSo DEF TakesOff
    <2> QED
      BY <2>2, <2>3
  <1>2. CASE /\ todo' = todo /\ filename' = filename /\ outcome' = outcome
             /\ pc'[p] \in Before => pc[p] \in Before
             /\ pc'[p] \in Behind => pc[p] \in Before \cup Behind
    BY <1>2 DEF GoesOn, Keeps
  <1>3. CASE /\ todo' = todo /\ filename' = filename /\ pc[p] \in (Before \ {"rename"}) \cup Behind
             /\ \E status \in Statuses : /\ Return(p, filename[p], status)
                                         /\ pc[p] \in Behind => status = "DONE"
    BY <1>3, ReturnsSo DEF Ends, Keeps, Renames
  <1>4. CASE check_write_access(p) \/ open_to_read(p)
    BY <1>2, <1>3, <1>4 DEF check_write_access, open_to_read, Goto
  <1>5. CASE check_one_file(p) \/ Discard(p) \/ RestoreTimes(p)
    <2>1. /\ todo' = todo /\ filename' = filename /\ pc[p] \in {"check", "discard", "utime"}
          /\ \E status \in {"DONE", "SKIPPED_BINARY", "FILEOP_ERROR"} :
               Return(p, filename[p], status) /\ (pc[p] = "utime" => status = "DONE")
      BY <1>5 DEF check_one_file, Discard, RestoreTimes
    <2> QED
      BY <1>3, <2>1
  <1>6. CASE pre_conversion_check(p)
    <2>0. pc[p] = "precheck" /\ todo' = todo /\ filename' = filename
      BY <1>6 DEF pre_conversion_check
    <2>1. CASE Goto(p, "create") /\ outcome' = outcome
      BY <1>2, <2>0, <2>1 DEF Goto
    <2>2. CASE \E status \in FileOp_Status : Return(p, filename[p], status)
      BY <1>3, <2>0, <2>2
    <2> QED
      BY <1>6, <2>1, <2>2, VerdictIsStatus DEF pre_conversion_check
  <1>7. CASE open_to_write(p)
    BY <1>2, <1>3, <1>7 DEF open_to_write, Goto
  <1>8. CASE Convert(p) \/ CloseStreams(p) \/ RemoveOriginal(p) \/ RenameTmp(p) \/ RestoreMode(p)
    BY <1>2, <1>8 DEF Convert, CloseStreams, RemoveOriginal, RenameTmp, RestoreMode, Goto
  <1>9. CASE Launch(p) \/ Exit(p) \/ Kill(p)
    BY <1>2, <1>9 DEF Launch, Exit, Kill, Goto
  <1>10. CASE RestoreOwner(p)
    <2>0. pc[p] = "chown" /\ todo' = todo /\ filename' = filename
      BY <1>10 DEF RestoreOwner
    <2>1. CASE Goto(p, "utime") /\ outcome' = outcome
      BY <1>2, <2>0, <2>1 DEF Goto
    <2>2. CASE Return(p, filename[p], "DONE")
      BY <1>3, <2>0, <2>2
    <2> QED
      BY <1>10, <2>1, <2>2 DEF RestoreOwner
  <1> QED
    BY <1>1, <1>4, <1>5, <1>6, <1>7, <1>8, <1>9, <1>10 DEF Step

\* The step that creates the temporary file signs it, and no other step of any process
\* changes that until the process has renamed it.
LEMMA MineNext ==
  ASSUME NEW p \in Procs, TypeInv, TmpIsMine, Step(p) \/ Kill(p)
  PROVE  TmpIsMine'
  <1> SUFFICES ASSUME NEW q \in Procs, pc'[q] \in Owning PROVE dir'[tmp(q)].by = q
    BY DEF TmpIsMine
  <1> USE DEF TypeInv, Owning
  <1> /\ tmp(q) \in Names /\ tmp(q) \notin Files /\ filename[p] \in Files /\ tmp(p) \in Names
      /\ dir \in Directories /\ pc \in [Procs -> Places]
    BY NamesAssumption DEF TypeOK, Names, Directories
  <1>1. CASE q # p
    <2>1. dir[tmp(q)].by = q /\ pc[q] \in Owning
      BY <1>1, Moves DEF TmpIsMine
    <2>2. pc[p] # "unborn" => tmp(q) # tmp(p)
      BY <1>1, <2>1, Moves DEF LivingApart, Dead
    <2>3. CASE UNCHANGED dir
      BY <2>1, <2>3
    <2>4. CASE WorksOnTmp(p) \/ Removes(p) \/ Renames(p)
      BY <2>1, <2>2, <2>4 DEF WorksOnTmp, Removes, Renames, Directories
    <2>5. CASE SameTexts
      BY <2>1, <2>5 DEF SameTexts
    <2> QED
      BY <2>3, <2>4, <2>5, Effects
  <1>2. CASE q = p
    <2>1. pc[p] \in {"create", "convert", "close", "remove"}
      BY <1>2, Leads, ActsByPlace DEF Working
    <2>2. CASE pc[p] = "create"
      <3>1. open_to_write(p) /\ pc'[p] = "convert"
        BY <1>2, <2>2, ActsByPlace, Leads DEF Kill, Goto
      <3> QED
        BY <1>2, <2>2, <3>1 DEF open_to_write, Directories, Return, Goto
    <2>3. CASE pc[p] = "convert"
      <3>1. Present(tmp(p)) /\ dir[tmp(p)].by = p
        BY <2>3 DEF TmpIsThere, TmpIsMine
      <3>2. SameTexts
        BY <2>3, Effects DEF WorksOnTmp, Removes, Renames
      <3> QED
        BY <1>2, <3>1, <3>2 DEF SameTexts
    <2>4. CASE pc[p] = "close"
      <3>1. /\ dir[tmp(p)].by = p /\ dir[tmp(p)] \in Inode /\ pc'[p] \in {"remove", "discard"}
        BY <1>2, <2>4, Leads DEF TmpIsThere, TmpIsMine, Directories
      <3>2. CloseStreams(p)
        BY <2>4, <3>1, ActsByPlace DEF Kill, Goto
      <3> DEFINE text == [in[p].text EXCEPT !.kind = converted(@, invocation[p])]
      <3>3. UNCHANGED dir \/ dir' = [dir EXCEPT ![tmp(p)] = [dir[tmp(p)] EXCEPT !.text = text]]
        BY <3>2 DEF CloseStreams
      <3>4. [dir[tmp(p)] EXCEPT !.text = text].by = dir[tmp(p)].by
        BY <3>1 DEF Inode
      <3> HIDE DEF text
      <3> QED
        BY <1>2, <3>1, <3>3, <3>4 DEF Directories
    <2>5. CASE pc[p] = "remove"
      <3>1. dir[tmp(p)].by = p
        BY <2>5 DEF TmpIsMine
      <3>2. UNCHANGED dir \/ dir' = [dir EXCEPT ![filename[p]] = Absent]
        BY <2>5, ActsByPlace DEF RemoveOriginal, Kill
      <3> QED
        BY <1>2, <3>1, <3>2 DEF Directories
    <2> QED
      BY <2>1, <2>3, <2>2, <2>4, <2>5
  <1> QED
    BY <1>1, <1>2

\* A file comes to be a process's own only by its renaming.
LEMMA ReplacedBy ==
  ASSUME NEW p \in Procs, TypeInv, TmpIsMine, Step(p) \/ Kill(p),
         NEW f \in Files, NEW q \in Procs, Replaced(f, q)'
  PROVE  Replaced(f, q) \/ (q = p /\ f = filename[p] /\ Renames(p))
  <1> /\ f \in Names /\ tmp(p) # f /\ filename[p] \in Files /\ dir \in Directories
      /\ tmp(p) \in Names /\ tmp(p) \notin Files /\ Files \subseteq Names
    BY NamesAssumption DEF TypeInv, TypeOK, Names, Directories
  <1> USE DEF Replaced
  <1>1. CASE SameTexts
    BY <1>1 DEF SameTexts
  <1>2. CASE WorksOnTmp(p)
    BY <1>2 DEF WorksOnTmp
  <1>3. CASE Removes(p)
    BY <1>3 DEF Removes, Directories
  <1>4. CASE Renames(p)
    BY <1>4 DEF Renames, Directories, TmpIsMine, Owning
  <1> QED
    BY <1>1, <1>2, <1>3, <1>4, Effects

LEMMA ReturnNext == ReturnInv /\ [Next]_vars => ReturnInv'
  <1> SUFFICES ASSUME ReturnInv, [Next]_vars PROVE ReturnInv'
    OBVIOUS
  <1> USE DEF ReturnInv, Replaced
  <1>1. TypeInv'
    BY TypeNext
  <1>2. CASE UNCHANGED vars
    BY <1>1, <1>2 DEF vars, TmpIsMine, NotYet, NotDoneIsUntouched, Replaced
  <1>3. ASSUME NEW p \in Procs, Step(p) \/ Kill(p)
        PROVE  TmpIsMine' /\ NotYet' /\ NotDoneIsUntouched'
    <2>1. TmpIsMine'
      BY <1>3, MineNext
    <2>2. /\ \A q \in Procs \ {p} : /\ pc'[q] = pc[q] /\ filename'[q] = filename[q]
                                    /\ outcome'[q] = outcome[q] /\ todo'[q] = todo[q]
          /\ TakesOff(p) \/ Ends(p) \/ GoesOn(p)
      BY <1>3, Moves, Remembers, ReturnMoves DEF TypeInv
    <2>3. \A q \in Procs \ {p}, f \in Files : Replaced(f, q)' => Replaced(f, q)
      BY <1>3, ReplacedBy
    <2>4. \A f \in Files : Replaced(f, p)' =>
            Replaced(f, p) \/ (f = filename[p] /\ Renames(p))
      BY <1>3, ReplacedBy
    <2>5. /\ \A q \in Procs : filename[q] \in Files /\ todo[q] \subseteq Files
          /\ filename'[p] \in Files /\ outcome[p] \in [Files -> Statuses]
      BY <1>1 DEF TypeInv, TypeOK, Statuses
    <2>6. ASSUME NEW q \in Procs \ {p}
          PROVE  /\ \A f \in todo'[q] : outcome'[q][f] = "CAN_CONTINUE" /\ ~ Replaced(f, q)'
                 /\ pc'[q] \in Before \cup Behind =>
                      outcome'[q][filename'[q]] = "CAN_CONTINUE" /\ filename'[q] \notin todo'[q]
                 /\ pc'[q] \in Before => ~ Replaced(filename[q], q)'
                 /\ \A f \in Files :
                      outcome'[q][f] \in {"FILEOP_ERROR", "SKIPPED_BINARY", "UNREADABLE"}
                        => ~ Replaced(f, q)'
      BY <2>2, <2>3, <2>5, <2>6 DEF NotYet, NotDoneIsUntouched
    <2>7. CASE TakesOff(p)
      <3>1. \A f \in Files : Replaced(f, p)' => Replaced(f, p)
        BY <2>4, <2>7 DEF TakesOff, Renames
      <3>2. /\ outcome[p][filename'[p]] = "CAN_CONTINUE" /\ ~ Replaced(filename'[p], p)
            /\ \A f \in Files \ {filename'[p]} : outcome'[p][f] = outcome[p][f]
        BY <2>5, <2>7 DEF TakesOff, NotYet, Returns
      <3>3. pc'[p] \in Before \cup Behind => outcome'[p] = outcome[p] /\ pc'[p] \in Before
        BY <2>7 DEF TakesOff, Returns, Before, Behind
      <3>4. /\ \A f \in todo'[p] : f # filename'[p] /\ f \in todo[p]
            /\ filename'[p] \notin todo'[p]
        BY <2>7 DEF TakesOff
      <3>5. /\ \A f \in todo'[p] : outcome'[p][f] = "CAN_CONTINUE" /\ ~ Replaced(f, p)'
            /\ pc'[p] \in Before \cup Behind =>
                 outcome'[p][filename'[p]] = "CAN_CONTINUE" /\ filename'[p] \notin todo'[p]
            /\ pc'[p] \in Before => ~ Replaced(filename[p], p)'
        BY <2>5, <3>1, <3>2, <3>3, <3>4 DEF NotYet
      <3>6. \A f \in Files : outcome'[p][f] \in {"FILEOP_ERROR", "SKIPPED_BINARY", "UNREADABLE"}
                               => ~ Replaced(f, p)'
        BY <3>1, <3>2 DEF NotDoneIsUntouched
      <3> QED
        BY <2>1, <2>6, <3>5, <3>6 DEF NotYet, NotDoneIsUntouched
    <2>8. CASE Ends(p)
      <3>1. /\ todo'[p] = todo[p] /\ filename'[p] = filename[p] /\ pc'[p] \notin Before \cup Behind
            /\ \A f \in Files : Replaced(f, p)' => Replaced(f, p)
        BY <2>4, <2>8 DEF Ends, Keeps, Returns, Before, Behind
      <3>2. \A f \in Files \ {filename[p]} : outcome'[p][f] = outcome[p][f]
        BY <2>5, <2>8, <3>1 DEF Ends, Returns
      <3>3. filename[p] \notin todo[p]
        BY <2>8 DEF Ends, NotYet
      <3>4. \/ ~ Replaced(filename[p], p)
            \/ outcome'[p][filename[p]] = "DONE"
        BY <2>5, <2>8, <3>1 DEF Ends, Returns, NotYet
      <3>5. \A f \in todo'[p] : outcome'[p][f] = "CAN_CONTINUE" /\ ~ Replaced(f, p)'
        BY <2>5, <3>1, <3>2, <3>3 DEF NotYet
      <3>6. \A f \in Files : outcome'[p][f] \in {"FILEOP_ERROR", "SKIPPED_BINARY", "UNREADABLE"}
                               => ~ Replaced(f, p)'
        BY <3>1, <3>2, <3>4 DEF NotDoneIsUntouched
      <3> QED
        BY <2>1, <2>6, <3>1, <3>5, <3>6 DEF NotYet, NotDoneIsUntouched
    <2>9. CASE GoesOn(p)
      <3>1. todo'[p] = todo[p] /\ filename'[p] = filename[p] /\ outcome'[p] = outcome[p]
        BY <2>9 DEF GoesOn, Keeps
      <3>2. Renames(p) => /\ outcome[p][filename[p]] = "CAN_CONTINUE"
                          /\ filename[p] \notin todo[p] /\ pc'[p] \notin Before
        BY DEF Renames, NotYet, Before
      <3>3. \A f \in todo'[p] : outcome'[p][f] = "CAN_CONTINUE" /\ ~ Replaced(f, p)'
        BY <2>4, <2>5, <3>1, <3>2 DEF NotYet
      <3>4. /\ pc'[p] \in Before \cup Behind =>
                 outcome'[p][filename'[p]] = "CAN_CONTINUE" /\ filename'[p] \notin todo'[p]
            /\ pc'[p] \in Before => ~ Replaced(filename[p], p)'
        BY <2>4, <2>5, <2>9, <3>1, <3>2 DEF NotYet, GoesOn
      <3>5. \A f \in Files : outcome'[p][f] \in {"FILEOP_ERROR", "SKIPPED_BINARY", "UNREADABLE"}
                               => ~ Replaced(f, p)'
        BY <2>4, <3>1, <3>2 DEF NotDoneIsUntouched
      <3> QED
        BY <2>1, <2>6, <3>3, <3>4, <3>5 DEF NotYet, NotDoneIsUntouched
    <2> QED
      BY <2>2, <2>7, <2>8, <2>9
  <1> QED
    BY <1>1, <1>2, <1>3 DEF Next

\* What is returned as an error, a skip or unreadable was not replaced: no path of
\* convert_one_file gives up on a file once the renaming is done.
THEOREM NotDoneIsNeverTouched == Spec => []NotDoneIsUntouched
  <1>1. ReturnInv => NotDoneIsUntouched
    BY DEF ReturnInv
  <1> QED
    BY <1>1, ReturnInit, ReturnNext, PTL DEF Spec

--------------------------------------------------------------------------------
(***************************************************************************)
(* Proofs about what the processes leave behind, for any processes, files  *)
(* and command lines: no temporary file without its maker, what DONE says  *)
(* of a file, and the metadata of the files when all is over.              *)
(***************************************************************************)
(* Temporary files.                                                         *)

Makers == {"convert", "close", "discard", "remove", "rename", "aborted", "stranded", "killed"}

LEMMA LeftoverNext ==
  ASSUME TypeInv, NoLeftoverTmp, ~ May("remove"), NEW p \in Procs, Step(p) \/ Kill(p)
  PROVE  NoLeftoverTmp'
  <1> SUFFICES ASSUME NEW x \in Procs, Present(tmp(x))'
               PROVE  \E q \in Procs : tmp(q) = tmp(x) /\ pc'[q] \in Makers
    BY DEF NoLeftoverTmp, Makers
  <1> USE DEF TypeInv
  <1> /\ tmp(x) \in Names /\ tmp(x) \notin Files /\ filename[p] \in Files /\ tmp(p) \in Names
      /\ tmp(p) \notin Files /\ dir \in Directories /\ pc \in [Procs -> Places]
    BY NamesAssumption DEF TypeOK, Names, Directories
  <1>1. CASE Present(tmp(x))
    <2>1. PICK q \in Procs : tmp(q) = tmp(x) /\ pc[q] \in Makers
      BY <1>1 DEF NoLeftoverTmp, Makers
    <2>2. CASE q # p
      BY <2>1, <2>2, Moves
    <2>3. CASE q = p
      <3>1. pc[p] \in Makers \cap Working
        BY <2>1, <2>3, ActsByPlace DEF Makers, Working
      <3>2. pc[p] = "discard" => pc'[p] = "killed"
        BY <2>1, <2>3, ActsByPlace DEF Discard, Kill, Goto, Directories
      <3>3. pc[p] = "rename" => pc'[p] \in {"aborted", "stranded"}
        BY <2>1, <2>3, ActsByPlace DEF RenameTmp, Kill, Goto, Directories
      <3>4. pc'[p] \in Makers
        BY <3>1, <3>2, <3>3, Leads DEF Makers, Working
      <3> QED
        BY <2>1, <2>3, <3>4
    <2> QED
      BY <2>2, <2>3
  <1>2. CASE ~ Present(tmp(x))
    <2>1. WorksOnTmp(p) /\ tmp(x) = tmp(p)
      <3>1. ~ SameTexts
        BY <1>2 DEF SameTexts
      <3>2. ~ Removes(p) /\ ~ Renames(p)
        BY <1>2 DEF Removes, Renames, Directories
      <3> QED
        BY <1>2, <3>1, <3>2, Effects DEF WorksOnTmp
    <2>2. pc[p] = "create"
      <3>1. pc[p] # "close"
        BY <1>2, <2>1 DEF TmpIsThere
      <3>2. pc[p] # "discard"
        BY <1>2, <2>1, ActsByPlace DEF Discard, Kill, Directories
      <3> QED
        BY <2>1, <3>1, <3>2 DEF WorksOnTmp
    <2>3. pc'[p] = "convert"
      BY <1>2, <2>1, <2>2, ActsByPlace DEF open_to_write, Kill, Goto
    <2> QED
      BY <2>1, <2>3 DEF Makers
  <1> QED
    BY <1>1, <1>2

\* Whatever the processes and the failures, that of remove() apart: a temporary file
\* that is there belongs to a process that is working on it or was stopped.
THEOREM TmpNeverLeftOver == Spec => []NoLeftoverTmp
  <1>1. Init => NoLeftoverTmp
    <2> SUFFICES ASSUME Init, NEW p \in Procs PROVE ~ Present(tmp(p))
      BY DEF NoLeftoverTmp
    <2>1. tmp(p) \in Names /\ tmp(p) \notin Files
      BY NamesAssumption DEF Names
    <2> QED
      BY <2>1 DEF Init
  <1>2. TypeInv /\ NoLeftoverTmp /\ [Next]_vars => NoLeftoverTmp'
    <2> SUFFICES ASSUME TypeInv, NoLeftoverTmp, [Next]_vars PROVE NoLeftoverTmp'
      OBVIOUS
    <2>1. CASE May("remove")
      BY <2>1 DEF NoLeftoverTmp, May
    <2>2. CASE UNCHANGED vars
      BY <2>2 DEF vars, NoLeftoverTmp
    <2>3. CASE Next /\ ~ May("remove")
      BY <2>3, LeftoverNext DEF Next
    <2> QED
      BY <2>1, <2>2, <2>3
  <1> QED
    BY <1>1, <1>2, TypeInit, TypeNext, PTL DEF Spec

\* Nothing happens to a temporary file but by a process of that name, which has
\* created it, or is about to.
LEMMA TmpTouched ==
  ASSUME NEW p \in Procs, TypeInv, Step(p) \/ Kill(p),
         NEW n \in Tmps, n \in Names, n \notin Files, dir'[n] # dir[n]
  PROVE  /\ n = tmp(p)
         /\ pc[p] \in Owning \/ (pc[p] = "create" /\ pc'[p] = "convert")
  <1> /\ filename[p] \in Files /\ tmp(p) \in Names /\ dir \in Directories /\ pc \in [Procs -> Places]
    BY NamesAssumption DEF TypeInv, TypeOK, Names, Directories
  <1> DEFINE f == filename[p]
  <1>1. \A x : dir' # [dir EXCEPT ![f] = x]
    BY DEF Directories
  <1>2. ~ ReadFrom(p)
    <2>1. ReadFrom(p) => dir' = [dir EXCEPT ![f].meta.atime = "new"]
      BY DEF ReadFrom
    <2> QED
      BY <1>1, <2>1
  <1>3. \A fault, meta : ~ SetMeta(p, fault, meta)
    <2>1. \A fault, meta : SetMeta(p, fault, meta) => dir' = [dir EXCEPT ![f].meta = meta]
      BY DEF SetMeta
    <2> QED
      BY <1>1, <2>1
  <1>4. \/ open_to_write(p) \/ CloseStreams(p) \/ Discard(p) \/ RemoveOriginal(p) \/ RenameTmp(p)
    BY <1>2, <1>3
    DEF Step, Launch, Stat, check_write_access, open_to_read, check_one_file,
        pre_conversion_check, Convert, RestoreMode, RestoreOwner, RestoreTimes, Exit, Kill
  <1>5. CASE open_to_write(p)
    BY <1>5 DEF open_to_write, Goto, Directories
  <1>6. CASE CloseStreams(p) \/ Discard(p)
    BY <1>6 DEF CloseStreams, Discard, Directories, Owning
  <1>7. CASE RemoveOriginal(p)
    BY <1>1, <1>7 DEF RemoveOriginal
  <1>8. CASE RenameTmp(p)
    BY <1>8 DEF RenameTmp, Directories, Owning
  <1> QED
    BY <1>4, <1>5, <1>6, <1>7, <1>8

\* Whatever the processes, the pids they are given and the failures: the copy that a
\* process leaves under its temporary name is lost to nothing but the creation of the
\* temporary file of a later process of the same pid.
THEOREM LeftCopyAlwaysStays == Spec => LeftCopyStays
  <1>1. ASSUME ReturnInv, [Next]_vars, NEW p \in Procs, pc'[p] \in {"aborted", "stranded"},
               Present(tmp(p)), dir[tmp(p)].by = p, dir'[tmp(p)] # dir[tmp(p)]
        PROVE  \E q \in Procs \ {p} : tmp(q) = tmp(p) /\ pc[q] = "create" /\ pc'[q] = "convert"
    <2> USE <1>1
    <2>1. PICK q \in Procs : Step(q) \/ Kill(q)
      BY DEF Next, vars
    <2>2. TypeOK /\ TypeInv /\ TmpIsMine
      BY DEF ReturnInv, TypeInv
    <2>3. tmp(p) \in Tmps /\ tmp(p) \in Names /\ tmp(p) \notin Files
      BY NamesAssumption DEF Names
    <2>4. tmp(q) = tmp(p) /\ (pc[q] \in Owning \/ (pc[q] = "create" /\ pc'[q] = "convert"))
      BY <2>1, <2>2, <2>3, TmpTouched
    <2>5. q # p
      <3> SUFFICES ASSUME q = p PROVE FALSE
        OBVIOUS
      <3>1. pc[p] = "rename"
        BY <2>1, <2>2, Moves
      <3>2. UNCHANGED dir
        BY <2>1, <2>2, <3>1, ActsByPlace DEF RenameTmp, Kill, Goto, TypeOK
      <3> QED
        BY <3>2
    <2>6. pc[q] \notin Owning
      BY <2>2, <2>4, <2>5 DEF TmpIsMine
    <2> QED
      BY <2>4, <2>5, <2>6
  <1>2. ReturnInv /\ [Next]_vars =>
          [\A p \in Procs :
             LET copy == dir[tmp(p)]
             IN  (pc'[p] \in {"aborted", "stranded"} /\ copy # Absent
                  /\ copy.by = p /\ IsCopy(copy, filename[p])) =>
                   \/ dir'[tmp(p)] = copy
                   \/ \E q \in Procs \ {p} :
                        tmp(q) = tmp(p) /\ pc[q] = "create" /\ pc'[q] = "convert"]_vars
    BY <1>1
  <1> QED
    BY <1>2, ReturnInit, ReturnNext, PTL DEF Spec, LeftCopyStays

--------------------------------------------------------------------------------
(* What the processes write.                                                *)

\* Only a process that was asked to convert comes to these places ...
WritersConvert == \A p \in Procs : pc[p] \in Working \ {"open", "check"} => Converts(p)

\* ... and it copies no file with control characters unless it was told to.
NoneUnwanted ==
  \A p \in Procs :
    pc[p] \in {"remove", "rename"} \/ (pc[p] = "close" /\ report[p] = "ok") =>
      ~ IsUnwantedBinary(in[p].text.kind, invocation[p])

\* So a file that a process has replaced leaves that process nothing to do.
WrittenAsWanted ==
  \A f \in Files, r \in Procs :
    Replaced(f, r) => Converts(r) /\ NothingToDo(dir[f].text.kind, invocation[r])

\* A process that was stopped at the renaming has returned nothing for its file.
Unreturned == \A p \in Procs : pc[p] \in Takers => outcome[p][filename[p]] = "CAN_CONTINUE"

ResultInv == /\ RefinementInv /\ ReturnInv /\ WritersConvert /\ NoneUnwanted
             /\ WrittenAsWanted /\ Unreturned

\* A conversion leaves nothing to do.
LEMMA ConvertedNothingToDo ==
  ASSUME NEW kind \in Kind, NEW inv \in Command, ~ IsUnwantedBinary(kind, inv)
  PROVE  NothingToDo(converted(kind, inv), inv)
  BY DEF Kind, Command, IsUnwantedBinary, converted, NothingToDo

LEMMA ResultInit == Init => ResultInv
  <1> SUFFICES ASSUME Init PROVE ResultInv
    OBVIOUS
  <1>1. \A p \in Procs : pc[p] = "unborn"
    BY DEF Init
  <1>2. \A f \in Files, r \in Procs : ~ Replaced(f, r)
    <2>1. \A f \in Files : f \in Names /\ dir[f] = original[f] /\ original[f].by = "user"
      BY DEF Init, UserFile, Names
    <2> QED
      BY <2>1, NamesAssumption DEF Replaced
  <1> QED
    BY <1>1, <1>2, RefinementInit, ReturnInit
    DEF ResultInv, WritersConvert, NoneUnwanted, WrittenAsWanted, Unreturned, Working

LEMMA ReportOfOthers ==
  ASSUME NEW p \in Procs, TypeOK, Step(p) \/ Kill(p), NEW q \in Procs \ {p}
  PROVE  report'[q] = report[q]
  BY DEF Step, Launch, Stat, check_write_access, open_to_read, check_one_file,
     pre_conversion_check, open_to_write, Convert, CloseStreams, Discard, RemoveOriginal,
     RenameTmp, RestoreMode, RestoreOwner, RestoreTimes, Exit, Kill, TypeOK

LEMMA WritersConvertNext ==
  ASSUME ResultInv, NEW p \in Procs, Step(p) \/ Kill(p)
  PROVE  WritersConvert'
  <1> SUFFICES ASSUME NEW q \in Procs, pc'[q] \in Working \ {"open", "check"}
               PROVE  invocation'[q].dst_convention # "NO_CONVENTION"
    BY DEF WritersConvert
  <1> USE DEF ResultInv, RefinementInv, TypeInv
  <1>1. invocation' = invocation
    BY Moves
  <1>2. CASE q # p
    BY <1>1, <1>2, Moves DEF WritersConvert
  <1>3. CASE q = p
    <2>1. CASE pc[p] = "idle"
      <3>1. pc'[p] = "access"
        BY <1>3, <2>1, Leads DEF Working
      <3> QED
        BY <1>1, <1>3, <2>1, <3>1, ActsByPlace DEF Stat, Exit, Return, Goto, TypeOK
    <2>2. CASE pc[p] = "open"
      BY <1>1, <1>3, <2>2, Leads, Moves DEF Working
    <2>3. pc[p] \in {"idle", "open"} \cup (Working \ {"open", "check"})
      BY <1>3, Leads, ActsByPlace DEF Working
    <2> QED
      BY <1>1, <1>3, <2>1, <2>2, <2>3 DEF WritersConvert
  <1> QED
    BY <1>2, <1>3

LEMMA NoneUnwantedNext ==
  ASSUME ResultInv, NEW p \in Procs, Step(p) \/ Kill(p)
  PROVE  NoneUnwanted'
  <1> SUFFICES ASSUME NEW q \in Procs,
                      pc'[q] \in {"remove", "rename"} \/ (pc'[q] = "close" /\ report'[q] = "ok")
               PROVE  ~ IsUnwantedBinary(in'[q].text.kind, invocation'[q])
    BY DEF NoneUnwanted, IsUnwantedBinary
  <1> USE DEF ResultInv, RefinementInv, TypeInv
  <1>1. invocation' = invocation
    BY Moves
  <1>2. CASE q # p
    <2>1. /\ pc'[q] = pc[q] /\ in'[q] = in[q] /\ report'[q] = report[q]
      BY <1>2, Moves, Remembers, ReportOfOthers
    <2> QED
      BY <1>1, <2>1 DEF NoneUnwanted
  <1>3. CASE q = p
    <2>1. pc[p] \in {"convert", "close", "remove"} /\ in'[p] = in[p]
      BY <1>3, Moves, Remembers
    <2>2. CASE pc[p] = "convert"
      <3>1. Convert(p) /\ report'[p] = "ok"
        BY <1>3, <2>2, ActsByPlace, Moves DEF Kill, Goto, TypeOK
      <3> QED
        BY <1>1, <1>3, <2>1, <3>1 DEF Convert, TypeOK
    <2>3. CASE pc[p] = "close"
      <3>1. report[p] = "ok"
        <4>1. pc'[p] = "remove"
          BY <1>3, <2>3, Leads
        <4>2. CloseStreams(p)
          BY <2>3, <4>1, ActsByPlace DEF Kill, Goto, TypeOK
        <4> QED
          BY <4>1, <4>2 DEF CloseStreams, Goto, TypeOK
      <3> QED
        BY <1>1, <1>3, <2>1, <2>3, <3>1 DEF NoneUnwanted
    <2>4. CASE pc[p] = "remove"
      BY <1>1, <1>3, <2>1, <2>4 DEF NoneUnwanted
    <2> QED
      BY <2>1, <2>3, <2>2, <2>4
  <1> QED
    BY <1>2, <1>3

\* What stands under a file's name keeps its text and its maker, goes away, or comes
\* from a process that made it as it wants it.
LEMMA TextStays ==
  ASSUME ResultInv, NEW p \in Procs, Step(p) \/ Kill(p), NEW f \in Files, Present(f)'
  PROVE  \/ Present(f) /\ dir'[f].text = dir[f].text /\ dir'[f].by = dir[f].by
         \/ /\ f = filename[p] /\ Renames(p) /\ dir'[f].by = p /\ Converts(p)
            /\ NothingToDo(dir'[f].text.kind, invocation[p])
  <1> USE DEF ResultInv, RefinementInv, TypeInv
  <1> /\ f \in Names /\ tmp(p) # f /\ filename[p] \in Files /\ dir \in Directories
      /\ tmp(p) \in Names /\ tmp(p) \notin Files /\ Files \subseteq Names
    BY NamesAssumption DEF TypeOK, Names, Directories
  <1>1. CASE SameTexts
    BY <1>1 DEF SameTexts
  <1>2. CASE WorksOnTmp(p)
    BY <1>2 DEF WorksOnTmp
  <1>3. CASE Removes(p)
    BY <1>3 DEF Removes, Directories
  <1>4. CASE Renames(p) /\ f # filename[p]
    BY <1>4 DEF Renames, Directories
  <1>5. CASE Renames(p) /\ f = filename[p]
    <2>1. dir'[f] = dir[tmp(p)] /\ pc[p] = "rename"
      BY <1>5 DEF Renames, Directories
    <2>2. dir[tmp(p)].text.kind = converted(in[p].text.kind, invocation[p])
      BY <2>1 DEF MadeOfRead
    <2>3. ~ IsUnwantedBinary(in[p].text.kind, invocation[p]) /\ Converts(p)
      BY <2>1 DEF NoneUnwanted, WritersConvert, Working
    <2>4. in[p].text.kind \in Kind /\ invocation[p] \in Command
      BY DEF TypeOK, Inode, Text
    <2>5. dir[tmp(p)].by = p
      BY <2>1 DEF ReturnInv, TmpIsMine, Owning
    <2> QED
      BY <1>5, <2>1, <2>3, <2>2, <2>4, <2>5, ConvertedNothingToDo
  <1> QED
    BY <1>1, <1>2, <1>3, <1>4, <1>5, Effects

LEMMA ResultNext ==
  ASSUME DistinctNames, ~ May("close"), ResultInv, [Next]_vars
  PROVE  ResultInv'
  <1>1. RefinementInv' /\ ReturnInv'
    BY RefinementNext, ReturnNext DEF ResultInv
  <1>2. CASE UNCHANGED vars
    BY <1>1, <1>2 DEF vars, ResultInv, WritersConvert, NoneUnwanted, WrittenAsWanted,
                      Unreturned, Replaced, IsUnwantedBinary, NothingToDo
  <1>3. ASSUME NEW p \in Procs, Step(p) \/ Kill(p) PROVE ResultInv'
    <2>0. TypeInv /\ TypeOK
      BY DEF ResultInv, RefinementInv, TypeInv
    <2>1. WritersConvert' /\ NoneUnwanted'
      BY <1>3, WritersConvertNext, NoneUnwantedNext
    <2>2. WrittenAsWanted'
      <3> SUFFICES ASSUME NEW f \in Files, NEW r \in Procs, Present(f)', dir'[f].by = r
                   PROVE  /\ invocation'[r].dst_convention # "NO_CONVENTION"
                          /\ NothingToDo(dir'[f].text.kind, invocation'[r])
        BY DEF WrittenAsWanted, Replaced, NothingToDo
      <3>1. invocation' = invocation
        BY <1>3, <2>0, Moves
      <3>2. CASE Present(f) /\ dir'[f].text = dir[f].text /\ dir'[f].by = dir[f].by
        BY <3>1, <3>2 DEF ResultInv, WrittenAsWanted, Replaced
      <3> QED
        BY <1>3, <3>1, <3>2, TextStays
    <2>3. Unreturned'
      <3> SUFFICES ASSUME NEW q \in Procs, pc'[q] \in Takers
                   PROVE  outcome'[q][filename'[q]] = "CAN_CONTINUE"
        BY DEF Unreturned
      <3>1. CASE q # p
        BY <1>3, <2>0, <3>1, Moves, Remembers, ReturnMoves DEF ResultInv, Unreturned
      <3>2. CASE q = p
        <4>1. pc[p] \in {"remove", "rename"} /\ filename'[p] = filename[p]
          BY <1>3, <2>0, <3>2, Moves, Remembers
        <4>2. outcome'[p] = outcome[p]
          BY <1>3, <2>0, <3>2, <4>1, ReturnMoves DEF TakesOff, Ends, Returns, GoesOn
        <4> QED
          BY <3>2, <4>1, <4>2 DEF ResultInv, ReturnInv, NotYet, Before
      <3> QED
        BY <3>1, <3>2
    <2> QED
      BY <1>1, <2>1, <2>2, <2>3 DEF ResultInv
  <1> QED
    BY <1>2, <1>3 DEF Next

--------------------------------------------------------------------------------
(* What DONE says.                                                          *)

\* What stands under the file's name, if anything, leaves the process nothing to do.
Settled(p, f) == Present(f) => NothingToDo(dir[f].text.kind, invocation[p])

\* Among processes of one command line a file stays settled, and a renaming settles it.
LEMMA SettledStays ==
  ASSUME Agreeing, ResultInv, NEW p \in Procs, Step(p) \/ Kill(p),
         NEW q \in Procs, Converts(q), NEW f \in Files
  PROVE  /\ Settled(q, f) => Settled(q, f)'
         /\ Renames(p) /\ f = filename[p] => Settled(q, f)'
  <1>1. invocation' = invocation
    BY Moves DEF ResultInv, RefinementInv, TypeInv
  <1>2. ASSUME Present(f)', Settled(q, f) \/ (Renames(p) /\ f = filename[p])
        PROVE  NothingToDo(dir'[f].text.kind, invocation[q])
    <2>1. CASE Present(f) /\ dir'[f].text = dir[f].text /\ dir'[f].by = dir[f].by
      <3>1. ~ (Renames(p) /\ f = filename[p])
        BY <2>1 DEF ResultInv, RefinementInv, TakenOnce, Renames
      <3> QED
        BY <1>2, <2>1, <3>1 DEF Settled
    <2>2. CASE Converts(p) /\ NothingToDo(dir'[f].text.kind, invocation[p])
      BY <2>2 DEF Agreeing
    <2> QED
      BY <1>2, <2>1, <2>2, TextStays
  <1> QED
    BY <1>1, <1>2 DEF Settled, NothingToDo

\* What a scan that stops early has seen: a foreign ending, or a control character.
LEMMA PartOfAScan ==
  ASSUME NEW kind, NEW inv, NEW scan \in reports_of_a_part(kind, inv)
  PROVE  \/ \E b, met : /\ met \cap Foreign(kind, inv) # {} /\ met \subseteq kind.endings
                        /\ scan = report_of(b, TRUE, met)
         \/ IsUnwantedBinary(kind, inv) /\ \E met : scan = report_of(TRUE, FALSE, met)
  <1> DEFINE unwanted == IsUnwantedBinary(kind, inv)
             foreign  == Foreign(kind, inv)
             at_a_LF  == {S \in SUBSET kind.endings : \E c \in foreign : S \cap foreign = {c}}
             unended  == {S \in SUBSET (kind.endings \ foreign) : unwanted}
  <1>1. \/ \E met \in at_a_LF : scan = report_of(FALSE, TRUE, met)
        \/ \E met \in at_a_LF : scan = report_of(kind.binary /\ ~ unwanted, TRUE, met)
        \/ \E met \in unended : scan = report_of(TRUE, FALSE, met)
    BY DEF reports_of_a_part
  <1>2. \A met \in at_a_LF : met \cap foreign # {} /\ met \subseteq kind.endings
    OBVIOUS
  <1>3. \A met \in unended : unwanted
    OBVIOUS
  <1> HIDE DEF at_a_LF, unended
  <1> QED
    BY <1>1, <1>2, <1>3

\* A report for which the dry scan says that there is nothing to do was made of a text
\* that leaves nothing to do.
LEMMA VerdictIsTrue ==
  ASSUME NEW kind \in Kind, NEW inv \in Command, inv.dst_convention # "NO_CONVENTION",
         NEW scan \in scan_reports(kind, inv), pre_conversion_verdict(scan, inv) = "DONE"
  PROVE  NothingToDo(kind, inv)
  <1> DEFINE dst == inv.dst_convention
             met == {c \in LineEndings : scan.count_by_convention[c] > 0}
             src == get_source_convention(scan.count_by_convention)
  <1>1. dst \in LineEndings /\ kind.endings \subseteq LineEndings
    BY DEF Command, Targets, Kind
  <1>2. /\ ~ (scan.contains_non_text_chars /\ ~ inv.binaries)
        /\ needs_no_conversion(src, scan.has_final_eol, inv)
    BY DEF pre_conversion_verdict
  <1>3. ASSUME NEW b, NEW e, NEW seen, seen \subseteq LineEndings
        PROVE  {c \in LineEndings : report_of(b, e, seen).count_by_convention[c] > 0} = seen
    <2>1. \A c \in LineEndings : report_of(b, e, seen).count_by_convention[c]
                                   = IF c \in seen THEN 1 ELSE 0
      BY DEF report_of
    <2> QED
      BY <1>3, <2>1
  <1>4. src = "NO_CONVENTION" => met = {}
    BY DEF get_source_convention, LineEndings
  <1>5. src = dst => met = {dst}
    BY <1>1 DEF get_source_convention, LineEndings
  <1> HIDE DEF dst, src
  <1>6. met \subseteq {dst}
    BY <1>2, <1>4, <1>5 DEF needs_no_conversion, dst
  <1>7. Foreign(kind, inv) = {}
    <2> SUFFICES ASSUME Foreign(kind, inv) # {} PROVE FALSE
      OBVIOUS
    <2>1. scan \in reports_of_a_part(kind, inv)
      BY DEF scan_reports
    <2>2. CASE \E b, seen : /\ seen \cap Foreign(kind, inv) # {} /\ seen \subseteq kind.endings
                            /\ scan = report_of(b, TRUE, seen)
      <3> PICK b, seen : /\ seen \cap Foreign(kind, inv) # {} /\ seen \subseteq kind.endings
                         /\ scan = report_of(b, TRUE, seen)
        BY <2>2
      <3>1. dst \notin Foreign(kind, inv) /\ seen \subseteq LineEndings
        BY <1>1 DEF Foreign, dst
      <3>2. met = seen
        BY <1>3, <3>1
      <3> QED
        BY <1>6, <3>1, <3>2
    <2>3. CASE IsUnwantedBinary(kind, inv) /\ \E seen : scan = report_of(TRUE, FALSE, seen)
      BY <1>2, <2>3 DEF report_of, IsUnwantedBinary
    <2> QED
      BY <2>1, <2>3, <2>2, PartOfAScan
  <1>8. ~ IsUnwantedBinary(kind, inv)
    <2> SUFFICES ASSUME IsUnwantedBinary(kind, inv) PROVE FALSE
      OBVIOUS
    <2>1. \E seen : scan = report_of(TRUE, FALSE, seen)
      BY <1>7, PartOfAScan DEF scan_reports
    <2> QED
      BY <1>2, <2>1 DEF report_of, IsUnwantedBinary
  <1>9. scan = report_of(kind.binary, kind.eol, kind.endings)
    BY <1>7, <1>8 DEF scan_reports
  <1>10. met = kind.endings /\ scan.has_final_eol = kind.eol
    BY <1>1, <1>3, <1>9 DEF report_of
  <1>11. inv.final_char_has_to_be_eol => kind.eol
    BY <1>2, <1>10 DEF needs_no_conversion
  <1>12. kind.binary => inv.binaries
    BY <1>8 DEF IsUnwantedBinary
  <1> QED
    BY <1>6, <1>10, <1>11, <1>12 DEF NothingToDo, dst

\* Where a process that is asked to convert comes to say DONE.
LEMMA SaysDone ==
  ASSUME NEW p \in Procs, TypeOK, Step(p) \/ Kill(p), NEW f \in Files,
         outcome'[p][f] = "DONE", outcome[p][f] # "DONE"
  PROVE  /\ f = filename[p] /\ filename'[p] = filename[p]
         /\ \/ pc[p] \in Behind \cup {"check"}
            \/ /\ pc[p] = "precheck"
               /\ \E scan \in scan_reports(in[p].text.kind, invocation[p]) :
                    pre_conversion_verdict(scan, invocation[p]) = "DONE"
  <1> outcome \in Outcomes /\ filename \in [Procs -> Files] /\ pc \in [Procs -> Places]
    BY DEF TypeOK, Outcomes, Statuses
  <1>1. \A g \in Files, status \in Statuses : Return(p, g, status) =>
          outcome'[p] = [outcome[p] EXCEPT ![g] = status]
    BY DEF Return, Outcomes
  <1>2. /\ "DONE" \in Statuses /\ "UNREADABLE" \in Statuses /\ "SKIPPED_BINARY" \in Statuses
        /\ "FILEOP_ERROR" \in Statuses /\ outcome[p] \in [Files -> Statuses]
    BY DEF Statuses, FileOp_Status, Outcomes
  <1>3. outcome' # outcome
    OBVIOUS
  <1>4. \A g \in Files, status \in Statuses : Return(p, g, status) => f = g /\ status = "DONE"
    BY <1>1, <1>2
  <1>5. pc[p] # "idle"
    <2>1. ~ Stat(p)
      <3> SUFFICES ASSUME Stat(p) PROVE FALSE
        OBVIOUS
      <3>1. PICK g \in Files : \/ Return(p, g, "UNREADABLE") \/ Return(p, g, "SKIPPED_BINARY")
                               \/ UNCHANGED outcome
        BY DEF Stat, TypeOK
      <3> QED
        BY <1>2, <1>3, <1>4, <3>1
    <2> QED
      BY <1>3, <2>1, ActsByPlace DEF Exit
  <1>6. f = filename[p]
    <2>1. \E status \in Statuses : Return(p, filename[p], status)
      <3>1. CASE pre_conversion_check(p)
        <4>1. PICK status \in {"FILEOP_ERROR"} \cup FileOp_Status : Return(p, filename[p], status)
          BY <1>3, <3>1, VerdictIsStatus DEF pre_conversion_check
        <4> QED
          BY <1>2, <4>1 DEF Statuses
      <3>2. CASE check_one_file(p)
        BY <1>2, <3>2 DEF check_one_file
      <3>3. CASE ~ pre_conversion_check(p) /\ ~ check_one_file(p)
        BY <1>2, <1>3, <1>5, <3>3 DEF Step, Launch, Stat, check_write_access, open_to_read,
           open_to_write, Convert, CloseStreams, Discard, RemoveOriginal,
           RenameTmp, RestoreMode, RestoreOwner, RestoreTimes, Exit, Kill
      <3> QED
        BY <3>1, <3>2, <3>3
    <2> QED
      BY <1>4, <2>1
  <1>7. CASE pc[p] = "precheck"
    <2>1. pre_conversion_check(p)
      BY <1>3, <1>7, ActsByPlace DEF Kill
    <2>2. ~ Return(p, filename[p], "FILEOP_ERROR")
      BY <1>2, <1>4
    <2>3. PICK scan \in scan_reports(in[p].text.kind, invocation[p]) :
            Return(p, filename[p], pre_conversion_verdict(scan, invocation[p]))
      BY <1>3, <2>1, <2>2 DEF pre_conversion_check
    <2>4. pre_conversion_verdict(scan, invocation[p]) = "DONE"
      BY <1>4, <2>3, VerdictIsStatus DEF Statuses
    <2> QED
      BY <1>5, <1>6, <1>7, <2>4, Remembers
  <1>8. CASE pc[p] \notin Behind \cup {"check", "precheck"}
    BY <1>2, <1>3, <1>4, <1>5, <1>8 DEF Behind, Step, Launch, Stat, check_write_access,
       open_to_read, check_one_file, pre_conversion_check, open_to_write, Convert, CloseStreams,
       Discard, RemoveOriginal, RenameTmp, RestoreMode, RestoreOwner, RestoreTimes, Exit, Kill
  <1> QED
    BY <1>5, <1>6, <1>7, <1>8, Remembers

\* What a process that is asked to convert has open for its dry scan is what stands in
\* the file's place, unless that is settled.
ScansWhatIsThere(p) ==
  pc[p] = "precheck" /\ Present(filename[p]) =>
    \/ dir[filename[p]].text.kind = in[p].text.kind
    \/ NothingToDo(dir[filename[p]].text.kind, invocation[p])

DoneInv ==
  Agreeing =>
    \A p \in Procs : Converts(p) =>
      /\ pc[p] # "check"
      /\ ScansWhatIsThere(p)
      /\ pc[p] \in Behind => Settled(p, filename[p])
      /\ \A f \in Files : outcome[p][f] = "DONE" => Settled(p, f)

LEMMA DoneInvInit == Init => DoneInv
  BY DEF Init, DoneInv, ScansWhatIsThere, Behind

LEMMA DoneInvNext ==
  ASSUME DistinctNames, ~ May("close"), ResultInv, DoneInv, [Next]_vars
  PROVE  DoneInv'
  <1>1. CASE UNCHANGED vars
    BY <1>1 DEF vars, DoneInv, ScansWhatIsThere, Settled, NothingToDo, Agreeing
  <1>2. ASSUME NEW p \in Procs, Step(p) \/ Kill(p) PROVE DoneInv'
    <2> TypeInv /\ TypeOK
      BY DEF ResultInv, RefinementInv, TypeInv
    <2>0. invocation' = invocation
      BY <1>2, Moves
    <2> SUFFICES ASSUME Agreeing, NEW q \in Procs, Converts(q)
                 PROVE  /\ pc'[q] # "check"
                        /\ ScansWhatIsThere(q)'
                        /\ pc'[q] \in Behind => Settled(q, filename[q])'
                        /\ \A f \in Files : outcome'[q][f] = "DONE" => Settled(q, f)'
      BY <2>0 DEF DoneInv, Agreeing
    <2> PICK f \in Files : f = filename[q]
      BY DEF TypeOK
    <2>1. /\ pc[q] # "check" /\ ScansWhatIsThere(q)
          /\ pc[q] \in Behind => Settled(q, filename[q])
          /\ \A g \in Files : outcome[q][g] = "DONE" => Settled(q, g)
          /\ filename[q] \in Files
      BY DEF DoneInv, TypeOK
    <2>2. CASE q # p
      <3>1. /\ pc'[q] = pc[q] /\ filename'[q] = filename[q] /\ in'[q] = in[q]
            /\ outcome'[q] = outcome[q]
        BY <1>2, <2>2, Moves, Remembers, ReturnMoves
      <3>2. ScansWhatIsThere(q)'
        <4> SUFFICES ASSUME pc[q] = "precheck", Present(f)'
                     PROVE  \/ dir'[f].text.kind = in[q].text.kind
                            \/ NothingToDo(dir'[f].text.kind, invocation[q])
          BY <2>0, <3>1 DEF ScansWhatIsThere, NothingToDo
        <4>1. CASE Renames(p) /\ f = filename[p]
          BY <1>2, <2>0, <2>1, <4>1, SettledStays DEF Settled, NothingToDo
        <4>2. CASE Present(f) /\ dir'[f].text = dir[f].text
          BY <2>1, <4>2 DEF ScansWhatIsThere
        <4> QED
          BY <1>2, <4>1, <4>2, TextStays
      <3>3. Settled(q, f) => Settled(q, f)'
        BY <1>2, SettledStays
      <3>4. Settled(q, f)' => Settled(q, filename[q])'
        BY <3>1 DEF Settled
      <3>5. \A g \in Files : outcome'[q][g] = "DONE" => Settled(q, g)'
        BY <1>2, <2>1, <3>1, SettledStays
      <3> QED
        BY <2>1, <3>1, <3>2, <3>3, <3>4, <3>5
    <2>3. CASE q = p
      <3>1. pc'[p] # "check"
        <4>1. pc'[p] = "check" => pc[p] = "open"
          BY <1>2, Leads, ActsByPlace DEF Working
        <4>2. pc[p] = "open" => pc'[p] # "check"
          BY <1>2, <2>3, ActsByPlace DEF open_to_read, Kill, Return, Goto, TypeOK
        <4> QED
          BY <4>1, <4>2
      <3>2. ScansWhatIsThere(p)'
        <4> SUFFICES ASSUME pc'[p] = "precheck" PROVE dir'[filename'[p]].text = in'[p].text
          BY <2>0 DEF ScansWhatIsThere
        <4>1. pc[p] = "open"
          BY <1>2, Leads, ActsByPlace DEF Working
        <4>2. open_to_read(p)
          BY <1>2, <4>1, ActsByPlace DEF Kill, Goto, TypeOK
        <4>3. in' = [in EXCEPT ![p] = dir[filename[p]]] /\ dir' = dir /\ filename' = filename
          BY <4>1, <4>2 DEF open_to_read, Return, Goto, TypeOK
        <4> QED
          BY <4>3 DEF TypeOK
      <3>3. pc'[p] \in Behind => Settled(p, filename[p])'
        <4> SUFFICES ASSUME pc'[p] \in Behind PROVE Settled(p, filename[p])'
          OBVIOUS
        <4>1. pc[p] \in Behind \cup {"rename"} /\ filename'[p] = filename[p]
          BY <1>2, Leads, ActsByPlace, Remembers DEF Behind, Working
        <4>2. pc[p] = "rename" => Renames(p)
          BY <1>2, ActsByPlace DEF RenameTmp, Kill, Renames, Goto, Behind, TypeOK
        <4>3. Settled(p, f)'
          BY <1>2, <2>1, <2>3, <4>1, <4>2, SettledStays
        <4> QED
          BY <2>3, <4>1, <4>3 DEF Settled
      <3>4. ASSUME NEW g \in Files, outcome'[p][g] = "DONE" PROVE Settled(p, g)'
        <4>1. CASE outcome[p][g] = "DONE"
          BY <1>2, <2>1, <2>3, <4>1, SettledStays
        <4>2. CASE outcome[p][g] # "DONE" /\ pc[p] \in Behind
          BY <1>2, <2>1, <2>3, <3>4, <4>2, SaysDone, SettledStays
        <4>3. CASE outcome[p][g] # "DONE" /\ pc[p] \notin Behind
          <5>1. /\ g = filename[p] /\ pc[p] = "precheck"
                /\ \E scan \in scan_reports(in[p].text.kind, invocation[p]) :
                     pre_conversion_verdict(scan, invocation[p]) = "DONE"
            BY <1>2, <2>1, <2>3, <3>4, <4>3, SaysDone
          <5>2. in[p].text.kind \in Kind /\ invocation[p] \in Command
            BY DEF TypeOK, Inode, Text
          <5>3. NothingToDo(in[p].text.kind, invocation[p])
            BY <2>3, <5>1, <5>2, VerdictIsTrue
          <5>4. Settled(p, g)
            BY <2>1, <2>3, <5>1, <5>3 DEF ScansWhatIsThere, Settled
          <5> QED
            BY <1>2, <2>3, <5>4, SettledStays
        <4> QED
          BY <4>1, <4>2, <4>3
      <3> QED
        BY <2>3, <3>1, <3>2, <3>3, <3>4
    <2> QED
      BY <2>2, <2>3
  <1> QED
    BY <1>1, <1>2 DEF Next

\* Among any number of processes that convert in the same way, with any failure but that
\* of fclose and any kill: DONE is said only of a file that is as wanted, or that another
\* process has in hand.
THEOREM DoneIsAlwaysConverted ==
  ASSUME DistinctNames, ~ May("close")
  PROVE  Spec => []DoneIsConverted
  <1>1. Init => ResultInv /\ DoneInv
    BY ResultInit, DoneInvInit
  <1>2. ResultInv /\ DoneInv /\ [Next]_vars => (ResultInv /\ DoneInv)'
    BY ResultNext, DoneInvNext
  <1>3. ASSUME ResultInv, DoneInv PROVE DoneIsConverted
    <2> SUFFICES ASSUME Agreeing, NEW p \in Procs, NEW f \in Files,
                        outcome[p][f] = "DONE", Converts(p)
                 PROVE  \/ /\ Present(f) /\ dir[f].text.whole
                           /\ NothingToDo(dir[f].text.kind, invocation[p])
                        \/ \E q \in Procs \ {p} : HasTaken(q, f)
      BY DEF DoneIsConverted
    <2>1. CASE Present(f)
      BY <1>3, <2>1 DEF ResultInv, RefinementInv, CopyInv, InPlace, IsCopy, DoneInv, Settled
    <2>2. CASE ~ Present(f)
      <3>1. PICK q \in Procs : HasTaken(q, f)
        BY <1>3, <2>2 DEF ResultInv, RefinementInv, CopyInv, AbsentOnlyInTheWindow
      <3>2. q # p
        BY <1>3, <3>1 DEF HasTaken, ResultInv, Unreturned
      <3> QED
        BY <3>1, <3>2
    <2> QED
      BY <2>1, <2>2
  <1> QED
    BY <1>1, <1>2, <1>3, PTL DEF Spec

--------------------------------------------------------------------------------
(* The metadata.                                                            *)

\* Among all that is read, a text without line endings has no final one.
Ended(kind) == kind.eol => kind.endings # {}
KindsEnded ==
  /\ \A f \in Files : Present(f) => Ended(dir[f].text.kind)
  /\ \A p \in Procs : Ended(in[p].text.kind)

LEMMA KindsEndedInit == Init => KindsEnded
  <1> SUFFICES ASSUME Init PROVE KindsEnded
    OBVIOUS
  <1>1. \A f \in Files : dir[f] = original[f]
    BY DEF Init, Names
  <1>2. \A f \in Files : original[f].text.kind \in Kinds
    BY DEF Init, UserFile
  <1>3. \A p \in Procs : filename[p] \in Files /\ in[p] = original[filename[p]]
    BY NamesAssumption DEF Init
  <1> QED
    BY <1>1, <1>2, <1>3, KindAssumption DEF KindsEnded, Ended

LEMMA KindsEndedNext ==
  ASSUME ResultInv, KindsEnded, NEW p \in Procs, Step(p) \/ Kill(p)
  PROVE  KindsEnded'
  <1> USE DEF ResultInv, RefinementInv, TypeInv
  <1>1. ASSUME NEW f \in Files, Present(f)' PROVE dir'[f].text.kind.eol => dir'[f].text.kind.endings # {}
    <2>1. CASE Present(f) /\ dir'[f].text = dir[f].text
      BY <2>1 DEF KindsEnded, Ended
    <2>2. CASE Renames(p) /\ f = filename[p]
      <3>1. dir'[f] = dir[tmp(p)] /\ pc[p] = "rename"
        BY <2>2, NamesAssumption DEF Renames, TypeOK, Names
      <3>2. dir[tmp(p)].text.kind = converted(in[p].text.kind, invocation[p])
        BY <3>1 DEF MadeOfRead
      <3>3. in[p].text.kind \in Kind /\ Ended(in[p].text.kind)
        BY DEF KindsEnded, TypeOK, Inode, Text
      <3> QED
        BY <3>1, <3>2, <3>3 DEF Ended, converted, Kind
    <2> QED
      BY <1>1, <2>1, <2>2, TextStays
  <1>2. ASSUME NEW q \in Procs PROVE in'[q].text.kind.eol => in'[q].text.kind.endings # {}
    <2>1. CASE in'[q] = in[q]
      BY <2>1 DEF KindsEnded, Ended
    <2>2. CASE q = p /\ pc[p] = "open" /\ in'[p] # in[p]
      <3>1. open_to_read(p)
        BY <2>2, ActsByPlace DEF Kill
      <3>2. Present(filename[p]) /\ in'[p] = dir[filename[p]] /\ filename[p] \in Files
        BY <2>2, <3>1 DEF open_to_read, TypeOK
      <3> QED
        BY <2>2, <3>2 DEF KindsEnded, Ended
    <2> QED
      BY <2>1, <2>2, Remembers
  <1> QED
    BY <1>1, <1>2 DEF KindsEnded, Ended

\* chmod, chown and utime, when they do not fail, set what was asked of the file that is
\* there; reading sets nothing but the time of the access.
LEMMA SetMetaSets ==
  ASSUME NEW p \in Procs, NEW fault, ~ May(fault), NEW meta, SetMeta(p, fault, meta),
         dir \in Directories, NEW f \in Files, Present(f)
  PROVE  dir'[f].meta = IF f = filename[p] THEN meta ELSE dir[f].meta
  <1>1. f \in Names /\ dir[f] \in Inode
    BY DEF Directories, Names
  <1>2. CASE f = filename[p]
    <2> DEFINE inode == [dir[f] EXCEPT !.meta = meta]
    <2>1. dir' = [dir EXCEPT ![f] = inode]
      BY <1>2 DEF SetMeta
    <2>2. inode.meta = meta
      BY <1>1 DEF Inode
    <2> HIDE DEF inode
    <2> QED
      BY <1>1, <1>2, <2>1, <2>2 DEF Directories
  <1>3. CASE f # filename[p]
    BY <1>1, <1>3 DEF SetMeta, Directories
  <1> QED
    BY <1>2, <1>3

LEMMA ReadingSets ==
  ASSUME NEW p \in Procs, ReadFrom(p), dir \in Directories, NEW f \in Files, Present(f)
  PROVE  /\ dir'[f].meta.owner = dir[f].meta.owner /\ dir'[f].meta.mode = dir[f].meta.mode
         /\ dir'[f].meta.mtime = dir[f].meta.mtime
  <1>1. f \in Names /\ dir[f] \in Inode /\ dir[f].meta \in Meta
    BY DEF Directories, Names, Inode
  <1>2. CASE UNCHANGED dir
    BY <1>2
  <1>3. CASE dir' = [dir EXCEPT ![filename[p]].meta.atime = "new"] /\ f = filename[p]
    <2> DEFINE meta  == [dir[f].meta EXCEPT !.atime = "new"]
               inode == [dir[f] EXCEPT !.meta = meta]
    <2>1. /\ meta.owner = dir[f].meta.owner /\ meta.mode = dir[f].meta.mode
          /\ meta.mtime = dir[f].meta.mtime
      BY <1>1 DEF Meta
    <2> HIDE DEF meta
    <2>2. inode.meta = meta
      BY <1>1 DEF Inode
    <2>3. dir' = [dir EXCEPT ![f] = inode]
      BY <1>3 DEF meta
    <2> HIDE DEF inode
    <2> QED
      BY <1>1, <2>1, <2>2, <2>3 DEF Directories
  <1>4. CASE dir' = [dir EXCEPT ![filename[p]].meta.atime = "new"] /\ f # filename[p]
    BY <1>1, <1>4 DEF Directories
  <1> QED
    BY <1>2, <1>3, <1>4 DEF ReadFrom

\* The process calls chmod, chown or utime on the file.
Calls(p, f, place) == pc[p] = place /\ f = filename[p] /\ pc'[p] # "killed"

LEMMA MetaMoves ==
  ASSUME ~ May("chmod"), ~ May("chown"), ~ May("utime"), ResultInv,
         NEW p \in Procs, Step(p) \/ Kill(p), NEW f \in Files, Present(f), Present(f)',
         ~ Renames(p)
  PROVE  /\ dir'[f].meta.owner = IF Calls(p, f, "chown") THEN statinfo[p].owner
                                 ELSE dir[f].meta.owner
         /\ dir'[f].meta.mtime = IF Calls(p, f, "utime") THEN statinfo[p].mtime
                                 ELSE dir[f].meta.mtime
         /\ dir'[f].meta.mode = IF Calls(p, f, "chmod") THEN statinfo[p].mode
                                ELSE IF Calls(p, f, "chown") /\ dir[f].meta.mode = "special" THEN "plain"
                                ELSE dir[f].meta.mode
  <1> USE DEF ResultInv, RefinementInv, TypeInv
  <1> /\ f \in Names /\ tmp(p) # f /\ dir \in Directories /\ tmp(p) \in Names
      /\ filename[p] \in Files /\ pc \in [Procs -> Places]
    BY NamesAssumption DEF TypeOK, Names, Directories
  <1>0. dir[f].meta \in Meta /\ statinfo[p] \in Meta
    BY DEF Directories, Inode, TypeOK
  <1>1. CASE dir'[f] = dir[f] /\ pc[p] \notin {"chmod", "chown", "utime"}
    BY <1>1 DEF Calls
  <1>2. CASE Kill(p)
    BY <1>2 DEF Kill, Calls, Goto
  <1>3. CASE ReadFrom(p) /\ pc[p] \notin {"chmod", "chown", "utime"}
    BY <1>3, ReadingSets DEF Calls
  <1>4. CASE RestoreMode(p)
    <2>1. pc[p] = "chmod" /\ pc'[p] = "chown" /\ SetMeta(p, "chmod", ModeRestored(p))
      BY <1>4 DEF RestoreMode, Goto
    <2>2. dir'[f].meta = IF f = filename[p] THEN ModeRestored(p) ELSE dir[f].meta
      BY <2>1, SetMetaSets
    <2> QED
      BY <1>0, <2>1, <2>2 DEF Calls, ModeRestored, MetaOf, Meta
  <1>5. CASE RestoreOwner(p)
    <2> DEFINE meta == [MetaOf(p) EXCEPT !.owner = statinfo[p].owner,
                                         !.mode = IF @ = "special" THEN "plain" ELSE @]
    <2>1. pc[p] = "chown" /\ pc'[p] # "killed" /\ SetMeta(p, "chown", meta)
      BY <1>5 DEF RestoreOwner, Goto, Return
    <2>2. f = filename[p] => /\ meta.owner = statinfo[p].owner
                             /\ meta.mode = IF dir[f].meta.mode = "special" THEN "plain"
                                            ELSE dir[f].meta.mode
                             /\ meta.mtime = dir[f].meta.mtime
      BY <1>0 DEF MetaOf, Meta
    <2> HIDE DEF meta
    <2>3. dir'[f].meta = IF f = filename[p] THEN meta ELSE dir[f].meta
      BY <2>1, SetMetaSets
    <2> QED
      BY <2>1, <2>2, <2>3 DEF Calls
  <1>6. CASE RestoreTimes(p)
    <2> DEFINE meta == [MetaOf(p) EXCEPT !.mtime = statinfo[p].mtime, !.atime = statinfo[p].atime]
    <2>1. pc[p] = "utime" /\ pc'[p] # "killed" /\ SetMeta(p, "utime", meta)
      BY <1>6 DEF RestoreTimes, Goto, Return
    <2>2. f = filename[p] => /\ meta.mtime = statinfo[p].mtime
                             /\ meta.owner = dir[f].meta.owner /\ meta.mode = dir[f].meta.mode
      BY <1>0 DEF MetaOf, Meta
    <2> HIDE DEF meta
    <2>3. dir'[f].meta = IF f = filename[p] THEN meta ELSE dir[f].meta
      BY <2>1, SetMetaSets
    <2> QED
      BY <2>1, <2>2, <2>3 DEF Calls
  <1>7. CASE RenameTmp(p) \/ RemoveOriginal(p)
    <2>1. dir'[f] = dir[f]
      BY <1>7 DEF RenameTmp, Renames, RemoveOriginal, Goto, Directories
    <2> QED
      BY <1>1, <1>7, <2>1 DEF RenameTmp, RemoveOriginal
  <1>8. CASE check_one_file(p) \/ pre_conversion_check(p) \/ Convert(p)
    BY <1>3, <1>8 DEF check_one_file, pre_conversion_check, Convert
  <1>9. CASE \/ Launch(p) \/ Stat(p) \/ check_write_access(p) \/ open_to_read(p) \/ Exit(p)
             \/ open_to_write(p) \/ CloseStreams(p) \/ Discard(p)
    <2>1. dir'[f] = dir[f]
      BY <1>9 DEF Launch, Stat, check_write_access, open_to_read, Exit, open_to_write,
         CloseStreams, Discard, Directories
    <2>2. pc[p] \notin {"chmod", "chown", "utime"}
      BY <1>9 DEF Launch, Stat, check_write_access, open_to_read, Exit, open_to_write,
         CloseStreams, Discard
    <2> QED
      BY <1>1, <2>1, <2>2
  <1> QED
    BY <1>2, <1>4, <1>5, <1>6, <1>7, <1>8, <1>9 DEF Step

KeepsDate == \A p \in Procs : invocation[p].keepdate
OwnerKept(meta, f) == meta.owner = original[f].meta.owner
ModeKept(meta, f)  == original[f].meta.mode = "plain" => meta.mode = "plain"
DateKept(meta, f)  == KeepsDate => meta.mtime = original[f].meta.mtime
Kept(meta, f)      == OwnerKept(meta, f) /\ ModeKept(meta, f) /\ DateKept(meta, f)

\* The process that has replaced the file has yet to restore this part of its metadata,
\* or was killed before it did.
Owes(f, places) == \E r \in Procs : Replaced(f, r) /\ filename[r] = f /\ pc[r] \in places

OwnersKept == \A f \in Files : Present(f) =>
                OwnerKept(dir[f].meta, f) \/ Owes(f, {"chmod", "chown", "killed"})
ModesKept  == \A f \in Files : Present(f) =>
                ModeKept(dir[f].meta, f) \/ Owes(f, {"chmod", "killed"})
DatesKept  == \A f \in Files : Present(f) =>
                DateKept(dir[f].meta, f) \/ Owes(f, {"chmod", "chown", "utime", "killed"})

\* What stat said is what the metadata was, unless it was asked between the renaming and
\* the restoring of another process; then the dry scan will find nothing to do.
StatIsTrue(p) ==
  /\ pc[p] \in {"access", "open"} => Kept(statinfo[p], filename[p]) \/ Settled(p, filename[p])
  /\ pc[p] = "precheck" =>
       Kept(statinfo[p], filename[p]) \/ NothingToDo(in[p].text.kind, invocation[p])
  /\ pc[p] \in {"create", "convert", "close", "remove", "rename", "chmod", "chown", "utime"} =>
       Kept(statinfo[p], filename[p])

FilesKept == OwnersKept /\ ModesKept /\ DatesKept
StatsTrue == \A p \in Procs : Converts(p) => StatIsTrue(p)
MetaInv   == KindsEnded /\ (Agreeing => FilesKept /\ StatsTrue)

LEMMA MetaInvInit == Init => MetaInv
  <1> SUFFICES ASSUME Init PROVE FilesKept /\ StatsTrue
    BY KindsEndedInit DEF MetaInv
  <1>1. \A f \in Files : dir[f] = original[f]
    BY DEF Init, Names
  <1>2. \A p \in Procs : pc[p] = "unborn"
    BY DEF Init
  <1> QED
    BY <1>1, <1>2 DEF FilesKept, OwnersKept, ModesKept, DatesKept, OwnerKept, ModeKept, DateKept,
                      StatsTrue, StatIsTrue

\* What a step leaves of a debt: one that the process of the step has paid is gone, and a
\* renaming makes a new one.
LEMMA Debts ==
  ASSUME ResultInv, NEW p \in Procs, Step(p) \/ Kill(p), NEW f \in Files, Present(f)',
         NEW places \in SUBSET (Behind \cup {"killed"}), "killed" \in places
  PROVE  /\ Renames(p) /\ f = filename[p] /\ "chmod" \in places => Owes(f, places)'
         /\ ~ (Renames(p) /\ f = filename[p]) =>
              /\ Present(f)
              /\ Owes(f, places) =>
                   \/ Owes(f, places)'
                   \/ pc[p] \in places /\ Calls(p, f, pc[p]) /\ pc'[p] \notin places
  <1> USE DEF ResultInv, RefinementInv, TypeInv, Replaced
  <1>1. CASE Renames(p) /\ f = filename[p]
    <2>0. ~ Present(f)
      BY <1>1 DEF TakenOnce, Renames
    <2>1. dir'[f].by = p
      BY <2>0, TextStays
    <2>2. filename'[p] = f /\ pc'[p] = "chmod"
      BY <1>1, Remembers DEF Renames
    <2> QED
      BY <1>1, <2>1, <2>2 DEF Owes
  <1>2. CASE ~ (Renames(p) /\ f = filename[p])
    <2>1. Present(f) /\ dir'[f].by = dir[f].by
      BY <1>2, TextStays
    <2> SUFFICES ASSUME Owes(f, places)
                 PROVE  \/ Owes(f, places)'
                        \/ pc[p] \in places /\ Calls(p, f, pc[p]) /\ pc'[p] \notin places
      BY <1>2, <2>1
    <2> PICK r \in Procs : dir[f].by = r /\ filename[r] = f /\ pc[r] \in places
      BY DEF Owes
    <2>2. CASE r # p
      <3>1. filename'[r] = f /\ pc'[r] = pc[r]
        BY <2>2, Moves, Remembers
      <3> QED
        BY <2>1, <3>1 DEF Owes
    <2>3. CASE r = p /\ pc'[p] \in places
      <3>1. pc[p] # "idle"
        BY <2>3 DEF Behind
      <3>2. filename'[p] = f
        BY <2>3, <3>1, Remembers
      <3> QED
        BY <2>1, <2>3, <3>2 DEF Owes
    <2>4. CASE r = p /\ pc'[p] \notin places
      BY <2>4 DEF Calls
    <2> QED
      BY <2>3, <2>2, <2>4
  <1> QED
    BY <1>1, <1>2

LEMMA OwnersKeptNext ==
  ASSUME ~ May("chmod"), ~ May("chown"), ~ May("utime"), ResultInv, OwnersKept,
         NEW p \in Procs, Step(p) \/ Kill(p),
         pc[p] = "chown" => OwnerKept(statinfo[p], filename[p])
  PROVE  OwnersKept'
  <1> SUFFICES ASSUME NEW f \in Files, Present(f)'
               PROVE  \/ dir'[f].meta.owner = original'[f].meta.owner
                      \/ Owes(f, {"chmod", "chown", "killed"})'
    BY DEF OwnersKept, OwnerKept, Owes
  <1> DEFINE places == {"chmod", "chown", "killed"}
  <1>1. original' = original
    BY Moves DEF ResultInv, RefinementInv, TypeInv
  <1>2. places \in SUBSET (Behind \cup {"killed"}) /\ "killed" \in places /\ "chmod" \in places
    BY DEF Behind
  <1>3. pc[p] \in places /\ pc'[p] \notin places => pc[p] = "chown"
    BY Leads, ActsByPlace DEF Working, ResultInv, RefinementInv, TypeInv
  <1> HIDE DEF places
  <1>4. CASE Renames(p) /\ f = filename[p]
    BY <1>2, <1>4, Debts DEF places
  <1>5. CASE ~ (Renames(p) /\ f = filename[p])
    <2>1. /\ Present(f)
          /\ Owes(f, places) => \/ Owes(f, places)'
                                \/ pc[p] \in places /\ Calls(p, f, pc[p]) /\ pc'[p] \notin places
      BY <1>2, <1>5, Debts
    <2>2. dir'[f].meta.owner = IF Calls(p, f, "chown") THEN statinfo[p].owner
                               ELSE dir[f].meta.owner
      <3>1. CASE Renames(p)
        BY <1>5, <3>1, NamesAssumption
        DEF Renames, Calls, ResultInv, RefinementInv, TypeInv, TypeOK, Names
      <3> QED
        BY <2>1, <3>1, MetaMoves
    <2>3. OwnerKept(dir[f].meta, f) \/ Owes(f, places)
      BY <2>1 DEF OwnersKept, places
    <2>4. Calls(p, f, "chown") => statinfo[p].owner = original[f].meta.owner
      BY DEF Calls, OwnerKept
    <2> QED
      BY <1>1, <1>3, <2>1, <2>3, <2>2, <2>4 DEF OwnerKept, places
  <1> QED
    BY <1>4, <1>5

LEMMA ModesKeptNext ==
  ASSUME ~ May("chmod"), ~ May("chown"), ~ May("utime"), ResultInv, ModesKept,
         NEW p \in Procs, Step(p) \/ Kill(p),
         pc[p] = "chmod" => ModeKept(statinfo[p], filename[p])
  PROVE  ModesKept'
  <1> SUFFICES ASSUME NEW f \in Files, Present(f)', original[f].meta.mode = "plain"
               PROVE  dir'[f].meta.mode = "plain" \/ Owes(f, {"chmod", "killed"})'
    <2>1. original' = original
      BY Moves DEF ResultInv, RefinementInv, TypeInv
    <2> QED
      BY <2>1 DEF ModesKept, ModeKept, Owes
  <1> DEFINE places == {"chmod", "killed"}
  <1>2. places \in SUBSET (Behind \cup {"killed"}) /\ "killed" \in places /\ "chmod" \in places
    BY DEF Behind
  <1>3. pc[p] \in places => pc[p] = "chmod"
    BY ActsByPlace DEF Working
  <1> HIDE DEF places
  <1>4. CASE Renames(p) /\ f = filename[p]
    BY <1>2, <1>4, Debts DEF places
  <1>5. CASE ~ (Renames(p) /\ f = filename[p])
    <2>1. /\ Present(f)
          /\ Owes(f, places) => \/ Owes(f, places)'
                                \/ pc[p] \in places /\ Calls(p, f, pc[p]) /\ pc'[p] \notin places
      BY <1>2, <1>5, Debts
    <2>2. dir'[f].meta.mode =
            IF Calls(p, f, "chmod") THEN statinfo[p].mode
            ELSE IF Calls(p, f, "chown") /\ dir[f].meta.mode = "special" THEN "plain"
            ELSE dir[f].meta.mode
      <3>1. CASE Renames(p)
        BY <1>5, <3>1, NamesAssumption
        DEF Renames, Calls, ResultInv, RefinementInv, TypeInv, TypeOK, Names
      <3> QED
        BY <2>1, <3>1, MetaMoves
    <2>3. dir[f].meta.mode = "plain" \/ Owes(f, places)
      BY <2>1 DEF ModesKept, ModeKept, places
    <2>4. Calls(p, f, "chmod") => statinfo[p].mode = "plain"
      BY DEF Calls, ModeKept
    <2> QED
      BY <1>3, <2>1, <2>3, <2>2, <2>4 DEF places
  <1> QED
    BY <1>4, <1>5

LEMMA DatesKeptNext ==
  ASSUME ~ May("chmod"), ~ May("chown"), ~ May("utime"), ResultInv, DatesKept,
         NEW p \in Procs, Step(p) \/ Kill(p),
         pc[p] = "utime" => DateKept(statinfo[p], filename[p])
  PROVE  DatesKept'
  <1> SUFFICES ASSUME NEW f \in Files, Present(f)', KeepsDate
               PROVE  \/ dir'[f].meta.mtime = original[f].meta.mtime
                      \/ Owes(f, {"chmod", "chown", "utime", "killed"})'
    <2>1. original' = original /\ (KeepsDate' <=> KeepsDate)
      BY Moves DEF ResultInv, RefinementInv, TypeInv, KeepsDate
    <2> QED
      BY <2>1 DEF DatesKept, DateKept, Owes
  <1> DEFINE places == {"chmod", "chown", "utime", "killed"}
  <1>2. places \in SUBSET (Behind \cup {"killed"}) /\ "killed" \in places /\ "chmod" \in places
    BY DEF Behind
  <1>3. pc[p] \in places /\ pc'[p] \notin places => pc[p] = "utime"
    <2>1. pc[p] = "chown" => pc'[p] \in {"utime", "killed"}
      BY ActsByPlace DEF RestoreOwner, Kill, Goto, KeepsDate, ResultInv, RefinementInv, TypeInv, TypeOK
    <2> QED
      BY <2>1, Leads, ActsByPlace DEF Working, ResultInv, RefinementInv, TypeInv
  <1> HIDE DEF places
  <1>4. CASE Renames(p) /\ f = filename[p]
    BY <1>2, <1>4, Debts DEF places
  <1>5. CASE ~ (Renames(p) /\ f = filename[p])
    <2>1. /\ Present(f)
          /\ Owes(f, places) => \/ Owes(f, places)'
                                \/ pc[p] \in places /\ Calls(p, f, pc[p]) /\ pc'[p] \notin places
      BY <1>2, <1>5, Debts
    <2>2. dir'[f].meta.mtime = IF Calls(p, f, "utime") THEN statinfo[p].mtime
                               ELSE dir[f].meta.mtime
      <3>1. CASE Renames(p)
        BY <1>5, <3>1, NamesAssumption
        DEF Renames, Calls, ResultInv, RefinementInv, TypeInv, TypeOK, Names
      <3> QED
        BY <2>1, <3>1, MetaMoves
    <2>3. dir[f].meta.mtime = original[f].meta.mtime \/ Owes(f, places)
      BY <2>1 DEF DatesKept, DateKept, places
    <2>4. Calls(p, f, "utime") => statinfo[p].mtime = original[f].meta.mtime
      BY DEF Calls, DateKept
    <2> QED
      BY <1>3, <2>1, <2>3, <2>2, <2>4 DEF places
  <1> QED
    BY <1>4, <1>5

\* What stat says of a file that is there: the truth, or the file is settled.
LEMMA StatOfAFile ==
  ASSUME Agreeing, ResultInv, FilesKept, NEW q \in Procs, Converts(q), NEW f \in Files, Present(f)
  PROVE  Kept(dir[f].meta, f) \/ Settled(q, f)
  <1>1. CASE \E r \in Procs : Replaced(f, r)
    <2> PICK r \in Procs : Replaced(f, r)
      BY <1>1
    <2>1. Converts(r) /\ NothingToDo(dir[f].text.kind, invocation[r])
      BY DEF ResultInv, WrittenAsWanted
    <2> QED
      BY <2>1 DEF Agreeing, Settled
  <1>2. CASE ~ \E r \in Procs : Replaced(f, r)
    BY <1>2 DEF FilesKept, OwnersKept, ModesKept, DatesKept, Kept, Owes
  <1> QED
    BY <1>1, <1>2

\* A process remembers what stat said until it calls it again.
LEMMA StatStays ==
  ASSUME NEW p \in Procs, TypeOK, Step(p) \/ Kill(p)
  PROVE  /\ \A q \in Procs \ {p} : statinfo'[q] = statinfo[q]
         /\ pc[p] # "idle" => statinfo'[p] = statinfo[p]
         /\ pc[p] = "idle" /\ pc'[p] \in {"access", "open"} =>
              /\ Present(filename'[p]) /\ statinfo'[p] = dir[filename'[p]].meta
              /\ dir' = dir /\ filename'[p] \in Files
  <1>1. CASE Stat(p)
    <2> PICK g \in todo[p] :
          /\ filename' = [filename EXCEPT ![p] = g]
          /\ \/ Return(p, g, "UNREADABLE") /\ UNCHANGED statinfo
             \/ /\ Present(g) /\ statinfo' = [statinfo EXCEPT ![p] = dir[g].meta]
                /\ \/ Return(p, g, "SKIPPED_BINARY") \/ Goto(p, "open") \/ Goto(p, "access")
      BY <1>1 DEF Stat
    <2>1. pc[p] = "idle" /\ dir' = dir /\ g \in Files
      BY <1>1 DEF Stat, TypeOK
    <2>2. filename'[p] = g
      BY DEF TypeOK
    <2>3. \A q \in Procs \ {p} : statinfo'[q] = statinfo[q]
      BY DEF TypeOK
    <2>4. pc'[p] # "idle" => Present(g) /\ statinfo'[p] = dir[g].meta
      BY DEF TypeOK, Return, Goto
    <2> QED
      BY <2>1, <2>3, <2>2, <2>4
  <1>2. CASE statinfo' = statinfo /\ ~ (pc[p] = "idle" /\ pc'[p] \in {"access", "open"})
    BY <1>2
  <1>3. CASE ~ Stat(p)
    <2>1. statinfo' = statinfo
      BY <1>3 DEF Step, Launch, check_write_access, open_to_read, check_one_file,
         pre_conversion_check, open_to_write, Convert, CloseStreams, Discard, RemoveOriginal,
         RenameTmp, RestoreMode, RestoreOwner, RestoreTimes, Exit, Kill
    <2>2. pc[p] = "idle" => pc'[p] = "exited"
      BY <1>3, ActsByPlace DEF Exit, Goto, TypeOK
    <2> QED
      BY <1>2, <2>1, <2>2
  <1> QED
    BY <1>1, <1>3

LEMMA StatsTrueNext ==
  ASSUME Agreeing, ResultInv, KindsEnded, FilesKept, StatsTrue, NEW p \in Procs, Step(p) \/ Kill(p)
  PROVE  StatsTrue'
  <1> USE DEF ResultInv, RefinementInv, TypeInv
  <1>1. /\ invocation' = invocation /\ original' = original
        /\ \A q \in Procs : invocation[q] \in Command /\ filename[q] \in Files
      BY Moves DEF TypeOK
  <1> DEFINE Late == {"create", "convert", "close", "remove", "rename", "chmod", "chown", "utime"}
  <1>2. \A meta, f : Kept(meta, f) <=> /\ meta.owner = original[f].meta.owner
                                       /\ original[f].meta.mode = "plain" => meta.mode = "plain"
                                       /\ KeepsDate => meta.mtime = original[f].meta.mtime
    BY DEF Kept, OwnerKept, ModeKept, DateKept
  <1>3. KeepsDate' <=> KeepsDate
    BY <1>1 DEF KeepsDate
  <1> SUFFICES ASSUME NEW q \in Procs, Converts(q), NEW f \in Files, f = filename'[q]
               PROVE  /\ pc'[q] \in {"access", "open"} => Kept(statinfo'[q], f) \/ Settled(q, f)'
                      /\ pc'[q] = "precheck" =>
                           Kept(statinfo'[q], f) \/ NothingToDo(in'[q].text.kind, invocation[q])
                      /\ pc'[q] \in Late => Kept(statinfo'[q], f)
    <2> SUFFICES ASSUME NEW q \in Procs, Converts(q) PROVE StatIsTrue(q)'
      BY <1>1 DEF StatsTrue
    <2>1. PICK f \in Files : f = filename'[q]
      <3>1. TypeOK'
        BY TypeNext DEF Next
      <3> QED
        BY <3>1 DEF TypeOK
    <2>2. Kept(statinfo[q], filename[q])' <=> Kept(statinfo'[q], f)
      BY <1>1, <1>2, <1>3, <2>1 DEF Kept, OwnerKept, ModeKept, DateKept
    <2>3. Settled(q, filename[q])' <=> Settled(q, f)'
      BY <2>1 DEF Settled
    <2>4. NothingToDo(in[q].text.kind, invocation[q])' <=> NothingToDo(in'[q].text.kind, invocation[q])
      BY <1>1 DEF NothingToDo
    <2> QED
      BY <2>1, <2>3, <2>2, <2>4 DEF StatIsTrue
  <1>4. /\ pc[q] \in {"access", "open"} => Kept(statinfo[q], filename[q]) \/ Settled(q, filename[q])
        /\ pc[q] = "precheck" =>
             Kept(statinfo[q], filename[q]) \/ NothingToDo(in[q].text.kind, invocation[q])
        /\ pc[q] \in Late => Kept(statinfo[q], filename[q])
    BY DEF StatsTrue, StatIsTrue
  <1>5. Settled(q, f) => Settled(q, f)'
    BY SettledStays
  <1>6. CASE q # p
    <2>1. /\ pc'[q] = pc[q] /\ filename[q] = f /\ in'[q] = in[q] /\ statinfo'[q] = statinfo[q]
      BY <1>6, Moves, Remembers, StatStays
    <2> QED
      BY <1>4, <1>5, <2>1
  <1>7. CASE q = p /\ pc[p] = "idle"
    <2>1. pc'[p] \in {"idle", "access", "open", "exited"}
      BY <1>7, Leads
    <2>2. CASE pc'[p] \in {"access", "open"}
      <3>1. Present(f) /\ statinfo'[p] = dir[f].meta /\ dir' = dir
        BY <1>7, <2>2, StatStays
      <3> QED
        BY <1>5, <1>7, <2>2, <3>1, StatOfAFile
    <2> QED
      BY <1>7, <2>1, <2>2
  <1>8. CASE q = p /\ pc[p] # "idle"
    <2>1. filename[p] = f /\ statinfo'[p] = statinfo[p]
      BY <1>8, Remembers, StatStays
    <2>2. CASE pc'[p] \in {"access", "open"}
      <3>1. pc[p] = "access"
        BY <1>8, <2>2, Leads, ActsByPlace DEF Working
      <3> QED
        BY <1>4, <1>5, <1>8, <2>1, <2>2, <3>1
    <2>3. CASE pc'[p] = "precheck"
      <3>1. pc[p] = "open"
        BY <1>8, <2>3, Leads, ActsByPlace DEF Working
      <3>2. open_to_read(p)
        BY <2>3, <3>1, ActsByPlace DEF Kill, Goto, TypeOK
      <3>3. Present(f) /\ in'[p] = dir[f]
        BY <2>1, <2>3, <3>1, <3>2 DEF open_to_read, Return, Goto, TypeOK
      <3> QED
        BY <1>4, <1>8, <2>1, <2>3, <3>1, <3>3 DEF Settled
    <2>4. CASE pc'[p] = "create"
      <3>1. pc[p] = "precheck"
        BY <2>4, Moves
      <3>2. pre_conversion_check(p)
        BY <2>4, <3>1, ActsByPlace DEF Kill, Goto, TypeOK
      <3>3. PICK scan \in scan_reports(in[p].text.kind, invocation[p]) :
              pre_conversion_verdict(scan, invocation[p]) = "CAN_CONTINUE"
        BY <2>4, <3>1, <3>2 DEF pre_conversion_check, Return, Goto, TypeOK
      <3>4. in[p].text.kind \in Kind /\ (in[p].text.kind.eol => in[p].text.kind.endings # {})
        BY DEF KindsEnded, Ended, TypeOK, Inode, Text
      <3>5. ~ NothingToDo(in[p].text.kind, invocation[p])
        BY <1>1, <1>8, <3>3, <3>4, NothingToDoIsSeen
      <3> QED
        BY <1>4, <1>8, <2>1, <2>4, <3>1, <3>5
    <2>5. CASE pc'[p] \in Late \ {"create"}
      <3>1. pc[p] \in Late
        BY <1>8, <2>5, Leads, ActsByPlace DEF Working
      <3> QED
        BY <1>4, <1>8, <2>1, <2>5, <3>1
    <2> QED
      BY <1>8, <2>3, <2>2, <2>4, <2>5
  <1> QED
    BY <1>6, <1>7, <1>8

LEMMA MetaInvNext ==
  ASSUME ~ May("chmod"), ~ May("chown"), ~ May("utime"), ResultInv, MetaInv, [Next]_vars
  PROVE  MetaInv'
  <1>1. CASE UNCHANGED vars
    BY <1>1 DEF vars, MetaInv, KindsEnded, Ended, Agreeing, FilesKept, OwnersKept, ModesKept,
       DatesKept, OwnerKept, ModeKept, DateKept, KeepsDate, Owes, Replaced, StatsTrue, StatIsTrue,
       Kept, Settled, NothingToDo
  <1>2. ASSUME NEW p \in Procs, Step(p) \/ Kill(p) PROVE MetaInv'
    <2>1. KindsEnded'
      BY <1>2, KindsEndedNext DEF MetaInv
    <2>2. invocation' = invocation
      BY <1>2, Moves DEF ResultInv, RefinementInv, TypeInv
    <2> SUFFICES ASSUME Agreeing PROVE FilesKept' /\ StatsTrue'
      BY <2>1, <2>2 DEF MetaInv, Agreeing
    <2>3. StatsTrue'
      BY <1>2, StatsTrueNext DEF MetaInv
    <2>4. pc[p] \in {"chmod", "chown", "utime"} => Kept(statinfo[p], filename[p])
      BY DEF MetaInv, StatsTrue, StatIsTrue, ResultInv, WritersConvert, Working
    <2>5. FilesKept'
      BY <1>2, <2>4, OwnersKeptNext, ModesKeptNext, DatesKeptNext DEF MetaInv, FilesKept, Kept
    <2> QED
      BY <2>3, <2>5
  <1> QED
    BY <1>1, <1>2 DEF Next

\* However the processes replace one another's results, stop at errors or wait: when all
\* have returned, every file has its owner, its mode and, under -k, its date again.
THEOREM MetaIsRestored ==
  ASSUME DistinctNames, ~ May("close"), ~ May("chmod"), ~ May("chown"), ~ May("utime")
  PROVE  Spec => []MetaRestored
  <1>1. Init => ResultInv /\ MetaInv
    BY ResultInit, MetaInvInit
  <1>2. ResultInv /\ MetaInv /\ [Next]_vars => (ResultInv /\ MetaInv)'
    BY ResultNext, MetaInvNext
  <1>3. ASSUME ResultInv, MetaInv PROVE MetaRestored
    <2> SUFFICES ASSUME Agreeing, AllReturned, NEW f \in Files
                 PROVE  Present(f) /\ Kept(dir[f].meta, f)
      BY DEF MetaRestored, Kept, OwnerKept, ModeKept, DateKept, KeepsDate
    <2>1. Present(f)
      BY <1>3 DEF ResultInv, RefinementInv, CopyInv, AbsentOnlyInTheWindow, HasTaken, AllReturned
    <2>2. \A places \in SUBSET (Behind \cup {"killed"}) : ~ Owes(f, places)
      BY DEF Owes, AllReturned, Behind
    <2> QED
      BY <1>3, <2>1, <2>2 DEF MetaInv, FilesKept, OwnersKept, ModesKept, DatesKept, Kept, Behind
  <1> QED
    BY <1>1, <1>2, <1>3, PTL DEF Spec
================================================================================
