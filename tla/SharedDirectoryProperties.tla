------------------------ MODULE SharedDirectoryProperties ------------------------
(***************************************************************************)
(* What becomes of the texts of a directory that several walks share.      *)
(***************************************************************************)
EXTENDS SharedDirectory

TypeOK ==
  /\ invocation \in [Procs -> Command]
  /\ dir \in [Names -> Inodes \cup {Absent}]
  /\ text \in [Inodes -> Text]
  /\ pc \in [Procs -> Places]
  /\ todo \in [Procs -> SUBSET Names]
  /\ filename \in [Procs -> Names]
  /\ in \in [Procs -> Inodes] /\ out \in [Procs -> Inodes]
  /\ got \in [Procs -> Text]
  /\ done \in [Procs -> SUBSET Names]

\* A complete copy of the file f has that name.
Holds(n, f) == dir[n] # Absent /\ text[dir[n]].of = f /\ text[dir[n]].whole

--------------------------------------------------------------------------------
\* No text is ever lost: as long as every walk with --hidden is alone, a complete copy
\* of every file has a name, also when such a walk comes to what a process that was
\* killed, or whose renaming failed, has left under its temporary name.
DataSurvives == \A f \in Files : \E n \in Names : Holds(n, f)

\* No file ever gets the text of another one, or a part of its own.
FilesAreTheirOwn == \A f \in Files : dir[f] # Absent => Holds(f, f)

--------------------------------------------------------------------------------
(* What a document says of the program and the code does not do.            *)

\* endlines.h of DONE: "The file has been fully processed without any error."
DoneIsWhole ==
  \A p \in Procs, f \in Files : f \in done[p] /\ dir[f] # Absent => text[dir[f]].whole
================================================================================
