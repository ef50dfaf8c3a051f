---------------------------------- MODULE Sweep ----------------------------------
(***************************************************************************)
(* What a walk comes to when one looks at the directories only: entries    *)
(* that lead to a text which is not yet as wanted are replaced, in any     *)
(* order and each at most once, by the conversion of the text that was     *)
(* there in the beginning; one may be lost, which ends the sweep.  Nothing *)
(* else ever happens in a directory.                                       *)
(***************************************************************************)
EXTENDS Endlines

CONSTANTS
  Directories, Names, Nothing,
  KnownBinaryNames,   \* names of files that are left alone unless --binaries
  Before,             \* what is in each directory in the beginning
  Text                \* what is read there in the beginning, links followed, or Nothing

VARIABLES
  command,   \* what was asked for
  now,       \* what is in each directory
  over

vars == <<command, now, over>>

Init == now = Before /\ over = FALSE

IsWanted(d, n) ==
  /\ command.dst_convention # "NO_CONVENTION"
  /\ Text[d][n] # Nothing
  /\ n \in KnownBinaryNames \/ Text[d][n].binary => command.binaries
  /\ converted(Text[d][n], command) # Text[d][n]

Convert(d, n) ==
  /\ ~ over /\ now[d][n] = Before[d][n] /\ IsWanted(d, n)
  /\ now' = [now EXCEPT ![d][n] = [is |-> "file", kind |-> converted(Text[d][n], command)]]
  /\ UNCHANGED <<command, over>>

Lose(d, n) ==
  /\ ~ over /\ now[d][n] = Before[d][n] /\ IsWanted(d, n)
  /\ now' = [now EXCEPT ![d][n] = Nothing]
  /\ over' = TRUE
  /\ UNCHANGED command

Stop ==
  /\ ~ over /\ over' = TRUE
  /\ UNCHANGED <<command, now>>

Next == Stop \/ \E d \in Directories, n \in Names : Convert(d, n) \/ Lose(d, n)

Spec == Init /\ [][Next]_vars
================================================================================
