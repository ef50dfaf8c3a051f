-------------------------- MODULE FileNamesProperties --------------------------
(***************************************************************************)
(* What walk_directory, convert_one_file and walkers_callback rely on when *)
(* they put paths together and take them apart.  The path of a directory   *)
(* and the name of an entry grow, character by character, into all paths   *)
(* and names there are.                                                    *)
(***************************************************************************)
EXTENDS FileNames

CONSTANTS MaxLength,   \* bound of the model: of the path and of the name
          tmp          \* the name of temporary files

ASSUME TmpAssumption == tmp \in Seq(Char \ {Slash}) /\ Len(tmp) > 0

VARIABLES base_path, filename

Init == base_path = <<>> /\ filename = <<>>

Grow(c) ==
  \/ /\ Len(base_path) < MaxLength
     /\ base_path' = Append(base_path, c)
     /\ UNCHANGED filename
  \/ /\ Len(filename) < MaxLength
     /\ filename' = Append(filename, c)
     /\ UNCHANGED base_path

Next == \E c \in Char : Grow(c)

Spec == Init /\ [][Next]_<<base_path, filename>>

\* A path that can be opened is not empty; an entry has no slash, and "." and ".." are
\* left out.
IsEntry(name) == /\ \A i \in DOMAIN name : name[i] # Slash
                 /\ name \notin {<<>>, <<Dot>>, <<Dot, Dot>>}
Path == append_filename_to_base_path(base_path, filename)
Exists == base_path # <<>> /\ IsEntry(filename) /\ Path # TooLong

--------------------------------------------------------------------------------
\* No path that is put together is longer than the buffer it is put into, which also
\* holds a terminating zero.
PathsFit ==
  base_path # <<>> =>
    \A path \in {Path, make_filename_in_same_location(base_path, filename)} :
      path # TooLong => Len(path) + 1 <= MAX_PATH_LENGTH

\* Whether an entry that is met below a directory is hidden is a matter of its own
\* name, whatever the directory is called, "." and ".." included.
HiddenIsTheName ==
  Exists => (is_hidden_filename(Path) <=> filename[1] = Dot)

\* The temporary file of an entry is an entry of the same directory, and is hidden
\* when its name says so; its path fits whenever that of a longer name does.
TmpIsNextToIt ==
  Exists =>
    LET path == make_filename_in_same_location(Path, tmp)
    IN  /\ path # TooLong => path = append_filename_to_base_path(base_path, tmp)
        /\ path # TooLong => (is_hidden_filename(path) <=> tmp[1] = Dot)
        /\ Len(tmp) < Len(filename) /\ base_path[Len(base_path)] # Slash => path # TooLong

\* The known binary extensions are looked up for the name alone: dots in the names of
\* directories do not count.  (A dot in first place counts below a directory only.)
ExtensionIsTheNames ==
  Exists =>
    \/ get_file_extension(Path) = get_file_extension(filename)
    \/ filename[1] = Dot /\ get_file_extension(filename) = <<>>
================================================================================
