------------------------------- MODULE FileNames -------------------------------
(***************************************************************************)
(* The functions of utils.c, walkers.c and file_operations.c that look at  *)
(* the characters of a file name or make one path out of another.  A name  *)
(* is a sequence of characters, without the terminating zero.  The scans   *)
(* of the code from the end of a name to its beginning are LastIn.         *)
(***************************************************************************)
EXTENDS Naturals, Sequences, FiniteSetsExt

CONSTANTS Char, Dot, Slash,   \* the characters, and the two that matter
          MAX_PATH_LENGTH,    \* WALKERS_MAX_PATH_LENGTH: the size of the path buffers
          TooLong             \* what is returned instead of a path that does not fit

ASSUME CharAssumption == Dot \in Char /\ Slash \in Char /\ Dot # Slash
ASSUME SizeAssumption == MAX_PATH_LENGTH \in Nat
ASSUME TooLongAssumption == TooLong \notin Seq(Char)

\* The last place in the name of a character of that set, or zero.
LastIn(set, name) == Max({0} \cup {i \in 1..Len(name) : name[i] \in set})

\* Faulty: the scan goes on into the names of directories.
get_file_extension_deep(name) ==
  LET i == LastIn({Dot}, name)
  IN  IF i <= 1 THEN <<>> ELSE SubSeq(name, i + 1, Len(name))

get_file_extension(name) ==
  LET i == LastIn({Dot, Slash}, name)
  IN  IF i <= 1 \/ name[i] = Slash THEN <<>> ELSE SubSeq(name, i + 1, Len(name))

is_a_hidden_file_name_without_a_path_prefix(name) ==
  /\ Len(name) > 0 /\ name[1] = Dot
  /\ name \notin {<<Dot>>, <<Dot, Dot>>, <<Dot, Slash>>, <<Dot, Dot, Slash>>}

\* Faulty: a path prefix is not looked for.
is_hidden_filename_unprefixed(name) == is_a_hidden_file_name_without_a_path_prefix(name)

\* A slash at the very end is no prefix.  (Behind a prefix, "." and ".." are hidden.)
is_hidden_filename(name) ==
  LET i == LastIn({Slash}, SubSeq(name, 1, Len(name) - 1))
  IN  IF i > 0 THEN name[i + 1] = Dot
      ELSE is_a_hidden_file_name_without_a_path_prefix(name)

\* Faulty: the slash is taken for a part of the old name.
make_filename_in_same_location_joined(reference, wanted) ==
  SubSeq(reference, 1, LastIn({Slash}, reference) - 1) \o wanted

make_filename_in_same_location(reference, wanted) ==
  LET filename_start == LastIn({Slash}, reference)
  IN  IF \/ Len(reference) >= MAX_PATH_LENGTH
         \/ Len(wanted) + filename_start + 1 >= MAX_PATH_LENGTH
      THEN TooLong
      ELSE SubSeq(reference, 1, filename_start) \o wanted

\* Faulty: the terminating zero is forgotten.
append_filename_to_base_path_tightly(base_path, filename) ==
  IF Len(base_path) + Len(filename) >= MAX_PATH_LENGTH THEN TooLong
  ELSE base_path \o <<Slash>> \o filename

\* The room for a slash is asked for even when the base path ends with one.
append_filename_to_base_path(base_path, filename) ==
  IF Len(base_path) + Len(filename) + 1 >= MAX_PATH_LENGTH THEN TooLong
  ELSE IF base_path[Len(base_path)] # Slash THEN base_path \o <<Slash>> \o filename
  ELSE base_path \o filename
================================================================================
