------------------------- MODULE CommandLineProperties -------------------------
(***************************************************************************)
(* What a command line means, whatever the order the parser meets it in.   *)
(***************************************************************************)
EXTENDS CommandLine

TypeOK ==
  /\ argv \in Seq(Argument) /\ i \in 1..Len(argv) + 1
  /\ short_flags \in Seq(Names)
  /\ given \subseteq Options
  /\ dst_convention \in Targets /\ dst_convention_specified \in BOOLEAN
  /\ filenames \in Seq(Words)
  /\ status \in {"parsing"} \cup Endings \cup Modes

Has(arg, flag) ==
  \/ arg.dashes = 2 /\ Flags(arg.names) = <<flag>>
  \/ /\ arg.dashes = 1
     /\ \E n \in ToSet(Flags(arg.names)) \cap DOMAIN ShortFlags : ShortFlags[n] = flag
HasUnknown(arg) ==
  \/ arg.dashes = 2 /\ \A flag \in LongFlags : ~ Has(arg, flag)
  \/ arg.dashes = 1 /\ ~ ToSet(Flags(arg.names)) \subseteq DOMAIN ShortFlags

IsWord(arg)  == arg.dashes = 0
WordsUpTo(k) == {j \in 1..k : IsWord(argv[j])}
Place(k)     == Cardinality(WordsUpTo(k))     \* of word k among the words

\* Why argument k ends the process, if it is read.
Ends(k, why) ==
  CASE why = "help"           -> Has(argv[k], "help")
    [] why = "version"        -> Has(argv[k], "version")
    [] why = "unknown option" -> HasUnknown(argv[k])
    [] why = "unknown action" -> /\ IsWord(argv[k]) /\ argv[k].names[1] \notin DOMAIN cl_names
                                 /\ \A j \in 1..k - 1 : ~ IsWord(argv[j])
Reasons == {"help", "version", "unknown option", "unknown action"}

\* When the process goes on to work: the first word was the action, all others are
\* files in their order, and an option was given exactly if a flag for it is anywhere.
ReadingIsRight ==
  status \in Modes =>
    /\ Len(filenames) + 1 = Place(Len(argv))
    /\ \A k \in WordsUpTo(Len(argv)) :
         IF Place(k) = 1 THEN dst_convention = cl_names[argv[k].names[1]]
         ELSE filenames[Place(k) - 1] = argv[k].names[1]
    /\ given = {o \in Options : \E k \in DOMAIN argv : Has(argv[k], o)}
    /\ status = "files" <=> filenames # <<>>

\* The first argument that ends the process decides how; and only a command line
\* without such an argument is acted upon, or lacks an action.
FirstReasonDecides ==
  argv # <<>> =>
    /\ status \in Reasons =>
         \E k \in DOMAIN argv :
           /\ Ends(k, status)
           /\ \A j \in 1..k - 1, why \in Reasons : ~ Ends(j, why)
    /\ status \in Modes \cup {"no action"} =>
         \A k \in DOMAIN argv, why \in Reasons : ~ Ends(k, why)
================================================================================
