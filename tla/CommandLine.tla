------------------------------- MODULE CommandLine -------------------------------
(***************************************************************************)
(* command_line_parser.c with the callbacks of main.c: how the arguments   *)
(* become an invocation, and where that ends.  The callbacks act while the *)
(* arguments are read, and some of them end the process.                   *)
(*                                                                         *)
(* An argument is a number of dashes, up to two, and a sequence of names:  *)
(* one word, the name of a long flag, or short flags; "=" stands for an    *)
(* equal sign and ends what the parser looks at.                           *)
(***************************************************************************)
EXTENDS Endlines, Sequences, SequencesExt

CONSTANTS
  Words,          \* what can stand on a command line, flag names apart
  cl_names,       \* the names of actions among them, and their conventions
  CommandLines    \* the values of argv

\* The table of parse_endlines_command_line.
Options == {"final", "quiet", "verbose", "keepdate", "binaries", "recurse", "hidden"}
ShortFlags == [ f |-> "final", q |-> "quiet", v |-> "verbose", k |-> "keepdate",
                b |-> "binaries", r |-> "recurse", h |-> "hidden" ]
LongFlags  == Options \cup {"help", "version"}

Names    == Words \cup LongFlags \cup DOMAIN ShortFlags
Argument == { arg \in [dashes : 0..2, names : Seq(Names \cup {"="})] :
                arg.dashes = 0 => \E word \in Words : arg.names = <<word>> }

ASSUME NamesAssumption == /\ cl_names \in [DOMAIN cl_names -> Targets]
                          /\ DOMAIN cl_names \subseteq Words
ASSUME ArgvAssumption  == CommandLines \subseteq Seq(Argument)

VARIABLES
  argv,              \* without the name of the program
  i,                 \* the argument that is looked at
  short_flags,       \* what is left of the short flags in it
  given,             \* the options that were given
  dst_convention, dst_convention_specified,
  filenames,
  status             \* "parsing", what the process goes on with, or why it has ended

vars == <<argv, i, short_flags, given, dst_convention, dst_convention_specified,
          filenames, status>>

Endings == {"help", "version", "unknown option", "unknown action", "no action"}
Modes   == {"files", "stdin"}

Arg == argv[i]
Reading == status = "parsing" /\ short_flags = <<>> /\ i <= Len(argv)
NextArg == i' = i + 1

\* Faulty: a value is taken for more flags.
Flags_whole(names) == names

\* What comes before the first "=".
Flags(names) ==
  LET end == SelectInSeq(names, LAMBDA n : n = "=")
  IN  IF end = 0 THEN names ELSE SubSeq(names, 1, end - 1)

\* The callback of a flag.
got_flag(flag) ==
  IF flag \in Options
  THEN given' = given \cup {flag} /\ UNCHANGED status
  ELSE status' = flag /\ UNCHANGED given

unknown_option == status' = "unknown option" /\ UNCHANGED given

process_long_flag ==
  /\ Reading /\ Arg.dashes = 2
  /\ \/ /\ Len(Flags(Arg.names)) = 1 /\ Flags(Arg.names)[1] \in LongFlags
        /\ got_flag(Flags(Arg.names)[1])
     \/ /\ ~ (Len(Flags(Arg.names)) = 1 /\ Flags(Arg.names)[1] \in LongFlags)
        /\ unknown_option
  /\ NextArg
  /\ UNCHANGED <<argv, short_flags, dst_convention, dst_convention_specified, filenames>>

\* A single dash is an argument without any flag.
process_short_flags ==
  /\ Reading /\ Arg.dashes = 1
  /\ short_flags' = Flags(Arg.names)
  /\ IF Flags(Arg.names) = <<>> THEN NextArg ELSE UNCHANGED i
  /\ UNCHANGED <<argv, given, dst_convention, dst_convention_specified, filenames, status>>

process_short_flag ==
  /\ status = "parsing" /\ short_flags # <<>>
  /\ \/ /\ Head(short_flags) \in DOMAIN ShortFlags
        /\ got_flag(ShortFlags[Head(short_flags)])
     \/ /\ Head(short_flags) \notin DOMAIN ShortFlags
        /\ unknown_option
  /\ short_flags' = Tail(short_flags)
  /\ IF Tail(short_flags) = <<>> THEN NextArg ELSE UNCHANGED i
  /\ UNCHANGED <<argv, dst_convention, dst_convention_specified, filenames>>

\* Faulty: the first word is a file, too ...
IsAction_never(word) == FALSE

\* ... or every name of an action is the action.
IsAction_again(word) == word \in DOMAIN cl_names
IsAction(word) == ~ dst_convention_specified

\* The name of an action, or the end of the process.
read_convention_from_string(word) ==
  \/ /\ word \in DOMAIN cl_names
     /\ dst_convention' = cl_names[word] /\ dst_convention_specified' = TRUE
     /\ UNCHANGED status
  \/ /\ word \notin DOMAIN cl_names
     /\ status' = "unknown action"
     /\ UNCHANGED <<dst_convention, dst_convention_specified>>

\* The first word is the action.
got_non_flag_arg ==
  /\ Reading /\ Arg.dashes = 0
  /\ LET word == Arg.names[1]
     IN  \/ /\ IsAction(word)
            /\ read_convention_from_string(word)
            /\ UNCHANGED filenames
         \/ /\ ~ IsAction(word)
            /\ filenames' = Append(filenames, word)
            /\ UNCHANGED <<dst_convention, dst_convention_specified, status>>
  /\ NextArg
  /\ UNCHANGED <<argv, short_flags, given>>

\* The end of parse_endlines_command_line, and main.
Dispatch ==
  /\ status = "parsing" /\ short_flags = <<>> /\ i > Len(argv)
  /\ status' = IF ~ dst_convention_specified THEN "no action"
               ELSE IF filenames # <<>> THEN "files" ELSE "stdin"
  /\ UNCHANGED <<argv, i, short_flags, given, dst_convention, dst_convention_specified,
                 filenames>>

Init ==
  /\ argv \in CommandLines
  /\ i = 1
  /\ short_flags = <<>> /\ filenames = <<>>
  /\ given = {}
  /\ dst_convention = "NO_CONVENTION" /\ dst_convention_specified = FALSE
  /\ status = IF argv = <<>> THEN "help" ELSE "parsing"

Next == \/ process_long_flag \/ process_short_flags \/ process_short_flag
        \/ got_non_flag_arg \/ Dispatch

Spec == Init /\ [][Next]_vars /\ WF_vars(Next)
================================================================================
