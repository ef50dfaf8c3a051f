----------------------------- MODULE MCCommandLine -----------------------------
(* Command lines of up to three arguments for TLC.                          *)
EXTENDS CommandLineProperties

Vocabulary == {"lf", "win", "check", "path", "z"}
Actions    == [lf |-> "LF", win |-> "CRLF", check |-> "NO_CONVENTION"]

word(w)        == [dashes |-> 0, names |-> <<w>>]
short(letters) == [dashes |-> 1, names |-> letters]
long(names)    == [dashes |-> 2, names |-> names]

Arguments == { word("lf"), word("check"), word("path"),
               short(<<>>), short(<<"f", "q">>), short(<<"r", "=", "h">>), short(<<"b", "z", "k">>),
               long(<<>>), long(<<"final">>), long(<<"recurse", "=", "z">>), long(<<"z">>),
               long(<<"help">>), long(<<"version">>) }

UpToThree == SeqOf(Arguments, 3)
================================================================================
