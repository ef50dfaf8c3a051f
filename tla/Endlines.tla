-------------------------------- MODULE Endlines --------------------------------
(***************************************************************************)
(* What every part of endlines shares: the conventions and the outcomes of *)
(* endlines.h, the invocation of main.c, the conversion report and the two *)
(* functions that judge a report; and what convert_stream makes of a file  *)
(* as a whole, when a file is no more than the kinds of things in it.       *)
(***************************************************************************)
EXTENDS Naturals

\* Line ending conventions that are counted, and the two that are verdicts.
LineEndings == {"CR", "LF", "CRLF"}
Conventions == LineEndings \cup {"NO_CONVENTION", "MIXED"}

\* What a command line can ask for: "check" is NO_CONVENTION.
Targets == LineEndings \cup {"NO_CONVENTION"}

FileOp_Status == {"CAN_CONTINUE", "DONE", "SKIPPED_BINARY", "FILEOP_ERROR"}

\* The fields of Invocation that reach the conversion of one file.
Invocation == [ dst_convention           : Targets,
                binaries                 : BOOLEAN,
                final_char_has_to_be_eol : BOOLEAN ]

\* Faulty: the second convention that is met takes the place of the first.
get_source_convention_last(counts) ==
  LET met == {c \in LineEndings : counts[c] > 0}
  IN  IF met = {} THEN "NO_CONVENTION" ELSE CHOOSE c \in met : TRUE

(***************************************************************************)
(* The loop of utils.c keeps the first convention it meets with a non zero *)
(* count and turns it into MIXED at the second.  The counts of             *)
(* NO_CONVENTION and MIXED are never incremented.                          *)
(***************************************************************************)
get_source_convention(counts) ==
  LET met == {c \in LineEndings : counts[c] > 0}
  IN  IF met = {} THEN "NO_CONVENTION"
      ELSE IF \E c \in met : met = {c} THEN CHOOSE c \in met : TRUE
      ELSE "MIXED"

\* Faulty: no file is good enough.
needs_no_conversion_never(src_convention, has_final_eol, invocation) == FALSE

\* TRUE when a file in that convention needs no conversion.
needs_no_conversion(src_convention, has_final_eol, invocation) ==
  \/ /\ src_convention = "NO_CONVENTION"
     /\ ~ invocation.final_char_has_to_be_eol
  \/ /\ src_convention = invocation.dst_convention
     /\ invocation.final_char_has_to_be_eol => has_final_eol

\* What pre_conversion_check makes of the report of its dry scan.
pre_conversion_verdict(report, invocation) ==
  IF report.error_during_conversion THEN "FILEOP_ERROR"
  ELSE IF report.contains_non_text_chars /\ ~ invocation.binaries THEN "SKIPPED_BINARY"
  ELSE IF needs_no_conversion(get_source_convention(report.count_by_convention),
                              report.has_final_eol, invocation) THEN "DONE"
  ELSE "CAN_CONTINUE"

--------------------------------------------------------------------------------
\* Which line endings occur, whether there are control characters, whether the
\* last line is ended: then there is a line ending.
Kind == {k \in [endings : SUBSET LineEndings, binary : BOOLEAN, eol : BOOLEAN] :
           k.eol => k.endings # {}}

\* A report with its counts cut down to "some" and "none".
report_of(binary, eol, met) ==
  [ error_during_conversion |-> FALSE,
    contains_non_text_chars |-> binary,
    has_final_eol           |-> eol,
    count_by_convention     |-> [c \in LineEndings |-> IF c \in met THEN 1 ELSE 0] ]

\* The dry scan may stop at a LF that does not belong to the target convention, or at a
\* control character that is not wanted, with a report of what it met so far.
Foreign(kind, invocation) ==
  (kind.endings \cap {"LF", "CRLF"}) \ {invocation.dst_convention}

\* Faulty: nothing is binary enough.
IsUnwantedBinary_never(kind, invocation) == FALSE
IsUnwantedBinary(kind, invocation) == kind.binary /\ ~ invocation.binaries

reports_of_a_part(kind, invocation) ==
  LET unwanted == IsUnwantedBinary(kind, invocation)
      foreign  == Foreign(kind, invocation)
      at_a_LF  == {S \in SUBSET kind.endings : \E c \in foreign : S \cap foreign = {c}}
  IN  {report_of(FALSE, TRUE, met) : met \in at_a_LF}
      \cup {report_of(kind.binary /\ ~ unwanted, TRUE, met) : met \in at_a_LF}
      \cup {report_of(TRUE, FALSE, met) : met \in {S \in SUBSET (kind.endings \ foreign) : unwanted}}

\* The reports the dry scan of a file may end with.
scan_reports(kind, invocation) ==
  IF Foreign(kind, invocation) = {} /\ ~ IsUnwantedBinary(kind, invocation)
  THEN {report_of(kind.binary, kind.eol, kind.endings)}
  ELSE reports_of_a_part(kind, invocation)

\* Faulty: no final end of line is added.
converted_unended(kind, invocation) ==
  [kind EXCEPT !.endings = IF @ # {} THEN {invocation.dst_convention} ELSE {}]

\* What the conversion makes of a file it reads to the end.
converted(kind, invocation) ==
  LET adds_eol == invocation.final_char_has_to_be_eol /\ ~ kind.eol
  IN  [kind EXCEPT
         !.endings = IF @ # {} \/ adds_eol THEN {invocation.dst_convention} ELSE {},
         !.eol     = @ \/ adds_eol]
================================================================================
