------------------------ MODULE ConvertStreamProperties ------------------------
(***************************************************************************)
(* What one call of convert_stream promises.  The reference definitions    *)
(* speak of the whole text at once, with indices, where the code walks it  *)
(* once with two flags: they are what the state machine is compared with.  *)
(***************************************************************************)
EXTENDS ConvertStream, SequencesExt

--------------------------------------------------------------------------------
(* Reference: the text of a file, its line endings, its translation.        *)

IsUTF16LE(bytes) == IsPrefix(<<255, 254>>, bytes)
IsUTF16BE(bytes) == IsPrefix(<<254, 255>>, bytes)

\* The code points of a file; the odd last byte of a UTF-16 file is none.
TextOf(bytes) ==
  IF IsUTF16LE(bytes)
  THEN [i \in 1 .. Len(bytes) \div 2 |-> bytes[2*i - 1] + 256 * bytes[2*i]]
  ELSE IF IsUTF16BE(bytes)
  THEN [i \in 1 .. Len(bytes) \div 2 |-> bytes[2*i] + 256 * bytes[2*i - 1]]
  ELSE bytes

BytesOf(text, origin) ==
  FlattenSeq([i \in DOMAIN text |->
    IF IsUTF16LE(origin) THEN <<text[i] % 256, text[i] \div 256>>
    ELSE IF IsUTF16BE(origin) THEN <<text[i] \div 256, text[i] % 256>>
    ELSE <<text[i]>>])

FollowsCR(text, i)  == i > 1 /\ text[i - 1] = 13
PrecedesLF(text, i) == i < Len(text) /\ text[i + 1] = 10

\* The places where an ending of convention c ends.
EndingsAt(text, c) ==
  CASE c = "CRLF" -> {i \in DOMAIN text : text[i] = 10 /\ FollowsCR(text, i)}
    [] c = "LF"   -> {i \in DOMAIN text : text[i] = 10 /\ ~ FollowsCR(text, i)}
    [] c = "CR"   -> {i \in DOMAIN text : text[i] = 13 /\ ~ PrecedesLF(text, i)}

Newline(c) == CASE c = "CR" -> <<13>> [] c = "LF" -> <<10>> [] c = "CRLF" -> <<13, 10>>

EndsWithEol(text) == text # <<>> /\ Last(text) \in {10, 13}

HasNonText(text) == \E i \in DOMAIN text : text[i] \in (0 .. 31) \ (9 .. 13)

Translation(text, c) ==
  FlattenSeq([i \in DOMAIN text |->
    IF \E d \in LineEndings : i \in EndingsAt(text, d) THEN Newline(c)
    ELSE IF text[i] = 13 THEN <<>>       \* the first half of a CRLF
    ELSE <<text[i]>>])

WithFinalEol(text, c) == IF EndsWithEol(text) THEN text ELSE text \o Newline(c)

ConventionOf(text) ==
  LET met == {c \in LineEndings : EndingsAt(text, c) # {}}
  IN  IF met = {} THEN "NO_CONVENTION"
      ELSE IF Cardinality(met) = 1 THEN CHOOSE c \in met : TRUE
      ELSE "MIXED"

\* A text that a conversion under this command line would leave as it is.
NothingToDo(text, inv) ==
  /\ ~ (HasNonText(text) /\ ~ inv.binaries)
  /\ ConventionOf(text) \in {"NO_CONVENTION", inv.dst_convention}
  /\ inv.final_char_has_to_be_eol => EndsWithEol(text)

Text == TextOf(input)

Returned == pc = "done"

\* Nothing went wrong and no interruption was asked for and met.
Accepted ==
  /\ Returned
  /\ ~ report.error_during_conversion
  /\ ~ (report.contains_non_text_chars /\ p.interrupt_if_non_text)

--------------------------------------------------------------------------------
(* Properties.                                                              *)

\* Every variable keeps its type; counts and room stay natural numbers.
TypeOK ==
  /\ invocation \in Invocation
  /\ site \in CallSites(invocation.dst_convention)
  /\ position \in 0 .. Len(input)
  /\ input_stream \in [buffer : Seq(Byte), buf_ptr : 0 .. BUFFERSIZE, eof : BOOLEAN]
  /\ encoding_layout \in Layouts
  /\ pulled \in Seq(Byte)
  /\ output_stream \in [open : BOOLEAN, buffer : Seq(Byte), sink : Seq(Byte),
                        room : Nat, err : BOOLEAN]
  /\ {ferror, last_was_13, last_was_newline} \subseteq BOOLEAN
  /\ report \in [error_during_conversion : BOOLEAN, contains_non_text_chars : BOOLEAN,
                 has_final_eol : BOOLEAN,
                 count_by_convention : [LineEndings -> 0 .. UINT_RANGE - 1]]
  /\ pc \in {"setup", "pull", "body", "finish", "done"}

\* No push writes behind the end of the output buffer and no pull reads behind
\* the bytes fread delivered: a push happens only into a buffer that has a free
\* byte, whatever the frames, the layout and the failures of fwrite were.
BuffersInBounds ==
  /\ Len(output_stream.buffer) <= BUFFERSIZE
  /\ ~ output_stream.err => Len(output_stream.buffer) < BUFFERSIZE
  /\ input_stream.buffer # <<>> => input_stream.buf_ptr <= Len(input_stream.buffer)
  /\ Len(input_stream.buffer) <= BUFFERSIZE

\* The count of CR that the LF of a CRLF takes back was there to be taken:
\* "-- count_by_convention[CR]" never wraps below zero.
NoCountUnderflow ==
  (pc \in {"pull", "body"} /\ last_was_13) => report.count_by_convention["CR"] > 0

\* What reached the output stream of a call that reports no error is the whole
\* input with every line ending, also one cut in two by a frame, replaced.
OutputIsTranslation ==
  (Accepted /\ p.has_outstream) =>
    LET translated == Translation(Text, p.dst_convention)
    IN  output_stream.sink =
          BytesOf(IF p.final_char_has_to_be_eol
                  THEN WithFinalEol(translated, p.dst_convention) ELSE translated, input)

\* The report of a call that was not interrupted counts every ending once, in
\* its convention, and is right about non-text characters and the last line.
ReportIsExact ==
  (Accepted /\ site # "pre_conversion_check") =>
    /\ \A c \in LineEndings : report.count_by_convention[c] = Cardinality(EndingsAt(Text, c))
    /\ report.contains_non_text_chars = HasNonText(Text)
    /\ report.has_final_eol = (EndsWithEol(Text) \/ p.final_char_has_to_be_eol)

\* The early exits of the dry scan never change its verdict: a file is left
\* alone exactly when a conversion would have left it as it is, is called binary
\* only when it is, and what is copied to the final report is true.
PreCheckIsExact ==
  (Returned /\ site = "pre_conversion_check" /\ ~ report.error_during_conversion) =>
    LET verdict == pre_conversion_verdict(report, invocation)
    IN  /\ (verdict = "DONE") <=> NothingToDo(Text, invocation)
        /\ verdict = "SKIPPED_BINARY" => HasNonText(Text) /\ ~ invocation.binaries
        /\ verdict = "DONE" =>
             get_source_convention(report.count_by_convention) = ConventionOf(Text)

\* What a conversion wrote needs no conversion: a second run, or a second visit
\* of the same file by the directory walker, will not rewrite it.
ConvertedNeedsNothing ==
  (Accepted /\ site = "convert_one_file") => NothingToDo(TextOf(output_stream.sink), invocation)

\* What a file comes down to for those who look at it as a whole, as ConvertFile and
\* Walker do, and what its report comes down to.
KindOf(text) == [ endings |-> {c \in LineEndings : EndingsAt(text, c) # {}},
                  binary  |-> HasNonText(text),
                  eol     |-> EndsWithEol(text) ]
Summary(r) == [r EXCEPT !.count_by_convention = [c \in LineEndings |-> SmallerOf(@[c], 1)]]

\* The calls behave as the models of files and directories suppose: wherever the dry
\* scan stops, its report is one of scan_reports; a conversion makes of the file what
\* converted says; a check reports what is there.
AbstractionIsExact ==
  LET kind == KindOf(Text)
  IN  Returned /\ ~ report.error_during_conversion =>
        CASE site = "pre_conversion_check" -> Summary(report) \in scan_reports(kind, invocation)
          [] site = "convert_one_file" ->
               IF IsUnwantedBinary(kind, invocation)
               THEN report.contains_non_text_chars
               ELSE KindOf(TextOf(output_stream.sink)) = converted(kind, invocation)
          [] site = "check_one_file" ->
               \/ IsUnwantedBinary(kind, invocation) /\ report.contains_non_text_chars
               \/ Summary(report) = report_of(kind.binary, kind.eol, kind.endings)
          [] OTHER -> TRUE

\* Every call returns.
Termination == <> Returned

--------------------------------------------------------------------------------
(* What a document says of the program and the code does not do.            *)

\* README: "UTF-16 with BOM as well as all single byte encodings will be treated
\* well".  No byte of the input is dropped, line endings apart.
NoByteDropped ==
  (Accepted /\ p.has_outstream) =>
    LET kept(bytes) == SelectSeq(bytes, LAMBDA b : b \notin {0, 10, 13})
    IN  kept(output_stream.sink) = kept(input)
================================================================================
