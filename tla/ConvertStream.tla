------------------------------ MODULE ConvertStream ------------------------------
(***************************************************************************)
(* convert_stream.c: one call of convert_stream, byte by byte, through its *)
(* two buffers, together with the parameters each of its four callers in   *)
(* main.c gives it.                                                        *)
(*                                                                         *)
(* The environment is stdio: fread hands out the bytes of `input` and may  *)
(* fall short with the error flag set; fwrite accepts bytes until `room`   *)
(* is used up, then falls short.                                           *)
(***************************************************************************)
EXTENDS Endlines, Integers, Sequences

CONSTANTS
  BUFFERSIZE,   \* bytes in each buffer (16384 in endlines.h)
  UINT_RANGE,   \* number of values of an unsigned int (2^32)
  Inputs,       \* the contents the input stream may have
  Rooms,        \* how many bytes the output stream may accept
  ReadFaults    \* whether fread may fall short of the end of the stream

Byte == 0 .. 255

ASSUME BufferAssumption == BUFFERSIZE \in Nat /\ BUFFERSIZE >= 2
ASSUME UintAssumption   == UINT_RANGE \in Nat /\ UINT_RANGE >= 2
ASSUME InputAssumption  == Inputs \subseteq Seq(Byte)
ASSUME RoomAssumption   == Rooms \subseteq Nat
ASSUME FaultAssumption  == ReadFaults \in BOOLEAN

VARIABLES
  site,               \* which function of main.c calls convert_stream
  invocation,         \* the command line that led there
  input,              \* the bytes of instream
  position,           \* how many of them fread has handed out
  ferror,             \* the error flag of instream
  input_stream,       \* Buffered_stream: buffer (its length is buf_size), buf_ptr, eof
  encoding_layout,
  pulled,             \* bytes of the code point being pulled
  output_stream,      \* Buffered_stream: open, buffer (its length is buf_ptr);
                      \* sink and room of the stream behind it; err of the loop
  last_was_13,
  last_was_newline,
  report,
  pc

callVars == <<site, invocation, input>>
inVars   == <<position, ferror, input_stream>>
flagVars == <<last_was_13, last_was_newline>>
vars == <<callVars, inVars, encoding_layout, pulled, output_stream, flagVars, report, pc>>

--------------------------------------------------------------------------------
(* The four callers and the Conversion_Parameters each of them builds.      *)

PreCheckParameters ==
  [ has_outstream |-> FALSE,
    dst_convention |-> invocation.dst_convention,
    interrupt_if_not_like_dst_convention |-> TRUE,
    interrupt_if_non_text |-> ~ invocation.binaries,
    final_char_has_to_be_eol |-> FALSE ]

ConvertParameters ==
  [ has_outstream |-> TRUE,
    dst_convention |-> invocation.dst_convention,
    interrupt_if_not_like_dst_convention |-> FALSE,
    interrupt_if_non_text |-> ~ invocation.binaries,
    final_char_has_to_be_eol |-> invocation.final_char_has_to_be_eol ]

CheckParameters ==
  [ has_outstream |-> FALSE,
    dst_convention |-> "NO_CONVENTION",
    interrupt_if_not_like_dst_convention |-> FALSE,
    interrupt_if_non_text |-> ~ invocation.binaries,
    final_char_has_to_be_eol |-> FALSE ]

\* The two fields that the initializer does not name are zero, that is false.
StdinParameters ==
  [ has_outstream |-> invocation.dst_convention # "NO_CONVENTION",
    dst_convention |-> invocation.dst_convention,
    interrupt_if_not_like_dst_convention |-> FALSE,
    interrupt_if_non_text |-> FALSE,
    final_char_has_to_be_eol |-> FALSE ]

p == CASE site = "pre_conversion_check"    -> PreCheckParameters
       [] site = "convert_one_file"        -> ConvertParameters
       [] site = "check_one_file"          -> CheckParameters
       [] site = "convert_stdin_to_stdout" -> StdinParameters

\* walkers_callback sends NO_CONVENTION to check_one_file, the rest to convert_one_file.
CallSites(dst) ==
  {"convert_stdin_to_stdout"} \cup
  (IF dst = "NO_CONVENTION" THEN {"check_one_file"}
                            ELSE {"pre_conversion_check", "convert_one_file"})

--------------------------------------------------------------------------------
(* The output buffer.  An output record o carries err, the variable of the  *)
(* loop that every push is guarded with (err = err || push(...)).           *)

SmallerOf(a, b) == IF a <= b THEN a ELSE b

\* Faulty: the result of fwrite is ignored.
FellShort_unchecked(written, o) == FALSE
FellShort(written, o) == written # Len(o.buffer)

\* After a short write the buffer is not looked at any more.
flush_buffer(o) ==
  LET written == SmallerOf(Len(o.buffer), o.room)
      short   == FellShort(written, o)
  IN  IF ~ o.open \/ o.err THEN o
      ELSE [o EXCEPT !.sink = @ \o SubSeq(o.buffer, 1, written), !.room = @ - written,
                     !.err = short, !.buffer = IF short THEN @ ELSE <<>>]

\* Faulty: the buffer is flushed one byte too late.
IsFull_late(o) == Len(o.buffer) > BUFFERSIZE
IsFull(o) == Len(o.buffer) = BUFFERSIZE

push_byte(value, o) ==
  LET pushed == [o EXCEPT !.buffer = Append(@, value)]
  IN  IF o.err THEN o
      ELSE IF IsFull(pushed) THEN flush_buffer(pushed) ELSE pushed

\* Faulty: the upper half of a code point is not masked out.
LowByte_unmasked(w) == w
LowByte(w) == w % 256

push_code_point(w, o) ==
  LET low  == LowByte(w)
      high == (w \div 256) % 256
  IN  IF ~ o.open THEN o
      ELSE CASE encoding_layout = "WT_1BYTE"    -> push_byte(low, o)
             [] encoding_layout = "WT_2BYTE_LE" -> push_byte(high, push_byte(low, o))
             [] encoding_layout = "WT_2BYTE_BE" -> push_byte(low, push_byte(high, o))

push_newline(o) ==
  CASE p.dst_convention = "NO_CONVENTION" -> o
    [] p.dst_convention = "CR"   -> push_code_point(13, o)
    [] p.dst_convention = "LF"   -> push_code_point(10, o)
    [] p.dst_convention = "CRLF" -> push_code_point(10, push_code_point(13, o))

--------------------------------------------------------------------------------
(* The input buffer.                                                        *)

Layouts == {"WT_1BYTE", "WT_2BYTE_LE", "WT_2BYTE_BE"}

\* Faulty: one of the two byte orders is forgotten.
detect_buffer_encoding_layout_LE(buffer) ==
  IF Len(buffer) >= 2 /\ buffer[1] = 255 /\ buffer[2] = 254 THEN "WT_2BYTE_LE" ELSE "WT_1BYTE"

detect_buffer_encoding_layout(buffer) ==
  CASE Len(buffer) >= 2 /\ buffer[1] = 255 /\ buffer[2] = 254 -> "WT_2BYTE_LE"
    [] Len(buffer) >= 2 /\ buffer[1] = 254 /\ buffer[2] = 255 -> "WT_2BYTE_BE"
    [] OTHER -> "WT_1BYTE"

BytesPerCodePoint == IF encoding_layout = "WT_1BYTE" THEN 1 ELSE 2

code_point ==
  CASE encoding_layout = "WT_1BYTE"    -> pulled[1]
    [] encoding_layout = "WT_2BYTE_LE" -> pulled[1] + 256 * pulled[2]
    [] encoding_layout = "WT_2BYTE_BE" -> 256 * pulled[1] + pulled[2]

is_non_text_code(w) == w <= 8 \/ (w <= 31 /\ w >= 14)

\* An fread of BUFFERSIZE bytes: short only at the end of the stream or on an error.
read_stream_frame ==
  LET available == SmallerOf(BUFFERSIZE, Len(input) - position)
  IN  \E n \in (IF ReadFaults THEN 0 .. available ELSE {available}) :
        /\ position' = position + n
        /\ ferror' = (ferror \/ n < available)
        /\ input_stream' =
             IF n = 0
             THEN [input_stream EXCEPT !.buffer = <<>>, !.eof = TRUE]
             ELSE [buffer |-> SubSeq(input, position + 1, position + n),
                   buf_ptr |-> 0, eof |-> input_stream.eof]

--------------------------------------------------------------------------------
init_report ==
  [ error_during_conversion |-> FALSE,
    contains_non_text_chars |-> FALSE,
    has_final_eol |-> FALSE,         \* set when the loop is over, not read before
    count_by_convention |-> [c \in LineEndings |-> 0] ]

Init ==
  /\ invocation \in Invocation
  /\ site \in CallSites(invocation.dst_convention)
  /\ input \in Inputs
  /\ position = 0
  /\ ferror = FALSE
  /\ input_stream = [buffer |-> <<>>, buf_ptr |-> BUFFERSIZE, eof |-> FALSE]
  /\ encoding_layout = "WT_1BYTE"
  /\ pulled = <<>>
  /\ \E room \in Rooms :
       output_stream = [open |-> p.has_outstream, buffer |-> <<>>, sink |-> <<>>,
                        room |-> room, err |-> FALSE]
  /\ last_was_13 = FALSE
  /\ last_was_newline = FALSE
  /\ report = init_report
  /\ pc = "setup"

\* Faulty: the loop is never left.
LeaveLoopIf_never(condition) == pc' = "pull"
LeaveLoopIf(condition) == pc' = IF condition THEN "finish" ELSE "pull"

\* setup_input_buffered_stream reads the first frame and looks for a BOM in it.
Setup ==
  /\ pc = "setup"
  /\ read_stream_frame
  /\ encoding_layout' = detect_buffer_encoding_layout(input_stream'.buffer)
  /\ pc' = "pull"
  /\ UNCHANGED <<callVars, pulled, output_stream, flagVars, report>>

\* pull_byte on an exhausted buffer; at the end of the stream the loop is left,
\* whatever part of a code point had been pulled.
PullFrame ==
  /\ pc = "pull"
  /\ input_stream.buf_ptr >= Len(input_stream.buffer)
  /\ read_stream_frame
  /\ LeaveLoopIf(input_stream'.eof)
  /\ UNCHANGED <<callVars, encoding_layout, pulled, output_stream, flagVars, report>>

PullByte ==
  /\ pc = "pull"
  /\ input_stream.buf_ptr < Len(input_stream.buffer)
  /\ pulled' = Append(pulled, input_stream.buffer[input_stream.buf_ptr + 1])
  /\ input_stream' = [input_stream EXCEPT !.buf_ptr = @ + 1]
  /\ pc' = IF Len(pulled') = BytesPerCodePoint THEN "body" ELSE "pull"
  /\ UNCHANGED <<callVars, position, ferror, encoding_layout, output_stream, flagVars, report>>

--------------------------------------------------------------------------------
(* The body of the loop, one action per branch.                             *)

Body == pc = "body" /\ pulled' = <<>> /\ UNCHANGED <<callVars, inVars, encoding_layout>>

\* Faulty: a CR counts only once it is known to be no half of a CRLF.
Count_deferred(c, delta) == IF c = "CR" THEN report ELSE [report EXCEPT !.count_by_convention[c] = @ + delta]

\* ++ and -- on an unsigned int
Count(c, delta) ==
  [report EXCEPT !.count_by_convention[c] = (@ + delta) % UINT_RANGE]

\* Faulty: any line ending interrupts the dry scan.
IsUnwanted_any(c) == p.interrupt_if_not_like_dst_convention
IsUnwanted(c) == p.interrupt_if_not_like_dst_convention /\ p.dst_convention # c

InterruptOnNonText ==
  /\ Body
  /\ is_non_text_code(code_point)
  /\ p.interrupt_if_non_text
  /\ report' = [report EXCEPT !.contains_non_text_chars = TRUE]
  /\ last_was_newline' = FALSE
  /\ LeaveLoopIf(TRUE)
  /\ UNCHANGED <<output_stream, last_was_13>>

\* A CR is an end of line at once; an LF right behind it will amend the count.
MeetCR ==
  /\ Body
  /\ code_point = 13
  /\ output_stream' = push_newline(output_stream)
  /\ report' = Count("CR", 1)
  /\ last_was_13' = TRUE
  /\ last_was_newline' = TRUE
  /\ LeaveLoopIf(output_stream'.err)

MeetLFOfCRLF ==
  LET interrupted == IsUnwanted("CRLF")
  IN  /\ Body
      /\ code_point = 10
      /\ last_was_13
      /\ report' = [report EXCEPT
                      !.count_by_convention["CR"]   = (@ - 1) % UINT_RANGE,
                      !.count_by_convention["CRLF"] = (@ + 1) % UINT_RANGE]
      /\ last_was_newline' = TRUE
      /\ last_was_13' = interrupted
      /\ LeaveLoopIf(interrupted)
      /\ UNCHANGED output_stream

MeetLoneLF ==
  /\ Body
  /\ code_point = 10
  /\ ~ last_was_13
  /\ output_stream' = push_newline(output_stream)
  /\ report' = Count("LF", 1)
  /\ last_was_newline' = TRUE
  /\ LeaveLoopIf(IsUnwanted("LF") \/ output_stream'.err)
  /\ UNCHANGED last_was_13

MeetRegular ==
  /\ Body
  /\ code_point \notin {10, 13}
  /\ ~ (is_non_text_code(code_point) /\ p.interrupt_if_non_text)
  /\ output_stream' = push_code_point(code_point, output_stream)
  /\ report' = [report EXCEPT !.contains_non_text_chars = @ \/ is_non_text_code(code_point)]
  /\ last_was_13' = FALSE
  /\ last_was_newline' = FALSE
  /\ LeaveLoopIf(output_stream'.err)

\* Faulty: no end of line is ever added ...
EolIsMissing_never == FALSE
EolIsMissing == p.final_char_has_to_be_eol /\ ~ last_was_newline

\* ... or the one that was added is not in the report, ...
FinalEol_unreported == last_was_newline
FinalEol == last_was_newline \/ EolIsMissing

\* ... or nobody asks whether the end of the stream was an error.
ReadFailed_unasked == FALSE
ReadFailed == ferror

\* Behind the loop: the final end of line, the last flush, the report.
Finish ==
  /\ pc = "finish"
  /\ output_stream' = flush_buffer(IF EolIsMissing THEN push_newline(output_stream)
                                   ELSE output_stream)
  /\ report' = [report EXCEPT !.has_final_eol = FinalEol,
                              !.error_during_conversion = output_stream'.err \/ ReadFailed]
  /\ pc' = "done"
  /\ UNCHANGED <<callVars, inVars, encoding_layout, pulled, flagVars>>

Next ==
  \/ Setup \/ PullFrame \/ PullByte
  \/ InterruptOnNonText \/ MeetCR \/ MeetLFOfCRLF \/ MeetLoneLF \/ MeetRegular
  \/ Finish

Spec == Init /\ [][Next]_vars

\* A sequential function: as long as it can take a step, it does.
FairSpec == Spec /\ WF_vars(Next)
================================================================================
