------------------------- MODULE ConvertStreamProofs -------------------------
(***************************************************************************)
(* Proofs about ConvertStream, for any input, buffer size, failure of fread  *)
(* and fwrite, and for its four callers: the types, the bounds of the two  *)
(* buffers, that the count of CR is never taken below zero, and that the   *)
(* report is exact, as long as an unsigned int can count the bytes of the  *)
(* input.                                                                  *)
(***************************************************************************)
EXTENDS ConvertStreamProperties, SequenceTheorems, TLAPS, FiniteSetTheorems

Output == [open : BOOLEAN, buffer : Seq(Byte), sink : Seq(Byte), room : Nat, err : BOOLEAN]

\* An output buffer has a free byte, unless a write has failed.
InBounds(o) ==
  /\ o \in Output
  /\ Len(o.buffer) <= BUFFERSIZE
  /\ ~ o.err => Len(o.buffer) < BUFFERSIZE

\* Flushing leaves a buffer with room, or an error.
LEMMA FlushInBounds ==
  ASSUME NEW o, o \in Output, Len(o.buffer) <= BUFFERSIZE,
         ~ o.open => Len(o.buffer) < BUFFERSIZE
  PROVE  InBounds(flush_buffer(o))
  <1> DEFINE written == SmallerOf(Len(o.buffer), o.room)
  <1> USE BufferAssumption
  <1>1. written \in 0 .. Len(o.buffer) /\ written <= o.room
    BY LenProperties DEF SmallerOf, Output
  <1>2. SubSeq(o.buffer, 1, written) \in Seq(Byte)
    BY <1>1, SubSeqProperties DEF Output
  <1>3. o.sink \o SubSeq(o.buffer, 1, written) \in Seq(Byte)
    BY <1>2, ConcatProperties DEF Output
  <1>4. CASE ~ o.open \/ o.err
    BY <1>4 DEF flush_buffer, InBounds, Output
  <1>5. CASE o.open /\ ~ o.err
    <2> DEFINE short   == FellShort(written, o)
               flushed == [o EXCEPT !.sink = @ \o SubSeq(o.buffer, 1, written), !.room = @ - written,
                                    !.err = short, !.buffer = IF short THEN @ ELSE <<>>]
    <2>1. flush_buffer(o) = flushed
      BY <1>5 DEF flush_buffer
    <2>2. o.room - written \in Nat
      BY <1>1 DEF Output
    <2>3. <<>> \in Seq(Byte) /\ Len(<<>>) = 0
      BY EmptySeq
    <2>4. short \in BOOLEAN
      BY DEF FellShort
    <2> HIDE DEF short, written
    <2>5. /\ flushed \in Output /\ flushed.err = short
          /\ flushed.buffer = IF short THEN o.buffer ELSE <<>>
      BY <1>3, <2>3, <2>2, <2>4 DEF Output
    <2> HIDE DEF flushed
    <2> QED
      BY <2>1, <2>3, <2>4, <2>5 DEF InBounds
  <1> QED
    BY <1>4, <1>5

LEMMA FlushKeepsBounds ==
  ASSUME NEW o, InBounds(o)
  PROVE  InBounds(flush_buffer(o))
  <1>1. CASE ~ o.open \/ o.err
    BY <1>1 DEF flush_buffer
  <1>2. CASE o.open /\ ~ o.err
    BY <1>2, FlushInBounds DEF InBounds
  <1> QED
    BY <1>1, <1>2

LEMMA FlushKeepsOpen ==
  ASSUME NEW o, o \in Output
  PROVE  flush_buffer(o).open = o.open
  BY DEF flush_buffer, Output

\* A push into a buffer with room leaves a buffer with room, or an error.
LEMMA PushInBounds ==
  ASSUME NEW o, InBounds(o), o.open, NEW value \in Byte
  PROVE  /\ InBounds(push_byte(value, o))
         /\ push_byte(value, o).open
  <1> DEFINE pushed == [o EXCEPT !.buffer = Append(@, value)]
  <1>1. CASE o.err
    BY <1>1 DEF push_byte
  <1>2. CASE ~ o.err
    <2>1. /\ Append(o.buffer, value) \in Seq(Byte)
          /\ Len(Append(o.buffer, value)) = Len(o.buffer) + 1
      BY AppendProperties DEF InBounds, Output
    <2>2. /\ pushed \in Output /\ pushed.open /\ pushed.err = o.err
          /\ Len(pushed.buffer) = Len(o.buffer) + 1
      BY <2>1 DEF InBounds, Output
    <2>3. Len(o.buffer) \in Nat
      BY LenProperties DEF InBounds, Output
    <2> HIDE DEF pushed
    <2>4. InBounds(flush_buffer(pushed)) /\ flush_buffer(pushed).open
      <3>1. Len(pushed.buffer) <= BUFFERSIZE
        BY <1>2, <2>2, <2>3, BufferAssumption DEF InBounds
      <3> QED
        BY <2>2, <3>1, FlushInBounds, FlushKeepsOpen
    <2>5. Len(pushed.buffer) # BUFFERSIZE => InBounds(pushed)
      BY <1>2, <2>2, <2>3, BufferAssumption DEF InBounds
    <2>6. push_byte(value, o) = IF Len(pushed.buffer) = BUFFERSIZE THEN flush_buffer(pushed) ELSE pushed
      BY <1>2 DEF push_byte, pushed, IsFull
    <2> QED
      BY <2>2, <2>4, <2>5, <2>6
  <1> QED
    BY <1>1, <1>2

\* So do the bytes of a code point ...
LEMMA PushCodePointInBounds ==
  ASSUME NEW o, InBounds(o), NEW w \in Nat, encoding_layout \in Layouts
  PROVE  InBounds(push_code_point(w, o)) /\ push_code_point(w, o).open = o.open
  <1> DEFINE low  == w % 256
             high == (w \div 256) % 256
  <1>1. low \in Byte /\ high \in Byte
    BY DEF Byte
  <1>2. push_code_point(w, o) =
          IF ~ o.open THEN o
          ELSE CASE encoding_layout = "WT_1BYTE"    -> push_byte(low, o)
                 [] encoding_layout = "WT_2BYTE_LE" -> push_byte(high, push_byte(low, o))
                 [] encoding_layout = "WT_2BYTE_BE" -> push_byte(low, push_byte(high, o))
    BY DEF push_code_point, LowByte
  <1> HIDE DEF low, high
  <1>3. CASE ~ o.open
    BY <1>2, <1>3
  <1>4. CASE o.open
    <2>1. /\ InBounds(push_byte(low, o)) /\ push_byte(low, o).open
          /\ InBounds(push_byte(high, o)) /\ push_byte(high, o).open
      BY <1>1, <1>4, PushInBounds
    <2>2. /\ InBounds(push_byte(high, push_byte(low, o)))
          /\ push_byte(high, push_byte(low, o)).open
          /\ InBounds(push_byte(low, push_byte(high, o)))
          /\ push_byte(low, push_byte(high, o)).open
      BY <1>1, <2>1, PushInBounds
    <2>3. o.open = TRUE
      BY <1>4 DEF InBounds, Output
    <2>4. /\ push_byte(low, o).open = TRUE
          /\ push_byte(high, push_byte(low, o)).open = TRUE
          /\ push_byte(low, push_byte(high, o)).open = TRUE
      BY <2>1, <2>2 DEF InBounds, Output
    <2> QED
      BY <1>2, <2>1, <2>3, <2>2, <2>4 DEF Layouts
  <1> QED
    BY <1>3, <1>4

Sites == {"pre_conversion_check", "convert_one_file", "check_one_file", "convert_stdin_to_stdout"}

LEMMA ParametersType ==
  ASSUME site \in Sites, invocation \in Invocation
  PROVE  p.dst_convention \in Targets
  BY DEF Sites, Invocation, Targets, LineEndings, p, PreCheckParameters, ConvertParameters,
         CheckParameters, StdinParameters

\* ... and those of a line ending, which are none, one or two code points.
LEMMA PushNewlineInBounds ==
  ASSUME NEW o, InBounds(o), encoding_layout \in Layouts, site \in Sites, invocation \in Invocation
  PROVE  InBounds(push_newline(o))
  <1>1. /\ InBounds(push_code_point(13, o))
        /\ InBounds(push_code_point(10, o))
        /\ InBounds(push_code_point(10, push_code_point(13, o)))
    BY PushCodePointInBounds
  <1> QED
    BY <1>1, ParametersType DEF push_newline, Targets, LineEndings

--------------------------------------------------------------------------------
(* The invariant.                                                           *)

\* The bytes pulled so far: those handed out by fread and not left in the buffer.
Consumed ==
  IF input_stream.buffer = <<>> THEN position
  ELSE position - Len(input_stream.buffer) + input_stream.buf_ptr

BufferedInput == [buffer : Seq(Byte), buf_ptr : 0 .. BUFFERSIZE, eof : BOOLEAN]

InputInv ==
  /\ input \in Inputs
  /\ position \in 0 .. Len(input)
  /\ input_stream \in BufferedInput
  /\ Len(input_stream.buffer) <= BUFFERSIZE
  /\ Len(input_stream.buffer) <= position
  /\ input_stream.buffer # <<>> => input_stream.buf_ptr <= Len(input_stream.buffer)
  /\ ferror \in BOOLEAN

CallInv ==
  /\ invocation \in Invocation
  /\ site \in CallSites(invocation.dst_convention)

Counts  == [LineEndings -> 0 .. UINT_RANGE - 1]
Reports == [error_during_conversion : BOOLEAN, contains_non_text_chars : BOOLEAN,
            has_final_eol : BOOLEAN, count_by_convention : Counts]

LoopInv ==
  /\ encoding_layout \in Layouts
  /\ pulled \in Seq(Byte)
  /\ pc = "setup" => input_stream.buffer = <<>>
  /\ pc = "body" => Len(pulled) = BytesPerCodePoint
  /\ last_was_13 \in BOOLEAN /\ last_was_newline \in BOOLEAN
  /\ report \in Reports
  /\ pc \in {"setup", "pull", "body", "finish", "done"}

StreamInv == CallInv /\ InputInv /\ InBounds(output_stream) /\ LoopInv

LEMMA SitesOfCall == CallInv => site \in Sites
  BY DEF CallInv, CallSites, Sites

LEMMA InvImpliesType == StreamInv => TypeOK /\ BuffersInBounds
  BY DEF StreamInv, CallInv, InputInv, BufferedInput, InBounds, Output, LoopInv, Reports, Counts, TypeOK, BuffersInBounds

LEMMA BufferReplaced ==
  ASSUME NEW b \in BufferedInput, NEW frame \in Seq(Byte)
  PROVE  [buffer |-> frame, buf_ptr |-> 0, eof |-> b.eof] \in BufferedInput
  <1>1. b.eof \in BOOLEAN /\ 0 \in 0 .. BUFFERSIZE
    BY BufferAssumption DEF BufferedInput
  <1> QED
    BY <1>1, Zenon DEF BufferedInput

LEMMA FrameReplaced ==
  ASSUME InputInv, input' = input, Len(input) \in Nat, position \in Nat,
         NEW frame \in Seq(Byte), NEW n \in Nat \ {0},
         Len(frame) = n, n <= BUFFERSIZE, position + n <= Len(input),
         position' = position + n, ferror' \in BOOLEAN,
         input_stream' = [buffer |-> frame, buf_ptr |-> 0, eof |-> input_stream.eof]
  PROVE  InputInv' /\ Consumed' = position /\ input_stream'.buffer \in Seq(Byte)
  <1>1. /\ input_stream'.buffer = frame /\ input_stream'.buf_ptr = 0
        /\ input_stream' \in BufferedInput
    BY BufferReplaced DEF InputInv
  <1>2. frame # <<>>
    BY EmptySeq
  <1>3. Consumed' = position + n - n + 0
    BY <1>1, <1>2 DEF Consumed
  <1> QED
    BY <1>1, <1>3 DEF InputInv

\* A frame read from the input is a piece of it that fits the buffer, and reading it
\* pulls no byte when there was none left to pull.
LEMMA ReadingFrame ==
  ASSUME InputInv, read_stream_frame, input' = input,
         input_stream.buf_ptr >= Len(input_stream.buffer)
  PROVE  InputInv' /\ Consumed' = Consumed /\ input_stream'.buffer \in Seq(Byte)
  <1> USE BufferAssumption
  <1>1. input \in Seq(Byte) /\ Len(input) \in Nat /\ position \in Nat
    BY InputAssumption, LenProperties DEF InputInv
  <1> DEFINE available == SmallerOf(BUFFERSIZE, Len(input) - position)
  <1>2. available \in 0 .. BUFFERSIZE /\ available <= Len(input) - position
    BY <1>1 DEF SmallerOf, InputInv
  <1>9. \E n \in (IF ReadFaults THEN 0 .. available ELSE {available}) :
          /\ position' = position + n
          /\ ferror' = (ferror \/ n < available)
          /\ input_stream' =
               IF n = 0
               THEN [input_stream EXCEPT !.buffer = <<>>, !.eof = TRUE]
               ELSE [buffer |-> SubSeq(input, position + 1, position + n),
                   buf_ptr |-> 0, eof |-> input_stream.eof]
    BY Zenon DEF read_stream_frame
  <1> HIDE DEF available
  <1> PICK n \in (IF ReadFaults THEN 0 .. available ELSE {available}) :
        /\ position' = position + n
        /\ ferror' = (ferror \/ n < available)
        /\ input_stream' =
             IF n = 0
             THEN [input_stream EXCEPT !.buffer = <<>>, !.eof = TRUE]
             ELSE [buffer |-> SubSeq(input, position + 1, position + n),
                   buf_ptr |-> 0, eof |-> input_stream.eof]
    BY <1>9
  <1> n \in 0 .. available
    BY <1>2
  <1>3. Consumed = position
    <2>1. Len(input_stream.buffer) \in Nat /\ input_stream.buf_ptr \in Nat
      BY LenProperties DEF InputInv, BufferedInput
    <2>2. input_stream.buffer # <<>> => input_stream.buf_ptr = Len(input_stream.buffer)
      BY <2>1 DEF InputInv
    <2> QED
      BY <1>1, <2>1, <2>2 DEF Consumed
  <1> ferror' \in BOOLEAN /\ position' \in 0 .. Len(input) /\ position' >= position
    BY <1>1, <1>2 DEF InputInv
  <1>4. CASE n = 0
    <2>1. input_stream' = [input_stream EXCEPT !.buffer = <<>>, !.eof = TRUE] /\ position' = position
      BY <1>1, <1>4
    <2>2. /\ input_stream' \in BufferedInput
          /\ input_stream'.buffer = <<>>
      BY <2>1, EmptySeq DEF InputInv, BufferedInput
    <2>3. Len(<<>>) = 0
      BY EmptySeq
    <2> QED
      BY <1>1, <1>3, <2>1, <2>2, <2>3 DEF InputInv, BufferedInput, Consumed
  <1>5. CASE n # 0
    <2> DEFINE frame == SubSeq(input, position + 1, position + n)
    <2>1. frame \in Seq(Byte) /\ Len(frame) = n
      <3>1. \A i \in position + 1 .. position + n : input[i] \in Byte
        BY <1>1, <1>2, ElementOfSeq
      <3> QED
        BY <1>1, <1>2, <1>5, <3>1, SubSeqProperties
    <2>2. input_stream' = [buffer |-> frame, buf_ptr |-> 0, eof |-> input_stream.eof]
      BY <1>5
    <2>3. /\ n \in Nat \ {0} /\ n <= BUFFERSIZE
          /\ position' = position + n /\ position + n <= Len(input)
      BY <1>1, <1>2, <1>5
    <2> HIDE DEF frame
    <2> QED
      BY <1>1, <1>3, <2>1, <2>3, <2>2, FrameReplaced
  <1> QED
    BY <1>4, <1>5

LEMMA TwoBytes ==
  ASSUME NEW a \in 0 .. 255, NEW b \in 0 .. 255
  PROVE  a + 256 * b \in Nat /\ 256 * a + b \in Nat
  OBVIOUS

\* A code point that was pulled whole is a natural number.
LEMMA CodePointType == LoopInv /\ pc = "body" => code_point \in Nat
  <1> SUFFICES ASSUME LoopInv, pc = "body" PROVE code_point \in Nat
    OBVIOUS
  <1>1. encoding_layout \in Layouts /\ Len(pulled) = BytesPerCodePoint /\ pulled \in Seq(Byte)
    BY DEF LoopInv
  <1>2. \A i \in 1 .. BytesPerCodePoint : pulled[i] \in 0 .. 255
    BY <1>1, ElementOfSeq DEF Byte
  <1>3. CASE encoding_layout = "WT_1BYTE"
    <2>1. BytesPerCodePoint = 1
      BY <1>3 DEF BytesPerCodePoint
    <2>2. pulled[1] \in 0 .. 255
      BY <1>2, <2>1
    <2> QED
      BY <1>3, <2>2 DEF code_point
  <1>4. CASE encoding_layout \in {"WT_2BYTE_LE", "WT_2BYTE_BE"}
    <2>1. BytesPerCodePoint = 2
      BY <1>4 DEF BytesPerCodePoint
    <2>2. pulled[1] \in 0 .. 255 /\ pulled[2] \in 0 .. 255
      BY <1>2, <2>1
    <2>3. pulled[1] + 256 * pulled[2] \in Nat /\ 256 * pulled[1] + pulled[2] \in Nat
      BY <2>2, TwoBytes
    <2> QED
      BY <1>4, <2>3 DEF code_point
  <1> QED
    BY <1>1, <1>3, <1>4 DEF Layouts

\* Counting, by one or two counters, keeps a report a report.
LEMMA CountType ==
  ASSUME NEW r \in Reports, NEW counts \in Counts
  PROVE  [r EXCEPT !.count_by_convention = counts] \in Reports
  BY DEF Reports

LEMMA OneCounter ==
  ASSUME NEW counts \in Counts, NEW c \in LineEndings, NEW i \in Int
  PROVE  [counts EXCEPT ![c] = i % UINT_RANGE] \in Counts
  BY UintAssumption DEF Counts

LEMMA CountKeepsReport ==
  ASSUME report \in Reports, NEW c \in LineEndings, NEW delta \in Int
  PROVE  Count(c, delta) \in Reports
  <1> DEFINE counts == report.count_by_convention
  <1>1. counts \in Counts /\ counts[c] + delta \in Int
    BY UintAssumption DEF Reports, Counts
  <1>2. [counts EXCEPT ![c] = (counts[c] + delta) % UINT_RANGE] \in Counts
    BY <1>1, OneCounter
  <1>3. Count(c, delta) =
          [report EXCEPT !.count_by_convention = [counts EXCEPT ![c] = (counts[c] + delta) % UINT_RANGE]]
    BY DEF Count
  <1> QED
    BY <1>2, <1>3, CountType

LEMMA StreamInit == Init => StreamInv
  <1> SUFFICES ASSUME Init PROVE StreamInv
    OBVIOUS
  <1>1. CallInv
    BY DEF Init, CallInv
  <1>2. p.has_outstream \in BOOLEAN
    BY <1>1, SitesOfCall DEF CallInv, Sites, p, PreCheckParameters, ConvertParameters,
       CheckParameters, StdinParameters
  <1>3. <<>> \in Seq(Byte) /\ Len(<<>>) = 0
    BY EmptySeq
  <1>4. Len(input) \in Nat
    BY InputAssumption, LenProperties DEF Init
  <1>5. InputInv
    <2>1. BUFFERSIZE \in 0 .. BUFFERSIZE /\ FALSE \in BOOLEAN
      BY BufferAssumption
    <2>2. [buffer |-> <<>>, buf_ptr |-> BUFFERSIZE, eof |-> FALSE] \in BufferedInput
      BY <1>3, <2>1, Zenon DEF BufferedInput
    <2>3. input_stream \in BufferedInput /\ input_stream.buffer = <<>>
      BY <2>2 DEF Init
    <2>4. input \in Inputs /\ position = 0 /\ ferror \in BOOLEAN
      BY DEF Init
    <2> QED
      BY <1>3, <1>4, <2>3, <2>4, BufferAssumption DEF InputInv
  <1>6. InBounds(output_stream)
    <2> PICK room \in Rooms :
          output_stream = [open |-> p.has_outstream, buffer |-> <<>>, sink |-> <<>>,
                           room |-> room, err |-> FALSE]
      BY DEF Init
    <2> HIDE DEF p
    <2>1. room \in Nat
      BY RoomAssumption
    <2> QED
      BY <1>2, <1>3, <2>1, BufferAssumption DEF InBounds, Output
  <1>7. LoopInv
    <2>1. init_report \in Reports
      BY UintAssumption DEF init_report, Reports, Counts
    <2> QED
      BY <1>3, <2>1 DEF Init, LoopInv, Layouts
  <1> QED
    BY <1>1, <1>5, <1>6, <1>7 DEF StreamInv


\* What every branch of the loop has in common.
LEMMA BodyKeepsInv ==
  ASSUME StreamInv, Body, InBounds(output_stream'), report' \in Reports,
         last_was_13' \in BOOLEAN, last_was_newline' \in BOOLEAN, pc' \in {"pull", "finish"}
  PROVE  StreamInv'
  <1>1. CallInv' /\ InputInv'
    BY DEF StreamInv, Body, callVars, inVars, CallInv, InputInv
  <1>2. <<>> \in Seq(Byte)
    BY EmptySeq
  <1>3. LoopInv'
    BY <1>2 DEF StreamInv, LoopInv, Body
  <1> QED
    BY <1>1, <1>3 DEF StreamInv

LEMMA FrameKeepsInv ==
  ASSUME StreamInv, Setup \/ PullFrame
  PROVE  StreamInv' /\ Consumed' = Consumed
  <1>1. input_stream.buf_ptr >= Len(input_stream.buffer)
    <2>1. Len(<<>>) = 0 /\ input_stream.buf_ptr \in 0 .. BUFFERSIZE
      BY EmptySeq DEF StreamInv, InputInv, BufferedInput
    <2>2. CASE Setup
      BY <2>1, <2>2, BufferAssumption DEF Setup, StreamInv, LoopInv
    <2>3. CASE PullFrame
      BY <2>3 DEF PullFrame
    <2> QED
      BY <2>2, <2>3
  <1>2. read_stream_frame /\ UNCHANGED <<callVars, pulled, output_stream, flagVars, report>>
    BY DEF Setup, PullFrame
  <1>3. InputInv' /\ Consumed' = Consumed
    BY <1>1, <1>2, ReadingFrame DEF StreamInv, callVars
  <1>4. CallInv' /\ InBounds(output_stream')
    BY <1>2 DEF StreamInv, CallInv, callVars
  <1>5. encoding_layout' \in Layouts /\ pc' \in {"pull", "finish"}
    BY DEF Setup, PullFrame, LeaveLoopIf, StreamInv, LoopInv, detect_buffer_encoding_layout, Layouts
  <1>6. LoopInv'
    BY <1>2, <1>5 DEF StreamInv, LoopInv, flagVars
  <1> QED
    BY <1>3, <1>4, <1>6 DEF StreamInv

LEMMA PtrAdvanced ==
  ASSUME NEW b \in BufferedInput, NEW i \in 0 .. BUFFERSIZE
  PROVE  [b EXCEPT !.buf_ptr = i] \in BufferedInput
  BY DEF BufferedInput

LEMMA PullByteKeepsInv ==
  ASSUME StreamInv, PullByte
  PROVE  StreamInv' /\ Consumed' = Consumed + 1 /\ Len(pulled') = Len(pulled) + 1
  <1> DEFINE next == input_stream.buf_ptr + 1
             byte == input_stream.buffer[next]
  <1>1. /\ input_stream.buffer \in Seq(Byte) /\ Len(input_stream.buffer) \in Nat
        /\ next \in 1 .. Len(input_stream.buffer) /\ next \in 0 .. BUFFERSIZE
        /\ position \in Nat
    <2>1. input_stream.buffer \in Seq(Byte) /\ input_stream.buf_ptr \in 0 .. BUFFERSIZE
      BY DEF StreamInv, InputInv, BufferedInput
    <2>2. Len(input_stream.buffer) \in Nat /\ input \in Seq(Byte)
      BY <2>1, InputAssumption, LenProperties DEF StreamInv, InputInv
    <2>3. Len(input) \in Nat
      BY <2>2, LenProperties
    <2> QED
      BY <2>1, <2>3, <2>2, BufferAssumption DEF PullByte, StreamInv, InputInv
  <1>2. byte \in Byte
    BY <1>1, ElementOfSeq
  <1>3. pulled' = Append(pulled, byte) /\ input_stream' = [input_stream EXCEPT !.buf_ptr = next]
    BY DEF PullByte
  <1> HIDE DEF byte
  <1>4. pulled' \in Seq(Byte) /\ Len(pulled') = Len(pulled) + 1
    BY <1>2, <1>3, AppendProperties DEF StreamInv, LoopInv
  <1>5. /\ input_stream' \in BufferedInput
        /\ input_stream'.buffer = input_stream.buffer /\ input_stream'.buf_ptr = next
    <2>1. input_stream \in BufferedInput
      BY DEF StreamInv, InputInv
    <2>2. input_stream' \in BufferedInput
      BY <1>1, <1>3, <2>1, PtrAdvanced
    <2> QED
      BY <1>3, <2>1, <2>2 DEF BufferedInput
  <1> HIDE DEF next
  <1>6. InputInv'
    BY <1>1, <1>5 DEF PullByte, StreamInv, InputInv, callVars
  <1>7. Consumed' = Consumed + 1
    <2>1. input_stream.buffer # <<>>
      BY <1>1, EmptySeq
    <2>2. position' = position
      BY DEF PullByte
    <2> QED
      BY <1>1, <1>5, <2>1, <2>2 DEF Consumed, next, StreamInv, InputInv, BufferedInput
  <1>8. CallInv' /\ InBounds(output_stream')
    BY DEF PullByte, StreamInv, CallInv, callVars
  <1>9. LoopInv'
    <2>1. encoding_layout' = encoding_layout /\ BytesPerCodePoint' = BytesPerCodePoint
      BY DEF PullByte, BytesPerCodePoint
    <2>2. /\ pc' = (IF Len(pulled') = BytesPerCodePoint THEN "body" ELSE "pull")
          /\ UNCHANGED <<flagVars, report>>
      BY DEF PullByte
    <2> HIDE DEF BytesPerCodePoint
    <2> QED
      BY <1>4, <2>1, <2>2 DEF StreamInv, LoopInv, flagVars
  <1> QED
    BY <1>4, <1>6, <1>7, <1>8, <1>9 DEF StreamInv

LEMMA InterruptKeepsInv == StreamInv /\ InterruptOnNonText => StreamInv'
  <1> SUFFICES ASSUME StreamInv, InterruptOnNonText PROVE StreamInv'
    OBVIOUS
  <1>1. report' \in Reports
    BY DEF InterruptOnNonText, StreamInv, LoopInv, Reports
  <1> QED
    BY <1>1, BodyKeepsInv DEF InterruptOnNonText, LeaveLoopIf, StreamInv, LoopInv

LEMMA MeetCRKeepsInv == StreamInv /\ MeetCR => StreamInv'
  <1> SUFFICES ASSUME StreamInv, MeetCR PROVE StreamInv'
    OBVIOUS
  <1>1. InBounds(output_stream')
    BY PushNewlineInBounds, SitesOfCall DEF MeetCR, StreamInv, CallInv, LoopInv
  <1>2. report' \in Reports
    BY CountKeepsReport DEF MeetCR, StreamInv, LoopInv, LineEndings
  <1>3. /\ Body /\ last_was_13' \in BOOLEAN /\ last_was_newline' \in BOOLEAN
        /\ pc' \in {"pull", "finish"}
    BY DEF MeetCR, LeaveLoopIf
  <1> QED
    BY <1>1, <1>2, <1>3, BodyKeepsInv

LEMMA MeetLoneLFKeepsInv == StreamInv /\ MeetLoneLF => StreamInv'
  <1> SUFFICES ASSUME StreamInv, MeetLoneLF PROVE StreamInv'
    OBVIOUS
  <1>1. InBounds(output_stream')
    BY PushNewlineInBounds, SitesOfCall DEF MeetLoneLF, StreamInv, CallInv, LoopInv
  <1>2. report' \in Reports
    BY CountKeepsReport DEF MeetLoneLF, StreamInv, LoopInv, LineEndings
  <1>3. /\ Body /\ last_was_13' \in BOOLEAN /\ last_was_newline' \in BOOLEAN
        /\ pc' \in {"pull", "finish"}
    BY DEF MeetLoneLF, LeaveLoopIf, StreamInv, LoopInv
  <1> QED
    BY <1>1, <1>2, <1>3, BodyKeepsInv

LEMMA MeetLFOfCRLFKeepsInv == StreamInv /\ MeetLFOfCRLF => StreamInv'
  <1> SUFFICES ASSUME StreamInv, MeetLFOfCRLF PROVE StreamInv'
    OBVIOUS
  <1>1. InBounds(output_stream')
    BY DEF MeetLFOfCRLF, StreamInv
  <1>2. report' \in Reports
    <2> DEFINE counts == report.count_by_convention
               fewer  == [counts EXCEPT !["CR"] = (counts["CR"] - 1) % UINT_RANGE]
               moved  == [fewer EXCEPT !["CRLF"] = (fewer["CRLF"] + 1) % UINT_RANGE]
    <2>1. counts \in Counts /\ counts["CR"] - 1 \in Int
      BY UintAssumption DEF StreamInv, LoopInv, Reports, Counts, LineEndings
    <2>2. fewer \in Counts
      BY <2>1, OneCounter DEF LineEndings
    <2>3. fewer["CRLF"] + 1 \in Int
      BY <2>2, UintAssumption DEF Counts, LineEndings
    <2>4. moved \in Counts
      BY <2>2, <2>3, OneCounter DEF LineEndings
    <2>5. report' = [report EXCEPT !.count_by_convention = moved]
      BY DEF MeetLFOfCRLF, StreamInv, LoopInv, Reports, Counts
    <2> HIDE DEF moved
    <2> QED
      BY <2>4, <2>5, CountType DEF StreamInv, LoopInv
  <1>3. /\ Body /\ last_was_13' \in BOOLEAN /\ last_was_newline' \in BOOLEAN
        /\ pc' \in {"pull", "finish"}
    BY DEF MeetLFOfCRLF, LeaveLoopIf, IsUnwanted
  <1> QED
    BY <1>1, <1>2, <1>3, BodyKeepsInv

LEMMA MeetRegularKeepsInv == StreamInv /\ MeetRegular => StreamInv'
  <1> SUFFICES ASSUME StreamInv, MeetRegular PROVE StreamInv'
    OBVIOUS
  <1>1. InBounds(output_stream')
    <2>1. code_point \in Nat
      BY CodePointType DEF MeetRegular, Body, StreamInv
    <2> QED
      BY <2>1, PushCodePointInBounds DEF MeetRegular, StreamInv, LoopInv
  <1>2. report' \in Reports
    BY DEF MeetRegular, StreamInv, LoopInv, Reports
  <1>3. /\ Body /\ last_was_13' \in BOOLEAN /\ last_was_newline' \in BOOLEAN
        /\ pc' \in {"pull", "finish"}
    BY DEF MeetRegular, LeaveLoopIf
  <1> QED
    BY <1>1, <1>2, <1>3, BodyKeepsInv

LEMMA FinishKeepsInv == StreamInv /\ Finish => StreamInv'
  <1> SUFFICES ASSUME StreamInv, Finish PROVE StreamInv'
    OBVIOUS
  <1> DEFINE ended == IF EolIsMissing THEN push_newline(output_stream) ELSE output_stream
  <1>1. InBounds(output_stream')
    <2>1. InBounds(push_newline(output_stream)) /\ InBounds(output_stream)
      BY PushNewlineInBounds, SitesOfCall DEF StreamInv, CallInv, LoopInv
    <2>2. InBounds(ended)
      BY <2>1
    <2>3. output_stream' = flush_buffer(ended)
      BY DEF Finish
    <2> HIDE DEF ended
    <2> QED
      BY <2>2, <2>3, FlushKeepsBounds
  <1>2. CallInv' /\ InputInv'
    BY DEF Finish, StreamInv, CallInv, InputInv, callVars, inVars
  <1>3. report' \in Reports
    BY <1>1 DEF Finish, FinalEol, EolIsMissing, ReadFailed, StreamInv, InputInv, LoopInv, InBounds,
       Output, Reports
  <1>4. LoopInv'
    BY <1>3 DEF Finish, StreamInv, LoopInv, flagVars
  <1> QED
    BY <1>1, <1>2, <1>4 DEF StreamInv

LEMMA StreamNext == StreamInv /\ [Next]_vars => StreamInv'
  <1> SUFFICES ASSUME StreamInv, [Next]_vars PROVE StreamInv'
    OBVIOUS
  <1>1. CASE UNCHANGED vars
    BY <1>1 DEF vars, callVars, inVars, flagVars, StreamInv, CallInv, InputInv, LoopInv,
       BytesPerCodePoint
  <1>2. CASE Setup \/ PullFrame
    BY <1>2, FrameKeepsInv
  <1>3. CASE PullByte
    BY <1>3, PullByteKeepsInv
  <1>4. CASE InterruptOnNonText
    BY <1>4, InterruptKeepsInv
  <1>5. CASE MeetCR
    BY <1>5, MeetCRKeepsInv
  <1>6. CASE MeetLFOfCRLF
    BY <1>6, MeetLFOfCRLFKeepsInv
  <1>7. CASE MeetLoneLF
    BY <1>7, MeetLoneLFKeepsInv
  <1>8. CASE MeetRegular
    BY <1>8, MeetRegularKeepsInv
  <1>9. CASE Finish
    BY <1>9, FinishKeepsInv
  <1> QED
    BY <1>1, <1>2, <1>3, <1>4, <1>5, <1>6, <1>7, <1>8, <1>9 DEF Next

LEMMA StreamInvariant == Spec => []StreamInv
  BY StreamInit, StreamNext, PTL DEF Spec

\* Whatever the input, the failures of fread and fwrite, the caller and the buffer size,
\* every variable of a call of convert_stream keeps its type.
THEOREM TypeCorrect == Spec => []TypeOK
  BY StreamInvariant, InvImpliesType, PTL

\* No push writes behind the end of the output buffer and no pull reads behind what
\* fread delivered: for every buffer of at least two bytes and every input.
THEOREM BuffersStayInBounds == Spec => []BuffersInBounds
  BY StreamInvariant, InvImpliesType, PTL

--------------------------------------------------------------------------------
(* The count of CR.  It is bounded by the bytes that were pulled, so that it *)
(* cannot wrap to zero as long as an unsigned int can count the input.       *)

CRCount == report.count_by_convention["CR"]

CountInv ==
  /\ CRCount + Len(pulled) <= Consumed
  /\ pc = "setup" => ~ last_was_13
  /\ NoCountUnderflow

LEMMA CountsAreSmall ==
  ASSUME StreamInv, CountInv, \A s \in Inputs : Len(s) < UINT_RANGE
  PROVE  /\ CRCount \in Nat /\ Len(pulled) \in Nat /\ Consumed \in Nat
         /\ Consumed < UINT_RANGE
         /\ pc = "body" => Len(pulled) >= 1
  <1>1. input \in Seq(Byte) /\ pulled \in Seq(Byte)
    BY InputAssumption DEF StreamInv, InputInv, LoopInv
  <1>2. Len(input) \in Nat /\ Len(pulled) \in Nat /\ Len(input) < UINT_RANGE
    BY <1>1, LenProperties DEF StreamInv, InputInv
  <1>3. /\ input_stream.buffer \in Seq(Byte) /\ input_stream.buf_ptr \in Nat
        /\ Len(input_stream.buffer) \in Nat
    BY LenProperties, BufferAssumption DEF StreamInv, InputInv, BufferedInput
  <1>4. Consumed \in 0 .. Len(input)
    BY <1>2, <1>3 DEF Consumed, StreamInv, InputInv
  <1>5. CRCount \in Nat
    BY UintAssumption DEF CRCount, StreamInv, LoopInv, Reports, Counts, LineEndings
  <1>6. pc = "body" => Len(pulled) >= 1
    BY DEF StreamInv, LoopInv, BytesPerCodePoint
  <1> QED
    BY <1>2, <1>4, <1>5, <1>6, UintAssumption

\* The other counters do not touch the count of CR.
LEMMA CountOfCR ==
  ASSUME StreamInv, NEW c \in LineEndings, NEW delta \in Int
  PROVE  Count(c, delta).count_by_convention["CR"] =
           IF c = "CR" THEN (CRCount + delta) % UINT_RANGE ELSE CRCount
  BY DEF Count, CRCount, StreamInv, LoopInv, Reports, Counts, LineEndings

LEMMA ModSmall ==
  ASSUME NEW n \in Nat, n < UINT_RANGE
  PROVE  n % UINT_RANGE = n
  BY UintAssumption

LEMMA BodyKeepsCount ==
  ASSUME pc' \in {"pull", "finish"}, StreamInv, CountInv, Body, \A s \in Inputs : Len(s) < UINT_RANGE,
         CRCount' \in Nat, CRCount' <= CRCount + 1,
         last_was_13' => CRCount' > 0 \/ pc' \notin {"pull", "body"}
  PROVE  CountInv'
  <1>1. Consumed' = Consumed
    BY DEF Body, inVars, Consumed
  <1>2. Len(pulled') = 0
    BY EmptySeq DEF Body
  <1>3. CRCount' + 0 <= Consumed
    BY CountsAreSmall DEF Body, CountInv
  <1> QED
    BY <1>1, <1>2, <1>3 DEF CountInv, NoCountUnderflow, CRCount

LEMMA CountNext ==
  ASSUME StreamInv, CountInv, [Next]_vars, \A s \in Inputs : Len(s) < UINT_RANGE
  PROVE  CountInv'
  <1>1. /\ CRCount \in Nat /\ Len(pulled) \in Nat /\ Consumed \in Nat
        /\ CRCount + Len(pulled) <= Consumed /\ Consumed < UINT_RANGE
        /\ pc = "body" => Len(pulled) >= 1
    BY CountsAreSmall DEF CountInv
  <1>2. CASE UNCHANGED vars
    BY <1>2 DEF vars, inVars, flagVars, CountInv, CRCount, Consumed, NoCountUnderflow
  <1>3. CASE Setup \/ PullFrame
    <2>1. Consumed' = Consumed
      BY <1>3, FrameKeepsInv
    <2>2. /\ UNCHANGED <<pulled, report, last_was_13, last_was_newline>>
          /\ pc = "pull" \/ pc = "setup"
      BY <1>3 DEF Setup, PullFrame, flagVars
    <2>3. pc = "setup" => ~ last_was_13
      BY DEF CountInv
    <2>4. pc' # "setup"
      BY <1>3 DEF Setup, PullFrame, LeaveLoopIf
    <2> QED
      BY <2>1, <2>3, <2>2, <2>4 DEF CountInv, CRCount, NoCountUnderflow
  <1>4. CASE PullByte
    <2>1. Consumed' = Consumed + 1 /\ Len(pulled') = Len(pulled) + 1
      BY <1>4, PullByteKeepsInv
    <2>2. UNCHANGED <<report, last_was_13, last_was_newline>> /\ pc = "pull" /\ pc' # "setup"
      BY <1>4 DEF PullByte, flagVars
    <2>3. CRCount' = CRCount /\ NoCountUnderflow'
      BY <2>2 DEF CountInv, CRCount, NoCountUnderflow
    <2>4. CRCount' + Len(pulled') <= Consumed'
      BY <1>1, <2>1, <2>3
    <2> QED
      BY <2>3, <2>2, <2>4 DEF CountInv
  <1>5. CASE InterruptOnNonText
    <2>1. CRCount' = CRCount /\ pc' = "finish" /\ Body
      BY <1>5 DEF InterruptOnNonText, LeaveLoopIf, CRCount, StreamInv, LoopInv, Reports
    <2> QED
      BY <1>1, <2>1, BodyKeepsCount
  <1>6. CASE MeetCR
    <2>1. CRCount + 1 < UINT_RANGE
      BY <1>1, <1>6, UintAssumption DEF MeetCR, Body
    <2>2. CRCount' = (CRCount + 1) % UINT_RANGE /\ Body /\ pc' \in {"pull", "finish"}
      BY <1>6, CountOfCR DEF MeetCR, LeaveLoopIf, CRCount, LineEndings
    <2>3. CRCount' = CRCount + 1
      BY <1>1, <2>1, <2>2, ModSmall
    <2> QED
      BY <1>1, <2>2, <2>3, BodyKeepsCount
  <1>7. CASE MeetLFOfCRLF
    <2>1. CRCount > 0
      BY <1>7 DEF MeetLFOfCRLF, Body, CountInv, NoCountUnderflow, CRCount
    <2>2. CRCount' = (CRCount - 1) % UINT_RANGE
      BY <1>7 DEF MeetLFOfCRLF, CRCount, StreamInv, LoopInv, Reports, Counts, LineEndings
    <2>3. CRCount' = CRCount - 1
      BY <1>1, <2>1, <2>2, ModSmall, UintAssumption
    <2>4. Body /\ (last_was_13' => pc' = "finish") /\ pc' \in {"pull", "finish"}
      BY <1>7 DEF MeetLFOfCRLF, LeaveLoopIf
    <2> QED
      BY <1>1, <2>1, <2>3, <2>4, BodyKeepsCount
  <1>8. CASE MeetLoneLF
    <2>1. CRCount' = CRCount /\ Body /\ last_was_13' = FALSE /\ pc' \in {"pull", "finish"}
      BY <1>8, CountOfCR DEF MeetLoneLF, LeaveLoopIf, CRCount, LineEndings, StreamInv, LoopInv
    <2> QED
      BY <1>1, <2>1, BodyKeepsCount
  <1>9. CASE MeetRegular
    <2>1. CRCount' = CRCount /\ Body /\ last_was_13' = FALSE /\ pc' \in {"pull", "finish"}
      BY <1>9 DEF MeetRegular, LeaveLoopIf, CRCount, StreamInv, LoopInv, Reports
    <2> QED
      BY <1>1, <2>1, BodyKeepsCount
  <1>10. CASE Finish
    <2>1. CRCount' = CRCount /\ pc' = "done" /\ UNCHANGED <<position, input_stream, pulled>>
      BY <1>10 DEF Finish, inVars, CRCount, StreamInv, LoopInv, Reports
    <2> QED
      BY <2>1 DEF CountInv, NoCountUnderflow, Consumed
  <1> QED
    BY <1>2, <1>3, <1>4, <1>5, <1>6, <1>7, <1>8, <1>9, <1>10 DEF Next

\* The LF of a CRLF takes back a CR that was counted, in every file that is too short to
\* make an unsigned int wrap.
THEOREM CountsNeverUnderflow ==
  ASSUME \A s \in Inputs : Len(s) < UINT_RANGE
  PROVE  Spec => []NoCountUnderflow
  <1>1. Init => CountInv
    <2> SUFFICES ASSUME Init PROVE CountInv
      OBVIOUS
    <2>1. input_stream.buffer = <<>> /\ position = 0 /\ pulled = <<>> /\ ~ last_was_13
      BY DEF Init
    <2>2. CRCount = 0
      BY DEF Init, CRCount, init_report, LineEndings
    <2> QED
      BY <2>1, <2>2, EmptySeq DEF CountInv, Consumed, NoCountUnderflow
  <1>2. StreamInv /\ CountInv /\ [Next]_vars => CountInv'
    BY CountNext
  <1>3. CountInv => NoCountUnderflow
    BY DEF CountInv
  <1> QED
    BY <1>1, <1>2, <1>3, StreamInvariant, PTL DEF Spec

--------------------------------------------------------------------------------
(***************************************************************************)
(* Proofs that convert_stream reads what is there: its report counts every *)
(* line ending once, and the early exits of the dry scan do not change the *)
(* verdict on the file.  For any input that an unsigned int can count, any *)
(* buffer size, and failures of fread and fwrite at any place.             *)
(***************************************************************************)

(* The text of a file, and the line endings in the first k code points.     *)

LEMMA PrefixOfTwo ==
  ASSUME NEW bytes \in Seq(Byte), NEW a \in Byte, NEW b \in Byte
  PROVE  IsPrefix(<<a, b>>, bytes) <=> Len(bytes) >= 2 /\ bytes[1] = a /\ bytes[2] = b
  <1>1. Len(bytes) \in Nat /\ <<a, b>> \in Seq(Byte) /\ Len(<<a, b>>) = 2
    BY LenProperties
  <1>2. SubSeq(<<a, b>>, 1, 2) = <<a, b>>
    BY <1>1, SubSeqFull
  <1>3. CASE Len(bytes) >= 2
    <2> DEFINE start == SubSeq(bytes, 1, 2)
    <2>1. \A i \in 1 .. 2 : bytes[i] \in Byte
      BY <1>1, <1>3, ElementOfSeq
    <2>2. start \in Seq(Byte) /\ Len(start) = 2 /\ start[1] = bytes[1] /\ start[2] = bytes[2]
      BY <2>1, SubSeqProperties
    <2> HIDE DEF start
    <2>3. start = <<a, b>> <=> bytes[1] = a /\ bytes[2] = b
      <3>1. <<a, b>>[1] = a /\ <<a, b>>[2] = b
        OBVIOUS
      <3>2. ASSUME bytes[1] = a, bytes[2] = b PROVE \A i \in 1 .. 2 : start[i] = <<a, b>>[i]
        BY <2>2, <3>1, <3>2
      <3> QED
        BY <1>1, <2>2, <3>1, <3>2, SeqEqual
    <2> QED
      BY <1>1, <1>2, <1>3, <2>3 DEF IsPrefix, start
  <1> QED
    BY <1>1, <1>3 DEF IsPrefix

\* How many bytes make a code point of the file.
Width(bytes) == IF detect_buffer_encoding_layout(bytes) = "WT_1BYTE" THEN 1 ELSE 2

\* The i-th code point of the file.
Unit(bytes, i) ==
  CASE detect_buffer_encoding_layout(bytes) = "WT_1BYTE"    -> bytes[i]
    [] detect_buffer_encoding_layout(bytes) = "WT_2BYTE_LE" -> bytes[2*i - 1] + 256 * bytes[2*i]
    [] detect_buffer_encoding_layout(bytes) = "WT_2BYTE_BE" -> 256 * bytes[2*i - 1] + bytes[2*i]

LEMMA LayoutOfText ==
  ASSUME NEW bytes \in Seq(Byte)
  PROVE  /\ detect_buffer_encoding_layout(bytes) = "WT_2BYTE_LE" <=> IsUTF16LE(bytes)
         /\ detect_buffer_encoding_layout(bytes) = "WT_2BYTE_BE" <=> IsUTF16BE(bytes)
         /\ detect_buffer_encoding_layout(bytes) \in Layouts
         /\ ~ (IsUTF16LE(bytes) /\ IsUTF16BE(bytes))
  <1>1. 254 \in Byte /\ 255 \in Byte
    BY DEF Byte
  <1> QED
    BY <1>1, PrefixOfTwo DEF IsUTF16LE, IsUTF16BE, detect_buffer_encoding_layout, Layouts

LEMMA BytesAreNumbers == Byte \subseteq Nat
  BY DEF Byte

LEMMA UnitType ==
  ASSUME NEW bytes \in Seq(Byte), NEW i \in Nat, 0 < i, Width(bytes) * i <= Len(bytes)
  PROVE  Unit(bytes, i) \in Nat
  <1>1. Len(bytes) \in Nat
    BY LenProperties
  <1>2. CASE detect_buffer_encoding_layout(bytes) = "WT_1BYTE"
    <2>1. i \in 1 .. Len(bytes)
      BY <1>1, <1>2 DEF Width
    <2>2. bytes[i] \in Byte
      BY <2>1, ElementOfSeq
    <2>3. Unit(bytes, i) = bytes[i]
      BY <1>2 DEF Unit
    <2> QED
      BY <2>2, <2>3, BytesAreNumbers
  <1>3. CASE detect_buffer_encoding_layout(bytes) \in {"WT_2BYTE_LE", "WT_2BYTE_BE"}
    <2>1. 2*i - 1 \in 1 .. Len(bytes) /\ 2*i \in 1 .. Len(bytes)
      BY <1>1, <1>3 DEF Width
    <2>2. bytes[2*i - 1] \in Byte /\ bytes[2*i] \in Byte
      BY <2>1, ElementOfSeq
    <2>3. /\ bytes[2*i - 1] + 256 * bytes[2*i] \in Nat
          /\ 256 * bytes[2*i - 1] + bytes[2*i] \in Nat
      BY <2>2, TwoBytes DEF Byte
    <2> QED
      BY <1>3, <2>3 DEF Unit
  <1> QED
    BY <1>2, <1>3, LayoutOfText DEF Layouts

LEMMA TextFacts ==
  ASSUME NEW bytes \in Seq(Byte)
  PROVE  /\ TextOf(bytes) \in Seq(Nat)
         /\ Len(TextOf(bytes)) = Len(bytes) \div Width(bytes)
         /\ Len(TextOf(bytes)) <= Len(bytes)
         /\ \A i \in 1 .. Len(TextOf(bytes)) : TextOf(bytes)[i] = Unit(bytes, i)
  <1> DEFINE half == Len(bytes) \div 2
  <1>1. Len(bytes) \in Nat /\ half \in Nat /\ half <= Len(bytes) /\ 2 * half <= Len(bytes)
    BY LenProperties
  <1>2. CASE detect_buffer_encoding_layout(bytes) = "WT_1BYTE"
    <2>1. TextOf(bytes) = bytes /\ Width(bytes) = 1
      BY <1>2, LayoutOfText DEF TextOf, Width
    <2>2. bytes \in Seq(Nat)
      BY BytesAreNumbers, SeqMonotonic
    <2> QED
      BY <1>1, <1>2, <2>1, <2>2 DEF Unit
  <1>3. CASE detect_buffer_encoding_layout(bytes) \in {"WT_2BYTE_LE", "WT_2BYTE_BE"}
    <2>0. Width(bytes) = 2
      BY <1>3 DEF Width
    <2>1. \A i \in 1 .. half : Unit(bytes, i) \in Nat
      BY <1>1, <2>0, UnitType
    <2>2. \A i \in 1 .. half : /\ bytes[2*i - 1] \in Nat /\ bytes[2*i] \in Nat
      <3> SUFFICES ASSUME NEW i \in 1 .. half PROVE bytes[2*i - 1] \in Nat /\ bytes[2*i] \in Nat
        OBVIOUS
      <3>1. 2*i - 1 \in 1 .. Len(bytes) /\ 2*i \in 1 .. Len(bytes)
        BY <1>1
      <3>2. bytes[2*i - 1] \in Byte /\ bytes[2*i] \in Byte
        BY <3>1, ElementOfSeq
      <3> QED
        BY <3>2, BytesAreNumbers
    <2>3. TextOf(bytes) = [i \in 1 .. half |-> Unit(bytes, i)]
      <3>1. CASE detect_buffer_encoding_layout(bytes) = "WT_2BYTE_LE"
        <4>1. \A i \in 1 .. half : Unit(bytes, i) = bytes[2*i - 1] + 256 * bytes[2*i]
          BY <3>1 DEF Unit
        <4>2. TextOf(bytes) = [i \in 1 .. half |-> bytes[2*i - 1] + 256 * bytes[2*i]]
          BY <3>1, LayoutOfText DEF TextOf
        <4> QED
          BY <4>1, <4>2
      <3>2. CASE detect_buffer_encoding_layout(bytes) = "WT_2BYTE_BE"
        <4>1. \A i \in 1 .. half : Unit(bytes, i) = bytes[2*i] + 256 * bytes[2*i - 1]
          BY <2>2, <3>2 DEF Unit
        <4>2. TextOf(bytes) = [i \in 1 .. half |-> bytes[2*i] + 256 * bytes[2*i - 1]]
          BY <3>2, LayoutOfText DEF TextOf
        <4> QED
          BY <4>1, <4>2
      <3> QED
        BY <1>3, <3>1, <3>2
    <2>4. [i \in 1 .. half |-> Unit(bytes, i)] \in Seq(Nat)
      BY <1>1, <2>1
    <2>5. Len([i \in 1 .. half |-> Unit(bytes, i)]) = half
      BY <1>1
    <2> QED
      BY <1>1, <2>0, <2>3, <2>4, <2>5
  <1> QED
    BY <1>2, <1>3, LayoutOfText DEF Layouts
--------------------------------------------------------------------------------
(* The line endings in the first k code points of a text, as the loop has   *)
(* them behind the k-th: a CR is one until a LF follows.                    *)

Met(text, k, c) ==
  CASE c = "CRLF" -> {i \in 1 .. k : text[i] = 10 /\ FollowsCR(text, i)}
    [] c = "LF"   -> {i \in 1 .. k : text[i] = 10 /\ ~ FollowsCR(text, i)}
    [] c = "CR"   -> {i \in 1 .. k : text[i] = 13 /\ ~ (i < k /\ text[i + 1] = 10)}

LEMMA MetFinite ==
  ASSUME NEW text, NEW k \in Nat, NEW c \in LineEndings
  PROVE  /\ IsFiniteSet(Met(text, k, c))
         /\ Cardinality(Met(text, k, c)) \in Nat
         /\ Cardinality(Met(text, k, c)) <= k
         /\ k + 1 \notin Met(text, k, c)
         /\ Cardinality(Met(text, k, c)) = 0 <=> Met(text, k, c) = {}
  <1>1. IsFiniteSet(1 .. k) /\ Cardinality(1 .. k) = k
    BY FS_Interval
  <1>2. Met(text, k, c) \in SUBSET (1 .. k)
    BY DEF Met, LineEndings
  <1>3. IsFiniteSet(Met(text, k, c)) /\ Cardinality(Met(text, k, c)) <= k
    BY <1>1, <1>2, FS_Subset
  <1>4. Cardinality(Met(text, k, c)) \in Nat
    BY <1>3, FS_CardinalityType
  <1>5. k + 1 \notin 1 .. k
    OBVIOUS
  <1> QED
    BY <1>2, <1>3, <1>4, <1>5, FS_EmptySet

LEMMA MetAll ==
  ASSUME NEW text \in Seq(Nat), NEW c \in LineEndings
  PROVE  Met(text, Len(text), c) = EndingsAt(text, c)
  <1>1. DOMAIN text = 1 .. Len(text)
    BY LenProperties
  <1> QED
    BY <1>1 DEF Met, EndingsAt, PrecedesLF, LineEndings

LEMMA MetNothing ==
  ASSUME NEW text, NEW c \in LineEndings
  PROVE  Cardinality(Met(text, 0, c)) = 0
  <1>1. Met(text, 0, c) = {}
    BY DEF Met, LineEndings
  <1> QED
    BY <1>1, FS_EmptySet

\* The endings with LF stay, whatever follows.
LEMMA MetStays ==
  ASSUME NEW text \in Seq(Nat), NEW k \in 0 .. Len(text), NEW c \in {"LF", "CRLF"}
  PROVE  Met(text, k, c) \subseteq EndingsAt(text, c)
  <1>1. DOMAIN text = 1 .. Len(text) /\ Len(text) \in Nat
    BY LenProperties
  <1> QED
    BY <1>1 DEF Met, EndingsAt

\* What the next code point, w, adds to the endings met, and what it takes away.
LEMMA MeetsCR ==
  ASSUME NEW text, NEW k \in Nat, text[k + 1] = 13
  PROVE  /\ Met(text, k + 1, "CR") = Met(text, k, "CR") \cup {k + 1}
         /\ Met(text, k + 1, "LF") = Met(text, k, "LF")
         /\ Met(text, k + 1, "CRLF") = Met(text, k, "CRLF")
  BY DEF Met

LEMMA MeetsLoneLF ==
  ASSUME NEW text, NEW k \in Nat, text[k + 1] = 10, ~ (k > 0 /\ text[k] = 13)
  PROVE  /\ Met(text, k + 1, "CR") = Met(text, k, "CR")
         /\ Met(text, k + 1, "LF") = Met(text, k, "LF") \cup {k + 1}
         /\ Met(text, k + 1, "CRLF") = Met(text, k, "CRLF")
  BY DEF Met, FollowsCR

LEMMA MeetsLFOfCRLF ==
  ASSUME NEW text, NEW k \in Nat, text[k + 1] = 10, k > 0, text[k] = 13
  PROVE  /\ Met(text, k + 1, "CR") = Met(text, k, "CR") \ {k} /\ k \in Met(text, k, "CR")
         /\ Met(text, k + 1, "LF") = Met(text, k, "LF")
         /\ Met(text, k + 1, "CRLF") = Met(text, k, "CRLF") \cup {k + 1}
  BY DEF Met, FollowsCR

LEMMA MeetsNone ==
  ASSUME NEW text, NEW k \in Nat, text[k + 1] \notin {10, 13}, NEW c \in LineEndings
  PROVE  Met(text, k + 1, c) = Met(text, k, c)
  <1>1. Met(text, k + 1, "CR") = Met(text, k, "CR")
    BY DEF Met
  <1>2. Met(text, k + 1, "LF") = Met(text, k, "LF")
    BY DEF Met
  <1>3. Met(text, k + 1, "CRLF") = Met(text, k, "CRLF")
    BY DEF Met
  <1> QED
    BY <1>1, <1>2, <1>3 DEF LineEndings

--------------------------------------------------------------------------------
(* Where the loop is in the text.                                           *)

\* The code points that the body of the loop has seen.
Done == (Consumed - Len(pulled)) \div BytesPerCodePoint

\* Without a read error the frames are pieces of the input, one behind the other, and
\* the first is long enough to tell the layout.
FrameInv ==
  /\ \A j \in 1 .. Len(input_stream.buffer) :
       input_stream.buffer[j] = input[position - Len(input_stream.buffer) + j]
  /\ input_stream.eof => position = Len(input) /\ input_stream.buffer = <<>>
  /\ pc # "setup" => encoding_layout = detect_buffer_encoding_layout(input)

\* What was pulled is a whole number of code points, and the start of the next.
PlaceInv ==
  /\ Consumed = BytesPerCodePoint * Done + Len(pulled) /\ Done \in Nat
  /\ \A j \in 1 .. Len(pulled) : pulled[j] = input[Consumed - Len(pulled) + j]
  /\ Len(pulled) <= BytesPerCodePoint
  /\ pc \in {"setup", "pull"} => Len(pulled) < BytesPerCodePoint
  /\ pc = "setup" => position = 0 /\ pulled = <<>> /\ ~ input_stream.eof

Placed == ~ ferror => FrameInv /\ PlaceInv

LEMMA InputSizes ==
  ASSUME StreamInv
  PROVE  /\ input \in Seq(Byte) /\ Len(input) \in Nat
         /\ position \in Nat /\ position <= Len(input)
         /\ input_stream.buffer \in Seq(Byte) /\ Len(input_stream.buffer) \in Nat
         /\ Len(input_stream.buffer) <= position
         /\ input_stream.buf_ptr \in Nat
         /\ input_stream.buffer # <<>> => input_stream.buf_ptr <= Len(input_stream.buffer)
         /\ pulled \in Seq(Byte) /\ Len(pulled) \in Nat
         /\ Consumed \in Nat /\ Consumed <= position
         /\ BytesPerCodePoint \in {1, 2}
  <1>1. input \in Seq(Byte) /\ pulled \in Seq(Byte)
    BY InputAssumption DEF StreamInv, InputInv, LoopInv
  <1>2. Len(input) \in Nat /\ Len(pulled) \in Nat
    BY <1>1, LenProperties
  <1>3. position \in Nat /\ position <= Len(input)
    BY <1>2 DEF StreamInv, InputInv
  <1>4. /\ input_stream.buffer \in Seq(Byte) /\ input_stream.buf_ptr \in Nat
        /\ Len(input_stream.buffer) \in Nat
    BY LenProperties, BufferAssumption DEF StreamInv, InputInv, BufferedInput
  <1>5. /\ Len(input_stream.buffer) <= position
        /\ input_stream.buffer # <<>> => input_stream.buf_ptr <= Len(input_stream.buffer)
    BY DEF StreamInv, InputInv
  <1>6. Consumed \in Nat /\ Consumed <= position
    BY <1>3, <1>4, <1>5 DEF Consumed
  <1> QED
    BY <1>1, <1>2, <1>3, <1>4, <1>5, <1>6 DEF BytesPerCodePoint

\* A frame without a read error is as long as it can be.
LEMMA FrameRead ==
  ASSUME StreamInv, read_stream_frame, ~ ferror', input' = input
  PROVE  /\ ~ ferror
         /\ \/ /\ position = Len(input) /\ position' = position
               /\ input_stream' = [input_stream EXCEPT !.buffer = <<>>, !.eof = TRUE]
            \/ LET n == SmallerOf(BUFFERSIZE, Len(input) - position)
               IN  /\ n \in Nat \ {0} /\ position + n <= Len(input) /\ position' = position + n
                   /\ input_stream' = [buffer  |-> SubSeq(input, position + 1, position + n),
                                       buf_ptr |-> 0, eof |-> input_stream.eof]
  <1> DEFINE available == SmallerOf(BUFFERSIZE, Len(input) - position)
  <1>1. available \in Nat /\ available <= Len(input) - position
        /\ (available = 0 => position = Len(input))
    BY InputSizes, BufferAssumption DEF SmallerOf
  <1>2. \E n \in (IF ReadFaults THEN 0 .. available ELSE {available}) :
          /\ position' = position + n
          /\ ferror' = (ferror \/ n < available)
          /\ input_stream' =
               IF n = 0
               THEN [input_stream EXCEPT !.buffer = <<>>, !.eof = TRUE]
               ELSE [buffer |-> SubSeq(input, position + 1, position + n),
                     buf_ptr |-> 0, eof |-> input_stream.eof]
    BY Zenon DEF read_stream_frame
  <1> HIDE DEF available
  <1> PICK n \in (IF ReadFaults THEN 0 .. available ELSE {available}) :
        /\ position' = position + n
        /\ ferror' = (ferror \/ n < available)
        /\ input_stream' =
             IF n = 0
             THEN [input_stream EXCEPT !.buffer = <<>>, !.eof = TRUE]
             ELSE [buffer |-> SubSeq(input, position + 1, position + n),
                   buf_ptr |-> 0, eof |-> input_stream.eof]
    BY <1>2
  <1>3. ~ ferror /\ n = available
    <2>1. n \in Nat /\ n <= available
      BY <1>1
    <2>2. ~ (ferror \/ n < available)
      OBVIOUS
    <2> QED
      BY <1>1, <2>1, <2>2
  <1>4. position \in Nat /\ Len(input) \in Nat
    BY InputSizes
  <1> QED
    BY <1>1, <1>3, <1>4 DEF available

LEMMA FrameStep ==
  ASSUME StreamInv, Placed, Setup \/ PullFrame, ~ ferror'
  PROVE  FrameInv'
  <1>1. /\ read_stream_frame /\ input' = input /\ pc' # "setup"
        /\ input_stream.eof \in BOOLEAN
    BY DEF Setup, PullFrame, callVars, LeaveLoopIf, StreamInv, InputInv, BufferedInput
  <1>2. ~ ferror /\ FrameInv
    BY <1>1, FrameRead DEF Placed
  <1> DEFINE n == SmallerOf(BUFFERSIZE, Len(input) - position)
             frame == SubSeq(input, position + 1, position + n)
  <1>3. CASE /\ position = Len(input) /\ position' = position
             /\ input_stream' = [input_stream EXCEPT !.buffer = <<>>, !.eof = TRUE]
    <2>1. input_stream'.buffer = <<>> /\ Len(<<>>) = 0
      BY <1>3, EmptySeq DEF StreamInv, InputInv, BufferedInput
    <2>2. position = 0 => detect_buffer_encoding_layout(<<>>) = detect_buffer_encoding_layout(input)
      BY <1>3, <2>1 DEF detect_buffer_encoding_layout
    <2>3. encoding_layout' = detect_buffer_encoding_layout(input)
      BY <1>2, <2>1, <2>2 DEF Setup, PullFrame, FrameInv, Placed, PlaceInv
    <2> QED
      BY <1>1, <1>3, <2>1, <2>3 DEF FrameInv
  <1>4. CASE /\ n \in Nat \ {0} /\ position + n <= Len(input) /\ position' = position + n
             /\ input_stream' = [buffer |-> frame, buf_ptr |-> 0, eof |-> input_stream.eof]
    <2>1. \A i \in position + 1 .. position + n : input[i] \in Byte
      BY <1>4, InputSizes, ElementOfSeq
    <2>2. frame \in Seq(Byte) /\ Len(frame) = n /\ \A j \in 1 .. n : frame[j] = input[position + j]
      <3>1. position \in Nat /\ n \in Nat \ {0}
        BY <1>4, InputSizes
      <3> HIDE DEF n
      <3>2. frame \in Seq(Byte) /\ Len(frame) = position + n - (position + 1) + 1
        BY <2>1, <3>1, SubSeqProperties
      <3>3. \A j \in 1 .. n : frame[j] = input[position + 1 + j - 1]
        BY <2>1, <3>1, SubSeqProperties
      <3>4. \A j \in 1 .. n : position + 1 + j - 1 = position + j
        BY <3>1
      <3> HIDE DEF frame
      <3> QED
        BY <3>1, <3>2, <3>3, <3>4
    <2>3. position = 0 => detect_buffer_encoding_layout(frame) = detect_buffer_encoding_layout(input)
      <3>1. ASSUME position = 0 PROVE n = Len(input) \/ (n >= 2 /\ Len(input) >= 2)
        <4>1. Len(input) \in Nat /\ Len(input) - 0 = Len(input)
          BY InputSizes
        <4>2. n = SmallerOf(BUFFERSIZE, Len(input))
          BY <3>1, <4>1
        <4>3. n = (IF BUFFERSIZE <= Len(input) THEN BUFFERSIZE ELSE Len(input))
          BY <4>2 DEF SmallerOf
        <4> HIDE DEF n, frame
        <4>4. CASE BUFFERSIZE <= Len(input)
          <5>1. n = BUFFERSIZE
            BY <4>3, <4>4
          <5>2. n >= 2
            BY <5>1, BufferAssumption
          <5>3. Len(input) >= 2
            BY <4>1, <4>4, BufferAssumption
          <5> QED
            BY <5>2, <5>3
        <4>5. CASE ~ (BUFFERSIZE <= Len(input))
          BY <4>3, <4>5
        <4> QED
          BY <4>4, <4>5
      <3>2. ASSUME position = 0, Len(frame) >= 2, Len(input) >= 2
            PROVE  frame[1] = input[1] /\ frame[2] = input[2]
        BY <2>2, <3>2
      <3> HIDE DEF frame, n
      <3> QED
        BY <2>2, <3>1, <3>2 DEF detect_buffer_encoding_layout
    <2>4. /\ input_stream'.buffer = frame /\ input_stream'.eof = input_stream.eof
      BY <1>4
    <2> HIDE DEF frame, n
    <2>5. ~ input_stream.eof
      BY <1>2, <1>4, InputSizes DEF FrameInv
    <2>6. encoding_layout' = detect_buffer_encoding_layout(input)
      BY <1>2, <2>3, <2>4 DEF Setup, PullFrame, FrameInv, Placed, PlaceInv
    <2>7. \A j \in 1 .. n : frame[j] = input[position' - n + j]
      <3>1. \A j \in 1 .. n : position' - n + j = position + j
        BY <1>4, InputSizes
      <3> QED
        BY <2>2, <3>1
    <2>8. \A j \in 1 .. Len(input_stream'.buffer) :
            input_stream'.buffer[j] = input'[position' - Len(input_stream'.buffer) + j]
      BY <1>1, <2>2, <2>4, <2>7
    <2> QED
      BY <1>1, <2>4, <2>5, <2>6, <2>8 DEF FrameInv
  <1> QED
    BY <1>1, <1>3, <1>4, FrameRead

LEMMA WholeUnits ==
  ASSUME NEW b \in {1, 2}, NEW d \in Nat
  PROVE  (b * d) \div b = d /\ b * d \in Nat
  OBVIOUS

LEMMA NoUnits ==
  ASSUME NEW b \in {1, 2}
  PROVE  0 \div b = 0 /\ b * 0 = 0
  OBVIOUS

LEMMA FramePlace ==
  ASSUME StreamInv, Placed, Setup \/ PullFrame, ~ ferror'
  PROVE  PlaceInv' /\ Done' = Done
  <1>1. /\ Consumed' = Consumed /\ pulled' = pulled /\ input' = input
        /\ pc' \in {"pull", "finish"}
    BY FrameKeepsInv DEF Setup, PullFrame, callVars, LeaveLoopIf
  <1>2. ~ ferror /\ PlaceInv
    BY FrameRead DEF Setup, PullFrame, callVars, Placed
  <1>3. BytesPerCodePoint' \in {1, 2}
    BY DEF BytesPerCodePoint
  <1>4. CASE Setup
    <2>1. Consumed = 0 /\ pulled = <<>> /\ Len(pulled) = 0
      <3>1. position = 0 /\ pulled = <<>>
        BY <1>2, <1>4 DEF Setup, PlaceInv
      <3> QED
        BY <3>1, InputSizes, EmptySeq
    <2>2. Consumed' = 0 /\ Len(pulled') = 0 /\ pc' # "setup"
      BY <1>1, <2>1
    <2>3. BytesPerCodePoint \in {1, 2}
      BY InputSizes
    <2>4. 0 - 0 = 0
      OBVIOUS
    <2>5. Done = 0 /\ Done' = 0
      <3>1. Done = (0 - 0) \div BytesPerCodePoint
        BY <2>1 DEF Done
      <3>2. Done' = (0 - 0) \div BytesPerCodePoint'
        BY <2>2 DEF Done
      <3> QED
        BY <1>3, <2>3, <2>4, <3>1, <3>2, NoUnits
    <2>6. 0 = BytesPerCodePoint' * Done' + 0 /\ Done' \in Nat /\ 0 < BytesPerCodePoint'
      <3>1. BytesPerCodePoint' * 0 = 0
        BY <1>3, NoUnits
      <3>2. BytesPerCodePoint' * Done' + 0 = 0 + 0
        BY <2>5, <3>1
      <3>3. 0 < BytesPerCodePoint'
        BY <1>3
      <3> QED
        BY <2>5, <3>2, <3>3
    <2> QED
      <3>1. Consumed' = BytesPerCodePoint' * Done' + Len(pulled')
        BY <2>2, <2>6
      <3>2. \A j \in 1 .. Len(pulled') : FALSE
        BY <2>2
      <3>3. Len(pulled') < BytesPerCodePoint' /\ Len(pulled') <= BytesPerCodePoint'
        BY <1>3, <2>2
      <3> QED
        BY <2>2, <2>5, <2>6, <3>1, <3>2, <3>3 DEF PlaceInv
  <1>5. CASE PullFrame
    <2>1. BytesPerCodePoint' = BytesPerCodePoint /\ pc = "pull"
      BY <1>5 DEF PullFrame, BytesPerCodePoint
    <2>2. Done' = Done
      BY <1>1, <2>1 DEF Done
    <2> QED
      BY <1>1, <1>2, <2>1, <2>2 DEF PlaceInv
  <1> QED
    BY <1>4, <1>5

LEMMA PulledByte ==
  ASSUME StreamInv, FrameInv, PullByte
  PROVE  input_stream.buffer[input_stream.buf_ptr + 1] = input[Consumed + 1]
  <1> DEFINE next == input_stream.buf_ptr + 1
  <1>1. next \in 1 .. Len(input_stream.buffer) /\ input_stream.buffer # <<>>
    BY InputSizes, EmptySeq DEF PullByte
  <1>2. input_stream.buffer[next] = input[position - Len(input_stream.buffer) + next]
    BY <1>1 DEF FrameInv
  <1>3. position - Len(input_stream.buffer) + next = Consumed + 1
    <2>1. Consumed = position - Len(input_stream.buffer) + input_stream.buf_ptr
      BY <1>1 DEF Consumed
    <2>2. /\ position \in Nat /\ Len(input_stream.buffer) \in Nat
          /\ input_stream.buf_ptr \in Nat
      BY InputSizes
    <2> QED
      BY <2>1, <2>2
  <1> QED
    BY <1>2, <1>3

LEMMA PullBytePlace ==
  ASSUME StreamInv, Placed, PullByte, ~ ferror'
  PROVE  FrameInv' /\ PlaceInv' /\ Done' = Done
  <1>1. /\ ~ ferror /\ FrameInv /\ PlaceInv
        /\ UNCHANGED <<position, input, encoding_layout>> /\ pc = "pull"
        /\ pc' = IF Len(pulled') = BytesPerCodePoint THEN "body" ELSE "pull"
        /\ input_stream' = [input_stream EXCEPT !.buf_ptr = @ + 1]
        /\ pulled' = Append(pulled, input_stream.buffer[input_stream.buf_ptr + 1])
    BY DEF PullByte, callVars, Placed
  <1>2. Consumed' = Consumed + 1 /\ Len(pulled') = Len(pulled) + 1
    BY PullByteKeepsInv
  <1>3. BytesPerCodePoint' = BytesPerCodePoint
    BY <1>1 DEF BytesPerCodePoint
  <1>4. Done' = Done
    <2>1. Consumed + 1 - (Len(pulled) + 1) = Consumed - Len(pulled)
      BY InputSizes
    <2>2. Done' = (Consumed' - Len(pulled')) \div BytesPerCodePoint'
      BY DEF Done
    <2>3. Done' = ((Consumed + 1) - (Len(pulled) + 1)) \div BytesPerCodePoint
      BY <1>2, <1>3, <2>2
    <2>4. Done' = (Consumed - Len(pulled)) \div BytesPerCodePoint
      <3>1. Consumed \in Nat /\ Len(pulled) \in Nat /\ BytesPerCodePoint \in {1, 2}
        BY InputSizes
      <3> QED
        BY <2>3, <3>1
    <2> QED
      BY <2>4 DEF Done
  <1>5. FrameInv'
    <2>1. input_stream'.buffer = input_stream.buffer /\ input_stream'.eof = input_stream.eof
      BY <1>1 DEF StreamInv, InputInv, BufferedInput
    <2> QED
      BY <1>1, <2>1 DEF FrameInv
  <1>6. \A j \in 1 .. Len(pulled') : pulled'[j] = input[Consumed' - Len(pulled') + j]
    <2>1. pulled' = Append(pulled, input[Consumed + 1])
      BY <1>1, PulledByte
    <2>2. input[Consumed + 1] \in Byte
      <3>1. Consumed' <= Len(input')
        <4>1. StreamInv'
          BY PullByteKeepsInv
        <4> QED
          BY <1>1, <1>2, <4>1, InputSizes DEF PullByte, StreamInv, InputInv, BufferedInput, Consumed
      <3> QED
        BY <1>1, <1>2, <3>1, InputSizes, ElementOfSeq
    <2>3. /\ \A j \in 1 .. Len(pulled) : pulled'[j] = pulled[j]
          /\ pulled'[Len(pulled) + 1] = input[Consumed + 1]
      BY <2>1, <2>2, InputSizes, AppendProperties
    <2>4. \A j \in 1 .. Len(pulled) : pulled[j] = input[Consumed - Len(pulled) + j]
      BY <1>1 DEF PlaceInv
    <2>5. \A j : Consumed' - Len(pulled') + j = Consumed - Len(pulled) + j
      BY <1>2, InputSizes
    <2>6. Consumed - Len(pulled) + (Len(pulled) + 1) = Consumed + 1
      BY InputSizes
    <2>7. \A j \in 1 .. Len(pulled') : j \in 1 .. Len(pulled) \/ j = Len(pulled) + 1
      BY <1>2, InputSizes
    <2> QED
      BY <2>3, <2>4, <2>5, <2>6, <2>7
  <1>7. Consumed' = BytesPerCodePoint' * Done' + Len(pulled')
    BY <1>1, <1>2, <1>3, <1>4, InputSizes DEF PlaceInv
  <1>8. Len(pulled) < BytesPerCodePoint /\ Done \in Nat
    BY <1>1 DEF PlaceInv
  <1> QED
    BY <1>1, <1>2, <1>3, <1>4, <1>5, <1>6, <1>7, <1>8, InputSizes DEF PlaceInv

LEMMA BodyPlace ==
  ASSUME StreamInv, Placed, Body, pc' # "setup", ~ ferror'
  PROVE  FrameInv' /\ PlaceInv' /\ Done' = Done + 1
  <1>1. /\ ~ ferror /\ FrameInv /\ PlaceInv /\ pulled' = <<>> /\ pc = "body"
        /\ UNCHANGED <<position, input, encoding_layout, input_stream>>
        /\ Len(pulled) = BytesPerCodePoint
    BY DEF Body, callVars, inVars, Placed, StreamInv, LoopInv
  <1>2. Consumed' = Consumed /\ BytesPerCodePoint' = BytesPerCodePoint /\ Len(pulled') = 0
    BY <1>1, EmptySeq DEF Consumed, BytesPerCodePoint
  <1>3. Consumed' - Len(pulled') = BytesPerCodePoint * (Done + 1) /\ Done + 1 \in Nat
    BY <1>1, <1>2, InputSizes DEF PlaceInv
  <1>4. Done' = Done + 1
    BY <1>2, <1>3, InputSizes, WholeUnits DEF Done
  <1>5. FrameInv'
    BY <1>1 DEF FrameInv
  <1>6. PlaceInv'
    BY <1>1, <1>2, <1>3, <1>4, InputSizes DEF PlaceInv
  <1> QED
    BY <1>4, <1>5, <1>6

\* The body looks at the next code point of the text.
LEMMA BodyReads ==
  ASSUME StreamInv, Placed, pc = "body", ~ ferror
  PROVE  /\ Done \in Nat /\ Done + 1 <= Len(Text)
         /\ code_point = Text[Done + 1]
  <1>1. FrameInv /\ PlaceInv /\ encoding_layout = detect_buffer_encoding_layout(input)
    BY DEF Placed, FrameInv
  <1>2. Len(pulled) = BytesPerCodePoint /\ BytesPerCodePoint = Width(input)
    BY <1>1 DEF StreamInv, LoopInv, BytesPerCodePoint, Width
  <1> DEFINE k == Done + 1
  <1>3. k \in Nat /\ k > 0 /\ Consumed = BytesPerCodePoint * k /\ Consumed <= Len(input)
    BY <1>1, <1>2, InputSizes DEF PlaceInv
  <1>4. k <= Len(input) \div BytesPerCodePoint
    BY <1>3, InputSizes
  <1>5. Len(Text) = Len(input) \div BytesPerCodePoint /\ (k \in 1 .. Len(Text) => Text[k] = Unit(input, k))
    BY <1>2, InputSizes, TextFacts DEF Text
  <1>6. Text[k] = Unit(input, k) /\ Len(Text) \in Nat
    BY <1>3, <1>4, <1>5, InputSizes
  <1> HIDE DEF k
  <1>7. ASSUME encoding_layout = "WT_1BYTE" PROVE code_point = Text[k]
    <2>1. Len(pulled) = 1 /\ BytesPerCodePoint = 1
      BY <1>2, <1>7 DEF BytesPerCodePoint
    <2>2. pulled[1] = input[Consumed - 1 + 1] /\ Consumed - 1 + 1 = k
      BY <1>1, <1>3, <2>1 DEF PlaceInv
    <2>3. code_point = input[k]
      BY <1>7, <2>2 DEF code_point
    <2>4. Unit(input, k) = input[k]
      BY <1>1, <1>7 DEF Unit
    <2> QED
      BY <1>6, <2>3, <2>4
  <1>8. ASSUME encoding_layout \in {"WT_2BYTE_LE", "WT_2BYTE_BE"} PROVE code_point = Text[k]
    <2>1. Len(pulled) = 2 /\ BytesPerCodePoint = 2
      BY <1>2, <1>8 DEF BytesPerCodePoint
    <2>2. /\ pulled[1] = input[Consumed - 2 + 1] /\ pulled[2] = input[Consumed - 2 + 2]
          /\ Consumed - 2 + 1 = 2*k - 1 /\ Consumed - 2 + 2 = 2*k
      BY <1>1, <1>3, <2>1 DEF PlaceInv
    <2>3. pulled[1] = input[2*k - 1] /\ pulled[2] = input[2*k]
      BY <2>2
    <2>4. code_point = Unit(input, k)
      BY <1>1, <1>8, <2>3 DEF code_point, Unit
    <2> QED
      BY <1>6, <2>4
  <1>9. Done \in Nat /\ k <= Len(Text)
    BY <1>1, <1>4, <1>5 DEF PlaceInv
  <1> QED
    BY <1>7, <1>8, <1>9 DEF StreamInv, LoopInv, Layouts, k

\* At the end of the stream the whole text has been seen.
LEMMA EofReads ==
  ASSUME StreamInv, Placed, PullFrame, ~ ferror', input_stream'.eof
  PROVE  Done = Len(Text)
  <1>1. ~ ferror /\ FrameInv /\ PlaceInv /\ read_stream_frame /\ input' = input /\ pc = "pull"
    BY FrameRead DEF PullFrame, callVars, Placed
  <1>2. FrameInv' /\ StreamInv' /\ Consumed' = Consumed
    BY FrameStep, FrameKeepsInv
  <1>3. Consumed = Len(input)
    BY <1>1, <1>2 DEF FrameInv, Consumed
  <1>4. BytesPerCodePoint = Width(input)
    BY <1>1 DEF FrameInv, BytesPerCodePoint, Width
  <1>5. Len(Text) = Len(input) \div BytesPerCodePoint
    BY <1>4, InputSizes, TextFacts DEF Text
  <1>6. Len(input) = BytesPerCodePoint * Done + Len(pulled) /\ Done \in Nat
        /\ Len(pulled) < BytesPerCodePoint
    BY <1>1, <1>3 DEF PlaceInv
  <1>7. Len(input) \div BytesPerCodePoint = Done
    BY <1>6, InputSizes
  <1> QED
    BY <1>5, <1>7

--------------------------------------------------------------------------------
(* What is known of the text that was seen.                                 *)

\* An unsigned int can count the bytes of every input.
Countable == \A s \in Inputs : Len(s) < UINT_RANGE

Count_(c) == report.count_by_convention[c]
Seen_(c)  == Cardinality(Met(Text, Done, c))

SeenInv ==
  /\ \A c \in LineEndings : Count_(c) = Seen_(c)
  /\ report.contains_non_text_chars <=> \E i \in 1 .. Done : is_non_text_code(Text[i])
  /\ last_was_newline <=> Done > 0 /\ Text[Done] \in {10, 13}
  /\ pc \in {"setup", "pull", "body"} => (last_was_13 <=> Done > 0 /\ Text[Done] = 13)

\* Why the loop was left.
Interrupted == p.interrupt_if_non_text /\ report.contains_non_text_chars
IsForeign   == /\ p.interrupt_if_not_like_dst_convention
               /\ \E c \in {"LF", "CRLF"} : p.dst_convention # c /\ Met(Text, Done, c) # {}
LeftInv ==
  pc \in {"finish", "done"} =>
    output_stream.err \/ Done = Len(Text) \/ Interrupted \/ IsForeign

ExactInv == ~ ferror => FrameInv /\ PlaceInv /\ SeenInv /\ LeftInv

LEMMA Parameters ==
  ASSUME UNCHANGED callVars
  PROVE  p' = p /\ Text' = Text
  BY DEF callVars, p, PreCheckParameters, ConvertParameters, CheckParameters, StdinParameters, Text

LEMMA BodyFacts ==
  ASSUME StreamInv, ExactInv, Body, pc' # "setup", ~ ferror', Countable
  PROVE  /\ p' = p /\ Text' = Text /\ Text \in Seq(Nat) /\ Len(Text) \in Nat
         /\ Done \in Nat /\ Done' = Done + 1 /\ Done + 1 <= Len(Text)
         /\ code_point = Text[Done + 1] /\ code_point \in Nat
         /\ Len(Text) < UINT_RANGE
         /\ FrameInv' /\ PlaceInv' /\ SeenInv /\ ~ ferror
         /\ last_was_13 <=> Done > 0 /\ Text[Done] = 13
  <1>1. ~ ferror /\ pc = "body" /\ UNCHANGED callVars
    BY DEF Body, inVars
  <1>2. Placed /\ SeenInv
    BY <1>1 DEF ExactInv, Placed
  <1>3. p' = p /\ Text' = Text
    BY <1>1, Parameters
  <1>4. /\ Done \in Nat /\ Done + 1 <= Len(Text) /\ code_point = Text[Done + 1]
        /\ Done' = Done + 1 /\ FrameInv' /\ PlaceInv'
    BY <1>1, <1>2, BodyReads, BodyPlace
  <1>5. /\ Text \in Seq(Nat) /\ Len(Text) <= Len(input)
    BY InputSizes, TextFacts DEF Text
  <1>6. Len(Text) \in Nat
    BY <1>5, LenProperties
  <1>7. Len(Text) < UINT_RANGE
    <2>1. Len(input) < UINT_RANGE
      BY DEF Countable, StreamInv, InputInv
    <2> QED
      BY <1>5, <1>6, <2>1, InputSizes, UintAssumption
  <1>8. code_point \in Nat
    BY <1>1, CodePointType DEF StreamInv
  <1>9. last_was_13 <=> Done > 0 /\ Text[Done] = 13
    BY <1>1, <1>2 DEF SeenInv
  <1> QED
    BY <1>1, <1>2, <1>3, <1>4, <1>5, <1>6, <1>7, <1>8, <1>9

\* A count that follows what is met cannot wrap.
LEMMA SeenSizes ==
  ASSUME NEW text, NEW k \in Nat, k + 1 < UINT_RANGE, NEW c \in LineEndings
  PROVE  /\ IsFiniteSet(Met(text, k, c)) /\ Cardinality(Met(text, k, c)) \in Nat
         /\ (Cardinality(Met(text, k, c)) + 1) % UINT_RANGE = Cardinality(Met(text, k, c)) + 1
         /\ Cardinality(Met(text, k, c) \cup {k + 1}) = Cardinality(Met(text, k, c)) + 1
  <1> DEFINE seen == Cardinality(Met(text, k, c))
  <1>1. seen \in Nat /\ seen <= k /\ k + 1 \notin Met(text, k, c) /\ IsFiniteSet(Met(text, k, c))
    BY MetFinite
  <1>2. Cardinality(Met(text, k, c) \cup {k + 1}) = seen + 1
    BY <1>1, FS_AddElement
  <1> HIDE DEF seen
  <1>3. seen + 1 \in Nat /\ seen + 1 < UINT_RANGE
    BY <1>1, UintAssumption
  <1>4. (seen + 1) % UINT_RANGE = seen + 1
    BY <1>3, ModSmall
  <1> QED
    BY <1>1, <1>2, <1>4 DEF seen

LEMMA SeenNonText ==
  ASSUME NEW text, NEW k \in Nat
  PROVE  (\E i \in 1 .. k + 1 : is_non_text_code(text[i])) <=>
           (\E i \in 1 .. k : is_non_text_code(text[i])) \/ is_non_text_code(text[k + 1])
  <1>1. 1 .. k + 1 = (1 .. k) \cup {k + 1}
    OBVIOUS
  <1> QED
    BY <1>1

LEMMA LineEndsAreText == ~ is_non_text_code(10) /\ ~ is_non_text_code(13)
  BY DEF is_non_text_code

\* What a branch of the loop has to show.
LEMMA BodySeen ==
  ASSUME StreamInv, ExactInv, Body, pc' \in {"pull", "finish"}, ~ ferror', Countable,
         \A c \in LineEndings : Count_(c)' = Cardinality(Met(Text, Done + 1, c)),
         report'.contains_non_text_chars <=>
           report.contains_non_text_chars \/ is_non_text_code(code_point),
         last_was_newline' <=> code_point \in {10, 13},
         pc' = "pull" => (last_was_13' <=> code_point = 13),
         pc' = "finish" => \/ output_stream'.err
                           \/ p.interrupt_if_non_text /\ report'.contains_non_text_chars
                           \/ /\ p.interrupt_if_not_like_dst_convention
                              /\ \E c \in {"LF", "CRLF"} :
                                   p.dst_convention # c /\ Met(Text, Done + 1, c) # {}
  PROVE  ExactInv'
  <1>1. /\ p' = p /\ Text' = Text /\ Done \in Nat /\ Done' = Done + 1
        /\ code_point = Text[Done + 1] /\ FrameInv' /\ PlaceInv' /\ SeenInv
    BY BodyFacts
  <1>2. LeftInv'
    BY <1>1 DEF LeftInv, Interrupted, IsForeign
  <1>3. \A c \in LineEndings : (Count_(c) = Seen_(c))'
    BY <1>1 DEF Seen_
  <1>4. report'.contains_non_text_chars <=> \E i \in 1 .. Done + 1 : is_non_text_code(Text[i])
    BY <1>1, SeenNonText DEF SeenInv
  <1>5. last_was_newline' <=> Done + 1 > 0 /\ Text[Done + 1] \in {10, 13}
    BY <1>1
  <1>6. pc' \in {"setup", "pull", "body"} => (last_was_13' <=> Done + 1 > 0 /\ Text[Done + 1] = 13)
    BY <1>1
  <1>7. SeenInv'
    BY <1>1, <1>3, <1>4, <1>5, <1>6 DEF SeenInv
  <1> QED
    BY <1>1, <1>2, <1>7 DEF ExactInv

LEMMA CountedOne ==
  ASSUME report \in Reports, NEW c \in LineEndings, NEW d \in LineEndings
  PROVE  Count(c, 1).count_by_convention[d] =
           IF d = c THEN (Count_(c) + 1) % UINT_RANGE ELSE Count_(d)
  BY DEF Count, Count_, Reports, Counts

LEMMA InterruptSeen ==
  ASSUME StreamInv, ExactInv, InterruptOnNonText, ~ ferror', Countable
  PROVE  ExactInv'
  <1>1. /\ Body /\ pc' = "finish" /\ is_non_text_code(code_point) /\ p.interrupt_if_non_text
        /\ report' = [report EXCEPT !.contains_non_text_chars = TRUE] /\ last_was_newline' = FALSE
    BY DEF InterruptOnNonText, LeaveLoopIf
  <1>2. report'.contains_non_text_chars = TRUE /\ \A c \in LineEndings : Count_(c)' = Count_(c)
    BY <1>1 DEF Count_, StreamInv, LoopInv, Reports
  <1>3. code_point \notin {10, 13}
    BY <1>1, LineEndsAreText
  <1>4. Done \in Nat /\ code_point = Text[Done + 1] /\ SeenInv
    BY <1>1, BodyFacts
  <1>5. \A c \in LineEndings : Count_(c)' = Cardinality(Met(Text, Done + 1, c))
    BY <1>2, <1>3, <1>4, MeetsNone DEF SeenInv, Seen_
  <1> QED
    BY <1>1, <1>2, <1>3, <1>5, BodySeen

LEMMA MeetRegularSeen ==
  ASSUME StreamInv, ExactInv, MeetRegular, ~ ferror', Countable
  PROVE  ExactInv'
  <1>1. /\ Body /\ pc' \in {"pull", "finish"} /\ (pc' = "finish" => output_stream'.err)
        /\ report' = [report EXCEPT !.contains_non_text_chars = @ \/ is_non_text_code(code_point)]
        /\ last_was_newline' = FALSE /\ last_was_13' = FALSE /\ code_point \notin {10, 13}
    BY DEF MeetRegular, LeaveLoopIf
  <1>2. /\ report'.contains_non_text_chars <=>
             report.contains_non_text_chars \/ is_non_text_code(code_point)
        /\ \A c \in LineEndings : Count_(c)' = Count_(c)
    BY <1>1 DEF Count_, StreamInv, LoopInv, Reports
  <1>4. Done \in Nat /\ code_point = Text[Done + 1] /\ SeenInv
    BY <1>1, BodyFacts
  <1>5. \A c \in LineEndings : Count_(c)' = Cardinality(Met(Text, Done + 1, c))
    BY <1>1, <1>2, <1>4, MeetsNone DEF SeenInv, Seen_
  <1>6. code_point # 13
    BY <1>1
  <1> QED
    BY <1>1, <1>2, <1>5, <1>6, BodySeen

\* One ending more, in convention c.
LEMMA OneMoreSeen ==
  ASSUME StreamInv, ExactInv, Body, pc' \in {"pull", "finish"}, ~ ferror', Countable,
         NEW c \in LineEndings, report' = Count(c, 1), code_point \in {10, 13},
         Met(Text, Done + 1, c) = Met(Text, Done, c) \cup {Done + 1},
         \A d \in LineEndings \ {c} : Met(Text, Done + 1, d) = Met(Text, Done, d)
  PROVE  /\ \A d \in LineEndings : Count_(d)' = Cardinality(Met(Text, Done + 1, d))
         /\ report'.contains_non_text_chars <=>
              report.contains_non_text_chars \/ is_non_text_code(code_point)
  <1>1. Done \in Nat /\ Done + 1 <= Len(Text) /\ Len(Text) < UINT_RANGE /\ Len(Text) \in Nat /\ SeenInv
    BY BodyFacts
  <1>2. report \in Reports
    BY DEF StreamInv, LoopInv
  <1>3. Done + 1 < UINT_RANGE
    BY <1>1, UintAssumption
  <1>4. \A d \in LineEndings : Count_(d)' = IF d = c THEN (Count_(c) + 1) % UINT_RANGE ELSE Count_(d)
    BY <1>2, CountedOne DEF Count_
  <1>5. Count_(c)' = Cardinality(Met(Text, Done + 1, c))
    BY <1>1, <1>3, <1>4, SeenSizes DEF SeenInv, Seen_
  <1>6. \A d \in LineEndings \ {c} : Count_(d)' = Cardinality(Met(Text, Done + 1, d))
    BY <1>1, <1>4 DEF SeenInv, Seen_
  <1>7. report'.contains_non_text_chars = report.contains_non_text_chars
    BY <1>2 DEF Count, Reports
  <1>8. ~ is_non_text_code(code_point)
    BY LineEndsAreText
  <1> QED
    BY <1>5, <1>6, <1>7, <1>8

LEMMA MeetCRSeen ==
  ASSUME StreamInv, ExactInv, MeetCR, ~ ferror', Countable
  PROVE  ExactInv'
  <1>1. /\ Body /\ pc' \in {"pull", "finish"} /\ (pc' = "finish" => output_stream'.err)
        /\ report' = Count("CR", 1) /\ last_was_newline' = TRUE /\ last_was_13' = TRUE
        /\ code_point = 13
    BY DEF MeetCR, LeaveLoopIf
  <1>2. Done \in Nat /\ code_point = Text[Done + 1]
    BY <1>1, BodyFacts
  <1>3. /\ Met(Text, Done + 1, "CR") = Met(Text, Done, "CR") \cup {Done + 1}
        /\ \A d \in LineEndings \ {"CR"} : Met(Text, Done + 1, d) = Met(Text, Done, d)
    BY <1>1, <1>2, MeetsCR DEF LineEndings
  <1>4. "CR" \in LineEndings /\ code_point \in {10, 13}
    BY <1>1 DEF LineEndings
  <1> QED
    BY <1>1, <1>3, <1>4, OneMoreSeen, BodySeen

LEMMA MeetLoneLFSeen ==
  ASSUME StreamInv, ExactInv, MeetLoneLF, ~ ferror', Countable
  PROVE  ExactInv'
  <1>1. /\ Body /\ pc' \in {"pull", "finish"}
        /\ pc' = "finish" => IsUnwanted("LF") \/ output_stream'.err
        /\ report' = Count("LF", 1) /\ last_was_newline' = TRUE
        /\ code_point = 10 /\ ~ last_was_13 /\ last_was_13' = last_was_13
    BY DEF MeetLoneLF, LeaveLoopIf
  <1>2. /\ Done \in Nat /\ code_point = Text[Done + 1]
        /\ last_was_13 <=> Done > 0 /\ Text[Done] = 13
    BY <1>1, BodyFacts
  <1>3. /\ Met(Text, Done + 1, "LF") = Met(Text, Done, "LF") \cup {Done + 1}
        /\ \A d \in LineEndings \ {"LF"} : Met(Text, Done + 1, d) = Met(Text, Done, d)
    BY <1>1, <1>2, MeetsLoneLF DEF LineEndings
  <1>4. "LF" \in LineEndings /\ code_point \in {10, 13} /\ (last_was_13' <=> code_point = 13)
    BY <1>1 DEF LineEndings
  <1>5. pc' = "finish" =>
          \/ output_stream'.err
          \/ /\ p.interrupt_if_not_like_dst_convention
             /\ \E c \in {"LF", "CRLF"} : p.dst_convention # c /\ Met(Text, Done + 1, c) # {}
    BY <1>1, <1>3 DEF IsUnwanted
  <1> QED
    BY <1>1, <1>3, <1>4, <1>5, OneMoreSeen, BodySeen

LEMMA MeetLFOfCRLFSeen ==
  ASSUME StreamInv, ExactInv, MeetLFOfCRLF, ~ ferror', Countable
  PROVE  ExactInv'
  <1>1. /\ Body /\ pc' \in {"pull", "finish"}
        /\ pc' = "finish" => IsUnwanted("CRLF")
        /\ pc' = "pull" => ~ last_was_13'
        /\ report' = [report EXCEPT
                        !.count_by_convention["CR"]   = (@ - 1) % UINT_RANGE,
                        !.count_by_convention["CRLF"] = (@ + 1) % UINT_RANGE]
        /\ last_was_newline' = TRUE /\ code_point = 10 /\ last_was_13
    BY DEF MeetLFOfCRLF, LeaveLoopIf
  <1>2. /\ Done \in Nat /\ code_point = Text[Done + 1] /\ SeenInv
        /\ Done + 1 <= Len(Text) /\ Len(Text) < UINT_RANGE /\ Len(Text) \in Nat
        /\ last_was_13 <=> Done > 0 /\ Text[Done] = 13
    BY <1>1, BodyFacts
  <1>3. /\ Met(Text, Done + 1, "CR") = Met(Text, Done, "CR") \ {Done} /\ Done \in Met(Text, Done, "CR")
        /\ Met(Text, Done + 1, "LF") = Met(Text, Done, "LF")
        /\ Met(Text, Done + 1, "CRLF") = Met(Text, Done, "CRLF") \cup {Done + 1}
    BY <1>1, <1>2, MeetsLFOfCRLF
  <1>4. /\ Count_("CR")' = (Count_("CR") - 1) % UINT_RANGE
        /\ Count_("CRLF")' = (Count_("CRLF") + 1) % UINT_RANGE
        /\ Count_("LF")' = Count_("LF")
        /\ report'.contains_non_text_chars = report.contains_non_text_chars
    BY <1>1 DEF Count_, StreamInv, LoopInv, Reports, Counts, LineEndings
  <1>5. {"CR", "LF", "CRLF"} = LineEndings
    BY DEF LineEndings
  <1>6. Done + 1 < UINT_RANGE
    BY <1>2, UintAssumption
  <1>7. Count_("CRLF")' = Cardinality(Met(Text, Done + 1, "CRLF"))
    BY <1>2, <1>3, <1>4, <1>5, <1>6, SeenSizes DEF SeenInv, Seen_
  <1>8. Count_("CR")' = Cardinality(Met(Text, Done + 1, "CR"))
    <2> DEFINE met == Met(Text, Done, "CR")
    <2>1. IsFiniteSet(met) /\ Cardinality(met) \in Nat /\ Cardinality(met) <= Done
          /\ (Cardinality(met) = 0 <=> met = {})
      BY <1>2, <1>5, MetFinite
    <2>2. Cardinality(met \ {Done}) = Cardinality(met) - 1
      BY <1>3, <2>1, FS_RemoveElement
    <2>3. Cardinality(met) # 0
      BY <1>3, <2>1
    <2>4. Count_("CR") = Cardinality(met)
      BY <1>2, <1>5 DEF SeenInv, Seen_
    <2> HIDE DEF met
    <2>5. Cardinality(met) - 1 \in Nat /\ Cardinality(met) - 1 < UINT_RANGE
      BY <1>2, <1>6, <2>1, <2>3, UintAssumption
    <2>6. Count_("CR")' = Cardinality(met) - 1
      BY <1>4, <2>4, <2>5, ModSmall
    <2> QED
      BY <1>3, <2>2, <2>6 DEF met
  <1>9. Count_("LF")' = Cardinality(Met(Text, Done + 1, "LF"))
    BY <1>2, <1>3, <1>4, <1>5 DEF SeenInv, Seen_
  <1>10. \A c \in LineEndings : Count_(c)' = Cardinality(Met(Text, Done + 1, c))
    BY <1>5, <1>7, <1>8, <1>9
  <1>11. pc' = "finish" =>
           /\ p.interrupt_if_not_like_dst_convention
           /\ \E c \in {"LF", "CRLF"} : p.dst_convention # c /\ Met(Text, Done + 1, c) # {}
    BY <1>1, <1>3 DEF IsUnwanted
  <1>12. ~ is_non_text_code(code_point) /\ code_point # 13
    BY <1>1, LineEndsAreText
  <1> QED
    BY <1>1, <1>4, <1>10, <1>11, <1>12, BodySeen

LEMMA FrameSeen ==
  ASSUME StreamInv, ExactInv, Setup \/ PullFrame, ~ ferror'
  PROVE  ExactInv'
  <1>1. /\ read_stream_frame /\ input' = input /\ UNCHANGED <<callVars, flagVars, report>>
        /\ pc \in {"setup", "pull"}
        /\ pc' = "pull" \/ (PullFrame /\ input_stream'.eof /\ pc' = "finish")
    BY DEF Setup, PullFrame, callVars, LeaveLoopIf
  <1>2. ~ ferror /\ SeenInv /\ Placed
    BY <1>1, FrameRead DEF ExactInv, Placed
  <1>3. FrameInv' /\ PlaceInv' /\ Done' = Done /\ Text' = Text
    BY <1>1, <1>2, FrameStep, FramePlace, Parameters
  <1>4. LeftInv'
    BY <1>1, <1>2, <1>3, EofReads DEF LeftInv
  <1>5. SeenInv'
    BY <1>1, <1>2, <1>3 DEF SeenInv, Count_, Seen_, flagVars
  <1> QED
    BY <1>3, <1>4, <1>5 DEF ExactInv

LEMMA PullByteSeen ==
  ASSUME StreamInv, ExactInv, PullByte, ~ ferror'
  PROVE  ExactInv'
  <1>1. /\ ~ ferror /\ UNCHANGED <<callVars, flagVars, report>> /\ pc = "pull" /\ pc' \in {"pull", "body"}
    BY DEF PullByte
  <1>2. SeenInv /\ Placed
    BY <1>1 DEF ExactInv, Placed
  <1>3. FrameInv' /\ PlaceInv' /\ Done' = Done /\ Text' = Text
    BY <1>1, <1>2, PullBytePlace, Parameters
  <1>4. LeftInv'
    BY <1>1 DEF LeftInv
  <1>5. SeenInv'
    BY <1>1, <1>2, <1>3 DEF SeenInv, Count_, Seen_, flagVars
  <1> QED
    BY <1>3, <1>4, <1>5 DEF ExactInv

\* Behind a failed write nothing is pushed any more, and the error stays.
LEMMA ErrorStays ==
  ASSUME NEW o, o.err
  PROVE  /\ flush_buffer(o) = o
         /\ \A value : push_byte(value, o) = o
         /\ encoding_layout \in Layouts => \A w : push_code_point(w, o) = o
  <1>1. flush_buffer(o) = o /\ \A value : push_byte(value, o) = o
    BY DEF flush_buffer, push_byte
  <1> QED
    BY <1>1 DEF push_code_point, Layouts

LEMMA FinishSeen ==
  ASSUME StreamInv, ExactInv, Finish, ~ ferror'
  PROVE  ExactInv'
  <1>1. /\ ~ ferror /\ pc = "finish" /\ pc' = "done" /\ UNCHANGED <<callVars, inVars, encoding_layout, pulled, flagVars>>
        /\ output_stream' = flush_buffer(IF EolIsMissing THEN push_newline(output_stream)
                                         ELSE output_stream)
        /\ report' = [report EXCEPT !.has_final_eol = FinalEol,
                                    !.error_during_conversion = output_stream'.err \/ ReadFailed]
    BY DEF Finish, inVars
  <1>2. /\ report'.contains_non_text_chars = report.contains_non_text_chars
        /\ report'.count_by_convention = report.count_by_convention
    BY <1>1 DEF StreamInv, LoopInv, Reports
  <1>3. FrameInv /\ PlaceInv /\ SeenInv /\ LeftInv
    BY <1>1 DEF ExactInv
  <1>4. p' = p /\ Text' = Text
    BY <1>1, Parameters
  <1>5. Done' = Done /\ Consumed' = Consumed /\ BytesPerCodePoint' = BytesPerCodePoint
    BY <1>1 DEF Done, Consumed, BytesPerCodePoint, inVars
  <1>6. output_stream.err => output_stream'.err
    <2>1. ASSUME output_stream.err PROVE push_newline(output_stream) = output_stream
      <3>1. encoding_layout \in Layouts /\ p.dst_convention \in Targets
        BY ParametersType, SitesOfCall DEF StreamInv, LoopInv, CallInv
      <3>2. \A w : push_code_point(w, output_stream) = output_stream
        BY <2>1, <3>1, ErrorStays
      <3> QED
        BY <3>1, <3>2 DEF push_newline, Targets, LineEndings
    <2> QED
      BY <1>1, <2>1, ErrorStays
  <1>7. FrameInv'
    BY <1>1, <1>3 DEF FrameInv, inVars, callVars
  <1>8. PlaceInv'
    BY <1>1, <1>3, <1>5 DEF PlaceInv, inVars, callVars
  <1>9. SeenInv'
    BY <1>1, <1>2, <1>3, <1>4, <1>5 DEF SeenInv, Count_, Seen_, flagVars
  <1>10. LeftInv'
    BY <1>1, <1>2, <1>3, <1>4, <1>5, <1>6 DEF LeftInv, Interrupted, IsForeign
  <1> QED
    BY <1>7, <1>8, <1>9, <1>10 DEF ExactInv

LEMMA ExactInit == Init => ExactInv
  <1> SUFFICES ASSUME Init PROVE ExactInv
    OBVIOUS
  <1>1. /\ input_stream = [buffer |-> <<>>, buf_ptr |-> BUFFERSIZE, eof |-> FALSE] /\ position = 0
        /\ pulled = <<>> /\ pc = "setup" /\ ~ last_was_13 /\ ~ last_was_newline
        /\ report = init_report /\ BytesPerCodePoint = 1
    BY DEF Init, BytesPerCodePoint
  <1>2. Len(<<>>) = 0
    BY EmptySeq
  <1>3. Consumed = 0
    BY <1>1 DEF Consumed
  <1>4. Done = 0
    BY <1>1, <1>2, <1>3 DEF Done
  <1>5. FrameInv
    BY <1>1, <1>2 DEF FrameInv
  <1>6. PlaceInv
    BY <1>1, <1>2, <1>3, <1>4 DEF PlaceInv
  <1>7. \A c \in LineEndings : Count_(c) = 0 /\ Seen_(c) = 0
    BY <1>1, <1>4, MetNothing DEF Count_, Seen_, init_report
  <1>8. ~ report.contains_non_text_chars /\ ~ (\E i \in 1 .. 0 : is_non_text_code(Text[i]))
    BY <1>1 DEF init_report
  <1>9. SeenInv
    BY <1>1, <1>4, <1>7, <1>8 DEF SeenInv
  <1>10. LeftInv
    BY <1>1 DEF LeftInv
  <1> QED
    BY <1>5, <1>6, <1>9, <1>10 DEF ExactInv

LEMMA ExactNext == StreamInv /\ ExactInv /\ [Next]_vars /\ Countable => ExactInv'
  <1> SUFFICES ASSUME StreamInv, ExactInv, [Next]_vars, Countable, ~ ferror' PROVE ExactInv'
    BY DEF ExactInv
  <1>1. CASE UNCHANGED vars
    <2>1. UNCHANGED <<callVars, inVars, encoding_layout, pulled, flagVars, report, output_stream, pc>>
      BY <1>1 DEF vars
    <2>2. p' = p /\ Text' = Text
      BY <2>1, Parameters
    <2>3. Done' = Done /\ Consumed' = Consumed /\ BytesPerCodePoint' = BytesPerCodePoint
      BY <2>1 DEF Done, Consumed, BytesPerCodePoint, inVars
    <2>4. FrameInv /\ PlaceInv /\ SeenInv /\ LeftInv
      BY <2>1 DEF ExactInv, inVars
    <2>5. FrameInv' /\ PlaceInv'
      BY <2>1, <2>3, <2>4 DEF FrameInv, PlaceInv, inVars, callVars
    <2>6. SeenInv'
      BY <2>1, <2>3, <2>2, <2>4 DEF SeenInv, Count_, Seen_, flagVars
    <2>7. LeftInv'
      BY <2>1, <2>3, <2>2, <2>4 DEF LeftInv, Interrupted, IsForeign
    <2> QED
      BY <2>5, <2>6, <2>7 DEF ExactInv
  <1>2. CASE Next
    BY <1>2, FrameSeen, PullByteSeen, InterruptSeen, MeetCRSeen, MeetLFOfCRLFSeen, MeetLoneLFSeen,
       MeetRegularSeen, FinishSeen DEF Next
  <1> QED
    BY <1>1, <1>2

\* The report of a call that has returned.
ReturnInv ==
  pc = "done" => /\ report.error_during_conversion <=> output_stream.err \/ ferror
                 /\ report.has_final_eol <=> last_was_newline \/ p.final_char_has_to_be_eol

LEMMA ReturnNext == StreamInv /\ ReturnInv /\ [Next]_vars => ReturnInv'
  <1> SUFFICES ASSUME StreamInv, ReturnInv, [Next]_vars, pc' = "done" PROVE ReturnInv'
    BY DEF ReturnInv
  <1>1. CASE UNCHANGED vars
    <2>1. p' = p
      BY <1>1, Parameters DEF vars
    <2> QED
      BY <1>1, <2>1 DEF vars, ReturnInv, flagVars, inVars
  <1>2. CASE Finish
    <2>1. p' = p
      BY <1>2, Parameters DEF Finish
    <2>2. /\ report'.error_during_conversion = (output_stream'.err \/ ferror)
          /\ report'.has_final_eol = FinalEol
      BY <1>2 DEF Finish, ReadFailed, StreamInv, LoopInv, Reports
    <2> QED
      BY <1>2, <2>1, <2>2 DEF Finish, ReturnInv, FinalEol, EolIsMissing, flagVars, inVars
  <1>3. CASE Next /\ ~ Finish
    BY <1>3 DEF Next, Setup, PullFrame, PullByte, InterruptOnNonText, MeetCR, MeetLFOfCRLF, MeetLoneLF,
       MeetRegular, LeaveLoopIf
  <1> QED
    BY <1>1, <1>2, <1>3

--------------------------------------------------------------------------------
(* The theorems about the report.                                           *)

LEMMA NonTextIsTheSame ==
  ASSUME NEW text \in Seq(Nat)
  PROVE  HasNonText(text) <=> \E i \in 1 .. Len(text) : is_non_text_code(text[i])
  <1>1. DOMAIN text = 1 .. Len(text)
    BY LenProperties
  <1>2. \A i \in 1 .. Len(text) : text[i] \in Nat
    BY ElementOfSeq
  <1>3. \A w \in Nat : w \in (0 .. 31) \ (9 .. 13) <=> is_non_text_code(w)
    BY DEF is_non_text_code
  <1> QED
    BY <1>1, <1>2, <1>3 DEF HasNonText

LEMMA EolIsTheSame ==
  ASSUME NEW text \in Seq(Nat)
  PROVE  EndsWithEol(text) <=> Len(text) > 0 /\ text[Len(text)] \in {10, 13}
  <1>1. Len(text) \in Nat /\ (text # <<>> <=> Len(text) > 0)
    BY EmptySeq, LenProperties
  <1> QED
    BY <1>1 DEF EndsWithEol, Last

\* A whole text: its report is exact.
LEMMA WholeText ==
  ASSUME StreamInv, SeenInv, Done = Len(Text)
  PROVE  /\ \A c \in LineEndings : Count_(c) = Cardinality(EndingsAt(Text, c))
         /\ report.contains_non_text_chars <=> HasNonText(Text)
         /\ last_was_newline <=> EndsWithEol(Text)
  <1>1. Text \in Seq(Nat)
    BY InputSizes, TextFacts DEF Text
  <1>2. \A c \in LineEndings : Met(Text, Len(Text), c) = EndingsAt(Text, c)
    BY <1>1, MetAll
  <1> QED
    BY <1>1, <1>2, NonTextIsTheSame, EolIsTheSame DEF SeenInv, Seen_

LEMMA ReportFollows == StreamInv /\ ExactInv /\ ReturnInv => ReportIsExact
  <1> SUFFICES ASSUME StreamInv, ExactInv, ReturnInv, Accepted, site # "pre_conversion_check"
               PROVE  /\ \A c \in LineEndings :
                            report.count_by_convention[c] = Cardinality(EndingsAt(Text, c))
                      /\ report.contains_non_text_chars = HasNonText(Text)
                      /\ report.has_final_eol = (EndsWithEol(Text) \/ p.final_char_has_to_be_eol)
    BY DEF ReportIsExact
  <1>1. pc = "done" /\ ~ ferror /\ ~ output_stream.err /\ ~ Interrupted
    BY DEF Accepted, Returned, ReturnInv, Interrupted
  <1>2. SeenInv /\ LeftInv
    BY <1>1 DEF ExactInv
  <1>3. ~ p.interrupt_if_not_like_dst_convention
    BY SitesOfCall DEF StreamInv, Sites, p, ConvertParameters, CheckParameters, StdinParameters
  <1>4. Done = Len(Text)
    BY <1>1, <1>2, <1>3 DEF LeftInv, IsForeign
  <1>5. /\ report.contains_non_text_chars \in BOOLEAN /\ report.has_final_eol \in BOOLEAN
    BY DEF StreamInv, LoopInv, Reports
  <1>6. report.has_final_eol <=> EndsWithEol(Text) \/ p.final_char_has_to_be_eol
    BY <1>1, <1>2, <1>4, WholeText DEF ReturnInv
  <1> QED
    BY <1>2, <1>4, <1>5, <1>6, WholeText DEF Count_, HasNonText, EndsWithEol

LEMMA OneEnding ==
  ASSUME NEW S \in SUBSET LineEndings
  PROVE  Cardinality(S) = 1 <=> \E c : S = {c}
  <1>1. IsFiniteSet({"CR"})
    BY FS_Singleton
  <1>2. IsFiniteSet({"CR"} \cup {"LF"})
    BY <1>1, FS_AddElement
  <1>3. IsFiniteSet(({"CR"} \cup {"LF"}) \cup {"CRLF"})
    BY <1>2, FS_AddElement
  <1>4. LineEndings = ({"CR"} \cup {"LF"}) \cup {"CRLF"}
    BY DEF LineEndings
  <1>5. IsFiniteSet(S)
    BY <1>3, <1>4, FS_Subset
  <1> QED
    BY <1>5, FS_Singleton

\* The convention of a text is what the loop of utils.c finds in its exact counts.
LEMMA ConventionFollows ==
  ASSUME NEW text, NEW counts \in Counts,
         \A c \in LineEndings : counts[c] > 0 <=> EndingsAt(text, c) # {}
  PROVE  get_source_convention(counts) = ConventionOf(text)
  <1> DEFINE met == {c \in LineEndings : EndingsAt(text, c) # {}}
  <1>1. met = {c \in LineEndings : counts[c] > 0}
    OBVIOUS
  <1>4. Cardinality(met) = 1 <=> \E c : met = {c}
    BY OneEnding
  <1>5. Cardinality(met) = 1 <=> \E c \in met : met = {c}
    BY <1>4
  <1> QED
    BY <1>1, <1>5 DEF get_source_convention, ConventionOf

\* A text in which an ending of convention c occurs is in that convention or mixed.
LEMMA ConventionOfMet ==
  ASSUME NEW text, NEW c \in LineEndings, EndingsAt(text, c) # {}
  PROVE  ConventionOf(text) \in {c, "MIXED"}
  <1> DEFINE met == {d \in LineEndings : EndingsAt(text, d) # {}}
  <1>1. c \in met
    OBVIOUS
  <1>2. Cardinality(met) = 1 => \E d : met = {d}
    BY OneEnding
  <1>3. Cardinality(met) = 1 => (CHOOSE d \in met : TRUE) = c
    BY <1>1, <1>2
  <1> HIDE DEF met
  <1> QED
    BY <1>1, <1>3 DEF ConventionOf, met

LEMMA EolIsAnEnding ==
  ASSUME NEW text \in Seq(Nat), EndsWithEol(text)
  PROVE  ConventionOf(text) # "NO_CONVENTION"
  <1> DEFINE n == Len(text)
  <1>1. n \in Nat /\ n > 0 /\ text[n] \in {10, 13} /\ DOMAIN text = 1 .. n
    BY EolIsTheSame, LenProperties
  <1>2. \E c \in LineEndings : n \in EndingsAt(text, c)
    <2>1. CASE text[n] = 13
      <3>1. n \in EndingsAt(text, "CR")
        BY <1>1, <2>1 DEF EndingsAt, PrecedesLF
      <3> QED
        BY <3>1 DEF LineEndings
    <2>2. CASE text[n] = 10
      <3>1. n \in EndingsAt(text, "CRLF") \/ n \in EndingsAt(text, "LF")
        BY <1>1, <2>2 DEF EndingsAt
      <3> QED
        BY <3>1 DEF LineEndings
    <2> QED
      BY <1>1, <2>1, <2>2
  <1> HIDE DEF n
  <1> QED
    BY <1>2, ConventionOfMet DEF LineEndings

\* The dry scan of a file, whatever made it stop.
LEMMA ScanOutcome ==
  ASSUME StreamInv, ExactInv, ReturnInv, Returned, site = "pre_conversion_check",
         ~ report.error_during_conversion
  PROVE  /\ invocation \in Invocation /\ invocation.dst_convention \in LineEndings
         /\ Text \in Seq(Nat)
         /\ report.contains_non_text_chars => HasNonText(Text)
         /\ \/ /\ Done = Len(Text)
               /\ \A c \in LineEndings : Count_(c) = Cardinality(EndingsAt(Text, c))
               /\ report.contains_non_text_chars <=> HasNonText(Text)
               /\ report.has_final_eol <=> EndsWithEol(Text)
            \/ report.contains_non_text_chars /\ ~ invocation.binaries
            \/ \E c \in {"LF", "CRLF"} :
                 /\ invocation.dst_convention # c
                 /\ Count_(c) > 0 /\ EndingsAt(Text, c) # {}
  <1>1. ~ ferror /\ ~ output_stream.err /\ pc = "done"
    BY DEF ReturnInv, Returned
  <1>2. FrameInv /\ PlaceInv /\ SeenInv /\ LeftInv
    BY <1>1 DEF ExactInv
  <1>3. invocation \in Invocation /\ invocation.dst_convention \in LineEndings
    BY DEF StreamInv, CallInv, CallSites, Invocation, Targets
  <1>4. /\ p.interrupt_if_non_text = ~ invocation.binaries /\ p.final_char_has_to_be_eol = FALSE
        /\ p.dst_convention = invocation.dst_convention
    BY DEF p, PreCheckParameters
  <1>5. Text \in Seq(Nat) /\ Len(Text) \in Nat /\ Len(Text) = Len(input) \div Width(input)
    <2>1. Text \in Seq(Nat) /\ Len(Text) = Len(input) \div Width(input)
      BY InputSizes, TextFacts DEF Text
    <2> QED
      BY <2>1, LenProperties
  <1>6. Done \in 0 .. Len(Text)
    <2>1. BytesPerCodePoint = Width(input)
      BY <1>1, <1>2 DEF FrameInv, BytesPerCodePoint, Width
    <2>2. /\ Consumed = BytesPerCodePoint * Done + Len(pulled) /\ Done \in Nat
          /\ Consumed <= Len(input)
      BY <1>2, InputSizes DEF PlaceInv
    <2>3. Done <= Len(input) \div BytesPerCodePoint
      BY <2>2, InputSizes
    <2> QED
      BY <1>5, <2>1, <2>2, <2>3
  <1>7. report.contains_non_text_chars => HasNonText(Text)
    BY <1>2, <1>5, <1>6, NonTextIsTheSame DEF SeenInv
  <1>8. report.has_final_eol <=> last_was_newline
    BY <1>1, <1>4 DEF ReturnInv
  <1>9. CASE Done = Len(Text)
    BY <1>2, <1>3, <1>5, <1>7, <1>8, <1>9, WholeText
  <1>10. CASE Interrupted
    BY <1>3, <1>4, <1>5, <1>7, <1>10 DEF Interrupted
  <1>11. CASE IsForeign
    <2> PICK c \in {"LF", "CRLF"} : p.dst_convention # c /\ Met(Text, Done, c) # {}
      BY <1>11 DEF IsForeign
    <2>1. c \in LineEndings
      BY DEF LineEndings
    <2>2. EndingsAt(Text, c) # {}
      BY <1>5, <1>6, MetStays
    <2>3. Count_(c) = Cardinality(Met(Text, Done, c))
      BY <1>2, <2>1 DEF SeenInv, Seen_
    <2>4. Count_(c) > 0
      BY <1>6, <2>1, <2>3, MetFinite
    <2> QED
      BY <1>3, <1>4, <1>5, <1>7, <2>2, <2>4
  <1> QED
    BY <1>1, <1>2, <1>9, <1>10, <1>11 DEF LeftInv

\* A whole text needs no conversion exactly if needs_no_conversion says so.
LEMMA NothingToDoFollows ==
  ASSUME NEW text \in Seq(Nat), NEW inv \in Invocation, inv.dst_convention \in LineEndings,
         NEW eol, eol <=> EndsWithEol(text), ~ (HasNonText(text) /\ ~ inv.binaries)
  PROVE  needs_no_conversion(ConventionOf(text), eol, inv) <=> NothingToDo(text, inv)
  <1>1. inv.dst_convention # "NO_CONVENTION"
    BY DEF LineEndings
  <1>2. EndsWithEol(text) => ConventionOf(text) # "NO_CONVENTION"
    BY EolIsAnEnding
  <1> QED
    BY <1>1, <1>2 DEF needs_no_conversion, NothingToDo

LEMMA PreCheckFollows == StreamInv /\ ExactInv /\ ReturnInv => PreCheckIsExact
  <1> DEFINE verdict == pre_conversion_verdict(report, invocation)
             src     == get_source_convention(report.count_by_convention)
  <1> SUFFICES ASSUME StreamInv, ExactInv, ReturnInv, Returned, site = "pre_conversion_check",
                      ~ report.error_during_conversion
               PROVE  /\ (verdict = "DONE") <=> NothingToDo(Text, invocation)
                      /\ verdict = "SKIPPED_BINARY" => HasNonText(Text) /\ ~ invocation.binaries
                      /\ verdict = "DONE" => src = ConventionOf(Text)
    BY DEF PreCheckIsExact
  <1>1. /\ invocation \in Invocation /\ invocation.dst_convention \in LineEndings
        /\ Text \in Seq(Nat) /\ (report.contains_non_text_chars => HasNonText(Text))
    BY ScanOutcome
  <1>2. report.count_by_convention \in Counts
    BY DEF StreamInv, LoopInv, Reports
  <1>3. verdict = IF report.contains_non_text_chars /\ ~ invocation.binaries THEN "SKIPPED_BINARY"
                  ELSE IF needs_no_conversion(src, report.has_final_eol, invocation) THEN "DONE"
                  ELSE "CAN_CONTINUE"
    BY DEF pre_conversion_verdict
  <1> HIDE DEF verdict
  <1>4. verdict = "SKIPPED_BINARY" => HasNonText(Text) /\ ~ invocation.binaries
    BY <1>1, <1>3
  <1>5. CASE report.contains_non_text_chars /\ ~ invocation.binaries
    BY <1>1, <1>3, <1>5 DEF NothingToDo
  <1>6. CASE /\ ~ (report.contains_non_text_chars /\ ~ invocation.binaries)
             /\ \A c \in LineEndings : Count_(c) = Cardinality(EndingsAt(Text, c))
             /\ report.contains_non_text_chars <=> HasNonText(Text)
             /\ report.has_final_eol <=> EndsWithEol(Text)
             /\ Done = Len(Text)
    <2>1. \A c \in LineEndings : Count_(c) > 0 <=> EndingsAt(Text, c) # {}
      <3> SUFFICES ASSUME NEW c \in LineEndings PROVE Count_(c) > 0 <=> EndingsAt(Text, c) # {}
        OBVIOUS
      <3>1. Len(Text) \in Nat
        BY <1>1, LenProperties
      <3>2. Met(Text, Len(Text), c) = EndingsAt(Text, c)
        BY <1>1, MetAll
      <3>3. Cardinality(EndingsAt(Text, c)) \in Nat
            /\ (Cardinality(EndingsAt(Text, c)) = 0 <=> EndingsAt(Text, c) = {})
        BY <3>1, <3>2, MetFinite
      <3> QED
        BY <1>6, <3>3
    <2>2. src = ConventionOf(Text)
      BY <1>2, <2>1, ConventionFollows DEF Count_
    <2>3. needs_no_conversion(src, report.has_final_eol, invocation) <=> NothingToDo(Text, invocation)
      BY <1>1, <1>6, <2>2, NothingToDoFollows
    <2> HIDE DEF src
    <2> QED
      BY <1>3, <1>4, <1>6, <2>2, <2>3
  <1>7. CASE /\ ~ (report.contains_non_text_chars /\ ~ invocation.binaries)
             /\ \E c \in {"LF", "CRLF"} : /\ invocation.dst_convention # c
                                          /\ Count_(c) > 0 /\ EndingsAt(Text, c) # {}
    <2> PICK c \in {"LF", "CRLF"} : /\ invocation.dst_convention # c
                                     /\ Count_(c) > 0 /\ EndingsAt(Text, c) # {}
      BY <1>7
    <2>1. c \in LineEndings /\ c # "NO_CONVENTION"
      BY DEF LineEndings
    <2>2. ConventionOf(Text) \in {c, "MIXED"}
      BY <2>1, ConventionOfMet
    <2>3. src \in {c, "MIXED"}
      BY <2>1 DEF get_source_convention, Count_
    <2>4. invocation.dst_convention # "MIXED"
      BY <1>1 DEF LineEndings
    <2> HIDE DEF src
    <2>5. ~ needs_no_conversion(src, report.has_final_eol, invocation)
      BY <2>1, <2>3, <2>4 DEF needs_no_conversion
    <2>6. ~ NothingToDo(Text, invocation)
      BY <2>1, <2>2, <2>4 DEF NothingToDo
    <2> QED
      BY <1>3, <1>4, <1>7, <2>5, <2>6
  <1> QED
    BY <1>5, <1>6, <1>7, ScanOutcome

\* A report without an error counts every line ending once and is right about control
\* characters and the last line, for every input an unsigned int can count, wherever the
\* frames end and whatever fread and fwrite do.
THEOREM ReportAlwaysExact ==
  ASSUME Countable
  PROVE  Spec => []ReportIsExact
  <1>1. Init => ReturnInv
    BY DEF Init, ReturnInv
  <1> QED
    BY <1>1, StreamInit, StreamNext, ExactInit, ExactNext, ReturnNext, ReportFollows, PTL DEF Spec

\* The dry scan leaves a file alone exactly if a conversion would leave it as it is, and
\* what it says of it is true, although it stops at the first reason to convert.
THEOREM PreCheckAlwaysExact ==
  ASSUME Countable
  PROVE  Spec => []PreCheckIsExact
  <1>1. Init => ReturnInv
    BY DEF Init, ReturnInv
  <1> QED
    BY <1>1, StreamInit, StreamNext, ExactInit, ExactNext, ReturnNext, PreCheckFollows, PTL DEF Spec
================================================================================
