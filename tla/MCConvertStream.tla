---------------------------- MODULE MCConvertStream ----------------------------
(* Inputs for TLC: every short file over a few bytes that matter.           *)
EXTENDS ConvertStreamProperties

\* CR, LF, a letter and a control character, in one byte layout: all short files, and
\* those in which the third byte, the last one of a frame, is in the middle.
Bytes == {10, 13, 65, 1}
SingleByteFiles ==
  SeqOf(Bytes, 3) \cup {before \o f : before \in {<<65>>, <<65, 65>>}, f \in [1..3 -> Bytes]}

\* UTF-16 code points: CR, LF, a letter, and U+0D0A, whose bytes are CR and LF.
Units == {<<13, 0>>, <<10, 0>>, <<65, 0>>, <<10, 13>>}
Swapped(u) == <<u[2], u[1]>>
UTF16Files ==
  {<<255, 254>> \o FlattenSeq(us) : us \in SeqOf(Units, 2)} \cup
  {<<254, 255>> \o FlattenSeq([i \in DOMAIN us |-> Swapped(us[i])]) : us \in SeqOf(Units, 2)}

\* A BOM cut short, and a UTF-16 file whose last code point is cut in half.
CutFiles == {<<255>>, <<254>>, <<255, 254, 13>>, <<254, 255, 65, 0, 65>>, <<255, 254, 10, 0, 65>>}

AllFiles   == SingleByteFiles \cup UTF16Files \cup CutFiles
================================================================================
