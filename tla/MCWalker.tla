-------------------------------- MODULE MCWalker --------------------------------
(* Directory trees, command lines and faults for TLC.                       *)
EXTENDS WalkerProperties

CONSTANTS a, b, c, d, e, g, l, png, gone, hid, tmp, cwd, sub, deep, closed

Length == [n \in Names |-> IF n \in {hid, tmp, png} THEN 4 ELSE 1]
\* The hidden name in the deepest directory does not fit; temporary names do.
LongLength == [Length EXCEPT ![hid] = 6]

kind(endings, binary, eol) == [endings |-> endings, binary |-> binary, eol |-> eol]
CRLF  == [is |-> "file", kind |-> kind({"CRLF"}, FALSE, TRUE)]
LF    == [is |-> "file", kind |-> kind({"LF"}, FALSE, FALSE)]
None  == [is |-> "file", kind |-> kind({}, FALSE, FALSE)]
Mixed == [is |-> "file", kind |-> kind({"LF", "CRLF"}, FALSE, TRUE)]
Bin   == [is |-> "file", kind |-> kind({"CR", "CRLF"}, TRUE, FALSE)]
Dir(of)      == [is |-> "directory", dir |-> of]
Link(in, to) == [is |-> "link", to |-> <<in, to>>]
Special      == [is |-> "special"]

Directory(entries) == [n \in Names |-> IF n \in DOMAIN entries THEN entries[n] ELSE Nothing]
In(n, what) == [m \in {n} |-> what]

\* A tree without links: every kind of entry, and a directory that can not be opened.
Plain ==
  [ x \in Directories |-> Directory(
      CASE x = cwd  -> In(a, CRLF) @@ In(d, Dir(sub)) @@ In(hid, LF) @@ In(png, LF)
        [] x = sub  -> In(a, Bin) @@ In(b, LF) @@ In(e, Dir(deep)) @@ In(hid, Dir(closed)) @@ In(g, Special)
        [] x = deep -> In(a, Mixed) @@ In(c, Dir(closed)) @@ In(hid, CRLF)
        [] x = closed -> In(b, None)) ]

\* A link that leads back to its directory, one to a file of another, and one nowhere.
Linked ==
  [ x \in Directories |-> Directory(
      CASE x = cwd -> In(a, CRLF) @@ In(d, Dir(sub))
        [] x = sub -> In(l, Link(cwd, d)) @@ In(b, Link(cwd, a)) @@ In(c, Link(cwd, gone)) @@ In(hid, LF)
        [] OTHER   -> In(b, None)) ]

AllArguments  == <<a, d, hid, png, gone>>
BothArguments == <<a, d>>

command(dst, binaries, final, recurse, hidden) ==
  [ dst_convention |-> dst, binaries |-> binaries, final_char_has_to_be_eol |-> final,
    recurse |-> recurse, process_hidden |-> hidden ]
EveryCommand == [ dst_convention : {"LF", "CRLF", "NO_CONVENTION"}, binaries : BOOLEAN,
                  final_char_has_to_be_eol : BOOLEAN, recurse : BOOLEAN, process_hidden : BOOLEAN ]
ThreeCommands == { command("LF", FALSE, FALSE, TRUE, TRUE), command("CRLF", TRUE, TRUE, TRUE, FALSE),
                   command("LF", FALSE, TRUE, FALSE, FALSE) }
SomeCommands == { command("LF", FALSE, FALSE, TRUE, FALSE), command("LF", TRUE, TRUE, TRUE, TRUE),
                  command("CRLF", FALSE, FALSE, TRUE, TRUE), command("NO_CONVENTION", FALSE, FALSE, TRUE, FALSE) }
================================================================================
