# endlines: specification, model checking and proofs

TLA+ models of [endlines](../src/README.md) 1.9.2, a command line program that
converts text files between the line ending conventions CR, LF and CRLF. The
models are translated from the C code; names of operators and variables are
those of the code wherever TLA+ allows it.

## 1. The system

| component | code | state | operations |
|---|---|---|---|
| stream conversion | `src/convert_stream.c` | two 16 KiB buffers, layout, `last_was_13`, `last_was_newline`, the report | `convert_stream` and its push and pull helpers |
| conversion of one file | `src/main.c`, `src/file_operations.c` | the directory, an open input, a temporary file | `convert_one_file`, `check_one_file`, `pre_conversion_check`, `move_temp_file_to_destination` |
| verdicts on a report | `src/utils.c`, `src/main.c` | none | `get_source_convention`, the decision of `pre_conversion_check` |
| standard stream mode | `src/main.c` | none | `convert_stdin_to_stdout` |
| walkers | `src/walkers.c` | path buffer, counters, open directories | `walk_filenames`, `walk_directory` |
| batch accounting | `src/main.c` | totals by outcome and by convention | `walkers_callback`, `convert_files` |
| command line | `src/command_line_parser.c`, `src/main.c` | the `Invocation` | `parse_command_line`, eleven callbacks |
| file names | `src/utils.c`, `src/walkers.c`, `src/file_operations.c` | none | extension, hidden names, name of the temporary file, path of an entry |
| table of extensions, help, messages | `src/known_binary_extensions.h`, `src/utils.c` | none | output only |

`main` reads the command line. Without file names it calls `convert_stream` once,
from stdin to stdout. With file names the walkers call `walkers_callback` for each
regular file, which calls `check_one_file` or `convert_one_file`. The latter calls
`convert_stream` twice: a dry scan without output that may stop early
(`pre_conversion_check`), then the conversion into a temporary file in the same
directory. The result replaces the original by `remove` then `rename`; `chmod`,
`chown` and, under `-k`, `utime` follow, all by name.

One process is sequential. What is hard is elsewhere: frames that cut a line
ending in two, two flags that carry the knowledge over, an early exit whose verdict
must be that of the whole file, errors of stdio that show up late, a window in
which a file has no name, and other endlines processes (or a second visit of the
same process) meeting the files in any of these states. `PROJECT.json` lists these
hazards at the lines where they bite.

What makes each component correct:

- *stream conversion*: the output is the translation of the whole input; the report
  counts each ending once; early exits do not change the verdict; no access outside
  the buffers; a converted text needs no conversion; every call returns.
- *conversion of one file*: a complete copy of the file exists at every moment; what
  is returned for a file is true of it; binaries and files that need nothing are not
  rewritten; no temporary file stays; metadata comes back.
- *walkers and accounting*: nothing that should be visited is missed and nothing else
  is changed, each visit is counted in exactly one total, no path overruns its buffer,
  the walk ends although files are renamed under it.
- *command line*: the first word is the action, options hold wherever they stand, and
  the first reason to stop decides before anything is done.
- *file names*: paths that are put together fit their buffers, the temporary name is in
  the same directory, and what is asked of a path is answered for its last name.

## 2. Modules

| module | what it is |
|---|---|
| `Endlines` | conventions, outcomes, command line fields, the two functions that judge a report, and what a call of `convert_stream` does to a file that is no more than the kinds of things in it; used by all machines |
| `ConvertStream` | one call of `convert_stream`, one action per branch, with the parameters of its four callers |
| `ConvertStreamProperties`, `MCConvertStream` | reference definitions of text, line endings and translation, and the properties; input files for TLC |
| `ConvertFile` | several endlines processes on a directory, one action per system call |
| `ConvertFileProperties`, `MCConvertFile` | what they promise about files; directories, command lines and faults for TLC |
| `SafeReplace` | the abstract specification of a replacement, three actions long |
| `SharedDirectory` | several walks that may come to one another's temporary files; names lead to inodes, and open files stay open when their names go |
| `SharedDirectoryProperties`, `MCSharedDirectory` | what becomes of the texts; command lines for TLC |
| `Walker` | one process on its arguments and the directories below, one action per entry; the counters and totals |
| `WalkerProperties`, `MCWalker` | what a walk promises; trees, command lines and faults for TLC |
| `Sweep` | the abstract specification of a walk as seen from the directories, three actions long |
| `FileNames` | the functions that look at the characters of a path |
| `FileNamesProperties`, `MCFileNames` | a machine that grows all paths and names, and what the others rely on |
| `CommandLine` | the parser and its callbacks, one action per argument or short flag |
| `CommandLineProperties`, `MCCommandLine` | what a command line means as a whole; command lines for TLC |
| `ConvertStreamProofs`, `ConvertStreamOutput`, `ConvertStreamAgain`, `ConvertFileProofs`, `SharedDirectoryProofs`, `WalkerProofs`, `FileNamesProofs`, `CommandLineProofs` | TLAPS proofs, see 4 |

How the modules fit together:

- `CommandLine` ends in what `main` goes on with: an invocation and the sequence of
  files that are the `Invocation` of the other machines and the `Arguments` of `Walker`.
- `Walker` hands each regular file to the conversion in one step, whose results
  are those of `scan_reports`, `pre_conversion_verdict` and `converted` of `Endlines`.
  `ConvertFile` takes the same conversion apart into system calls, for a fixed set of
  files, and uses the same three definitions for what is in the files.
- `ConvertStream` justifies them: `AbstractionIsExact` says that every report of a dry
  scan is in `scan_reports` of the file, and that a conversion or a check that
  reports no error did what `converted` and `report_of` say.
- `SharedDirectory` is `ConvertFile` without metadata and failed system calls, and with what
  `ConvertFile` leaves out: files that are opened, truncated or renamed while another
  process has them open.
- `FileNames` justifies what `Walker` says of names and lengths: that a path is hidden
  when its last name starts with a dot, how long a path is, when a temporary name fits.

Definitions preceded by a comment that starts with *Faulty* are not part of the
model: each is the definition behind it with one plausible mistake, and shows that
a property fails when the code is wrong in that way.

### ConvertStream

`input`, `position`, `ferror` and the `room` and `sink` of `output_stream` are stdio;
all other variables are locals of the C function. `Setup` is
`setup_input_buffered_stream`, `PullFrame` and `PullByte` are `pull_byte` inside
`pull_code_point`, the five actions on `pc = "body"` are the branches of the loop and
`Finish` is what follows it. `err` of the loop is the field `err` of the output
record: the C code guards every push with `err = err || ...`. `Finish` is a single
action because the whole tail of the function runs without looking at the input.
The length of `output_stream.buffer` is `buf_ptr` of the C structure.

Abstracted: `exit` on an unknown layout (no such layout exists), and a stream that
delivers bytes after an end of file (a terminal).

`site` says which of the four callers is at work. Their parameters differ, and
`StdinParameters` has the fields that the C initializer leaves out at zero.

### ConvertFile and SafeReplace

`dir` maps names to inodes or to `Absent`. An inode has the file its text comes from,
whether the text is complete, its kind (which conventions occur, whether there are
control characters, whether it ends with a newline), who wrote it, and its metadata.
Each action is one system call with what the code does of its result: `Stat`
(`walk_filenames` and the test of the extension in `walkers_callback`),
`check_write_access`, `open_to_read`, `check_one_file`, `pre_conversion_check`,
`open_to_write`, `Convert`, `CloseStreams`, `Discard` (the `remove` on the error
paths), `RemoveOriginal`, `RenameTmp`, `RestoreMode`, `RestoreOwner`,
`RestoreTimes`, `Exit`. `Kill` stops a process anywhere. The constant `Faults` says
which calls may fail in a run.

`scan_reports` is the set of reports the dry scan may end with. It holds the exact
report and every report of a proper part of the file that the early exit can
produce. The text of a temporary file becomes complete in `CloseStreams`, not in
`Convert`: until `fclose` the bytes are in the buffers of stdio.

Abstracted: temporary files are not visited by the walker (`SharedDirectory` has that);
a path too long for the temporary name behaves like a failed `fopen`; the user does
nothing to the files meanwhile. Two living processes never have the same
temporary name (`Launch`), since it is made of the pid; two processes one after the
other may. The second then truncates what the first has left, a copy of a file that is
nowhere else if the first could not rename it: `LeftCopyStays` says that nothing but this
destroys such a copy.

`SafeReplace` knows neither temporary files nor errors: a process reads a file, takes
away the file it has read, and puts it back converted; nothing else happens to
files. `ConvertFileProperties` maps `content` to the kinds of the files that are in
their place, `read` to the open input, and `taken` to the file of a process between its
`remove` and its `rename`, or stopped there.

### SharedDirectory

`dir` maps names to inodes, `text` maps inodes to what is in them, and `in` and `out` are the
inodes a process has open, whatever their names are by now. `open_to_write` truncates the
inode that has the temporary name, if there is one, `Convert` reads what its input holds at
that moment and writes a part of it, `CloseStreams` writes the rest, and `RenameTmp` takes
whatever has the temporary name. A temporary file has the name of its process, and
a walk with `--hidden` has all names to visit. With `Careful`, `Launch` starts a process only
if neither it nor a living one has `--hidden`, so that temporary files are met when
their process was killed or aborted, and never while it lives.

Abstracted: a process that is given the pid of an earlier one, since the name of a temporary
file is here the process itself, so that `open_to_write` finds its name free in all careful
walks (`ConvertFile` has the reuse; a walk with `--hidden` that comes to what an earlier
process of its own pid has left, and truncates the file it reads, is in neither); reading and writing are two steps for a whole file; failures other than those of
the read, the renaming and a kill; metadata; known extensions.

### Walker and Sweep

A call of `walk_directory` is a frame of `stack`: the path in its buffer and its length,
the open directory, the links passed on the way, and the entries readdir may still
return. `ReadDir` picks any of them and runs the body of `walk_filenames` on it,
`NextArgument` runs it on an argument, `CloseDir` and `Finish` end a directory and the walk.
The branches of `walk_filenames` are `skip_a_hidden_file`, `found_an_unreadable_file`,
`found_a_directory`, `found_a_file_that_needs_processing` and `ignore`, a special
file that no branch is for. `results` are the outcomes `walkers_callback` may get, each
with the `file_report` it finds; after a failure the report is any of
`Uninitialized`. `seen` is the only variable that is not in the code.

readdir promises nothing about entries that appear while a directory is
read. The fault `relist` lets it return the name of a file that was replaced, and the
name it had as a temporary file, in every directory stream that is open on that
directory, any number of times the file is replaced.

`Sweep` knows neither paths nor orders nor reasons to fail: an entry whose text is to be
converted is replaced by the conversion of the text it led to before the walk, at most
once, or is lost, which ends the sweep. `WalkerProperties` maps `now` to `tree` and `over` to
the end of the walk. The text an entry leads to is that of the beginning, so that a walk
that comes to a file by two links, or is shown it again behind its conversion, must do nothing
the second time. What a sweep must come to is not its affair: that is
`NothingMissed` and `TotalsAreTrue`.

Abstracted: the system calls of a conversion (they are those of `ConvertFile`), names
that are not paths on the command line, hard links, links to links, `.` and `..`
(skipped by the code at once).

### CommandLine

An argument is a number of dashes and names: a word, a long flag, or short
flags, with `=` among them. `status` is `parsing` until an argument ends the process
or `Dispatch`, the end of `main`, is reached.

### FileNames

A name is a sequence of characters without its zero. The backward scans of the
code are `LastIn`. Every state of the machine in `FileNamesProperties` is a directory path
and an entry name, checked as if `walk_directory` had met them.

## 3. Runs

| run | question | bounds |
|---|---|---|
| `ConvertStream_all` | is the output the translation and the report exact, in every caller, with fread and fwrite failing anywhere? do the calls do what the other models suppose? do they return? | all files of up to 3 bytes over {CR, LF, letter, control}, longer ones with a frame end in the middle, UTF-16 files of up to 2 code points in both orders, cut BOMs; `BUFFERSIZE` 3; room for 0, 4 or 100 bytes |
| `ConvertFile_race` | does the file survive another process? is what is returned true? is it replaced as `SafeReplace` says? | two processes, one file of each of 10 kinds, four command lines, all faults but `fclose` |
| `ConvertFile_batch` | temporary files, also when a pid comes again; metadata, liveness | two files, one with a known extension; two processes beside each other, or one after the other with the same pid (`ReuseBounds`); kill, rename and read faults |
| `SharedDirectory_careful` | are texts lost when a walk comes to what others have left? | two processes, two files, three command lines, kill, rename and read faults; symmetric in the two processes |
| `Walker_census` | are the totals those of the tree? | 4 directories, three deep, 12 entries of every kind, 5 arguments, one of them missing; all 48 command lines that ask for LF, CRLF or a check; buffers of 10 characters, so that one hidden name does not fit and all temporary names do |
| `Walker_faults` | does what goes wrong with one entry hide another? is anything changed that should not be, or twice, or into something else, that is, is the walk a `Sweep`? do paths fit? does the walk end? | 3 directories with links that lead back, across and nowhere; stat, the conversion and the renaming may fail at any file, and readdir may list replaced files again; buffers of 8 characters, so that names and temporary names are too long from the third level on; three command lines |
| `CommandLine_all` | does reading in order come to what the line says as a whole? | all lines of up to 3 of 13 arguments |
| `FileNames_all` | do paths fit, and do questions about a path get the answer for its last name? | all paths and names of up to 4 characters out of a letter, a dot and a slash; buffers of 7 |
| `ConvertStream_tail`, `ConvertFile_unclosed`, `SharedDirectory_overlap`, `Walker_links` | disagreements with the documents, see 5 | |

The code needs a buffer of two bytes at least (a UTF-16 code point is pushed in two bytes,
a BOM is looked for in two). Three bytes put a frame border inside a code point of every
UTF-16 file with a BOM, and between the bytes of a pair in the longer one byte files. The code looks back over one code point only (`last_was_13`), so that
files of three code points have every situation the loop can be in, at the start,
in the middle and at the end of a file. Two processes are enough for each to find
any state the other leaves; a third could only repeat one of them. In
`ConvertFile_batch` the constraint `ReuseBounds` lets C, which has the pid of A, start when A
has ended and B was not started; C may have `--binaries`, so that it converts the file with the
known extension after A has lost its hold of the other, and truncates the only copy of that
one. The constraint forbids some launches and command lines and nothing else, and no fairness
asks for a launch, so that the liveness properties are checked on whole behaviours.
In `SharedDirectory` nothing tells the
two processes apart but their names, which makes permuting them sound. Three levels of
directories have one that is neither first nor last. Three arguments are an action, a
file, and an option in any place around them. `UINT_RANGE` is
2^16, so that counts do not wrap; the counters of `Walker` do not wrap at all. Deadlock is not checked,
since all machines stop: calls return and processes exit.

Fairness: `ConvertStream` and `Walker` are single sequential programs that never wait, so
that weak fairness of their next step is no more than that the process runs;
`ConvertFile` assumes it of each process that was launched and is not stopped. Nothing is
assumed of `Launch` and `Kill`, nor of what readdir returns or which calls fail.

`MetaRestored` and `DoneIsConverted` speak of conversions that agree on their command
line: two processes that convert the same file to different conventions can undo
one another's work and meet a file between its renaming and its `chmod`.

## 4. Proofs

All by TLAPS, for every value of the constants: any input, tree, command line, number of
processes and set of faults, any buffer of the sizes the code can have. Every safety
property of the passing runs in 3, and both refinements, are theorems.

Assumptions. Those of the constants are named in the modules that declare them, and TLC
evaluates them. Beside them some theorems assume:

| name | what | why the code needs it |
|---|---|---|
| `Countable` | every input is shorter than `UINT_RANGE` | the counters of the report are `unsigned int`: a file with 2^32 line endings makes them wrap, and a CR that wraps to zero is then taken back |
| `DistinctNames` | no two processes ever have the same temporary name | a later process with the pid of a stopped one truncates the copy that one has left |
| `~ May("close")` | `fclose` of the output does not fail | its result is not looked at; `ConvertFile_unclosed` shows what happens when it fails |
| `~ May("chmod")` and the like | the three calls that restore metadata work | their failure is ignored; only `MetaIsRestored` assumes this |
| `Sheltered` | a walk with `--hidden` is alone (`Careful`), or no command line has it | `SharedDirectory_overlap` shows what happens otherwise |

Only `TotalsAreAlwaysTrue` assumes anything about the tree, the last row here:

| name | what | why the code needs it |
|---|---|---|
| `IsTree`, `Faults = {}`, `IsFiniteSet(Directories)` | no links, no directory that can be opened is in two others or there under two names, none has the working directory in it, no argument given twice, no failed call | a file that is come to twice is counted twice, the second time in the convention it was converted to; a failed conversion is in no convention |

### The stream

`ConvertStreamProofs`. `TypeCorrect`, `BuffersStayInBounds` and `CountsNeverUnderflow`
rest on `StreamInv`. It adds to the types that the output buffer has a free byte unless a
write failed (`InBounds`), that the read pointer is within a non empty frame, that a frame
is never longer than what was read, and that a complete code point was pulled when the body
of the loop runs. A push then keeps `InBounds` by lemmas on `flush_buffer`, `push_byte`,
`push_code_point` and `push_newline`, one from the other. `CountInv` says that the count
of CR plus the bytes in hand never exceed the bytes `Consumed`, so that it cannot wrap.

`ReportAlwaysExact` and `PreCheckAlwaysExact` (`Countable`) rest on `ExactInv`: at every moment
the counters, `contains_non_text_chars`, `last_was_13` and `last_was_newline` are those of the
part of the text that was pulled, an open CR included. A text that is one code point longer
has the line endings of the shorter one, less the CR that becomes a CRLF. `LeftInv` says
why the loop was left: a failed write, the end of the text, or a reason to stop early.

`ConvertStreamOutput`: `OutputAlwaysTranslation` (`Countable`). `SentInv` says that what is in the
sink and in the buffer together are the bytes of the translation of what was pulled, whose
last piece is known from `last_was_13`. The lemmas say what a push sends in each layout.

`ConvertStreamAgain`: `ConvertedAlwaysNeedsNothing` and `AbstractionAlwaysExact` (`Countable`).
The first needs that bytes read back are the text that was written (`TextBack`), which holds
when the layout is still seen: a BOM stays in front, and no conversion puts one there
(`TranslationStarts`). And it needs that a translation has the endings of one convention
(`UnmixedTranslation`). The second adds `ScanInv`: a dry scan stops at the first foreign line
ending or unwanted control character. It is what allows `ConvertFile` and `Walker` to treat a call as a single step.

### Files and walks

`ConvertFileProofs`: `TypeCorrect`, `DataAlwaysSurvives` and `AbsenceIsExplained`; the last
two assume `DistinctNames` and `~ May("close")`.
`DataSurvives` alone is not inductive: `CopyInv` says where the complete copy of each file
is, in its place or under the temporary name of the process that took it away, and that a
process about to remove a file has a complete copy of it under its own temporary name.

`ImplementsSafeReplace`, under the same two assumptions. Beside `CopyInv` it needs
`RefinementInv`: what a process has under its temporary name is the conversion of what it
has read (`MadeOfRead`), and no two processes have taken the same file (`TakenOnce`), so
that a renaming always lands on a free place. `open_to_read` is a `Read`, `RemoveOriginal`
a `Take`, `RenameTmp` a `PutBack`; every other step, each kind of failure and a kill among
them, is a stutter.

`BinariesAlwaysStay`, `UnneededAlwaysStay` and `NotDoneIsNeverTouched`, without any assumption
on names or faults. For the first two, `SparedInv` says of a file that every process has a
reason to spare that it is in its place as it was, and that each process that works on it
will be halted (`Halts`): by the extension, by the dry scan, or by the control characters
when the conversion meets them. A dry scan that stops early can miss a reason of the
second kind but not of the third. The last one rests on `ReturnInv`: who has not renamed yet
has not replaced (`NotYet`), and what is under a temporary name on the way to a renaming was
written by the process itself (`TmpIsMine`).

`TmpNeverLeftOver` and `LeftCopyAlwaysStays`, without any assumption on names, so that a pid
may come again: a temporary file has a process behind it that is between its opening and its
renaming or removal, and the copy that a stopped process has left there is touched by nothing
but the `open_to_write` of a later one. For the second, `TmpTouched` says that only a
process that owns a temporary file, or creates it, changes it, and `TmpIsMine` that the owner
is the one who wrote it, which a stopped process has done and no later one before its `fopen`.

`DoneIsAlwaysConverted` and `MetaIsRestored` speak of agreeing processes and rest on
`ResultInv`, which adds to the invariants above that a file a process has replaced leaves that
process nothing to do (`WrittenAsWanted`). `DoneInv` says that what a dry scan reads is what is in place, or that there is nothing left to do
there; `MetaInv` that a file has its owner, mode and date, or that the process which has replaced it
has yet to restore them (`Owes`), and that what `stat` said was true (`StatIsTrue`): a process that
asked between a renaming and the `chmod` of another finds nothing to do.

`SharedDirectoryProofs`: `TypeCorrect`, and, assuming `Sheltered`, `NoTextIsLost` and
`NoTextIsMistaken`. The hard part is that a walk with `--hidden` meets temporary files.
`NamesInv` says which inode each process has under its temporary name, that nobody reads what
somebody writes (`WrittenApart`), and that what such a walk has in hand was left by a process that
is over (`LeftByTheDead`); `TextsInv` that what is in place is whole, and that a file which is
not is whole under the name of a process about to rename it, or over.

`WalkerProofs`. `TypeCorrect` and `PathsAlwaysFit` by `WalkInv`: a frame is pushed only if its
path, a slash and a zero fit in the buffer, which no later step of the call changes.
`SumsAlwaysAgree`: each step adds as much to the one side as to the other. `AlwaysEligible` and `NothingIsMissed` need to
know where a path leads: `CallInv` says that each running call was asked for and is in the
directory that its path leads to in the original tree, of which there is only one (`OneWay`); `MissInv` that what is not seen is
still among the unread entries of a running call, or the arguments.

`ImplementsSweep`, for any tree, with links that lead anywhere, and any faults. `ChangedInv` says that
whatever has changed in a directory is a file with nothing left to do, as the lemma
`ConvertedIsSettled` says of `converted`. A step that replaces a file therefore replaces one
that is as it was, and what it has read there is what the entry led to in the beginning: a `Convert`, or a
`Lose` when the renaming failed. The end of the walk is a `Stop`, all else a stutter.

`TotalsAreAlwaysTrue` counts: in the end each total is the number of paths in the original
tree that should be in it, for every order of `readdir` and size of the buffer, unless a
temporary name does not fit (`Roomy`). Its
invariant is `CensusInv` beside `Inv`, in three parts. `SightInv`: what was seen was to be come
to, is in the class that the tree puts it in (`ClassOf`), and so was the path in front of it.
`WaitInv`: the unread entries of a running call and the arguments left were not seen yet, or
else the same path might be counted twice. `TotalInv`: each
counter is the number of paths seen in its class. That a step adds one to each needs
that the entry is come to for the first time (`First`), and that its file is still as it was
(`FirstIsOld`), since another path to it would be the same path (`DistinctPaths`, by way of
`WayBack`: a directory knows the one it was come to from). `AllSeen` says that a walk that is done has seen all
there was to come to, name by name from the front, and `Depth` that a path of a tree has
no more names than there are directories. TLC checked `CensusInv` on the tree of `Walker_census`
before it was proved.

### Names and command lines

`FileNamesProofs`: `PathsAlwaysFit`, `HiddenIsAlwaysTheName`, `TmpIsAlwaysNextToIt` and
`ExtensionIsAlwaysTheNames`, for paths and names of any length over any characters, and any
size of the buffers. `LastInIs` and `LastInFinds` say what a backward scan finds;
`LastBehindPrefix` that a scan for a slash, maybe among others, finds in a path what it finds
in its last name, or else the slash before it. The four properties follow from this and
from the lengths.

`CommandLineProofs`: `TypeCorrect`, `FirstReasonAlwaysDecides` and `ReadingIsAlwaysRight`, for
command lines of any length. `TypeOK` alone is not inductive: that the parser never looks
behind the last argument needs that unread short flags belong to one (`TypeInv`). `ReasonInv`
says that the arguments passed so far give no reason to stop (`Passed`), and which letters of
the current one are still to be read (`Pending`). `GivenInv` says that the options in force are those
of the arguments passed and of the letters read, `FilesInv` that the words passed are the
action and the files, each at its place.

### What is only model-checked

The liveness properties, which are out of the prover's reach: `Termination` of
`ConvertStream`, `ConvertFile` and `Walker`, and `AbsentIsTransient`. And the four
disagreements of section 5, which are counterexamples and need no proof.

The library's induction theorems take an operator and cannot be used. Inductions over
sequences and depths (what `FlattenSeq` joins, what a text reads back as, where a
path leads) are made by minimal counterexamples instead: `WFMin` gives the smallest number
of a set (lemma `Smallest`), and the one below it is in order.

## 5. Disagreements between the code and its documents

Each has a run that ends in a counterexample.

1. `ConvertStream_tail`: the odd last byte of a file that starts with a UTF-16 BOM
   is dropped without an error (README: "will be treated well").
2. `ConvertFile_unclosed`: a failing `fclose` of the temporary file is not noticed; a
   truncated file replaces the original with the status DONE (endlines.h: "fully processed
   without any error").
3. `SharedDirectory_overlap`: two walks with `--hidden` and `--final` in one directory. The
   second converts the unfinished temporary file of the first, which then replaces its
   original by it and returns DONE. The rest of the text is lost.
4. `Walker_links`: links are followed, not ignored: one to a file is replaced by a
   converted copy, one to a directory is walked into (walkers.h: "plainly ignored").

Met on the way, and not checked by a run of their own:

- `--final` does nothing when stdin is converted;
- counts wrap at 2^32 line endings, the reported convention may then be wrong;
- `-k` does not keep the access time of files that are read and not rewritten;
- `chown` behind `chmod` takes the set-user-ID bits away;
- the file that a failed renaming says holds the data is truncated by a later process with the
  same pid (`LeftCopyStays` has this as its one exception);
- a file that readdir lists again behind its conversion is counted twice, the second time in
  the convention it was converted to;
- callbacks get an argument without its dashes;
- behind a path prefix `..` counts as hidden (`../..` is skipped), because the exceptions of
  `is_hidden_filename` are looked at without a prefix only;
- `make_filename_in_same_location` asks for one byte more than it needs;
- `.exe` has no extension and `sub/.exe` has one;
- a directory that can not be opened is in no total;
- an error in standard stream mode is neither printed nor returned.

## 6. Not modelled, and the plan

Not modelled: help, version, the wording of messages, the table of extensions, tests and
packaging, which have no state; failures of `malloc`, which end the process before it has
done anything; what the user or another program does to the files meanwhile.

Left to do: totals of a tree with links or failures, which need a definition of what they
should be that no document gives; the two numeric hazards without a property (counts that
wrap at 2^32, the status of a failed standard stream conversion), whose
behaviour is listed in 5.
