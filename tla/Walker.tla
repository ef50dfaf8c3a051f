--------------------------------- MODULE Walker ---------------------------------
(***************************************************************************)
(* walkers.c, and the batch accounting of main.c: how one process walks    *)
(* over its arguments and the directories below them, what it hands to the *)
(* conversion, and what it counts.                                         *)
(*                                                                         *)
(* A call of walk_directory is a frame of the stack; every step of the     *)
(* process is one entry returned by readdir, or one argument.  The         *)
(* conversion of one file is a single step here (ConvertFile has its       *)
(* system calls), and a file is no more than the kinds of things in it.    *)
(***************************************************************************)
EXTENDS Endlines, Sequences

CONSTANTS
  Names,              \* names of directory entries
  TmpName,            \* the name of the temporary files of this process
  strlen,             \* the length of each name
  HiddenNames,        \* the names that start with a dot
  KnownBinaryNames,   \* the names that has_known_binary_file_extension knows
  Directories, Cwd,   \* directories, and the one the process is in
  Tree,               \* what is in each directory before the walk
  Arguments,          \* the files of the command line: names in Cwd
  Commands,           \* the command lines
  Unopenable,         \* directories opendir fails on
  Faults,             \* what else may fail: "stat", "io", "rename"; and "relist"
  MAX_PATH_LENGTH,    \* WALKERS_MAX_PATH_LENGTH
  MAX_LINKS,          \* the links the kernel follows on the way to a file
  Nothing             \* what a name that is not in a directory stands for

Command == [ dst_convention           : Targets,
             binaries                 : BOOLEAN,
             final_char_has_to_be_eol : BOOLEAN,
             recurse                  : BOOLEAN,
             process_hidden           : BOOLEAN ]

\* A link leads to an entry that is not a link.
Entry == [is : {"file"}, kind : Kind] \cup [is : {"directory"}, dir : Directories]
           \cup [is : {"link"}, to : Directories \X Names] \cup [is : {"special"}]

ASSUME NamesAssumption ==
  /\ TmpName \in HiddenNames /\ HiddenNames \subseteq Names /\ KnownBinaryNames \subseteq Names
  /\ strlen \in [Names -> Nat \ {0}]
ASSUME TreeAssumption ==
  /\ Cwd \in Directories /\ Unopenable \subseteq Directories
  /\ Nothing \notin Entry \cup Kind /\ Tree \in [Directories -> [Names -> Entry \cup {Nothing}]]
  /\ Arguments \in Seq(Names)
ASSUME CommandAssumption == Commands \subseteq Command
ASSUME BoundsAssumption  == MAX_PATH_LENGTH \in Nat /\ MAX_LINKS \in Nat
ASSUME FaultsAssumption  == Faults \subseteq {"stat", "io", "rename", "relist"}

VARIABLES
  invocation,
  tree,               \* the directories as they are now
  arguments,          \* those not come to yet
  stack,              \* the calls of walk_directory: the last one is running
  tracker,            \* the counters of Walk_tracker
  outcome_totals, convention_totals,
  seen,               \* each path come to, and what it was or became: not in the code
  status              \* "walking", "done", or "aborted" by a failed renaming

vars == <<invocation, tree, arguments, stack, tracker, outcome_totals, convention_totals,
          seen, status>>
counters == <<tracker, outcome_totals, convention_totals>>

May(fault) == fault \in Faults
Top        == stack[Len(stack)]

\* Faulty: "." and ".." are names like any other.
Listed_dotted(d) == {n \in Names : tree[d][n] # Nothing} \cup {".", ".."}
Listed(d) == {n \in Names : tree[d][n] # Nothing}

Increment(totals, i) == [totals EXCEPT ![i] = @ + 1]
See(at, class) ==
  seen' = seen \cup {[path |-> at.path, length |-> at.length, class |-> class]}

--------------------------------------------------------------------------------
(* An entry on its way: "at" is its path, the length of it, how much of it *)
(* is the directory, the directory and the name, the links met, and the    *)
(* stack it was read with.                                                 *)

argument(n) == [path |-> <<n>>, length |-> strlen[n], prefix |-> 0, dir |-> Cwd, name |-> n,
                links |-> 0, below |-> <<>>]

\* Faulty: a path that fills the buffer leaves no room for its terminating zero.
FitsInBuffer_tightly(length) == length <= MAX_PATH_LENGTH
FitsInBuffer(length) == length < MAX_PATH_LENGTH

\* append_filename_to_base_path counts a slash that may already be there.
entry(n) == [path   |-> Append(Top.path, n),
             length |-> Top.length + 1 + strlen[n],
             prefix |-> Top.length + 1,
             dir    |-> Top.dir, name |-> n, links |-> Top.links,
             below  |-> [stack EXCEPT ![Len(stack)].unread = @ \ {n}]]

IsLink(at) == tree[at.dir][at.name] # Nothing /\ tree[at.dir][at.name].is = "link"
LinksOf(at) == IF IsLink(at) THEN at.links + 1 ELSE at.links

\* stat follows a link; it fails on one that leads nowhere and behind too many.
stat(at) ==
  IF LinksOf(at) > MAX_LINKS THEN Nothing
  ELSE IF IsLink(at) THEN tree[tree[at.dir][at.name].to[1]][tree[at.dir][at.name].to[2]]
  ELSE tree[at.dir][at.name]

\* Faulty: names that start with a dot are like any other.
is_hidden_never(at) == FALSE
is_hidden(at) == at.name \in HiddenNames /\ ~ invocation.process_hidden

skip_a_hidden_file(at) ==
  /\ tracker' = Increment(tracker, "skipped_hidden_files_count")
  /\ See(at, "hidden")
  /\ stack' = at.below
  /\ UNCHANGED <<tree, outcome_totals, convention_totals, status>>

found_an_unreadable_file(at) ==
  /\ tracker' = Increment(tracker, "read_errors_count")
  /\ See(at, "unreadable")
  /\ stack' = at.below
  /\ UNCHANGED <<tree, outcome_totals, convention_totals, status>>

\* Neither a file nor a directory.
ignore(at) ==
  /\ See(at, "special")
  /\ stack' = at.below
  /\ UNCHANGED <<tree, counters, status>>

\* prepare_to_walk_a_directory, which counts nothing when it fails
walk_directory(at, d) ==
  /\ IF FitsInBuffer(at.length + 1) /\ d \notin Unopenable
     THEN /\ stack' = Append(at.below, [path |-> at.path, length |-> at.length, dir |-> d,
                                        links |-> LinksOf(at), unread |-> Listed(d)])
          /\ See(at, "walked")
     ELSE /\ stack' = at.below
          /\ See(at, "unopened")
  /\ UNCHANGED <<tree, counters, status>>

found_a_directory(at, d) ==
  \/ invocation.recurse /\ walk_directory(at, d)
  \/ /\ ~ invocation.recurse
     /\ tracker' = Increment(tracker, "skipped_directories_count")
     /\ See(at, "directory")
     /\ stack' = at.below
     /\ UNCHANGED <<tree, outcome_totals, convention_totals, status>>

--------------------------------------------------------------------------------
(* walkers_callback.                                                        *)

full_report(kind) == report_of(kind.binary, kind.eol, kind.endings)

\* file_report is a local variable that nobody has given a value.
Uninitialized == {report_of(FALSE, FALSE, met) : met \in SUBSET LineEndings}

\* "new" is the file that has replaced the old one.
Result(outcome, reports, new) ==
  [outcome : {outcome}, file_report : reports, new : {new}]
Failure(outcome) == Result(outcome, Uninitialized, Nothing)

check_one_file(kind) ==
  IF IsUnwantedBinary(kind, invocation)
  THEN Failure("SKIPPED_BINARY")
  ELSE Result("DONE", {full_report(kind)}, Nothing)

\* make_filename_in_same_location refuses a temporary name that does not fit.
TmpFits(at) == FitsInBuffer(at.length) /\ FitsInBuffer(at.prefix + strlen[TmpName] + 1)

convert_one_file(at, kind) ==
  UNION {
    LET verdict == pre_conversion_verdict(scan, invocation)
        goes_on == verdict = "CAN_CONTINUE"
        unwanted == IsUnwantedBinary(kind, invocation)
    IN  CASE verdict = "DONE" -> Result("DONE", {scan}, Nothing)
          [] verdict \in {"FILEOP_ERROR", "SKIPPED_BINARY"} -> Failure(verdict)
          [] goes_on /\ ~ TmpFits(at) -> Failure("FILEOP_ERROR")
          [] goes_on /\ TmpFits(at) /\ unwanted -> Failure("SKIPPED_BINARY")
          [] OTHER -> Result("DONE", {full_report(kind)}, converted(kind, invocation))
                        \cup {r \in Failure("aborted") : May("rename")}
    : scan \in scan_reports(kind, invocation) }

results(at, kind) ==
  IF at.name \in KnownBinaryNames /\ ~ invocation.binaries
  THEN Failure("SKIPPED_BINARY")
  ELSE {r \in Failure("FILEOP_ERROR") : May("io")}
         \cup IF invocation.dst_convention = "NO_CONVENTION"
              THEN check_one_file(kind) ELSE convert_one_file(at, kind)

\* Faulty: the report is looked at whatever the outcome.
HasReport_always(outcome) == TRUE
HasReport(outcome) == outcome = "DONE"

\* A file that was converted is a new one, also where a link was.  readdir may then
\* list its name again, and the name the new file had at first.
Rewritten(at, kind) ==
  /\ tree' = [tree EXCEPT ![at.dir][at.name] = [is |-> "file", kind |-> kind]]
  /\ \E again \in [DOMAIN at.below -> IF May("relist") THEN SUBSET {at.name, TmpName} ELSE {{}}] :
       stack' = [i \in DOMAIN at.below |->
                  IF at.below[i].dir = at.dir
                  THEN [at.below[i] EXCEPT !.unread = @ \cup again[i]] ELSE at.below[i]]

found_a_file_that_needs_processing(at, kind) ==
  /\ tracker' = Increment(tracker, "processed_count")
  /\ \E r \in results(at, kind) :
       /\ See(at, r.outcome)
       /\ IF r.outcome = "aborted"
          THEN /\ status' = "aborted" /\ stack' = <<>>
               /\ tree' = [tree EXCEPT ![at.dir][at.name] = Nothing]
               /\ UNCHANGED <<outcome_totals, convention_totals>>
          ELSE /\ outcome_totals' = Increment(outcome_totals, r.outcome)
               /\ convention_totals' =
                    IF HasReport(r.outcome)
                    THEN Increment(convention_totals,
                                   get_source_convention(r.file_report.count_by_convention))
                    ELSE convention_totals
               /\ IF r.new = Nothing THEN UNCHANGED tree /\ stack' = at.below
                  ELSE Rewritten(at, r.new)
               /\ UNCHANGED status

\* The body of the loop of walk_filenames.
walk_filename(at) ==
  \/ is_hidden(at) /\ skip_a_hidden_file(at)
  \/ /\ ~ is_hidden(at)
     /\ \/ (stat(at) = Nothing \/ May("stat")) /\ found_an_unreadable_file(at)
        \/ /\ stat(at) # Nothing
           /\ \/ stat(at).is = "directory" /\ found_a_directory(at, stat(at).dir)
              \/ stat(at).is = "file" /\ found_a_file_that_needs_processing(at, stat(at).kind)
              \/ stat(at).is = "special" /\ ignore(at)

--------------------------------------------------------------------------------
NextArgument ==
  /\ status = "walking" /\ stack = <<>> /\ arguments # <<>>
  /\ arguments' = Tail(arguments)
  /\ walk_filename(argument(Head(arguments)))
  /\ UNCHANGED invocation

\* Faulty: a name that is too long ends the directory.
AfterTooLong_break(at) == Append(SubSeq(stack, 1, Len(stack) - 1), [Top EXCEPT !.unread = {}])
\* Faulty: the loop goes on without reading the next entry.
AfterTooLong_again(at) == stack
AfterTooLong(at) == at.below

\* One round of the loop of walk_directory.
ReadDir ==
  /\ status = "walking" /\ stack # <<>>
  /\ \E n \in Top.unread :
       \/ FitsInBuffer(entry(n).length) /\ walk_filename(entry(n))
       \/ /\ ~ FitsInBuffer(entry(n).length)
          /\ See(entry(n), "too long")
          /\ stack' = AfterTooLong(entry(n))
          /\ UNCHANGED <<tree, counters, status>>
  /\ UNCHANGED <<invocation, arguments>>

CloseDir ==
  /\ status = "walking" /\ stack # <<>> /\ Top.unread = {}
  /\ stack' = SubSeq(stack, 1, Len(stack) - 1)
  /\ UNCHANGED <<invocation, tree, arguments, counters, seen, status>>

Finish ==
  /\ status = "walking" /\ stack = <<>> /\ arguments = <<>>
  /\ status' = "done"
  /\ UNCHANGED <<invocation, tree, arguments, stack, counters, seen>>

\* The totals convert_files prints.
totals ==
  [ count_by_convention |-> convention_totals,
    done        |-> outcome_totals["DONE"],
    directories |-> tracker["skipped_directories_count"],
    binaries    |-> outcome_totals["SKIPPED_BINARY"],
    hidden      |-> tracker["skipped_hidden_files_count"],
    errors      |-> outcome_totals["FILEOP_ERROR"] + tracker["read_errors_count"] ]

Counters == {"processed_count", "skipped_directories_count", "skipped_hidden_files_count",
             "read_errors_count"}

Init ==
  /\ invocation \in Commands
  /\ tree = Tree
  /\ arguments = Arguments
  /\ stack = <<>>
  /\ tracker = [c \in Counters |-> 0]
  /\ outcome_totals = [s \in FileOp_Status |-> 0]
  /\ convention_totals = [c \in Conventions |-> 0]
  /\ seen = {}
  /\ status = "walking"

Next == NextArgument \/ ReadDir \/ CloseDir \/ Finish

Spec == Init /\ [][Next]_vars /\ WF_vars(Next)
================================================================================
