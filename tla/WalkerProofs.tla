------------------------------ MODULE WalkerProofs ------------------------------
(***************************************************************************)
(* Proofs about Walker, for any tree, arguments, command lines, faults and *)
(* size of the path buffer: that no path has outgrown its buffer, that the *)
(* sums agree, which files a walk comes to, replaces and leaves alone,     *)
(* that it is a sweep (Sweep), and that the totals it prints are true.     *)
(***************************************************************************)
EXTENDS WalkerProperties, SequenceTheorems, FiniteSetTheorems, WellFoundedInduction, TLAPS

Classes == FileOp_Status \cup {"hidden", "unreadable", "special", "walked", "unopened",
                               "directory", "too long", "aborted"}

\* A running call of walk_directory whose path leaves room for a slash and a zero.
Fitting == {f \in Frame : f.length + 1 < MAX_PATH_LENGTH}
Fits(s) == s.length < MAX_PATH_LENGTH \/ Len(s.path) = 1 \/ s.class = "too long"

\* What a step keeps, by the variables it is about.
TreeType   == tree \in [Directories -> [Names -> Entry \cup {Nothing}]]
StackType  == stack \in Seq(Fitting)
CountsType == /\ tracker \in [Counters -> Nat]
              /\ outcome_totals \in [FileOp_Status -> Nat]
              /\ convention_totals \in [Conventions -> Nat]
SeenType   == seen \subseteq Sight /\ \A s \in seen : Fits(s)
StatusType == status \in {"walking", "done", "aborted"}
Given      == invocation \in Command /\ arguments \in Seq(Names)
Moving     == TreeType /\ StackType /\ CountsType /\ SeenType /\ StatusType
WalkInv    == Given /\ Moving

\* An entry on its way from the command line, or from the call that has read it.
Coming(at) ==
  /\ at.path \in Seq(Names) /\ at.length \in Nat /\ at.dir \in Directories
  /\ at.links \in Nat /\ at.name \in Names /\ at.below \in Seq(Fitting)
OnItsWay(at) == Coming(at) /\ (at.length < MAX_PATH_LENGTH \/ Len(at.path) = 1)

LEMMA Counting ==
  ASSUME NEW S, NEW counts \in [S -> Nat], NEW i \in S
  PROVE  Increment(counts, i) \in [S -> Nat]
  BY DEF Increment

LEMMA Seeing ==
  ASSUME NEW at, NEW class \in Classes, Coming(at), SeenType, See(at, class),
         at.length < MAX_PATH_LENGTH \/ Len(at.path) = 1 \/ class = "too long"
  PROVE  SeenType'
  <1> DEFINE s == [path |-> at.path, length |-> at.length, class |-> class]
  <1>1. s \in Sight
    BY DEF Sight, Coming, Classes
  <1>2. Fits(s)
    BY DEF Fits
  <1>3. seen' = seen \cup {s}
    BY DEF See
  <1> HIDE DEF s
  <1> QED
    BY <1>1, <1>2, <1>3 DEF SeenType

LEMMA StatType ==
  ASSUME NEW at, Coming(at), TreeType, stat(at) # Nothing
  PROVE  /\ stat(at) \in Entry
         /\ LinksOf(at) \in Nat
  <1>1. tree[at.dir][at.name] \in Entry \cup {Nothing}
    BY DEF Coming, TreeType
  <1>2. LinksOf(at) \in Nat
    BY DEF LinksOf, Coming
  <1>3. CASE IsLink(at)
    <2>1. tree[at.dir][at.name].to \in Directories \X Names
      BY <1>1, <1>3 DEF IsLink, Entry
    <2>2. tree[tree[at.dir][at.name].to[1]][tree[at.dir][at.name].to[2]] \in Entry \cup {Nothing}
      BY <2>1 DEF TreeType
    <2> QED
      BY <1>2, <1>3, <2>2 DEF stat
  <1>4. CASE ~ IsLink(at)
    BY <1>1, <1>2, <1>4 DEF stat
  <1> QED
    BY <1>3, <1>4

\* Whatever an entry is, what is not converted changes no tree and leaves all buffers alone.
LEMMA Skipping ==
  ASSUME NEW at, OnItsWay(at), Moving,
         \/ skip_a_hidden_file(at) \/ found_an_unreadable_file(at) \/ ignore(at)
  PROVE  Moving'
  <1> USE DEF Moving
  <1>1. {"hidden", "unreadable", "special"} \subseteq Classes
    BY DEF Classes
  <1>2. \E class \in {"hidden", "unreadable", "special"} : See(at, class)
    BY DEF skip_a_hidden_file, found_an_unreadable_file, ignore
  <1>3. SeenType'
    BY <1>1, <1>2, Seeing DEF OnItsWay
  <1>4. /\ tree' = tree /\ status' = status /\ stack' = at.below
        /\ outcome_totals' = outcome_totals /\ convention_totals' = convention_totals
    BY DEF skip_a_hidden_file, found_an_unreadable_file, ignore, counters
  <1>5. \/ tracker' = tracker
        \/ \E c \in Counters : tracker' = Increment(tracker, c)
    BY DEF skip_a_hidden_file, found_an_unreadable_file, ignore, counters, Counters
  <1>6. tracker' \in [Counters -> Nat]
    BY <1>5, Counting DEF CountsType
  <1> QED
    BY <1>3, <1>4, <1>6 DEF TreeType, StackType, CountsType, StatusType, OnItsWay, Coming

LEMMA Entering ==
  ASSUME NEW at, OnItsWay(at), Moving, NEW d \in Directories, LinksOf(at) \in Nat,
         found_a_directory(at, d)
  PROVE  Moving'
  <1> USE DEF Moving
  <1>1. CASE walk_directory(at, d)
    <2> DEFINE frame == [path |-> at.path, length |-> at.length, dir |-> d,
                         links |-> LinksOf(at), unread |-> Listed(d)]
    <2>1. tree' = tree /\ status' = status /\ UNCHANGED counters
      BY <1>1 DEF walk_directory
    <2>2. \E class \in {"walked", "unopened"} : See(at, class)
      BY <1>1 DEF walk_directory
    <2>3. SeenType'
      BY <2>2, Seeing DEF OnItsWay, Classes
    <2>4. Listed(d) \subseteq Names
      BY DEF Listed
    <2>5. frame \in Frame
      BY <2>4 DEF Frame, OnItsWay, Coming
    <2>6. stack' = at.below \/ (at.length + 1 < MAX_PATH_LENGTH /\ stack' = Append(at.below, frame))
      BY <1>1 DEF walk_directory, FitsInBuffer
    <2>7. frame.length = at.length
      OBVIOUS
    <2> HIDE DEF frame
    <2>8. stack' \in Seq(Fitting)
      <3>1. CASE stack' = at.below
        BY <3>1 DEF OnItsWay, Coming
      <3>2. CASE at.length + 1 < MAX_PATH_LENGTH /\ stack' = Append(at.below, frame)
        <4>1. frame \in Fitting
          BY <2>5, <2>7, <3>2 DEF Fitting
        <4> QED
          BY <3>2, <4>1, AppendProperties DEF OnItsWay, Coming
      <3> QED
        BY <2>6, <3>1, <3>2
    <2> QED
      BY <2>1, <2>3, <2>8 DEF TreeType, StackType, CountsType, StatusType, counters
  <1>2. CASE ~ walk_directory(at, d)
    <2>1. /\ tracker' = Increment(tracker, "skipped_directories_count") /\ See(at, "directory")
          /\ stack' = at.below
          /\ UNCHANGED <<tree, outcome_totals, convention_totals, status>>
      BY <1>2 DEF found_a_directory
    <2>2. "directory" \in Classes /\ "skipped_directories_count" \in Counters
      BY DEF Classes, Counters
    <2>3. SeenType'
      BY <2>1, <2>2, Seeing DEF OnItsWay
    <2>4. tracker' \in [Counters -> Nat]
      BY <2>1, <2>2, Counting DEF CountsType
    <2> QED
      BY <2>1, <2>3, <2>4 DEF TreeType, StackType, CountsType, StatusType, OnItsWay, Coming
  <1> QED
    BY <1>1, <1>2

--------------------------------------------------------------------------------
(* A file that needs processing.                                            *)

LEMMA ConvertedIsKind ==
  ASSUME NEW kind \in Kind, invocation \in Command, invocation.dst_convention # "NO_CONVENTION"
  PROVE  converted(kind, invocation) \in Kind
  BY DEF converted, Kind, Command, Targets, LineEndings

\* A result is final, or tells of an abortion, and a new file is one.
Outcomes == {"DONE", "SKIPPED_BINARY", "FILEOP_ERROR"}
GoodResult(r) == r.outcome \in Outcomes \cup {"aborted"} /\ r.new \in Kind \cup {Nothing}

LEMMA FailureIsGood ==
  ASSUME NEW outcome \in Outcomes \cup {"aborted"}, NEW r \in Failure(outcome)
  PROVE  GoodResult(r)
  BY DEF Failure, Result, GoodResult

LEMMA ConversionIsGood ==
  ASSUME NEW at, NEW kind \in Kind, invocation \in Command,
         invocation.dst_convention # "NO_CONVENTION", NEW r \in convert_one_file(at, kind)
  PROVE  GoodResult(r)
  <1>1. PICK scan \in scan_reports(kind, invocation) :
          LET verdict == pre_conversion_verdict(scan, invocation)
          IN  \/ r \in Result("DONE", {scan}, Nothing)
              \/ verdict \in {"FILEOP_ERROR", "SKIPPED_BINARY"} /\ r \in Failure(verdict)
              \/ r \in Failure("FILEOP_ERROR") \/ r \in Failure("SKIPPED_BINARY")
              \/ r \in Result("DONE", {full_report(kind)}, converted(kind, invocation))
              \/ r \in Failure("aborted")
    BY DEF convert_one_file
  <1>2. CASE r \in Result("DONE", {scan}, Nothing)
    BY <1>2 DEF Result, GoodResult, Outcomes
  <1>3. CASE r \in Result("DONE", {full_report(kind)}, converted(kind, invocation))
    BY <1>3, ConvertedIsKind DEF Result, GoodResult, Outcomes
  <1>4. CASE \E outcome \in Outcomes \cup {"aborted"} : r \in Failure(outcome)
    BY <1>4, FailureIsGood
  <1> QED
    BY <1>1, <1>2, <1>3, <1>4 DEF Outcomes

LEMMA ResultsAreGood ==
  ASSUME NEW at, NEW kind \in Kind, invocation \in Command, NEW r \in results(at, kind)
  PROVE  GoodResult(r)
  <1>1. CASE invocation.dst_convention # "NO_CONVENTION" /\ r \in convert_one_file(at, kind)
    BY <1>1, ConversionIsGood
  <1>2. CASE r \in check_one_file(kind)
    BY <1>2, FailureIsGood DEF check_one_file, Result, GoodResult, Outcomes
  <1>3. CASE r \in Failure("SKIPPED_BINARY") \/ r \in Failure("FILEOP_ERROR")
    BY <1>3, FailureIsGood DEF Outcomes
  <1> QED
    BY <1>1, <1>2, <1>3 DEF results

LEMMA Rewriting ==
  ASSUME NEW at, NEW kind \in Kind, Coming(at), TreeType, Rewritten(at, kind)
  PROVE  TreeType' /\ StackType'
  <1> DEFINE new == [is |-> "file", kind |-> kind]
  <1>1. new \in Entry
    BY DEF Entry
  <1>2. tree' = [tree EXCEPT ![at.dir][at.name] = new]
    BY DEF Rewritten
  <1> HIDE DEF new
  <1>3. TreeType'
    BY <1>1, <1>2 DEF TreeType, Coming
  <1>4. PICK again \in [DOMAIN at.below -> SUBSET {at.name, TmpName}] :
          stack' = [i \in DOMAIN at.below |->
                     IF at.below[i].dir = at.dir
                     THEN [at.below[i] EXCEPT !.unread = @ \cup again[i]] ELSE at.below[i]]
    BY DEF Rewritten
  <1>5. TmpName \in Names
    BY NamesAssumption
  <1>6. ASSUME NEW i \in DOMAIN at.below PROVE stack'[i] \in Fitting
    <2>1. at.below[i] \in Fitting /\ at.below[i] \in Frame
      BY ElementOfSeq DEF Coming, Fitting
    <2> DEFINE longer == [at.below[i] EXCEPT !.unread = @ \cup again[i]]
    <2>2. longer \in Frame /\ longer.length = at.below[i].length
      BY <1>5, <2>1 DEF Frame, Coming
    <2>3. stack'[i] = longer \/ stack'[i] = at.below[i]
      BY <1>4
    <2> HIDE DEF longer
    <2> QED
      BY <2>1, <2>2, <2>3 DEF Fitting
  <1>7. stack' \in Seq(Fitting)
    <2>1. DOMAIN stack' = 1..Len(at.below) /\ Len(at.below) \in Nat
      BY <1>4, LenProperties DEF Coming
    <2>2. stack' \in [1..Len(at.below) -> Fitting]
      BY <1>4, <1>6, <2>1
    <2> QED
      BY <2>1, <2>2
  <1> QED
    BY <1>3, <1>7 DEF StackType

LEMMA SourceConventionType ==
  ASSUME NEW counts
  PROVE  get_source_convention(counts) \in Conventions
  BY DEF get_source_convention, Conventions

LEMMA Processing ==
  ASSUME NEW at, OnItsWay(at), Moving, invocation \in Command, NEW kind \in Kind,
         found_a_file_that_needs_processing(at, kind)
  PROVE  Moving'
  <1> USE DEF Moving
  <1>1. tracker' = Increment(tracker, "processed_count") /\ "processed_count" \in Counters
    BY DEF found_a_file_that_needs_processing, Counters
  <1>2. tracker' \in [Counters -> Nat]
    BY <1>1, Counting DEF CountsType
  <1>3. PICK r \in results(at, kind) :
          /\ See(at, r.outcome)
          /\ IF r.outcome = "aborted"
             THEN /\ status' = "aborted" /\ stack' = <<>>
                  /\ tree' = [tree EXCEPT ![at.dir][at.name] = Nothing]
                  /\ UNCHANGED <<outcome_totals, convention_totals>>
             ELSE /\ outcome_totals' = Increment(outcome_totals, r.outcome)
                  /\ \/ convention_totals' =
                          Increment(convention_totals,
                                    get_source_convention(r.file_report.count_by_convention))
                     \/ convention_totals' = convention_totals
                  /\ \/ tree' = tree /\ stack' = at.below
                     \/ r.new # Nothing /\ Rewritten(at, r.new)
                  /\ status' = status
    BY DEF found_a_file_that_needs_processing
  <1>4. GoodResult(r)
    BY ResultsAreGood
  <1>5. SeenType'
    BY <1>3, <1>4, Seeing DEF OnItsWay, GoodResult, Outcomes, Classes, FileOp_Status
  <1>6. CASE r.outcome = "aborted"
    <2>1. stack' \in Seq(Fitting)
      BY <1>3, <1>6, EmptySeq
    <2>2. TreeType'
      BY <1>3, <1>6 DEF TreeType, OnItsWay, Coming
    <2> QED
      BY <1>2, <1>3, <1>5, <1>6, <2>1, <2>2 DEF StackType, CountsType, StatusType
  <1>7. CASE r.outcome # "aborted"
    <2>0. r.outcome \in FileOp_Status
      BY <1>4, <1>7 DEF GoodResult, Outcomes, FileOp_Status
    <2>1. outcome_totals' \in [FileOp_Status -> Nat]
      BY <1>3, <1>7, <2>0, Counting DEF CountsType
    <2>2. convention_totals' \in [Conventions -> Nat]
      BY <1>3, <1>7, Counting, SourceConventionType DEF CountsType
    <2>3. TreeType' /\ StackType'
      <3>1. CASE tree' = tree /\ stack' = at.below
        BY <3>1 DEF TreeType, StackType, OnItsWay, Coming
      <3>2. CASE r.new # Nothing /\ Rewritten(at, r.new)
        BY <1>4, <3>2, Rewriting DEF GoodResult, OnItsWay
      <3> QED
        BY <1>3, <1>7, <3>1, <3>2
    <2> QED
      BY <1>2, <1>3, <1>5, <1>7, <2>1, <2>2, <2>3 DEF CountsType, StatusType
  <1> QED
    BY <1>6, <1>7

--------------------------------------------------------------------------------
(* The walk.                                                                *)

LEMMA Walking ==
  ASSUME NEW at, OnItsWay(at), Moving, invocation \in Command, walk_filename(at)
  PROVE  Moving'
  <1>1. CASE skip_a_hidden_file(at) \/ found_an_unreadable_file(at) \/ ignore(at)
    BY <1>1, Skipping
  <1>2. CASE stat(at) # Nothing /\ ~ (skip_a_hidden_file(at) \/ found_an_unreadable_file(at) \/ ignore(at))
    <2>1. stat(at) \in Entry /\ LinksOf(at) \in Nat
      BY <1>2, StatType DEF OnItsWay, Moving
    <2>2. CASE stat(at).is = "directory" /\ found_a_directory(at, stat(at).dir)
      <3>1. stat(at).dir \in Directories
        BY <2>1, <2>2 DEF Entry
      <3> QED
        BY <2>1, <2>2, <3>1, Entering
    <2>3. CASE stat(at).is = "file" /\ found_a_file_that_needs_processing(at, stat(at).kind)
      <3>1. stat(at).kind \in Kind
        BY <2>1, <2>3 DEF Entry
      <3> QED
        BY <2>3, <3>1, Processing
    <2> QED
      BY <1>2, <2>2, <2>3 DEF walk_filename
  <1> QED
    BY <1>1, <1>2 DEF walk_filename

LEMMA ArgumentComes ==
  ASSUME NEW n \in Names
  PROVE  OnItsWay(argument(n))
  <1>1. strlen[n] \in Nat /\ Cwd \in Directories
    BY NamesAssumption, TreeAssumption
  <1>2. <<n>> \in Seq(Names) /\ Len(<<n>>) = 1
    OBVIOUS
  <1>3. <<>> \in Seq(Fitting)
    BY EmptySeq
  <1> QED
    BY <1>1, <1>2, <1>3 DEF argument, OnItsWay, Coming

\* The call that reads an entry loses only the entry.
LEMMA EntryComes ==
  ASSUME StackType, stack # <<>>, NEW n \in Top.unread
  PROVE  Coming(entry(n))
  <1>1. Len(stack) \in 1..Len(stack) /\ DOMAIN stack = 1..Len(stack) /\ Len(stack) \in Nat
    BY EmptySeq, LenProperties DEF StackType
  <1>2. Top \in Fitting /\ Top \in Frame
    BY <1>1, ElementOfSeq DEF StackType, Top, Fitting
  <1>3. n \in Names /\ strlen[n] \in Nat /\ Top.length \in Nat
    BY <1>2, NamesAssumption DEF Frame
  <1> DEFINE shorter == [Top EXCEPT !.unread = @ \ {n}]
  <1>4. shorter \in Frame /\ shorter.length = Top.length
    BY <1>2 DEF Frame
  <1>5. [stack EXCEPT ![Len(stack)].unread = @ \ {n}] = [stack EXCEPT ![Len(stack)] = shorter]
    BY DEF Top
  <1> HIDE DEF shorter
  <1>6. [stack EXCEPT ![Len(stack)] = shorter] \in Seq(Fitting)
    <2>1. shorter \in Fitting
      BY <1>2, <1>4 DEF Fitting
    <2> QED
      BY <1>1, <2>1, ExceptSeq DEF StackType
  <1>7. Append(Top.path, n) \in Seq(Names)
    BY <1>2, <1>3, AppendProperties DEF Frame
  <1>8. Top.dir \in Directories /\ Top.links \in Nat /\ Top.length + 1 + strlen[n] \in Nat
    BY <1>2, <1>3 DEF Frame
  <1>9. /\ entry(n).path = Append(Top.path, n) /\ entry(n).length = Top.length + 1 + strlen[n]
        /\ entry(n).dir = Top.dir /\ entry(n).links = Top.links /\ entry(n).name = n
        /\ entry(n).below = [stack EXCEPT ![Len(stack)].unread = @ \ {n}]
    BY Zenon DEF entry
  <1> HIDE DEF Top
  <1> QED
    BY <1>3, <1>5, <1>6, <1>7, <1>8, <1>9 DEF Coming

LEMMA WalkInit == Init => WalkInv
  <1> SUFFICES ASSUME Init PROVE WalkInv
    OBVIOUS
  <1>1. Given
    BY CommandAssumption, TreeAssumption DEF Init, Given
  <1>2. TreeType /\ StackType /\ SeenType /\ StatusType
    BY TreeAssumption, EmptySeq DEF Init, TreeType, StackType, SeenType, StatusType
  <1>3. CountsType
    BY DEF Init, CountsType
  <1> QED
    BY <1>1, <1>2, <1>3 DEF WalkInv, Moving

LEMMA WalkNext == WalkInv /\ [Next]_vars => WalkInv'
  <1> SUFFICES ASSUME WalkInv, [Next]_vars PROVE WalkInv'
    OBVIOUS
  <1> USE DEF WalkInv
  <1>1. CASE UNCHANGED vars
    BY <1>1 DEF vars, Given, Moving, TreeType, StackType, CountsType, SeenType, StatusType
  <1>2. CASE NextArgument
    <2>1. Head(arguments) \in Names /\ arguments' \in Seq(Names) /\ invocation' = invocation
      BY <1>2, HeadTailProperties DEF NextArgument, Given
    <2>2. Moving'
      BY <1>2, <2>1, ArgumentComes, Walking DEF NextArgument, Given
    <2> QED
      BY <2>1, <2>2 DEF Given
  <1>3. CASE ReadDir
    <2>1. Given'
      BY <1>3 DEF ReadDir, Given
    <2> PICK n \in Top.unread :
          \/ FitsInBuffer(entry(n).length) /\ walk_filename(entry(n))
          \/ /\ See(entry(n), "too long") /\ stack' = AfterTooLong(entry(n))
             /\ UNCHANGED <<tree, counters, status>>
      BY <1>3 DEF ReadDir
    <2>2. Coming(entry(n))
      BY <1>3, EntryComes DEF ReadDir, Moving
    <2>3. CASE FitsInBuffer(entry(n).length) /\ walk_filename(entry(n))
      <3>1. OnItsWay(entry(n))
        BY <2>2, <2>3 DEF OnItsWay, FitsInBuffer
      <3>2. Moving'
        BY <2>3, <3>1, Walking DEF Given
      <3> QED
        BY <2>1, <3>2
    <2>4. CASE /\ See(entry(n), "too long") /\ stack' = AfterTooLong(entry(n))
               /\ UNCHANGED <<tree, counters, status>>
      <3>1. SeenType'
        BY <2>2, <2>4, Seeing DEF Classes, Moving
      <3>2. StackType'
        BY <2>2, <2>4 DEF StackType, AfterTooLong, Coming
      <3> QED
        BY <2>1, <2>4, <3>1, <3>2 DEF Moving, TreeType, CountsType, StatusType, counters
    <2> QED
      BY <2>3, <2>4
  <1>4. CASE CloseDir
    <2>1. SubSeq(stack, 1, Len(stack) - 1) \in Seq(Fitting)
      <3>1. Len(stack) \in Nat /\ Len(stack) # 0
        BY <1>4, EmptySeq, LenProperties DEF CloseDir, Moving, StackType
      <3>2. \A i \in 1..(Len(stack) - 1) : stack[i] \in Fitting
        BY <3>1, ElementOfSeq DEF Moving, StackType
      <3> QED
        BY <3>1, <3>2, SubSeqProperties DEF Moving, StackType
    <2> QED
      BY <1>4, <2>1 DEF CloseDir, Given, Moving, TreeType, StackType, CountsType, SeenType,
                        StatusType, counters
  <1>5. CASE Finish
    BY <1>5 DEF Finish, Given, Moving, TreeType, StackType, CountsType, SeenType, StatusType,
                counters
  <1> QED
    BY <1>1, <1>2, <1>3, <1>4, <1>5 DEF Next

\* The variables of Walker keep their types, whatever is in the directories.
THEOREM TypeCorrect == Spec => []TypeOK
  <1>1. ASSUME WalkInv PROVE TypeOK
    <2>1. stack \in Seq(Frame)
      BY <1>1, SeqMonotonic DEF WalkInv, Moving, StackType, Fitting
    <2> QED
      BY <1>1, <2>1 DEF WalkInv, Given, Moving, TreeType, CountsType, SeenType, StatusType, TypeOK
  <1> QED
    BY <1>1, WalkInit, WalkNext, PTL DEF Spec

\* Whatever the tree, the names and the depth: what a call of walk_directory or the
\* conversion gets fits into the buffer with its terminating zero.
THEOREM PathsAlwaysFit == Spec => []PathsFit
  <1>1. ASSUME WalkInv PROVE PathsFit
    <2>1. \A i \in DOMAIN stack : stack[i] \in Fitting
      BY <1>1, ElementOfSeq, LenProperties DEF WalkInv, Moving, StackType
    <2> QED
      BY <1>1, <2>1 DEF WalkInv, Moving, SeenType, Fits, Fitting, PathsFit
  <1> QED
    BY <1>1, WalkInit, WalkNext, PTL DEF Spec

--------------------------------------------------------------------------------
(* What is counted.                                                         *)

LEMMA Uncounted ==
  ASSUME SumsAgree, CountsType, UNCHANGED <<outcome_totals, convention_totals, status>>,
         \/ tracker' = tracker
         \/ \E c \in Counters \ {"processed_count"} : tracker' = Increment(tracker, c)
  PROVE  SumsAgree'
  <1>1. tracker'["processed_count"] = tracker["processed_count"]
    BY DEF Increment, CountsType, Counters
  <1> QED
    BY <1>1 DEF SumsAgree

\* A file counts once among those that were processed, once by its outcome, and when that
\* is DONE once by its convention.
LEMMA Counted ==
  ASSUME SumsAgree, CountsType, status = "walking", NEW at, NEW kind \in Kind,
         invocation \in Command, found_a_file_that_needs_processing(at, kind)
  PROVE  SumsAgree'
  <1>1. tracker'["processed_count"] = tracker["processed_count"] + 1
    BY DEF found_a_file_that_needs_processing, Increment, CountsType, Counters
  <1>2. PICK r \in results(at, kind) :
          IF r.outcome = "aborted" THEN status' = "aborted"
          ELSE /\ outcome_totals' = Increment(outcome_totals, r.outcome)
               /\ convention_totals' =
                    IF HasReport(r.outcome)
                    THEN Increment(convention_totals,
                                   get_source_convention(r.file_report.count_by_convention))
                    ELSE convention_totals
               /\ status' = status
    BY DEF found_a_file_that_needs_processing
  <1>3. CASE r.outcome = "aborted"
    BY <1>2, <1>3 DEF SumsAgree
  <1>4. CASE r.outcome = "DONE"
    <2> DEFINE c == get_source_convention(r.file_report.count_by_convention)
    <2>1. c \in {"CR", "LF", "CRLF", "NO_CONVENTION", "MIXED"}
      BY SourceConventionType DEF Conventions, LineEndings
    <2>2. convention_totals' = Increment(convention_totals, c)
      BY <1>2, <1>4 DEF HasReport
    <2> HIDE DEF c
    <2> DEFINE sum(t) == t["CR"] + t["LF"] + t["CRLF"] + t["MIXED"] + t["NO_CONVENTION"]
    <2>3. sum(convention_totals') = sum(convention_totals) + 1
      BY <2>1, <2>2 DEF Increment, CountsType, Conventions, LineEndings
    <2>4. /\ outcome_totals'["DONE"] = outcome_totals["DONE"] + 1
          /\ outcome_totals'["SKIPPED_BINARY"] = outcome_totals["SKIPPED_BINARY"]
          /\ outcome_totals'["FILEOP_ERROR"] = outcome_totals["FILEOP_ERROR"]
      BY <1>2, <1>4 DEF Increment, CountsType, FileOp_Status
    <2>5. /\ outcome_totals["DONE"] \in Nat /\ outcome_totals["SKIPPED_BINARY"] \in Nat
          /\ outcome_totals["FILEOP_ERROR"] \in Nat
      BY DEF CountsType, FileOp_Status
    <2> QED
      BY <1>1, <2>3, <2>4, <2>5 DEF SumsAgree
  <1>5. CASE r.outcome \in {"SKIPPED_BINARY", "FILEOP_ERROR"}
    <2>1. convention_totals' = convention_totals /\ outcome_totals'["DONE"] = outcome_totals["DONE"]
      BY <1>2, <1>5 DEF HasReport, Increment, CountsType, FileOp_Status
    <2>2. outcome_totals'["SKIPPED_BINARY"] + outcome_totals'["FILEOP_ERROR"]
            = outcome_totals["SKIPPED_BINARY"] + outcome_totals["FILEOP_ERROR"] + 1
      BY <1>2, <1>5 DEF Increment, CountsType, FileOp_Status
    <2>3. /\ outcome_totals'["DONE"] \in Nat /\ outcome_totals'["SKIPPED_BINARY"] \in Nat
          /\ outcome_totals'["FILEOP_ERROR"] \in Nat
          /\ outcome_totals["SKIPPED_BINARY"] \in Nat /\ outcome_totals["FILEOP_ERROR"] \in Nat
      BY <1>2, <1>5 DEF Increment, CountsType, FileOp_Status
    <2> QED
      BY <1>1, <2>1, <2>2, <2>3 DEF SumsAgree
  <1>6. r.outcome \in Outcomes \cup {"aborted"}
    BY ResultsAreGood DEF GoodResult
  <1> QED
    BY <1>3, <1>4, <1>5, <1>6 DEF Outcomes

LEMMA SumsStay ==
  ASSUME SumsAgree, CountsType, TreeType, status = "walking", NEW at, Coming(at),
         invocation \in Command, walk_filename(at)
  PROVE  SumsAgree'
  <1> {"skipped_hidden_files_count", "read_errors_count", "skipped_directories_count"}
        \subseteq Counters \ {"processed_count"}
    BY DEF Counters
  <1>1. CASE skip_a_hidden_file(at) \/ found_an_unreadable_file(at) \/ ignore(at)
    BY <1>1, Uncounted DEF skip_a_hidden_file, found_an_unreadable_file, ignore, counters
  <1>2. CASE stat(at) # Nothing /\ stat(at).is = "directory" /\ found_a_directory(at, stat(at).dir)
    BY <1>2, Uncounted DEF found_a_directory, walk_directory, counters
  <1>3. CASE /\ stat(at) # Nothing /\ stat(at).is = "file"
             /\ found_a_file_that_needs_processing(at, stat(at).kind)
    <2>1. stat(at).kind \in Kind
      BY <1>3, StatType DEF Entry
    <2> QED
      BY <1>3, <2>1, Counted
  <1> QED
    BY <1>1, <1>2, <1>3 DEF walk_filename

\* What a step of the process does, entry by entry.
LEMMA Steps ==
  ASSUME WalkInv, Next
  PROVE  /\ invocation' = invocation /\ status = "walking"
         /\ \/ \E n \in Names : /\ stack = <<>> /\ arguments # <<>> /\ n = Head(arguments)
                                /\ arguments' = Tail(arguments)
                                /\ OnItsWay(argument(n)) /\ walk_filename(argument(n))
            \/ \E n \in Top.unread : /\ stack # <<>> /\ arguments' = arguments
                                     /\ FitsInBuffer(entry(n).length)
                                     /\ OnItsWay(entry(n)) /\ walk_filename(entry(n))
            \/ \E n \in Top.unread : /\ stack # <<>> /\ Coming(entry(n)) /\ See(entry(n), "too long")
                                     /\ ~ FitsInBuffer(entry(n).length)
                                     /\ stack' = entry(n).below
                                     /\ UNCHANGED <<arguments, tree, counters, status>>
            \/ CloseDir
            \/ Finish
  <1>1. CASE NextArgument
    <2>1. Head(arguments) \in Names
      BY <1>1, HeadTailProperties DEF NextArgument, WalkInv, Given
    <2> QED
      BY <1>1, <2>1, ArgumentComes DEF NextArgument
  <1>2. CASE ReadDir
    <2>1. PICK n \in Top.unread :
            \/ FitsInBuffer(entry(n).length) /\ walk_filename(entry(n))
            \/ /\ ~ FitsInBuffer(entry(n).length)
               /\ See(entry(n), "too long") /\ stack' = AfterTooLong(entry(n))
               /\ UNCHANGED <<tree, counters, status>>
      BY <1>2 DEF ReadDir
    <2>2. Coming(entry(n))
      BY <1>2, EntryComes DEF ReadDir, WalkInv, Moving
    <2> QED
      BY <1>2, <2>1, <2>2 DEF ReadDir, OnItsWay, FitsInBuffer, AfterTooLong
  <1>3. CASE CloseDir \/ Finish
    BY <1>3 DEF CloseDir, Finish
  <1> QED
    BY <1>1, <1>2, <1>3 DEF Next

\* Whatever there is and whatever goes wrong: every file that is processed has one
\* outcome, and one convention when that is DONE.
THEOREM SumsAlwaysAgree == Spec => []SumsAgree
  <1>1. Init => SumsAgree
    BY DEF Init, SumsAgree, Counters, FileOp_Status, Conventions, LineEndings
  <1>2. WalkInv /\ SumsAgree /\ [Next]_vars => SumsAgree'
    <2> SUFFICES ASSUME WalkInv, SumsAgree, [Next]_vars PROVE SumsAgree'
      OBVIOUS
    <2> USE DEF WalkInv, Given, Moving
    <2>1. CASE UNCHANGED vars
      BY <2>1 DEF vars, SumsAgree
    <2>2. CASE Next
      <3>1. CASE UNCHANGED counters /\ status' # "aborted" /\ status # "aborted"
        BY <3>1 DEF counters, SumsAgree
      <3>2. CASE \E at : Coming(at) /\ walk_filename(at)
        BY <2>2, <3>2, Steps, SumsStay
      <3> QED
        BY <2>2, <3>1, <3>2, Steps DEF CloseDir, Finish, OnItsWay
    <2> QED
      BY <2>1, <2>2
  <1> QED
    BY <1>1, <1>2, WalkInit, WalkNext, PTL DEF Spec

--------------------------------------------------------------------------------
(* What is replaced.                                                        *)

\* A file that a conversion would leave as it is.
Settled(kind) ==
  /\ ~ IsUnwantedBinary(kind, invocation)
  /\ kind.endings \subseteq {invocation.dst_convention}
  /\ invocation.final_char_has_to_be_eol => kind.eol

LEMMA ConvertedIsSettled ==
  ASSUME NEW kind \in Kind, ~ IsUnwantedBinary(kind, invocation)
  PROVE  Settled(converted(kind, invocation))
  BY DEF Kind, IsUnwantedBinary, converted, Settled

\* The dry scan finds that a conversion has nothing to do there.
LEMMA SettledIsDone ==
  ASSUME NEW kind \in Kind, invocation \in Command, Settled(kind),
         invocation.dst_convention # "NO_CONVENTION", NEW scan \in scan_reports(kind, invocation)
  PROVE  pre_conversion_verdict(scan, invocation) = "DONE"
  <1>1. Foreign(kind, invocation) = {} /\ ~ IsUnwantedBinary(kind, invocation)
    BY DEF Settled, Foreign
  <1>2. scan = report_of(kind.binary, kind.eol, kind.endings)
    BY <1>1 DEF scan_reports
  <1>3. /\ scan.error_during_conversion = FALSE /\ scan.contains_non_text_chars = kind.binary
        /\ scan.has_final_eol = kind.eol
        /\ scan.count_by_convention = [c \in LineEndings |-> IF c \in kind.endings THEN 1 ELSE 0]
    BY <1>2 DEF report_of
  <1>4. kind.endings \subseteq LineEndings /\ (kind.eol => kind.endings # {})
    BY DEF Kind
  <1>5. {c \in LineEndings : scan.count_by_convention[c] > 0} = kind.endings
    <2>1. \A c \in LineEndings : (IF c \in kind.endings THEN 1 ELSE 0) > 0 <=> c \in kind.endings
      OBVIOUS
    <2> QED
      BY <1>3, <1>4, <2>1
  <1>6. CASE kind.endings = {}
    <2>1. get_source_convention(scan.count_by_convention) = "NO_CONVENTION"
      BY <1>5, <1>6 DEF get_source_convention
    <2>2. ~ invocation.final_char_has_to_be_eol
      BY <1>4, <1>6 DEF Settled
    <2>3. needs_no_conversion("NO_CONVENTION", scan.has_final_eol, invocation)
      BY <2>2 DEF needs_no_conversion
    <2> QED
      BY <1>1, <1>3, <2>1, <2>3 DEF pre_conversion_verdict, IsUnwantedBinary
  <1>7. CASE kind.endings # {}
    <2>1. kind.endings = {invocation.dst_convention}
      BY <1>7 DEF Settled
    <2>2. get_source_convention(scan.count_by_convention) = invocation.dst_convention
      BY <1>5, <2>1 DEF get_source_convention
    <2>3. needs_no_conversion(invocation.dst_convention, scan.has_final_eol, invocation)
      BY <1>3 DEF needs_no_conversion, Settled
    <2> QED
      BY <1>1, <1>3, <2>2, <2>3 DEF pre_conversion_verdict, IsUnwantedBinary
  <1> QED
    BY <1>6, <1>7

\* So what replaces a file, or fails to, comes from a file that was not settled, and what
\* it puts there is.
LEMMA ReplacedUnsettled ==
  ASSUME NEW at, NEW kind \in Kind, invocation \in Command, NEW r \in results(at, kind),
         r.new # Nothing \/ r.outcome = "aborted"
  PROVE  /\ invocation.dst_convention # "NO_CONVENTION" /\ ~ Settled(kind)
         /\ ~ IsUnwantedBinary(kind, invocation)
         /\ at.name \in KnownBinaryNames => invocation.binaries
         /\ r.outcome \in {"DONE", "aborted"}
         /\ r.new # Nothing => /\ r.new \in Kind /\ Settled(r.new)
                              /\ r.new = converted(kind, invocation)
  <1>1. \A outcome : \A q \in Failure(outcome) : q.outcome = outcome /\ q.new = Nothing
    BY DEF Failure, Result
  <1>2. r \notin Failure("SKIPPED_BINARY") /\ r \notin Failure("FILEOP_ERROR")
    BY <1>1
  <1>3. \A reports : \A q \in Result("DONE", reports, Nothing) :
          q.outcome = "DONE" /\ q.new = Nothing
    BY DEF Result
  <1>4. r \notin check_one_file(kind)
    BY <1>2, <1>3 DEF check_one_file
  <1>5. /\ invocation.dst_convention # "NO_CONVENTION" /\ r \in convert_one_file(at, kind)
        /\ at.name \in KnownBinaryNames => invocation.binaries
    BY <1>2, <1>4 DEF results
  <1>6. PICK scan \in scan_reports(kind, invocation) :
          LET verdict == pre_conversion_verdict(scan, invocation)
          IN  \/ verdict = "DONE" /\ r \in Result("DONE", {scan}, Nothing)
              \/ verdict \in {"FILEOP_ERROR", "SKIPPED_BINARY"} /\ r \in Failure(verdict)
              \/ r \in Failure("FILEOP_ERROR") \/ r \in Failure("SKIPPED_BINARY")
              \/ /\ verdict # "DONE" /\ (verdict = "CAN_CONTINUE" => ~ IsUnwantedBinary(kind, invocation))
                 /\ verdict \notin {"FILEOP_ERROR", "SKIPPED_BINARY"}
                 /\ \/ r \in Result("DONE", {full_report(kind)}, converted(kind, invocation))
                    \/ r \in Failure("aborted")
    BY <1>5 DEF convert_one_file
  <1>7. pre_conversion_verdict(scan, invocation) \in {"DONE", "CAN_CONTINUE", "FILEOP_ERROR", "SKIPPED_BINARY"}
    BY DEF pre_conversion_verdict
  <1>8. /\ pre_conversion_verdict(scan, invocation) = "CAN_CONTINUE"
        /\ ~ IsUnwantedBinary(kind, invocation)
        /\ \/ r \in Result("DONE", {full_report(kind)}, converted(kind, invocation))
           \/ r \in Failure("aborted")
    BY <1>2, <1>3, <1>6, <1>7
  <1>9. ~ Settled(kind)
    BY <1>5, <1>8, SettledIsDone
  <1>10. CASE r \in Result("DONE", {full_report(kind)}, converted(kind, invocation))
    <2>1. r.outcome = "DONE" /\ r.new = converted(kind, invocation)
      BY <1>10 DEF Result
    <2> QED
      BY <1>5, <1>8, <1>9, <2>1, ConvertedIsKind, ConvertedIsSettled
  <1>11. CASE r \in Failure("aborted")
    BY <1>1, <1>5, <1>8, <1>9, <1>11
  <1> QED
    BY <1>8, <1>10, <1>11

\* Whatever has changed in a directory is a file with nothing left to do.
Changed(d, n) == tree[d][n] # Tree[d][n]
SettledFile(e) == e # Nothing /\ e.is = "file" /\ e.kind \in Kind /\ Settled(e.kind)
ChangedInv ==
  \A d \in Directories, n \in Names :
    Changed(d, n) => status = "aborted" \/ SettledFile(tree[d][n])

\* What the processing of a file does to the directories: nothing, or it changes, or takes
\* away, the entry it was come to by, which nobody has changed before.
Conversion(d, n) == [is |-> "file", kind |-> converted(Text[d][n], invocation)]
Replaces(at) ==
  /\ invocation.dst_convention # "NO_CONVENTION" /\ ~ Changed(at.dir, at.name)
  /\ Text[at.dir][at.name] \in Kind /\ ~ Settled(Text[at.dir][at.name])
  /\ ~ IsUnwantedBinary(Text[at.dir][at.name], invocation)
  /\ at.name \in KnownBinaryNames => invocation.binaries
  /\ \/ /\ See(at, "DONE") /\ status' = status
        /\ \E e \in Entry : /\ SettledFile(e) /\ e = Conversion(at.dir, at.name)
                            /\ tree' = [tree EXCEPT ![at.dir][at.name] = e]
     \/ /\ See(at, "aborted") /\ status' = "aborted"
        /\ tree' = [tree EXCEPT ![at.dir][at.name] = Nothing]

\* What is read, and not as wanted, is what was there before the walk.
LEMMA UnsettledIsText ==
  ASSUME NEW at, Coming(at), Moving, ChangedInv, status = "walking", stat(at) # Nothing,
         stat(at).is = "file", ~ Settled(stat(at).kind)
  PROVE  Text[at.dir][at.name] = stat(at).kind
  <1>1. \A d \in Directories, n \in Names : tree[d][n] = stat(at) => Tree[d][n] = stat(at)
    BY DEF ChangedInv, Changed, SettledFile
  <1>2. /\ at.dir \in Directories /\ at.name \in Names
        /\ tree[at.dir][at.name] \in Entry \cup {Nothing}
    BY DEF Coming, Moving, TreeType
  <1>3. Follow(Tree[at.dir][at.name]) = stat(at)
    <2>1. CASE IsLink(at)
      <3>1. tree[at.dir][at.name] = Tree[at.dir][at.name]
        BY <1>2, <2>1 DEF IsLink, ChangedInv, Changed, SettledFile
      <3>2. PICK to \in Directories \X Names : to = tree[at.dir][at.name].to
        BY <1>2, <2>1 DEF IsLink, Entry
      <3>3. stat(at) = tree[to[1]][to[2]]
        BY <2>1, <3>2 DEF stat
      <3>4. Tree[to[1]][to[2]] = stat(at)
        BY <1>1, <3>2, <3>3
      <3> QED
        BY <2>1, <3>1, <3>2, <3>4 DEF Follow, IsLink
    <2>2. CASE ~ IsLink(at)
      <3>1. stat(at) = tree[at.dir][at.name]
        BY <2>2 DEF stat
      <3> QED
        BY <1>1, <1>2, <3>1 DEF Follow
    <2> QED
      BY <2>1, <2>2
  <1> QED
    BY <1>2, <1>3 DEF Text

LEMMA Replacing ==
  ASSUME NEW at, Coming(at), Moving, invocation \in Command, ChangedInv, status = "walking",
         stat(at) # Nothing, stat(at).is = "file",
         found_a_file_that_needs_processing(at, stat(at).kind)
  PROVE  (tree' = tree /\ status' = status) \/ Replaces(at)
  <1> DEFINE kind == stat(at).kind
  <1>1. kind \in Kind
    BY StatType DEF Moving, Entry
  <1>2. PICK r \in results(at, kind) :
          /\ See(at, r.outcome)
          /\ IF r.outcome = "aborted"
             THEN /\ status' = "aborted"
                  /\ tree' = [tree EXCEPT ![at.dir][at.name] = Nothing]
             ELSE /\ \/ tree' = tree
                     \/ r.new # Nothing /\ Rewritten(at, r.new)
                  /\ status' = status
    BY DEF found_a_file_that_needs_processing
  <1> HIDE DEF kind
  <1>3. CASE r.new # Nothing \/ r.outcome = "aborted"
    <2>1. /\ invocation.dst_convention # "NO_CONVENTION" /\ ~ Settled(kind)
          /\ ~ IsUnwantedBinary(kind, invocation)
          /\ at.name \in KnownBinaryNames => invocation.binaries
          /\ r.outcome \in {"DONE", "aborted"}
          /\ r.new # Nothing => /\ r.new \in Kind /\ Settled(r.new)
                               /\ r.new = converted(kind, invocation)
      BY <1>1, <1>3, ReplacedUnsettled
    <2>5. Text[at.dir][at.name] = kind
      BY <2>1, UnsettledIsText DEF kind
    <2>2. ~ Changed(at.dir, at.name)
      <3> SUFFICES ASSUME Changed(at.dir, at.name) PROVE FALSE
        OBVIOUS
      <3>1. SettledFile(tree[at.dir][at.name])
        BY DEF ChangedInv, Coming
      <3>2. ~ IsLink(at)
        BY <3>1 DEF SettledFile, IsLink
      <3>3. stat(at) = tree[at.dir][at.name]
        BY <3>2 DEF stat
      <3> QED
        BY <2>1, <3>1, <3>3 DEF SettledFile, kind
    <2>3. CASE r.outcome = "aborted"
      BY <1>1, <1>2, <2>1, <2>3, <2>2, <2>5 DEF Replaces
    <2>4. CASE r.outcome = "DONE" /\ r.new # Nothing /\ Rewritten(at, r.new)
      <3> DEFINE e == [is |-> "file", kind |-> r.new]
      <3>1. e \in Entry /\ e.is = "file" /\ e.kind = r.new /\ tree' = [tree EXCEPT ![at.dir][at.name] = e]
        BY <2>1, <2>4 DEF Rewritten, Entry
      <3>3. e = Conversion(at.dir, at.name)
        BY <2>1, <2>4, <2>5 DEF Conversion
      <3> HIDE DEF e
      <3>2. SettledFile(e)
        BY <2>1, <2>4, <3>1, TreeAssumption DEF SettledFile
      <3> QED
        BY <1>1, <1>2, <2>1, <2>2, <2>4, <2>5, <3>1, <3>2, <3>3 DEF Replaces
    <2> QED
      BY <1>2, <2>1, <2>3, <2>4
  <1>4. CASE r.new = Nothing /\ r.outcome # "aborted"
    BY <1>2, <1>4
  <1> QED
    BY <1>3, <1>4

LEMMA Leaving ==
  ASSUME NEW at, Coming(at), Moving, invocation \in Command, ChangedInv, status = "walking",
         walk_filename(at)
  PROVE  (tree' = tree /\ status' = status) \/ (Replaces(at) /\ ~ is_hidden(at))
  <1>1. CASE skip_a_hidden_file(at) \/ found_an_unreadable_file(at) \/ ignore(at)
    BY <1>1 DEF skip_a_hidden_file, found_an_unreadable_file, ignore
  <1>2. CASE \E d : found_a_directory(at, d)
    BY <1>2 DEF found_a_directory, walk_directory
  <1> QED
    BY <1>1, <1>2, Replacing DEF walk_filename

\* What a step does to the directories.
LEMMA TreeSteps ==
  ASSUME WalkInv, ChangedInv, Next
  PROVE  \/ tree' = tree /\ (status' = status \/ status' = "done")
         \/ \E at : Coming(at) /\ Replaces(at)
  <1>1. ASSUME NEW at, OnItsWay(at), walk_filename(at)
        PROVE  \/ tree' = tree /\ status' = status
               \/ \E place : Coming(place) /\ Replaces(place)
    BY <1>1, Leaving, Steps DEF WalkInv, Given, OnItsWay
  <1> QED
    BY <1>1, Steps DEF CloseDir, Finish

LEMMA ChangedNext == WalkInv /\ ChangedInv /\ [Next]_vars => ChangedInv'
  <1> SUFFICES ASSUME WalkInv, ChangedInv, [Next]_vars,
                      NEW d \in Directories, NEW n \in Names, tree'[d][n] # Tree[d][n],
                      status' # "aborted", NEW now, now = tree'[d][n]
               PROVE  SettledFile(now)'
    BY DEF ChangedInv, Changed, SettledFile, Settled, IsUnwantedBinary
  <1>1. CASE UNCHANGED vars
    BY <1>1 DEF vars, ChangedInv, Changed, SettledFile, Settled, IsUnwantedBinary
  <1>2. CASE Next
    <2>0. invocation' = invocation /\ status = "walking"
      BY <1>2, Steps
    <2>1. \A e : SettledFile(e)' <=> SettledFile(e)
      BY <2>0 DEF SettledFile, Settled, IsUnwantedBinary
    <2>2. CASE tree' = tree
      BY <2>0, <2>1, <2>2 DEF ChangedInv, Changed
    <2>3. CASE \E at : Coming(at) /\ Replaces(at)
      <3>1. PICK at : Coming(at) /\ Replaces(at)
        BY <2>3
      <3>2. PICK e \in Entry : SettledFile(e) /\ tree' = [tree EXCEPT ![at.dir][at.name] = e]
        BY <3>1 DEF Replaces
      <3>3. CASE d = at.dir /\ n = at.name
        BY <2>1, <3>1, <3>2, <3>3 DEF WalkInv, Moving, TreeType
      <3>4. CASE ~ (d = at.dir /\ n = at.name)
        <4>1. tree'[d][n] = tree[d][n]
          BY <3>1, <3>2, <3>4 DEF WalkInv, Moving, TreeType, Coming
        <4> QED
          BY <2>0, <2>1, <4>1 DEF ChangedInv, Changed
      <3> QED
        BY <3>3, <3>4
    <2> QED
      BY <1>2, <2>2, <2>3, TreeSteps
  <1> QED
    BY <1>1, <1>2

\* A conversion that changes nothing is of a file that is settled.
LEMMA UnsettledChanges ==
  ASSUME NEW kind \in Kind, invocation \in Command, ~ IsUnwantedBinary(kind, invocation),
         ~ Settled(kind)
  PROVE  converted(kind, invocation) # kind
  <1> SUFFICES ASSUME converted(kind, invocation) = kind PROVE Settled(kind)
    OBVIOUS
  <1> QED
    BY ConvertedIsSettled

\* Whatever is in the directories, wherever links lead, whatever readdir lists and whatever
\* fails: a walk does nothing to the directories that is not in Sweep.
THEOREM ImplementsSweep == Spec => IsASweep
  <1>0. \A kind, command : Swept!converted(kind, command) = converted(kind, command)
    BY DEF Swept!converted, converted
  <1>1. Init => Swept!Init /\ ChangedInv
    BY DEF Init, Swept!Init, ChangedInv, Changed
  <1>2. ASSUME WalkInv, ChangedInv, [Next]_vars
        PROVE  [Swept!Next]_(Swept!vars)
    <2>1. CASE UNCHANGED vars
      BY <2>1 DEF vars, Swept!vars
    <2>2. CASE Next
      <3>0. invocation' = invocation /\ status = "walking"
        BY <1>2, <2>2, Steps
      <3>1. CASE tree' = tree /\ (status' = status \/ status' = "done")
        BY <3>0, <3>1 DEF Swept!Next, Swept!Stop, Swept!vars
      <3>2. CASE \E at : Coming(at) /\ Replaces(at)
        <4>1. PICK at : Coming(at) /\ Replaces(at)
          BY <3>2
        <4> DEFINE d == at.dir
                   n == at.name
        <4>2. d \in Directories /\ n \in Names /\ tree[d][n] = Tree[d][n]
          BY <4>1 DEF Coming, Replaces, Changed
        <4>3. Swept!IsWanted(d, n)
          <5>1. converted(Text[d][n], invocation) # Text[d][n]
            BY <1>2, <4>1, UnsettledChanges DEF Replaces, WalkInv, Given
          <5>2. Text[d][n] \in Kind /\ Text[d][n] # Nothing
            BY <4>1, TreeAssumption DEF Replaces
          <5>3. ~ Text[d][n].binary \/ invocation.binaries
            BY <4>1 DEF Replaces, IsUnwantedBinary
          <5>4. invocation.dst_convention # "NO_CONVENTION" /\ (n \in KnownBinaryNames => invocation.binaries)
            BY <4>1 DEF Replaces
          <5> HIDE DEF d, n
          <5> QED
            BY <1>0, <5>1, <5>2, <5>3, <5>4 DEF Swept!IsWanted
        <4>4. CASE status' = status /\ tree' = [tree EXCEPT ![d][n] = Conversion(d, n)]
          BY <1>0, <3>0, <4>2, <4>3, <4>4 DEF Conversion, Swept!Convert, Swept!Next
        <4>5. CASE status' = "aborted" /\ tree' = [tree EXCEPT ![d][n] = Nothing]
          BY <3>0, <4>2, <4>3, <4>5 DEF Swept!Lose, Swept!Next
        <4> QED
          BY <4>1, <4>4, <4>5 DEF Replaces
      <3> QED
        BY <1>2, <2>2, <3>1, <3>2, TreeSteps
    <2> QED
      BY <1>2, <2>1, <2>2
  <1> QED
    BY <1>1, <1>2, WalkInit, WalkNext, ChangedNext, PTL DEF Spec, IsASweep, Swept!Spec

--------------------------------------------------------------------------------
(* Where a path leads.                                                      *)

\* A directory is on the way to the end of a path in one way at most: the first place
\* where two ways part can neither be the beginning nor come after one that they share.
Below == {x \in Nat \X Nat : x[1] < x[2]}

LEMMA Smallest ==
  ASSUME NEW T \in SUBSET Nat, T # {}
  PROVE  \E n \in T : \A m \in T : n <= m
  <1>1. IsWellFoundedOn(OpToRel(<, Nat), Nat)
    BY NatLessThanWellFounded
  <1>2. OpToRel(<, Nat) = Below
    BY DEF OpToRel, Below
  <1>3. PICK n \in T : \A m \in T : <<m, n>> \notin Below
    BY <1>1, <1>2, WFMin
  <1>4. \A m \in T : <<m, n>> \in Below <=> m < n
    BY DEF Below
  <1>5. \A m \in T : ~ (m < n)
    BY <1>3, <1>4
  <1>6. n \in Nat /\ \A m \in T : m \in Nat
    OBVIOUS
  <1>7. \A m \in T : n <= m
    BY <1>5, <1>6
  <1> QED
    BY <1>7

LEMMA OneWay ==
  ASSUME NEW path \in Seq(Names), NEW f \in [1..Len(path) -> Directories],
         NEW g \in [1..Len(path) -> Directories], Along(path, f), Along(path, g),
         NEW k \in 1..Len(path)
  PROVE  f[k] = g[k]
  <1> DEFINE T == {i \in 1..Len(path) : f[i] # g[i]}
  <1> SUFFICES ASSUME T # {} PROVE FALSE
    OBVIOUS
  <1>1. Len(path) \in Nat /\ T \in SUBSET Nat
    BY LenProperties
  <1>2. PICK i \in T : \A j \in T : i <= j
    BY <1>1, Smallest
  <1>3. i # 1
    BY <1>1, <1>2 DEF Along
  <1>4. i - 1 \in 1..(Len(path) - 1) /\ i - 1 \in 1..Len(path) /\ i - 1 \notin T /\ (i - 1) + 1 = i
    BY <1>1, <1>2, <1>3
  <1>5. /\ Follow(Tree[f[i - 1]][path[i - 1]]) = [is |-> "directory", dir |-> f[(i - 1) + 1]]
        /\ Follow(Tree[g[i - 1]][path[i - 1]]) = [is |-> "directory", dir |-> g[(i - 1) + 1]]
    BY <1>4 DEF Along
  <1>6. f[i - 1] = g[i - 1]
    BY <1>4
  <1>7. [is |-> "directory", dir |-> f[i]] = [is |-> "directory", dir |-> g[i]]
    BY <1>4, <1>5, <1>6
  <1>8. f[i] = g[i]
    BY <1>7
  <1> QED
    BY <1>2, <1>8

\* The last name of the path is one in the directory d ...
In(path, d) ==
  \E dirs \in [1..Len(path) -> Directories] : Along(path, dirs) /\ dirs[Len(path)] = d
\* ... or leads to it.
LeadsTo(path, d) ==
  \E e \in Directories : /\ In(path, e)
                         /\ Follow(Tree[e][path[Len(path)]]) = [is |-> "directory", dir |-> d]

LEMMA DirAtIsIn ==
  ASSUME NEW path \in Seq(Names), path # <<>>, NEW d \in Directories, In(path, d)
  PROVE  DirAt(path) = d
  <1>1. Len(path) \in 1..Len(path)
    BY EmptySeq, LenProperties
  <1>2. \A e \in Directories : In(path, e) => e = d
    BY <1>1, OneWay DEF In
  <1>3. DirAt(path) = CHOOSE e \in Directories : In(path, e)
    BY DEF DirAt, In
  <1> QED
    BY <1>2, <1>3

LEMMA InCwd ==
  ASSUME NEW n \in Names
  PROVE  In(<<n>>, Cwd)
  <1> DEFINE dirs == [i \in 1..1 |-> Cwd]
  <1>1. dirs \in [1..1 -> Directories] /\ dirs[1] = Cwd
    BY TreeAssumption
  <1>2. Len(<<n>>) = 1 /\ 1..(1 - 1) = {}
    OBVIOUS
  <1> QED
    BY <1>1, <1>2 DEF In, Along

LEMMA Further ==
  ASSUME NEW path \in Seq(Names), path # <<>>, NEW d \in Directories, LeadsTo(path, d),
         NEW n \in Names
  PROVE  In(Append(path, n), d)
  <1> DEFINE long == Append(path, n)
             N    == Len(path)
  <1>1. N \in Nat \ {0} /\ Len(long) = N + 1 /\ \A i \in 1..N : long[i] = path[i]
    BY EmptySeq, LenProperties, AppendProperties
  <1>2. PICK dirs \in [1..N -> Directories] :
          /\ Along(path, dirs)
          /\ Follow(Tree[dirs[N]][path[N]]) = [is |-> "directory", dir |-> d]
    BY DEF LeadsTo, In
  <1> DEFINE more == [i \in 1..(N + 1) |-> IF i = N + 1 THEN d ELSE dirs[i]]
  <1> HIDE DEF long, N
  <1>3. more \in [1..(N + 1) -> Directories] /\ more[N + 1] = d /\ \A i \in 1..N : more[i] = dirs[i]
    BY <1>1, <1>2
  <1> HIDE DEF more
  <1>4. more[1] = Cwd
    BY <1>1, <1>2, <1>3 DEF Along
  <1>5. ASSUME NEW i \in 1..N
        PROVE  Follow(Tree[more[i]][long[i]]) = [is |-> "directory", dir |-> more[i + 1]]
    <2>1. more[i] = dirs[i] /\ long[i] = path[i]
      BY <1>1, <1>3
    <2>2. CASE i = N
      BY <1>2, <1>3, <2>1, <2>2
    <2>3. CASE i # N
      <3>1. i \in 1..(N - 1) /\ i + 1 \in 1..N
        BY <1>1, <2>3
      <3>2. Follow(Tree[dirs[i]][path[i]]) = [is |-> "directory", dir |-> dirs[i + 1]]
        BY <1>2, <3>1 DEF Along, N
      <3> QED
        BY <1>3, <2>1, <3>1, <3>2
    <2> QED
      BY <2>2, <2>3
  <1>6. Along(long, more)
    BY <1>1, <1>4, <1>5 DEF Along
  <1> QED
    BY <1>1, <1>3, <1>6 DEF In, long

--------------------------------------------------------------------------------
(* The running calls.                                                       *)

\* Two frames of the same call of walk_directory.
SameCall(f, g) == f.path = g.path /\ f.dir = g.dir

\* The calls that go on when the entry n has been read: the one that has read it has one
\* entry less.
LEMMA CallsBelow ==
  ASSUME StackType, stack # <<>>, NEW n \in Top.unread
  PROVE  /\ DOMAIN entry(n).below = DOMAIN stack
         /\ \A j \in DOMAIN stack : SameCall(entry(n).below[j], stack[j])
         /\ \A j \in DOMAIN stack : \A m \in stack[j].unread :
              m \in entry(n).below[j].unread \/ (m = n /\ stack[j].path = Top.path)
  <1>1. Len(stack) \in 1..Len(stack) /\ DOMAIN stack = 1..Len(stack)
    BY EmptySeq, LenProperties DEF StackType
  <1>2. Top \in Frame
    BY <1>1, ElementOfSeq DEF StackType, Top, Fitting
  <1> DEFINE shorter == [Top EXCEPT !.unread = @ \ {n}]
  <1>3. /\ shorter.path = Top.path /\ shorter.dir = Top.dir
        /\ shorter.unread = Top.unread \ {n}
    BY <1>2 DEF Frame
  <1>4. entry(n).below = [stack EXCEPT ![Len(stack)] = shorter]
    BY DEF Top, entry
  <1> HIDE DEF shorter
  <1>5. \A j \in DOMAIN stack :
          entry(n).below[j] = IF j = Len(stack) THEN shorter ELSE stack[j]
    BY <1>1, <1>4
  <1>6. DOMAIN entry(n).below = DOMAIN stack
    BY <1>4
  <1> QED
    BY <1>3, <1>5, <1>6 DEF SameCall, Top

\* A directory that is opened.
Walks(at) ==
  /\ ~ is_hidden(at) /\ stat(at) # Nothing /\ stat(at).is = "directory" /\ invocation.recurse
  /\ tree' = tree /\ status' = status

\* What becomes of the running calls when an entry is worked on: they go on, and a
\* directory that is opened is a new one; whatever it is, the entry has been come to.
LEMMA CallsNext ==
  ASSUME NEW at, Coming(at), Moving, invocation \in Command, walk_filename(at)
  PROVE  /\ \A i \in DOMAIN stack' :
              \/ \E j \in DOMAIN at.below : SameCall(stack'[i], at.below[j])
              \/ Walks(at) /\ stack'[i].path = at.path /\ stack'[i].dir = stat(at).dir
         /\ status' # "aborted" =>
              \A j \in DOMAIN at.below : \E i \in DOMAIN stack' :
                stack'[i].path = at.below[j].path /\ at.below[j].unread \subseteq stack'[i].unread
         /\ \E class : /\ See(at, class)
                       /\ class = "walked" =>
                            /\ Walks(at)
                            /\ \E i \in DOMAIN stack' : /\ stack'[i].path = at.path
                                                        /\ stack'[i].unread = Listed(stat(at).dir)
  <1>0. at.below \in Seq(Fitting)
    BY DEF Coming
  <1>1. CASE stack' = at.below /\ \E class \in Classes \ {"walked"} : See(at, class)
    BY <1>1 DEF SameCall
  <1>2. CASE \/ skip_a_hidden_file(at) \/ found_an_unreadable_file(at) \/ ignore(at)
    BY <1>1, <1>2 DEF skip_a_hidden_file, found_an_unreadable_file, ignore, Classes
  <1>3. CASE /\ ~ is_hidden(at) /\ stat(at) # Nothing /\ stat(at).is = "directory"
             /\ found_a_directory(at, stat(at).dir)
    <2>1. CASE invocation.recurse /\ walk_directory(at, stat(at).dir)
      <3>1. CASE stack' = at.below /\ See(at, "unopened")
        BY <1>1, <3>1 DEF Classes
      <3>2. CASE stack' # at.below \/ ~ See(at, "unopened")
        <4> DEFINE frame == [path |-> at.path, length |-> at.length, dir |-> stat(at).dir,
                             links |-> LinksOf(at), unread |-> Listed(stat(at).dir)]
        <4>1. stack' = Append(at.below, frame) /\ See(at, "walked")
          BY <2>1, <3>2 DEF walk_directory
        <4>2. /\ frame.path = at.path /\ frame.dir = stat(at).dir
              /\ frame.unread = Listed(stat(at).dir)
          OBVIOUS
        <4> HIDE DEF frame
        <4>3. /\ DOMAIN stack' = 1..(Len(at.below) + 1) /\ DOMAIN at.below = 1..Len(at.below)
              /\ Len(at.below) \in Nat /\ stack'[Len(at.below) + 1] = frame
              /\ \A j \in 1..Len(at.below) : stack'[j] = at.below[j]
          BY <1>0, <4>1
        <4>4. Walks(at)
          BY <1>3, <2>1 DEF Walks, walk_directory
        <4> QED
          BY <4>1, <4>2, <4>3, <4>4 DEF SameCall
      <3> QED
        BY <3>1, <3>2
    <2>2. CASE ~ invocation.recurse
      BY <1>1, <1>3, <2>2 DEF found_a_directory, Classes
    <2> QED
      BY <1>3, <2>1, <2>2 DEF found_a_directory
  <1>4. CASE stat(at).kind \in Kind /\ found_a_file_that_needs_processing(at, stat(at).kind)
    <2>1. PICK r \in results(at, stat(at).kind) :
            /\ See(at, r.outcome)
            /\ \/ status' = "aborted" /\ stack' = <<>>
               \/ stack' = at.below
               \/ Rewritten(at, r.new)
      BY <1>4 DEF found_a_file_that_needs_processing
    <2>2. r.outcome # "walked"
      BY <1>4, ResultsAreGood DEF GoodResult, Outcomes
    <2>3. CASE status' = "aborted" /\ stack' = <<>>
      BY <2>1, <2>2, <2>3
    <2>4. CASE stack' = at.below
      BY <2>1, <2>2, <2>4 DEF SameCall
    <2>5. CASE Rewritten(at, r.new)
      <3>1. PICK again \in [DOMAIN at.below -> SUBSET {at.name, TmpName}] :
              stack' = [i \in DOMAIN at.below |->
                         IF at.below[i].dir = at.dir
                         THEN [at.below[i] EXCEPT !.unread = @ \cup again[i]] ELSE at.below[i]]
        BY <2>5 DEF Rewritten
      <3>2. ASSUME NEW i \in DOMAIN at.below
            PROVE  /\ SameCall(stack'[i], at.below[i])
                   /\ at.below[i].unread \subseteq stack'[i].unread
        <4>1. at.below[i] \in Frame
          BY <1>0, ElementOfSeq DEF Fitting
        <4> DEFINE longer == [at.below[i] EXCEPT !.unread = @ \cup again[i]]
        <4>2. SameCall(longer, at.below[i]) /\ at.below[i].unread \subseteq longer.unread
          BY <4>1 DEF Frame, SameCall
        <4>3. stack'[i] = longer \/ stack'[i] = at.below[i]
          BY <3>1
        <4> HIDE DEF longer
        <4> QED
          BY <4>2, <4>3 DEF SameCall
      <3>3. DOMAIN stack' = DOMAIN at.below
        BY <3>1
      <3> QED
        BY <2>1, <2>2, <3>2, <3>3 DEF SameCall
    <2> QED
      BY <2>1, <2>3, <2>4, <2>5
  <1> QED
    BY <1>2, <1>3, <1>4, StatType DEF walk_filename, Entry, Moving

\* A call of walk_directory was asked for, and is in the directory its path leads to ...
Called(f) ==
  /\ f.path # <<>> /\ invocation.recurse /\ LeadsTo(f.path, f.dir)
  /\ \A i \in 1..Len(f.path) : ~ Hidden(f.path[i])
CallInv == \A i \in DOMAIN stack : Called(stack[i])

\* ... and so is what it comes to.
Placed(at) ==
  /\ at.path # <<>> /\ In(at.path, at.dir) /\ at.path[Len(at.path)] = at.name
  /\ invocation.recurse \/ Len(at.path) = 1
  /\ \A i \in 1..(Len(at.path) - 1) : ~ Hidden(at.path[i])
  /\ \A j \in DOMAIN at.below : Called(at.below[j])

LEMMA ArgumentPlaced ==
  ASSUME NEW n \in Names
  PROVE  Placed(argument(n))
  <1>1. /\ argument(n).path = <<n>> /\ argument(n).dir = Cwd /\ argument(n).name = n
        /\ argument(n).below = <<>>
    BY DEF argument
  <1>2. <<n>> # <<>> /\ Len(<<n>>) = 1 /\ <<n>>[1] = n /\ DOMAIN <<>> = {} /\ 1..(1 - 1) = {}
    OBVIOUS
  <1> QED
    BY <1>1, <1>2, InCwd DEF Placed

LEMMA EntryPlaced ==
  ASSUME StackType, CallInv, stack # <<>>, NEW n \in Top.unread
  PROVE  Placed(entry(n))
  <1>1. Len(stack) \in 1..Len(stack) /\ DOMAIN stack = 1..Len(stack)
    BY EmptySeq, LenProperties DEF StackType
  <1>2. Top \in Frame /\ Called(Top)
    BY <1>1, ElementOfSeq DEF StackType, Top, Fitting, CallInv
  <1>3. n \in Names /\ Top.path \in Seq(Names) /\ Top.dir \in Directories
    BY <1>2 DEF Frame
  <1>4. entry(n).path = Append(Top.path, n) /\ entry(n).dir = Top.dir /\ entry(n).name = n
    BY DEF entry
  <1> HIDE DEF Top
  <1>5. In(Append(Top.path, n), Top.dir)
    BY <1>2, <1>3, Further DEF Called
  <1> DEFINE path == Append(Top.path, n)
  <1>6. /\ Len(path) = Len(Top.path) + 1 /\ Len(Top.path) \in Nat
        /\ path[Len(Top.path) + 1] = n /\ \A i \in 1..Len(Top.path) : path[i] = Top.path[i]
        /\ path # <<>>
    BY <1>3, LenProperties, AppendProperties
  <1>7. \A j \in DOMAIN entry(n).below : Called(entry(n).below[j])
    BY CallsBelow DEF CallInv, Called, SameCall
  <1> HIDE DEF path
  <1>8. \A i \in 1..(Len(path) - 1) : ~ Hidden(path[i])
    BY <1>2, <1>6 DEF Called
  <1>9. invocation.recurse /\ path[Len(path)] = n
    BY <1>2, <1>6 DEF Called
  <1> QED
    BY <1>4, <1>5, <1>6, <1>7, <1>8, <1>9 DEF Placed, path

\* The directory that is opened is the one that was there before the walk: what has
\* changed are files.
LEMMA StatWas ==
  ASSUME NEW at, Coming(at), Moving, ChangedInv, status = "walking", Walks(at)
  PROVE  /\ stat(at).dir \in Directories
         /\ Follow(Tree[at.dir][at.name]) = [is |-> "directory", dir |-> stat(at).dir]
  <1>1. stat(at) \in Entry /\ stat(at).is = "directory"
    BY StatType DEF Walks, Moving
  <1>2. /\ stat(at).dir \in Directories
        /\ stat(at) = [is |-> "directory", dir |-> stat(at).dir]
    BY <1>1 DEF Entry
  <1>3. \A d \in Directories, n \in Names : tree[d][n] = stat(at) => tree[d][n] = Tree[d][n]
    BY <1>1 DEF ChangedInv, Changed, SettledFile
  <1>4. CASE IsLink(at)
    <2>1. tree[at.dir][at.name] = Tree[at.dir][at.name]
      BY <1>4 DEF IsLink, ChangedInv, Changed, SettledFile, Coming
    <2>2. tree[at.dir][at.name] \in Entry /\ tree[at.dir][at.name].is = "link"
      BY <1>4 DEF IsLink, Coming, Moving, TreeType
    <2>3. PICK to \in Directories \X Names : to = tree[at.dir][at.name].to
      BY <2>2 DEF Entry
    <2>4. stat(at) = tree[to[1]][to[2]]
      BY <1>4, <2>3 DEF stat, Walks
    <2>5. Tree[to[1]][to[2]] = stat(at)
      BY <1>3, <2>3, <2>4
    <2>6. Follow(Tree[at.dir][at.name]) = Tree[to[1]][to[2]]
      BY <1>4, <2>1, <2>3 DEF Follow, IsLink
    <2> QED
      BY <1>2, <2>5, <2>6
  <1>5. CASE ~ IsLink(at)
    <2>1. stat(at) = tree[at.dir][at.name]
      BY <1>5 DEF stat, Walks
    <2>2. Tree[at.dir][at.name] = stat(at)
      BY <1>3, <2>1 DEF Coming
    <2>3. Follow(stat(at)) = stat(at)
      BY <1>1 DEF Follow
    <2> QED
      BY <1>2, <2>2, <2>3
  <1> QED
    BY <1>4, <1>5

LEMMA CallsStay ==
  ASSUME NEW at, Coming(at), Placed(at), Moving, ChangedInv, status = "walking",
         invocation \in Command, invocation' = invocation, walk_filename(at)
  PROVE  CallInv'
  <1> SUFFICES ASSUME NEW i \in DOMAIN stack', NEW f, f = stack'[i]
               PROVE  Called(f)
    BY DEF CallInv, Called, Hidden, Hides
  <1>1. CASE \E j \in DOMAIN at.below : SameCall(f, at.below[j])
    BY <1>1 DEF SameCall, Called, Placed
  <1>2. CASE Walks(at) /\ f.path = at.path /\ f.dir = stat(at).dir
    <2>1. LeadsTo(at.path, stat(at).dir)
      BY <1>2, StatWas DEF LeadsTo, Placed, Coming
    <2>2. ~ Hidden(at.name)
      BY <1>2 DEF Walks, is_hidden, Hidden, Hides
    <2>3. Len(at.path) \in Nat
      BY LenProperties DEF Coming
    <2>4. \A k \in 1..Len(at.path) : k \in 1..(Len(at.path) - 1) \/ k = Len(at.path)
      BY <2>3
    <2> QED
      BY <1>2, <2>1, <2>2, <2>4 DEF Called, Placed, Walks
  <1> QED
    BY <1>1, <1>2, CallsNext

--------------------------------------------------------------------------------
(* What may change, and what is not missed.                                 *)

LEMMA EligibleStays ==
  ASSUME NEW at, Coming(at), Placed(at), Moving, ChangedInv, status = "walking",
         invocation \in Command, invocation' = invocation, walk_filename(at), OnlyEligible
  PROVE  OnlyEligible'
  <1> SUFFICES ASSUME NEW d \in Directories, NEW n \in Names, tree'[d][n] # Tree[d][n]
               PROVE  /\ invocation.dst_convention # "NO_CONVENTION"
                      /\ \E s \in seen' :
                           /\ s.class \in {"DONE", "aborted"}
                           /\ DirAt(s.path) = d /\ Last(s.path) = n
                           /\ invocation.recurse \/ Len(s.path) = 1
                           /\ \A i \in DOMAIN s.path : ~ Hidden(s.path[i])
    BY DEF OnlyEligible, Hidden, Hides
  <1>1. CASE tree'[d][n] = tree[d][n]
    <2>1. seen \subseteq seen'
      BY CallsNext DEF See
    <2> QED
      BY <1>1, <2>1 DEF OnlyEligible
  <1>2. CASE tree'[d][n] # tree[d][n]
    <2>1. Replaces(at) /\ ~ is_hidden(at)
      BY <1>2, Leaving
    <2>0. \E e : tree' = [tree EXCEPT ![at.dir][at.name] = e]
      BY <2>1 DEF Replaces
    <2>2. d = at.dir /\ n = at.name
      BY <1>2, <2>0 DEF Moving, TreeType, Coming
    <2>3. PICK class \in {"DONE", "aborted"} : See(at, class)
      BY <2>1 DEF Replaces
    <2> DEFINE s == [path |-> at.path, length |-> at.length, class |-> class]
    <2>4. s \in seen' /\ s.path = at.path /\ s.class = class
      BY <2>3 DEF See
    <2> HIDE DEF s
    <2>5. DirAt(at.path) = d /\ Last(at.path) = n
      BY <2>2, DirAtIsIn DEF Placed, Coming, Last
    <2>6. \A i \in DOMAIN at.path : ~ Hidden(at.path[i])
      <3>1. DOMAIN at.path = 1..Len(at.path) /\ Len(at.path) \in Nat
        BY LenProperties DEF Coming
      <3>2. \A i \in DOMAIN at.path : i \in 1..(Len(at.path) - 1) \/ i = Len(at.path)
        BY <3>1
      <3>3. ~ Hidden(at.name)
        BY <2>1 DEF is_hidden, Hidden, Hides
      <3> QED
        BY <3>2, <3>3 DEF Placed
    <2>7. invocation.recurse \/ Len(at.path) = 1
      BY DEF Placed
    <2> QED
      BY <2>1, <2>4, <2>5, <2>6, <2>7 DEF Replaces
  <1> QED
    BY <1>1, <1>2

\* The arguments that are no longer to be come to have been come to ...
ArgumentsInv ==
  LET k == Len(Arguments) - Len(arguments)
  IN  /\ k \in Nat
      /\ \A i \in 1..Len(arguments) : arguments[i] = Arguments[k + i]
      /\ \A i \in 1..k : Seen(<<Arguments[i]>>)

\* ... and so have the entries of an opened directory that its call has not before it.
Before(calls, path, n) == \E i \in DOMAIN calls : calls[i].path = path /\ n \in calls[i].unread
EntriesInv ==
  \A s \in seen : s.class = "walked" =>
    \A n \in Names :
      Tree[Was(s.path).dir][n] # Nothing => Seen(Append(s.path, n)) \/ Before(stack, s.path, n)

EndInv == status = "done" => stack = <<>> /\ arguments = <<>>

MissInv == EndInv /\ (status # "aborted" => ArgumentsInv /\ EntriesInv)

\* An entry that was come to, with the calls that go on behind it.
GoesOn(at) ==
  /\ \A j \in DOMAIN at.below : \E i \in DOMAIN stack' :
       stack'[i].path = at.below[j].path /\ at.below[j].unread \subseteq stack'[i].unread
  /\ \E class : /\ See(at, class)
                /\ class = "walked" =>
                     /\ Walks(at)
                     /\ \E i \in DOMAIN stack' : /\ stack'[i].path = at.path
                                                 /\ stack'[i].unread = Listed(stat(at).dir)

LEMMA EntriesStay ==
  ASSUME NEW at, Coming(at), Placed(at), Moving, ChangedInv, status = "walking", GoesOn(at),
         \A s \in seen : s.class = "walked" =>
           \A n \in Names : Tree[Was(s.path).dir][n] # Nothing =>
             \/ Seen(Append(s.path, n)) \/ Before(at.below, s.path, n)
             \/ Append(s.path, n) = at.path
  PROVE  EntriesInv'
  <1> SUFFICES ASSUME NEW s \in seen', s.class = "walked", NEW n \in Names,
                      Tree[Was(s.path).dir][n] # Nothing
               PROVE  (\E t \in seen' : t.path = Append(s.path, n)) \/ Before(stack', s.path, n)
    BY DEF EntriesInv, Seen, Before
  <1>1. PICK class : /\ See(at, class)
                     /\ class = "walked" =>
                          /\ Walks(at)
                          /\ \E i \in DOMAIN stack' : /\ stack'[i].path = at.path
                                                      /\ stack'[i].unread = Listed(stat(at).dir)
    BY DEF GoesOn
  <1> DEFINE new == [path |-> at.path, length |-> at.length, class |-> class]
  <1>2. seen' = seen \cup {new} /\ new.path = at.path /\ new.class = class
    BY <1>1 DEF See
  <1> HIDE DEF new
  <1>3. CASE s \in seen
    <2>1. CASE Seen(Append(s.path, n))
      BY <1>2, <2>1 DEF Seen
    <2>2. CASE Before(at.below, s.path, n)
      BY <2>2 DEF Before, GoesOn
    <2>3. CASE Append(s.path, n) = at.path
      BY <1>2, <2>3
    <2> QED
      BY <1>3, <2>1, <2>2, <2>3
  <1>4. CASE s = new
    <2>1. Walks(at)
      BY <1>1, <1>2, <1>4
    <2>2. DirAt(at.path) = at.dir /\ Last(at.path) = at.name
      BY DirAtIsIn DEF Placed, Coming, Last
    <2>3. /\ Was(at.path) = [is |-> "directory", dir |-> stat(at).dir]
          /\ stat(at).dir \in Directories
      BY <2>1, <2>2, StatWas DEF Was, At
    <2>4. Was(s.path).dir = stat(at).dir
      BY <1>2, <1>4, <2>3
    <2>5. tree[stat(at).dir][n] # Nothing
      BY <2>3, <2>4 DEF ChangedInv, Changed, SettledFile
    <2>6. n \in Listed(stat(at).dir)
      BY <2>5 DEF Listed
    <2> QED
      BY <1>1, <1>2, <1>4, <2>6 DEF Before
  <1> QED
    BY <1>2, <1>3, <1>4

LEMMA MissInit == Init => CallInv /\ MissInv /\ OnlyEligible /\ ChangedInv
  <1> SUFFICES ASSUME Init PROVE CallInv /\ MissInv /\ OnlyEligible /\ ChangedInv
    OBVIOUS
  <1>1. /\ tree = Tree /\ arguments = Arguments /\ stack = <<>> /\ seen = {}
        /\ status = "walking"
    BY DEF Init
  <1>2. Len(Arguments) \in Nat /\ Len(Arguments) - Len(arguments) = 0 /\ 1..0 = {}
    BY <1>1, TreeAssumption, LenProperties
  <1>3. ArgumentsInv
    BY <1>1, <1>2 DEF ArgumentsInv
  <1> QED
    BY <1>1, <1>3 DEF CallInv, MissInv, EndInv, EntriesInv, OnlyEligible, ChangedInv, Changed

\* The arguments left, when one more has been come to.
LEMMA ArgumentsStay ==
  ASSUME WalkInv, ArgumentsInv, arguments # <<>>, arguments' = Tail(arguments),
         NEW n \in Names, n = Head(arguments), Seen(<<n>>)', seen \subseteq seen'
  PROVE  ArgumentsInv'
  <1> DEFINE k == Len(Arguments) - Len(arguments)
             m == Len(arguments)
  <1>1. /\ m \in Nat \ {0} /\ Len(Arguments) \in Nat /\ k \in Nat
        /\ \A i \in 1..m : arguments[i] = Arguments[k + i]
        /\ \A i \in 1..k : Seen(<<Arguments[i]>>)
    BY EmptySeq, LenProperties, TreeAssumption DEF WalkInv, Given, ArgumentsInv
  <1>2. /\ Len(arguments') = m - 1 /\ Head(arguments) = arguments[1]
        /\ \A i \in 1..(m - 1) : arguments'[i] = arguments[i + 1]
    BY HeadTailProperties DEF WalkInv, Given
  <1> HIDE DEF m
  <1>3. Len(Arguments) - Len(arguments') = k + 1
    BY <1>1, <1>2 DEF m
  <1> HIDE DEF k
  <1>4. \A i \in 1..(m - 1) : arguments'[i] = Arguments[(k + 1) + i]
    <2> TAKE i \in 1..(m - 1)
    <2>1. i + 1 \in 1..m /\ k + (i + 1) = (k + 1) + i
      BY <1>1
    <2> QED
      BY <1>1, <1>2, <2>1
  <1>5. n = Arguments[k + 1]
    BY <1>1, <1>2
  <1>6. \A i \in 1..(k + 1) : \E t \in seen' : t.path = <<Arguments[i]>>
    <2> TAKE i \in 1..(k + 1)
    <2>1. i \in 1..k \/ i = k + 1
      BY <1>1
    <2>2. CASE i \in 1..k
      BY <1>1, <2>2 DEF Seen
    <2>3. CASE i = k + 1
      BY <1>5, <2>3 DEF Seen
    <2> QED
      BY <2>1, <2>2, <2>3
  <1>7. k + 1 \in Nat
    BY <1>1
  <1> QED
    BY <1>2, <1>3, <1>4, <1>6, <1>7 DEF ArgumentsInv, Seen

Inv == WalkInv /\ ChangedInv /\ CallInv /\ MissInv /\ OnlyEligible

LEMMA ArgumentStep ==
  ASSUME Inv, Next, stack = <<>>, arguments # <<>>, NEW n \in Names, n = Head(arguments),
         arguments' = Tail(arguments), OnItsWay(argument(n)), walk_filename(argument(n))
  PROVE  CallInv' /\ MissInv' /\ OnlyEligible'
  <1> USE DEF Inv, WalkInv, Given
  <1> DEFINE at == argument(n)
  <1>1. Coming(at) /\ Placed(at)
    BY ArgumentPlaced DEF OnItsWay
  <1>2. status = "walking" /\ invocation' = invocation
    BY Steps
  <1>3. at.path = <<n>>
    BY DEF argument
  <1> HIDE DEF at
  <1>4. walk_filename(at)
    BY DEF at
  <1>5. CallInv' /\ OnlyEligible'
    BY <1>1, <1>2, <1>4, CallsStay, EligibleStays
  <1>6. status' = "walking" \/ status' = "aborted"
    BY <1>1, <1>2, <1>4, Leaving DEF Replaces
  <1>7. ASSUME status' # "aborted" PROVE ArgumentsInv' /\ EntriesInv'
    <2>1. GoesOn(at)
      BY <1>1, <1>4, <1>7, CallsNext DEF GoesOn
    <2>2. DOMAIN stack = {} /\ EntriesInv /\ ArgumentsInv
      BY <1>2 DEF MissInv
    <2>3. EntriesInv'
      BY <1>1, <1>2, <2>1, <2>2, EntriesStay DEF EntriesInv, Before
    <2>4. Seen(<<n>>)' /\ seen \subseteq seen'
      <3>1. PICK class : See(at, class)
        BY <2>1 DEF GoesOn
      <3> DEFINE s == [path |-> at.path, length |-> at.length, class |-> class]
      <3>2. seen' = seen \cup {s} /\ s.path = <<n>>
        BY <1>3, <3>1 DEF See
      <3> HIDE DEF s
      <3> QED
        BY <3>2 DEF Seen
    <2> QED
      BY <2>3, <2>2, <2>4, ArgumentsStay
  <1> QED
    BY <1>5, <1>6, <1>7 DEF MissInv, EndInv

LEMMA EntryGoesOn ==
  ASSUME Inv, stack # <<>>, status = "walking", NEW n \in Top.unread, GoesOn(entry(n)),
         Coming(entry(n))
  PROVE  EntriesInv' /\ seen \subseteq seen'
  <1> USE DEF Inv, WalkInv, Moving
  <1>1. Placed(entry(n))
    BY EntryPlaced
  <1>2. entry(n).path = Append(Top.path, n)
    BY DEF entry
  <1>3. ASSUME NEW path, NEW m, Before(stack, path, m)
        PROVE  Before(entry(n).below, path, m) \/ Append(path, m) = entry(n).path
    <2>1. PICK i \in DOMAIN stack : stack[i].path = path /\ m \in stack[i].unread
      BY <1>3 DEF Before
    <2>2. /\ i \in DOMAIN entry(n).below /\ entry(n).below[i].path = path
          /\ m \in entry(n).below[i].unread \/ (m = n /\ path = Top.path)
      BY <2>1, CallsBelow DEF SameCall
    <2> QED
      BY <1>2, <2>2 DEF Before
  <1>4. EntriesInv
    BY DEF MissInv
  <1>5. EntriesInv'
    BY <1>1, <1>3, <1>4, EntriesStay DEF EntriesInv
  <1>6. seen \subseteq seen'
    BY DEF GoesOn, See
  <1> QED
    BY <1>5, <1>6

LEMMA EntryStep ==
  ASSUME Inv, Next, stack # <<>>, NEW n \in Top.unread, arguments' = arguments,
         OnItsWay(entry(n)), walk_filename(entry(n))
  PROVE  CallInv' /\ MissInv' /\ OnlyEligible'
  <1> USE DEF Inv, WalkInv, Given, Moving
  <1> DEFINE at == entry(n)
  <1>1. Coming(at) /\ Placed(at)
    BY EntryPlaced DEF OnItsWay
  <1>2. status = "walking" /\ invocation' = invocation
    BY Steps
  <1> HIDE DEF at
  <1>3. walk_filename(at)
    BY DEF at
  <1>4. CallInv' /\ OnlyEligible'
    BY <1>1, <1>2, <1>3, CallsStay, EligibleStays
  <1>5. status' = "walking" \/ status' = "aborted"
    BY <1>1, <1>2, <1>3, Leaving DEF Replaces
  <1>6. ASSUME status' # "aborted" PROVE ArgumentsInv' /\ EntriesInv'
    <2>1. GoesOn(at)
      BY <1>1, <1>3, <1>6, CallsNext DEF GoesOn
    <2>2. EntriesInv' /\ seen \subseteq seen'
      BY <1>1, <1>2, <2>1, EntryGoesOn DEF at
    <2>3. ArgumentsInv
      BY <1>2 DEF MissInv
    <2> QED
      BY <2>2, <2>3 DEF ArgumentsInv, Seen
  <1> QED
    BY <1>4, <1>5, <1>6 DEF MissInv, EndInv

LEMMA TooLongStep ==
  ASSUME Inv, Next, stack # <<>>, NEW n \in Top.unread, Coming(entry(n)), See(entry(n), "too long"),
         stack' = entry(n).below, UNCHANGED <<arguments, tree, counters, status>>
  PROVE  CallInv' /\ MissInv' /\ OnlyEligible'
  <1> USE DEF Inv, WalkInv, Given, Moving
  <1>1. status = "walking" /\ invocation' = invocation
    BY Steps
  <1> DEFINE at == entry(n)
  <1>2. GoesOn(at)
    <2>1. stack' = at.below /\ See(at, "too long")
      OBVIOUS
    <2>2. "too long" # "walked"
      OBVIOUS
    <2> HIDE DEF at, Inv, WalkInv, Given, Moving
    <2> QED
      BY ONLY <2>1, <2>2 DEF GoesOn
  <1>3. EntriesInv' /\ seen \subseteq seen'
    BY <1>1, <1>2, EntryGoesOn
  <1>4. CallInv'
    <2>1. \A j \in DOMAIN entry(n).below : Called(entry(n).below[j])
      BY EntryPlaced DEF Placed
    <2> QED
      BY <1>1, <2>1 DEF CallInv, Called, Hidden, Hides
  <1>5. OnlyEligible'
    BY <1>1, <1>3 DEF OnlyEligible, Hidden, Hides
  <1>6. ArgumentsInv'
    BY <1>1, <1>3 DEF MissInv, ArgumentsInv, Seen
  <1> QED
    BY <1>1, <1>3, <1>4, <1>5, <1>6 DEF MissInv, EndInv

LEMMA CloseStep ==
  ASSUME Inv, CloseDir
  PROVE  CallInv' /\ MissInv' /\ OnlyEligible'
  <1> USE DEF Inv, WalkInv, Given, Moving
  <1>0. /\ UNCHANGED <<invocation, tree, arguments, seen, status>> /\ status = "walking"
        /\ stack # <<>> /\ Top.unread = {} /\ stack' = SubSeq(stack, 1, Len(stack) - 1)
    BY DEF CloseDir
  <1>1. /\ Len(stack) \in Nat /\ Len(stack) # 0 /\ DOMAIN stack = 1..Len(stack)
    BY <1>0, EmptySeq, LenProperties DEF StackType
  <1>2. \A i \in 1..(Len(stack) - 1) : stack[i] \in Fitting
    BY <1>1, ElementOfSeq DEF StackType
  <1>3. DOMAIN stack' = 1..(Len(stack) - 1) /\ \A i \in 1..(Len(stack) - 1) : stack'[i] = stack[i]
    BY <1>0, <1>1, <1>2, SubSeqProperties DEF StackType
  <1>4. \A i \in DOMAIN stack : i \in DOMAIN stack' \/ stack[i] = Top
    BY <1>1, <1>3 DEF Top
  <1>5. DOMAIN stack' \subseteq DOMAIN stack
    BY <1>1, <1>3
  <1>6. CallInv'
    BY <1>0, <1>3, <1>5 DEF CallInv, Called, Hidden, Hides
  <1>7. \A path, n : Before(stack, path, n) => Before(stack', path, n)
    BY <1>0, <1>3, <1>4 DEF Before
  <1>8. EntriesInv' /\ ArgumentsInv'
    BY <1>0, <1>7 DEF MissInv, EntriesInv, ArgumentsInv, Seen
  <1>9. OnlyEligible'
    BY <1>0 DEF OnlyEligible, Hidden, Hides
  <1> QED
    BY <1>0, <1>6, <1>8, <1>9 DEF MissInv, EndInv

LEMMA InvNext == Inv /\ [Next]_vars => Inv'
  <1> SUFFICES ASSUME Inv, [Next]_vars PROVE Inv'
    OBVIOUS
  <1>1. WalkInv' /\ ChangedInv'
    BY WalkNext, ChangedNext DEF Inv
  <1>2. CASE UNCHANGED vars
    <2>1. CallInv' /\ MissInv' /\ OnlyEligible'
      BY <1>2 DEF vars, Inv, CallInv, Called, Hidden, Hides, MissInv, EndInv, EntriesInv, ArgumentsInv,
                  Seen, OnlyEligible
    <2> QED
      BY <1>1, <2>1 DEF Inv
  <1>3. CASE Finish
    <2>1. /\ UNCHANGED <<invocation, tree, arguments, stack, seen>> /\ status' = "done"
          /\ stack = <<>> /\ arguments = <<>> /\ status = "walking"
      BY <1>3 DEF Finish
    <2>2. CallInv' /\ OnlyEligible'
      BY <2>1 DEF Inv, CallInv, Called, Hidden, Hides, OnlyEligible
    <2>3. ArgumentsInv /\ EntriesInv
      BY <2>1 DEF Inv, MissInv
    <2>4. ArgumentsInv'
      BY <2>1, <2>3 DEF ArgumentsInv, Seen
    <2>5. \A path, n : Before(stack, path, n) = Before(stack', path, n)
      BY <2>1
    <2>6. EntriesInv'
      BY <2>1, <2>3, <2>5 DEF EntriesInv, Seen
    <2> QED
      BY <1>1, <2>1, <2>2, <2>4, <2>6 DEF Inv, MissInv, EndInv
  <1>4. CASE Next /\ ~ Finish
    <2>1. WalkInv
      BY DEF Inv
    <2>2. CallInv' /\ MissInv' /\ OnlyEligible'
      BY <1>4, <2>1, Steps, ArgumentStep, EntryStep, TooLongStep, CloseStep
    <2> QED
      BY <1>1, <2>2 DEF Inv
  <1> QED
    BY <1>2, <1>3, <1>4

LEMMA InvHolds == Spec => []Inv
  <1>1. Init => Inv
    BY WalkInit, MissInit DEF Inv
  <1> QED
    BY <1>1, InvNext, PTL DEF Spec

\* Whatever the tree and the links in it: what the walk changes was asked for.
THEOREM AlwaysEligible == Spec => []OnlyEligible
  <1>1. Inv => OnlyEligible
    BY DEF Inv
  <1> QED
    BY <1>1, InvHolds, PTL

\* Whatever goes wrong on the way: nothing is passed over.
THEOREM NothingIsMissed == Spec => []NothingMissed
  <1>1. Inv => NothingMissed
    <2> SUFFICES ASSUME Inv, status = "done" PROVE NothingMissed
      BY DEF NothingMissed
    <2>1. stack = <<>> /\ arguments = <<>> /\ ArgumentsInv /\ EntriesInv
      BY DEF Inv, MissInv, EndInv
    <2>2. DOMAIN stack = {} /\ Len(arguments) = 0
      BY <2>1
    <2>3. Len(Arguments) \in Nat /\ DOMAIN Arguments = 1..Len(Arguments)
      BY TreeAssumption, LenProperties
    <2>4. \A i \in DOMAIN Arguments : Seen(<<Arguments[i]>>)
      BY <2>1, <2>2, <2>3 DEF ArgumentsInv
    <2> QED
      BY <2>1, <2>2, <2>4 DEF EntriesInv, Before, NothingMissed
  <1> QED
    BY <1>1, InvHolds, PTL

--------------------------------------------------------------------------------
(* The totals.  The length of a path is counted name by name.               *)

Slots(path) == UNION {{i} \X (0..strlen[path[i]]) : i \in DOMAIN path}

LEMMA Slot ==
  ASSUME NEW i, NEW k \in Nat
  PROVE  IsFiniteSet({i} \X (0..k)) /\ Cardinality({i} \X (0..k)) = k + 1
  <1>1. IsFiniteSet({i}) /\ Cardinality({i}) = 1
    BY FS_Singleton
  <1>2. IsFiniteSet(0..k) /\ Cardinality(0..k) = k + 1
    BY FS_Interval
  <1> QED
    BY <1>1, <1>2, FS_Product

LEMMA SlotsAreFinite ==
  ASSUME NEW path \in Seq(Names)
  PROVE  IsFiniteSet(Slots(path)) /\ Cardinality(Slots(path)) \in Nat
  <1> DEFINE S == {{i} \X (0..strlen[path[i]]) : i \in DOMAIN path}
             f == [i \in DOMAIN path |-> {i} \X (0..strlen[path[i]])]
  <1>1. DOMAIN path = 1..Len(path) /\ Len(path) \in Nat
    BY LenProperties
  <1>2. IsFiniteSet(DOMAIN path)
    BY <1>1, FS_Interval
  <1>3. f \in Surjection(DOMAIN path, S)
    BY DEF Surjection
  <1>4. IsFiniteSet(S)
    BY <1>2, <1>3, FS_Surjection
  <1>5. \A i \in DOMAIN path : strlen[path[i]] \in Nat
    BY <1>1, ElementOfSeq, NamesAssumption
  <1>6. \A T \in S : IsFiniteSet(T)
    BY <1>5, Slot
  <1> QED
    BY <1>4, <1>6, FS_UNION, FS_CardinalityType DEF Slots

LEMMA LengthOfOne ==
  ASSUME NEW n \in Names
  PROVE  PathLength(<<n>>) = strlen[n]
  <1>1. DOMAIN <<n>> = {1} /\ <<n>>[1] = n
    OBVIOUS
  <1>2. Slots(<<n>>) = {1} \X (0..strlen[n])
    BY <1>1 DEF Slots
  <1>3. strlen[n] \in Nat
    BY NamesAssumption
  <1>4. Cardinality(Slots(<<n>>)) = strlen[n] + 1
    BY <1>2, <1>3, Slot
  <1> QED
    BY <1>3, <1>4 DEF PathLength, Slots

LEMMA LengthOfMore ==
  ASSUME NEW path \in Seq(Names), NEW n \in Names
  PROVE  PathLength(Append(path, n)) = PathLength(path) + 1 + strlen[n]
  <1> DEFINE N == Len(path)
             T == {N + 1} \X (0..strlen[n])
  <1>1. strlen[n] \in Nat /\ N \in Nat
    BY NamesAssumption, LenProperties
  <1>2. /\ DOMAIN path = 1..N /\ DOMAIN Append(path, n) = (1..N) \cup {N + 1}
        /\ Append(path, n)[N + 1] = n /\ \A i \in 1..N : Append(path, n)[i] = path[i]
    BY <1>1, LenProperties, AppendProperties
  <1>3. IsFiniteSet(T) /\ Cardinality(T) = strlen[n] + 1
    BY <1>1, Slot
  <1>4. Slots(Append(path, n)) = Slots(path) \cup T
    BY <1>2 DEF Slots
  <1>5. Slots(path) \cap T = {}
    <2>1. N + 1 \notin 1..N
      BY <1>1
    <2> QED
      BY <1>2, <2>1 DEF Slots
  <1> HIDE DEF T, N
  <1>6. Cardinality(Slots(Append(path, n))) = Cardinality(Slots(path)) + (strlen[n] + 1)
    <2>1. IsFiniteSet(Slots(path)) /\ Cardinality(Slots(path)) \in Nat
      BY SlotsAreFinite
    <2>2. Cardinality(Slots(path) \cup T) =
            Cardinality(Slots(path)) + Cardinality(T) - Cardinality(Slots(path) \cap T)
      BY <1>3, <2>1, FS_Union
    <2>3. Cardinality({}) = 0
      BY FS_EmptySet
    <2>4. Cardinality(Slots(path) \cup T) = Cardinality(Slots(path)) + Cardinality(T) - 0
      BY <1>5, <2>2, <2>3
    <2>5. Cardinality(Slots(path) \cup T) = Cardinality(Slots(path)) + (strlen[n] + 1) - 0
      BY <1>3, <2>4
    <2> QED
      BY <1>1, <1>4, <2>1, <2>5
  <1>7. Cardinality(Slots(path)) \in Nat
    BY SlotsAreFinite
  <1>8. \A p : PathLength(p) = Cardinality(Slots(p)) - 1
    BY DEF PathLength, Slots
  <1> QED
    BY <1>1, <1>6, <1>7, <1>8
--------------------------------------------------------------------------------
(* Paths that a walk should come to, and where they lead in a tree.         *)

Leads(d, n, e) == Tree[d][n] = [is |-> "directory", dir |-> e] /\ e \notin Unopenable

\* What directories are without links: each that can be opened is in one other at most,
\* under one name, and the one the process is in is in none of them; and the command
\* line names each file once.
IsTree ==
  /\ \A d \in Directories, n \in Names : Tree[d][n] = Nothing \/ Tree[d][n].is # "link"
  /\ \A d, e, x \in Directories, n, m \in Names :
       Leads(d, n, x) /\ Leads(e, m, x) => d = e /\ n = m
  /\ \A d \in Directories, n \in Names : ~ Leads(d, n, Cwd)
  /\ \A i, j \in DOMAIN Arguments : Arguments[i] = Arguments[j] => i = j

LEMMA PrefixOf ==
  ASSUME NEW path \in Seq(Names), NEW i \in 1..Len(path)
  PROVE  /\ SubSeq(path, 1, i) \in Seq(Names) /\ Len(SubSeq(path, 1, i)) = i
         /\ SubSeq(path, 1, i) # <<>> /\ Last(SubSeq(path, 1, i)) = path[i]
         /\ \A j \in 1..i : /\ SubSeq(path, 1, i)[j] = path[j]
                            /\ SubSeq(SubSeq(path, 1, i), 1, j) = SubSeq(path, 1, j)
         /\ i + 1 \in 1..Len(path) =>
              Append(SubSeq(path, 1, i), path[i + 1]) = SubSeq(path, 1, i + 1)
  <1> DEFINE q == SubSeq(path, 1, i)
  <1>0. Len(path) \in Nat /\ i \in Nat \ {0}
    BY LenProperties
  <1>1. \A j \in 1..i : path[j] \in Names
    BY <1>0, ElementOfSeq
  <1>2. q \in Seq(Names) /\ Len(q) = i /\ \A j \in 1..i : q[j] = path[j]
    <2>1. /\ SubSeq(path, 1, i) \in Seq(Names)
          /\ Len(SubSeq(path, 1, i)) = IF 1 <= i THEN i - 1 + 1 ELSE 0
          /\ \A j \in 1..(i - 1 + 1) : SubSeq(path, 1, i)[j] = path[1 + j - 1]
      BY <1>0, <1>1, SubSeqProperties
    <2> QED
      BY <1>0, <2>1
  <1>3. q # <<>> /\ Last(q) = path[i]
    BY <1>0, <1>2, EmptySeq DEF Last
  <1>4. \A j \in 1..i : SubSeq(q, 1, j) = SubSeq(path, 1, j)
    <2> TAKE j \in 1..i
    <2>1. \A k \in 1..j : q[k] \in Names /\ q[k] = path[k] /\ path[k] \in Names
      BY <1>0, <1>1, <1>2
    <2>2. /\ SubSeq(path, 1, j) \in Seq(Names) /\ Len(SubSeq(path, 1, j)) = j
          /\ \A k \in 1..j : SubSeq(path, 1, j)[k] = path[k]
      <3>1. /\ SubSeq(path, 1, j) \in Seq(Names)
            /\ Len(SubSeq(path, 1, j)) = IF 1 <= j THEN j - 1 + 1 ELSE 0
            /\ \A k \in 1..(j - 1 + 1) : SubSeq(path, 1, j)[k] = path[1 + k - 1]
        BY <1>0, <2>1, SubSeqProperties
      <3> QED
        BY <1>0, <3>1
    <2>3. /\ SubSeq(q, 1, j) \in Seq(Names) /\ Len(SubSeq(q, 1, j)) = j
          /\ \A k \in 1..j : SubSeq(q, 1, j)[k] = q[k]
      <3> HIDE DEF q
      <3>1. /\ SubSeq(q, 1, j) \in Seq(Names)
            /\ Len(SubSeq(q, 1, j)) = IF 1 <= j THEN j - 1 + 1 ELSE 0
            /\ \A k \in 1..(j - 1 + 1) : SubSeq(q, 1, j)[k] = q[1 + k - 1]
        BY <1>0, <2>1, SubSeqProperties
      <3> QED
        BY <1>0, <3>1
    <2> HIDE DEF q
    <2> QED
      BY <2>1, <2>3, <2>2, SeqEqual
  <1>5. ASSUME i + 1 \in 1..Len(path)
        PROVE  Append(q, path[i + 1]) = SubSeq(path, 1, i + 1)
    <2>1. \A k \in 1..(i + 1) : path[k] \in Names
      BY <1>0, <1>5, ElementOfSeq
    <2>2. /\ SubSeq(path, 1, i + 1) \in Seq(Names) /\ Len(SubSeq(path, 1, i + 1)) = i + 1
          /\ \A k \in 1..(i + 1) : SubSeq(path, 1, i + 1)[k] = path[k]
      <3>1. /\ SubSeq(path, 1, i + 1) \in Seq(Names)
            /\ Len(SubSeq(path, 1, i + 1)) = IF 1 <= i + 1 THEN (i + 1) - 1 + 1 ELSE 0
            /\ \A k \in 1..((i + 1) - 1 + 1) : SubSeq(path, 1, i + 1)[k] = path[1 + k - 1]
        BY <1>0, <2>1, SubSeqProperties
      <3> QED
        BY <1>0, <3>1
    <2>3. path[i + 1] \in Names
      BY <1>0, <2>1
    <2> HIDE DEF q
    <2>4. /\ Append(q, path[i + 1]) \in Seq(Names) /\ Len(Append(q, path[i + 1])) = i + 1
          /\ \A k \in 1..i : Append(q, path[i + 1])[k] = path[k]
          /\ Append(q, path[i + 1])[i + 1] = path[i + 1]
      BY <1>2, <2>3, AppendProperties
    <2>5. \A k \in 1..(i + 1) : k \in 1..i \/ k = i + 1
      BY <1>0
    <2>6. \A k \in 1..(i + 1) : Append(q, path[i + 1])[k] = SubSeq(path, 1, i + 1)[k]
      BY <2>2, <2>4, <2>5
    <2> QED
      BY <2>2, <2>4, <2>6, SeqEqual
  <1> QED
    BY <1>2, <1>3, <1>4, <1>5

LEMMA FirstOf ==
  ASSUME NEW path \in Seq(Names), 1 \in 1..Len(path)
  PROVE  SubSeq(path, 1, 1) = <<path[1]>> /\ path[1] \in Names
  <1> DEFINE q == SubSeq(path, 1, 1)
  <1>1. /\ q \in Seq(Names) /\ Len(q) = 1 /\ q[1] = path[1] /\ path[1] \in Names
    BY PrefixOf, ElementOfSeq
  <1> HIDE DEF q
  <1> DEFINE n == path[1]
  <1>2. n \in Names /\ q[1] = n
    BY <1>1
  <1> HIDE DEF n
  <1>3. <<n>> \in Seq(Names) /\ Len(<<n>>) = 1 /\ <<n>>[1] = n
    BY <1>2
  <1>4. q = <<n>>
    BY <1>1, <1>2, <1>3, SeqEqual
  <1> QED
    BY <1>1, <1>4 DEF q, n

LEMMA ComesToPrefix ==
  ASSUME NEW command, NEW path \in Seq(Names), ComesTo(path, command), NEW i \in 1..Len(path)
  PROVE  ComesTo(SubSeq(path, 1, i), command)
  <1> DEFINE q == SubSeq(path, 1, i)
  <1>0. Len(path) \in Nat
    BY LenProperties
  <1>1. /\ Len(q) = i /\ q[1] = path[1] /\ \A j \in 1..i : q[j] = path[j] /\ SubSeq(q, 1, j) = SubSeq(path, 1, j)
    BY <1>0, PrefixOf
  <1> HIDE DEF q
  <1>2. ASSUME NEW j \in 1..(i - 1)
        PROVE  /\ Opens(SubSeq(q, 1, j), command)
               /\ Tree[Was(SubSeq(q, 1, j)).dir][q[j + 1]] # Nothing
               /\ PathLength(SubSeq(q, 1, j + 1)) < MAX_PATH_LENGTH
    <2>1. j \in 1..(Len(path) - 1) /\ j \in 1..i /\ j + 1 \in 1..i
      BY <1>0
    <2>2. /\ Opens(SubSeq(path, 1, j), command)
          /\ Tree[Was(SubSeq(path, 1, j)).dir][path[j + 1]] # Nothing
          /\ PathLength(SubSeq(path, 1, j + 1)) < MAX_PATH_LENGTH
      BY <2>1 DEF ComesTo
    <2>3. SubSeq(q, 1, j) = SubSeq(path, 1, j) /\ q[j + 1] = path[j + 1] /\ SubSeq(q, 1, j + 1) = SubSeq(path, 1, j + 1)
      BY <1>1, <2>1
    <2> QED
      BY <2>2, <2>3
  <1> QED
    BY <1>1, <1>2 DEF ComesTo, q

LEMMA ComesFurther ==
  ASSUME NEW command, NEW path \in Seq(Names), path # <<>>, NEW n \in Names,
         ComesTo(path, command), Opens(path, command), Tree[Was(path).dir][n] # Nothing,
         PathLength(Append(path, n)) < MAX_PATH_LENGTH
  PROVE  ComesTo(Append(path, n), command)
  <1> DEFINE N == Len(path)
             q == Append(path, n)
  <1>1. /\ N \in Nat \ {0} /\ q \in Seq(Names) /\ Len(q) = N + 1 /\ q[N + 1] = n
        /\ \A i \in 1..N : q[i] = path[i]
    BY EmptySeq, AppendProperties
  <1>2. SubSeq(path, 1, N) = path /\ SubSeq(q, 1, N + 1) = q
    BY <1>1, SubSeqFull
  <1>3. SubSeq(q, 1, N) = path
    <2>1. N \in 1..Len(q)
      BY <1>1
    <2>2. /\ SubSeq(q, 1, N) \in Seq(Names) /\ Len(SubSeq(q, 1, N)) = N
          /\ \A j \in 1..N : SubSeq(q, 1, N)[j] = q[j]
      BY <1>1, <2>1, PrefixOf
    <2>3. \A j \in 1..N : SubSeq(q, 1, N)[j] = path[j]
      BY <1>1, <2>2
    <2> HIDE DEF q
    <2> QED
      BY <2>2, <2>3, SeqEqual
  <1> HIDE DEF q
  <1>4. \A i \in 1..N : SubSeq(q, 1, i) = SubSeq(path, 1, i)
    <2> TAKE i \in 1..N
    <2>1. N \in 1..Len(q)
      BY <1>1
    <2>2. SubSeq(SubSeq(q, 1, N), 1, i) = SubSeq(q, 1, i)
      BY <1>1, <2>1, PrefixOf
    <2> QED
      BY <1>3, <2>2
  <1>5. ASSUME NEW i \in 1..N
        PROVE  /\ Opens(SubSeq(q, 1, i), command)
               /\ Tree[Was(SubSeq(q, 1, i)).dir][q[i + 1]] # Nothing
               /\ PathLength(SubSeq(q, 1, i + 1)) < MAX_PATH_LENGTH
    <2>1. CASE i = N
      BY <1>1, <1>2, <1>3, <2>1 DEF q
    <2>2. CASE i # N
      <3>1. i \in 1..(N - 1) /\ i + 1 \in 1..N
        BY <1>1, <2>2
      <3>2. /\ Opens(SubSeq(path, 1, i), command)
            /\ Tree[Was(SubSeq(path, 1, i)).dir][path[i + 1]] # Nothing
            /\ PathLength(SubSeq(path, 1, i + 1)) < MAX_PATH_LENGTH
        BY <3>1 DEF ComesTo
      <3> QED
        BY <1>1, <1>4, <3>1, <3>2
    <2> QED
      BY <2>1, <2>2
  <1>6. q[1] = path[1] /\ Len(q) - 1 = N
    BY <1>1
  <1> QED
    BY <1>5, <1>6 DEF ComesTo, q

LEMMA ComesToArgument ==
  ASSUME NEW command, NEW i \in DOMAIN Arguments
  PROVE  ComesTo(<<Arguments[i]>>, command)
  <1>1. Len(<<Arguments[i]>>) = 1 /\ <<Arguments[i]>>[1] = Arguments[i] /\ 1..(1 - 1) = {}
    OBVIOUS
  <1> QED
    BY <1>1 DEF ComesTo
LEMMA FollowType ==
  ASSUME NEW d \in Directories, NEW n \in Names
  PROVE  Follow(Tree[d][n]) \in Entry \cup {Nothing}
  <1>1. Tree[d][n] \in Entry \cup {Nothing}
    BY TreeAssumption
  <1>2. CASE Tree[d][n] # Nothing /\ Tree[d][n].is = "link"
    <2>1. PICK to \in Directories \X Names : to = Tree[d][n].to
      BY <1>1, <1>2 DEF Entry
    <2>2. Tree[to[1]][to[2]] \in Entry \cup {Nothing}
      BY TreeAssumption
    <2> QED
      BY <1>2, <2>1, <2>2 DEF Follow
  <1> QED
    BY <1>1, <1>2 DEF Follow

\* What a path leads on to, when it is to be opened.
LEMMA Leading ==
  ASSUME NEW command, NEW path \in Seq(Names), path # <<>>,
         DirAt(path) \in Directories, In(path, DirAt(path)), Opens(path, command)
  PROVE  /\ Was(path).dir \in Directories /\ Was(path).dir \notin Unopenable
         /\ Was(path) = [is |-> "directory", dir |-> Was(path).dir]
         /\ Follow(Tree[DirAt(path)][path[Len(path)]]) = Was(path)
         /\ LeadsTo(path, Was(path).dir)
         /\ \A n \in Names : /\ In(Append(path, n), Was(path).dir)
                             /\ DirAt(Append(path, n)) = Was(path).dir
  <1>1. Last(path) \in Names /\ Last(path) = path[Len(path)]
    BY EmptySeq, ElementOfSeq DEF Last
  <1>2. Was(path) = Follow(Tree[DirAt(path)][Last(path)])
    BY DEF Was, At
  <1>3. Was(path) \in Entry
    BY <1>1, <1>2, FollowType DEF Opens
  <1>4. /\ Was(path).dir \in Directories /\ Was(path).dir \notin Unopenable
        /\ Was(path) = [is |-> "directory", dir |-> Was(path).dir]
    BY <1>3 DEF Opens, Entry
  <1>5. LeadsTo(path, Was(path).dir)
    BY <1>1, <1>2, <1>4 DEF LeadsTo
  <1>6. ASSUME NEW n \in Names
        PROVE  In(Append(path, n), Was(path).dir) /\ DirAt(Append(path, n)) = Was(path).dir
    <2>1. Append(path, n) \in Seq(Names) /\ Append(path, n) # <<>>
      BY AppendProperties
    <2>2. In(Append(path, n), Was(path).dir)
      BY <1>4, <1>5, Further
    <2> QED
      BY <1>4, <2>1, <2>2, DirAtIsIn
  <1> QED
    BY <1>1, <1>2, <1>4, <1>5, <1>6

LEMMA FirstIn ==
  ASSUME NEW n \in Names
  PROVE  DirAt(<<n>>) = Cwd /\ In(<<n>>, Cwd)
  <1>1. <<n>> \in Seq(Names) /\ <<n>> # <<>>
    OBVIOUS
  <1> QED
    BY <1>1, InCwd, DirAtIsIn, TreeAssumption

LEMMA ComesInto ==
  ASSUME NEW command, NEW path \in Seq(Names), ComesTo(path, command), NEW i \in 1..Len(path)
  PROVE  DirAt(SubSeq(path, 1, i)) \in Directories /\ In(SubSeq(path, 1, i), DirAt(SubSeq(path, 1, i)))
  <1> DEFINE G(j) == /\ DirAt(SubSeq(path, 1, j)) \in Directories
                     /\ In(SubSeq(path, 1, j), DirAt(SubSeq(path, 1, j)))
             T == {j \in 1..Len(path) : ~ G(j)}
  <1> SUFFICES ASSUME T # {} PROVE FALSE
    OBVIOUS
  <1>1. Len(path) \in Nat /\ T \in SUBSET Nat
    BY LenProperties
  <1>2. PICK j \in T : \A k \in T : j <= k
    BY <1>1, Smallest
  <1>3. j # 1
    <2> SUFFICES ASSUME j = 1 PROVE FALSE
      OBVIOUS
    <2>1. SubSeq(path, 1, 1) = <<path[1]>> /\ path[1] \in Names
      BY <1>1, <1>2, FirstOf
    <2>2. G(1)
      BY <2>1, FirstIn, TreeAssumption
    <2> QED
      BY <1>2, <2>2
  <1> DEFINE k == j - 1
             q == SubSeq(path, 1, k)
  <1>4. k \in 1..(Len(path) - 1) /\ k \in 1..Len(path) /\ k + 1 = j /\ j \in 1..Len(path) /\ k \notin T
    BY <1>1, <1>2, <1>3
  <1>5. q \in Seq(Names) /\ q # <<>> /\ Append(q, path[k + 1]) = SubSeq(path, 1, k + 1)
    BY <1>4, PrefixOf
  <1>6. Opens(q, command)
    BY <1>4 DEF ComesTo
  <1>7. G(k) /\ path[k + 1] \in Names
    BY <1>4, ElementOfSeq
  <1> HIDE DEF q
  <1>8. /\ Was(q).dir \in Directories
        /\ In(Append(q, path[k + 1]), Was(q).dir) /\ DirAt(Append(q, path[k + 1])) = Was(q).dir
    BY <1>5, <1>6, <1>7, Leading DEF q
  <1>9. G(j)
    BY <1>4, <1>5, <1>8
  <1> QED
    BY <1>2, <1>9

LEMMA ComesIn ==
  ASSUME NEW command, NEW path \in Seq(Names), path # <<>>, ComesTo(path, command)
  PROVE  DirAt(path) \in Directories /\ In(path, DirAt(path))
  <1>1. Len(path) \in 1..Len(path) /\ SubSeq(path, 1, Len(path)) = path
    BY EmptySeq, SubSeqFull
  <1> QED
    BY <1>1, ComesInto

\* The directories on the way.
OnTheWay(path, f) ==
  /\ f \in [1..Len(path) -> Directories] /\ f[1] = Cwd /\ f[Len(path)] = DirAt(path)
  /\ \A i \in 1..(Len(path) - 1) : Leads(f[i], path[i], f[i + 1])

LEMMA WayThere ==
  ASSUME IsTree, NEW command, NEW path \in Seq(Names), path # <<>>, ComesTo(path, command)
  PROVE  \E f : OnTheWay(path, f)
  <1> DEFINE f == [i \in 1..Len(path) |-> DirAt(SubSeq(path, 1, i))]
  <1>1. Len(path) \in Nat \ {0}
    BY EmptySeq
  <1>2. f \in [1..Len(path) -> Directories]
    BY ComesInto
  <1>3. f[1] = Cwd
    <2>1. SubSeq(path, 1, 1) = <<path[1]>> /\ path[1] \in Names /\ 1 \in 1..Len(path)
      BY <1>1, FirstOf
    <2> QED
      BY <2>1, FirstIn
  <1>4. f[Len(path)] = DirAt(path)
    <2>1. SubSeq(path, 1, Len(path)) = path /\ Len(path) \in 1..Len(path)
      BY <1>1, SubSeqFull
    <2>2. f[Len(path)] = DirAt(SubSeq(path, 1, Len(path)))
      BY <2>1
    <2> QED
      BY <2>1, <2>2
  <1>5. ASSUME NEW i \in 1..(Len(path) - 1)
        PROVE  Leads(f[i], path[i], f[i + 1])
    <2> DEFINE q == SubSeq(path, 1, i)
    <2>1. i \in 1..Len(path) /\ i + 1 \in 1..Len(path)
      BY <1>1
    <2>2. q \in Seq(Names) /\ q # <<>> /\ Append(q, path[i + 1]) = SubSeq(path, 1, i + 1)
          /\ Len(q) = i /\ q[i] = path[i]
      BY <2>1, PrefixOf
    <2>3. Opens(q, command)
      BY DEF ComesTo
    <2>4. DirAt(q) \in Directories /\ In(q, DirAt(q)) /\ path[i + 1] \in Names /\ path[i] \in Names
      BY <2>1, ComesInto, ElementOfSeq
    <2>5. f[i] = DirAt(q) /\ f[i + 1] = DirAt(SubSeq(path, 1, i + 1))
      BY <2>1
    <2> HIDE DEF q, f
    <2>6. /\ Follow(Tree[DirAt(q)][path[i]]) = [is |-> "directory", dir |-> DirAt(Append(q, path[i + 1]))]
          /\ DirAt(Append(q, path[i + 1])) \notin Unopenable
      BY <2>3, <2>2, <2>4, Leading
    <2>7. Follow(Tree[DirAt(q)][path[i]]) = Tree[DirAt(q)][path[i]]
      BY <2>4 DEF IsTree, Follow
    <2> QED
      BY <2>2, <2>5, <2>6, <2>7 DEF Leads
  <1> HIDE DEF f
  <1> QED
    BY <1>2, <1>3, <1>4, <1>5 DEF OnTheWay

\* In a tree there is one way back.
LEMMA WayBack ==
  ASSUME IsTree, NEW p \in Seq(Names), NEW q \in Seq(Names), NEW f, NEW g,
         OnTheWay(p, f), OnTheWay(q, g),
         NEW a \in 1..Len(p), NEW b \in 1..Len(q), a <= b, f[a] = g[b]
  PROVE  /\ a = b
         /\ \A i \in 1..(a - 1) : p[i] = q[i]
  <1>0. Len(p) \in Nat /\ Len(q) \in Nat /\ a \in Nat \ {0} /\ b \in Nat \ {0}
    BY LenProperties
  <1>1. /\ f \in [1..Len(p) -> Directories] /\ g \in [1..Len(q) -> Directories]
        /\ f[1] = Cwd
        /\ \A i \in 1..(Len(p) - 1) : Leads(f[i], p[i], f[i + 1])
        /\ \A i \in 1..(Len(q) - 1) : Leads(g[i], q[i], g[i + 1])
    BY DEF OnTheWay
  <1>2. ASSUME NEW k \in 0..(a - 2), f[a - k] = g[b - k]
        PROVE  f[a - (k + 1)] = g[b - (k + 1)] /\ p[a - (k + 1)] = q[b - (k + 1)]
    <2> DEFINE i == a - (k + 1)
               j == b - (k + 1)
    <2>1. /\ i \in 1..(Len(p) - 1) /\ j \in 1..(Len(q) - 1) /\ i + 1 = a - k /\ j + 1 = b - k
          /\ i \in 1..Len(p) /\ j \in 1..Len(q) /\ i + 1 \in 1..Len(p)
      BY <1>0
    <2>2. Leads(f[i], p[i], f[i + 1]) /\ Leads(g[j], q[j], f[i + 1])
      BY <1>1, <1>2, <2>1
    <2>3. f[i] \in Directories /\ g[j] \in Directories /\ f[i + 1] \in Directories /\ p[i] \in Names /\ q[j] \in Names
      BY <1>1, <2>1, ElementOfSeq
    <2> HIDE DEF i, j
    <2>4. f[i] = g[j] /\ p[i] = q[j]
      BY <2>2, <2>3 DEF IsTree
    <2> QED
      BY <2>4 DEF i, j
  <1>3. \A k \in 0..(a - 1) : f[a - k] = g[b - k]
    <2> DEFINE T == {k \in 0..(a - 1) : f[a - k] # g[b - k]}
    <2> SUFFICES ASSUME T # {} PROVE FALSE
      OBVIOUS
    <2>1. T \in SUBSET Nat
      BY <1>0
    <2>2. PICK k \in T : \A m \in T : k <= m
      BY <2>1, Smallest
    <2>3. k # 0
      BY <1>0, <2>2
    <2>4. k - 1 \in 0..(a - 2) /\ (k - 1) + 1 = k /\ k - 1 \in 0..(a - 1) /\ ~ (k <= k - 1)
      BY <1>0, <2>2, <2>3
    <2>5. f[a - (k - 1)] = g[b - (k - 1)]
      BY <2>2, <2>4
    <2>6. f[a - k] = g[b - k]
      BY <1>2, <2>4, <2>5
    <2> QED
      BY <2>2, <2>6
  <1>4. a = b
    <2> SUFFICES ASSUME a # b PROVE FALSE
      OBVIOUS
    <2> DEFINE j == b - a
    <2>1. /\ a - 1 \in 0..(a - 1) /\ a - (a - 1) = 1 /\ b - (a - 1) = j + 1
          /\ j \in 1..(Len(q) - 1) /\ j \in 1..Len(q)
      BY <1>0
    <2>2. g[j + 1] = Cwd
      BY <1>1, <1>3, <2>1
    <2>3. Leads(g[j], q[j], Cwd) /\ g[j] \in Directories /\ q[j] \in Names
      BY <1>1, <2>1, <2>2, ElementOfSeq
    <2> QED
      BY <2>3 DEF IsTree
  <1>5. ASSUME NEW i \in 1..(a - 1) PROVE p[i] = q[i]
    <2> DEFINE k == a - i - 1
    <2>1. k \in 0..(a - 2) /\ k \in 0..(a - 1) /\ a - (k + 1) = i
      BY <1>0
    <2>2. f[a - k] = g[b - k]
      BY <1>3, <2>1
    <2> HIDE DEF k
    <2>3. p[a - (k + 1)] = q[b - (k + 1)]
      BY <1>2, <2>1, <2>2
    <2> QED
      BY <1>4, <2>1, <2>3
  <1> QED
    BY <1>4, <1>5

LEMMA DistinctPaths ==
  ASSUME IsTree, NEW command, NEW p \in Seq(Names), NEW q \in Seq(Names), p # <<>>, q # <<>>,
         ComesTo(p, command), ComesTo(q, command), DirAt(p) = DirAt(q), Last(p) = Last(q)
  PROVE  p = q
  <1>1. Len(p) \in 1..Len(p) /\ Len(q) \in 1..Len(q) /\ Len(p) \in Nat \ {0} /\ Len(q) \in Nat \ {0}
    BY EmptySeq
  <1>2. PICK f : OnTheWay(p, f)
    BY WayThere
  <1>3. PICK g : OnTheWay(q, g)
    BY WayThere
  <1>4. f[Len(p)] = g[Len(q)]
    BY <1>2, <1>3 DEF OnTheWay
  <1>5. Len(p) = Len(q) /\ \A i \in 1..(Len(p) - 1) : p[i] = q[i]
    <2>1. CASE Len(p) <= Len(q)
      BY <1>1, <1>2, <1>3, <1>4, <2>1, WayBack
    <2>2. CASE Len(q) <= Len(p)
      BY <1>1, <1>2, <1>3, <1>4, <2>2, WayBack
    <2> QED
      BY <1>1, <2>1, <2>2
  <1>6. \A i \in 1..Len(p) : p[i] = q[i]
    <2>1. \A i \in 1..Len(p) : i \in 1..(Len(p) - 1) \/ i = Len(p)
      BY <1>1
    <2>2. p[Len(p)] = q[Len(q)]
      BY DEF Last
    <2> QED
      BY <1>5, <2>1, <2>2
  <1> QED
    BY <1>5, <1>6, SeqEqual

\* A path passes through a directory once.
LEMMA Depth ==
  ASSUME IsTree, IsFiniteSet(Directories),
         NEW command, NEW path \in Seq(Names), path # <<>>, ComesTo(path, command)
  PROVE  path \in Paths(command)
  <1>1. Len(path) \in Nat \ {0} /\ path \in [1..Len(path) -> Names]
    BY EmptySeq, LenProperties
  <1>2. PICK f : OnTheWay(path, f)
    BY WayThere
  <1>3. f \in [1..Len(path) -> Directories]
    BY <1>2 DEF OnTheWay
  <1>4. ASSUME NEW a \in 1..Len(path), NEW b \in 1..Len(path), f[a] = f[b]
        PROVE  a = b
    <2>1. a <= b \/ b <= a
      BY <1>1
    <2>2. CASE a <= b
      BY <1>2, <1>4, <2>2, WayBack
    <2>3. CASE b <= a
      BY <1>2, <1>4, <2>3, WayBack
    <2> QED
      BY <2>1, <2>2, <2>3
  <1>5. f \in Injection(1..Len(path), Directories)
    BY <1>3, <1>4 DEF Injection, IsInjective
  <1>6. Cardinality(1..Len(path)) = Len(path)
    BY <1>1, FS_Interval
  <1>7. Cardinality(1..Len(path)) <= Cardinality(Directories) /\ Cardinality(Directories) \in Nat
    BY <1>5, FS_Injection, FS_CardinalityType
  <1>8. Len(path) \in 1..Cardinality(Directories)
    BY <1>1, <1>6, <1>7
  <1> QED
    BY <1>1, <1>8 DEF Paths
--------------------------------------------------------------------------------
(* What the totals make of one file, when nothing fails.                    *)

IsUsedBy(kind, c) ==
  \/ kind.endings = {c}
  \/ kind.endings = {} /\ c = "NO_CONVENTION"
  \/ Cardinality(kind.endings) > 1 /\ c = "MIXED"

LEMMA Several ==
  ASSUME NEW S \in SUBSET LineEndings
  PROVE  Cardinality(S) > 1 <=> S # {} /\ \A c \in S : S # {c}
  <1>1. IsFiniteSet(LineEndings)
    <2>0. IsFiniteSet({"CR"}) /\ {"CR"} \cup {"LF"} = {"CR", "LF"}
      BY FS_Singleton
    <2>1. IsFiniteSet({"CR", "LF"})
      BY <2>0, FS_AddElement
    <2>2. {"CR", "LF"} \cup {"CRLF"} = LineEndings
      BY DEF LineEndings
    <2> QED
      BY <2>1, <2>2, FS_AddElement
  <1>2. IsFiniteSet(S) /\ Cardinality(S) \in Nat
    BY <1>1, FS_Subset, FS_CardinalityType
  <1>3. Cardinality(S) = 0 <=> S = {}
    BY <1>2, FS_EmptySet
  <1>4. Cardinality(S) = 1 <=> \E c : S = {c}
    BY <1>2, FS_Singleton
  <1>5. (\E c : S = {c}) <=> \E c \in S : S = {c}
    OBVIOUS
  <1> QED
    BY <1>2, <1>3, <1>4, <1>5

LEMMA ConventionOf ==
  ASSUME NEW kind \in Kind, NEW b, NEW e, NEW c \in Conventions
  PROVE  get_source_convention(report_of(b, e, kind.endings).count_by_convention) = c
           <=> IsUsedBy(kind, c)
  <1> DEFINE counts == report_of(b, e, kind.endings).count_by_convention
             S == kind.endings
  <1>1. S \in SUBSET LineEndings
    BY DEF Kind
  <1>0. counts = [x \in LineEndings |-> IF x \in S THEN 1 ELSE 0]
    BY DEF report_of
  <1> HIDE DEF counts
  <1>2. {x \in LineEndings : counts[x] > 0} = S
    <2> HIDE DEF S
    <2>1. ASSUME NEW x \in LineEndings PROVE counts[x] > 0 <=> x \in S
      <3>1. x \in S => counts[x] = 1
        BY <1>0
      <3>2. x \notin S => counts[x] = 0
        BY <1>0
      <3> QED
        BY <3>1, <3>2
    <2> QED
      BY <1>1, <2>1
  <1>3. get_source_convention(counts) =
          IF S = {} THEN "NO_CONVENTION"
          ELSE IF \E x \in S : S = {x} THEN CHOOSE x \in S : TRUE ELSE "MIXED"
    BY <1>2 DEF get_source_convention
  <1>4. Cardinality(S) > 1 <=> S # {} /\ \A x \in S : S # {x}
    BY <1>1, Several
  <1>5. IsUsedBy(kind, c) <=> \/ S = {c}
                              \/ S = {} /\ c = "NO_CONVENTION"
                              \/ Cardinality(S) > 1 /\ c = "MIXED"
    BY DEF IsUsedBy
  <1> HIDE DEF S
  <1>6. CASE S = {}
    BY <1>3, <1>4, <1>5, <1>6 DEF counts
  <1>7. CASE \E x \in S : S = {x}
    <2>1. PICK x \in S : S = {x}
      BY <1>7
    <2>2. (CHOOSE y \in S : TRUE) = x
      BY <2>1
    <2>3. get_source_convention(counts) = x
      BY <1>3, <1>7, <2>1, <2>2
    <2> QED
      BY <1>4, <1>5, <2>1, <2>3 DEF counts
  <1>8. CASE S # {} /\ \A x \in S : S # {x}
    BY <1>3, <1>4, <1>5, <1>8 DEF counts
  <1> QED
    BY <1>6, <1>7, <1>8 DEF counts

\* What the totals take a file for.
Skips(name, kind) == ~ invocation.binaries /\ (kind.binary \/ name \in KnownBinaryNames)
Counts(name, kind, r) ==
  /\ r.outcome = (IF Skips(name, kind) THEN "SKIPPED_BINARY" ELSE "DONE")
  /\ r.outcome = "DONE" => \E b, e : r.file_report = report_of(b, e, kind.endings)

LEMMA FailureSkips ==
  ASSUME NEW name, NEW kind, Skips(name, kind), NEW r \in Failure("SKIPPED_BINARY")
  PROVE  Counts(name, kind, r)
  BY DEF Failure, Result, Counts

LEMMA FullReportCounts ==
  ASSUME NEW name, NEW kind, ~ Skips(name, kind), NEW new,
         NEW r \in Result("DONE", {full_report(kind)}, new)
  PROVE  Counts(name, kind, r)
  BY DEF Result, Counts, full_report

LEMMA ForeignGoesOn ==
  ASSUME NEW kind \in Kind, invocation \in Command, NEW b, ~ b \/ invocation.binaries,
         NEW met \in SUBSET kind.endings,
         NEW c \in Foreign(kind, invocation), met \cap Foreign(kind, invocation) = {c}
  PROVE  pre_conversion_verdict(report_of(b, TRUE, met), invocation) = "CAN_CONTINUE"
  <1> DEFINE scan == report_of(b, TRUE, met)
  <1>1. met \subseteq LineEndings /\ c \in met /\ c \in LineEndings /\ c # invocation.dst_convention
    BY DEF Kind, Foreign
  <1>2. invocation.dst_convention \in Targets
    BY DEF Command
  <1>0. scan.count_by_convention = [x \in LineEndings |-> IF x \in met THEN 1 ELSE 0]
    BY DEF report_of
  <1>3. {x \in LineEndings : scan.count_by_convention[x] > 0} = met
    <2> HIDE DEF scan
    <2> DEFINE counts == scan.count_by_convention
    <2>0. counts = [x \in LineEndings |-> IF x \in met THEN 1 ELSE 0]
      BY <1>0
    <2> HIDE DEF counts
    <2>1. ASSUME NEW x \in LineEndings PROVE counts[x] > 0 <=> x \in met
      <3>1. x \in met => counts[x] = 1
        BY <2>0
      <3>2. x \notin met => counts[x] = 0
        BY <2>0
      <3> QED
        BY <3>1, <3>2
    <2> QED
      BY <1>1, <2>1 DEF counts
  <1>4. scan.error_during_conversion = FALSE /\ scan.contains_non_text_chars = b
    BY DEF report_of
  <1> HIDE DEF scan
  <1> DEFINE source == get_source_convention(scan.count_by_convention)
  <1>5. source = IF \E x \in met : met = {x} THEN CHOOSE x \in met : TRUE ELSE "MIXED"
    BY <1>1, <1>3 DEF get_source_convention
  <1>6. source = c \/ source = "MIXED"
    <2>1. ASSUME NEW x \in met, met = {x} PROVE (CHOOSE y \in met : TRUE) = c
      BY <1>1, <2>1
    <2> QED
      BY <1>5, <2>1
  <1>7. source # "NO_CONVENTION" /\ source # invocation.dst_convention
    BY <1>1, <1>2, <1>6 DEF LineEndings, Targets
  <1> HIDE DEF source
  <1>8. ~ needs_no_conversion(source, scan.has_final_eol, invocation)
    BY <1>7 DEF needs_no_conversion
  <1> QED
    BY <1>4, <1>8 DEF pre_conversion_verdict, source, scan

LEMMA ConversionCounts ==
  ASSUME NEW at, NEW kind \in Kind, invocation \in Command, Faults = {}, TmpFits(at),
         at.name \in KnownBinaryNames => invocation.binaries,
         NEW r \in convert_one_file(at, kind)
  PROVE  Counts(at.name, kind, r)
  <1>1. Skips(at.name, kind) <=> IsUnwantedBinary(kind, invocation)
    BY DEF Skips, IsUnwantedBinary
  <1>2. ~ May("rename")
    BY DEF May
  <1>3. PICK scan \in scan_reports(kind, invocation) :
          LET verdict == pre_conversion_verdict(scan, invocation)
          IN  \/ verdict = "DONE" /\ r \in Result("DONE", {scan}, Nothing)
              \/ verdict \in {"FILEOP_ERROR", "SKIPPED_BINARY"} /\ r \in Failure(verdict)
              \/ /\ verdict = "CAN_CONTINUE" /\ IsUnwantedBinary(kind, invocation)
                 /\ r \in Failure("SKIPPED_BINARY")
              \/ /\ verdict = "CAN_CONTINUE" /\ ~ IsUnwantedBinary(kind, invocation)
                 /\ r \in Result("DONE", {full_report(kind)}, converted(kind, invocation))
    <2>1. \A scan : pre_conversion_verdict(scan, invocation) \in
                      {"DONE", "CAN_CONTINUE", "FILEOP_ERROR", "SKIPPED_BINARY"}
      BY DEF pre_conversion_verdict
    <2>2. PICK scan \in scan_reports(kind, invocation) :
            r \in LET verdict == pre_conversion_verdict(scan, invocation)
                      goes_on == verdict = "CAN_CONTINUE"
                      unwanted == IsUnwantedBinary(kind, invocation)
                  IN  CASE verdict = "DONE" -> Result("DONE", {scan}, Nothing)
                        [] verdict \in {"FILEOP_ERROR", "SKIPPED_BINARY"} -> Failure(verdict)
                        [] goes_on /\ ~ TmpFits(at) -> Failure("FILEOP_ERROR")
                        [] goes_on /\ TmpFits(at) /\ unwanted -> Failure("SKIPPED_BINARY")
                        [] OTHER -> Result("DONE", {full_report(kind)}, converted(kind, invocation))
                                      \cup {q \in Failure("aborted") : May("rename")}
      BY DEF convert_one_file
    <2> DEFINE verdict == pre_conversion_verdict(scan, invocation)
    <2> HIDE DEF verdict
    <2>3. CASE verdict = "CAN_CONTINUE" /\ IsUnwantedBinary(kind, invocation)
      BY <2>2, <2>3 DEF verdict
    <2>4. CASE verdict = "CAN_CONTINUE" /\ ~ IsUnwantedBinary(kind, invocation)
      BY <1>2, <2>2, <2>4 DEF verdict
    <2>5. CASE verdict = "DONE"
      BY <2>2, <2>5 DEF verdict
    <2>6. CASE verdict \in {"FILEOP_ERROR", "SKIPPED_BINARY"}
      BY <2>2, <2>6 DEF verdict
    <2>7. verdict \in {"DONE", "CAN_CONTINUE", "FILEOP_ERROR", "SKIPPED_BINARY"}
      BY <2>1 DEF verdict
    <2> QED
      BY <2>3, <2>4, <2>5, <2>6, <2>7
  <1> DEFINE verdict == pre_conversion_verdict(scan, invocation)
  <1>4. CASE verdict = "CAN_CONTINUE"
    BY <1>1, <1>3, <1>4, FailureSkips, FullReportCounts
  <1>5. CASE Foreign(kind, invocation) = {} /\ ~ IsUnwantedBinary(kind, invocation)
    <2>1. scan = report_of(kind.binary, kind.eol, kind.endings)
      BY <1>3, <1>5 DEF scan_reports
    <2>2. verdict # "FILEOP_ERROR" /\ verdict # "SKIPPED_BINARY"
      BY <1>5, <2>1 DEF pre_conversion_verdict, report_of, IsUnwantedBinary
    <2>3. CASE verdict = "DONE" /\ r \in Result("DONE", {scan}, Nothing)
      <3>1. r.outcome = "DONE" /\ r.file_report = scan
        BY <2>3 DEF Result
      <3> QED
        BY <1>1, <1>5, <2>1, <3>1 DEF Counts
    <2> QED
      BY <1>3, <1>4, <2>2, <2>3
  <1>6. CASE ~ (Foreign(kind, invocation) = {} /\ ~ IsUnwantedBinary(kind, invocation))
    <2>1. scan \in reports_of_a_part(kind, invocation)
      BY <1>3, <1>6 DEF scan_reports
    <2>2. CASE \E met \in SUBSET kind.endings, c \in Foreign(kind, invocation), b \in BOOLEAN :
                 /\ met \cap Foreign(kind, invocation) = {c} /\ (~ b \/ invocation.binaries)
                 /\ scan = report_of(b, TRUE, met)
      BY <1>4, <2>2, ForeignGoesOn
    <2>3. CASE \E met : scan = report_of(TRUE, FALSE, met) /\ IsUnwantedBinary(kind, invocation)
      <3>1. verdict = "SKIPPED_BINARY"
        BY <2>3 DEF pre_conversion_verdict, report_of, IsUnwantedBinary
      <3>2. r \in Failure("SKIPPED_BINARY")
        BY <1>3, <3>1
      <3> QED
        BY <1>1, <2>3, <3>2, FailureSkips
    <2>4. kind.binary \in BOOLEAN /\ invocation.binaries \in BOOLEAN
      BY DEF Kind, Command
    <2>5. kind.binary /\ ~ IsUnwantedBinary(kind, invocation) => invocation.binaries
      BY DEF IsUnwantedBinary
    <2> QED
      BY <2>1, <2>3, <2>2, <2>4, <2>5 DEF reports_of_a_part
  <1> QED
    BY <1>5, <1>6

LEMMA ResultCounts ==
  ASSUME NEW at, NEW kind \in Kind, invocation \in Command, Faults = {},
         invocation.dst_convention # "NO_CONVENTION" => TmpFits(at),
         NEW r \in results(at, kind)
  PROVE  Counts(at.name, kind, r)
  <1>1. ~ May("io")
    BY DEF May
  <1>2. CASE at.name \in KnownBinaryNames /\ ~ invocation.binaries
    <2>1. Skips(at.name, kind) /\ r \in Failure("SKIPPED_BINARY")
      BY <1>2 DEF results, Skips
    <2> QED
      BY <2>1, FailureSkips
  <1>3. CASE ~ (at.name \in KnownBinaryNames /\ ~ invocation.binaries) /\ invocation.dst_convention # "NO_CONVENTION"
    <2>1. r \in convert_one_file(at, kind)
      BY <1>1, <1>3 DEF results
    <2> QED
      BY <1>3, <2>1, ConversionCounts DEF Command
  <1>4. CASE ~ (at.name \in KnownBinaryNames /\ ~ invocation.binaries) /\ invocation.dst_convention = "NO_CONVENTION"
    <2>1. r \in check_one_file(kind)
      BY <1>1, <1>4 DEF results
    <2>2. Skips(at.name, kind) <=> IsUnwantedBinary(kind, invocation)
      BY <1>4 DEF Skips, IsUnwantedBinary
    <2> QED
      BY <2>1, <2>2, FailureSkips, FullReportCounts DEF check_one_file
  <1> QED
    BY <1>2, <1>3, <1>4
--------------------------------------------------------------------------------
(* What is known of a walk through a tree in which nothing fails.           *)

\* What a path is seen as.
ClassOf(path, command) ==
  IF Hides(Last(path), command) THEN "hidden"
  ELSE IF Was(path) = Nothing THEN "unreadable"
  ELSE IF Was(path).is = "directory"
       THEN IF ~ command.recurse THEN "directory"
            ELSE IF Opens(path, command) THEN "walked" ELSE "unopened"
  ELSE IF Was(path).is = "special" THEN "special"
  ELSE IF IsSkipped(path, command) THEN "SKIPPED_BINARY" ELSE "DONE"

\* No name of a temporary file is too long.
Roomy(command) ==
  command.dst_convention # "NO_CONVENTION" =>
    \A path \in Paths(command) :
      ~ Hides(Last(path), command) /\ IsFile(path) => HasRoom(path)

\* What was seen was to be come to, or its name was too long, and it was come to from
\* the directory it is in.
Accounted(s) ==
  /\ s.path # <<>>
  /\ s.class # "too long" =>
       ComesTo(s.path, invocation) /\ s.class = ClassOf(s.path, invocation)
  /\ s.class = "too long" => Len(s.path) > 1 /\ ~ (PathLength(s.path) < MAX_PATH_LENGTH)
  /\ \A path \in Seq(Names), n \in Names :
       path # <<>> /\ s.path = Append(path, n) => Seen(path)

\* A running call has only such entries before it as it has not come to.
Waits(f, i) ==
  /\ Len(f.path) = i /\ f.links = 0 /\ f.length = PathLength(f.path)
  /\ ComesTo(f.path, invocation) /\ Opens(f.path, invocation) /\ Seen(f.path)
  /\ \A n \in f.unread : Tree[f.dir][n] # Nothing /\ ~ Seen(Append(f.path, n))

SightedAs(class) == {s.path : s \in {t \in seen : t.class = class}}

Tallied == {"hidden", "unreadable", "directory", "DONE", "SKIPPED_BINARY", "FILEOP_ERROR"}
count == [class \in Tallied |->
            IF class = "hidden" THEN tracker["skipped_hidden_files_count"]
            ELSE IF class = "unreadable" THEN tracker["read_errors_count"]
            ELSE IF class = "directory" THEN tracker["skipped_directories_count"]
            ELSE outcome_totals[class]]

SightInv == status # "aborted" /\ \A s \in seen : Accounted(s)
WaitInv  == /\ \A i \in DOMAIN stack : Waits(stack[i], i)
            /\ \A i \in DOMAIN arguments : ~ Seen(<<arguments[i]>>)
TotalInv == /\ IsFiniteSet(seen)
            /\ \A class \in Tallied : count[class] = Cardinality(SightedAs(class))
            /\ \A c \in Conventions :
                 convention_totals[c] = Cardinality({p \in SightedAs("DONE") : Uses(p, c)})
CensusInv == SightInv /\ WaitInv /\ TotalInv

\* An entry that is come to for the first time.
First(at) ==
  /\ Coming(at) /\ Placed(at) /\ ~ Seen(at.path)
  /\ at.links = 0 /\ at.length = PathLength(at.path) /\ at.prefix = at.length - strlen[at.name]
  /\ Len(at.path) = Len(at.below) + 1
  /\ \A path \in Seq(Names), n \in Names :
       path # <<>> /\ at.path = Append(path, n) => Seen(path)
  /\ \A j \in DOMAIN at.below :
       /\ Waits(at.below[j], j)
       /\ \A n \in at.below[j].unread : Append(at.below[j].path, n) # at.path

\* Nothing has changed it before.
LEMMA FirstIsOld ==
  ASSUME IsTree, Inv, SightInv, NEW at, First(at), ComesTo(at.path, invocation)
  PROVE  /\ DirAt(at.path) = at.dir /\ Last(at.path) = at.name
         /\ stat(at) = Was(at.path) /\ Was(at.path) = Tree[at.dir][at.name]
         /\ tree[at.dir][at.name] = Tree[at.dir][at.name]
         /\ ~ IsLink(at) /\ LinksOf(at) = 0
         /\ Was(at.path) # Nothing => Was(at.path).is \in {"file", "directory", "special"}
  <1>1. /\ at.path \in Seq(Names) /\ at.path # <<>> /\ at.dir \in Directories /\ at.name \in Names
        /\ at.links = 0
    BY DEF First, Coming, Placed
  <1>2. DirAt(at.path) = at.dir /\ Last(at.path) = at.name
    BY <1>1, DirAtIsIn DEF First, Placed, Last
  <1>3. tree[at.dir][at.name] = Tree[at.dir][at.name]
    <2> SUFFICES ASSUME tree[at.dir][at.name] # Tree[at.dir][at.name] PROVE FALSE
      OBVIOUS
    <2>1. PICK s \in seen : /\ s.class \in {"DONE", "aborted"}
                            /\ DirAt(s.path) = at.dir /\ Last(s.path) = at.name
      BY <1>1 DEF Inv, OnlyEligible
    <2>2. s.path \in Seq(Names) /\ s.path # <<>> /\ ComesTo(s.path, invocation)
      BY <2>1 DEF Inv, WalkInv, Moving, SeenType, Sight, SightInv, Accounted
    <2>3. s.path = at.path
      BY <1>1, <1>2, <2>1, <2>2, DistinctPaths
    <2> QED
      BY <2>3 DEF First, Seen
  <1>4. /\ Tree[at.dir][at.name] \in Entry \cup {Nothing}
        /\ Tree[at.dir][at.name] = Nothing \/ Tree[at.dir][at.name].is # "link"
    BY <1>1, TreeAssumption DEF IsTree
  <1>5. ~ IsLink(at) /\ LinksOf(at) = 0
    BY <1>1, <1>3, <1>4 DEF IsLink, LinksOf
  <1>6. stat(at) = Tree[at.dir][at.name]
    BY <1>3, <1>5, BoundsAssumption DEF stat
  <1>7. Was(at.path) = Tree[at.dir][at.name]
    BY <1>2, <1>4 DEF Was, At, Follow
  <1>8. Tree[at.dir][at.name] # Nothing => Tree[at.dir][at.name].is \in {"file", "directory", "special"}
    BY <1>4 DEF Entry
  <1> QED
    BY <1>2, <1>3, <1>5, <1>6, <1>7, <1>8

\* There is room for what its conversion makes.
LEMMA FirstHasRoom ==
  ASSUME IsTree, IsFiniteSet(Directories), Inv, SightInv, Roomy(invocation),
         NEW at, First(at), ComesTo(at.path, invocation), ~ is_hidden(at),
         stat(at) # Nothing, stat(at).is = "file", invocation.dst_convention # "NO_CONVENTION"
  PROVE  TmpFits(at)
  <1>1. /\ at.path \in Seq(Names) /\ at.path # <<>> /\ at.name \in Names /\ at.length \in Nat
        /\ at.length = PathLength(at.path) /\ at.prefix = at.length - strlen[at.name]
    BY DEF First, Coming, Placed
  <1>2. at.path \in Paths(invocation)
    BY <1>1, Depth
  <1>3. IsFile(at.path) /\ Last(at.path) = at.name
    BY FirstIsOld DEF IsFile
  <1>4. ~ Hides(at.name, invocation)
    BY DEF is_hidden, Hides
  <1>5. HasRoom(at.path)
    BY <1>2, <1>3, <1>4 DEF Roomy
  <1>6. strlen[at.name] \in Nat /\ strlen[TmpName] \in Nat /\ MAX_PATH_LENGTH \in Nat
    BY <1>1, NamesAssumption, BoundsAssumption
  <1> QED
    BY <1>1, <1>3, <1>5, <1>6 DEF HasRoom, TmpFits, FitsInBuffer
\* What a step does to the counters and to the running calls, and what it sees.
Tallies(at, class) ==
  /\ \A k \in Tallied : count'[k] = IF k = class THEN count[k] + 1 ELSE count[k]
  /\ \A c \in Conventions :
       convention_totals'[c] = IF class = "DONE" /\ Uses(at.path, c)
                               THEN convention_totals[c] + 1 ELSE convention_totals[c]
Opened(at) == [path |-> at.path, length |-> at.length, dir |-> Was(at.path).dir, links |-> 0,
               unread |-> Listed(Was(at.path).dir)]
Sights(at, class) ==
  /\ See(at, class) /\ status' = status /\ Tallies(at, class)
  /\ IF class = "walked" THEN stack' = Append(at.below, Opened(at)) ELSE stack' = at.below

LEMMA CountOf ==
  ASSUME CountsType, NEW c \in Counters, tracker' = Increment(tracker, c),
         outcome_totals' = outcome_totals, convention_totals' = convention_totals,
         NEW at, NEW class \in {"hidden", "unreadable", "directory"},
         \/ class = "hidden" /\ c = "skipped_hidden_files_count"
         \/ class = "unreadable" /\ c = "read_errors_count"
         \/ class = "directory" /\ c = "skipped_directories_count"
  PROVE  Tallies(at, class)
  <1>1. \A d \in Counters : tracker'[d] = IF d = c THEN tracker[d] + 1 ELSE tracker[d]
    BY DEF CountsType, Increment
  <1>2. /\ "skipped_hidden_files_count" \in Counters /\ "read_errors_count" \in Counters
        /\ "skipped_directories_count" \in Counters
    BY DEF Counters
  <1>3. \A k \in Tallied : count'[k] = IF k = class THEN count[k] + 1 ELSE count[k]
    BY <1>1, <1>2 DEF count, Tallied
  <1> QED
    BY <1>3 DEF Tallies

LEMMA NotCounted ==
  ASSUME UNCHANGED counters, NEW at, NEW class, class \notin Tallied
  PROVE  Tallies(at, class)
  <1>1. "DONE" \in Tallied
    BY DEF Tallied
  <1>2. count' = count
    BY DEF counters, count
  <1> QED
    BY <1>1, <1>2 DEF Tallies, counters

LEMMA FileSights ==
  ASSUME IsTree, IsFiniteSet(Directories), Faults = {}, Inv, SightInv, Roomy(invocation),
         NEW at, First(at), ComesTo(at.path, invocation), ~ is_hidden(at),
         stat(at) # Nothing, stat(at).is = "file",
         found_a_file_that_needs_processing(at, stat(at).kind)
  PROVE  Sights(at, ClassOf(at.path, invocation))
  <1> DEFINE kind == stat(at).kind
  <1>0. Coming(at) /\ Moving /\ invocation \in Command /\ CountsType /\ at.below \in Seq(Fitting)
    BY DEF First, Inv, WalkInv, Moving, Given, Coming
  <1>1. kind \in Kind
    BY <1>0, StatType DEF Moving, Entry
  <1>2. PICK r \in results(at, kind) :
       /\ See(at, r.outcome)
       /\ IF r.outcome = "aborted"
          THEN TRUE
          ELSE /\ outcome_totals' = Increment(outcome_totals, r.outcome)
               /\ convention_totals' =
                    IF HasReport(r.outcome)
                    THEN Increment(convention_totals,
                                   get_source_convention(r.file_report.count_by_convention))
                    ELSE convention_totals
               /\ IF r.new = Nothing THEN UNCHANGED tree /\ stack' = at.below
                  ELSE Rewritten(at, r.new)
               /\ UNCHANGED status
    BY DEF found_a_file_that_needs_processing
  <1>3. tracker' = Increment(tracker, "processed_count")
    BY DEF found_a_file_that_needs_processing
  <1>4. Was(at.path) = stat(at) /\ Last(at.path) = at.name
    BY FirstIsOld
  <1>5. invocation.dst_convention # "NO_CONVENTION" => TmpFits(at)
    BY FirstHasRoom
  <1> HIDE DEF kind
  <1>6. Counts(at.name, kind, r)
    BY <1>0, <1>1, <1>2, <1>5, ResultCounts
  <1>7. ClassOf(at.path, invocation) = r.outcome
    <2>1. ~ Hides(Last(at.path), invocation)
      BY <1>4 DEF is_hidden, Hides
    <2>2. IsSkipped(at.path, invocation) <=> Skips(at.name, kind)
      BY <1>4 DEF IsSkipped, Skips, kind
    <2>3. ClassOf(at.path, invocation) = IF IsSkipped(at.path, invocation) THEN "SKIPPED_BINARY" ELSE "DONE"
      BY <1>4, <2>1 DEF ClassOf
    <2> QED
      BY <1>6, <2>2, <2>3 DEF Counts
  <1>8. r.outcome \in {"DONE", "SKIPPED_BINARY"}
    BY <1>6 DEF Counts
  <1>9. stack' = at.below
    <2>1. CASE Rewritten(at, r.new)
      <3>1. PICK again \in [DOMAIN at.below -> {{}}] :
              stack' = [i \in DOMAIN at.below |->
                         IF at.below[i].dir = at.dir
                         THEN [at.below[i] EXCEPT !.unread = @ \cup again[i]] ELSE at.below[i]]
        BY <2>1 DEF Rewritten, May
      <3>2. at.below \in [1..Len(at.below) -> Fitting] /\ DOMAIN at.below = 1..Len(at.below)
        BY <1>0, LenProperties
      <3>3. ASSUME NEW i \in DOMAIN at.below
            PROVE  stack'[i] = at.below[i]
        <4> DEFINE f == at.below[i]
        <4>1. f \in Frame
          BY <3>2, <3>3 DEF Fitting
        <4>2. again[i] = {}
          BY <3>1, <3>3
        <4>3. stack'[i] = f \/ stack'[i] = [f EXCEPT !.unread = @ \cup {}]
          BY <3>1, <3>3, <4>2
        <4> HIDE DEF f
        <4>4. [f EXCEPT !.unread = @ \cup {}] = f
          BY <4>1 DEF Frame
        <4> QED
          BY <4>3, <4>4 DEF f
      <3>4. stack' = [i \in DOMAIN at.below |-> stack'[i]]
        BY <3>1
      <3>5. at.below = [i \in DOMAIN at.below |-> at.below[i]]
        BY <3>2
      <3> QED
        BY <3>3, <3>4, <3>5
    <2> QED
      BY <1>2, <1>8, <2>1
  <1>10. Tallies(at, r.outcome)
    <2>1. /\ outcome_totals' = Increment(outcome_totals, r.outcome)
          /\ r.outcome \in FileOp_Status
      BY <1>2, <1>8 DEF FileOp_Status
    <2>2. \A k \in FileOp_Status :
            outcome_totals'[k] = IF k = r.outcome THEN outcome_totals[k] + 1 ELSE outcome_totals[k]
      BY <1>0, <2>1 DEF CountsType, Increment
    <2>3. \A d \in Counters \ {"processed_count"} : tracker'[d] = tracker[d]
      BY <1>0, <1>3 DEF CountsType, Increment
    <2>4. \A k \in Tallied : count'[k] = IF k = r.outcome THEN count[k] + 1 ELSE count[k]
      BY <1>8, <2>2, <2>3 DEF count, Tallied, Counters, FileOp_Status
    <2>5. ASSUME NEW c \in Conventions
          PROVE  convention_totals'[c] = IF r.outcome = "DONE" /\ Uses(at.path, c)
                                         THEN convention_totals[c] + 1 ELSE convention_totals[c]
      <3>1. CASE r.outcome = "DONE"
        <4> DEFINE x == get_source_convention(r.file_report.count_by_convention)
        <4>1. PICK b, e : r.file_report = report_of(b, e, kind.endings)
          BY <1>6, <3>1 DEF Counts
        <4>2. x = c <=> IsUsedBy(kind, c)
          BY <1>1, <4>1, ConventionOf
        <4>3. IsUsedBy(kind, c) <=> Uses(at.path, c)
          BY <1>4 DEF IsUsedBy, Uses, kind
        <4>4. convention_totals' = Increment(convention_totals, x)
          BY <1>2, <3>1 DEF HasReport
        <4> HIDE DEF x
        <4>5. convention_totals'[c] = IF c = x THEN convention_totals[c] + 1 ELSE convention_totals[c]
          BY <1>0, <4>4 DEF CountsType, Increment
        <4> QED
          BY <3>1, <4>2, <4>3, <4>5
      <3>2. CASE r.outcome # "DONE"
        BY <1>2, <1>8, <3>2 DEF HasReport
      <3> QED
        BY <3>1, <3>2
    <2> QED
      BY <2>4, <2>5 DEF Tallies
  <1> QED
    BY <1>2, <1>7, <1>8, <1>9, <1>10 DEF Sights

LEMMA WalkSights ==
  ASSUME IsTree, IsFiniteSet(Directories), Faults = {}, Inv, SightInv, Roomy(invocation),
         NEW at, First(at), ComesTo(at.path, invocation), walk_filename(at)
  PROVE  Sights(at, ClassOf(at.path, invocation))
  <1> DEFINE class == ClassOf(at.path, invocation)
  <1>0. CountsType /\ ~ May("stat") /\ Was(at.path) = stat(at) /\ Last(at.path) = at.name
    BY FirstIsOld DEF Inv, WalkInv, Moving, May
  <1>1. CASE is_hidden(at)
    <2>1. class = "hidden"
      BY <1>0, <1>1 DEF ClassOf, is_hidden, Hides
    <2>2. skip_a_hidden_file(at)
      BY <1>1 DEF walk_filename
    <2>3. Tallies(at, "hidden")
      BY <1>0, <2>2, CountOf DEF skip_a_hidden_file, Counters
    <2> HIDE DEF class
    <2> QED
      BY <2>1, <2>2, <2>3 DEF Sights, skip_a_hidden_file, class
  <1>2. CASE ~ is_hidden(at)
    <2>0. ~ Hides(Last(at.path), invocation)
      BY <1>0, <1>2 DEF is_hidden, Hides
    <2>1. CASE stat(at) = Nothing
      <3>1. class = "unreadable"
        BY <1>0, <2>0, <2>1 DEF ClassOf
      <3>2. found_an_unreadable_file(at)
        BY <1>2, <2>1 DEF walk_filename
      <3>3. Tallies(at, "unreadable")
        BY <1>0, <3>2, CountOf DEF found_an_unreadable_file, Counters
      <3> HIDE DEF class
      <3> QED
        BY <3>1, <3>2, <3>3 DEF Sights, found_an_unreadable_file, class
    <2>2. CASE stat(at) # Nothing /\ stat(at).is = "directory"
      <3>1. found_a_directory(at, stat(at).dir)
        BY <1>0, <1>2, <2>2 DEF walk_filename
      <3>2. CASE ~ invocation.recurse
        <4>1. class = "directory"
          BY <1>0, <2>0, <2>2, <3>2 DEF ClassOf
        <4>2. /\ tracker' = Increment(tracker, "skipped_directories_count")
              /\ See(at, "directory") /\ stack' = at.below
              /\ UNCHANGED <<tree, outcome_totals, convention_totals, status>>
          BY <3>1, <3>2 DEF found_a_directory
        <4>3. Tallies(at, "directory")
          BY <1>0, <4>2, CountOf DEF Counters
        <4> HIDE DEF class
        <4> QED
          BY <4>1, <4>2, <4>3 DEF Sights, class
      <3>3. CASE invocation.recurse
        <4>1. walk_directory(at, stat(at).dir)
          BY <3>1, <3>3 DEF found_a_directory
        <4>2. Opens(at.path, invocation) <=> FitsInBuffer(at.length + 1) /\ stat(at).dir \notin Unopenable
          BY <1>0, <2>0, <2>2, <3>3 DEF Opens, First, FitsInBuffer
        <4>3. class = IF Opens(at.path, invocation) THEN "walked" ELSE "unopened"
          BY <1>0, <2>0, <2>2, <3>3 DEF ClassOf
        <4>4. Tallies(at, class)
          BY <4>1, <4>3, NotCounted DEF walk_directory, Tallied
        <4>5. LinksOf(at) = 0
          BY FirstIsOld
        <4> HIDE DEF class
        <4>6. See(at, class) /\ status' = status
          BY <4>1, <4>2, <4>3 DEF walk_directory
        <4>7. IF class = "walked" THEN stack' = Append(at.below, Opened(at)) ELSE stack' = at.below
          BY <1>0, <4>1, <4>2, <4>3, <4>5 DEF walk_directory, Opened
        <4> QED
          BY <4>4, <4>6, <4>7 DEF Sights, class
      <3> QED
        BY <3>2, <3>3
    <2>3. CASE stat(at) # Nothing /\ stat(at).is = "file"
      <3>1. found_a_file_that_needs_processing(at, stat(at).kind)
        BY <1>0, <1>2, <2>3 DEF walk_filename
      <3> QED
        BY <1>2, <2>3, <3>1, FileSights
    <2>4. CASE stat(at) # Nothing /\ stat(at).is = "special"
      <3>1. ignore(at)
        BY <1>0, <1>2, <2>4 DEF walk_filename
      <3>2. class = "special"
        BY <1>0, <2>0, <2>4 DEF ClassOf
      <3>3. Tallies(at, "special")
        BY <3>1, NotCounted DEF ignore, Tallied
      <3> HIDE DEF class
      <3> QED
        BY <3>1, <3>2, <3>3 DEF Sights, ignore, class
    <2>5. stat(at) # Nothing => stat(at).is \in {"file", "directory", "special"}
      BY <1>0, FirstIsOld
    <2> QED
      BY <2>1, <2>3, <2>2, <2>4, <2>5
  <1> QED
    BY <1>1, <1>2
--------------------------------------------------------------------------------
(* It stays true.                                                           *)

LEMMA SightedIsFinite ==
  ASSUME IsFiniteSet(seen), NEW class
  PROVE  IsFiniteSet(SightedAs(class))
  <1> DEFINE S == {t \in seen : t.class = class}
             f == [s \in S |-> s.path]
  <1>1. IsFiniteSet(S)
    BY FS_Subset
  <1>2. f \in Surjection(S, SightedAs(class))
    BY DEF Surjection, SightedAs
  <1> QED
    BY <1>1, <1>2, FS_Surjection

LEMMA TotalStays ==
  ASSUME TotalInv, NEW at, ~ Seen(at.path), NEW class, See(at, class), Tallies(at, class)
  PROVE  TotalInv'
  <1> DEFINE new == [path |-> at.path, length |-> at.length, class |-> class]
  <1>1. seen' = seen \cup {new} /\ new.path = at.path /\ new.class = class
    BY DEF See
  <1> HIDE DEF new
  <1>2. IsFiniteSet(seen')
    BY <1>1, FS_AddElement DEF TotalInv
  <1>3. \A k : /\ SightedAs(k)' = IF k = class THEN SightedAs(k) \cup {at.path} ELSE SightedAs(k)
               /\ at.path \notin SightedAs(k)
    BY <1>1 DEF SightedAs, Seen
  <1>4. ASSUME NEW k \in Tallied
        PROVE  count'[k] = Cardinality(SightedAs(k)')
    <2>1. IsFiniteSet(SightedAs(k)) /\ count[k] = Cardinality(SightedAs(k))
      BY SightedIsFinite DEF TotalInv
    <2>2. Cardinality(SightedAs(k) \cup {at.path}) = Cardinality(SightedAs(k)) + 1
      BY <1>3, <2>1, FS_AddElement
    <2> QED
      BY <1>3, <2>1, <2>2 DEF Tallies
  <1>5. ASSUME NEW c \in Conventions
        PROVE  convention_totals'[c] = Cardinality({p \in SightedAs("DONE")' : Uses(p, c)})
    <2> DEFINE S == {p \in SightedAs("DONE") : Uses(p, c)}
    <2>1. IsFiniteSet(S) /\ convention_totals[c] = Cardinality(S) /\ at.path \notin S
      <3>1. IsFiniteSet(SightedAs("DONE"))
        BY SightedIsFinite DEF TotalInv
      <3>2. S \subseteq SightedAs("DONE")
        OBVIOUS
      <3> QED
        BY <1>3, <3>1, <3>2, FS_Subset DEF TotalInv
    <2>2. {p \in SightedAs("DONE")' : Uses(p, c)} =
            IF class = "DONE" /\ Uses(at.path, c) THEN S \cup {at.path} ELSE S
      BY <1>3
    <2> HIDE DEF S
    <2>3. Cardinality(S \cup {at.path}) = Cardinality(S) + 1
      BY <2>1, FS_AddElement
    <2> QED
      BY <2>1, <2>2, <2>3 DEF Tallies
  <1> QED
    BY <1>2, <1>4, <1>5 DEF TotalInv

LEMMA SightStays ==
  ASSUME SightInv, invocation' = invocation, status' # "aborted",
         NEW at, First(at), NEW class, See(at, class),
         class # "too long" => ComesTo(at.path, invocation) /\ class = ClassOf(at.path, invocation),
         class = "too long" => Len(at.path) > 1 /\ ~ FitsInBuffer(at.length)
  PROVE  SightInv'
  <1> DEFINE new == [path |-> at.path, length |-> at.length, class |-> class]
  <1>1. seen' = seen \cup {new} /\ new.path = at.path /\ new.class = class
    BY DEF See
  <1> HIDE DEF new
  <1>2. \A path : Seen(path) => Seen(path)'
    BY <1>1 DEF Seen
  <1>3. ASSUME NEW s \in seen
        PROVE  Accounted(s)'
    <2>1. Accounted(s)
      BY DEF SightInv
    <2> QED
      BY <1>2, <2>1 DEF Accounted
  <1>4. Accounted(new)'
    <2>1. at.path # <<>> /\ at.length = PathLength(at.path)
      BY DEF First, Placed
    <2>2. \A path \in Seq(Names), n \in Names :
            path # <<>> /\ at.path = Append(path, n) => Seen(path)'
      BY <1>2 DEF First
    <2> QED
      BY <1>1, <2>1, <2>2 DEF Accounted, FitsInBuffer
  <1> QED
    BY <1>1, <1>3, <1>4 DEF SightInv

\* What is in a directory was in it before the walk.
LEMMA ListedBefore ==
  ASSUME Inv, SightInv, NEW d \in Directories, NEW n \in Listed(d)
  PROVE  Tree[d][n] # Nothing
  <1> SUFFICES ASSUME Tree[d][n] = Nothing PROVE FALSE
    OBVIOUS
  <1>1. n \in Names /\ tree[d][n] # Tree[d][n]
    BY DEF Listed
  <1>2. PICK s \in seen : /\ s.class \in {"DONE", "aborted"}
                          /\ DirAt(s.path) = d /\ Last(s.path) = n
    BY <1>1 DEF Inv, OnlyEligible
  <1>3. s.class = ClassOf(s.path, invocation)
    BY <1>2 DEF SightInv, Accounted
  <1>4. Was(s.path) = Nothing
    BY <1>2 DEF Was, At, Follow
  <1> QED
    BY <1>2, <1>3, <1>4 DEF ClassOf

LEMMA WaitStays ==
  ASSUME Inv, SightInv, WaitInv, invocation' = invocation,
         NEW at, First(at), NEW class, See(at, class),
         class = "walked" => ComesTo(at.path, invocation) /\ Opens(at.path, invocation),
         IF class = "walked" THEN stack' = Append(at.below, Opened(at)) ELSE stack' = at.below,
         \A i \in DOMAIN arguments' : ~ Seen(<<arguments'[i]>>) /\ <<arguments'[i]>> # at.path
  PROVE  WaitInv'
  <1> DEFINE new == [path |-> at.path, length |-> at.length, class |-> class]
             N   == Len(at.below)
  <1>1. seen' = seen \cup {new} /\ new.path = at.path /\ new.class = class
    BY DEF See
  <1> HIDE DEF new
  <1>2. \A path : Seen(path)' <=> Seen(path) \/ path = at.path
    BY <1>1 DEF Seen
  <1>3. at.below \in Seq(Fitting) /\ N \in Nat /\ DOMAIN at.below = 1..N
    BY LenProperties DEF First, Coming
  <1>4. ASSUME NEW i \in 1..N, NEW f, f = at.below[i]
        PROVE  Waits(f, i)'
    <2>1. Waits(f, i) /\ \A n \in f.unread : Append(f.path, n) # at.path
      BY <1>3, <1>4 DEF First
    <2> QED
      BY <1>2, <2>1 DEF Waits
  <1>5. ASSUME class = "walked", NEW f, f = Opened(at)
        PROVE  Waits(f, N + 1)'
    <2>1. /\ f.path = at.path /\ f.length = at.length /\ f.dir = Was(at.path).dir /\ f.links = 0
          /\ f.unread = Listed(Was(at.path).dir)
      BY <1>5 DEF Opened
    <2>2. /\ at.path \in Seq(Names) /\ at.path # <<>> /\ Len(at.path) = N + 1
          /\ at.length = PathLength(at.path) /\ ~ Seen(at.path)
      BY DEF First, Coming, Placed
    <2>3. DirAt(at.path) \in Directories /\ In(at.path, DirAt(at.path))
      BY <1>5, <2>2, ComesIn
    <2>4. Was(at.path).dir \in Directories
      BY <1>5, <2>2, <2>3, Leading
    <2>5. ASSUME NEW n \in Listed(Was(at.path).dir)
          PROVE  Tree[Was(at.path).dir][n] # Nothing /\ ~ Seen(Append(at.path, n))'
      <3>1. Tree[Was(at.path).dir][n] # Nothing /\ n \in Names
        BY <2>4, ListedBefore DEF Listed
      <3>2. Append(at.path, n) # at.path
        <4>1. Len(Append(at.path, n)) = Len(at.path) + 1 /\ Len(at.path) \in Nat
          BY <2>2, <3>1, AppendProperties, LenProperties
        <4> QED
          BY <4>1
      <3>3. ~ Seen(Append(at.path, n))
        BY <2>2, <3>1 DEF SightInv, Accounted, Seen
      <3> QED
        BY <1>2, <3>1, <3>2, <3>3
    <2> QED
      BY <1>2, <1>5, <2>1, <2>2, <2>5 DEF Waits
  <1>6. ASSUME NEW i \in DOMAIN stack', NEW f, f = stack'[i]
        PROVE  Waits(f, i)'
    <2>1. CASE class = "walked"
      <3> DEFINE g == Opened(at)
      <3>1. stack' = Append(at.below, g)
        BY <2>1
      <3> HIDE DEF g
      <3>2. /\ DOMAIN stack' = 1..(N + 1) /\ stack'[N + 1] = g
            /\ \A j \in 1..N : stack'[j] = at.below[j]
        BY <1>3, <3>1
      <3>3. i \in 1..N \/ i = N + 1
        BY <1>3, <1>6, <3>2
      <3>4. CASE i \in 1..N
        BY <1>4, <1>6, <3>2, <3>4
      <3>5. CASE i = N + 1
        <4>1. f = Opened(at)
          BY <1>6, <3>2, <3>5 DEF g
        <4> QED
          BY <1>5, <2>1, <3>5, <4>1
      <3> QED
        BY <3>3, <3>4, <3>5
    <2>2. CASE class # "walked"
      BY <1>3, <1>4, <1>6, <2>2
    <2> QED
      BY <2>1, <2>2
  <1>7. \A i \in DOMAIN arguments' : \A s \in seen' : s.path # <<arguments'[i]>>
    BY <1>1 DEF Seen
  <1> QED
    BY <1>6, <1>7 DEF WaitInv, Waits, Seen
LEMMA ArgumentFirst ==
  ASSUME IsTree, Inv, CensusInv, arguments # <<>>, NEW n \in Names, n = Head(arguments)
  PROVE  /\ First(argument(n)) /\ ComesTo(argument(n).path, invocation)
         /\ \A i \in DOMAIN Tail(arguments) :
              ~ Seen(<<Tail(arguments)[i]>>) /\ <<Tail(arguments)[i]>> # argument(n).path
  <1> DEFINE k == Len(Arguments) - Len(arguments)
             m == Len(arguments)
  <1>1. /\ m \in Nat \ {0} /\ k \in Nat /\ Len(Arguments) = k + m
        /\ \A i \in 1..m : arguments[i] = Arguments[k + i]
    <2>1. ArgumentsInv
      BY DEF Inv, MissInv, CensusInv, SightInv
    <2>2. Len(Arguments) \in Nat /\ m \in Nat \ {0}
      BY EmptySeq, LenProperties, TreeAssumption DEF Inv, WalkInv, Given
    <2> QED
      BY <2>1, <2>2 DEF ArgumentsInv
  <1>2. /\ n = arguments[1] /\ DOMAIN arguments = 1..m /\ DOMAIN Tail(arguments) = 1..(m - 1)
        /\ \A i \in 1..(m - 1) : Tail(arguments)[i] = arguments[i + 1]
    BY HeadTailProperties, LenProperties DEF Inv, WalkInv, Given
  <1>3. DOMAIN Arguments = 1..(k + m)
    BY <1>1, TreeAssumption, LenProperties
  <1> HIDE DEF k, m
  <1>4. n = Arguments[k + 1] /\ k + 1 \in DOMAIN Arguments /\ 1 \in 1..m
    BY <1>1, <1>2, <1>3
  <1>5. /\ argument(n).path = <<n>> /\ argument(n).length = strlen[n] /\ argument(n).prefix = 0
        /\ argument(n).links = 0 /\ argument(n).name = n /\ argument(n).below = <<>>
    BY DEF argument
  <1>6. ComesTo(<<n>>, invocation)
    BY <1>4, ComesToArgument
  <1>7. First(argument(n))
    <2>1. Coming(argument(n)) /\ Placed(argument(n))
      BY ArgumentComes, ArgumentPlaced DEF OnItsWay
    <2>2. ~ Seen(<<n>>)
      BY <1>2, <1>4 DEF CensusInv, WaitInv
    <2>3. /\ strlen[n] = PathLength(<<n>>) /\ 0 = strlen[n] - strlen[n]
      BY LengthOfOne, NamesAssumption
    <2>4. Len(<<n>>) = Len(<<>>) + 1 /\ DOMAIN <<>> = {}
      OBVIOUS
    <2>5. ASSUME NEW path \in Seq(Names), NEW x \in Names, path # <<>>, <<n>> = Append(path, x)
          PROVE  FALSE
      <3>1. Len(path) \in Nat \ {0} /\ Len(Append(path, x)) = Len(path) + 1
        BY <2>5, EmptySeq, AppendProperties
      <3>2. Len(<<n>>) = 1
        OBVIOUS
      <3> QED
        BY <2>5, <3>1, <3>2
    <2> QED
      BY <1>5, <2>1, <2>3, <2>2, <2>4, <2>5 DEF First
  <1>8. ASSUME NEW i \in 1..(m - 1)
        PROVE  ~ Seen(<<Tail(arguments)[i]>>) /\ <<Tail(arguments)[i]>> # <<n>>
    <2>1. i + 1 \in 1..m /\ k + (i + 1) \in 1..(k + m) /\ k + (i + 1) # k + 1
      BY <1>1
    <2>2. Tail(arguments)[i] = arguments[i + 1] /\ arguments[i + 1] = Arguments[k + (i + 1)]
      BY <1>1, <1>2, <2>1
    <2>3. arguments[i + 1] # n
      BY <1>3, <1>4, <2>1, <2>2 DEF IsTree
    <2>4. ~ Seen(<<arguments[i + 1]>>)
      BY <1>2, <2>1 DEF CensusInv, WaitInv
    <2>5. <<arguments[i + 1]>> # <<n>>
      BY <2>3
    <2> QED
      BY <2>2, <2>4, <2>5
  <1> QED
    BY <1>2, <1>5, <1>6, <1>7, <1>8

\* The call that reads an entry has only the others before it then.
LEMMA BelowWaits ==
  ASSUME Inv, CensusInv, stack # <<>>, NEW n \in Top.unread, NEW j \in DOMAIN entry(n).below
  PROVE  /\ Waits(entry(n).below[j], j)
         /\ \A x \in entry(n).below[j].unread : Append(entry(n).below[j].path, x) # entry(n).path
  <1>1. /\ Len(stack) \in 1..Len(stack) /\ DOMAIN stack = 1..Len(stack) /\ Len(stack) \in Nat
        /\ stack \in Seq(Fitting)
    BY EmptySeq, LenProperties DEF Inv, WalkInv, Moving, StackType
  <1>2. \A i \in DOMAIN stack : stack[i] \in Frame /\ Waits(stack[i], i)
    BY <1>1, ElementOfSeq DEF Fitting, CensusInv, WaitInv
  <1> DEFINE f == stack[j]
             g == [f EXCEPT !.unread = @ \ {n}]
             N == Len(stack)
  <1>3. /\ DOMAIN entry(n).below = 1..N /\ entry(n).below[j] = IF j = N THEN g ELSE f
        /\ entry(n).path = Append(stack[N].path, n) /\ n \in stack[N].unread
    BY <1>1 DEF entry, Top
  <1>4. j \in DOMAIN stack /\ f \in Frame /\ Waits(f, j) /\ stack[N] \in Frame /\ Waits(stack[N], N)
    BY <1>1, <1>2, <1>3
  <1>5. /\ g.path = f.path /\ g.length = f.length /\ g.links = f.links /\ g.dir = f.dir
        /\ g.unread = f.unread \ {n}
    BY <1>4 DEF Frame
  <1>6. n \in Names /\ f.path \in Seq(Names) /\ stack[N].path \in Seq(Names) /\ f.unread \subseteq Names
    BY <1>3, <1>4 DEF Frame
  <1>7. Len(f.path) = j /\ Len(stack[N].path) = N
    BY <1>4 DEF Waits
  <1> HIDE DEF f, g
  <1>8. CASE j = N
    <2>1. entry(n).below[j] = g /\ f = stack[N]
      BY <1>3, <1>8 DEF f
    <2>2. Waits(g, j)
      BY <1>4, <1>5 DEF Waits
    <2>3. \A x \in f.unread \ {n} : Append(f.path, x) # Append(stack[N].path, n)
      BY <1>6, <2>1, AppendInjective
    <2> QED
      BY <1>3, <1>5, <2>1, <2>2, <2>3
  <1>9. CASE j # N
    <2>1. entry(n).below[j] = f
      BY <1>3, <1>9
    <2>2. \A x \in f.unread : Append(f.path, x) # Append(stack[N].path, n)
      BY <1>6, <1>7, <1>9, AppendInjective
    <2> QED
      BY <1>3, <1>4, <2>1, <2>2
  <1> QED
    BY <1>8, <1>9

LEMMA EntryFirst ==
  ASSUME IsTree, Inv, CensusInv, stack # <<>>, NEW n \in Top.unread
  PROVE  /\ First(entry(n)) /\ Len(entry(n).path) > 1
         /\ FitsInBuffer(entry(n).length) => ComesTo(entry(n).path, invocation)
         /\ \A i \in DOMAIN arguments :
              ~ Seen(<<arguments[i]>>) /\ <<arguments[i]>> # entry(n).path
  <1>1. /\ Len(stack) \in 1..Len(stack) /\ DOMAIN stack = 1..Len(stack) /\ Len(stack) \in Nat
        /\ stack \in Seq(Fitting)
    BY EmptySeq, LenProperties DEF Inv, WalkInv, Moving, StackType
  <1>2. Top \in Frame /\ Waits(Top, Len(stack)) /\ Called(Top)
    BY <1>1, ElementOfSeq DEF Fitting, CensusInv, WaitInv, Top, Inv, CallInv
  <1>3. /\ entry(n).path = Append(Top.path, n) /\ entry(n).length = Top.length + 1 + strlen[n]
        /\ entry(n).prefix = Top.length + 1 /\ entry(n).links = Top.links /\ entry(n).name = n
    BY Zenon DEF entry
  <1>4. Len(entry(n).below) = Len(stack)
    <2>1. Coming(entry(n)) /\ DOMAIN entry(n).below = DOMAIN stack
      BY EntryComes, CallsBelow DEF Inv, WalkInv, Moving
    <2>2. entry(n).below \in Seq(Fitting)
      BY <2>1 DEF Coming
    <2>3. DOMAIN entry(n).below = 1..Len(entry(n).below) /\ Len(entry(n).below) \in Nat
      BY <2>2, LenProperties
    <2> QED
      BY <1>1, <2>1, <2>3
  <1>5. \A j \in DOMAIN entry(n).below :
          /\ Waits(entry(n).below[j], j)
          /\ \A x \in entry(n).below[j].unread : Append(entry(n).below[j].path, x) # entry(n).path
    BY BelowWaits
  <1>6. Coming(entry(n)) /\ Placed(entry(n))
    BY EntryComes, EntryPlaced DEF Inv, WalkInv, Moving
  <1> DEFINE f == Top
  <1> HIDE DEF f
  <1>7. /\ f.path \in Seq(Names) /\ f.length \in Nat /\ f.dir \in Directories /\ n \in Names
        /\ Len(f.path) = Len(stack) /\ f.links = 0 /\ f.length = PathLength(f.path)
        /\ ComesTo(f.path, invocation) /\ Opens(f.path, invocation) /\ Seen(f.path)
        /\ Tree[f.dir][n] # Nothing /\ ~ Seen(Append(f.path, n)) /\ f.path # <<>>
        /\ LeadsTo(f.path, f.dir)
    BY <1>2 DEF Frame, Waits, Called, f
  <1>8. /\ strlen[n] \in Nat /\ Len(Append(f.path, n)) = Len(f.path) + 1 /\ Len(f.path) \in Nat \ {0}
        /\ PathLength(Append(f.path, n)) = f.length + 1 + strlen[n]
    BY <1>7, NamesAssumption, AppendProperties, EmptySeq, LengthOfMore
  <1>9. \A path \in Seq(Names), x \in Names : Append(f.path, n) = Append(path, x) => Seen(path)
    <2> SUFFICES ASSUME NEW path \in Seq(Names), NEW x \in Names, Append(f.path, n) = Append(path, x)
                 PROVE  Seen(path)
      OBVIOUS
    <2>1. f.path = path
      BY <1>7, AppendInjective
    <2> QED
      BY <1>7, <2>1
  <1>10. First(entry(n))
    <2>1. entry(n).path = Append(f.path, n) /\ entry(n).length = f.length + 1 + strlen[n]
          /\ entry(n).prefix = f.length + 1 /\ entry(n).links = 0 /\ entry(n).name = n
      BY <1>3, <1>7 DEF f
    <2>2. f.length + 1 = (f.length + 1 + strlen[n]) - strlen[n]
      BY <1>7, <1>8
    <2> QED
      BY <1>4, <1>5, <1>6, <1>7, <1>8, <1>9, <2>1, <2>2 DEF First
  <1>11. ASSUME FitsInBuffer(entry(n).length)
         PROVE  ComesTo(Append(f.path, n), invocation)
    <2>1. PathLength(Append(f.path, n)) < MAX_PATH_LENGTH
      BY <1>3, <1>8, <1>11 DEF FitsInBuffer, f
    <2>2. Was(f.path).dir = f.dir
      <3>1. PICK e \in Directories :
              /\ In(f.path, e)
              /\ Follow(Tree[e][f.path[Len(f.path)]]) = [is |-> "directory", dir |-> f.dir]
        BY <1>7 DEF LeadsTo
      <3>2. DirAt(f.path) = e
        BY <1>7, <3>1, DirAtIsIn
      <3> QED
        BY <3>1, <3>2 DEF Was, At, Last
    <2> QED
      BY <1>7, <2>1, <2>2, ComesFurther
  <1>12. ASSUME NEW i \in DOMAIN arguments
         PROVE  ~ Seen(<<arguments[i]>>) /\ <<arguments[i]>> # Append(f.path, n)
    <2>1. ~ Seen(<<arguments[i]>>)
      BY DEF CensusInv, WaitInv
    <2>2. Len(<<arguments[i]>>) = 1 /\ Len(Append(f.path, n)) # 1
      BY <1>8
    <2> QED
      BY <2>1, <2>2
  <1> QED
    BY <1>3, <1>8, <1>10, <1>11, <1>12 DEF f

\* An entry is worked on.
LEMMA CensusWalks ==
  ASSUME IsTree, IsFiniteSet(Directories), Faults = {}, Inv, CensusInv, Roomy(invocation),
         status = "walking", invocation' = invocation,
         NEW at, First(at), ComesTo(at.path, invocation), walk_filename(at),
         \A i \in DOMAIN arguments' : ~ Seen(<<arguments'[i]>>) /\ <<arguments'[i]>> # at.path
  PROVE  CensusInv'
  <1> DEFINE class == ClassOf(at.path, invocation)
  <1>1. Sights(at, class)
    BY WalkSights DEF CensusInv
  <1>2. class # "too long"
    BY DEF ClassOf
  <1>3. class = "walked" => Opens(at.path, invocation)
    BY DEF ClassOf
  <1>4. ~ Seen(at.path)
    BY DEF First
  <1>5. TotalInv'
    BY <1>1, <1>4, TotalStays DEF Sights, CensusInv
  <1>6. SightInv'
    BY <1>1, <1>2, SightStays DEF Sights, CensusInv
  <1>7. WaitInv'
    BY <1>1, <1>3, WaitStays DEF Sights, CensusInv
  <1> QED
    BY <1>5, <1>6, <1>7 DEF CensusInv

LEMMA CensusNext ==
  IsTree /\ IsFiniteSet(Directories) /\ Faults = {}
    => (Inv /\ (Roomy(invocation) => CensusInv) /\ [Next]_vars => (Roomy(invocation) => CensusInv)')
  <1> SUFFICES ASSUME IsTree, IsFiniteSet(Directories), Faults = {},
                      Inv, Roomy(invocation) => CensusInv, [Next]_vars, Roomy(invocation')
               PROVE  CensusInv'
    OBVIOUS
  <1>0. invocation' = invocation
    BY Steps DEF vars, Inv
  <1>1. CensusInv
    BY <1>0
  <1>2. CASE UNCHANGED <<arguments, stack, seen, tracker, outcome_totals, convention_totals, status>>
    <2>1. count' = count /\ \A class : SightedAs(class)' = SightedAs(class)
      BY <1>2 DEF count, SightedAs
    <2>2. \A path : Seen(path)' <=> Seen(path)
      BY <1>2 DEF Seen
    <2>3. TotalInv'
      BY <1>1, <1>2, <2>1 DEF CensusInv, TotalInv
    <2>4. SightInv'
      BY <1>0, <1>1, <1>2, <2>2 DEF CensusInv, SightInv, Accounted, Seen
    <2>5. WaitInv'
      BY <1>0, <1>1, <1>2, <2>2 DEF CensusInv, WaitInv, Waits, Seen
    <2> QED
      BY <2>3, <2>4, <2>5 DEF CensusInv
  <1>3. CASE Next
    <2>0. status = "walking" /\ WalkInv
      BY <1>3, Steps DEF Inv
    <2>1. ASSUME NEW n \in Names, arguments # <<>>, n = Head(arguments), arguments' = Tail(arguments),
                 walk_filename(argument(n))
          PROVE  CensusInv'
      BY <1>0, <1>1, <2>0, <2>1, ArgumentFirst, CensusWalks
    <2>2. ASSUME NEW n \in Top.unread, stack # <<>>, arguments' = arguments,
                 FitsInBuffer(entry(n).length), walk_filename(entry(n))
          PROVE  CensusInv'
      BY <1>0, <1>1, <2>0, <2>2, EntryFirst, CensusWalks
    <2>3. ASSUME NEW n \in Top.unread, stack # <<>>, See(entry(n), "too long"),
                 ~ FitsInBuffer(entry(n).length), stack' = entry(n).below,
                 UNCHANGED <<arguments, tree, counters, status>>
          PROVE  CensusInv'
      <3> DEFINE at == entry(n)
      <3>1. /\ First(at) /\ Len(at.path) > 1
            /\ \A i \in DOMAIN arguments : ~ Seen(<<arguments[i]>>) /\ <<arguments[i]>> # at.path
        BY <1>1, <2>3, EntryFirst
      <3>2. See(at, "too long") /\ ~ FitsInBuffer(at.length) /\ stack' = at.below
        BY <2>3
      <3> HIDE DEF at
      <3>3. Tallies(at, "too long")
        <4>1. UNCHANGED counters /\ "too long" \notin Tallied
          BY <2>3 DEF counters, Tallied
        <4> QED
          BY <4>1, NotCounted
      <3>4. TotalInv'
        BY <1>1, <3>1, <3>2, <3>3, TotalStays DEF First, CensusInv
      <3>5. SightInv'
        BY <1>0, <1>1, <2>0, <2>3, <3>1, <3>2, SightStays DEF CensusInv
      <3>6. WaitInv'
        BY <1>0, <1>1, <2>3, <3>1, <3>2, WaitStays DEF CensusInv
      <3> QED
        BY <3>4, <3>5, <3>6 DEF CensusInv
    <2>4. CASE CloseDir
      <3>1. /\ UNCHANGED <<tree, arguments, counters, seen, status>>
            /\ stack # <<>> /\ stack' = SubSeq(stack, 1, Len(stack) - 1)
        BY <2>4 DEF CloseDir
      <3>2. /\ Len(stack) \in Nat /\ Len(stack) # 0 /\ DOMAIN stack = 1..Len(stack) /\ stack \in Seq(Fitting)
        BY <2>0, <3>1, EmptySeq, LenProperties DEF WalkInv, Moving, StackType
      <3>3. \A i \in 1..(Len(stack) - 1) : stack[i] \in Fitting
        BY <3>2, ElementOfSeq
      <3>4. DOMAIN stack' = 1..(Len(stack) - 1) /\ \A i \in 1..(Len(stack) - 1) : stack'[i] = stack[i]
        BY <3>1, <3>2, <3>3, SubSeqProperties
      <3>5. WaitInv'
        BY <1>0, <1>1, <3>1, <3>2, <3>4 DEF CensusInv, WaitInv, Waits, Seen
      <3>6. SightInv'
        BY <1>0, <1>1, <3>1 DEF CensusInv, SightInv, Accounted, Seen
      <3>7. count' = count /\ \A class : SightedAs(class)' = SightedAs(class)
        BY <3>1 DEF count, counters, SightedAs
      <3>8. TotalInv'
        BY <1>1, <3>1, <3>7 DEF CensusInv, TotalInv, counters
      <3> QED
        BY <3>5, <3>6, <3>8 DEF CensusInv
    <2>5. CASE Finish
      <3>1. UNCHANGED <<tree, arguments, stack, counters, seen>> /\ status' = "done"
        BY <2>5 DEF Finish
      <3>2. WaitInv'
        BY <1>0, <1>1, <3>1 DEF CensusInv, WaitInv, Waits, Seen
      <3>3. SightInv'
        BY <1>0, <1>1, <3>1 DEF CensusInv, SightInv, Accounted, Seen
      <3>4. count' = count /\ \A class : SightedAs(class)' = SightedAs(class)
        BY <3>1 DEF count, counters, SightedAs
      <3>5. TotalInv'
        BY <1>1, <3>1, <3>4 DEF CensusInv, TotalInv, counters
      <3> QED
        BY <3>2, <3>3, <3>5 DEF CensusInv
    <2> QED
      BY <1>3, <2>0, <2>1, <2>3, <2>2, <2>4, <2>5, Steps
  <1> QED
    BY <1>2, <1>3 DEF vars

LEMMA CensusInit == Init => CensusInv
  <1> SUFFICES ASSUME Init PROVE CensusInv
    OBVIOUS
  <1>1. /\ seen = {} /\ stack = <<>> /\ status = "walking"
    BY DEF Init
  <1>2. SightInv
    BY <1>1 DEF SightInv
  <1>3. WaitInv
    BY <1>1 DEF WaitInv, Seen
  <1>4. /\ tracker = [c \in Counters |-> 0] /\ outcome_totals = [s \in FileOp_Status |-> 0]
        /\ convention_totals = [c \in Conventions |-> 0]
    BY DEF Init
  <1>5. \A k \in Tallied : count[k] = 0
    BY <1>4 DEF count, Tallied, Counters, FileOp_Status
  <1>6. \A k : SightedAs(k) = {}
    BY <1>1 DEF SightedAs
  <1>7. \A c : {p \in SightedAs("DONE") : Uses(p, c)} = {}
    BY <1>6
  <1>8. TotalInv
    BY <1>1, <1>4, <1>5, <1>6, <1>7, FS_EmptySet DEF TotalInv
  <1> QED
    BY <1>2, <1>3, <1>8 DEF CensusInv
--------------------------------------------------------------------------------
(* In the end all that was to be come to has been seen.                     *)

LEMMA PathIsSeq ==
  ASSUME NEW command, IsFiniteSet(Directories), NEW path \in Paths(command)
  PROVE  path \in Seq(Names) /\ path # <<>> /\ Len(path) \in Nat \ {0} /\ ComesTo(path, command)
  <1>1. Cardinality(Directories) \in Nat
    BY FS_CardinalityType
  <1>2. PICK k \in 1..Cardinality(Directories) : path \in [1..k -> Names]
    BY DEF Paths
  <1>3. k \in Nat \ {0}
    BY <1>1
  <1>4. path \in Seq(Names) /\ Len(path) = k
    BY <1>2, <1>3
  <1> QED
    BY <1>3, <1>4, EmptySeq DEF Paths

\* It was not too long.
LEMMA SeenInFull ==
  ASSUME SightInv, Inv, NEW s \in seen, ComesTo(s.path, invocation)
  PROVE  s.class = ClassOf(s.path, invocation)
  <1>1. s.path \in Seq(Names) /\ s.path # <<>>
    BY DEF Inv, WalkInv, Moving, SeenType, Sight, SightInv, Accounted
  <1>2. CASE s.class = "too long"
    <2>1. Len(s.path) > 1 /\ ~ (PathLength(s.path) < MAX_PATH_LENGTH)
      BY <1>2 DEF SightInv, Accounted
    <2> DEFINE i == Len(s.path) - 1
    <2>2. i \in 1..(Len(s.path) - 1) /\ i + 1 = Len(s.path)
      BY <1>1, <2>1, LenProperties
    <2>3. PathLength(SubSeq(s.path, 1, i + 1)) < MAX_PATH_LENGTH
      BY <2>2 DEF ComesTo
    <2>4. SubSeq(s.path, 1, Len(s.path)) = s.path
      BY <1>1, SubSeqFull
    <2> QED
      BY <2>1, <2>3, <2>2, <2>4
  <1> QED
    BY <1>2 DEF SightInv, Accounted

LEMMA AllSeen ==
  ASSUME Inv, SightInv, status = "done", NEW path \in Seq(Names), ComesTo(path, invocation),
         NEW i \in 1..Len(path)
  PROVE  Seen(SubSeq(path, 1, i))
  <1> DEFINE T == {j \in 1..Len(path) : ~ Seen(SubSeq(path, 1, j))}
  <1> SUFFICES ASSUME T # {} PROVE FALSE
    OBVIOUS
  <1>0. /\ \A j \in DOMAIN Arguments : Seen(<<Arguments[j]>>)
        /\ \A s \in seen : s.class = "walked" =>
             \A n \in Names : Tree[Was(s.path).dir][n] # Nothing => Seen(Append(s.path, n))
    <2>1. stack = <<>> /\ arguments = <<>> /\ ArgumentsInv /\ EntriesInv
      BY DEF Inv, MissInv, EndInv
    <2>2. DOMAIN stack = {} /\ Len(arguments) = 0
      BY <2>1
    <2>3. Len(Arguments) \in Nat /\ DOMAIN Arguments = 1..Len(Arguments)
      BY TreeAssumption, LenProperties
    <2> QED
      BY <2>1, <2>2, <2>3 DEF EntriesInv, Before, ArgumentsInv
  <1>1. Len(path) \in Nat /\ T \in SUBSET Nat
    BY LenProperties
  <1>2. PICK j \in T : \A k \in T : j <= k
    BY <1>1, Smallest
  <1>3. j # 1
    <2> SUFFICES ASSUME j = 1 PROVE FALSE
      OBVIOUS
    <2>1. SubSeq(path, 1, 1) = <<path[1]>>
      BY <1>1, <1>2, FirstOf
    <2>2. PICK k \in DOMAIN Arguments : path[1] = Arguments[k]
      BY DEF ComesTo
    <2>3. Seen(SubSeq(path, 1, 1))
      BY <1>0, <2>1, <2>2
    <2> QED
      BY <1>2, <2>3
  <1> DEFINE k == j - 1
             q == SubSeq(path, 1, k)
  <1>4. k \in 1..(Len(path) - 1) /\ k \in 1..Len(path) /\ k + 1 = j /\ j \in 1..Len(path) /\ k \notin T
    BY <1>1, <1>2, <1>3
  <1>5. /\ Append(q, path[k + 1]) = SubSeq(path, 1, k + 1) /\ path[k + 1] \in Names
        /\ ComesTo(q, invocation)
    BY <1>4, PrefixOf, ElementOfSeq, ComesToPrefix
  <1>6. Opens(q, invocation) /\ Tree[Was(q).dir][path[k + 1]] # Nothing
    BY <1>4 DEF ComesTo
  <1>7. Seen(q)
    BY <1>4
  <1> HIDE DEF q, k
  <1>8. PICK s \in seen : s.path = q
    BY <1>7 DEF Seen
  <1>9. s.class = "walked"
    <2>1. s.class = ClassOf(q, invocation)
      BY <1>5, <1>8, SeenInFull
    <2> QED
      BY <1>6, <2>1 DEF ClassOf, Opens
  <1>10. Seen(Append(q, path[k + 1]))
    BY <1>0, <1>5, <1>6, <1>8, <1>9
  <1> QED
    BY <1>2, <1>4, <1>5, <1>10

LEMMA LastIndex ==
  ASSUME NEW n \in Nat \ {0}
  PROVE  n \in 1..n
  OBVIOUS

LEMMA WholePath ==
  ASSUME NEW path \in Seq(Names)
  PROVE  SubSeq(path, 1, Len(path)) = path
  BY SubSeqFull

LEMMA SightedPaths ==
  ASSUME IsTree, IsFiniteSet(Directories), Inv, SightInv, status = "done",
         NEW class, class # "too long"
  PROVE  SightedAs(class) = {path \in Paths(invocation) : ClassOf(path, invocation) = class}
  <1>1. ASSUME NEW s \in seen, s.class = class
        PROVE  s.path \in Paths(invocation) /\ ClassOf(s.path, invocation) = class
    <2>1. /\ s.path \in Seq(Names) /\ s.path # <<>> /\ ComesTo(s.path, invocation)
          /\ s.class = ClassOf(s.path, invocation)
      BY <1>1 DEF Inv, WalkInv, Moving, SeenType, Sight, SightInv, Accounted
    <2> QED
      BY <1>1, <2>1, Depth
  <1>2. ASSUME NEW path \in Paths(invocation), ClassOf(path, invocation) = class
        PROVE  path \in SightedAs(class)
    <2>0. path \in Seq(Names) /\ Len(path) \in Nat \ {0} /\ ComesTo(path, invocation)
      BY PathIsSeq
    <2>1. SubSeq(path, 1, Len(path)) = path
      BY <2>0, WholePath
    <2>5. Len(path) \in 1..Len(path)
      BY <2>0, LastIndex
    <2>2. Seen(path)
      BY <2>0, <2>1, <2>5, AllSeen
    <2>3. PICK s \in seen : s.path = path
      BY <2>2 DEF Seen
    <2>4. s.class = class
      BY <1>2, <2>0, <2>3, SeenInFull
    <2> QED
      BY <2>3, <2>4 DEF SightedAs
  <1> QED
    BY <1>1, <1>2 DEF SightedAs

LEMMA CensusIsTrue ==
  ASSUME IsTree, IsFiniteSet(Directories), Inv, Roomy(invocation) => CensusInv
  PROVE  TotalsAreTrue
  <1> DEFINE paths == Paths(invocation)
             shown == {path \in paths : ~ Hidden(Last(path))}
             files == {path \in shown : IsFile(path)}
             texts == {path \in files : ~ IsSkipped(path, invocation)}
             directories == {path \in shown : /\ Was(path) # Nothing /\ Was(path).is = "directory"
                                              /\ ~ invocation.recurse}
             missing == {path \in shown : Was(path) = Nothing}
  <1> SUFFICES ASSUME status = "done",
                      invocation.dst_convention # "NO_CONVENTION" => \A path \in files : HasRoom(path)
               PROVE  /\ totals.done = Cardinality(texts)
                      /\ \A c \in Conventions :
                           totals.count_by_convention[c] = Cardinality({path \in texts : Uses(path, c)})
                      /\ totals.binaries = Cardinality(files \ texts)
                      /\ totals.hidden = Cardinality(paths \ shown)
                      /\ totals.directories = Cardinality(directories)
                      /\ totals.errors = Cardinality(missing)
    BY Zenon DEF TotalsAreTrue
  <1>1. CensusInv
    BY DEF Roomy, Hidden
  <1>2. ASSUME NEW class, class # "too long"
        PROVE  SightedAs(class) = {path \in paths : ClassOf(path, invocation) = class}
    BY <1>1, <1>2, SightedPaths DEF CensusInv
  <1>3. /\ SightedAs("DONE") = texts
        /\ SightedAs("SKIPPED_BINARY") = files \ texts
        /\ SightedAs("hidden") = paths \ shown
        /\ SightedAs("directory") = directories
        /\ SightedAs("unreadable") = missing
        /\ SightedAs("FILEOP_ERROR") = {}
    <2>1. ASSUME NEW path \in paths
          PROVE  /\ ClassOf(path, invocation) = "hidden" <=> path \notin shown
                 /\ ClassOf(path, invocation) = "unreadable" <=> path \in missing
                 /\ ClassOf(path, invocation) = "directory" <=> path \in directories
                 /\ ClassOf(path, invocation) = "DONE" <=> path \in texts
                 /\ ClassOf(path, invocation) = "SKIPPED_BINARY" <=> path \in files \ texts
                 /\ ClassOf(path, invocation) # "FILEOP_ERROR"
      <3>1. Was(path) # Nothing => Was(path).is \in {"file", "directory", "special"}
        <4>1. path \in Seq(Names) /\ path # <<>> /\ Len(path) \in Nat \ {0} /\ ComesTo(path, invocation)
          BY PathIsSeq
        <4>2. DirAt(path) \in Directories /\ Last(path) \in Names
          BY <4>1, ComesIn, ElementOfSeq DEF Last
        <4>3. /\ At(path) \in Entry \cup {Nothing} /\ (At(path) = Nothing \/ At(path).is # "link")
              /\ Was(path) = At(path)
          BY <4>2, TreeAssumption DEF IsTree, At, Was, Follow
        <4> QED
          BY <4>3 DEF Entry
      <3> QED
        BY <3>1 DEF ClassOf, IsFile, Hidden
    <2>2. /\ texts \subseteq paths /\ files \ texts \subseteq paths /\ paths \ shown \subseteq paths
          /\ directories \subseteq paths /\ missing \subseteq paths
      BY Zenon
    <2>3. /\ SightedAs("DONE") = {path \in paths : ClassOf(path, invocation) = "DONE"}
          /\ SightedAs("SKIPPED_BINARY") = {path \in paths : ClassOf(path, invocation) = "SKIPPED_BINARY"}
          /\ SightedAs("hidden") = {path \in paths : ClassOf(path, invocation) = "hidden"}
          /\ SightedAs("directory") = {path \in paths : ClassOf(path, invocation) = "directory"}
          /\ SightedAs("unreadable") = {path \in paths : ClassOf(path, invocation) = "unreadable"}
          /\ SightedAs("FILEOP_ERROR") = {path \in paths : ClassOf(path, invocation) = "FILEOP_ERROR"}
      <3> HIDE DEF paths
      <3> QED
        BY <1>2
    <2> HIDE DEF paths, shown, files, texts, directories, missing
    <2>4. SightedAs("DONE") = texts
      BY <2>1, <2>2, <2>3
    <2>5. SightedAs("SKIPPED_BINARY") = files \ texts
      BY <2>1, <2>2, <2>3
    <2>6. SightedAs("hidden") = paths \ shown
      BY <2>1, <2>2, <2>3
    <2>7. SightedAs("directory") = directories /\ SightedAs("unreadable") = missing
      BY <2>1, <2>2, <2>3
    <2>8. SightedAs("FILEOP_ERROR") = {}
      BY <2>1, <2>3
    <2> QED
      BY <2>4, <2>5, <2>6, <2>7, <2>8
  <1>4. \A class \in Tallied : count[class] = Cardinality(SightedAs(class))
    BY <1>1 DEF CensusInv, TotalInv
  <1>5. /\ outcome_totals["DONE"] = Cardinality(SightedAs("DONE"))
        /\ outcome_totals["SKIPPED_BINARY"] = Cardinality(SightedAs("SKIPPED_BINARY"))
        /\ outcome_totals["FILEOP_ERROR"] = Cardinality(SightedAs("FILEOP_ERROR"))
        /\ tracker["skipped_hidden_files_count"] = Cardinality(SightedAs("hidden"))
        /\ tracker["read_errors_count"] = Cardinality(SightedAs("unreadable"))
        /\ tracker["skipped_directories_count"] = Cardinality(SightedAs("directory"))
    BY <1>4 DEF count, Tallied
  <1>6. /\ totals.done = outcome_totals["DONE"] /\ totals.binaries = outcome_totals["SKIPPED_BINARY"]
        /\ totals.hidden = tracker["skipped_hidden_files_count"]
        /\ totals.directories = tracker["skipped_directories_count"]
        /\ totals.errors = outcome_totals["FILEOP_ERROR"] + tracker["read_errors_count"]
        /\ totals.count_by_convention = convention_totals
    BY DEF totals
  <1>7. \A c \in Conventions :
          convention_totals[c] = Cardinality({path \in SightedAs("DONE") : Uses(path, c)})
    BY <1>1 DEF CensusInv, TotalInv
  <1>8. outcome_totals["FILEOP_ERROR"] = 0 /\ tracker["read_errors_count"] \in Nat
    BY <1>3, <1>5, FS_EmptySet DEF Inv, WalkInv, Moving, CountsType, Counters
  <1> HIDE DEF paths, shown, files, texts, directories, missing
  <1>9. totals.errors = Cardinality(missing)
    BY <1>3, <1>5, <1>6, <1>8
  <1> QED
    BY <1>3, <1>5, <1>6, <1>7, <1>9

\* In every tree of any size and depth in which nothing fails and no conversion is refused
\* its temporary file: the totals are those of what was there before the walk.
THEOREM TotalsAreAlwaysTrue ==
  ASSUME IsTree, IsFiniteSet(Directories), Faults = {}
  PROVE  Spec => []TotalsAreTrue
  <1>1. Init => Inv /\ (Roomy(invocation) => CensusInv)
    BY CensusInit, WalkInit, MissInit DEF Inv
  <1>2. Inv /\ (Roomy(invocation) => CensusInv) /\ [Next]_vars
          => Inv' /\ (Roomy(invocation) => CensusInv)'
    BY CensusNext, InvNext
  <1>3. Inv /\ (Roomy(invocation) => CensusInv) => TotalsAreTrue
    BY CensusIsTrue
  <1> QED
    BY <1>1, <1>2, <1>3, PTL DEF Spec
================================================================================
