---------------------------- MODULE CommandLineProofs ----------------------------
(***************************************************************************)
(* Proofs about the reading of a command line, for command lines of any    *)
(* length over any words.                                                  *)
(***************************************************************************)
EXTENDS CommandLineProperties, SequenceTheorems, FiniteSetTheorems,
        WellFoundedInduction, TLAPS

--------------------------------------------------------------------------------
(* What comes before the first equal sign.                                 *)

Below == {x \in Nat \X Nat : x[1] < x[2]}

LEMMA MinIs ==
  ASSUME NEW T \in SUBSET Nat, T # {}
  PROVE  Min(T) \in T /\ \A m \in T : Min(T) <= m
  <1>1. IsWellFoundedOn(OpToRel(<, Nat), Nat)
    BY NatLessThanWellFounded
  <1>2. OpToRel(<, Nat) = Below
    BY DEF OpToRel, Below
  <1>3. PICK n \in T : \A m \in T : <<m, n>> \notin Below
    BY <1>1, <1>2, WFMin
  <1>4. \A m \in T : <<m, n>> \in Below <=> m < n
    BY DEF Below
  <1>5. \A m \in T : ~ (m < n)
    BY <1>3, <1>4
  <1>6. n \in Nat /\ \A m \in T : m \in Nat
    OBVIOUS
  <1>7. \A m \in T : n <= m
    BY <1>5, <1>6
  <1>8. Min(T) = CHOOSE x \in T : \A y \in T : x <= y
    BY DEF Min
  <1> QED
    BY <1>7, <1>8

LEMMA FlagsType ==
  ASSUME NEW names \in Seq(Names \cup {"="})
  PROVE  Flags(names) \in Seq(Names)
  <1> DEFINE I == {k \in 1..Len(names) : names[k] = "="}
             end == SelectInSeq(names, LAMBDA n : n = "=")
  <1>1. end = IF I # {} THEN Min(I) ELSE 0
    BY DEF SelectInSeq
  <1>2. Len(names) \in Nat /\ \A k \in 1..Len(names) : names[k] \in Names \cup {"="}
    BY LenProperties, ElementOfSeq
  <1>3. Flags(names) = IF end = 0 THEN names ELSE SubSeq(names, 1, end - 1)
    BY DEF Flags
  <1> HIDE DEF end
  <1>4. CASE I = {}
    <2>1. Flags(names) = names
      BY <1>1, <1>3, <1>4
    <2>2. \A k \in 1..Len(names) : names[k] \in Names
      BY <1>2, <1>4
    <2>3. names = [k \in 1..Len(names) |-> names[k]]
      BY LenProperties
    <2>4. [k \in 1..Len(names) |-> names[k]] \in Seq(Names)
      BY <2>2, <1>2, IsASeq
    <2> QED
      BY <2>1, <2>3, <2>4
  <1>5. CASE I # {}
    <2>1. I \in SUBSET Nat
      BY <1>2
    <2>2. Min(I) \in I /\ \A m \in I : Min(I) <= m
      BY <2>1, <1>5, MinIs
    <2>3. end \in 1..Len(names) /\ \A m \in I : end <= m
      BY <2>2, <1>1, <1>5
    <2>4. Flags(names) = SubSeq(names, 1, end - 1)
      <3>1. end # 0
        BY <2>3
      <3> QED
        BY <3>1, <1>3
    <2>5. ASSUME NEW k \in 1 .. end - 1
          PROVE  names[k] \in Names
      <3>1. k \in 1..Len(names) /\ ~ (end <= k)
        BY <2>3, <1>2
      <3>2. k \notin I
        BY <3>1, <2>3
      <3> QED
        BY <3>1, <3>2, <1>2
    <2>6. 1 \in Int /\ end - 1 \in Int
      BY <2>3
    <2> QED
      BY <2>4, <2>5, <2>6, SubSeqProperties
  <1> QED
    BY <1>4, <1>5

--------------------------------------------------------------------------------
(* Type correctness.                                                       *)

LEMMA ShortFlagsAre ==
  /\ DOMAIN ShortFlags = {"f", "q", "v", "k", "b", "r", "h"}
  /\ \A letter \in DOMAIN ShortFlags : ShortFlags[letter] \in Options
  BY DEF ShortFlags, Options

LEMMA ArgIs ==
  ASSUME TypeOK, i <= Len(argv)
  PROVE  /\ i \in 1..Len(argv) /\ Arg \in Argument
         /\ Arg.dashes \in 0..2 /\ Arg.names \in Seq(Names \cup {"="})
         /\ Arg.dashes = 0 => Arg.names[1] \in Words
         /\ i + 1 \in 1..Len(argv) + 1
  <1>1. argv \in Seq(Argument) /\ i \in 1..Len(argv) + 1
    BY DEF TypeOK
  <1>2. Len(argv) \in Nat
    BY <1>1, LenProperties
  <1>3. i \in 1..Len(argv) /\ i + 1 \in 1..Len(argv) + 1
    BY <1>1, <1>2
  <1>4. Arg \in Argument
    BY <1>1, <1>3, ElementOfSeq DEF Arg
  <1>5. /\ Arg.dashes \in 0..2 /\ Arg.names \in Seq(Names \cup {"="})
        /\ Arg.dashes = 0 => \E word \in Words : Arg.names = <<word>>
    BY <1>4 DEF Argument
  <1>6. Arg.dashes = 0 => Arg.names[1] \in Words
    BY <1>5
  <1> QED
    BY <1>3, <1>4, <1>5, <1>6

LEMMA TypeInit == Init => TypeOK
  <1> SUFFICES ASSUME Init
               PROVE  TypeOK
    OBVIOUS
  <1>1. argv \in Seq(Argument) /\ i = 1 /\ Len(argv) \in Nat
    BY ArgvAssumption, LenProperties DEF Init
  <1>2. i \in 1..Len(argv) + 1
    BY <1>1
  <1>3. short_flags \in Seq(Names) /\ filenames \in Seq(Words)
    BY EmptySeq DEF Init
  <1>4. given \subseteq Options /\ dst_convention \in Targets /\ dst_convention_specified \in BOOLEAN
    BY DEF Init, Targets
  <1>5. status \in {"parsing"} \cup Endings \cup Modes
    BY DEF Init, Endings
  <1> QED
    BY <1>1, <1>2, <1>3, <1>4, <1>5 DEF TypeOK

Statuses == {"parsing"} \cup Endings \cup Modes

LEMMA FlagType ==
  ASSUME given \subseteq Options, status \in Statuses, NEW flag \in LongFlags, got_flag(flag)
  PROVE  given' \subseteq Options /\ status' \in Statuses
  BY DEF got_flag, LongFlags, Statuses, Endings

LEMMA UnknownType ==
  ASSUME given \subseteq Options, unknown_option
  PROVE  given' \subseteq Options /\ status' \in Statuses
  BY DEF unknown_option, Statuses, Endings

\* Type correctness, and that what is left of short flags is of an argument.
TypeInv == TypeOK /\ (short_flags # <<>> => i <= Len(argv) /\ Arg.dashes = 1)

LEMMA TypeNext == TypeInv /\ [Next]_vars => TypeInv'
  <1> DEFINE Left == short_flags # <<>> => i <= Len(argv) /\ Arg.dashes = 1
             Goal == /\ argv' \in Seq(Argument) /\ i' \in 1..Len(argv') + 1
                     /\ short_flags' \in Seq(Names) /\ filenames' \in Seq(Words)
                     /\ given' \subseteq Options /\ status' \in Statuses
                     /\ dst_convention' \in Targets /\ dst_convention_specified' \in BOOLEAN
  <1> SUFFICES ASSUME TypeOK, Left, [Next]_vars
               PROVE  Goal /\ Left'
    BY DEF TypeInv, TypeOK, Statuses
  <1>1. /\ argv \in Seq(Argument) /\ i \in 1..Len(argv) + 1
        /\ short_flags \in Seq(Names) /\ filenames \in Seq(Words)
        /\ given \subseteq Options /\ status \in Statuses
        /\ dst_convention \in Targets /\ dst_convention_specified \in BOOLEAN
    BY DEF TypeOK, Statuses
  <1>2. CASE process_long_flag
    <2>1. /\ argv' = argv /\ i' = i + 1 /\ i <= Len(argv) /\ short_flags = <<>>
          /\ short_flags' = short_flags /\ filenames' = filenames
          /\ dst_convention' = dst_convention
          /\ dst_convention_specified' = dst_convention_specified
      BY <1>2 DEF process_long_flag, Reading, NextArg
    <2>2. i + 1 \in 1..Len(argv) + 1
      BY <2>1, ArgIs
    <2>3. \/ Flags(Arg.names)[1] \in LongFlags /\ got_flag(Flags(Arg.names)[1])
          \/ unknown_option
      BY <1>2 DEF process_long_flag
    <2>4. given' \subseteq Options /\ status' \in Statuses
      BY <2>3, <1>1, FlagType, UnknownType
    <2>5. i' \in 1..Len(argv') + 1
      BY <2>1, <2>2
    <2> QED
      BY <1>1, <2>1, <2>4, <2>5
  <1>3. CASE process_short_flags
    <2>1. /\ argv' = argv /\ i <= Len(argv) /\ short_flags' = Flags(Arg.names)
          /\ Arg.dashes = 1
          /\ IF Flags(Arg.names) = <<>> THEN i' = i + 1 ELSE i' = i
          /\ filenames' = filenames /\ dst_convention' = dst_convention
          /\ dst_convention_specified' = dst_convention_specified
          /\ given' = given /\ status' = status
      BY <1>3 DEF process_short_flags, Reading, NextArg
    <2>2. i + 1 \in 1..Len(argv) + 1 /\ short_flags' \in Seq(Names)
      BY <2>1, ArgIs, FlagsType
    <2>3. i' \in 1..Len(argv') + 1
      BY <1>1, <2>1, <2>2
    <2>4. short_flags' # <<>> => i' <= Len(argv') /\ Arg'.dashes = 1
      BY <2>1 DEF Arg
    <2> QED
      BY <1>1, <2>1, <2>3, <2>2, <2>4
  <1>4. CASE process_short_flag
    <2>1. /\ argv' = argv /\ short_flags # <<>> /\ short_flags' = Tail(short_flags)
          /\ IF Tail(short_flags) = <<>> THEN i' = i + 1 ELSE i' = i
          /\ filenames' = filenames /\ dst_convention' = dst_convention
          /\ dst_convention_specified' = dst_convention_specified
      BY <1>4 DEF process_short_flag, NextArg
    <2>2. short_flags' \in Seq(Names)
      BY <2>1, <1>1, HeadTailProperties
    <2>3. \/ Head(short_flags) \in DOMAIN ShortFlags /\ got_flag(ShortFlags[Head(short_flags)])
          \/ unknown_option
      BY <1>4 DEF process_short_flag
    <2>4. given' \subseteq Options /\ status' \in Statuses
      <3>1. ASSUME Head(short_flags) \in DOMAIN ShortFlags
            PROVE  ShortFlags[Head(short_flags)] \in LongFlags
        BY <3>1, ShortFlagsAre DEF LongFlags
      <3> QED
        BY <2>3, <3>1, <1>1, FlagType, UnknownType
    <2>5. i <= Len(argv) /\ Arg.dashes = 1
      BY <2>1
    <2>6. i + 1 \in 1..Len(argv) + 1
      BY <2>5, ArgIs
    <2>7. i' \in 1..Len(argv') + 1
      BY <1>1, <2>1, <2>6
    <2>8. short_flags' # <<>> => i' <= Len(argv') /\ Arg'.dashes = 1
      BY <2>1, <2>5 DEF Arg
    <2> QED
      BY <1>1, <2>1, <2>2, <2>4, <2>7, <2>8
  <1>5. CASE got_non_flag_arg
    <2>1. /\ argv' = argv /\ i' = i + 1 /\ i <= Len(argv) /\ Arg.dashes = 0
          /\ short_flags = <<>> /\ short_flags' = short_flags /\ given' = given
      BY <1>5 DEF got_non_flag_arg, read_convention_from_string, Reading, NextArg
    <2>2. Arg.names[1] \in Words /\ i + 1 \in 1..Len(argv) + 1
      BY <2>1, ArgIs
    <2>3. filenames' = filenames \/ filenames' = Append(filenames, Arg.names[1])
      BY <1>5 DEF got_non_flag_arg, read_convention_from_string
    <2>4. filenames' \in Seq(Words)
      <3>1. Append(filenames, Arg.names[1]) \in Seq(Words)
        BY <2>2, <1>1, AppendProperties
      <3> QED
        BY <3>1, <2>3, <1>1
    <2>5. /\ \/ Arg.names[1] \in DOMAIN cl_names /\ dst_convention' = cl_names[Arg.names[1]]
             \/ dst_convention' = dst_convention
          /\ dst_convention_specified' \in {TRUE, dst_convention_specified}
          /\ status' \in {"unknown action", status}
      BY <1>5 DEF got_non_flag_arg, read_convention_from_string
    <2>6. dst_convention' \in Targets
      BY <2>5, <1>1, NamesAssumption
    <2>7. dst_convention_specified' \in BOOLEAN
      BY <2>5, <1>1
    <2>8. status' \in Statuses
      BY <2>5, <1>1 DEF Statuses, Endings
    <2>9. i' \in 1..Len(argv') + 1
      BY <2>1, <2>2
    <2>10. argv' \in Seq(Argument) /\ short_flags' \in Seq(Names) /\ given' \subseteq Options
      BY <1>1, <2>1
    <2>11. Left'
      BY <2>1
    <2> QED
      BY <2>4, <2>6, <2>7, <2>8, <2>9, <2>10, <2>11
  <1>6. CASE Dispatch
    <2>1. status' \in Statuses
      BY <1>6 DEF Dispatch, Statuses, Endings, Modes
    <2>2. /\ argv' = argv /\ i' = i /\ short_flags' = short_flags /\ filenames' = filenames
          /\ given' = given /\ dst_convention' = dst_convention
          /\ dst_convention_specified' = dst_convention_specified
          /\ short_flags = <<>>
      BY <1>6 DEF Dispatch
    <2> QED
      BY <1>1, <2>1, <2>2
  <1>7. CASE UNCHANGED vars
    <2>1. Left'
      BY <1>7 DEF vars, Arg
    <2> QED
      BY <1>1, <1>7, <2>1 DEF vars
  <1> QED
    BY <1>2, <1>3, <1>4, <1>5, <1>6, <1>7 DEF Next

\* The state of the parser is what its declarations say, and it never looks behind the
\* last argument.
THEOREM TypeCorrect == Spec => []TypeOK
  <1>1. Init => TypeInv
    BY TypeInit DEF TypeInv, Init
  <1>2. TypeInv => TypeOK
    BY DEF TypeInv
  <1> QED
    BY <1>1, <1>2, TypeNext, PTL DEF Spec

--------------------------------------------------------------------------------
(* What ends the process.                                                  *)

NoReason(k) == \A why \in Reasons : ~ Ends(k, why)

\* The argument that is looked at.
LEMMA ReasonsOfArg ==
  /\ Ends(i, "help") <=> Has(Arg, "help")
  /\ Ends(i, "version") <=> Has(Arg, "version")
  /\ Ends(i, "unknown option") <=> HasUnknown(Arg)
  /\ Ends(i, "unknown action") <=> /\ Arg.dashes = 0 /\ Arg.names[1] \notin DOMAIN cl_names
                                   /\ \A j \in 1..i - 1 : ~ IsWord(argv[j])
  BY DEF Ends, Arg, IsWord

LEMMA NoReasonOfArg ==
  ASSUME ~ Ends(i, "help"), ~ Ends(i, "version"), ~ Ends(i, "unknown option"),
         ~ Ends(i, "unknown action")
  PROVE  NoReason(i)
  BY DEF NoReason, Reasons

LEMMA ShortIsNoLong ==
  ASSUME NEW n \in DOMAIN ShortFlags
  PROVE  ShortFlags[n] \notin {"help", "version"}
  BY DEF ShortFlags

LEMMA LongFlagKnown ==
  ASSUME Arg.dashes = 2, NEW flag \in LongFlags, Flags(Arg.names) = <<flag>>
  PROVE  /\ flag \in Options => NoReason(i)
         /\ flag \notin Options => flag \in {"help", "version"} /\ Ends(i, flag)
  <1>1. \A f : Has(Arg, f) <=> f = flag
    <2>1. Arg.dashes # 1
      OBVIOUS
    <2>2. \A f : Has(Arg, f) <=> Flags(Arg.names) = <<f>>
      BY <2>1 DEF Has
    <2> QED
      BY <2>2
  <1>2. ~ HasUnknown(Arg)
    BY <1>1 DEF HasUnknown
  <1>3. ASSUME flag \in Options
        PROVE  NoReason(i)
    <2>1. flag # "help" /\ flag # "version"
      BY <1>3 DEF Options
    <2>2. Arg.dashes # 0
      OBVIOUS
    <2>3. /\ ~ Ends(i, "help") /\ ~ Ends(i, "version")
          /\ ~ Ends(i, "unknown option") /\ ~ Ends(i, "unknown action")
      BY <2>1, <2>2, <1>1, <1>2, ReasonsOfArg
    <2> QED
      BY <2>3, NoReasonOfArg
  <1>4. ASSUME flag \notin Options
        PROVE  flag \in {"help", "version"} /\ Ends(i, flag)
    <2>1. flag \in {"help", "version"}
      BY <1>4 DEF LongFlags
    <2> QED
      BY <2>1, <1>1, ReasonsOfArg
  <1> QED
    BY <1>3, <1>4

LEMMA LongFlagUnknown ==
  ASSUME Arg.dashes = 2, Flags(Arg.names) \in Seq(Names),
         ~ (Len(Flags(Arg.names)) = 1 /\ Flags(Arg.names)[1] \in LongFlags)
  PROVE  Ends(i, "unknown option")
  <1>1. ASSUME NEW flag \in LongFlags
        PROVE  ~ Has(Arg, flag)
    <2>1. Flags(Arg.names) # <<flag>>
      OBVIOUS
    <2> QED
      BY <2>1 DEF Has
  <1> QED
    BY <1>1, ReasonsOfArg DEF HasUnknown

LEMMA ShortFlagsKnown ==
  ASSUME Arg.dashes = 1, Flags(Arg.names) \in Seq(Names),
         \A j \in 1..Len(Flags(Arg.names)) : Flags(Arg.names)[j] \in DOMAIN ShortFlags
  PROVE  NoReason(i)
  <1>1. ToSet(Flags(Arg.names)) \subseteq DOMAIN ShortFlags
    BY LenProperties DEF ToSet
  <1>2. ~ HasUnknown(Arg)
    BY <1>1 DEF HasUnknown
  <1>3. ~ Has(Arg, "help") /\ ~ Has(Arg, "version")
    BY ShortIsNoLong DEF Has
  <1>4. Arg.dashes # 0
    OBVIOUS
  <1>5. /\ ~ Ends(i, "help") /\ ~ Ends(i, "version")
        /\ ~ Ends(i, "unknown option") /\ ~ Ends(i, "unknown action")
    BY <1>2, <1>3, <1>4, ReasonsOfArg
  <1> QED
    BY <1>5, NoReasonOfArg

LEMMA ShortFlagUnknown ==
  ASSUME Arg.dashes = 1, Flags(Arg.names) \in Seq(Names),
         NEW j \in 1..Len(Flags(Arg.names)), Flags(Arg.names)[j] \notin DOMAIN ShortFlags
  PROVE  Ends(i, "unknown option")
  <1>1. Flags(Arg.names)[j] \in ToSet(Flags(Arg.names))
    BY LenProperties DEF ToSet
  <1> QED
    BY <1>1, ReasonsOfArg DEF HasUnknown

LEMMA WordKnown ==
  ASSUME Arg.dashes = 0,
         \/ Arg.names[1] \in DOMAIN cl_names
         \/ \E j \in 1..i - 1 : IsWord(argv[j])
  PROVE  NoReason(i)
  <1>1. ~ HasUnknown(Arg) /\ ~ Has(Arg, "help") /\ ~ Has(Arg, "version")
    BY DEF HasUnknown, Has
  <1> QED
    BY <1>1, ReasonsOfArg, NoReasonOfArg

\* How far the short flags of the argument have been read.
Letters == Flags(Arg.names)
Read    == IF short_flags = <<>> THEN 0 ELSE Len(Letters) - Len(short_flags)

Pending ==
  status = "parsing" /\ short_flags # <<>> =>
    /\ Read \in 0 .. Len(Letters) - 1
    /\ \A j \in 1 .. Len(short_flags) : short_flags[j] = Letters[Read + j]
    /\ \A j \in 1 .. Read : Letters[j] \in DOMAIN ShortFlags

Alive  == status \in {"parsing", "no action"} \cup Modes
AtEnd  == status # "parsing" /\ Alive => short_flags = <<>> /\ i = Len(argv) + 1
Passed == Alive => \A k \in 1..i - 1 : NoReason(k)
SpecifiedIs == Alive => (dst_convention_specified <=> \E j \in 1..i - 1 : IsWord(argv[j]))
Ended  == \A why \in Reasons :
            status = why /\ argv # <<>> =>
              \E k \in DOMAIN argv : Ends(k, why) /\ \A j \in 1..k - 1 : NoReason(j)

ReasonInv == TypeInv /\ Pending /\ AtEnd /\ Passed /\ SpecifiedIs /\ Ended

LEMMA ReasonInit == Init => ReasonInv
  <1> SUFFICES ASSUME Init
               PROVE  ReasonInv
    OBVIOUS
  <1>1. TypeInv
    BY TypeInit DEF TypeInv, Init
  <1>2. i = 1 /\ short_flags = <<>> /\ ~ dst_convention_specified
    BY DEF Init
  <1>3. 1..i - 1 = {}
    BY <1>2
  <1>4. Pending
    BY <1>2 DEF Pending
  <1>5. AtEnd
    BY DEF AtEnd, Alive, Modes, Init
  <1>6. Passed /\ SpecifiedIs
    BY <1>2, <1>3 DEF Passed, SpecifiedIs
  <1>7. Ended
    BY DEF Ended, Reasons, Init
  <1> QED
    BY <1>1, <1>4, <1>5, <1>6, <1>7 DEF ReasonInv

LEMMA SameArgv ==
  ASSUME argv' = argv
  PROVE  /\ \A k, why : Ends(k, why)' <=> Ends(k, why)
         /\ \A k : NoReason(k)' <=> NoReason(k)
  BY DEF Ends, NoReason

\* A step that ends the process for a reason that the argument is.
LEMMA EndsHere ==
  ASSUME TypeOK, Passed, i <= Len(argv), argv' = argv, status = "parsing",
         NEW why \in Reasons, status' = why, Ends(i, why)
  PROVE  /\ Ended' /\ AtEnd' /\ Passed' /\ SpecifiedIs'
  <1>1. status' \notin {"parsing", "no action"} \cup Modes
    BY DEF Reasons, Modes
  <1>2. AtEnd' /\ Passed' /\ SpecifiedIs'
    BY <1>1 DEF AtEnd, Passed, SpecifiedIs, Alive
  <1>3. i \in DOMAIN argv
    <2>1. i \in 1..Len(argv) /\ argv \in Seq(Argument)
      BY ArgIs DEF TypeOK
    <2> QED
      BY <2>1, LenProperties
  <1>4. \A j \in 1..i - 1 : NoReason(j)
    BY DEF Passed, Alive
  <1>5. /\ \A k, w : Ends(k, w)' <=> Ends(k, w)
        /\ \A k : NoReason(k)' <=> NoReason(k)
    BY SameArgv
  <1>6. Ends(i, why) /\ i \in DOMAIN argv'
    BY <1>3
  <1>7. \E k \in DOMAIN argv' : Ends(k, why) /\ \A j \in 1..k - 1 : NoReason(j)
    BY <1>4, <1>6
  <1>8. \E k \in DOMAIN argv' : Ends(k, why)' /\ \A j \in 1..k - 1 : NoReason(j)'
    BY <1>5, <1>7
  <1>9. Ended'
    BY <1>8 DEF Ended
  <1> QED
    BY <1>2, <1>9

\* A step that goes on with the next argument.
LEMMA GoesOn ==
  ASSUME TypeOK, Passed, Ended, i <= Len(argv), argv' = argv, status = "parsing",
         status' = status, i' = i + 1, NoReason(i)
  PROVE  Ended' /\ AtEnd' /\ Passed'
  <1>1. Ended' /\ AtEnd'
    BY DEF Ended, AtEnd, Reasons
  <1>2. /\ \A k : NoReason(k)' <=> NoReason(k)
        /\ i \in Nat
    BY SameArgv, LenProperties DEF TypeOK
  <1>3. \A k \in 1..i' - 1 : k \in 1..i - 1 \/ k = i
    BY <1>2
  <1>4. \A k \in 1..i - 1 : NoReason(k)
    BY DEF Passed, Alive
  <1>5. \A k \in 1..i' - 1 : NoReason(k)'
    BY <1>2, <1>3, <1>4
  <1> QED
    BY <1>1, <1>5 DEF Passed

\* A step that stays at the argument.
LEMMA StaysHere ==
  ASSUME Passed, Ended, SpecifiedIs, argv' = argv, i' = i, status' = status,
         dst_convention_specified' = dst_convention_specified
  PROVE  Ended' /\ Passed' /\ SpecifiedIs'
  <1>1. /\ \A k, w : Ends(k, w)' <=> Ends(k, w)
        /\ \A k : NoReason(k)' <=> NoReason(k)
    BY SameArgv
  <1>2. Alive' <=> Alive
    BY DEF Alive
  <1>3. Passed'
    BY <1>1, <1>2 DEF Passed
  <1>4. SpecifiedIs'
    BY <1>2 DEF SpecifiedIs
  <1>5. ASSUME NEW why \in Reasons, status' = why /\ argv' # <<>>
        PROVE  \E k \in DOMAIN argv' : Ends(k, why)' /\ \A j \in 1..k - 1 : NoReason(j)'
    <2>1. \E k \in DOMAIN argv : Ends(k, why) /\ \A j \in 1..k - 1 : NoReason(j)
      BY <1>5 DEF Ended
    <2> QED
      BY <1>1, <2>1
  <1>6. Ended'
    BY <1>5 DEF Ended
  <1> QED
    BY <1>3, <1>4, <1>6

\* Which arguments have been passed says whether the first word has.
LEMMA NoWordPassed ==
  ASSUME TypeOK, SpecifiedIs, i <= Len(argv), argv' = argv, i' = i + 1, status' = status,
         ~ IsWord(Arg), dst_convention_specified' = dst_convention_specified
  PROVE  SpecifiedIs'
  <1>1. i \in Nat
    BY LenProperties DEF TypeOK
  <1>2. \A j \in 1..i' - 1 : j \in 1..i - 1 \/ j = i
    BY <1>1
  <1>3. \A j \in 1..i - 1 : j \in 1..i' - 1
    BY <1>1
  <1>4. (\E j \in 1..i' - 1 : IsWord(argv[j])) <=> (\E j \in 1..i - 1 : IsWord(argv[j]))
    BY <1>2, <1>3 DEF Arg
  <1>5. (\E j \in 1..i' - 1 : IsWord(argv'[j])) <=> (\E j \in 1..i - 1 : IsWord(argv[j]))
    BY <1>4
  <1> QED
    BY <1>5 DEF SpecifiedIs, Alive, IsWord

LEMMA WordPassed ==
  ASSUME TypeOK, i <= Len(argv), argv' = argv, i' = i + 1, IsWord(Arg),
         dst_convention_specified'
  PROVE  SpecifiedIs'
  <1>1. i \in 1..i' - 1
    BY LenProperties DEF TypeOK
  <1>2. IsWord(argv'[i])
    BY DEF Arg
  <1> QED
    BY <1>1, <1>2 DEF SpecifiedIs, IsWord

\* The short flags of an argument before the first one is read ...
LEMMA PendingStarts ==
  ASSUME TypeOK, i <= Len(argv), argv' = argv, i' = i, short_flags' = Letters
  PROVE  Pending'
  <1>1. Letters' = Letters
    BY DEF Letters, Arg
  <1>2. Letters \in Seq(Names)
    BY ArgIs, FlagsType DEF Letters
  <1> DEFINE n == Len(Letters)
  <1>3. n \in Nat /\ (Letters # <<>> => n # 0)
    BY <1>2, LenProperties, EmptySeq
  <1>4. Read' = 0
    <2>1. Read' = IF Letters = <<>> THEN 0 ELSE n - n
      BY <1>1 DEF Read
    <2> QED
      BY <2>1, <1>3
  <1>5. ASSUME short_flags' # <<>>
        PROVE  /\ Read' \in 0 .. Len(Letters') - 1
               /\ \A j \in 1 .. Len(short_flags') : short_flags'[j] = Letters'[Read' + j]
               /\ \A j \in 1 .. Read' : Letters'[j] \in DOMAIN ShortFlags
    <2>1. n # 0 /\ 0 \in 0 .. n - 1
      BY <1>3, <1>5
    <2>2. \A j \in 1 .. n : 0 + j = j
      BY <1>3
    <2>3. 1 .. 0 = {}
      OBVIOUS
    <2> QED
      BY <1>1, <1>4, <2>1, <2>2, <2>3
  <1> QED
    BY <1>5 DEF Pending

\* ... and one by one.
LEMMA HeadOfPending ==
  ASSUME TypeOK, TypeInv, Pending, short_flags # <<>>, status = "parsing"
  PROVE  /\ Letters \in Seq(Names)
         /\ Read + 1 \in 1 .. Len(Letters)
         /\ Head(short_flags) = Letters[Read + 1]
         /\ Tail(short_flags) = <<>> => Read + 1 = Len(Letters)
  <1>1. i <= Len(argv) /\ short_flags \in Seq(Names)
    BY DEF TypeInv, TypeOK
  <1>2. Letters \in Seq(Names)
    BY <1>1, ArgIs, FlagsType DEF Letters
  <1> DEFINE n == Len(Letters)
             m == Len(short_flags)
             r == Read
  <1>3. n \in Nat /\ m \in Nat
    BY <1>1, <1>2, LenProperties
  <1>4. m # 0
    BY <1>1, EmptySeq
  <1>5. /\ r \in 0 .. n - 1
        /\ \A j \in 1 .. m : short_flags[j] = Letters[r + j]
    BY DEF Pending
  <1>6. r = n - m
    BY DEF Read
  <1>7. Tail(short_flags) = <<>> => m = 1
    <2>1. Len(Tail(short_flags)) = m - 1
      BY <1>1, HeadTailProperties
    <2> QED
      BY <2>1, <1>3, <1>4
  <1>8. Head(short_flags) = short_flags[1]
    BY <1>1
  <1> HIDE DEF n, m, r
  <1>9. 1 \in 1 .. m /\ r + 1 \in 1 .. n
    BY <1>3, <1>4, <1>5
  <1>10. Head(short_flags) = Letters[r + 1]
    BY <1>5, <1>8, <1>9
  <1>11. Tail(short_flags) = <<>> => r + 1 = n
    BY <1>3, <1>6, <1>7
  <1> QED
    BY <1>2, <1>9, <1>10, <1>11 DEF n, r

LEMMA PendingGoesOn ==
  ASSUME TypeOK, TypeInv, Pending, short_flags # <<>>, status = "parsing", argv' = argv, i' = i,
         short_flags' = Tail(short_flags), Head(short_flags) \in DOMAIN ShortFlags
  PROVE  /\ Tail(short_flags) # <<>> => Read' = Read + 1
         /\ Pending'
  <1>1. Letters' = Letters
    BY DEF Letters, Arg
  <1>2. /\ Letters \in Seq(Names)
        /\ Read + 1 \in 1 .. Len(Letters)
        /\ Head(short_flags) = Letters[Read + 1]
    BY HeadOfPending
  <1>3. short_flags \in Seq(Names)
    BY DEF TypeOK
  <1> DEFINE n == Len(Letters)
             m == Len(short_flags)
             r == Read
             t == Tail(short_flags)
  <1>4. n \in Nat /\ m \in Nat
    BY <1>2, <1>3, LenProperties
  <1>5. /\ r \in 0 .. n - 1
        /\ \A j \in 1 .. m : short_flags[j] = Letters[r + j]
        /\ \A j \in 1 .. r : Letters[j] \in DOMAIN ShortFlags
    BY DEF Pending
  <1>6. r = n - m
    BY DEF Read
  <1>7. /\ t \in Seq(Names) /\ Len(t) = m - 1
        /\ \A j \in 1 .. m - 1 : t[j] = short_flags[j + 1]
    BY <1>3, HeadTailProperties
  <1>8. Read' = IF t = <<>> THEN 0 ELSE n - (m - 1)
    BY <1>1, <1>7 DEF Read
  <1> HIDE DEF n, m, r, t
  <1>9. t # <<>> => Read' = r + 1
    BY <1>4, <1>6, <1>8
  <1>10. ASSUME t # <<>>
         PROVE  /\ Read' \in 0 .. n - 1
                /\ \A j \in 1 .. Len(t) : t[j] = Letters[Read' + j]
                /\ \A j \in 1 .. Read' : Letters[j] \in DOMAIN ShortFlags
    <2>1. m - 1 # 0
      BY <1>7, <1>10, EmptySeq
    <2>2. m >= 2
      <3>1. m - 1 \in Nat
        BY <1>7, LenProperties
      <3> QED
        BY <3>1, <2>1, <1>4
    <2>3. Read' \in 0 .. n - 1
      BY <1>4, <1>5, <1>6, <1>9, <1>10, <2>2
    <2>4. ASSUME NEW j \in 1 .. Len(t)
          PROVE  t[j] = Letters[Read' + j]
      <3>1. j \in 1 .. m - 1 /\ j + 1 \in 1 .. m /\ r + (j + 1) = (r + 1) + j
        BY <1>4, <1>5, <1>7
      <3>2. t[j] = Letters[r + (j + 1)]
        BY <3>1, <1>5, <1>7
      <3> QED
        BY <3>1, <3>2, <1>9, <1>10
    <2>5. ASSUME NEW j \in 1 .. Read'
          PROVE  Letters[j] \in DOMAIN ShortFlags
      <3>1. j \in 1 .. r \/ j = r + 1
        BY <1>4, <1>5, <1>9, <1>10
      <3>2. Letters[r + 1] \in DOMAIN ShortFlags
        BY <1>2 DEF r
      <3> QED
        BY <3>1, <3>2, <1>5
    <2> QED
      BY <2>3, <2>4, <2>5
  <1>11. short_flags' = t
    BY DEF t
  <1>12. Len(Letters') = n
    BY <1>1 DEF n
  <1>13. ASSUME short_flags' # <<>>
         PROVE  /\ Read' \in 0 .. Len(Letters') - 1
                /\ \A j \in 1 .. Len(short_flags') : short_flags'[j] = Letters'[Read' + j]
                /\ \A j \in 1 .. Read' : Letters'[j] \in DOMAIN ShortFlags
    BY <1>1, <1>10, <1>11, <1>12, <1>13
  <1>14. Pending'
    BY <1>13 DEF Pending
  <1> QED
    BY <1>9, <1>14 DEF t, r

LEMMA ReasonNext == ReasonInv /\ [Next]_vars => ReasonInv'
  <1> DEFINE Rest == Pending' /\ AtEnd' /\ Passed' /\ SpecifiedIs' /\ Ended'
  <1> SUFFICES ASSUME ReasonInv, [Next]_vars
               PROVE  Rest
    BY TypeNext DEF ReasonInv
  <1>2. /\ TypeOK /\ TypeInv /\ Pending /\ AtEnd /\ Passed /\ SpecifiedIs /\ Ended
    BY DEF ReasonInv, TypeInv
  <1>3. i \in Nat /\ Len(argv) \in Nat /\ i <= Len(argv) + 1
    BY <1>2, LenProperties DEF TypeOK
  <1>4. CASE process_long_flag
    <2> DEFINE F == Flags(Arg.names)
    <2>1. /\ argv' = argv /\ i' = i + 1 /\ i <= Len(argv) /\ status = "parsing"
          /\ Arg.dashes = 2 /\ short_flags' = <<>>
          /\ dst_convention_specified' = dst_convention_specified
      BY <1>4 DEF process_long_flag, Reading, NextArg
    <2>2. Pending'
      BY <2>1 DEF Pending
    <2>3. F \in Seq(Names)
      BY <1>2, <2>1, ArgIs, FlagsType
    <2>4. ~ IsWord(Arg)
      BY <2>1 DEF IsWord
    <2>5. CASE Len(F) = 1 /\ F[1] \in LongFlags /\ got_flag(F[1])
      <3>1. F = <<F[1]>>
        BY <2>3, <2>5
      <3>2. /\ F[1] \in Options => NoReason(i)
            /\ F[1] \notin Options => F[1] \in {"help", "version"} /\ Ends(i, F[1])
        BY <2>1, <2>5, <3>1, LongFlagKnown
      <3>3. CASE F[1] \in Options
        <4>1. status' = status
          BY <2>5, <3>3 DEF got_flag
        <4>2. NoReason(i)
          BY <3>2, <3>3
        <4>3. Ended' /\ AtEnd' /\ Passed'
          BY <1>2, <2>1, <4>1, <4>2, GoesOn
        <4>4. SpecifiedIs'
          BY <1>2, <2>1, <2>4, <4>1, NoWordPassed
        <4> QED
          BY <2>2, <4>3, <4>4
      <3>4. CASE F[1] \notin Options
        <4>1. status' = F[1]
          BY <2>5, <3>4 DEF got_flag
        <4>2. F[1] \in Reasons /\ Ends(i, F[1])
          BY <3>2, <3>4 DEF Reasons
        <4> HIDE DEF F
        <4>3. Ended' /\ AtEnd' /\ Passed' /\ SpecifiedIs'
          BY <1>2, <2>1, <4>1, <4>2, EndsHere
        <4> QED
          BY <2>2, <4>3
      <3> QED
        BY <3>3, <3>4
    <2>6. CASE ~ (Len(F) = 1 /\ F[1] \in LongFlags) /\ unknown_option
      <3>1. Ends(i, "unknown option")
        BY <2>1, <2>3, <2>6, LongFlagUnknown
      <3>2. status' = "unknown option" /\ "unknown option" \in Reasons
        BY <2>6 DEF unknown_option, Reasons
      <3>3. Ended' /\ AtEnd' /\ Passed' /\ SpecifiedIs'
        BY <1>2, <2>1, <3>1, <3>2, EndsHere
      <3> QED
        BY <2>2, <3>3
    <2> QED
      BY <1>4, <2>5, <2>6 DEF process_long_flag
  <1>5. CASE process_short_flags
    <2>1. /\ argv' = argv /\ i <= Len(argv) /\ status = "parsing" /\ status' = status
          /\ Arg.dashes = 1 /\ short_flags' = Letters
          /\ IF Letters = <<>> THEN i' = i + 1 ELSE i' = i
          /\ dst_convention_specified' = dst_convention_specified
      BY <1>5 DEF process_short_flags, Reading, NextArg, Letters
    <2>2. ~ IsWord(Arg)
      BY <2>1 DEF IsWord
    <2>3. CASE Letters = <<>>
      <3>1. i' = i + 1
        BY <2>1, <2>3
      <3>2. NoReason(i)
        <4>1. Flags(Arg.names) = <<>> /\ Len(<<>>) = 0
          BY <2>3 DEF Letters
        <4>2. Flags(Arg.names) \in Seq(Names)
          BY <4>1, EmptySeq
        <4>3. \A j \in 1..Len(Flags(Arg.names)) : Flags(Arg.names)[j] \in DOMAIN ShortFlags
          BY <4>1
        <4> QED
          BY <2>1, <4>2, <4>3, ShortFlagsKnown
      <3>3. Ended' /\ AtEnd' /\ Passed'
        BY <1>2, <2>1, <3>1, <3>2, GoesOn
      <3>4. SpecifiedIs'
        BY <1>2, <2>1, <2>2, <3>1, NoWordPassed
      <3>5. Pending'
        BY <2>1, <2>3 DEF Pending
      <3> QED
        BY <3>3, <3>4, <3>5
    <2>4. CASE Letters # <<>>
      <3>1. i' = i
        BY <2>1, <2>4
      <3>2. Ended' /\ Passed' /\ SpecifiedIs'
        BY <1>2, <2>1, <3>1, StaysHere
      <3>3. Pending'
        BY <1>2, <2>1, <3>1, PendingStarts
      <3>4. AtEnd'
        BY <2>1 DEF AtEnd
      <3> QED
        BY <3>2, <3>3, <3>4
    <2> QED
      BY <2>3, <2>4
  <1>6. CASE process_short_flag
    <2>1. /\ argv' = argv /\ status = "parsing" /\ short_flags # <<>>
          /\ short_flags' = Tail(short_flags)
          /\ IF Tail(short_flags) = <<>> THEN i' = i + 1 ELSE i' = i
          /\ dst_convention_specified' = dst_convention_specified
      BY <1>6 DEF process_short_flag, NextArg
    <2>2. i <= Len(argv) /\ Arg.dashes = 1
      BY <1>2, <2>1 DEF TypeInv
    <2>3. ~ IsWord(Arg)
      BY <2>2 DEF IsWord
    <2>4. /\ Letters \in Seq(Names)
          /\ Read + 1 \in 1 .. Len(Letters)
          /\ Head(short_flags) = Letters[Read + 1]
          /\ Tail(short_flags) = <<>> => Read + 1 = Len(Letters)
      BY <1>2, <2>1, HeadOfPending
    <2>5. CASE Head(short_flags) \in DOMAIN ShortFlags /\ got_flag(ShortFlags[Head(short_flags)])
      <3>1. status' = status
        BY <2>5, ShortFlagsAre DEF got_flag
      <3>2. CASE Tail(short_flags) = <<>>
        <4>1. i' = i + 1
          BY <2>1, <3>2
        <4>2. \A j \in 1 .. Len(Letters) : Letters[j] \in DOMAIN ShortFlags
          <5>1. /\ Read \in 0 .. Len(Letters) - 1 /\ Len(Letters) \in Nat
                /\ \A j \in 1 .. Read : Letters[j] \in DOMAIN ShortFlags
            BY <1>2, <2>1, <2>4, LenProperties DEF Pending
          <5>2. Read + 1 = Len(Letters) /\ Letters[Read + 1] \in DOMAIN ShortFlags
            BY <2>4, <2>5, <3>2
          <5>3. \A j \in 1 .. Len(Letters) : j \in 1 .. Read \/ j = Read + 1
            BY <5>1, <5>2
          <5> QED
            BY <5>1, <5>2, <5>3
        <4>3. NoReason(i)
          BY <2>2, <2>4, <4>2, ShortFlagsKnown DEF Letters
        <4>4. Ended' /\ AtEnd' /\ Passed'
          BY <1>2, <2>1, <2>2, <3>1, <4>1, <4>3, GoesOn
        <4>5. SpecifiedIs'
          BY <1>2, <2>1, <2>3, <2>2, <3>1, <4>1, NoWordPassed
        <4>6. Pending'
          BY <2>1, <3>2 DEF Pending
        <4> QED
          BY <4>4, <4>5, <4>6
      <3>3. CASE Tail(short_flags) # <<>>
        <4>1. i' = i
          BY <2>1, <3>3
        <4>2. Ended' /\ Passed' /\ SpecifiedIs'
          BY <1>2, <2>1, <3>1, <4>1, StaysHere
        <4>3. Pending'
          BY <1>2, <2>1, <2>5, <4>1, PendingGoesOn
        <4>4. AtEnd'
          BY <2>1, <3>1 DEF AtEnd
        <4> QED
          BY <4>2, <4>3, <4>4
      <3> QED
        BY <3>2, <3>3
    <2>6. CASE Head(short_flags) \notin DOMAIN ShortFlags /\ unknown_option
      <3>1. Ends(i, "unknown option")
        BY <2>2, <2>4, <2>6, ShortFlagUnknown DEF Letters
      <3>2. status' = "unknown option" /\ "unknown option" \in Reasons
        BY <2>6 DEF unknown_option, Reasons
      <3>3. Ended' /\ AtEnd' /\ Passed' /\ SpecifiedIs'
        BY <1>2, <2>1, <2>2, <3>1, <3>2, EndsHere
      <3>4. Pending'
        BY <3>2 DEF Pending
      <3> QED
        BY <3>3, <3>4
    <2> QED
      BY <1>6, <2>5, <2>6 DEF process_short_flag
  <1>7. CASE got_non_flag_arg
    <2> DEFINE word == Arg.names[1]
    <2>1. /\ argv' = argv /\ i' = i + 1 /\ i <= Len(argv) /\ status = "parsing"
          /\ Arg.dashes = 0 /\ short_flags' = <<>>
      BY <1>7 DEF got_non_flag_arg, read_convention_from_string, Reading, NextArg
    <2>2. Pending'
      BY <2>1 DEF Pending
    <2>3. IsWord(Arg)
      BY <2>1 DEF IsWord
    <2>4. dst_convention_specified <=> \E j \in 1..i - 1 : IsWord(argv[j])
      BY <1>2, <2>1 DEF SpecifiedIs, Alive
    <2>5. CASE ~ dst_convention_specified /\ word \notin DOMAIN cl_names
      <3>1. status' = "unknown action" /\ "unknown action" \in Reasons
        BY <1>7, <2>5 DEF got_non_flag_arg, read_convention_from_string, IsAction, Reasons
      <3>2. Ends(i, "unknown action")
        BY <2>1, <2>4, <2>5, ReasonsOfArg
      <3>3. Ended' /\ AtEnd' /\ Passed' /\ SpecifiedIs'
        BY <1>2, <2>1, <3>1, <3>2, EndsHere
      <3> QED
        BY <2>2, <3>3
    <2>6. CASE dst_convention_specified \/ word \in DOMAIN cl_names
      <3>1. status' = status
        BY <1>7, <2>6 DEF got_non_flag_arg, read_convention_from_string, IsAction
      <3>2. dst_convention_specified'
        <4>1. CASE dst_convention_specified
          <5>1. dst_convention_specified' = dst_convention_specified
            BY <1>7, <4>1 DEF got_non_flag_arg, read_convention_from_string, IsAction
          <5> QED
            BY <4>1, <5>1
        <4>2. CASE ~ dst_convention_specified
          BY <1>7, <2>6, <4>2 DEF got_non_flag_arg, read_convention_from_string, IsAction
        <4> QED
          BY <4>1, <4>2
      <3>3. NoReason(i)
        BY <2>1, <2>4, <2>6, WordKnown
      <3>4. Ended' /\ AtEnd' /\ Passed'
        BY <1>2, <2>1, <3>1, <3>3, GoesOn
      <3>5. SpecifiedIs'
        BY <1>2, <2>1, <2>3, <3>2, WordPassed
      <3> QED
        BY <2>2, <3>4, <3>5
    <2> QED
      BY <2>5, <2>6
  <1>8. CASE Dispatch
    <2>1. /\ argv' = argv /\ i' = i /\ i > Len(argv) /\ status = "parsing"
          /\ short_flags = <<>> /\ short_flags' = <<>>
          /\ dst_convention_specified' = dst_convention_specified
          /\ status' \in {"no action"} \cup Modes
      BY <1>8 DEF Dispatch, Modes
    <2>2. status' # "parsing" /\ status' \notin Reasons
      BY <2>1 DEF Modes, Reasons
    <2>3. i = Len(argv) + 1
      <3>1. i > Len(argv)
        BY <2>1
      <3> QED
        BY <1>3, <3>1
    <2>4. Pending' /\ AtEnd'
      BY <2>1, <2>3 DEF Pending, AtEnd
    <2>5. Ended'
      BY <2>2 DEF Ended
    <2>6. /\ \A k \in 1..i - 1 : NoReason(k)
          /\ dst_convention_specified <=> \E j \in 1..i - 1 : IsWord(argv[j])
      BY <1>2, <2>1 DEF Passed, SpecifiedIs, Alive
    <2>7. Passed'
      <3>1. \A k : NoReason(k)' <=> NoReason(k)
        BY <2>1, SameArgv
      <3> QED
        BY <2>1, <2>6, <3>1 DEF Passed
    <2>8. SpecifiedIs'
      BY <2>1, <2>6 DEF SpecifiedIs
    <2> QED
      BY <2>4, <2>5, <2>7, <2>8
  <1>9. CASE UNCHANGED vars
    <2>1. /\ argv' = argv /\ i' = i /\ status' = status /\ short_flags' = short_flags
          /\ dst_convention_specified' = dst_convention_specified
      BY <1>9 DEF vars
    <2>2. Ended' /\ Passed' /\ SpecifiedIs'
      BY <1>2, <2>1, StaysHere
    <2>3. AtEnd'
      BY <1>2, <2>1 DEF AtEnd, Alive
    <2>4. Pending'
      BY <1>2, <2>1 DEF Pending, Read, Letters, Arg
    <2> QED
      BY <2>3, <2>2, <2>4
  <1> QED
    BY <1>4, <1>5, <1>6, <1>7, <1>8, <1>9 DEF Next

LEMMA ReasonFollows == ReasonInv => FirstReasonDecides
  <1> SUFFICES ASSUME ReasonInv, argv # <<>>
               PROVE  /\ status \in Reasons =>
                           \E k \in DOMAIN argv :
                             /\ Ends(k, status)
                             /\ \A j \in 1..k - 1, why \in Reasons : ~ Ends(j, why)
                      /\ status \in Modes \cup {"no action"} =>
                           \A k \in DOMAIN argv, why \in Reasons : ~ Ends(k, why)
    BY DEF FirstReasonDecides
  <1>1. ASSUME status \in Reasons
        PROVE  \E k \in DOMAIN argv :
                 /\ Ends(k, status)
                 /\ \A j \in 1..k - 1, why \in Reasons : ~ Ends(j, why)
    <2>1. \E k \in DOMAIN argv : Ends(k, status) /\ \A j \in 1..k - 1 : NoReason(j)
      BY <1>1 DEF ReasonInv, Ended
    <2> QED
      BY <2>1 DEF NoReason
  <1>2. ASSUME status \in Modes \cup {"no action"}
        PROVE  \A k \in DOMAIN argv, why \in Reasons : ~ Ends(k, why)
    <2>1. Alive /\ status # "parsing"
      BY <1>2 DEF Alive, Modes
    <2>2. i = Len(argv) + 1 /\ \A k \in 1..i - 1 : NoReason(k)
      BY <2>1 DEF ReasonInv, AtEnd, Passed
    <2>3. Len(argv) \in Nat /\ DOMAIN argv = 1..Len(argv)
      BY LenProperties DEF ReasonInv, TypeInv, TypeOK
    <2>4. DOMAIN argv = 1..i - 1
      BY <2>2, <2>3
    <2> QED
      BY <2>2, <2>4 DEF NoReason
  <1> QED
    BY <1>1, <1>2

\* The first argument that asks for help or the version, or that cannot be understood,
\* decides how the process ends; only a command line without one is acted upon.
THEOREM FirstReasonAlwaysDecides == Spec => []FirstReasonDecides
  <1> QED
    BY ReasonInit, ReasonNext, ReasonFollows, PTL DEF Spec

--------------------------------------------------------------------------------
(* The options that are given.                                             *)

GivenBy(args, k)      == {o \in Options : \E j \in 1..k : Has(args[j], o)}
ByLetters(letters, r) == {ShortFlags[letters[j]] : j \in 1..r}

GivenInv == Alive => given = GivenBy(argv, i - 1) \cup ByLetters(Letters, Read)

LEMMA GivenMore ==
  ASSUME TypeOK
  PROVE  GivenBy(argv, i) = GivenBy(argv, i - 1) \cup {o \in Options : Has(Arg, o)}
  <1>1. i \in Nat \ {0}
    BY LenProperties DEF TypeOK
  <1>2. \A j : j \in 1..i <=> j \in 1..i - 1 \/ j = i
    BY <1>1
  <1>3. ASSUME NEW o
        PROVE  (\E j \in 1..i : Has(argv[j], o)) <=>
                 (\E j \in 1..i - 1 : Has(argv[j], o)) \/ Has(Arg, o)
    BY <1>2 DEF Arg
  <1> QED
    BY <1>3 DEF GivenBy

LEMMA NoLetters == \A letters : ByLetters(letters, 0) = {}
  BY DEF ByLetters

\* An argument that has been read gives what its flags are.
LEMMA LongFlagGives ==
  ASSUME Arg.dashes = 2, NEW flag \in Options, Flags(Arg.names) = <<flag>>
  PROVE  {o \in Options : Has(Arg, o)} = {flag}
  <1>1. Arg.dashes # 1
    OBVIOUS
  <1>2. \A o : Has(Arg, o) <=> o = flag
    BY <1>1 DEF Has
  <1> QED
    BY <1>2

LEMMA WordGives ==
  ASSUME Arg.dashes = 0
  PROVE  {o \in Options : Has(Arg, o)} = {}
  BY DEF Has

LEMMA ShortFlagsGive ==
  ASSUME Arg.dashes = 1, Letters \in Seq(Names),
         \A j \in 1..Len(Letters) : Letters[j] \in DOMAIN ShortFlags
  PROVE  {o \in Options : Has(Arg, o)} = ByLetters(Letters, Len(Letters))
  <1>1. Arg.dashes # 2
    OBVIOUS
  <1>2. DOMAIN Letters = 1..Len(Letters)
    BY LenProperties
  <1>3. ToSet(Letters) = {Letters[j] : j \in 1..Len(Letters)}
    BY <1>2 DEF ToSet
  <1>4. ASSUME NEW o
        PROVE  Has(Arg, o) <=> \E j \in 1..Len(Letters) : ShortFlags[Letters[j]] = o
    <2>1. Has(Arg, o) <=> \E n \in ToSet(Letters) \cap DOMAIN ShortFlags : ShortFlags[n] = o
      BY <1>1 DEF Has, Letters
    <2> QED
      BY <2>1, <1>3
  <1>5. \A j \in 1..Len(Letters) : ShortFlags[Letters[j]] \in Options
    BY ShortFlagsAre
  <1> QED
    BY <1>4, <1>5 DEF ByLetters

LEMMA GivenInit == Init => GivenInv
  <1> SUFFICES ASSUME Init
               PROVE  GivenInv
    OBVIOUS
  <1>1. i = 1 /\ short_flags = <<>> /\ given = {}
    BY DEF Init
  <1>2. 1..i - 1 = {} /\ Read = 0
    BY <1>1 DEF Read
  <1>3. GivenBy(argv, i - 1) = {}
    BY <1>2 DEF GivenBy
  <1> QED
    BY <1>1, <1>2, <1>3, NoLetters DEF GivenInv

\* A step to the next argument.
LEMMA GivenGoesOn ==
  ASSUME TypeOK, argv' = argv, i' = i + 1, short_flags' = <<>>,
         given' = GivenBy(argv, i - 1) \cup {o \in Options : Has(Arg, o)}
  PROVE  GivenInv'
  <1>1. i' - 1 = i
    BY LenProperties DEF TypeOK
  <1>2. given' = GivenBy(argv', i' - 1)
    BY <1>1, GivenMore
  <1>3. Read' = 0
    BY DEF Read
  <1>4. given' = GivenBy(argv', i' - 1) \cup ByLetters(Letters', Read')
    BY <1>2, <1>3, NoLetters
  <1> QED
    BY <1>4 DEF GivenInv

LEMMA GivenNext == ReasonInv /\ GivenInv /\ [Next]_vars => GivenInv'
  <1> SUFFICES ASSUME ReasonInv, GivenInv, [Next]_vars
               PROVE  GivenInv'
    OBVIOUS
  <1>1. /\ TypeOK /\ TypeInv /\ Pending
        /\ status = "parsing" => given = GivenBy(argv, i - 1) \cup ByLetters(Letters, Read)
    BY DEF ReasonInv, TypeInv, GivenInv, Alive
  <1>2. short_flags = <<>> /\ status = "parsing" => given = GivenBy(argv, i - 1)
    BY <1>1, NoLetters DEF Read
  <1>3. status' \in Reasons => GivenInv'
    BY DEF GivenInv, Alive, Reasons, Modes
  <1>4. CASE process_long_flag
    <2> DEFINE F == Flags(Arg.names)
    <2>1. /\ argv' = argv /\ i' = i + 1 /\ i <= Len(argv) /\ status = "parsing"
          /\ Arg.dashes = 2 /\ short_flags' = <<>> /\ short_flags = <<>>
      BY <1>4 DEF process_long_flag, Reading, NextArg
    <2>2. CASE Len(F) = 1 /\ F[1] \in LongFlags /\ got_flag(F[1])
      <3>1. CASE F[1] \in Options
        <4>1. F = <<F[1]>>
          <5>1. F \in Seq(Names)
            BY <1>1, <2>1, ArgIs, FlagsType
          <5> QED
            BY <5>1, <2>2
        <4>2. {o \in Options : Has(Arg, o)} = {F[1]}
          BY <2>1, <3>1, <4>1, LongFlagGives
        <4>3. given' = given \cup {F[1]}
          BY <2>2, <3>1 DEF got_flag
        <4>4. given' = GivenBy(argv, i - 1) \cup {o \in Options : Has(Arg, o)}
          BY <1>2, <2>1, <4>2, <4>3
        <4> QED
          BY <1>1, <2>1, <4>4, GivenGoesOn
      <3>2. CASE F[1] \notin Options
        <4>1. status' = F[1] /\ F[1] \in Reasons
          BY <2>2, <3>2 DEF got_flag, LongFlags, Reasons
        <4> QED
          BY <1>3, <4>1
      <3> QED
        BY <3>1, <3>2
    <2>3. CASE unknown_option
      <3>1. status' \in Reasons
        BY <2>3 DEF unknown_option, Reasons
      <3> QED
        BY <1>3, <3>1
    <2> QED
      BY <1>4, <2>2, <2>3 DEF process_long_flag
  <1>5. CASE process_short_flags
    <2>1. /\ argv' = argv /\ i <= Len(argv) /\ status = "parsing" /\ status' = status
          /\ Arg.dashes = 1 /\ short_flags = <<>> /\ short_flags' = Letters
          /\ IF Letters = <<>> THEN i' = i + 1 ELSE i' = i
          /\ given' = given
      BY <1>5 DEF process_short_flags, Reading, NextArg, Letters
    <2>2. Letters \in Seq(Names) /\ Len(Letters) \in Nat
      BY <1>1, <2>1, ArgIs, FlagsType, LenProperties DEF Letters
    <2>3. CASE Letters = <<>>
      <3>1. Len(Letters) = 0
        BY <2>3
      <3>2. {o \in Options : Has(Arg, o)} = ByLetters(Letters, Len(Letters))
        <4>1. \A j \in 1..Len(Letters) : Letters[j] \in DOMAIN ShortFlags
          BY <3>1
        <4> QED
          BY <2>1, <2>2, <4>1, ShortFlagsGive
      <3>3. {o \in Options : Has(Arg, o)} = {}
        BY <3>1, <3>2, NoLetters
      <3>4. given' = GivenBy(argv, i - 1) \cup {o \in Options : Has(Arg, o)}
        BY <1>2, <2>1, <3>3
      <3>5. i' = i + 1 /\ short_flags' = <<>>
        BY <2>1, <2>3
      <3> QED
        BY <1>1, <2>1, <3>4, <3>5, GivenGoesOn
    <2>4. CASE Letters # <<>>
      <3>1. i' = i /\ Letters' = Letters
        BY <2>1, <2>4 DEF Letters, Arg
      <3>2. Read' = 0
        <4>1. Read' = Len(Letters) - Len(Letters)
          BY <2>1, <2>4, <3>1 DEF Read
        <4> QED
          BY <2>2, <4>1
      <3>3. given' = GivenBy(argv', i' - 1)
        BY <1>2, <2>1, <3>1
      <3>4. given' = GivenBy(argv', i' - 1) \cup ByLetters(Letters', Read')
        BY <3>2, <3>3, NoLetters
      <3> QED
        BY <3>4 DEF GivenInv
    <2> QED
      BY <2>3, <2>4
  <1>6. CASE process_short_flag
    <2>1. /\ argv' = argv /\ status = "parsing" /\ short_flags # <<>>
          /\ short_flags' = Tail(short_flags)
          /\ IF Tail(short_flags) = <<>> THEN i' = i + 1 ELSE i' = i
      BY <1>6 DEF process_short_flag, NextArg
    <2>2. i <= Len(argv) /\ Arg.dashes = 1
      BY <1>1, <2>1 DEF TypeInv
    <2>3. /\ Letters \in Seq(Names)
          /\ Read + 1 \in 1 .. Len(Letters)
          /\ Head(short_flags) = Letters[Read + 1]
          /\ Tail(short_flags) = <<>> => Read + 1 = Len(Letters)
      BY <1>1, <2>1, HeadOfPending
    <2>4. CASE Head(short_flags) \in DOMAIN ShortFlags /\ got_flag(ShortFlags[Head(short_flags)])
      <3>1. given' = given \cup {ShortFlags[Letters[Read + 1]]}
        BY <2>3, <2>4, ShortFlagsAre DEF got_flag
      <3>2. /\ Read \in 0 .. Len(Letters) - 1 /\ Len(Letters) \in Nat
            /\ \A j \in 1 .. Read : Letters[j] \in DOMAIN ShortFlags
        BY <1>1, <2>1, <2>3, LenProperties DEF Pending
      <3>3. \A j : j \in 1 .. Read + 1 <=> j \in 1 .. Read \/ j = Read + 1
        BY <3>2
      <3>4. ByLetters(Letters, Read + 1)
              = ByLetters(Letters, Read) \cup {ShortFlags[Letters[Read + 1]]}
        BY <3>3 DEF ByLetters
      <3>5. given' = GivenBy(argv, i - 1) \cup ByLetters(Letters, Read + 1)
        <4>1. given = GivenBy(argv, i - 1) \cup ByLetters(Letters, Read)
          BY <1>1, <2>1
        <4> QED
          BY <3>1, <3>4, <4>1
      <3>6. CASE Tail(short_flags) = <<>>
        <4>1. i' = i + 1 /\ short_flags' = <<>>
          BY <2>1, <3>6
        <4>2. Read + 1 = Len(Letters)
          BY <2>3, <3>6
        <4>3. \A j \in 1 .. Len(Letters) : Letters[j] \in DOMAIN ShortFlags
          BY <2>3, <2>4, <3>2, <3>3, <4>2
        <4>4. given' = GivenBy(argv, i - 1) \cup {o \in Options : Has(Arg, o)}
          BY <2>2, <2>3, <3>5, <4>2, <4>3, ShortFlagsGive
        <4> QED
          BY <1>1, <2>1, <4>1, <4>4, GivenGoesOn
      <3>7. CASE Tail(short_flags) # <<>>
        <4>1. i' = i /\ Letters' = Letters
          BY <2>1, <3>7 DEF Letters, Arg
        <4>2. Read' = Read + 1
          BY <1>1, <2>1, <2>4, <3>7, <4>1, PendingGoesOn
        <4>3. given' = GivenBy(argv', i' - 1) \cup ByLetters(Letters', Read')
          BY <2>1, <3>5, <4>1, <4>2
        <4> QED
          BY <4>3 DEF GivenInv
      <3> QED
        BY <3>6, <3>7
    <2>5. CASE unknown_option
      <3>1. status' \in Reasons
        BY <2>5 DEF unknown_option, Reasons
      <3> QED
        BY <1>3, <3>1
    <2> QED
      BY <1>6, <2>4, <2>5 DEF process_short_flag
  <1>7. CASE got_non_flag_arg
    <2>1. /\ argv' = argv /\ i' = i + 1 /\ i <= Len(argv) /\ status = "parsing"
          /\ Arg.dashes = 0 /\ short_flags' = <<>> /\ short_flags = <<>> /\ given' = given
      BY <1>7 DEF got_non_flag_arg, read_convention_from_string, Reading, NextArg
    <2>2. given' = GivenBy(argv, i - 1) \cup {o \in Options : Has(Arg, o)}
      BY <1>2, <2>1, WordGives
    <2> QED
      BY <1>1, <2>1, <2>2, GivenGoesOn
  <1>8. CASE Dispatch
    <2>1. /\ argv' = argv /\ i' = i /\ status = "parsing" /\ given' = given
          /\ short_flags = <<>> /\ short_flags' = <<>>
      BY <1>8 DEF Dispatch
    <2>2. Read' = 0
      BY <2>1 DEF Read
    <2>3. given' = GivenBy(argv', i' - 1)
      BY <1>2, <2>1
    <2>4. given' = GivenBy(argv', i' - 1) \cup ByLetters(Letters', Read')
      BY <2>2, <2>3, NoLetters
    <2> QED
      BY <2>4 DEF GivenInv
  <1>9. CASE UNCHANGED vars
    <2>1. /\ argv' = argv /\ i' = i /\ status' = status /\ short_flags' = short_flags
          /\ given' = given
      BY <1>9 DEF vars
    <2>2. Letters' = Letters
      BY <2>1 DEF Letters, Arg
    <2>3. Read' = Read
      BY <2>1, <2>2 DEF Read
    <2> QED
      BY <2>1, <2>2, <2>3 DEF GivenInv, Alive
  <1> QED
    BY <1>4, <1>5, <1>6, <1>7, <1>8, <1>9 DEF Next

--------------------------------------------------------------------------------
(* The places of the words: the action, then the files.                    *)

\* An operator of the arguments, so that it stands for the words of the next state, too.
WordsOf(args, k) == {j \in 1..k : IsWord(args[j])}

LEMMA WordsAre ==
  \A k : WordsUpTo(k) = WordsOf(argv, k) /\ Place(k) = Cardinality(WordsOf(argv, k))
  BY DEF WordsUpTo, Place, WordsOf

LEMMA WordsFinite ==
  ASSUME NEW args, NEW k \in Nat
  PROVE  IsFiniteSet(WordsOf(args, k)) /\ Cardinality(WordsOf(args, k)) \in Nat
  <1>1. IsFiniteSet(1..k)
    BY FS_Interval
  <1>2. WordsOf(args, k) \subseteq 1..k
    BY DEF WordsOf
  <1>3. IsFiniteSet(WordsOf(args, k))
    BY <1>1, <1>2, FS_Subset
  <1> QED
    BY <1>3, FS_CardinalityType

LEMMA PlaceInRange ==
  ASSUME NEW args, NEW k \in Nat, NEW j \in WordsOf(args, k)
  PROVE  /\ Cardinality(WordsOf(args, j)) \in Nat \ {0}
         /\ Cardinality(WordsOf(args, j)) <= Cardinality(WordsOf(args, k))
  <1>1. j \in 1..k /\ IsWord(args[j]) /\ j \in Nat
    BY DEF WordsOf
  <1>2. WordsOf(args, j) \subseteq WordsOf(args, k)
    BY <1>1 DEF WordsOf
  <1>3. j \in WordsOf(args, j)
    BY <1>1 DEF WordsOf
  <1>4. /\ IsFiniteSet(WordsOf(args, j)) /\ Cardinality(WordsOf(args, j)) \in Nat
        /\ IsFiniteSet(WordsOf(args, k))
    BY <1>1, WordsFinite
  <1>5. Cardinality(WordsOf(args, j)) # 0
    BY <1>3, <1>4, FS_EmptySet
  <1>6. Cardinality(WordsOf(args, j)) <= Cardinality(WordsOf(args, k))
    BY <1>2, <1>4, FS_Subset
  <1> QED
    BY <1>4, <1>5, <1>6

LEMMA WordsMore ==
  ASSUME NEW args, NEW k \in Nat \ {0}
  PROVE  /\ IsWord(args[k]) =>
              /\ WordsOf(args, k) = WordsOf(args, k - 1) \cup {k}
              /\ Cardinality(WordsOf(args, k)) = Cardinality(WordsOf(args, k - 1)) + 1
         /\ ~ IsWord(args[k]) => WordsOf(args, k) = WordsOf(args, k - 1)
  <1>1. \A j : j \in 1..k <=> j \in 1..k - 1 \/ j = k
    OBVIOUS
  <1>2. k - 1 \in Nat /\ k \notin 1..k - 1
    OBVIOUS
  <1>3. ASSUME IsWord(args[k])
        PROVE  /\ WordsOf(args, k) = WordsOf(args, k - 1) \cup {k}
               /\ Cardinality(WordsOf(args, k)) = Cardinality(WordsOf(args, k - 1)) + 1
    <2>1. WordsOf(args, k) = WordsOf(args, k - 1) \cup {k}
      BY <1>1, <1>3 DEF WordsOf
    <2>2. k \notin WordsOf(args, k - 1)
      BY <1>2 DEF WordsOf
    <2>3. IsFiniteSet(WordsOf(args, k - 1))
      BY <1>2, WordsFinite
    <2>4. Cardinality(WordsOf(args, k - 1) \cup {k}) = Cardinality(WordsOf(args, k - 1)) + 1
      BY <2>2, <2>3, FS_AddElement
    <2> QED
      BY <2>1, <2>4
  <1>4. ASSUME ~ IsWord(args[k])
        PROVE  WordsOf(args, k) = WordsOf(args, k - 1)
    BY <1>1, <1>4 DEF WordsOf
  <1> QED
    BY <1>3, <1>4

Stands(args, files, target, k) ==
  IF Cardinality(WordsOf(args, k)) = 1 THEN target = cl_names[args[k].names[1]]
  ELSE files[Cardinality(WordsOf(args, k)) - 1] = args[k].names[1]

\* The words up to an argument are the action and the files.
Placed(args, files, target, k) ==
  /\ Len(files) + 1 = Cardinality(WordsOf(args, k))
  /\ \A j \in WordsOf(args, k) : Stands(args, files, target, j)

FilesInv ==
  /\ Alive => IF dst_convention_specified THEN Placed(argv, filenames, dst_convention, i - 1)
              ELSE filenames = <<>>
  /\ status \in Modes => dst_convention_specified
  /\ status \in Modes => (status = "files" <=> filenames # <<>>)

LEMMA ActionIsPlaced ==
  ASSUME NEW args, NEW k \in Nat \ {0}, IsWord(args[k]), WordsOf(args, k - 1) = {},
         NEW target, target = cl_names[args[k].names[1]]
  PROVE  Placed(args, <<>>, target, k)
  <1>1. /\ WordsOf(args, k) = {k}
        /\ Cardinality(WordsOf(args, k)) = 0 + 1
    BY WordsMore, FS_EmptySet
  <1>2. Len(<<>>) = 0
    OBVIOUS
  <1>3. Stands(args, <<>>, target, k)
    BY <1>1 DEF Stands
  <1> QED
    BY <1>1, <1>2, <1>3 DEF Placed

LEMMA FileIsPlaced ==
  ASSUME NEW args, NEW k \in Nat \ {0}, IsWord(args[k]),
         NEW files \in Seq(Words), NEW target, args[k].names[1] \in Words,
         Placed(args, files, target, k - 1)
  PROVE  Placed(args, Append(files, args[k].names[1]), target, k)
  <1> DEFINE c == Cardinality(WordsOf(args, k - 1))
             word == args[k].names[1]
             longer == Append(files, word)
  <1>1. /\ WordsOf(args, k) = WordsOf(args, k - 1) \cup {k}
        /\ Cardinality(WordsOf(args, k)) = c + 1
    BY WordsMore
  <1>2. /\ Len(files) \in Nat /\ Len(longer) = Len(files) + 1
        /\ \A m \in 1..Len(files) : longer[m] = files[m]
        /\ longer[Len(files) + 1] = word
    BY LenProperties, AppendProperties
  <1>3. Len(files) + 1 = c /\ \A j \in WordsOf(args, k - 1) : Stands(args, files, target, j)
    BY DEF Placed
  <1>4. ASSUME NEW j \in WordsOf(args, k - 1)
        PROVE  Stands(args, longer, target, j)
    <2> DEFINE p == Cardinality(WordsOf(args, j))
    <2>1. p \in Nat \ {0} /\ p <= c
      BY PlaceInRange
    <2>2. Stands(args, files, target, j)
      BY <1>3
    <2> HIDE DEF c, longer
    <2>3. CASE p = 1
      BY <2>2, <2>3 DEF Stands
    <2>4. CASE p # 1
      <3>1. files[p - 1] = args[j].names[1]
        BY <2>2, <2>4 DEF Stands
      <3> HIDE DEF p
      <3>2. p - 1 \in 1..Len(files)
        BY <1>2, <1>3, <2>1, <2>4
      <3>3. longer[p - 1] = args[j].names[1]
        BY <1>2, <3>1, <3>2
      <3> QED
        BY <2>4, <3>3 DEF Stands, p
    <2> QED
      BY <2>3, <2>4
  <1>5. Stands(args, longer, target, k)
    <2>1. c + 1 # 1 /\ (c + 1) - 1 = Len(files) + 1
      <3> HIDE DEF c, longer
      <3> QED
        BY <1>2, <1>3
    <2>2. longer[(c + 1) - 1] = word
      BY <1>2, <2>1
    <2> HIDE DEF c, longer
    <2> QED
      BY <1>1, <2>1, <2>2 DEF Stands, word
  <1>6. Len(longer) + 1 = c + 1
    BY <1>2, <1>3
  <1> HIDE DEF c, longer
  <1>7. \A j \in WordsOf(args, k) : Stands(args, longer, target, j)
    BY <1>1, <1>4, <1>5
  <1>8. Placed(args, longer, target, k)
    BY <1>1, <1>6, <1>7 DEF Placed
  <1> QED
    BY <1>8 DEF longer

LEMMA FilesInit == Init => FilesInv
  BY DEF Init, FilesInv, Alive, Modes

\* A step that passes no word.
LEMMA FilesStay ==
  ASSUME FilesInv, status = "parsing", argv' = argv, filenames' = filenames,
         dst_convention' = dst_convention,
         dst_convention_specified' = dst_convention_specified,
         status' \notin Modes,
         WordsOf(argv, i' - 1) = WordsOf(argv, i - 1)
  PROVE  FilesInv'
  <1>1. IF dst_convention_specified THEN Placed(argv, filenames, dst_convention, i - 1)
        ELSE filenames = <<>>
    BY DEF FilesInv, Alive
  <1>2. dst_convention_specified => Placed(argv', filenames', dst_convention', i' - 1)
    BY <1>1 DEF Placed
  <1>3. IF dst_convention_specified'
        THEN Placed(argv', filenames', dst_convention', i' - 1) ELSE filenames' = <<>>
    BY <1>1, <1>2
  <1> QED
    BY <1>3 DEF FilesInv

LEMMA FilesNext == ReasonInv /\ FilesInv /\ [Next]_vars => FilesInv'
  <1> SUFFICES ASSUME ReasonInv, FilesInv, [Next]_vars
               PROVE  FilesInv'
    OBVIOUS
  <1>1. /\ TypeOK /\ TypeInv /\ SpecifiedIs
        /\ status = "parsing" =>
             IF dst_convention_specified THEN Placed(argv, filenames, dst_convention, i - 1)
             ELSE filenames = <<>>
    BY DEF ReasonInv, TypeInv, FilesInv, Alive
  <1>2. i \in Nat \ {0} /\ (i + 1) - 1 = i /\ filenames \in Seq(Words)
        /\ dst_convention_specified \in BOOLEAN
    BY <1>1, LenProperties DEF TypeOK
  <1>3. ~ IsWord(Arg) => WordsOf(argv, i) = WordsOf(argv, i - 1)
    BY <1>2, WordsMore DEF Arg
  <1>4. status' \in Reasons => FilesInv'
    BY DEF FilesInv, Alive, Reasons, Modes
  <1>5. status' \in {"parsing"} \cup Reasons => status' \notin Modes
    BY DEF Reasons, Modes
  <1>6. CASE process_long_flag
    <2>1. /\ argv' = argv /\ i' = i + 1 /\ status = "parsing" /\ Arg.dashes = 2
          /\ filenames' = filenames /\ dst_convention' = dst_convention
          /\ dst_convention_specified' = dst_convention_specified
      BY <1>6 DEF process_long_flag, Reading, NextArg
    <2>2. status' \in {"parsing"} \cup Reasons
      <3>1. \/ Flags(Arg.names)[1] \in LongFlags /\ got_flag(Flags(Arg.names)[1])
            \/ unknown_option
        BY <1>6 DEF process_long_flag
      <3> QED
        BY <2>1, <3>1 DEF got_flag, unknown_option, LongFlags, Reasons
    <2>3. ~ IsWord(Arg)
      BY <2>1 DEF IsWord
    <2>4. WordsOf(argv, i' - 1) = WordsOf(argv, i - 1)
      BY <1>2, <1>3, <2>1, <2>3
    <2> QED
      BY <1>5, <2>1, <2>2, <2>4, FilesStay
  <1>7. CASE process_short_flags
    <2>1. /\ argv' = argv /\ status = "parsing" /\ Arg.dashes = 1
          /\ i' = i + 1 \/ i' = i
          /\ filenames' = filenames /\ dst_convention' = dst_convention
          /\ dst_convention_specified' = dst_convention_specified /\ status' = status
      BY <1>7 DEF process_short_flags, Reading, NextArg
    <2>2. ~ IsWord(Arg)
      BY <2>1 DEF IsWord
    <2>3. WordsOf(argv, i' - 1) = WordsOf(argv, i - 1)
      BY <1>2, <1>3, <2>1, <2>2
    <2> QED
      BY <1>5, <2>1, <2>3, FilesStay
  <1>8. CASE process_short_flag
    <2>1. /\ argv' = argv /\ status = "parsing" /\ short_flags # <<>>
          /\ i' = i + 1 \/ i' = i
          /\ filenames' = filenames /\ dst_convention' = dst_convention
          /\ dst_convention_specified' = dst_convention_specified
      BY <1>8 DEF process_short_flag, NextArg
    <2>2. status' \in {"parsing"} \cup Reasons
      <3>1. \/ Head(short_flags) \in DOMAIN ShortFlags /\ got_flag(ShortFlags[Head(short_flags)])
            \/ unknown_option
        BY <1>8 DEF process_short_flag
      <3>2. Head(short_flags) \in DOMAIN ShortFlags => ShortFlags[Head(short_flags)] \in Options
        BY ShortFlagsAre
      <3> QED
        BY <2>1, <3>1, <3>2 DEF got_flag, unknown_option, Reasons
    <2>3. Arg.dashes = 1
      BY <1>1, <2>1 DEF TypeInv
    <2>4. ~ IsWord(Arg)
      BY <2>3 DEF IsWord
    <2>5. WordsOf(argv, i' - 1) = WordsOf(argv, i - 1)
      BY <1>2, <1>3, <2>1, <2>4
    <2> QED
      BY <1>5, <2>1, <2>2, <2>5, FilesStay
  <1>9. CASE got_non_flag_arg
    <2> DEFINE word == Arg.names[1]
    <2>1. /\ argv' = argv /\ i' = i + 1 /\ i <= Len(argv) /\ status = "parsing"
          /\ Arg.dashes = 0
      BY <1>9 DEF got_non_flag_arg, read_convention_from_string, Reading, NextArg
    <2>2. IsWord(argv[i]) /\ word = argv[i].names[1] /\ word \in Words
      BY <1>1, <2>1, ArgIs DEF IsWord, Arg
    <2>3. i' - 1 = i
      BY <1>2, <2>1
    <2>4. CASE ~ dst_convention_specified
      <3>1. CASE word \in DOMAIN cl_names
        <4>1. /\ dst_convention' = cl_names[word] /\ dst_convention_specified' = TRUE
              /\ status' = status /\ filenames' = filenames
          BY <1>9, <2>4, <3>1 DEF got_non_flag_arg, read_convention_from_string, IsAction
        <4>2. filenames' = <<>>
          BY <1>1, <2>1, <2>4, <4>1
        <4>3. WordsOf(argv, i - 1) = {}
          BY <1>1, <2>1, <2>4 DEF SpecifiedIs, Alive, WordsOf
        <4>4. dst_convention' = cl_names[argv[i].names[1]]
          BY <2>2, <4>1
        <4>5. Placed(argv, <<>>, dst_convention', i)
          BY <1>2, <2>2, <4>3, <4>4, ActionIsPlaced
        <4>6. Placed(argv', filenames', dst_convention', i' - 1)
          BY <2>1, <2>3, <4>2, <4>5
        <4>7. status' \notin Modes
          BY <1>5, <2>1, <4>1
        <4> QED
          BY <4>1, <4>6, <4>7 DEF FilesInv
      <3>2. CASE word \notin DOMAIN cl_names
        <4>1. status' \in Reasons
          BY <1>9, <2>4, <3>2 DEF got_non_flag_arg, read_convention_from_string, IsAction, Reasons
        <4> QED
          BY <1>4, <4>1
      <3> QED
        BY <3>1, <3>2
    <2>5. CASE dst_convention_specified
      <3>1. /\ filenames' = Append(filenames, word)
            /\ dst_convention' = dst_convention
            /\ dst_convention_specified' = dst_convention_specified /\ status' = status
        BY <1>9, <2>5 DEF got_non_flag_arg, read_convention_from_string, IsAction
      <3>2. Placed(argv, filenames, dst_convention, i - 1)
        BY <1>1, <2>1, <2>5
      <3>3. Placed(argv, Append(filenames, argv[i].names[1]), dst_convention, i)
        BY <1>2, <2>2, <3>2, FileIsPlaced
      <3>4. Placed(argv', filenames', dst_convention', i' - 1)
        BY <2>1, <2>3, <2>2, <3>1, <3>3
      <3>5. status' \notin Modes
        BY <1>5, <2>1, <3>1
      <3>6. dst_convention_specified'
        BY <2>5, <3>1
      <3> QED
        BY <3>4, <3>5, <3>6 DEF FilesInv
    <2> QED
      BY <2>4, <2>5
  <1>10. CASE Dispatch
    <2>1. /\ argv' = argv /\ i' = i /\ status = "parsing" /\ filenames' = filenames
          /\ dst_convention' = dst_convention
          /\ dst_convention_specified' = dst_convention_specified
      BY <1>10 DEF Dispatch
    <2>2. IF dst_convention_specified'
          THEN Placed(argv', filenames', dst_convention', i' - 1) ELSE filenames' = <<>>
      BY <1>1, <2>1
    <2>3. status' \in Modes => dst_convention_specified'
      <3>1. status' \in Modes => dst_convention_specified
        BY <1>10 DEF Dispatch, Modes
      <3> QED
        BY <2>1, <3>1
    <2>4. status' \in Modes => (status' = "files" <=> filenames' # <<>>)
      BY <1>10, <2>1 DEF Dispatch, Modes
    <2> QED
      BY <2>3, <2>2, <2>4 DEF FilesInv
  <1>11. CASE UNCHANGED vars
    <2>1. /\ argv' = argv /\ i' = i /\ status' = status /\ filenames' = filenames
          /\ dst_convention' = dst_convention
          /\ dst_convention_specified' = dst_convention_specified
      BY <1>11 DEF vars
    <2> QED
      BY <2>1 DEF FilesInv, Alive
  <1> QED
    BY <1>6, <1>7, <1>8, <1>9, <1>10, <1>11 DEF Next

LEMMA ReadingFollows == ReasonInv /\ GivenInv /\ FilesInv => ReadingIsRight
  <1> SUFFICES ASSUME ReasonInv, GivenInv, FilesInv, status \in Modes
               PROVE  /\ Len(filenames) + 1 = Place(Len(argv))
                      /\ \A k \in WordsUpTo(Len(argv)) :
                           IF Place(k) = 1 THEN dst_convention = cl_names[argv[k].names[1]]
                           ELSE filenames[Place(k) - 1] = argv[k].names[1]
                      /\ given = {o \in Options : \E k \in DOMAIN argv : Has(argv[k], o)}
                      /\ status = "files" <=> filenames # <<>>
    BY DEF ReadingIsRight
  <1>1. Alive /\ status # "parsing"
    BY DEF Alive, Modes
  <1>2. short_flags = <<>> /\ i = Len(argv) + 1 /\ argv \in Seq(Argument)
    BY <1>1 DEF ReasonInv, AtEnd, TypeInv, TypeOK
  <1>3. Len(argv) \in Nat /\ DOMAIN argv = 1..Len(argv)
    BY <1>2, LenProperties
  <1>4. i - 1 = Len(argv)
    BY <1>2, <1>3
  <1>5. Placed(argv, filenames, dst_convention, Len(argv))
    BY <1>1, <1>4 DEF FilesInv
  <1>6. Len(filenames) + 1 = Place(Len(argv))
    BY <1>5, WordsAre DEF Placed
  <1>7. ASSUME NEW k \in WordsUpTo(Len(argv))
        PROVE  IF Place(k) = 1 THEN dst_convention = cl_names[argv[k].names[1]]
               ELSE filenames[Place(k) - 1] = argv[k].names[1]
    <2>1. Stands(argv, filenames, dst_convention, k)
      BY <1>5, WordsAre DEF Placed
    <2>2. Place(k) = Cardinality(WordsOf(argv, k))
      BY WordsAre
    <2> QED
      BY <2>1, <2>2 DEF Stands
  <1>8. given = {o \in Options : \E k \in DOMAIN argv : Has(argv[k], o)}
    <2>1. given = GivenBy(argv, i - 1)
      BY <1>1, <1>2, NoLetters DEF GivenInv, Read
    <2> QED
      BY <1>3, <1>4, <2>1 DEF GivenBy
  <1> QED
    BY <1>6, <1>7, <1>8 DEF FilesInv

\* When the process goes on to work, the first word was the action, the others are the
\* files in their order, and an option is in force exactly if some argument gave it, for
\* command lines of any length.
THEOREM ReadingIsAlwaysRight == Spec => []ReadingIsRight
  <1> QED
    BY ReasonInit, ReasonNext, GivenInit, GivenNext, FilesInit, FilesNext, ReadingFollows,
       PTL DEF Spec
================================================================================
