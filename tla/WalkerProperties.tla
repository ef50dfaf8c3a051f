---------------------------- MODULE WalkerProperties ----------------------------
(***************************************************************************)
(* What a walk promises about the files it comes to, the files it leaves   *)
(* alone, and the totals it prints.                                        *)
(***************************************************************************)
EXTENDS Walker, FiniteSetsExt, SequencesExt

Frame == [ path : Seq(Names), length : Nat, dir : Directories, links : Nat,
           unread : SUBSET Names ]
Sight == [ path : Seq(Names), length : Nat,
           class : FileOp_Status \cup {"hidden", "unreadable", "special", "walked", "unopened",
                                       "directory", "too long", "aborted"} ]

TypeOK ==
  /\ invocation \in Command
  /\ tree \in [Directories -> [Names -> Entry \cup {Nothing}]]
  /\ arguments \in Seq(Names)
  /\ stack \in Seq(Frame)
  /\ tracker \in [Counters -> Nat]
  /\ outcome_totals \in [FileOp_Status -> Nat]
  /\ convention_totals \in [Conventions -> Nat]
  /\ seen \subseteq Sight
  /\ status \in {"walking", "done", "aborted"}

\* The directory a path leads into, and what there was at the end of it.
Follow(e) == IF e # Nothing /\ e.is = "link" THEN Tree[e.to[1]][e.to[2]] ELSE e
Along(path, dirs) ==
  /\ dirs[1] = Cwd
  /\ \A i \in 1..(Len(path) - 1) :
       Follow(Tree[dirs[i]][path[i]]) = [is |-> "directory", dir |-> dirs[i + 1]]
DirAt(path) ==
  CHOOSE d \in Directories :
    \E dirs \in [1..Len(path) -> Directories] : Along(path, dirs) /\ dirs[Len(path)] = d
At(path)    == Tree[DirAt(path)][Last(path)]
Was(path)   == Follow(At(path))

SeenAs(path, class) == \E s \in seen : s.path = path /\ s.class = class
Seen(path)          == \E s \in seen : s.path = path
Hides(n, command)   == n \in HiddenNames /\ ~ command.process_hidden
Hidden(n)           == Hides(n, invocation)

--------------------------------------------------------------------------------
(* Safety.                                                                  *)

\* The path buffers of the running calls of walk_directory have room for their path,
\* a slash and a zero; no path that is longer than a buffer was worked on below them.
PathsFit ==
  /\ \A i \in DOMAIN stack : stack[i].length + 1 < MAX_PATH_LENGTH
  /\ \A s \in seen : \/ s.length < MAX_PATH_LENGTH
                     \/ Len(s.path) = 1 \/ s.class = "too long"

\* A file that changed was asked for: it was come to without passing a hidden name
\* (unless -h) or a subdirectory (unless -r), and not under check.
OnlyEligible ==
  \A d \in Directories, n \in Names :
    tree[d][n] # Tree[d][n] =>
      /\ invocation.dst_convention # "NO_CONVENTION"
      /\ \E s \in seen :
           /\ s.class \in {"DONE", "aborted"}
           /\ DirAt(s.path) = d /\ Last(s.path) = n
           /\ invocation.recurse \/ Len(s.path) = 1
           /\ \A i \in DOMAIN s.path : ~ Hidden(s.path[i])

\* When the walk is over, every argument and every entry of every directory that was
\* opened has been come to, whatever went wrong with the others.
NothingMissed ==
  status = "done" =>
    /\ \A i \in DOMAIN Arguments : Seen(<<Arguments[i]>>)
    /\ \A s \in seen :
         s.class = "walked" =>
           \A n \in Names : Tree[Was(s.path).dir][n] # Nothing => Seen(Append(s.path, n))

\* Every file has one outcome, and every file that is DONE one convention, which never
\* comes from a report that was not filled in.
SumsAgree ==
  status # "aborted" =>
    /\ tracker["processed_count"] = outcome_totals["DONE"] + outcome_totals["SKIPPED_BINARY"]
                                      + outcome_totals["FILEOP_ERROR"]
    /\ outcome_totals["DONE"] = convention_totals["CR"] + convention_totals["LF"]
                                   + convention_totals["CRLF"] + convention_totals["MIXED"]
                                   + convention_totals["NO_CONVENTION"]

\* The length of a path: that of its names, and a slash between each two.
PathLength(path) == Cardinality(UNION {{i} \X (0..strlen[path[i]]) : i \in DOMAIN path}) - 1

\* The paths a walk should come to: each name but the last leads on to a directory that
\* is to be opened, and has the next one in it.
Opens(path, command) ==
  /\ command.recurse /\ ~ Hides(Last(path), command)
  /\ Was(path) # Nothing /\ Was(path).is = "directory" /\ Was(path).dir \notin Unopenable
  /\ PathLength(path) + 1 < MAX_PATH_LENGTH
ComesTo(path, command) ==
  /\ \E i \in DOMAIN Arguments : path[1] = Arguments[i]
  /\ \A i \in 1..(Len(path) - 1) :
       /\ Opens(SubSeq(path, 1, i), command)
       /\ Tree[Was(SubSeq(path, 1, i)).dir][path[i + 1]] # Nothing
       /\ PathLength(SubSeq(path, 1, i + 1)) < MAX_PATH_LENGTH

\* Where no directory has two names, a path passes through each of them at most once.
Paths(command) == {path \in UNION {[1..k -> Names] : k \in 1..Cardinality(Directories)} :
                     ComesTo(path, command)}

\* The temporary file that a conversion makes next to a file has a name that fits.
HasRoom(path) ==
  /\ PathLength(path) < MAX_PATH_LENGTH
  /\ PathLength(path) - strlen[Last(path)] + strlen[TmpName] + 1 < MAX_PATH_LENGTH

\* How the totals see what was at the end of a path.
IsFile(path) == Was(path) # Nothing /\ Was(path).is = "file"
IsSkipped(path, command) ==
  ~ command.binaries /\ (Was(path).kind.binary \/ Last(path) \in KnownBinaryNames)
Uses(path, c) ==
  LET endings == Was(path).kind.endings
  IN  \/ endings = {c}
      \/ endings = {} /\ c = "NO_CONVENTION"
      \/ Cardinality(endings) > 1 /\ c = "MIXED"

\* The totals that are printed are those of the files as they were before the walk:
\* how many were in which convention, skipped as binary, hidden, or not there.
TotalsAreTrue ==
  LET paths == Paths(invocation)
      shown == {path \in paths : ~ Hidden(Last(path))}
      files == {path \in shown : IsFile(path)}
      texts == {path \in files : ~ IsSkipped(path, invocation)}
      roomy == invocation.dst_convention # "NO_CONVENTION" => \A path \in files : HasRoom(path)
  IN  status = "done" /\ roomy =>
        /\ totals.done = Cardinality(texts)
        /\ \A c \in Conventions :
             totals.count_by_convention[c] = Cardinality({path \in texts : Uses(path, c)})
        /\ totals.binaries = Cardinality(files \ texts)
        /\ totals.hidden = Cardinality(paths \ shown)
        /\ totals.directories =
             Cardinality({path \in shown : /\ Was(path) # Nothing /\ Was(path).is = "directory"
                                           /\ ~ invocation.recurse})
        /\ totals.errors = Cardinality({path \in shown : Was(path) = Nothing})

--------------------------------------------------------------------------------
(* What never happens, and what must.                                       *)

\* What is read at an entry before the walk.
Text == [d \in Directories |-> [n \in Names |->
          LET at == Follow(Tree[d][n])
          IN  IF at # Nothing /\ at.is = "file" THEN at.kind ELSE Nothing]]

\* Whatever readdir lists, the links lead to and goes wrong: no entry is replaced twice,
\* and what replaces it is the conversion of the text it led to before the walk.
Swept == INSTANCE Sweep WITH
  Before <- Tree, command <- invocation, now <- tree, over <- status # "walking"
IsASweep == Swept!Spec

\* The walk ends, also through links that lead back and when readdir lists a file
\* again each time it was replaced: a file that was converted is not replaced again.
Termination == <>(status # "walking")

--------------------------------------------------------------------------------
(* What a document says of the program and the code does not do.            *)

\* walkers.h: "Symbolic links get plainly ignored as of now."
LinksIgnored ==
  \A s \in seen : s.class \in {"DONE", "walked"} => At(s.path).is # "link"
================================================================================
