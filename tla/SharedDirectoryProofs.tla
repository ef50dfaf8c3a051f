-------------------------- MODULE SharedDirectoryProofs --------------------------
(***************************************************************************)
(* Proofs about SharedDirectory, for any number of walks, files, command   *)
(* lines and kinds of files, and any failures: as long as a walk with      *)
(* --hidden has no other walk beside it, no text is lost, and no file gets *)
(* the text of another one.                                                *)
(***************************************************************************)
EXTENDS SharedDirectoryProperties, TLAPS

\* A walk that comes to temporary files is alone.
Sheltered == Careful \/ \A c \in Commands : ~ c.process_hidden

Hidden(p) == invocation[p].process_hidden
Living(p) == pc[p] \notin Dead \cup {"unborn"}

\* Walks live together only if none of them comes to temporary files ...
LivingApart ==
  /\ invocation \in [Procs -> Commands]
  /\ \A p, q \in Procs : p # q /\ Living(p) /\ Living(q) => ~ Hidden(p) /\ ~ Hidden(q)

\* ... and the others come to files of the user, each once.
Listed ==
  \A p \in Procs : /\ ~ Hidden(p) => todo[p] \subseteq Files
                   /\ pc[p] \in Working => filename[p] \notin todo[p]

\* What such a walk has in hand, when it is not a file of the user, was left by a process
\* that is over; nobody else touches it.
LeftByTheDead ==
  \A p \in Procs :
    pc[p] \in Working /\ filename[p] \in Procs =>
      /\ Hidden(p) /\ pc[filename[p]] \in Dead
      /\ pc[p] \notin {"discard", "rename"} => dir[filename[p]] = in[p]
      /\ pc[p] = "rename" => dir[filename[p]] = Absent

\* The temporary name of a process is free until it opens its temporary file, and leads
\* from then on to the inode it has made.
Mine(p) == <<p, filename[p]>>
OwnTmp ==
  \A p \in Procs :
    /\ pc[p] \in {"unborn", "idle", "precheck", "create"} => dir[p] = Absent
    /\ pc[p] \in {"convert", "close", "discard", "remove", "rename"} => dir[p] = Mine(p)
    /\ pc[p] \in {"convert", "close"} => out[p] = Mine(p)

\* No two names lead to one inode, and an inode that a process has yet to make is
\* nowhere.
OneName == \A m, n \in Names : m # n /\ dir[m] = dir[n] => dir[m] = Absent
Unmade(p, n) == \/ n \in todo[p]
                \/ pc[p] \in {"precheck", "create"} /\ n = filename[p]
Fresh ==
  \A p \in Procs, n \in Names :
    Unmade(p, n) => /\ \A m \in Names : dir[m] # <<p, n>>
                    /\ \A q \in Procs : in[q] # <<p, n>>

\* Nobody reads what somebody writes.
WrittenApart ==
  \A p, q \in Procs : pc[p] \in {"convert", "close"} /\ pc[q] \in Working => in[q] # Mine(p)

NamesInv == LivingApart /\ Listed /\ LeftByTheDead /\ OwnTmp /\ OneName /\ Fresh /\ WrittenApart

\* The texts: what is in place is whole ...
IsWhole(t, f) == t.of = f /\ t.whole
InPlace == \A f \in Files : dir[f] # Absent => IsWhole(text[dir[f]], f)

\* ... so is what is read of it, and what is made of that ...
Reading  == {"precheck", "create", "convert", "close", "remove"}
SameText(s, t) == s.of = t.of /\ s.whole = t.whole
WhatIsRead ==
  \A p \in Procs :
    pc[p] \in Reading /\ filename[p] \in Files => IsWhole(text[in[p]], filename[p])
WhatIsMade ==
  \A p \in Procs :
    /\ pc[p] = "close"  => SameText(got[p], text[in[p]])
    /\ pc[p] = "remove" => SameText(text[Mine(p)], text[in[p]])
    /\ pc[p] = "rename" /\ filename[p] \in Files => IsWhole(text[Mine(p)], filename[p])

\* ... and a file that is not in its place is under the name of a process that is about
\* to rename it, or is over.
Elsewhere ==
  \A f \in Files : dir[f] = Absent =>
    \E q \in Procs : Holds(q, f) /\ pc[q] \in {"rename"} \cup Dead

TextsInv == InPlace /\ WhatIsRead /\ WhatIsMade /\ Elsewhere

--------------------------------------------------------------------------------
(* Types.                                                                   *)

LEMMA EmptyIsKind == Empty \in Kind
  BY DEF Empty, Kind

\* A conversion, and what has been written of it, are kinds of text.
LEMMA ConvertedIsKind ==
  ASSUME NEW kind \in Kind, NEW inv \in Command
  PROVE  /\ converted(kind, inv) \in Kind
         /\ \A part \in PartsOf(converted(kind, inv)) : part \in Kind
  <1>1. converted(kind, inv) \in Kind
    BY DEF converted, Kind, Command, LineEndings
  <1> QED
    BY <1>1 DEF PartsOf, Kind

\* What a step does to a text: it gives one that it makes the text it reads, in parts ...
LEMMA Writing ==
  ASSUME NEW i \in Inodes, text \in [Inodes -> Text], NEW part \in Kind,
         text' = [text EXCEPT ![i].kind = part]
  PROVE  /\ text' \in [Inodes -> Text]
         /\ \A j \in Inodes : SameText(text'[j], text[j])
  <1> DEFINE t == [text[i] EXCEPT !.kind = part]
  <1>1. t \in Text /\ t.of = text[i].of /\ t.whole = text[i].whole
    BY DEF Text
  <1>2. text' = [text EXCEPT ![i] = t]
    OBVIOUS
  <1> HIDE DEF t
  <1> QED
    BY <1>1, <1>2 DEF SameText

\* ... and at last as a whole.
LEMMA Completing ==
  ASSUME NEW p \in Procs, TypeOK, CloseStreams(p)
  PROVE  /\ text' \in [Inodes -> Text]
         /\ SameText(text'[out[p]], got[p])
         /\ \A j \in Inodes \ {out[p]} : text'[j] = text[j]
  <1> DEFINE t == [got[p] EXCEPT !.kind = converted(@, invocation[p])]
  <1>1. out[p] \in Inodes /\ got[p] \in Text /\ invocation[p] \in Command
    BY DEF TypeOK
  <1>2. converted(got[p].kind, invocation[p]) \in Kind
    BY <1>1, ConvertedIsKind DEF Text
  <1>3. t \in Text /\ t.of = got[p].of /\ t.whole = got[p].whole
    BY <1>1, <1>2 DEF Text
  <1>4. text' = [text EXCEPT ![out[p]] = t]
    BY DEF CloseStreams
  <1> HIDE DEF t
  <1> QED
    BY <1>1, <1>3, <1>4 DEF SameText, TypeOK

LEMMA Creating ==
  ASSUME NEW p \in Procs, TypeOK, open_to_write(p)
  PROVE  /\ OpenedToWrite(p) \in Inodes
         /\ text' \in [Inodes -> Text]
         /\ text'[OpenedToWrite(p)].of = text[in[p]].of
         /\ \A j \in Inodes \ {OpenedToWrite(p)} : text'[j] = text[j]
  <1> DEFINE t == [of |-> text[in[p]].of, whole |-> FALSE, kind |-> Empty]
  <1>1. /\ text[in[p]] \in Text /\ filename[p] \in Names /\ dir[p] \in Inodes \cup {Absent}
        /\ p \in Names
    BY DEF TypeOK, Names
  <1>2. OpenedToWrite(p) \in Inodes
    BY <1>1 DEF OpenedToWrite, Inodes
  <1>3. t \in Text /\ t.of = text[in[p]].of
    BY <1>1, EmptyIsKind DEF Text
  <1>4. text' = [text EXCEPT ![OpenedToWrite(p)] = t]
    BY DEF open_to_write
  <1> HIDE DEF t
  <1> QED
    BY <1>2, <1>3, <1>4 DEF TypeOK

LEMMA Converting ==
  ASSUME NEW p \in Procs, TypeOK, Convert(p)
  PROVE  /\ text' \in [Inodes -> Text] /\ got' \in [Procs -> Text]
         /\ \A j \in Inodes : SameText(text'[j], text[j])
         /\ pc'[p] \in {"close", "discard"}
         /\ pc'[p] = "close" => SameText(got'[p], text[in[p]])
         /\ \A q \in Procs \ {p} : got'[q] = got[q]
  <1>1. /\ text[in[p]] \in Text /\ invocation[p] \in Command /\ out[p] \in Inodes
        /\ pc \in [Procs -> Places] /\ got \in [Procs -> Text]
    BY DEF TypeOK
  <1>2. PICK failed \in {FALSE, May("read")} :
          /\ got' = [got EXCEPT ![p] = [text[in[p]] EXCEPT !.whole = @ /\ ~ failed]]
          /\ Goto(p, AfterConvert(failed, IsUnwantedBinary(text[in[p]].kind, invocation[p])))
    BY DEF Convert
  <1>3. PICK part \in PartsOf(converted(text[in[p]].kind, invocation[p])) :
          text' = [text EXCEPT ![out[p]].kind = part]
    BY DEF Convert
  <1>4. part \in Kind
    BY <1>1, ConvertedIsKind DEF Text
  <1>5. text' \in [Inodes -> Text] /\ \A j \in Inodes : SameText(text'[j], text[j])
    BY <1>1, <1>3, <1>4, Writing DEF TypeOK
  <1> DEFINE t == [text[in[p]] EXCEPT !.whole = @ /\ ~ failed]
  <1>6. t \in Text /\ t.of = text[in[p]].of /\ (~ failed => t.whole = text[in[p]].whole)
    BY <1>1 DEF Text
  <1> HIDE DEF t
  <1>7. got' = [got EXCEPT ![p] = t]
    BY <1>2 DEF t
  <1>8. pc'[p] \in {"close", "discard"} /\ (pc'[p] = "close" => ~ failed)
    BY <1>1, <1>2 DEF Goto, AfterConvert
  <1> QED
    BY <1>1, <1>5, <1>6, <1>7, <1>8 DEF SameText

LEMMA TypeInit == Init => TypeOK
  <1> SUFFICES ASSUME Init PROVE TypeOK
    OBVIOUS
  <1> DEFINE some == CHOOSE f \in Files : TRUE
  <1>1. some \in Files
    BY NamesAssumption
  <1> HIDE DEF some
  <1>2. invocation \in [Procs -> Command]
    BY CommandAssumption DEF Init
  <1>3. PICK kinds \in [Files -> Kinds] :
          text = [i \in Inodes |-> IF i \in Files
                                   THEN [of |-> i, whole |-> TRUE, kind |-> kinds[i]]
                                   ELSE [of |-> some, whole |-> FALSE, kind |-> Empty]]
    BY DEF Init, some
  <1>4. text \in [Inodes -> Text]
    <2>1. \A i \in Inodes : text[i] \in Text
      <3> SUFFICES ASSUME NEW i \in Inodes PROVE text[i] \in Text
        OBVIOUS
      <3>1. CASE i \in Files
        <4>1. kinds[i] \in Kind
          BY <3>1, <1>3, KindAssumption
        <4> QED
          BY <3>1, <4>1, <1>3 DEF Text
      <3>2. CASE i \notin Files
        BY <3>2, <1>1, <1>3, EmptyIsKind DEF Text
      <3> QED
        BY <3>1, <3>2
    <2> QED
      BY <2>1, <1>3
  <1>5. filename = [p \in Procs |-> some] /\ in = filename /\ out = filename
    BY DEF Init, some
  <1>6. got \in [Procs -> Text]
    BY <1>1, <1>4, <1>5 DEF Init, Inodes
  <1>7. todo \in [Procs -> SUBSET Names] /\ dir \in [Names -> Inodes \cup {Absent}]
    BY DEF Init, Names, Inodes
  <1>8. filename \in [Procs -> Names] /\ in \in [Procs -> Inodes] /\ out \in [Procs -> Inodes]
    BY <1>1, <1>5 DEF Names, Inodes
  <1>9. pc \in [Procs -> Places] /\ done \in [Procs -> SUBSET Names]
    BY DEF Init, Places
  <1> QED
    BY <1>2, <1>4, <1>6, <1>7, <1>8, <1>9 DEF TypeOK

\* A step of one walk leaves the others where they are.
LEMMA Others ==
  ASSUME NEW p \in Procs, TypeOK, Step(p)
  PROVE  /\ invocation' = invocation
         /\ pc' \in [Procs -> Places] /\ todo' \in [Procs -> SUBSET Names]
         /\ filename' \in [Procs -> Names]
         /\ \A q \in Procs \ {p} : /\ pc'[q] = pc[q] /\ todo'[q] = todo[q]
                                   /\ filename'[q] = filename[q]
                                   /\ in'[q] = in[q] /\ out'[q] = out[q]
                                   /\ got'[q] = got[q] /\ done'[q] = done[q]
  <1>0. /\ pc \in [Procs -> Places] /\ todo \in [Procs -> SUBSET Names]
        /\ filename \in [Procs -> Names]
        /\ in \in [Procs -> Inodes] /\ out \in [Procs -> Inodes]
        /\ got \in [Procs -> Text] /\ done \in [Procs -> SUBSET Names]
    BY DEF TypeOK
  <1> USE <1>0 DEF Goto, work, Places, Working, Dead
  <1>1. CASE Launch(p)  BY <1>1 DEF Launch
  <1>2. CASE Open(p)    BY <1>2 DEF Open
  <1>3. CASE pre_conversion_check(p)  BY <1>3 DEF pre_conversion_check
  <1>4. CASE open_to_write(p)   BY <1>4 DEF open_to_write
  <1>5. CASE Convert(p)  
    <2>1. PICK failed \in {FALSE, May("read")} :
            /\ got' = [got EXCEPT ![p] = [text[in[p]] EXCEPT !.whole = @ /\ ~ failed]]
            /\ Goto(p, AfterConvert(failed, IsUnwantedBinary(text[in[p]].kind, invocation[p])))
      BY <1>5 DEF Convert
    <2>2. pc'[p] \in {"close", "discard"}
      BY <2>1 DEF AfterConvert
    <2>3. UNCHANGED <<invocation, dir, work, in, out, done>>
      BY <1>5 DEF Convert
    <2>4. \A q \in Procs \ {p} : got'[q] = got[q]
      BY <1>5, Converting
    <2> QED
      BY <2>1, <2>3, <2>2, <2>4
  <1>6. CASE CloseStreams(p)  BY <1>6 DEF CloseStreams
  <1>7. CASE Discard(p)  BY <1>7 DEF Discard
  <1>8. CASE RemoveOriginal(p)  BY <1>8 DEF RemoveOriginal
  <1>9. CASE RenameTmp(p)  BY <1>9 DEF RenameTmp, RenameFails
  <1>10. CASE Exit(p)  BY <1>10 DEF Exit
  <1>11. CASE Kill(p)  BY <1>11 DEF Kill
  <1> QED
    BY <1>1, <1>2, <1>3, <1>4, <1>5, <1>6, <1>7, <1>8, <1>9, <1>10, <1>11 DEF Step

LEMMA TypeNext == TypeOK /\ [Next]_vars => TypeOK'
  <1> SUFFICES ASSUME TypeOK, [Next]_vars PROVE TypeOK'
    OBVIOUS
  <1>0. /\ dir \in [Names -> Inodes \cup {Absent}] /\ text \in [Inodes -> Text]
        /\ filename \in [Procs -> Names] /\ Procs \subseteq Names
        /\ in \in [Procs -> Inodes] /\ out \in [Procs -> Inodes]
        /\ got \in [Procs -> Text] /\ done \in [Procs -> SUBSET Names]
        /\ invocation \in [Procs -> Command]
    BY DEF TypeOK, Names
  <1>1. CASE UNCHANGED vars
    BY <1>1 DEF vars, work, TypeOK
  <1>2. CASE Next
    <2> PICK p \in Procs : Step(p)
      BY <1>2 DEF Next
    <2>0. /\ invocation' \in [Procs -> Command] /\ pc' \in [Procs -> Places]
          /\ todo' \in [Procs -> SUBSET Names] /\ filename' \in [Procs -> Names]
      BY <1>0, Others
    <2> DEFINE Rest == /\ dir' \in [Names -> Inodes \cup {Absent}] /\ text' \in [Inodes -> Text]
                       /\ in' \in [Procs -> Inodes] /\ out' \in [Procs -> Inodes]
                       /\ got' \in [Procs -> Text] /\ done' \in [Procs -> SUBSET Names]
    <2> SUFFICES Rest
      BY <2>0 DEF TypeOK
    <2> USE <1>0
    <2>1. CASE Launch(p)  BY <2>1 DEF Launch
    <2>2. CASE Open(p)
      <3>1. PICK n \in todo[p] : \/ UNCHANGED <<pc, in>>
                                 \/ dir[n] # Absent /\ in' = [in EXCEPT ![p] = dir[n]]
        BY <2>2 DEF Open
      <3>2. n \in Names
        BY DEF TypeOK
      <3>3. in' \in [Procs -> Inodes]
        BY <3>1, <3>2
      <3> QED
        BY <2>2, <3>3 DEF Open
    <2>3. CASE pre_conversion_check(p)  BY <2>3 DEF pre_conversion_check
    <2>4. CASE open_to_write(p)
      <3>1. OpenedToWrite(p) \in Inodes /\ text' \in [Inodes -> Text]
        BY <2>4, Creating
      <3> QED
        BY <2>4, <3>1 DEF open_to_write
    <2>5. CASE Convert(p)
      <3>1. got' \in [Procs -> Text] /\ text' \in [Inodes -> Text]
        BY <2>5, Converting
      <3> QED
        BY <2>5, <3>1 DEF Convert
    <2>6. CASE CloseStreams(p)
      <3>1. text' \in [Inodes -> Text]
        BY <2>6, Completing
      <3> QED
        BY <2>6, <3>1 DEF CloseStreams
    <2>7. CASE Discard(p)  BY <2>7 DEF Discard
    <2>8. CASE RemoveOriginal(p)  BY <2>8 DEF RemoveOriginal
    <2>9. CASE RenameTmp(p)
      <3>1. CASE UNCHANGED <<dir, done>>
        BY <2>9, <3>1 DEF RenameTmp
      <3>2. CASE ~ UNCHANGED <<dir, done>>
        <4>1. /\ dir[p] # Absent
              /\ dir' = [dir EXCEPT ![filename[p]] = dir[p], ![p] = Absent]
              /\ done' = [done EXCEPT ![p] = @ \cup {filename[p]}]
              /\ UNCHANGED <<text, in, out, got>>
          BY <2>9, <3>2 DEF RenameTmp
        <4>2. filename[p] \in Names /\ dir[p] \in Inodes
          BY <4>1
        <4> QED
          BY <4>1, <4>2
      <3> QED
        BY <3>1, <3>2
    <2>10. CASE Exit(p)  BY <2>10 DEF Exit
    <2>11. CASE Kill(p)  BY <2>11 DEF Kill
    <2> QED
      BY <2>1, <2>3, <2>2, <2>4, <2>5, <2>6, <2>7, <2>8, <2>9, <2>10, <2>11 DEF Step
  <1> QED
    BY <1>1, <1>2

\* Type correctness, with no assumption on how the walks are run.
THEOREM TypeCorrect == Spec => []TypeOK
  BY TypeInit, TypeNext, PTL DEF Spec

--------------------------------------------------------------------------------
(* Names.                                                                   *)

LEMMA NamesInit == Sheltered /\ Init => NamesInv
  <1> SUFFICES ASSUME Init PROVE NamesInv
    OBVIOUS
  <1>1. /\ invocation \in [Procs -> Commands]
        /\ pc = [p \in Procs |-> "unborn"]
        /\ todo = [p \in Procs |-> IF Hidden(p) THEN Names ELSE Files]
        /\ dir = [n \in Names |-> IF n \in Files THEN n ELSE Absent]
    BY DEF Init, Hidden
  <1>2. \A p \in Procs : in[p] \in Files
    BY NamesAssumption DEF Init
  <1>3. \A p \in Procs, n \in Names : <<p, n>> \notin Files /\ <<p, n>> # Absent
    BY NamesAssumption DEF Inodes
  <1>4. LivingApart /\ Listed /\ LeftByTheDead /\ WrittenApart
    BY <1>1 DEF LivingApart, Listed, LeftByTheDead, WrittenApart, Living, Working
  <1>5. OwnTmp
    BY <1>1, NamesAssumption DEF OwnTmp, Names
  <1>6. OneName
    BY <1>1 DEF OneName, Names
  <1>7. Fresh
    BY <1>1, <1>2, <1>3 DEF Fresh
  <1> QED
    BY <1>4, <1>5, <1>6, <1>7 DEF NamesInv

\* What a step of the walk p does to the names: nothing ...
Onward(from, to) ==
  \/ from = "precheck" /\ to \in {"create", "idle"}
  \/ from = "convert" /\ to \in {"close", "discard"}
  \/ from = "close" /\ to = "remove"
  \/ from = "remove" /\ to = "discard"
  \/ from = "rename" /\ to = "aborted"
  \/ from = "idle" /\ to = "exited"
  \/ from \in Working /\ to = "killed"
Quiet(p, to) ==
  /\ Onward(pc[p], to) /\ pc' = [pc EXCEPT ![p] = to]
  /\ UNCHANGED <<invocation, dir, work, in, out>>
Quietly(p) == \E to \in Places : Quiet(p, to)

\* ... or one of these.
Creates(p) ==
  /\ pc[p] = "create" /\ pc' = [pc EXCEPT ![p] = "convert"]
  /\ dir' = [dir EXCEPT ![p] = Mine(p)] /\ out' = [out EXCEPT ![p] = Mine(p)]
  /\ UNCHANGED <<invocation, work, in>>
Discards(p) ==
  /\ pc[p] = "discard" /\ pc' = [pc EXCEPT ![p] = "idle"]
  /\ dir' = [dir EXCEPT ![p] = Absent]
  /\ UNCHANGED <<invocation, work, in, out>>
Removes(p) ==
  /\ pc[p] = "remove" /\ pc' = [pc EXCEPT ![p] = "rename"]
  /\ dir[filename[p]] # Absent /\ dir' = [dir EXCEPT ![filename[p]] = Absent]
  /\ UNCHANGED <<invocation, work, in, out>>
Renames(p) ==
  /\ pc[p] = "rename" /\ pc' = [pc EXCEPT ![p] = "idle"]
  /\ dir' = [dir EXCEPT ![filename[p]] = Mine(p), ![p] = Absent]
  /\ UNCHANGED <<invocation, work, in, out>>

LEMMA NameSteps ==
  ASSUME NEW p \in Procs, TypeOK, OwnTmp, Step(p)
  PROVE  \/ Launch(p) \/ Open(p) \/ Quietly(p)
         \/ Creates(p) \/ Discards(p) \/ Removes(p) \/ Renames(p)
  <1>0. pc \in [Procs -> Places] /\ dir \in [Names -> Inodes \cup {Absent}]
    BY DEF TypeOK
  <1> USE <1>0 DEF Goto, Onward
  <1>3. CASE pre_conversion_check(p)
    <2>1. \E to \in {"create", "idle"} : Quiet(p, to)
      BY <1>3 DEF pre_conversion_check, Quiet
    <2> QED
      BY <2>1 DEF Quietly, Places, Working, Dead
  <1>4. CASE open_to_write(p)
    <2>1. dir[p] = Absent
      BY <1>4 DEF open_to_write, OwnTmp
    <2>2. Creates(p)
      BY <1>4, <2>1 DEF open_to_write, OpenedToWrite, Creates, Mine
    <2> QED
      BY <2>2
  <1>5. CASE Convert(p)
    <2>1. PICK failed \in {FALSE, May("read")} :
            Goto(p, AfterConvert(failed, IsUnwantedBinary(text[in[p]].kind, invocation[p])))
      BY <1>5 DEF Convert
    <2>2. \E to \in {"close", "discard"} : pc' = [pc EXCEPT ![p] = to]
      BY <2>1 DEF AfterConvert
    <2>3. \E to \in {"close", "discard"} : Quiet(p, to)
      BY <1>5, <2>2 DEF Convert, Quiet
    <2> QED
      BY <2>3 DEF Quietly, Places, Working, Dead
  <1>6. CASE CloseStreams(p)
    <2>1. Quiet(p, "remove")
      BY <1>6 DEF CloseStreams, Quiet
    <2> QED
      BY <2>1 DEF Quietly, Places, Working, Dead
  <1>7. CASE Discard(p)
    BY <1>7 DEF Discard, Discards
  <1>8. CASE RemoveOriginal(p)
    <2>1. Quiet(p, "discard") \/ Removes(p)
      BY <1>8 DEF RemoveOriginal, Quiet, Removes
    <2> QED
      BY <2>1 DEF Quietly, Places, Working, Dead
  <1>9. CASE RenameTmp(p)
    <2>1. dir[p] = Mine(p)
      BY <1>9 DEF RenameTmp, OwnTmp
    <2>2. Quiet(p, "aborted") \/ Renames(p)
      BY <1>9, <2>1 DEF RenameTmp, RenameFails, Quiet, Renames
    <2> QED
      BY <2>2 DEF Quietly, Places, Working, Dead
  <1>10. CASE Exit(p)
    <2>1. Quiet(p, "exited")
      BY <1>10 DEF Exit, Quiet
    <2> QED
      BY <2>1 DEF Quietly, Places, Working, Dead
  <1>11. CASE Kill(p)
    <2>1. Quiet(p, "killed")
      BY <1>11 DEF Kill, Quiet
    <2> QED
      BY <2>1 DEF Quietly, Places, Working, Dead
  <1> QED
    BY <1>3, <1>4, <1>5, <1>6, <1>7, <1>8, <1>9, <1>10, <1>11 DEF Step

LEMMA LaunchKeepsNames ==
  ASSUME Sheltered, NEW p \in Procs, TypeOK, NamesInv, Launch(p)
  PROVE  NamesInv'
  <1>0. pc \in [Procs -> Places]
    BY DEF TypeOK
  <1>1. /\ pc[p] = "unborn" /\ pc' = [pc EXCEPT ![p] = "idle"]
        /\ UNCHANGED <<invocation, dir, work, in, out>>
    BY DEF Launch, Goto
  <1>2. LivingApart'
    <2>1. invocation' \in [Procs -> Commands]
      BY <1>1 DEF NamesInv, LivingApart
    <2>2. \A q \in Procs : Hidden(q)' <=> Hidden(q)
      BY <1>1 DEF Hidden
    <2>3. \A q \in Procs \ {p} : Living(q)' <=> Living(q)
      BY <1>0, <1>1 DEF Living
    <2>4. \A q \in Procs \ {p} : Living(q) => ~ Hidden(p) /\ ~ Hidden(q)
      <3>1. CASE Careful
        BY <3>1 DEF Launch, Living, Hidden
      <3>2. CASE ~ Careful
        BY <3>2 DEF Sheltered, NamesInv, LivingApart, Hidden
      <3> QED
        BY <3>1, <3>2
    <2>5. \A q, r \in Procs : q # r /\ Living(q) /\ Living(r) => ~ Hidden(q) /\ ~ Hidden(r)
      BY DEF NamesInv, LivingApart
    <2>6. \A q, r \in Procs : q # r /\ Living(q)' /\ Living(r)' => ~ Hidden(q)' /\ ~ Hidden(r)'
      BY <2>3, <2>2, <2>4, <2>5
    <2> QED
      BY <2>1, <2>6 DEF LivingApart
  <1>3. Listed' /\ WrittenApart'
    BY <1>0, <1>1 DEF NamesInv, Listed, WrittenApart, Working, Hidden, Mine, work
  <1>4. LeftByTheDead'
    BY <1>0, <1>1 DEF NamesInv, LeftByTheDead, Working, Dead, Hidden, work
  <1>5. OwnTmp' /\ OneName'
    BY <1>0, <1>1 DEF NamesInv, OwnTmp, OneName, Mine, work
  <1>6. Fresh'
    BY <1>0, <1>1 DEF NamesInv, Fresh, Unmade, work
  <1> QED
    BY <1>2, <1>3, <1>4, <1>5, <1>6 DEF NamesInv

LEMMA ApartStays ==
  ASSUME LivingApart, UNCHANGED invocation, \A q \in Procs : Living(q)' => Living(q)
  PROVE  LivingApart'
  <1>1. \A q \in Procs : Hidden(q)' <=> Hidden(q)
    BY DEF Hidden
  <1> QED
    BY <1>1 DEF LivingApart

LEMMA OpenKeepsNames ==
  ASSUME NEW p \in Procs, TypeOK, NamesInv, Open(p)
  PROVE  NamesInv'
  <1>0. /\ pc \in [Procs -> Places] /\ todo \in [Procs -> SUBSET Names]
        /\ filename \in [Procs -> Names] /\ in \in [Procs -> Inodes]
        /\ dir \in [Names -> Inodes \cup {Absent}]
    BY DEF TypeOK
  <1>1. PICK n \in todo[p] :
          /\ todo' = [todo EXCEPT ![p] = @ \ {n}]
          /\ filename' = [filename EXCEPT ![p] = n]
          /\ \/ /\ dir[n] = Absent
                /\ UNCHANGED <<pc, in>>
             \/ /\ dir[n] # Absent
                /\ in' = [in EXCEPT ![p] = dir[n]]
                /\ Goto(p, "precheck")
    BY DEF Open
  <1>2. n \in Names /\ pc[p] = "idle" /\ UNCHANGED <<invocation, dir, out>>
    BY <1>0 DEF Open
  <1>3. \A q \in Procs \ {p} : /\ pc'[q] = pc[q] /\ todo'[q] = todo[q]
                               /\ filename'[q] = filename[q] /\ in'[q] = in[q]
    BY <1>0, <1>1 DEF Goto
  <1>4. filename'[p] = n /\ todo'[p] = todo[p] \ {n}
    BY <1>0, <1>1
  <1>5. \/ pc'[p] = "idle" /\ in'[p] = in[p]
        \/ pc'[p] = "precheck" /\ dir[n] # Absent /\ in'[p] = dir[n]
    BY <1>0, <1>1, <1>2 DEF Goto
  \* A temporary file that is there and not the walk's own has been left over.
  <1>6. ASSUME n \in Procs, dir[n] # Absent
        PROVE  Hidden(p) /\ pc[n] \in Dead
    <2>1. Hidden(p)
      BY <1>6, NamesAssumption DEF NamesInv, Listed
    <2>2. pc[n] # "unborn" /\ n # p
      BY <1>2, <1>6 DEF NamesInv, OwnTmp
    <2>3. ~ Living(n)
      BY <1>2, <1>6, <2>1, <2>2 DEF NamesInv, LivingApart, Living, Dead
    <2> QED
      BY <2>1, <2>2, <2>3 DEF Living
  <1>7. LivingApart'
    <2>1. \A q \in Procs : Living(q)' => Living(q)
      BY <1>2, <1>3, <1>5 DEF Living, Dead
    <2> QED
      BY <1>2, <2>1, ApartStays DEF NamesInv
  <1>8. Listed'
    <2> SUFFICES ASSUME NEW q \in Procs
                 PROVE  /\ ~ Hidden(q)' => todo'[q] \subseteq Files
                        /\ pc'[q] \in Working => filename'[q] \notin todo'[q]
      BY DEF Listed
    <2>1. /\ ~ Hidden(q) => todo[q] \subseteq Files
          /\ pc[q] \in Working => filename[q] \notin todo[q]
      BY DEF NamesInv, Listed
    <2>2. Hidden(q)' <=> Hidden(q)
      BY <1>2 DEF Hidden
    <2> QED
      BY <1>3, <1>4, <2>1, <2>2
  <1>9. LeftByTheDead'
    <2> SUFFICES ASSUME NEW q \in Procs, pc'[q] \in Working,
                        NEW m \in Procs, m = filename'[q]
                 PROVE  /\ Hidden(q)' /\ pc'[m] \in Dead
                        /\ pc'[q] \notin {"discard", "rename"} => dir'[m] = in'[q]
                        /\ pc'[q] = "rename" => dir'[m] = Absent
      BY DEF LeftByTheDead
    <2>1. Hidden(q)' <=> Hidden(q)
      BY <1>2 DEF Hidden
    <2>2. CASE q = p
      <3>1. pc'[p] = "precheck" /\ dir[n] # Absent /\ in'[p] = dir[n] /\ m = n
        BY <1>4, <1>5, <2>2 DEF Working
      <3>2. Hidden(p) /\ pc[m] \in Dead /\ m # p
        BY <1>2, <1>6, <3>1 DEF Dead
      <3> QED
        BY <1>2, <1>3, <2>1, <2>2, <3>1, <3>2
    <2>3. CASE q # p
      <3>1. /\ Hidden(q) /\ pc[m] \in Dead
            /\ pc[q] \notin {"discard", "rename"} => dir[m] = in[q]
            /\ pc[q] = "rename" => dir[m] = Absent
        BY <1>3, <2>3 DEF NamesInv, LeftByTheDead
      <3>2. m # p
        BY <1>2, <3>1 DEF Dead
      <3> QED
        BY <1>2, <1>3, <2>1, <2>3, <3>1, <3>2
    <2> QED
      BY <2>2, <2>3
  <1>10. OwnTmp' /\ OneName'
    BY <1>2, <1>3, <1>5 DEF NamesInv, OwnTmp, OneName, Mine
  <1>11. Fresh'
    <2> SUFFICES ASSUME NEW q \in Procs, NEW m \in Names, Unmade(q, m)'
                 PROVE  /\ \A k \in Names : dir'[k] # <<q, m>>
                        /\ \A r \in Procs : in'[r] # <<q, m>>
      BY DEF Fresh
    <2>1. Unmade(q, m)
      BY <1>3, <1>4, <1>5 DEF Unmade
    <2>2. /\ \A k \in Names : dir[k] # <<q, m>>
          /\ \A r \in Procs : in[r] # <<q, m>>
      BY <2>1 DEF NamesInv, Fresh
    <2> QED
      BY <1>2, <1>3, <1>5, <2>2
  <1>12. WrittenApart'
    <2> SUFFICES ASSUME NEW w \in Procs, NEW r \in Procs,
                        pc'[w] \in {"convert", "close"}, pc'[r] \in Working
                 PROVE  in'[r] # Mine(w)'
      BY DEF WrittenApart
    <2>1. w # p /\ pc[w] \in {"convert", "close"} /\ Mine(w)' = Mine(w)
      BY <1>3, <1>5 DEF Mine
    <2>2. CASE r # p
      BY <1>3, <2>1, <2>2 DEF NamesInv, WrittenApart
    <2>3. CASE r = p
      <3>1. in'[p] = dir[n] /\ dir[n] # Absent
        BY <1>5, <2>3 DEF Working
      <3>2. dir[w] = Mine(w) /\ w \in Names
        BY <2>1 DEF NamesInv, OwnTmp, Names
      <3>3. n # w
        BY <1>6, <2>1, <3>1 DEF Dead
      <3> QED
        BY <1>2, <2>1, <2>3, <3>1, <3>2, <3>3 DEF NamesInv, OneName
    <2> QED
      BY <2>2, <2>3
  <1> QED
    BY <1>7, <1>8, <1>9, <1>10, <1>11, <1>12 DEF NamesInv

LEMMA QuietKeepsNames ==
  ASSUME NEW p \in Procs, TypeOK, NamesInv, Quietly(p)
  PROVE  NamesInv'
  <1>0. pc \in [Procs -> Places]
    BY DEF TypeOK
  <1>1. PICK to \in Places : Quiet(p, to)
    BY DEF Quietly
  <1>2. /\ UNCHANGED <<invocation, dir, todo, filename, in, out>>
        /\ pc' = [pc EXCEPT ![p] = to] /\ Onward(pc[p], to)
    BY <1>1 DEF Quiet, work
  <1>3. pc[p] \notin Dead /\ pc[p] # "unborn"
    BY <1>2 DEF Onward, Working, Dead
  <1>4. \A q \in Procs : pc'[q] \in Working => pc[q] \in Working
    BY <1>0, <1>2 DEF Onward, Working
  <1>5. LivingApart'
    BY <1>0, <1>2, <1>3, ApartStays DEF NamesInv, Living
  <1>6. Listed'
    BY <1>2, <1>4 DEF NamesInv, Listed, Hidden
  <1>7. LeftByTheDead'
    <2> SUFFICES ASSUME NEW q \in Procs, pc'[q] \in Working,
                        NEW m \in Procs, m = filename[q]
                 PROVE  /\ Hidden(q)' /\ pc'[m] \in Dead
                        /\ pc'[q] \notin {"discard", "rename"} => dir[m] = in[q]
                        /\ pc'[q] = "rename" => dir[m] = Absent
      BY <1>2 DEF LeftByTheDead
    <2>1. /\ Hidden(q) /\ pc[m] \in Dead
          /\ pc[q] \notin {"discard", "rename"} => dir[m] = in[q]
          /\ pc[q] = "rename" => dir[m] = Absent
      BY <1>4 DEF NamesInv, LeftByTheDead
    <2>2. /\ pc'[q] \notin {"discard", "rename"} => pc[q] \notin {"discard", "rename"}
          /\ pc'[q] = "rename" => pc[q] = "rename"
      BY <1>0, <1>2 DEF Onward, Working
    <2>3. Hidden(q)' /\ pc'[m] \in Dead
      BY <1>0, <1>2, <1>3, <2>1 DEF Hidden
    <2> QED
      BY <2>1, <2>2, <2>3
  <1>8. OwnTmp'
    <2> SUFFICES ASSUME NEW q \in Procs
                 PROVE  /\ pc'[q] \in {"unborn", "idle", "precheck", "create"} => dir[q] = Absent
                        /\ pc'[q] \in {"convert", "close", "discard", "remove", "rename"}
                              => dir[q] = Mine(q)
                        /\ pc'[q] \in {"convert", "close"} => out[q] = Mine(q)
      BY <1>2 DEF OwnTmp, Mine
    <2>1. /\ pc[q] \in {"unborn", "idle", "precheck", "create"} => dir[q] = Absent
          /\ pc[q] \in {"convert", "close", "discard", "remove", "rename"} => dir[q] = Mine(q)
          /\ pc[q] \in {"convert", "close"} => out[q] = Mine(q)
      BY DEF NamesInv, OwnTmp
    <2> QED
      BY <1>0, <1>2, <2>1 DEF Onward, Working
  <1>9. OneName' /\ Fresh'
    BY <1>0, <1>2 DEF NamesInv, OneName, Fresh, Unmade, Onward, Working
  <1>10. WrittenApart'
    <2>1. \A q \in Procs : pc'[q] \in {"convert", "close"} => pc[q] \in {"convert", "close"}
      BY <1>0, <1>2 DEF Onward, Working
    <2> QED
      BY <1>2, <1>4, <2>1 DEF NamesInv, WrittenApart, Mine
  <1> QED
    BY <1>5, <1>6, <1>7, <1>8, <1>9, <1>10 DEF NamesInv

\* A walk that works leaves what is in the hands of another one alone: either that is a
\* file of the user, or there is no other walk.
LEMMA HandsOff ==
  ASSUME NamesInv, NEW p \in Procs, pc[p] \in Working
  PROVE  /\ \A q \in Procs : pc[q] \in Working /\ filename[q] \in Procs => q = p
         /\ \A q \in Procs : filename[q] = p => pc[q] \notin Working
         /\ \A q \in Procs : filename[p] = q => pc[q] \in Dead
  <1>1. Living(p) /\ \A q \in Procs : pc[q] \in Working => Living(q)
    BY DEF Living, Working, Dead
  <1>2. \A q \in Procs : pc[q] \in Working /\ filename[q] \in Procs => Hidden(q)
    BY DEF NamesInv, LeftByTheDead
  <1>3. \A q \in Procs : pc[q] \in Working /\ filename[q] \in Procs => q = p
    BY <1>1, <1>2 DEF NamesInv, LivingApart
  <1>4. \A q \in Procs : filename[p] = q => pc[q] \in Dead
    BY DEF NamesInv, LeftByTheDead
  <1>5. \A q \in Procs : filename[q] = p => pc[q] \notin Working
    BY <1>3, <1>4 DEF Working, Dead
  <1> QED
    BY <1>3, <1>4, <1>5

\* What holds of pc, todo, filename and in alone is kept by a walk that goes on.
LEMMA HandsStay ==
  ASSUME NEW p \in Procs, TypeOK, NamesInv, pc[p] \in Working,
         NEW to \in {"convert", "rename", "idle"}, pc' = [pc EXCEPT ![p] = to],
         to = "convert" => pc[p] = "create",
         to = "rename" => pc[p] = "remove",
         UNCHANGED <<invocation, todo, filename, in>>
  PROVE  /\ LivingApart' /\ Listed'
         /\ \A q \in Procs, n \in Names : Unmade(q, n)' => Unmade(q, n)
         /\ \A q \in Procs : Hidden(q)' <=> Hidden(q)
         /\ \A q \in Procs : pc'[q] \in Working => pc[q] \in Working
         /\ \A q \in Procs : pc[q] \in Dead => pc'[q] = pc[q]
         /\ \A q \in Procs : Mine(q)' = Mine(q)
  <1>0. pc \in [Procs -> Places]
    BY DEF TypeOK
  <1>1. \A q \in Procs : Hidden(q)' <=> Hidden(q)
    BY DEF Hidden
  <1>2. \A q \in Procs : pc'[q] \in Working => pc[q] \in Working
    BY <1>0 DEF Working
  <1>3. LivingApart'
    <2>1. \A q \in Procs : Living(q)' => Living(q)
      BY <1>0 DEF Living, Working, Dead
    <2> QED
      BY <2>1, ApartStays DEF NamesInv
  <1>4. Listed'
    BY <1>1, <1>2 DEF NamesInv, Listed
  <1>5. \A q \in Procs, n \in Names : Unmade(q, n)' => Unmade(q, n)
    BY <1>0 DEF Unmade
  <1>6. \A q \in Procs : pc[q] \in Dead => pc'[q] = pc[q]
    BY <1>0 DEF Working, Dead
  <1>7. \A q \in Procs : Mine(q)' = Mine(q)
    BY DEF Mine
  <1> QED
    BY <1>1, <1>2, <1>3, <1>4, <1>5, <1>6, <1>7

LEMMA CreatesKeepsNames ==
  ASSUME NEW p \in Procs, TypeOK, NamesInv, Creates(p)
  PROVE  NamesInv'
  <1>0. /\ pc \in [Procs -> Places] /\ dir \in [Names -> Inodes \cup {Absent}]
        /\ out \in [Procs -> Inodes] /\ p \in Names
        /\ filename \in [Procs -> Names]
    BY DEF TypeOK, Names
  <1>1. /\ pc[p] = "create" /\ pc' = [pc EXCEPT ![p] = "convert"]
        /\ dir' = [dir EXCEPT ![p] = Mine(p)] /\ out' = [out EXCEPT ![p] = Mine(p)]
        /\ UNCHANGED <<invocation, todo, filename, in>>
    BY DEF Creates, work
  <1>2. pc[p] \in Working
    BY <1>1 DEF Working
  <1>3. /\ LivingApart' /\ Listed'
        /\ \A q \in Procs, n \in Names : Unmade(q, n)' => Unmade(q, n)
        /\ \A q \in Procs : Hidden(q)' <=> Hidden(q)
        /\ \A q \in Procs : pc'[q] \in Working => pc[q] \in Working
        /\ \A q \in Procs : pc[q] \in Dead => pc'[q] = pc[q]
        /\ \A q \in Procs : Mine(q)' = Mine(q)
    BY <1>1, <1>2, HandsStay
  <1>4. Unmade(p, filename[p]) /\ filename[p] \in Names /\ filename[p] \notin todo[p]
    BY <1>0, <1>1, <1>2 DEF Unmade, NamesInv, Listed
  <1>5. LeftByTheDead'
    <2> SUFFICES ASSUME NEW q \in Procs, pc'[q] \in Working,
                        NEW m \in Procs, m = filename[q]
                 PROVE  /\ Hidden(q)' /\ pc'[m] \in Dead
                        /\ pc'[q] \notin {"discard", "rename"} => dir'[m] = in[q]
                        /\ pc'[q] = "rename" => dir'[m] = Absent
      BY <1>1 DEF LeftByTheDead
    <2>1. /\ pc[q] \in Working /\ Hidden(q) /\ pc[m] \in Dead /\ m # p
          /\ pc[q] \notin {"discard", "rename"} => dir[m] = in[q]
          /\ pc[q] = "rename" => dir[m] = Absent
      BY <1>1, <1>2, <1>3, HandsOff DEF NamesInv, LeftByTheDead
    <2>2. /\ pc'[q] \notin {"discard", "rename"} => pc[q] \notin {"discard", "rename"}
          /\ pc'[q] = "rename" => pc[q] = "rename"
      BY <1>0, <1>1
    <2>3. dir'[m] = dir[m]
      BY <1>0, <1>1, <2>1
    <2> QED
      BY <1>3, <2>1, <2>2, <2>3
  <1>6. OwnTmp'
    BY <1>0, <1>1, <1>3 DEF NamesInv, OwnTmp, Names
  <1>7. OneName'
    <2>1. \A m \in Names : dir[m] # Mine(p)
      BY <1>4 DEF NamesInv, Fresh, Mine
    <2> QED
      BY <1>0, <1>1, <2>1 DEF NamesInv, OneName
  <1>8. Fresh'
    <2> SUFFICES ASSUME NEW q \in Procs, NEW n \in Names, Unmade(q, n)'
                 PROVE  /\ \A m \in Names : dir'[m] # <<q, n>>
                        /\ \A r \in Procs : in'[r] # <<q, n>>
      BY DEF Fresh
    <2>1. /\ \A m \in Names : dir[m] # <<q, n>>
          /\ \A r \in Procs : in[r] # <<q, n>>
      BY <1>3 DEF NamesInv, Fresh
    <2>2. Mine(p) # <<q, n>>
      BY <1>0, <1>1, <1>4 DEF Unmade, Mine
    <2> QED
      BY <1>0, <1>1, <2>1, <2>2
  <1>9. WrittenApart'
    <2> SUFFICES ASSUME NEW w \in Procs, NEW r \in Procs,
                        pc'[w] \in {"convert", "close"}, pc'[r] \in Working
                 PROVE  in[r] # Mine(w)
      BY <1>1, <1>3 DEF WrittenApart
    <2>1. CASE w = p
      BY <1>4, <2>1 DEF NamesInv, Fresh, Mine
    <2>2. CASE w # p
      BY <1>0, <1>1, <1>3, <2>2 DEF NamesInv, WrittenApart
    <2> QED
      BY <2>1, <2>2
  <1> QED
    BY <1>3, <1>5, <1>6, <1>7, <1>8, <1>9 DEF NamesInv

LEMMA DiscardsKeepsNames ==
  ASSUME NEW p \in Procs, TypeOK, NamesInv, Discards(p)
  PROVE  NamesInv'
  <1>0. /\ pc \in [Procs -> Places] /\ dir \in [Names -> Inodes \cup {Absent}]
        /\ p \in Names
    BY DEF TypeOK, Names
  <1>1. /\ pc[p] = "discard" /\ pc' = [pc EXCEPT ![p] = "idle"]
        /\ dir' = [dir EXCEPT ![p] = Absent]
        /\ UNCHANGED <<invocation, todo, filename, in, out>>
    BY DEF Discards, work
  <1>2. pc[p] \in Working
    BY <1>1 DEF Working
  <1>3. /\ LivingApart' /\ Listed'
        /\ \A q \in Procs, n \in Names : Unmade(q, n)' => Unmade(q, n)
        /\ \A q \in Procs : Hidden(q)' <=> Hidden(q)
        /\ \A q \in Procs : pc'[q] \in Working => pc[q] \in Working
        /\ \A q \in Procs : pc[q] \in Dead => pc'[q] = pc[q]
        /\ \A q \in Procs : Mine(q)' = Mine(q)
    BY <1>1, <1>2, HandsStay
  <1>5. LeftByTheDead'
    <2> SUFFICES ASSUME NEW q \in Procs, pc'[q] \in Working,
                        NEW m \in Procs, m = filename[q]
                 PROVE  /\ Hidden(q)' /\ pc'[m] \in Dead
                        /\ pc'[q] \notin {"discard", "rename"} => dir'[m] = in[q]
                        /\ pc'[q] = "rename" => dir'[m] = Absent
      BY <1>1 DEF LeftByTheDead
    <2>1. /\ pc[q] \in Working /\ Hidden(q) /\ pc[m] \in Dead /\ m # p /\ q # p
          /\ pc[q] \notin {"discard", "rename"} => dir[m] = in[q]
          /\ pc[q] = "rename" => dir[m] = Absent
      BY <1>0, <1>1, <1>2, <1>3, HandsOff DEF NamesInv, LeftByTheDead, Working
    <2>2. dir'[m] = dir[m] /\ pc'[q] = pc[q]
      BY <1>0, <1>1, <2>1
    <2> QED
      BY <1>3, <2>1, <2>2
  <1>6. OwnTmp'
    BY <1>0, <1>1, <1>3 DEF NamesInv, OwnTmp, Names
  <1>7. OneName'
    BY <1>0, <1>1 DEF NamesInv, OneName
  <1>8. Fresh'
    <2>1. \A q \in Procs, n \in Names : Absent # <<q, n>>
      BY NamesAssumption DEF Inodes
    <2> QED
      BY <1>0, <1>1, <1>3, <2>1 DEF NamesInv, Fresh
  <1>9. WrittenApart'
    BY <1>0, <1>1, <1>3 DEF NamesInv, WrittenApart
  <1> QED
    BY <1>3, <1>5, <1>6, <1>7, <1>8, <1>9 DEF NamesInv

LEMMA RemovesKeepsNames ==
  ASSUME NEW p \in Procs, TypeOK, NamesInv, Removes(p)
  PROVE  NamesInv'
  <1> DEFINE f == filename[p]
  <1>0. /\ pc \in [Procs -> Places] /\ dir \in [Names -> Inodes \cup {Absent}]
        /\ p \in Names /\ f \in Names
    BY DEF TypeOK, Names
  <1>1. /\ pc[p] = "remove" /\ pc' = [pc EXCEPT ![p] = "rename"]
        /\ dir' = [dir EXCEPT ![f] = Absent]
        /\ UNCHANGED <<invocation, todo, filename, in, out>>
    BY DEF Removes, work
  <1>2. pc[p] \in Working
    BY <1>1 DEF Working
  <1>3. /\ LivingApart' /\ Listed'
        /\ \A q \in Procs, n \in Names : Unmade(q, n)' => Unmade(q, n)
        /\ \A q \in Procs : Hidden(q)' <=> Hidden(q)
        /\ \A q \in Procs : pc'[q] \in Working => pc[q] \in Working
        /\ \A q \in Procs : pc[q] \in Dead => pc'[q] = pc[q]
        /\ \A q \in Procs : Mine(q)' = Mine(q)
    BY <1>1, <1>2, HandsStay
  <1>4. \A q \in Procs : f = q => pc[q] \in Dead
    BY <1>2, HandsOff
  <1> HIDE DEF f
  <1>5. LeftByTheDead'
    <2> SUFFICES ASSUME NEW q \in Procs, pc'[q] \in Working,
                        NEW m \in Procs, m = filename[q]
                 PROVE  /\ Hidden(q)' /\ pc'[m] \in Dead
                        /\ pc'[q] \notin {"discard", "rename"} => dir'[m] = in[q]
                        /\ pc'[q] = "rename" => dir'[m] = Absent
      BY <1>1 DEF LeftByTheDead
    <2>1. q = p /\ Hidden(q) /\ pc[m] \in Dead
      BY <1>2, <1>3, HandsOff DEF NamesInv, LeftByTheDead
    <2>2. pc'[q] = "rename" /\ dir'[m] = Absent
      BY <1>0, <1>1, <2>1 DEF f
    <2> QED
      BY <1>0, <1>1, <1>3, <2>1, <2>2
  <1>6. OwnTmp'
    <2> SUFFICES ASSUME NEW q \in Procs
                 PROVE  /\ pc'[q] \in {"unborn", "idle", "precheck", "create"} => dir'[q] = Absent
                        /\ pc'[q] \in {"convert", "close", "discard", "remove", "rename"}
                              => dir'[q] = Mine(q)
                        /\ pc'[q] \in {"convert", "close"} => out[q] = Mine(q)
      BY <1>1, <1>3 DEF OwnTmp
    <2>1. /\ pc[q] \in {"unborn", "idle", "precheck", "create"} => dir[q] = Absent
          /\ pc[q] \in {"convert", "close", "discard", "remove", "rename"} => dir[q] = Mine(q)
          /\ pc[q] \in {"convert", "close"} => out[q] = Mine(q)
      BY DEF NamesInv, OwnTmp
    <2>2. CASE q = f
      BY <1>0, <1>1, <1>3, <1>4, <2>2 DEF Dead
    <2>3. CASE q # f
      BY <1>0, <1>1, <2>1, <2>3 DEF Names
    <2> QED
      BY <2>2, <2>3
  <1>7. OneName'
    BY <1>0, <1>1 DEF NamesInv, OneName
  <1>8. Fresh'
    <2>1. \A q \in Procs, n \in Names : Absent # <<q, n>>
      BY NamesAssumption DEF Inodes
    <2> QED
      BY <1>0, <1>1, <1>3, <2>1 DEF NamesInv, Fresh
  <1>9. WrittenApart'
    BY <1>0, <1>1, <1>3 DEF NamesInv, WrittenApart
  <1> QED
    BY <1>3, <1>5, <1>6, <1>7, <1>8, <1>9 DEF NamesInv

LEMMA RenamesKeepsNames ==
  ASSUME NEW p \in Procs, TypeOK, NamesInv, Renames(p)
  PROVE  NamesInv'
  <1> DEFINE f == filename[p]
  <1>0. /\ pc \in [Procs -> Places] /\ dir \in [Names -> Inodes \cup {Absent}]
        /\ p \in Names /\ f \in Names
    BY DEF TypeOK, Names
  <1>1. /\ pc[p] = "rename" /\ pc' = [pc EXCEPT ![p] = "idle"]
        /\ dir' = [dir EXCEPT ![f] = Mine(p), ![p] = Absent]
        /\ UNCHANGED <<invocation, todo, filename, in, out>>
    BY DEF Renames, work
  <1>2. pc[p] \in Working
    BY <1>1 DEF Working
  <1>3. /\ LivingApart' /\ Listed'
        /\ \A q \in Procs, n \in Names : Unmade(q, n)' => Unmade(q, n)
        /\ \A q \in Procs : Hidden(q)' <=> Hidden(q)
        /\ \A q \in Procs : pc'[q] \in Working => pc[q] \in Working
        /\ \A q \in Procs : pc[q] \in Dead => pc'[q] = pc[q]
        /\ \A q \in Procs : Mine(q)' = Mine(q)
    BY <1>1, <1>2, HandsStay
  <1>4. f # p /\ \A q \in Procs : f = q => pc[q] \in Dead
    BY <1>1, <1>2, HandsOff DEF Dead
  <1>5. dir[p] = Mine(p)
    BY <1>1 DEF NamesInv, OwnTmp
  <1> HIDE DEF f
  <1>6. LeftByTheDead'
    <2>1. \A q \in Procs : pc'[q] \in Working => q # p /\ filename[q] \notin Procs
      BY <1>0, <1>1, <1>2, <1>3, HandsOff DEF Working
    <2> QED
      BY <1>1, <2>1 DEF LeftByTheDead
  <1>7. OwnTmp'
    <2> SUFFICES ASSUME NEW q \in Procs
                 PROVE  /\ pc'[q] \in {"unborn", "idle", "precheck", "create"} => dir'[q] = Absent
                        /\ pc'[q] \in {"convert", "close", "discard", "remove", "rename"}
                              => dir'[q] = Mine(q)
                        /\ pc'[q] \in {"convert", "close"} => out[q] = Mine(q)
      BY <1>1, <1>3 DEF OwnTmp
    <2>1. /\ pc[q] \in {"unborn", "idle", "precheck", "create"} => dir[q] = Absent
          /\ pc[q] \in {"convert", "close", "discard", "remove", "rename"} => dir[q] = Mine(q)
          /\ pc[q] \in {"convert", "close"} => out[q] = Mine(q)
      BY DEF NamesInv, OwnTmp
    <2>2. CASE q = f
      BY <1>0, <1>1, <1>3, <1>4, <2>2 DEF Dead
    <2>3. CASE q # f
      BY <1>0, <1>1, <2>1, <2>3 DEF Names
    <2> QED
      BY <2>2, <2>3
  <1>8. OneName'
    <2>1. \A m \in Names : m # p => dir[m] # dir[p] \/ dir[m] = Absent
      BY <1>0 DEF NamesInv, OneName
    <2>2. Mine(p) # Absent
      BY <1>0, NamesAssumption DEF Mine, Inodes, TypeOK
    <2>3. \A m \in Names \ {f, p} : dir'[m] = dir[m] /\ dir[m] # Mine(p)
      BY <1>0, <1>1, <1>5, <2>1, <2>2
    <2>4. dir'[f] = Mine(p) /\ dir'[p] = Absent
      BY <1>0, <1>1, <1>4
    <2>5. \A m, n \in Names : m # n /\ dir[m] = dir[n] => dir[m] = Absent
      BY DEF NamesInv, OneName
    <2> QED
      BY <2>3, <2>4, <2>5 DEF OneName
  <1>9. Fresh'
    <2> SUFFICES ASSUME NEW q \in Procs, NEW n \in Names, Unmade(q, n)'
                 PROVE  /\ \A m \in Names : dir'[m] # <<q, n>>
                        /\ \A r \in Procs : in'[r] # <<q, n>>
      BY DEF Fresh
    <2>1. /\ \A m \in Names : dir[m] # <<q, n>>
          /\ \A r \in Procs : in[r] # <<q, n>>
      BY <1>3 DEF NamesInv, Fresh
    <2>2. Absent # <<q, n>>
      BY NamesAssumption DEF Inodes
    <2> QED
      BY <1>0, <1>1, <1>5, <2>1, <2>2
  <1>10. WrittenApart'
    BY <1>0, <1>1, <1>3 DEF NamesInv, WrittenApart
  <1> QED
    BY <1>3, <1>6, <1>7, <1>8, <1>9, <1>10 DEF NamesInv

LEMMA NamesNext == Sheltered /\ TypeOK /\ NamesInv /\ [Next]_vars => NamesInv'
  <1> SUFFICES ASSUME Sheltered, TypeOK, NamesInv, [Next]_vars PROVE NamesInv'
    OBVIOUS
  <1>1. CASE UNCHANGED vars
    BY <1>1 DEF vars, work, NamesInv, LivingApart, Listed, LeftByTheDead, OwnTmp, OneName,
                Fresh, Unmade, WrittenApart, Living, Hidden, Mine
  <1>2. CASE Next
    <2>1. PICK p \in Procs : Step(p)
      BY <1>2 DEF Next
    <2>2. \/ Launch(p) \/ Open(p) \/ Quietly(p)
          \/ Creates(p) \/ Discards(p) \/ Removes(p) \/ Renames(p)
      BY <2>1, NameSteps DEF NamesInv
    <2> QED
      BY <2>2, LaunchKeepsNames, OpenKeepsNames, QuietKeepsNames, CreatesKeepsNames,
         DiscardsKeepsNames, RemovesKeepsNames, RenamesKeepsNames
  <1> QED
    BY <1>1, <1>2

--------------------------------------------------------------------------------
(* Texts.                                                                   *)

LEMMA TextsInit == Init => TextsInv
  <1> SUFFICES ASSUME Init PROVE TextsInv
    OBVIOUS
  <1>1. PICK kinds \in [Files -> Kinds] :
          text = [i \in Inodes |-> IF i \in Files
                                   THEN [of |-> i, whole |-> TRUE, kind |-> kinds[i]]
                                   ELSE [of |-> CHOOSE f \in Files : TRUE, whole |-> FALSE,
                                         kind |-> Empty]]
    BY DEF Init
  <1>2. \A f \in Files : /\ text[f] = [of |-> f, whole |-> TRUE, kind |-> kinds[f]]
                         /\ dir[f] = f /\ f # Absent
    BY <1>1, NamesAssumption DEF Init, Inodes, Names
  <1>3. \A p \in Procs : pc[p] = "unborn"
    BY DEF Init
  <1>4. \A f \in Files : IsWhole(text[f], f) /\ dir[f] = f /\ f # Absent
    <2> TAKE f \in Files
    <2>1. text[f] = [of |-> f, whole |-> TRUE, kind |-> kinds[f]]
      BY <1>2
    <2>2. text[f].of = f /\ text[f].whole
      BY <2>1
    <2> QED
      BY <1>2, <2>2 DEF IsWhole
  <1>5. InPlace /\ Elsewhere
    BY <1>4 DEF InPlace, Elsewhere
  <1> QED
    BY <1>3, <1>5 DEF TextsInv, WhatIsRead, Reading, WhatIsMade

\* What a step makes of the text of an inode, but for the text that is being written.
Kept(i) == SameText(text'[i], text[i])

LEMMA StepsKeep ==
  ASSUME NEW p \in Procs, TypeOK, OwnTmp, Step(p)
  PROVE  \A i \in Inodes : Kept(i) \/ (i = Mine(p) /\ pc[p] \in {"create", "close"})
  <1>1. CASE open_to_write(p)
    <2>1. pc[p] = "create" /\ OpenedToWrite(p) = Mine(p)
      BY <1>1 DEF open_to_write, OpenedToWrite, OwnTmp, Mine
    <2> QED
      BY <1>1, <2>1, Creating DEF Kept, SameText
  <1>2. CASE Convert(p)
    BY <1>2, Converting DEF Kept
  <1>3. CASE CloseStreams(p)
    <2>1. pc[p] = "close" /\ out[p] = Mine(p)
      BY <1>3 DEF CloseStreams, OwnTmp
    <2> QED
      BY <1>3, <2>1, Completing DEF Kept, SameText
  <1>4. CASE UNCHANGED text
    BY <1>4 DEF Kept, SameText
  <1> QED
    BY <1>1, <1>2, <1>3, <1>4
       DEF Step, Launch, Open, pre_conversion_check, Discard, RemoveOriginal, RenameTmp, Exit, Kill

\* So that no name but its own, no open file and no temporary file of another process
\* comes to hold anything else.
LEMMA TextsStay ==
  ASSUME NEW p \in Procs, TypeOK, NamesInv, Step(p)
  PROVE  /\ \A n \in Names \ {p} : dir[n] # Absent => Kept(dir[n])
         /\ \A q \in Procs : pc[q] \in Working => Kept(in[q])
         /\ \A q \in Procs \ {p} : Kept(Mine(q))
         /\ pc[p] \notin {"create", "close"} => Kept(Mine(p))
         /\ \A q \in Procs \ {p} : got'[q] = got[q]
  <1>0. /\ dir \in [Names -> Inodes \cup {Absent}] /\ in \in [Procs -> Inodes]
        /\ p \in Names /\ filename \in [Procs -> Names]
    BY DEF TypeOK, Names
  <1>1. \A i \in Inodes : Kept(i) \/ (i = Mine(p) /\ pc[p] \in {"create", "close"})
    BY StepsKeep DEF NamesInv
  <1>2. \A q \in Procs : Mine(q) \in Inodes /\ (q # p => Mine(q) # Mine(p))
    BY <1>0 DEF Mine, Inodes
  <1>3. ASSUME pc[p] = "create"
        PROVE  /\ \A n \in Names : dir[n] # Mine(p)
               /\ \A q \in Procs : in[q] # Mine(p)
    <2>1. Unmade(p, filename[p]) /\ filename[p] \in Names
      BY <1>0, <1>3 DEF Unmade
    <2> QED
      BY <2>1 DEF NamesInv, Fresh, Mine
  <1>4. ASSUME pc[p] = "close"
        PROVE  /\ \A n \in Names \ {p} : dir[n] # Absent => dir[n] # Mine(p)
               /\ \A q \in Procs : pc[q] \in Working => in[q] # Mine(p)
    <2>1. dir[p] = Mine(p)
      BY <1>4 DEF NamesInv, OwnTmp
    <2> QED
      BY <1>0, <1>4, <2>1 DEF NamesInv, OneName, WrittenApart
  <1>5. \A n \in Names \ {p} : dir[n] # Absent => Kept(dir[n])
    BY <1>0, <1>1, <1>3, <1>4
  <1>6. \A q \in Procs : pc[q] \in Working => Kept(in[q])
    BY <1>0, <1>1, <1>3, <1>4
  <1>7. \A q \in Procs \ {p} : got'[q] = got[q]
    BY Others
  <1> QED
    BY <1>1, <1>2, <1>5, <1>6, <1>7

\* What a step makes of the names of the files.
LEMMA FilesMove ==
  ASSUME NEW p \in Procs, TypeOK, NamesInv, Step(p), NEW f \in Files
  PROVE  \/ dir'[f] = dir[f]
         \/ Removes(p) /\ f = filename[p] /\ dir'[f] = Absent /\ dir[f] # Absent
         \/ Renames(p) /\ f = filename[p] /\ dir'[f] = Mine(p) /\ Mine(p) # Absent
  <1>0. /\ dir \in [Names -> Inodes \cup {Absent}] /\ filename \in [Procs -> Names]
        /\ f \in Names /\ p \in Names /\ f # p
    BY NamesAssumption DEF TypeOK, Names
  <1>1. \/ Launch(p) \/ Open(p) \/ Quietly(p)
        \/ Creates(p) \/ Discards(p) \/ Removes(p) \/ Renames(p)
    BY NameSteps DEF NamesInv
  <1>2. Mine(p) # Absent
    BY <1>0, NamesAssumption DEF Mine, Inodes
  <1> QED
    BY <1>0, <1>1, <1>2
       DEF Launch, Open, Quietly, Quiet, Creates, Discards, Removes, Renames

LEMMA InPlaceNext ==
  ASSUME NEW p \in Procs, TypeOK, NamesInv, TextsInv, Step(p)
  PROVE  InPlace'
  <1> SUFFICES ASSUME NEW f \in Files, dir'[f] # Absent
               PROVE  IsWhole(text'[dir'[f]], f)
    BY DEF InPlace
  <1>1. CASE dir'[f] = dir[f]
    <2>1. f \in Names \ {p}
      BY NamesAssumption DEF Names
    <2> QED
      BY <1>1, <2>1, TextsStay DEF TextsInv, InPlace, IsWhole, Kept, SameText
  <1>2. CASE Renames(p) /\ f = filename[p] /\ dir'[f] = Mine(p)
    <2>1. pc[p] = "rename"
      BY <1>2 DEF Renames
    <2>2. IsWhole(text[Mine(p)], f)
      BY <1>2, <2>1 DEF TextsInv, WhatIsMade
    <2> QED
      BY <1>2, <2>1, <2>2, TextsStay DEF IsWhole, Kept, SameText
  <1> QED
    BY <1>1, <1>2, FilesMove

\* How the walk that makes the step comes to what it reads.
LEMMA Reads ==
  ASSUME NEW p \in Procs, TypeOK, NamesInv, Step(p), pc'[p] \in Reading
  PROVE  \/ pc[p] \in Reading /\ filename'[p] = filename[p] /\ in'[p] = in[p]
         \/ /\ UNCHANGED text
            /\ filename'[p] \in Names /\ in'[p] = dir[filename'[p]]
            /\ dir[filename'[p]] # Absent
  <1>0. /\ pc \in [Procs -> Places] /\ todo \in [Procs -> SUBSET Names]
        /\ filename \in [Procs -> Names] /\ in \in [Procs -> Inodes]
    BY DEF TypeOK
  <1>1. \/ Launch(p) \/ Open(p) \/ Quietly(p)
        \/ Creates(p) \/ Discards(p) \/ Removes(p) \/ Renames(p)
    BY NameSteps DEF NamesInv
  <1>2. CASE Open(p)
    <2>1. PICK n \in todo[p] :
            /\ filename' = [filename EXCEPT ![p] = n]
            /\ \/ UNCHANGED pc
               \/ dir[n] # Absent /\ in' = [in EXCEPT ![p] = dir[n]]
      BY <1>2 DEF Open
    <2>2. pc'[p] # pc[p] /\ n \in Names /\ UNCHANGED text
      BY <1>0, <1>2 DEF Open, Reading
    <2>3. filename'[p] = n
      BY <1>0, <2>1
    <2>4. dir[n] # Absent /\ in'[p] = dir[n]
      BY <1>0, <2>1, <2>2
    <2> QED
      BY <2>3, <2>2, <2>4
  <1>3. CASE Quietly(p)
    BY <1>0, <1>3 DEF Quietly, Quiet, Onward, Reading, work
  <1>4. CASE Creates(p)
    BY <1>0, <1>4 DEF Creates, Reading, work
  <1>5. CASE Launch(p) \/ Discards(p) \/ Removes(p) \/ Renames(p)
    BY <1>0, <1>5 DEF Launch, Goto, Discards, Removes, Renames, Reading
  <1> QED
    BY <1>1, <1>2, <1>3, <1>4, <1>5

LEMMA WhatIsReadNext ==
  ASSUME NEW p \in Procs, TypeOK, NamesInv, TextsInv, Step(p)
  PROVE  WhatIsRead'
  <1> SUFFICES ASSUME NEW q \in Procs, pc'[q] \in Reading, filename'[q] \in Files
               PROVE  IsWhole(text'[in'[q]], filename'[q])
    BY DEF WhatIsRead
  <1>1. CASE pc[q] \in Reading /\ filename'[q] = filename[q] /\ in'[q] = in[q]
    <2>1. IsWhole(text[in[q]], filename[q]) /\ pc[q] \in Working
      BY <1>1 DEF TextsInv, WhatIsRead, Reading, Working
    <2> QED
      BY <1>1, <2>1, TextsStay DEF IsWhole, Kept, SameText
  <1>2. CASE q # p
    BY <1>1, <1>2, Others
  <1>3. CASE /\ q = p /\ UNCHANGED text
             /\ in'[p] = dir[filename'[p]] /\ dir[filename'[p]] # Absent
    BY <1>3 DEF TextsInv, InPlace
  <1> QED
    BY <1>1, <1>2, <1>3, Reads

LEMMA WhatIsMadeNext ==
  ASSUME NEW p \in Procs, TypeOK, NamesInv, TextsInv, Step(p)
  PROVE  WhatIsMade'
  <1> SUFFICES ASSUME NEW q \in Procs
               PROVE  /\ pc'[q] = "close"  => SameText(got'[q], text'[in'[q]])
                      /\ pc'[q] = "remove" => SameText(text'[Mine(q)'], text'[in'[q]])
                      /\ pc'[q] = "rename" /\ filename'[q] \in Files
                            => IsWhole(text'[Mine(q)'], filename'[q])
    BY DEF WhatIsMade
  <1>0. /\ pc \in [Procs -> Places] /\ got \in [Procs -> Text]
        /\ pc[q] \in Working => Kept(in[q])
    BY TextsStay DEF TypeOK
  <1>1. /\ pc[q] = "close"  => SameText(got[q], text[in[q]])
        /\ pc[q] = "remove" => SameText(text[Mine(q)], text[in[q]])
        /\ pc[q] = "rename" /\ filename[q] \in Files => IsWhole(text[Mine(q)], filename[q])
    BY DEF TextsInv, WhatIsMade
  <1>2. CASE q # p
    <2>1. /\ pc'[q] = pc[q] /\ filename'[q] = filename[q] /\ in'[q] = in[q]
          /\ got'[q] = got[q] /\ Mine(q)' = Mine(q) /\ Kept(Mine(q))
      BY <1>2, Others, TextsStay DEF Mine
    <2>2. pc[q] = "close" => SameText(got[q], text'[in[q]])
      BY <1>0, <1>1 DEF Kept, SameText, Working
    <2>3. pc[q] = "remove" => SameText(text'[Mine(q)], text'[in[q]])
      BY <1>0, <1>1, <2>1 DEF Kept, SameText, Working
    <2>4. pc[q] = "rename" /\ filename[q] \in Files => IsWhole(text'[Mine(q)], filename[q])
      BY <1>1, <2>1 DEF Kept, SameText, IsWhole
    <2> QED
      BY <2>1, <2>3, <2>2, <2>4
  <1>3. CASE q = p /\ pc'[p] = "close"
    <2>1. pc[p] = "convert" /\ Convert(p)
      BY <1>0, <1>3 DEF Step, Launch, Open, pre_conversion_check, open_to_write, Convert,
                        CloseStreams, Discard, RemoveOriginal, RenameTmp, RenameFails, Exit,
                        Kill, Goto
    <2>2. SameText(got'[p], text[in[p]]) /\ in' = in
      BY <1>3, <2>1, Converting DEF Convert
    <2> QED
      BY <1>0, <1>3, <2>1, <2>2 DEF Kept, SameText, Working
  <1>4. CASE q = p /\ pc'[p] = "remove"
    <2>1. CloseStreams(p)
      BY <1>0, <1>4, Converting
         DEF Step, Launch, Open, pre_conversion_check, open_to_write,
             Discard, RemoveOriginal, RenameTmp, RenameFails, Exit, Kill, Goto
    <2>2. pc[p] = "close" /\ out[p] = Mine(p) /\ in' = in /\ Mine(p)' = Mine(p)
      BY <2>1 DEF CloseStreams, NamesInv, OwnTmp, Mine, work
    <2>3. SameText(text'[Mine(p)], got[p])
      BY <2>1, <2>2, Completing
    <2> QED
      BY <1>0, <1>1, <1>4, <2>2, <2>3 DEF Kept, SameText, Working
  <1>5. CASE q = p /\ pc'[p] = "rename"
    <2>1. \/ Launch(p) \/ Open(p) \/ Quietly(p)
          \/ Creates(p) \/ Discards(p) \/ Removes(p) \/ Renames(p)
      BY NameSteps DEF NamesInv
    <2>2. Removes(p)
      BY <1>0, <1>5, <2>1
         DEF Launch, Open, Goto, Quietly, Quiet, Onward, Creates, Discards, Renames, Working
    <2>3. pc[p] = "remove" /\ filename' = filename /\ Mine(p)' = Mine(p)
      BY <2>2 DEF Removes, work, Mine
    <2>4. Kept(Mine(p))
      BY <2>3, TextsStay
    <2>5. filename[p] \in Files => IsWhole(text[in[p]], filename[p])
      BY <2>3 DEF TextsInv, WhatIsRead, Reading
    <2> QED
      BY <1>1, <1>5, <2>3, <2>4, <2>5 DEF Kept, SameText, IsWhole
  <1> QED
    BY <1>2, <1>3, <1>4, <1>5

\* What a process has written and is to give its name to is a text that was read whole.
LEMMA Replacing ==
  ASSUME NEW p \in Procs, TypeOK, NamesInv, TextsInv, Step(p), Removes(p),
         NEW f \in Files, IsWhole(text[in[p]], f)
  PROVE  Holds(p, f)' /\ pc'[p] = "rename"
  <1>0. /\ pc \in [Procs -> Places] /\ dir \in [Names -> Inodes \cup {Absent}]
        /\ filename \in [Procs -> Names] /\ p \in Names
    BY DEF TypeOK, Names
  <1>1. pc[p] = "remove" /\ pc[p] \in Working
    BY DEF Removes, Working
  <1>2. dir[p] = Mine(p) /\ Mine(p) # Absent
    BY <1>0, <1>1, NamesAssumption DEF NamesInv, OwnTmp, Mine, Inodes
  <1>3. filename[p] # p
    BY <1>1, HandsOff DEF Dead
  <1>4. dir'[p] = Mine(p) /\ pc'[p] = "rename"
    BY <1>0, <1>2, <1>3 DEF Removes
  <1>5. SameText(text[Mine(p)], text[in[p]]) /\ Kept(Mine(p))
    BY <1>1, TextsStay DEF TextsInv, WhatIsMade
  <1> QED
    BY <1>2, <1>4, <1>5 DEF Holds, Kept, SameText, IsWhole

LEMMA ElsewhereNext ==
  ASSUME NEW p \in Procs, TypeOK, NamesInv, TextsInv, Step(p)
  PROVE  Elsewhere'
  <1> SUFFICES ASSUME NEW f \in Files, dir'[f] = Absent
               PROVE  \E q \in Procs : Holds(q, f)' /\ pc'[q] \in {"rename"} \cup Dead
    BY DEF Elsewhere
  <1>0. /\ pc \in [Procs -> Places] /\ dir \in [Names -> Inodes \cup {Absent}]
        /\ filename \in [Procs -> Names] /\ p \in Names /\ Procs \subseteq Names
        /\ Files \cap Procs = {}
    BY NamesAssumption DEF TypeOK, Names
  <1>1. \/ Launch(p) \/ Open(p) \/ Quietly(p)
        \/ Creates(p) \/ Discards(p) \/ Removes(p) \/ Renames(p)
    BY NameSteps DEF NamesInv
  <1>2. pc[p] \notin Dead
    BY <1>1 DEF Launch, Open, Quietly, Quiet, Onward, Creates, Discards, Removes, Renames,
                Working, Dead
  \* The file is removed now ...
  <1>3. CASE dir[f] # Absent
    <2>1. Removes(p) /\ f = filename[p]
      BY <1>3, FilesMove
    <2>2. IsWhole(text[in[p]], f)
      BY <2>1 DEF Removes, TextsInv, WhatIsRead, Reading
    <2> QED
      BY <2>1, <2>2, Replacing
  \* ... or it was under some name already,
  <1>4. CASE dir[f] = Absent
    <2>1. PICK q \in Procs : Holds(q, f) /\ pc[q] \in {"rename"} \cup Dead
      BY <1>4 DEF TextsInv, Elsewhere
    <2>2. dir[q] # Absent /\ IsWhole(text[dir[q]], f)
      BY <2>1 DEF Holds, IsWhole
    \* that of the process that makes the step: it gives it to the file, or to another
    \* name it has come to, or is over;
    <2>3. CASE q = p
      <3>1. pc[p] = "rename" /\ dir[p] = Mine(p) /\ Kept(dir[p]) /\ pc[p] \in Working
        BY <1>2, <2>1, <2>3, TextsStay DEF NamesInv, OwnTmp, Working
      <3>2. CASE Quietly(p)
        <4>1. PICK to \in Places : Quiet(p, to)
          BY <3>2 DEF Quietly
        <4>2. pc'[p] \in Dead /\ dir' = dir
          BY <1>0, <3>1, <4>1 DEF Quiet, Onward, Dead
        <4> QED
          BY <2>2, <2>3, <3>1, <4>2 DEF Holds, Kept, SameText, IsWhole
      <3>3. CASE Renames(p)
        <4>1. PICK r \in Names : r = filename[p]
          BY <1>0
        <4>2. r # p /\ (r \in Procs => pc[r] \in Dead)
          BY <3>1, <4>1, HandsOff DEF Dead
        <4>3. dir'[r] = Mine(p)
          BY <1>0, <3>3, <4>1, <4>2 DEF Renames
        <4>4. r \notin Files
          <5> SUFFICES ASSUME r \in Files PROVE FALSE
            OBVIOUS
          <5>1. IsWhole(text[Mine(p)], r)
            BY <3>1, <4>1 DEF TextsInv, WhatIsMade
          <5>2. r = f
            BY <2>2, <2>3, <3>1, <5>1 DEF IsWhole
          <5> QED
            BY <2>2, <2>3, <3>1, <4>3, <5>2
        <4>5. r \in Procs /\ pc'[r] \in Dead
          BY <1>0, <3>3, <4>2, <4>4 DEF Renames, Names
        <4>6. Holds(r, f)'
          BY <2>2, <2>3, <3>1, <4>3 DEF Holds, Kept, SameText, IsWhole
        <4> QED
          BY <4>5, <4>6
      <3> QED
        BY <1>1, <3>1, <3>2, <3>3
           DEF Launch, Open, Creates, Discards, Removes
    \* or that of another one, and then it is left alone, or is what is removed now.
    <2>4. CASE q # p
      <3>1. pc'[q] = pc[q] /\ Kept(dir[q])
        BY <1>0, <2>2, <2>4, Others, TextsStay
      <3>2. CASE dir'[q] = dir[q]
        BY <2>1, <2>2, <3>1, <3>2 DEF Holds, Kept, SameText, IsWhole
      <3>3. CASE dir'[q] # dir[q]
        <4>1. filename[p] = q /\ (Removes(p) \/ Renames(p))
          BY <1>0, <1>1, <2>4, <3>3
             DEF Launch, Open, Quietly, Quiet, Creates, Discards, Removes, Renames
        <4>2. ~ Renames(p)
          BY <2>2, <4>1 DEF Renames, NamesInv, LeftByTheDead, Working
        <4>3. Removes(p) /\ pc[p] = "remove"
          BY <4>1, <4>2 DEF Removes
        <4>4. in[p] = dir[q]
          BY <4>1, <4>3 DEF NamesInv, LeftByTheDead, Working
        <4> QED
          BY <2>2, <4>3, <4>4, Replacing
      <3> QED
        BY <3>2, <3>3
    <2> QED
      BY <2>3, <2>4
  <1> QED
    BY <1>3, <1>4

LEMMA TextsNext == TypeOK /\ NamesInv /\ TextsInv /\ [Next]_vars => TextsInv'
  <1> SUFFICES ASSUME TypeOK, NamesInv, TextsInv, [Next]_vars PROVE TextsInv'
    OBVIOUS
  <1>1. CASE UNCHANGED vars
    BY <1>1 DEF vars, work, TextsInv, InPlace, WhatIsRead, WhatIsMade, Elsewhere, Holds, Mine
  <1>2. CASE Next
    <2>1. PICK p \in Procs : Step(p)
      BY <1>2 DEF Next
    <2> QED
      BY <2>1, InPlaceNext, WhatIsReadNext, WhatIsMadeNext, ElsewhereNext DEF TextsInv
  <1> QED
    BY <1>1, <1>2

--------------------------------------------------------------------------------
(* Theorems.                                                                *)

LEMMA SharedInv ==
  ASSUME Sheltered
  PROVE  Spec => [](TypeOK /\ NamesInv /\ TextsInv)
  <1>1. Init => TypeOK /\ NamesInv /\ TextsInv
    BY TypeInit, NamesInit, TextsInit
  <1>2. (TypeOK /\ NamesInv /\ TextsInv) /\ [Next]_vars
          => (TypeOK /\ NamesInv /\ TextsInv)'
    BY TypeNext, NamesNext, TextsNext
  <1> QED
    BY <1>1, <1>2, PTL DEF Spec

\* As long as a walk with --hidden is alone, no text is lost, whatever is killed and
\* whatever fails, and however many walks there are.
THEOREM NoTextIsLost ==
  ASSUME Sheltered
  PROVE  Spec => []DataSurvives
  <1>1. TypeOK /\ NamesInv /\ TextsInv => DataSurvives
    <2> SUFFICES ASSUME TextsInv, NEW f \in Files PROVE \E n \in Names : Holds(n, f)
      BY DEF DataSurvives
    <2>1. CASE dir[f] # Absent
      BY <2>1 DEF TextsInv, InPlace, IsWhole, Holds, Names
    <2>2. CASE dir[f] = Absent
      BY <2>2 DEF TextsInv, Elsewhere, Names
    <2> QED
      BY <2>1, <2>2
  <1> QED
    BY <1>1, SharedInv, PTL

\* Nor does a file ever get the text of another one, or a part of its own.
THEOREM NoTextIsMistaken ==
  ASSUME Sheltered
  PROVE  Spec => []FilesAreTheirOwn
  <1>1. TypeOK /\ NamesInv /\ TextsInv => FilesAreTheirOwn
    BY DEF TextsInv, InPlace, IsWhole, FilesAreTheirOwn, Holds
  <1> QED
    BY <1>1, SharedInv, PTL

================================================================================
