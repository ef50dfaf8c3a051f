--------------------------- MODULE ConvertStreamAgain ---------------------------
(***************************************************************************)
(* Proofs about what convert_stream has written, read again: it needs no    *)
(* conversion, and is what the models of files and directories suppose.     *)
(***************************************************************************)
EXTENDS ConvertStreamOutput

--------------------------------------------------------------------------------
(* Texts in one convention.                                                 *)

\* No line ending of another convention, and no half of one.
Unmixed(t, c) ==
  CASE c = "LF"   -> \A i \in 1 .. Len(t) : t[i] # 13
    [] c = "CR"   -> \A i \in 1 .. Len(t) : t[i] # 10
    [] c = "CRLF" -> \A i \in 1 .. Len(t) : /\ t[i] = 10 => i > 1 /\ t[i - 1] = 13
                                            /\ t[i] = 13 => i < Len(t) /\ t[i + 1] = 10

LEMMA UnmixedConcat ==
  ASSUME NEW a \in Seq(Nat), NEW b \in Seq(Nat), NEW c \in LineEndings, Unmixed(a, c), Unmixed(b, c)
  PROVE  Unmixed(a \o b, c)
  <1> DEFINE t == a \o b
  <1>1. /\ Len(a) \in Nat /\ Len(b) \in Nat /\ Len(t) = Len(a) + Len(b)
        /\ \A i \in 1 .. Len(t) : t[i] = IF i <= Len(a) THEN a[i] ELSE b[i - Len(a)]
    BY ConcatProperties, LenProperties
  <1>2. /\ \A i \in 1 .. Len(t) : i <= Len(a) => i \in 1 .. Len(a) /\ t[i] = a[i]
        /\ \A i \in 1 .. Len(t) : ~ (i <= Len(a)) => i - Len(a) \in 1 .. Len(b) /\ t[i] = b[i - Len(a)]
    BY <1>1
  <1> HIDE DEF t
  <1>3. CASE c \in {"LF", "CR"}
    BY <1>2, <1>3 DEF Unmixed, t
  <1>4. CASE c = "CRLF"
    <2>1. /\ \A i \in 1 .. Len(a) : /\ a[i] = 10 => i > 1 /\ a[i - 1] = 13
                                    /\ a[i] = 13 => i < Len(a) /\ a[i + 1] = 10
          /\ \A i \in 1 .. Len(b) : /\ b[i] = 10 => i > 1 /\ b[i - 1] = 13
                                    /\ b[i] = 13 => i < Len(b) /\ b[i + 1] = 10
      BY <1>4 DEF Unmixed
    <2> SUFFICES ASSUME NEW i \in 1 .. Len(t)
                 PROVE  /\ t[i] = 10 => i > 1 /\ t[i - 1] = 13
                        /\ t[i] = 13 => i < Len(t) /\ t[i + 1] = 10
      BY <1>4 DEF Unmixed, t
    <2>2. CASE i <= Len(a)
      <3>1. i \in 1 .. Len(a) /\ t[i] = a[i]
        BY <1>2, <2>2
      <3>2. i > 1 => t[i - 1] = a[i - 1]
        BY <1>1, <1>2, <2>2
      <3>3. i < Len(a) => i < Len(t) /\ t[i + 1] = a[i + 1]
        BY <1>1, <1>2, <2>2
      <3> QED
        BY <2>1, <3>1, <3>2, <3>3
    <2>3. CASE ~ (i <= Len(a))
      <3> DEFINE j == i - Len(a)
      <3>1. j \in 1 .. Len(b) /\ t[i] = b[j]
        BY <1>2, <2>3
      <3>2. j > 1 => i > 1 /\ t[i - 1] = b[j - 1]
        <4>1. ASSUME j > 1 PROVE i - 1 \in 1 .. Len(t) /\ ~ (i - 1 <= Len(a)) /\ (i - 1) - Len(a) = j - 1
          BY <1>1, <4>1
        <4> QED
          BY <1>1, <1>2, <4>1
      <3>3. j < Len(b) => i < Len(t) /\ t[i + 1] = b[j + 1]
        <4>1. ASSUME j < Len(b) PROVE i + 1 \in 1 .. Len(t) /\ ~ (i + 1 <= Len(a)) /\ (i + 1) - Len(a) = j + 1
          BY <1>1, <2>3, <4>1
        <4> QED
          BY <1>1, <1>2, <4>1
      <3> HIDE DEF j
      <3> QED
        BY <2>1, <3>1, <3>2, <3>3
    <2> QED
      BY <2>2, <2>3
  <1> QED
    BY <1>3, <1>4 DEF LineEndings

LEMMA UnmixedPieces ==
  ASSUME NEW c \in LineEndings
  PROVE  /\ Unmixed(<<>>, c) /\ Unmixed(Newline(c), c)
         /\ \A w \in Nat : w \notin {10, 13} => Unmixed(<<w>>, c)
  <1>1. Len(<<>>) = 0 /\ \A w \in Nat : Len(<<w>>) = 1 /\ <<w>>[1] = w
    OBVIOUS
  <1>2. /\ Len(<<13, 10>>) = 2 /\ <<13, 10>>[1] = 13 /\ <<13, 10>>[2] = 10
        /\ Len(<<13>>) = 1 /\ <<13>>[1] = 13 /\ Len(<<10>>) = 1 /\ <<10>>[1] = 10
    OBVIOUS
  <1>3. CASE c = "LF"
    BY <1>1, <1>2, <1>3 DEF Unmixed, Newline
  <1>4. CASE c = "CR"
    BY <1>1, <1>2, <1>4 DEF Unmixed, Newline
  <1>5. CASE c = "CRLF"
    <2>1. Unmixed(<<>>, c)
      BY <1>1, <1>5 DEF Unmixed
    <2>2. Unmixed(Newline(c), c)
      <3> DEFINE nl == <<13, 10>>
      <3>1. Len(nl) = 2 /\ nl[1] = 13 /\ nl[2] = 10
        OBVIOUS
      <3>2. Newline(c) = nl
        BY <1>5 DEF Newline
      <3> HIDE DEF nl
      <3>3. \A i \in 1 .. Len(nl) : i = 1 \/ i = 2
        BY <3>1
      <3>4. \A i \in 1 .. Len(nl) : /\ nl[i] = 10 => i > 1 /\ nl[i - 1] = 13
                                    /\ nl[i] = 13 => i < Len(nl) /\ nl[i + 1] = 10
        <4> SUFFICES ASSUME NEW i \in 1 .. Len(nl)
                     PROVE  /\ nl[i] = 10 => i > 1 /\ nl[i - 1] = 13
                            /\ nl[i] = 13 => i < Len(nl) /\ nl[i + 1] = 10
          OBVIOUS
        <4>1. CASE i = 1
          BY <3>1, <4>1
        <4>2. CASE i = 2
          BY <3>1, <4>2
        <4> QED
          BY <3>3, <4>1, <4>2
      <3>5. Unmixed(nl, c)
        BY <1>5, <3>4 DEF Unmixed
      <3> QED
        BY <3>2, <3>5
    <2>3. ASSUME NEW w \in Nat, w \notin {10, 13} PROVE Unmixed(<<w>>, c)
      <3> DEFINE t == <<w>>
      <3>1. Len(t) = 1 /\ t[1] = w
        OBVIOUS
      <3> HIDE DEF t
      <3>2. \A i \in 1 .. Len(t) : t[i] # 10 /\ t[i] # 13
        BY <2>3, <3>1
      <3>3. Unmixed(t, c)
        BY <1>5, <3>2 DEF Unmixed
      <3> QED
        BY <3>3 DEF t
    <2> QED
      BY <2>1, <2>2, <2>3
  <1> QED
    BY <1>3, <1>4, <1>5 DEF LineEndings

LEMMA UnmixedTranslation ==
  ASSUME NEW text \in Seq(Nat), NEW c \in LineEndings
  PROVE  Unmixed(Translation(text, c), c)
  <1> DEFINE n == Len(text)
             T == {k \in 0 .. n : ~ Unmixed(Translated(text, c, k), c)}
  <1>1. n \in Nat
    BY LenProperties
  <1>2. ASSUME T # {} PROVE FALSE
    <2>1. T \in SUBSET Nat
      BY <1>1
    <2>2. PICK k \in T : \A j \in T : k <= j
      BY <1>2, <2>1, Smallest
    <2>3. k # 0
      BY TranslatedNone, UnmixedPieces
    <2> DEFINE j == k - 1
               piece == Piece(text, c, k)
    <2>4. j \in Nat /\ j < n /\ j + 1 = k /\ j \notin T /\ j \in 0 .. n /\ k \in 1 .. n
      BY <1>1, <2>2, <2>3
    <2>5. Translated(text, c, j) \in Seq(Nat) /\ Translated(text, c, k) = Translated(text, c, j) \o piece
      BY <2>4, TranslatedMore
    <2>6. Unmixed(Translated(text, c, j), c)
      BY <2>4
    <2>7. piece \in Seq(Nat) /\ Unmixed(piece, c)
      <3>1. text[k] \in Nat
        BY <2>4, ElementOfSeq
      <3>2. piece = Newline(c) \/ piece = <<>> \/ (piece = <<text[k]>> /\ text[k] \notin {10, 13})
        BY <2>4, PieceIs
      <3> HIDE DEF piece
      <3>3. <<>> \in Seq(Nat) /\ <<text[k]>> \in Seq(Nat) /\ Newline(c) \in Seq(Nat)
        BY <3>1, NewlineType
      <3> QED
        BY <3>1, <3>2, <3>3, UnmixedPieces
    <2> HIDE DEF j, piece
    <2>8. Unmixed(Translated(text, c, k), c)
      BY <2>5, <2>6, <2>7, UnmixedConcat
    <2> QED
      BY <2>2, <2>8
  <1>3. n \in 0 .. n
    BY <1>1
  <1>4. Unmixed(Translated(text, c, n), c)
    BY <1>2, <1>3
  <1> QED
    BY <1>4, TranslationIsJoined

LEMMA UnmixedEndings ==
  ASSUME NEW t \in Seq(Nat), NEW c \in LineEndings, Unmixed(t, c)
  PROVE  /\ \A d \in LineEndings \ {c} : EndingsAt(t, d) = {}
         /\ EndingsAt(t, c) # {} <=> \E i \in 1 .. Len(t) : t[i] \in {10, 13}
         /\ ConventionOf(t) \in {"NO_CONVENTION", c}
  <1>1. DOMAIN t = 1 .. Len(t) /\ Len(t) \in Nat
    BY LenProperties
  <1>2. /\ EndingsAt(t, "CRLF") = {i \in 1 .. Len(t) : t[i] = 10 /\ i > 1 /\ t[i - 1] = 13}
        /\ EndingsAt(t, "LF") = {i \in 1 .. Len(t) : t[i] = 10 /\ ~ (i > 1 /\ t[i - 1] = 13)}
        /\ EndingsAt(t, "CR") = {i \in 1 .. Len(t) : t[i] = 13 /\ ~ (i < Len(t) /\ t[i + 1] = 10)}
    BY <1>1 DEF EndingsAt, FollowsCR, PrecedesLF
  <1> DEFINE Goal == /\ c # "CR" => EndingsAt(t, "CR") = {}
                     /\ c # "LF" => EndingsAt(t, "LF") = {}
                     /\ c # "CRLF" => EndingsAt(t, "CRLF") = {}
                     /\ EndingsAt(t, c) # {} <=> \E i \in 1 .. Len(t) : t[i] \in {10, 13}
  <1>3. ASSUME c = "LF" PROVE Goal
    <2>1. \A i \in 1 .. Len(t) : t[i] # 13 /\ (i > 1 => t[i - 1] # 13)
      BY <1>1, <1>3 DEF Unmixed
    <2>2. /\ EndingsAt(t, "CRLF") = {} /\ EndingsAt(t, "CR") = {}
          /\ EndingsAt(t, "LF") = {i \in 1 .. Len(t) : t[i] \in {10, 13}}
      BY <1>2, <2>1
    <2> QED
      BY <1>3, <2>2
  <1>4. ASSUME c = "CR" PROVE Goal
    <2>1. \A i \in 1 .. Len(t) : t[i] # 10 /\ (i < Len(t) => t[i + 1] # 10)
      BY <1>1, <1>4 DEF Unmixed
    <2>2. /\ EndingsAt(t, "CRLF") = {} /\ EndingsAt(t, "LF") = {}
          /\ EndingsAt(t, "CR") = {i \in 1 .. Len(t) : t[i] \in {10, 13}}
      BY <1>2, <2>1
    <2> QED
      BY <1>4, <2>2
  <1>5. ASSUME c = "CRLF" PROVE Goal
    <2>1. \A i \in 1 .. Len(t) : /\ t[i] = 10 => i > 1 /\ t[i - 1] = 13
                                 /\ t[i] = 13 => i < Len(t) /\ t[i + 1] = 10
      BY <1>5 DEF Unmixed
    <2>2. /\ EndingsAt(t, "CR") = {} /\ EndingsAt(t, "LF") = {}
          /\ EndingsAt(t, "CRLF") = {i \in 1 .. Len(t) : t[i] = 10}
      BY <1>2, <2>1
    <2>3. \A i \in 1 .. Len(t) : t[i] = 13 => i + 1 \in 1 .. Len(t) /\ t[i + 1] = 10
      BY <1>1, <2>1
    <2>4. (\E i \in 1 .. Len(t) : t[i] \in {10, 13}) <=> \E i \in 1 .. Len(t) : t[i] = 10
      BY <2>3
    <2> QED
      BY <1>5, <2>2, <2>4
  <1>6. /\ \A d \in LineEndings \ {c} : EndingsAt(t, d) = {}
        /\ EndingsAt(t, c) # {} <=> \E i \in 1 .. Len(t) : t[i] \in {10, 13}
    <2>1. c \in {"CR", "LF", "CRLF"} /\ LineEndings = {"CR", "LF", "CRLF"}
      BY DEF LineEndings
    <2>2. Goal
      BY <1>3, <1>4, <1>5, <2>1
    <2> QED
      BY <2>1, <2>2
  <1>7. ConventionOf(t) \in {"NO_CONVENTION", c}
    <2> DEFINE met == {d \in LineEndings : EndingsAt(t, d) # {}}
    <2>1. met = {} \/ met = {c}
      BY <1>6
    <2> HIDE DEF met
    <2>2. Cardinality({c}) = 1 /\ (CHOOSE d \in {c} : TRUE) = c
      BY FS_Singleton
    <2>3. ConventionOf(t) = IF met = {} THEN "NO_CONVENTION"
                            ELSE IF Cardinality(met) = 1 THEN CHOOSE d \in met : TRUE ELSE "MIXED"
      BY DEF ConventionOf, met
    <2> QED
      BY <2>1, <2>2, <2>3
  <1> QED
    BY <1>6, <1>7

\* The translation is made of code points of the text, and of those of line endings.
LEMMA TranslationIn ==
  ASSUME NEW S \in SUBSET Nat, 10 \in S, 13 \in S, NEW text \in Seq(S), NEW c \in LineEndings
  PROVE  Translation(text, c) \in Seq(S)
  <1> DEFINE n == Len(text)
             F == Pieces(text, c)
  <1>1. text \in Seq(Nat) /\ n \in Nat
    BY SeqMonotonic, LenProperties
  <1>2. \A i \in 1 .. n : F[i] \in Seq(S)
    <2> SUFFICES ASSUME NEW i \in 1 .. n PROVE F[i] \in Seq(S)
      OBVIOUS
    <2>1. text[i] \in S
      BY ElementOfSeq
    <2>2. F[i] = Newline(c) \/ F[i] = <<>> \/ F[i] = <<text[i]>>
      BY <1>1, PiecesType DEF Piece
    <2>3. Newline(c) \in Seq(S)
      BY DEF Newline, LineEndings
    <2> HIDE DEF F
    <2>4. <<>> \in Seq(S) /\ <<text[i]>> \in Seq(S)
      BY <2>1, EmptySeq
    <2> QED
      BY <2>3, <2>2, <2>4
  <1>3. Translation(text, c) = Joined(F, n)
    BY <1>1, TranslationIsJoined DEF Translated
  <1> HIDE DEF F
  <1>4. CASE n = 0
    BY <1>3, <1>4, JoinedNone, EmptySeq
  <1>5. CASE n # 0
    <2>1. n - 1 \in Nat /\ (n - 1) + 1 = n
      BY <1>1, <1>5
    <2> QED
      BY <1>2, <1>3, <2>1, JoinedMore
  <1> QED
    BY <1>4, <1>5

--------------------------------------------------------------------------------
(* Bytes and code points.                                                   *)

LEMMA ConcatAt ==
  ASSUME NEW a \in Seq(Nat), NEW b \in Seq(Nat)
  PROVE  /\ Len(a \o b) = Len(a) + Len(b)
         /\ \A i \in 1 .. Len(a) + Len(b) : (a \o b)[i] = IF i <= Len(a) THEN a[i] ELSE b[i - Len(a)]
  BY ConcatProperties, LenProperties

LEMMA JoinedOnes ==
  ASSUME NEW F, NEW n \in Nat, \A i \in 1 .. n : F[i] \in Seq(Nat) /\ Len(F[i]) = 1
  PROVE  /\ Joined(F, n) \in Seq(Nat) /\ Len(Joined(F, n)) = n
         /\ \A i \in 1 .. n : Joined(F, n)[i] = F[i][1]
  <1> DEFINE Right(k) == /\ Joined(F, k) \in Seq(Nat) /\ Len(Joined(F, k)) = k
                         /\ \A i \in 1 .. k : Joined(F, k)[i] = F[i][1]
             T == {k \in 0 .. n : ~ Right(k)}
  <1>1. ASSUME T # {} PROVE FALSE
    <2>1. T \in SUBSET Nat
      OBVIOUS
    <2>2. PICK k \in T : \A j \in T : k <= j
      BY <1>1, <2>1, Smallest
    <2>3. k # 0
      <3>1. Joined(F, 0) = <<>> /\ <<>> \in Seq(Nat) /\ Len(<<>>) = 0
        BY JoinedNone, EmptySeq
      <3> DEFINE none == Joined(F, 0)
      <3>2. none \in Seq(Nat) /\ Len(none) = 0
        BY <3>1
      <3> HIDE DEF none
      <3>3. \A i \in 1 .. 0 : FALSE
        OBVIOUS
      <3>4. Right(0)
        BY <3>2, <3>3 DEF none
      <3> QED
        BY <3>4
    <2> DEFINE j == k - 1
               before == Joined(F, j)
               piece == F[k]
    <2>4. j \in Nat /\ j + 1 = k /\ j \notin T /\ j \in 0 .. n /\ k \in 1 .. n
      BY <2>2, <2>3
    <2>5. Right(j)
      BY <2>4
    <2>6. Joined(F, k) = before \o piece /\ Joined(F, k) \in Seq(Nat) /\ before \in Seq(Nat)
      <3>1. \A i \in 1 .. j + 1 : F[i] \in Seq(Nat)
        BY <2>4
      <3>2. j \in Nat /\ F[j + 1] = piece /\ Joined(F, j + 1) = Joined(F, k)
        BY <2>4
      <3> HIDE DEF j, piece
      <3>3. /\ Joined(F, j) \in Seq(Nat) /\ Joined(F, j + 1) \in Seq(Nat)
            /\ Joined(F, j + 1) = Joined(F, j) \o F[j + 1]
        BY <3>1, <3>2, JoinedMore
      <3> QED
        BY <3>2, <3>3
    <2>7. Len(before) = j /\ \A i \in 1 .. j : before[i] = F[i][1]
      BY <2>5
    <2>8. piece \in Seq(Nat) /\ Len(piece) = 1
      BY <2>4
    <2> HIDE DEF j, before, piece
    <2>9. /\ Len(before \o piece) = j + 1
          /\ \A i \in 1 .. j + 1 : (before \o piece)[i] = IF i <= j THEN before[i] ELSE piece[i - j]
      <3>1. /\ Len(before \o piece) = Len(before) + Len(piece)
            /\ \A i \in 1 .. Len(before) + Len(piece) :
                 (before \o piece)[i] = IF i <= Len(before) THEN before[i] ELSE piece[i - Len(before)]
        BY <2>6, <2>8, ConcatAt
      <3> QED
        BY <2>4, <2>7, <2>8, <3>1
    <2>10. \A i \in 1 .. k : (before \o piece)[i] = F[i][1]
      <3> SUFFICES ASSUME NEW i \in 1 .. k PROVE (before \o piece)[i] = F[i][1]
        OBVIOUS
      <3>1. CASE i <= j
        BY <2>4, <2>7, <2>9, <3>1
      <3>2. CASE ~ (i <= j)
        <4>1. i = k /\ i - j = 1 /\ i \in 1 .. j + 1
          BY <2>4, <3>2
        <4>2. (before \o piece)[i] = piece[1]
          BY <2>9, <3>2, <4>1
        <4>3. F[i] = piece
          BY <4>1 DEF piece
        <4> QED
          BY <4>2, <4>3
      <3> QED
        BY <3>1, <3>2
    <2>11. Len(before \o piece) = k
      BY <2>4, <2>9
    <2>12. Right(k)
      BY <2>6, <2>10, <2>11
    <2> QED
      BY <2>2, <2>12
  <1>2. n \in 0 .. n
    OBVIOUS
  <1>3. n \notin T
    <2> HIDE DEF T
    <2> QED
      BY <1>1
  <1> QED
    BY <1>2, <1>3

LEMMA JoinedTwos ==
  ASSUME NEW F, NEW n \in Nat, \A i \in 1 .. n : F[i] \in Seq(Nat) /\ Len(F[i]) = 2
  PROVE  /\ Joined(F, n) \in Seq(Nat) /\ Len(Joined(F, n)) = 2 * n
         /\ \A i \in 1 .. n : Joined(F, n)[2*i - 1] = F[i][1] /\ Joined(F, n)[2*i] = F[i][2]
  <1> DEFINE Right(k) == /\ Joined(F, k) \in Seq(Nat) /\ Len(Joined(F, k)) = 2 * k
                         /\ \A i \in 1 .. k : /\ Joined(F, k)[2*i - 1] = F[i][1]
                                              /\ Joined(F, k)[2*i] = F[i][2]
             T == {k \in 0 .. n : ~ Right(k)}
  <1>1. ASSUME T # {} PROVE FALSE
    <2>1. T \in SUBSET Nat
      OBVIOUS
    <2>2. PICK k \in T : \A j \in T : k <= j
      BY <1>1, <2>1, Smallest
    <2>3. k # 0
      <3>1. Joined(F, 0) = <<>> /\ <<>> \in Seq(Nat) /\ Len(<<>>) = 0
        BY JoinedNone, EmptySeq
      <3> DEFINE none == Joined(F, 0)
      <3>2. none \in Seq(Nat) /\ Len(none) = 0
        BY <3>1
      <3> HIDE DEF none
      <3>3. \A i \in 1 .. 0 : FALSE
        OBVIOUS
      <3>4. Right(0)
        BY <3>2, <3>3 DEF none
      <3> QED
        BY <3>4
    <2> DEFINE j == k - 1
               before == Joined(F, j)
               piece == F[k]
    <2>4. j \in Nat /\ j + 1 = k /\ j \notin T /\ j \in 0 .. n /\ k \in 1 .. n
      BY <2>2, <2>3
    <2>5. Right(j)
      BY <2>4
    <2>6. Joined(F, k) = before \o piece /\ Joined(F, k) \in Seq(Nat) /\ before \in Seq(Nat)
      <3>1. \A i \in 1 .. j + 1 : F[i] \in Seq(Nat)
        BY <2>4
      <3>2. j \in Nat /\ F[j + 1] = piece /\ Joined(F, j + 1) = Joined(F, k)
        BY <2>4
      <3> HIDE DEF j, piece
      <3>3. /\ Joined(F, j) \in Seq(Nat) /\ Joined(F, j + 1) \in Seq(Nat)
            /\ Joined(F, j + 1) = Joined(F, j) \o F[j + 1]
        BY <3>1, <3>2, JoinedMore
      <3> QED
        BY <3>2, <3>3
    <2>7. Len(before) = 2 * j /\ \A i \in 1 .. j : before[2*i - 1] = F[i][1] /\ before[2*i] = F[i][2]
      BY <2>5
    <2>8. piece \in Seq(Nat) /\ Len(piece) = 2
      BY <2>4
    <2> HIDE DEF j, before, piece
    <2>9. /\ Len(before \o piece) = 2 * j + 2
          /\ \A i \in 1 .. 2 * j + 2 : (before \o piece)[i] = IF i <= 2 * j THEN before[i] ELSE piece[i - 2 * j]
      <3>1. /\ Len(before \o piece) = Len(before) + Len(piece)
            /\ \A i \in 1 .. Len(before) + Len(piece) :
                 (before \o piece)[i] = IF i <= Len(before) THEN before[i] ELSE piece[i - Len(before)]
        BY <2>6, <2>8, ConcatAt
      <3> QED
        BY <2>4, <2>7, <2>8, <3>1
    <2>10. \A i \in 1 .. k : (before \o piece)[2*i - 1] = F[i][1] /\ (before \o piece)[2*i] = F[i][2]
      <3> SUFFICES ASSUME NEW i \in 1 .. k
                   PROVE  (before \o piece)[2*i - 1] = F[i][1] /\ (before \o piece)[2*i] = F[i][2]
        OBVIOUS
      <3>0. 2*i - 1 \in 1 .. 2 * k /\ 2*i \in 1 .. 2 * k
        BY <2>4
      <3>1. CASE i <= j
        <4>1. 2*i - 1 <= 2 * j /\ 2*i <= 2 * j /\ i \in 1 .. j
          BY <2>4, <3>1
        <4> QED
          BY <2>7, <2>9, <3>0, <4>1
      <3>2. CASE ~ (i <= j)
        <4>1. /\ i = k /\ (2*i - 1) - 2 * j = 1 /\ 2*i - 2 * j = 2
              /\ 2*i - 1 \in 1 .. 2 * j + 2 /\ 2*i \in 1 .. 2 * j + 2
              /\ ~ (2*i - 1 <= 2 * j) /\ ~ (2*i <= 2 * j)
          BY <2>4, <3>2
        <4>2. (before \o piece)[2*i - 1] = piece[1] /\ (before \o piece)[2*i] = piece[2]
          BY <2>9, <3>0, <4>1
        <4> QED
          BY <4>1, <4>2 DEF piece
      <3> QED
        BY <3>1, <3>2
    <2>11. Len(before \o piece) = 2 * k
      <3>1. 2 * j + 2 = 2 * k
        BY <2>4
      <3> QED
        BY <2>9, <3>1
    <2>12. Right(k)
      BY <2>6, <2>10, <2>11
    <2> QED
      BY <2>2, <2>12
  <1>2. n \in 0 .. n
    OBVIOUS
  <1>3. n \notin T
    <2> HIDE DEF T
    <2> QED
      BY <1>1
  <1> QED
    BY <1>2, <1>3

Word == {w \in Nat : w <= 65535}

LEMMA WordsAreNumbers == Word \subseteq Nat
  BY DEF Word

\* What a code point can be in a file like that one.
Units(origin) == IF IsUTF16LE(origin) \/ IsUTF16BE(origin) THEN Word ELSE Byte

LEMMA TwoOfWord ==
  ASSUME NEW w \in Word
  PROVE  /\ w % 256 \in Byte /\ w \div 256 \in Byte
         /\ (w % 256) + 256 * (w \div 256) = w
  <1>1. w \in Nat /\ w <= 65535
    BY DEF Word
  <1>2. w % 256 \in Byte /\ w \div 256 \in Byte
    BY <1>1, BytesOfPair
  <1> QED
    BY <1>1, <1>2

LEMMA ByteSequence ==
  ASSUME NEW s \in Seq(Nat), \A i \in 1 .. Len(s) : s[i] \in Byte
  PROVE  s \in Seq(Byte)
  <1>1. Len(s) \in Nat /\ s = [i \in 1 .. Len(s) |-> s[i]]
    BY LenProperties
  <1> QED
    BY <1>1, IsASeq

\* A file of single bytes is its text, unless the text begins like a BOM.
LEMMA SingleBytesBack ==
  ASSUME NEW origin, NEW text \in Seq(Byte), ~ IsUTF16LE(origin), ~ IsUTF16BE(origin)
  PROVE  BytesOf(text, origin) = text
  <1> DEFINE n == Len(text)
             F == EncodedText(text, origin)
             bytes == BytesOf(text, origin)
  <1>1. text \in Seq(Nat) /\ n \in Nat
    BY BytesAreNumbers, SeqMonotonic, LenProperties
  <1>2. bytes = Joined(F, n) /\ \A i \in 1 .. n : F[i] = <<text[i]>> /\ F[i] \in Seq(Nat)
    BY <1>1, BytesAreJoined DEF Encoded
  <1> HIDE DEF F, bytes
  <1>3. \A i \in 1 .. n : Len(F[i]) = 1 /\ F[i][1] = text[i]
    <2> SUFFICES ASSUME NEW i \in 1 .. n PROVE Len(F[i]) = 1 /\ F[i][1] = text[i]
      OBVIOUS
    <2>1. F[i] = <<text[i]>>
      BY <1>2
    <2> QED
      BY <2>1
  <1>4. bytes \in Seq(Nat) /\ Len(bytes) = n /\ \A i \in 1 .. n : bytes[i] = text[i]
    BY <1>1, <1>2, <1>3, JoinedOnes
  <1>5. bytes = text
    BY <1>1, <1>4, SeqEqual
  <1> QED
    BY <1>5 DEF bytes

\* The two bytes of a code point, in their order.
Former(w, origin) == IF IsUTF16LE(origin) THEN w % 256 ELSE w \div 256
Latter(w, origin) == IF IsUTF16LE(origin) THEN w \div 256 ELSE w % 256

LEMMA HalfOf ==
  ASSUME NEW n \in Nat, NEW j \in 1 .. 2 * n
  PROVE  \E i \in 1 .. n : j = 2*i - 1 \/ j = 2*i
  <1> DEFINE h == (j + 1) \div 2
  <1>1. h \in Int /\ (j + 1 = 2 * h \/ j + 1 = 2 * h + 1)
    OBVIOUS
  <1> HIDE DEF h
  <1>2. h \in 1 .. n /\ (j = 2 * h - 1 \/ j = 2 * h)
    BY <1>1
  <1> QED
    BY <1>2

LEMMA DoubleBytesBack ==
  ASSUME NEW origin, NEW text \in Seq(Word), IsUTF16LE(origin) \/ IsUTF16BE(origin)
  PROVE  /\ BytesOf(text, origin) \in Seq(Byte)
         /\ Len(BytesOf(text, origin)) = 2 * Len(text)
         /\ \A i \in 1 .. Len(text) :
              /\ BytesOf(text, origin)[2*i - 1] = Former(text[i], origin)
              /\ BytesOf(text, origin)[2*i] = Latter(text[i], origin)
  <1> DEFINE n == Len(text)
             F == EncodedText(text, origin)
             bytes == BytesOf(text, origin)
  <1>1. text \in Seq(Nat) /\ n \in Nat
    BY WordsAreNumbers, SeqMonotonic, LenProperties
  <1>2. \A i \in 1 .. n : text[i] \in Word
    BY ElementOfSeq
  <1>3. bytes = Joined(F, n) /\ \A i \in 1 .. n : F[i] = Encoded(text[i], origin) /\ F[i] \in Seq(Nat)
    BY <1>1, BytesAreJoined
  <1>4. \A i \in 1 .. n : Former(text[i], origin) \in Byte /\ Latter(text[i], origin) \in Byte
    <2> SUFFICES ASSUME NEW i \in 1 .. n
                 PROVE  Former(text[i], origin) \in Byte /\ Latter(text[i], origin) \in Byte
      OBVIOUS
    <2>1. text[i] % 256 \in Byte /\ text[i] \div 256 \in Byte
      BY <1>2, TwoOfWord
    <2> QED
      BY <2>1 DEF Former, Latter
  <1> HIDE DEF F, bytes
  <1>5. \A i \in 1 .. n : /\ Len(F[i]) = 2
                         /\ F[i][1] = Former(text[i], origin) /\ F[i][2] = Latter(text[i], origin)
    <2> SUFFICES ASSUME NEW i \in 1 .. n
                 PROVE  /\ Len(F[i]) = 2
                        /\ F[i][1] = Former(text[i], origin) /\ F[i][2] = Latter(text[i], origin)
      OBVIOUS
    <2>1. F[i] = <<Former(text[i], origin), Latter(text[i], origin)>>
      BY <1>3 DEF Encoded, Former, Latter
    <2> QED
      BY <2>1
  <1>6. /\ bytes \in Seq(Nat) /\ Len(bytes) = 2 * n
        /\ \A i \in 1 .. n : bytes[2*i - 1] = F[i][1] /\ bytes[2*i] = F[i][2]
    <2>1. \A i \in 1 .. n : F[i] \in Seq(Nat) /\ Len(F[i]) = 2
      BY <1>3, <1>5
    <2> HIDE DEF n
    <2>2. /\ Joined(F, n) \in Seq(Nat) /\ Len(Joined(F, n)) = 2 * n
          /\ \A i \in 1 .. n : Joined(F, n)[2*i - 1] = F[i][1] /\ Joined(F, n)[2*i] = F[i][2]
      BY <1>1, <2>1, JoinedTwos
    <2> QED
      BY <1>3, <2>2
  <1>7. \A i \in 1 .. n : /\ bytes[2*i - 1] = Former(text[i], origin)
                         /\ bytes[2*i] = Latter(text[i], origin)
    BY <1>5, <1>6
  <1>8. \A j \in 1 .. 2 * n : bytes[j] \in Byte
    <2> SUFFICES ASSUME NEW j \in 1 .. 2 * n PROVE bytes[j] \in Byte
      OBVIOUS
    <2>1. PICK i \in 1 .. n : j = 2*i - 1 \/ j = 2*i
      BY <1>1, HalfOf
    <2> QED
      BY <1>4, <1>7, <2>1
  <1>9. bytes \in Seq(Byte)
    BY <1>6, <1>8, ByteSequence
  <1> QED
    BY <1>6, <1>7, <1>9 DEF bytes

LEMMA SmallWord ==
  ASSUME NEW w \in Nat, w <= 65535
  PROVE  w \in Word
  BY DEF Word

LEMMA TwoBytesWord ==
  ASSUME NEW a \in Byte, NEW b \in Byte
  PROVE  a + 256 * b \in Word /\ 256 * a + b \in Word
  <1>1. a \in 0 .. 255 /\ b \in 0 .. 255
    BY DEF Byte
  <1>2. a + 256 * b \in Nat /\ 256 * a + b \in Nat
    BY <1>1, TwoBytes
  <1>3. a + 256 * b <= 65535 /\ 256 * a + b <= 65535
    BY <1>1, TwoBytesFit
  <1> QED
    BY <1>2, <1>3, SmallWord

LEMMA TextUnits ==
  ASSUME NEW bytes \in Seq(Byte)
  PROVE  TextOf(bytes) \in Seq(Units(bytes))
  <1> DEFINE text == TextOf(bytes)
  <1>1. /\ text \in Seq(Nat) /\ Len(text) = Len(bytes) \div Width(bytes)
        /\ \A i \in 1 .. Len(text) : text[i] = Unit(bytes, i)
    BY TextFacts
  <1>2. Len(bytes) \in Nat /\ \A i \in 1 .. Len(bytes) : bytes[i] \in Byte
    BY LenProperties, ElementOfSeq
  <1>3. Len(text) \in Nat
    BY <1>1, LenProperties
  <1> HIDE DEF text
  <1>4. CASE IsUTF16LE(bytes) \/ IsUTF16BE(bytes)
    <2>1. Width(bytes) = 2 /\ Units(bytes) = Word /\ Len(text) = Len(bytes) \div 2
      BY <1>1, <1>4, LayoutOfText DEF Width, Units
    <2>2. \A i \in 1 .. Len(text) : text[i] \in Word
      <3> SUFFICES ASSUME NEW i \in 1 .. Len(text) PROVE text[i] \in Word
        OBVIOUS
      <3>1. 2*i - 1 \in 1 .. Len(bytes) /\ 2*i \in 1 .. Len(bytes)
        BY <1>2, <1>3, <2>1
      <3> DEFINE a == bytes[2*i - 1]
                 b == bytes[2*i]
      <3>2. a \in Byte /\ b \in Byte
        BY <1>2, <3>1
      <3>3. text[i] = a + 256 * b \/ text[i] = 256 * a + b
        BY <1>1, <1>4, LayoutOfText DEF Unit
      <3> HIDE DEF a, b
      <3> QED
        BY <3>2, <3>3, TwoBytesWord
    <2>3. text = [i \in 1 .. Len(text) |-> text[i]]
      BY <1>1
    <2>4. text \in Seq(Word)
      BY <1>3, <2>2, <2>3, IsASeq
    <2> QED
      BY <2>1, <2>4 DEF text
  <1>5. CASE ~ (IsUTF16LE(bytes) \/ IsUTF16BE(bytes))
    BY <1>5 DEF Units, TextOf
  <1> QED
    BY <1>4, <1>5

LEMMA BomFirst ==
  ASSUME NEW bytes \in Seq(Byte), IsUTF16LE(bytes) \/ IsUTF16BE(bytes)
  PROVE  Len(TextOf(bytes)) > 0 /\ TextOf(bytes)[1] = 65279
  <1>1. /\ IsUTF16LE(bytes) => Len(bytes) >= 2 /\ bytes[1] = 255 /\ bytes[2] = 254
        /\ IsUTF16BE(bytes) => Len(bytes) >= 2 /\ bytes[1] = 254 /\ bytes[2] = 255
    BY LayoutOfText DEF detect_buffer_encoding_layout
  <1>2. Len(bytes) \in Nat
    BY LenProperties
  <1>3. Len(TextOf(bytes)) = Len(bytes) \div 2
    BY LayoutOfText, TextFacts DEF Width
  <1>4. 1 \in 1 .. Len(TextOf(bytes)) /\ Len(TextOf(bytes)) > 0
    BY <1>1, <1>2, <1>3
  <1>5. TextOf(bytes)[1] = Unit(bytes, 1)
    BY <1>4, TextFacts
  <1>6. Unit(bytes, 1) = 65279
    BY <1>1, LayoutOfText DEF Unit
  <1> QED
    BY <1>4, <1>5, <1>6

\* A text that was written is read again, if its layout is still seen.
LEMMA TextBack ==
  ASSUME NEW origin \in Seq(Byte), NEW text \in Seq(Units(origin)),
         IsUTF16LE(origin) \/ IsUTF16BE(origin) => Len(text) > 0 /\ text[1] = TextOf(origin)[1],
         ~ (IsUTF16LE(origin) \/ IsUTF16BE(origin)) => ~ (IsUTF16LE(text) \/ IsUTF16BE(text))
  PROVE  BytesOf(text, origin) \in Seq(Byte) /\ TextOf(BytesOf(text, origin)) = text
  <1> DEFINE bytes == BytesOf(text, origin)
             n     == Len(text)
             double == IsUTF16LE(origin) \/ IsUTF16BE(origin)
  <1>1. CASE ~ double
    <2>1. text \in Seq(Byte)
      BY <1>1 DEF Units
    <2>2. BytesOf(text, origin) = text
      BY <1>1, <2>1, SingleBytesBack
    <2>3. TextOf(text) = text
      BY <1>1 DEF TextOf
    <2> QED
      BY <2>1, <2>2, <2>3
  <1>2. CASE double
    <2>1. text \in Seq(Word) /\ n \in Nat /\ n > 0 /\ \A i \in 1 .. n : text[i] \in Word
      BY <1>2, LenProperties, ElementOfSeq DEF Units
    <2>2. /\ bytes \in Seq(Byte) /\ Len(bytes) = 2 * n
          /\ \A i \in 1 .. n : /\ bytes[2*i - 1] = Former(text[i], origin)
                               /\ bytes[2*i] = Latter(text[i], origin)
      BY <1>2, <2>1, DoubleBytesBack
    <2>3. text[1] = 65279
      BY <1>2, BomFirst
    <2>4. bytes[1] = Former(65279, origin) /\ bytes[2] = Latter(65279, origin) /\ Len(bytes) >= 2
      <3>1. 1 \in 1 .. n /\ 2*1 - 1 = 1 /\ 2*1 = 2 /\ 2 * n >= 2
        BY <2>1
      <3> HIDE DEF n, bytes
      <3>2. bytes[2*1 - 1] = Former(text[1], origin) /\ bytes[2*1] = Latter(text[1], origin)
        BY <2>2, <3>1
      <3> QED
        BY <2>2, <2>3, <3>1, <3>2
    <2>5. 65279 % 256 = 255 /\ 65279 \div 256 = 254
      OBVIOUS
    <2> HIDE DEF n, bytes
    <2>6. /\ IsUTF16LE(origin) => IsUTF16LE(bytes)
          /\ IsUTF16BE(origin) => IsUTF16BE(bytes)
      <3>1. /\ IsUTF16LE(origin) => bytes[1] = 255 /\ bytes[2] = 254
            /\ IsUTF16BE(origin) => bytes[1] = 254 /\ bytes[2] = 255
        BY <2>4, <2>5, LayoutOfText DEF Former, Latter
      <3>2. 255 \in Byte /\ 254 \in Byte
        BY DEF Byte
      <3> QED
        BY <2>2, <2>4, <3>1, <3>2, PrefixOfTwo DEF IsUTF16LE, IsUTF16BE
    <2>7. Width(bytes) = 2 /\ TextOf(bytes) \in Seq(Nat) /\ Len(TextOf(bytes)) = n
      <3>1. Width(bytes) = 2
        BY <1>2, <2>2, <2>6, LayoutOfText DEF Width
      <3>2. TextOf(bytes) \in Seq(Nat) /\ Len(TextOf(bytes)) = (2 * n) \div 2
        BY <2>2, <3>1, TextFacts
      <3> QED
        BY <2>1, <3>1, <3>2
    <2>8. \A i \in 1 .. n : TextOf(bytes)[i] = text[i]
      <3> SUFFICES ASSUME NEW i \in 1 .. n PROVE TextOf(bytes)[i] = text[i]
        OBVIOUS
      <3>1. TextOf(bytes)[i] = Unit(bytes, i)
        BY <2>2, <2>7, TextFacts
      <3> DEFINE low == text[i] % 256
                 high == text[i] \div 256
      <3>2. low \in Byte /\ high \in Byte /\ low + 256 * high = text[i]
        BY <2>1, TwoOfWord
      <3> HIDE DEF low, high
      <3>3. 256 * high + low = text[i]
        BY <3>2 DEF Byte
      <3>4. CASE IsUTF16LE(origin)
        <4>1. Unit(bytes, i) = bytes[2*i - 1] + 256 * bytes[2*i]
          BY <2>2, <2>6, <3>4, LayoutOfText DEF Unit
        <4>2. bytes[2*i - 1] = low /\ bytes[2*i] = high
          BY <2>2, <3>4 DEF Former, Latter, low, high
        <4> QED
          BY <3>1, <3>2, <4>1, <4>2
      <3>5. CASE IsUTF16BE(origin)
        <4>1. Unit(bytes, i) = 256 * bytes[2*i - 1] + bytes[2*i]
          BY <2>2, <2>6, <3>5, LayoutOfText DEF Unit
        <4>2. bytes[2*i - 1] = high /\ bytes[2*i] = low
          BY <2>2, <3>5, LayoutOfText DEF Former, Latter, low, high
        <4> QED
          BY <3>1, <3>3, <4>1, <4>2
      <3> QED
        BY <1>2, <3>4, <3>5
    <2>9. TextOf(bytes) = text
      <3>1. text \in Seq(Nat)
        BY <2>1, WordsAreNumbers, SeqMonotonic
      <3>2. Len(TextOf(bytes)) = Len(text)
        BY <2>7 DEF n
      <3> QED
        BY <2>7, <2>8, <3>1, <3>2, SeqEqual DEF n
    <2> QED
      BY <2>2, <2>9 DEF bytes
  <1> QED
    BY <1>1, <1>2

--------------------------------------------------------------------------------
(* How a translation begins: it does not turn into UTF-16, nor out of it.   *)

IsEol(w) == w \in {10, 13}

\* t is the translation of the first k code points.
StartsAs(t, text, k) ==
  /\ k = 0 => Len(t) = 0
  /\ Len(t) = 0 => k = 0 \/ (k = 1 /\ text[1] = 13 /\ text[2] = 10)
  /\ Len(t) > 0 => IsEol(t[1]) \/ (k > 0 /\ t[1] = text[1])
  /\ Len(t) = 1 => IsEol(t[1]) \/ k = 1 \/ (k = 2 /\ text[3] = 10)
  /\ Len(t) > 1 => IsEol(t[1]) \/ IsEol(t[2]) \/ (k > 1 /\ t[1] = text[1] /\ t[2] = text[2])
  /\ k > 0 /\ ~ IsEol(text[1]) => Len(t) > 0 /\ t[1] = text[1]

LEMMA StartGrows ==
  ASSUME NEW text, NEW k \in Nat, NEW t \in Seq(Nat), NEW q \in Seq(Nat), StartsAs(t, text, k),
         \/ Len(q) > 0 /\ IsEol(q[1]) /\ IsEol(text[k + 1])
         \/ Len(q) = 0 /\ text[k + 1] = 13 /\ text[k + 2] = 10
         \/ Len(q) = 1 /\ q[1] = text[k + 1] /\ ~ IsEol(text[k + 1])
  PROVE  StartsAs(t \o q, text, k + 1)
  <1> DEFINE u == t \o q
             m == Len(t)
             n == Len(q)
  <1>1. m \in Nat /\ n \in Nat /\ Len(u) = m + n
        /\ \A i \in 1 .. m + n : u[i] = IF i <= m THEN t[i] ELSE q[i - m]
    BY ConcatAt, LenProperties
  <1>2. IsEol(13) /\ IsEol(10)
    BY DEF IsEol
  <1> HIDE DEF u
  <1>3. CASE m = 0
    <2>1. n > 0 => u[1] = q[1]
      <3>1. ASSUME n > 0 PROVE 1 \in 1 .. m + n /\ ~ (1 <= m) /\ 1 - m = 1
        BY <1>1, <1>3, <3>1
      <3> QED
        BY <1>1, <3>1
    <2>2. Len(u) = n
      BY <1>1, <1>3
    <2>3. CASE k = 0
      <3>1. k + 1 = 1 /\ k + 2 = 2
        BY <2>3
      <3>2. \/ n > 0 /\ IsEol(u[1]) /\ IsEol(text[1])
            \/ n = 0 /\ text[1] = 13 /\ text[2] = 10
            \/ n = 1 /\ u[1] = text[1] /\ ~ IsEol(text[1])
        BY <1>1, <2>1, <3>1
      <3>3. StartsAs(u, text, 1)
        BY <1>1, <1>2, <2>2, <3>2 DEF StartsAs
      <3> QED
        BY <3>1, <3>3 DEF u
    <2>4. CASE k = 1 /\ text[1] = 13 /\ text[2] = 10
      <3>1. k + 1 = 2 /\ k + 2 = 3 /\ IsEol(text[1]) /\ IsEol(text[2]) /\ text[2] # 13
        BY <1>2, <2>4
      <3> QED
        BY <1>1, <2>1, <2>2, <3>1 DEF StartsAs, u
    <2> QED
      BY <1>3, <2>3, <2>4 DEF StartsAs
  <1>4. CASE m = 1
    <2>1. /\ u[1] = t[1] /\ Len(u) = 1 + n
          /\ n > 0 => u[2] = q[1]
      <3>1. 1 \in 1 .. m + n /\ 1 <= m
        BY <1>1, <1>4
      <3>2. ASSUME n > 0 PROVE 2 \in 1 .. m + n /\ ~ (2 <= m) /\ 2 - m = 1
        BY <1>1, <1>4, <3>2
      <3> QED
        BY <1>1, <1>4, <3>1, <3>2
    <2>2. /\ IsEol(t[1]) \/ (k > 0 /\ t[1] = text[1])
          /\ IsEol(t[1]) \/ k = 1 \/ (k = 2 /\ text[3] = 10)
          /\ k > 0 /\ ~ IsEol(text[1]) => t[1] = text[1]
      BY <1>4 DEF StartsAs
    <2>3. CASE IsEol(t[1])
      BY <1>1, <2>1, <2>2, <2>3 DEF StartsAs, u
    <2>4. CASE ~ IsEol(t[1]) /\ k = 1
      <3>1. k + 1 = 2 /\ k + 2 = 3
        BY <2>4
      <3> QED
        BY <1>1, <2>1, <2>2, <2>4, <3>1 DEF StartsAs, u
    <2>5. CASE ~ IsEol(t[1]) /\ k = 2 /\ text[3] = 10
      <3>1. k + 1 = 3 /\ IsEol(text[3]) /\ text[3] # 13
        BY <1>2, <2>5
      <3> QED
        BY <1>1, <2>1, <2>2, <2>5, <3>1 DEF StartsAs, u
    <2> QED
      BY <2>3, <2>2, <2>4, <2>5
  <1>5. CASE m > 1
    <2>1. u[1] = t[1] /\ u[2] = t[2] /\ Len(u) > 1
      BY <1>1, <1>5
    <2>2. /\ k > 0
          /\ IsEol(t[1]) \/ t[1] = text[1]
          /\ IsEol(t[1]) \/ IsEol(t[2]) \/ (k > 1 /\ t[1] = text[1] /\ t[2] = text[2])
          /\ ~ IsEol(text[1]) => t[1] = text[1]
      BY <1>1, <1>5 DEF StartsAs
    <2> QED
      BY <1>1, <2>1, <2>2 DEF StartsAs, u
  <1>6. m = 0 \/ m = 1 \/ m > 1
    <2>1. m \in Nat
      BY LenProperties
    <2> QED
      BY <2>1
  <1> HIDE DEF m
  <1> QED
    BY <1>3, <1>4, <1>5, <1>6

LEMMA PieceStarts ==
  ASSUME NEW text \in Seq(Nat), NEW c \in LineEndings, NEW i \in 1 .. Len(text)
  PROVE  LET q == Piece(text, c, i)
         IN  /\ q \in Seq(Nat)
             /\ \/ Len(q) > 0 /\ IsEol(q[1]) /\ IsEol(text[i])
                \/ Len(q) = 0 /\ text[i] = 13 /\ text[i + 1] = 10
                \/ Len(q) = 1 /\ q[1] = text[i] /\ ~ IsEol(text[i])
  <1> DEFINE q == Piece(text, c, i)
  <1>1. q = IF text[i] = 10 \/ (text[i] = 13 /\ ~ PrecedesLF(text, i)) THEN Newline(c)
            ELSE IF text[i] = 13 THEN <<>>
            ELSE <<text[i]>>
    BY PieceIs
  <1>2. text[i] \in Nat
    BY ElementOfSeq
  <1> HIDE DEF q
  <1>3. CASE text[i] = 10 \/ (text[i] = 13 /\ ~ PrecedesLF(text, i))
    <2>1. q = Newline(c) /\ IsEol(text[i])
      BY <1>1, <1>3 DEF IsEol
    <2>2. q \in Seq(Nat) /\ Len(q) > 0 /\ IsEol(q[1])
      BY <2>1, NewlineType DEF Newline, LineEndings, IsEol
    <2> QED
      BY <2>1, <2>2 DEF q
  <1>4. CASE text[i] = 13 /\ PrecedesLF(text, i)
    <2>1. q = <<>>
      BY <1>1, <1>4
    <2>2. q \in Seq(Nat) /\ Len(q) = 0
      BY <2>1
    <2> QED
      BY <1>4, <2>2 DEF PrecedesLF, q
  <1>5. CASE ~ IsEol(text[i])
    <2>1. q = <<text[i]>>
      BY <1>1, <1>5 DEF IsEol
    <2>2. q \in Seq(Nat) /\ Len(q) = 1 /\ q[1] = text[i]
      BY <1>2, <2>1
    <2> QED
      BY <1>5, <2>2 DEF q
  <1> QED
    BY <1>3, <1>4, <1>5 DEF IsEol

LEMMA TranslationStarts ==
  ASSUME NEW text \in Seq(Nat), NEW c \in LineEndings
  PROVE  StartsAs(Translation(text, c), text, Len(text))
  <1> DEFINE n == Len(text)
             T == {k \in 0 .. n : ~ StartsAs(Translated(text, c, k), text, k)}
  <1>1. n \in Nat /\ Translation(text, c) = Translated(text, c, n)
    BY LenProperties, TranslationIsJoined
  <1>2. ASSUME T # {} PROVE FALSE
    <2>1. T \in SUBSET Nat
      OBVIOUS
    <2>2. PICK k \in T : \A j \in T : k <= j
      BY <1>2, <2>1, Smallest
    <2>3. k # 0
      <3> DEFINE none == Translated(text, c, 0)
      <3>1. Len(none) = 0
        BY TranslatedNone
      <3> HIDE DEF none
      <3>2. StartsAs(none, text, 0)
        BY <3>1 DEF StartsAs
      <3> QED
        BY <3>2 DEF none
    <2> DEFINE j == k - 1
    <2>4. j \in Nat /\ j + 1 = k /\ j \notin T /\ j \in 0 .. n /\ k \in 1 .. n /\ j < n
      BY <1>1, <2>2, <2>3
    <2> DEFINE t == Translated(text, c, j)
               q == Piece(text, c, k)
    <2>5. StartsAs(t, text, j)
      BY <2>4
    <2>6. t \in Seq(Nat) /\ Translated(text, c, k) = t \o q
      <3> HIDE DEF j
      <3>1. /\ Translated(text, c, j) \in Seq(Nat)
            /\ Translated(text, c, j + 1) = Translated(text, c, j) \o Piece(text, c, j + 1)
        BY <2>4, TranslatedMore
      <3> QED
        BY <2>4, <3>1
    <2>7. /\ q \in Seq(Nat)
          /\ \/ Len(q) > 0 /\ IsEol(q[1]) /\ IsEol(text[k])
             \/ Len(q) = 0 /\ text[k] = 13 /\ text[k + 1] = 10
             \/ Len(q) = 1 /\ q[1] = text[k] /\ ~ IsEol(text[k])
      BY <2>4, PieceStarts
    <2>8. k = j + 1 /\ k + 1 = j + 2
      BY <2>4
    <2> HIDE DEF j, t, q
    <2>9. \/ Len(q) > 0 /\ IsEol(q[1]) /\ IsEol(text[j + 1])
          \/ Len(q) = 0 /\ text[j + 1] = 13 /\ text[j + 2] = 10
          \/ Len(q) = 1 /\ q[1] = text[j + 1] /\ ~ IsEol(text[j + 1])
      BY <2>7, <2>8
    <2>10. StartsAs(t \o q, text, j + 1)
      BY <2>4, <2>5, <2>6, <2>7, <2>9, StartGrows
    <2>11. StartsAs(Translated(text, c, k), text, k)
      BY <2>6, <2>8, <2>10
    <2> QED
      BY <2>2, <2>11
  <1>3. n \in 0 .. n
    BY <1>1
  <1>4. n \notin T
    <2> HIDE DEF T
    <2> QED
      BY <1>2
  <1> QED
    BY <1>1, <1>3, <1>4

\* What a conversion sends: the translation, ended if it is asked to be.
Final(text, c, ended) == IF ended THEN WithFinalEol(Translation(text, c), c) ELSE Translation(text, c)

LEMMA NewlineStarts ==
  ASSUME NEW c \in LineEndings
  PROVE  Newline(c) \in Seq(Nat) /\ Len(Newline(c)) > 0 /\ IsEol(Newline(c)[1])
  BY NewlineType DEF Newline, LineEndings, IsEol

LEMMA FinalIn ==
  ASSUME NEW S \in SUBSET Nat, 10 \in S, 13 \in S, NEW text \in Seq(S), NEW c \in LineEndings, NEW ended
  PROVE  Final(text, c, ended) \in Seq(S)
  <1>1. Translation(text, c) \in Seq(S)
    BY TranslationIn
  <1>2. Newline(c) \in Seq(S)
    BY DEF Newline, LineEndings
  <1>3. Translation(text, c) \o Newline(c) \in Seq(S)
    BY <1>1, <1>2, ConcatProperties
  <1> QED
    BY <1>1, <1>3 DEF Final, WithFinalEol

LEMMA EolInUnits ==
  ASSUME NEW origin
  PROVE  Units(origin) \in SUBSET Nat /\ 10 \in Units(origin) /\ 13 \in Units(origin)
  BY DEF Units, Word, Byte

\* The first code points of what is sent.
LEMMA FinalStarts ==
  ASSUME NEW text \in Seq(Nat), NEW c \in LineEndings, NEW ended
  PROVE  LET t == Final(text, c, ended)
         IN  /\ t \in Seq(Nat)
             /\ Len(text) > 0 /\ ~ IsEol(text[1]) => Len(t) > 0 /\ t[1] = text[1]
             /\ Len(t) > 1 => \/ IsEol(t[1]) \/ IsEol(t[2])
                              \/ Len(text) > 1 /\ t[1] = text[1] /\ t[2] = text[2]
  <1> DEFINE tr == Translation(text, c)
             t  == Final(text, c, ended)
             nl == Newline(c)
  <1>1. tr \in Seq(Nat) /\ StartsAs(tr, text, Len(text))
    BY WrittenEnds, TranslationStarts
  <1>2. nl \in Seq(Nat) /\ Len(nl) > 0 /\ IsEol(nl[1])
    BY NewlineStarts
  <1>3. t = tr \/ t = tr \o nl
    BY DEF Final, WithFinalEol
  <1> HIDE DEF tr, t, nl
  <1>4. CASE t = tr
    BY <1>1, <1>4 DEF StartsAs, t
  <1>5. CASE t = tr \o nl
    <2>1. tr \o nl \in Seq(Nat)
      BY <1>1, <1>2, ConcatProperties
    <2>2. /\ Len(tr) \in Nat /\ Len(nl) \in Nat /\ Len(t) = Len(tr) + Len(nl)
          /\ \A i \in 1 .. Len(tr) + Len(nl) : t[i] = IF i <= Len(tr) THEN tr[i] ELSE nl[i - Len(tr)]
      BY <1>1, <1>2, <1>5, ConcatAt, LenProperties
    <2>3. CASE Len(tr) = 0
      <3>1. 1 \in 1 .. Len(tr) + Len(nl) /\ ~ (1 <= Len(tr)) /\ 1 - Len(tr) = 1
        BY <1>2, <2>2, <2>3
      <3>2. t[1] = nl[1]
        BY <2>2, <3>1
      <3> QED
        BY <1>1, <1>2, <1>5, <2>1, <2>3, <3>2 DEF StartsAs, t
    <2>4. CASE Len(tr) = 1
      <3>1. /\ 1 \in 1 .. Len(tr) + Len(nl) /\ 1 <= Len(tr)
            /\ 2 \in 1 .. Len(tr) + Len(nl) /\ ~ (2 <= Len(tr)) /\ 2 - Len(tr) = 1
        BY <1>2, <2>2, <2>4
      <3>2. t[1] = tr[1] /\ t[2] = nl[1] /\ Len(t) > 0
        BY <2>2, <3>1
      <3> QED
        BY <1>1, <1>2, <1>5, <2>1, <2>4, <3>2 DEF StartsAs, t
    <2>5. CASE Len(tr) > 1
      <3>1. /\ 1 \in 1 .. Len(tr) + Len(nl) /\ 1 <= Len(tr)
            /\ 2 \in 1 .. Len(tr) + Len(nl) /\ 2 <= Len(tr)
        BY <1>2, <2>2, <2>5
      <3>2. t[1] = tr[1] /\ t[2] = tr[2] /\ Len(t) > 0
        BY <2>2, <3>1
      <3> QED
        BY <1>1, <1>5, <2>1, <2>5, <3>2 DEF StartsAs, t
    <2>6. Len(tr) = 0 \/ Len(tr) = 1 \/ Len(tr) > 1
      <3> DEFINE m == Len(tr)
      <3>1. m \in Nat
        BY <2>2
      <3> HIDE DEF m
      <3>2. m = 0 \/ m = 1 \/ m > 1
        BY <3>1
      <3> QED
        BY <3>2 DEF m
    <2> QED
      BY <2>3, <2>4, <2>5, <2>6
  <1> QED
    BY <1>3, <1>4, <1>5

\* What is sent is read again as it was meant.
LEMMA FinalBack ==
  ASSUME NEW bytes \in Seq(Byte), NEW c \in LineEndings, NEW ended
  PROVE  LET t == Final(TextOf(bytes), c, ended)
         IN  BytesOf(t, bytes) \in Seq(Byte) /\ TextOf(BytesOf(t, bytes)) = t
  <1> DEFINE text == TextOf(bytes)
             t    == Final(text, c, ended)
  <1>1. text \in Seq(Units(bytes)) /\ text \in Seq(Nat)
    BY TextUnits, TextFacts
  <1>2. t \in Seq(Units(bytes))
    BY <1>1, EolInUnits, FinalIn
  <1>3. /\ t \in Seq(Nat)
        /\ Len(text) > 0 /\ ~ IsEol(text[1]) => Len(t) > 0 /\ t[1] = text[1]
        /\ Len(t) > 1 => \/ IsEol(t[1]) \/ IsEol(t[2])
                         \/ Len(text) > 1 /\ t[1] = text[1] /\ t[2] = text[2]
    BY <1>1, FinalStarts
  <1>4. ASSUME IsUTF16LE(bytes) \/ IsUTF16BE(bytes) PROVE Len(t) > 0 /\ t[1] = text[1]
    <2>1. Len(text) > 0 /\ text[1] = 65279
      BY <1>4, BomFirst
    <2>2. ~ IsEol(65279)
      BY DEF IsEol
    <2> QED
      BY <1>3, <2>1, <2>2
  <1>5. ASSUME ~ (IsUTF16LE(bytes) \/ IsUTF16BE(bytes)) PROVE ~ (IsUTF16LE(t) \/ IsUTF16BE(t))
    <2>1. text = bytes /\ t \in Seq(Byte)
      BY <1>2, <1>5 DEF TextOf, Units
    <2>2. 255 \in Byte /\ 254 \in Byte /\ ~ IsEol(255) /\ ~ IsEol(254)
      BY DEF Byte, IsEol
    <2> HIDE DEF t
    <2>3. ~ IsUTF16LE(t)
      <3> SUFFICES ASSUME IsUTF16LE(t) PROVE FALSE
        OBVIOUS
      <3>1. Len(t) >= 2 /\ t[1] = 255 /\ t[2] = 254
        BY <2>1, <2>2, PrefixOfTwo DEF IsUTF16LE
      <3>2. Len(bytes) > 1 /\ bytes[1] = 255 /\ bytes[2] = 254
        BY <1>3, <2>1, <2>2, <3>1
      <3>3. Len(bytes) >= 2
        BY <3>2, LenProperties
      <3> QED
        BY <1>5, <2>2, <3>2, <3>3, PrefixOfTwo DEF IsUTF16LE
    <2>4. ~ IsUTF16BE(t)
      <3> SUFFICES ASSUME IsUTF16BE(t) PROVE FALSE
        OBVIOUS
      <3>1. Len(t) >= 2 /\ t[1] = 254 /\ t[2] = 255
        BY <2>1, <2>2, PrefixOfTwo DEF IsUTF16BE
      <3>2. Len(bytes) > 1 /\ bytes[1] = 254 /\ bytes[2] = 255
        BY <1>3, <2>1, <2>2, <3>1
      <3>3. Len(bytes) >= 2
        BY <3>2, LenProperties
      <3> QED
        BY <1>5, <2>2, <3>2, <3>3, PrefixOfTwo DEF IsUTF16BE
    <2> QED
      BY <2>3, <2>4
  <1> HIDE DEF t
  <1>6. BytesOf(t, bytes) \in Seq(Byte) /\ TextOf(BytesOf(t, bytes)) = t
    BY <1>2, <1>4, <1>5, TextBack
  <1> QED
    BY <1>6 DEF t

--------------------------------------------------------------------------------
(* What is sent, as a text.                                                 *)

LEMMA FinalUnmixed ==
  ASSUME NEW text \in Seq(Nat), NEW c \in LineEndings, NEW ended
  PROVE  Unmixed(Final(text, c, ended), c)
  <1>1. Translation(text, c) \in Seq(Nat) /\ Unmixed(Translation(text, c), c)
    BY WrittenEnds, UnmixedTranslation
  <1>2. Newline(c) \in Seq(Nat) /\ Unmixed(Newline(c), c)
    BY NewlineType, UnmixedPieces
  <1>3. Unmixed(Translation(text, c) \o Newline(c), c)
    BY <1>1, <1>2, UnmixedConcat
  <1> QED
    BY <1>1, <1>3 DEF Final, WithFinalEol

LEMMA FinalEnds ==
  ASSUME NEW text \in Seq(Nat), NEW c \in LineEndings, NEW ended \in BOOLEAN
  PROVE  EndsWithEol(Final(text, c, ended)) <=> ended \/ EndsWithEol(text)
  <1> DEFINE tr == Translation(text, c)
             nl == Newline(c)
  <1>1. tr \in Seq(Nat) /\ (EndsWithEol(tr) <=> EndsWithEol(text))
    BY WrittenEnds, EndsAlike
  <1>2. nl \in Seq(Nat) /\ Len(nl) > 0 /\ nl[Len(nl)] \in {10, 13}
    BY NewlineType DEF Newline, LineEndings
  <1> HIDE DEF tr, nl
  <1>3. tr \o nl # <<>> /\ Last(tr \o nl) = nl[Len(nl)]
    BY <1>1, <1>2, LastOfConcat
  <1>4. EndsWithEol(tr \o nl)
    BY <1>2, <1>3 DEF EndsWithEol
  <1>5. Final(text, c, ended) = IF ended THEN IF EndsWithEol(tr) THEN tr ELSE tr \o nl ELSE tr
    BY DEF Final, WithFinalEol, tr, nl
  <1> QED
    BY <1>1, <1>4, <1>5

\* No control character comes from nowhere.
LEMMA FinalAddsNoNonText ==
  ASSUME NEW text \in Seq(Nat), NEW c \in LineEndings, NEW ended, HasNonText(Final(text, c, ended))
  PROVE  HasNonText(text)
  <1> DEFINE S == {w \in Nat : ~ is_non_text_code(w)}
             t == Final(text, c, ended)
  <1> SUFFICES ASSUME ~ HasNonText(text) PROVE FALSE
    OBVIOUS
  <1>1. Len(text) \in Nat /\ \A i \in 1 .. Len(text) : text[i] \in S
    BY NonTextIsTheSame, ElementOfSeq, LenProperties
  <1>2. text = [i \in 1 .. Len(text) |-> text[i]]
    BY LenProperties
  <1>3. 10 \in S /\ 13 \in S /\ S \in SUBSET Nat
    BY LineEndsAreText
  <1> HIDE DEF S
  <1>4. text \in Seq(S)
    BY <1>1, <1>2, IsASeq
  <1>5. t \in Seq(S)
    BY <1>3, <1>4, FinalIn
  <1> HIDE DEF t
  <1>6. t \in Seq(Nat)
    BY <1>3, <1>5, SeqMonotonic
  <1>7. \A i \in 1 .. Len(t) : t[i] \in S
    BY <1>5, ElementOfSeq
  <1>8. \A i \in 1 .. Len(t) : ~ is_non_text_code(t[i])
    BY <1>7 DEF S
  <1>9. HasNonText(t)
    BY DEF t
  <1> QED
    BY <1>6, <1>8, <1>9, NonTextIsTheSame

\* What a call that converts a file has left in it.
LEMMA SinkRead ==
  ASSUME StreamInv, ExactInv, ReturnInv, SentInv, Accepted, site = "convert_one_file"
  PROVE  /\ Text \in Seq(Nat) /\ invocation \in Invocation /\ invocation.dst_convention \in LineEndings
         /\ TextOf(output_stream.sink) =
              Final(Text, invocation.dst_convention, invocation.final_char_has_to_be_eol)
         /\ HasNonText(Text) => invocation.binaries
  <1> DEFINE c     == invocation.dst_convention
             ended == invocation.final_char_has_to_be_eol
  <1>1. invocation \in Invocation /\ c \in LineEndings
    BY DEF StreamInv, CallInv, CallSites, Invocation, Targets
  <1>2. /\ p.has_outstream /\ p.dst_convention = c /\ p.final_char_has_to_be_eol = ended
        /\ p.interrupt_if_non_text = ~ invocation.binaries
        /\ ~ p.interrupt_if_not_like_dst_convention
    BY DEF p, ConvertParameters
  <1>3. Text \in Seq(Nat) /\ input \in Seq(Byte)
    BY InputSizes, TextFacts DEF Text
  <1>4. output_stream.sink = BytesOf(Final(Text, c, ended), input)
    BY <1>2, WholeOutput DEF Final
  <1>5. TextOf(output_stream.sink) = Final(Text, c, ended)
    BY <1>1, <1>3, <1>4, FinalBack DEF Text
  <1>6. pc = "done" /\ ~ ferror /\ ~ output_stream.err /\ ~ Interrupted
    BY DEF Accepted, Returned, ReturnInv, Interrupted
  <1>7. SeenInv /\ LeftInv
    BY <1>6 DEF ExactInv
  <1>8. Done = Len(Text)
    BY <1>2, <1>6, <1>7 DEF LeftInv, IsForeign
  <1>9. report.contains_non_text_chars <=> HasNonText(Text)
    BY <1>7, <1>8, WholeText
  <1>10. HasNonText(Text) => invocation.binaries
    BY <1>1, <1>2, <1>6, <1>9 DEF Interrupted, Invocation
  <1> QED
    BY <1>1, <1>3, <1>5, <1>10

LEMMA NeedsNothing == StreamInv /\ ExactInv /\ ReturnInv /\ SentInv => ConvertedNeedsNothing
  <1> SUFFICES ASSUME StreamInv, ExactInv, ReturnInv, SentInv, Accepted, site = "convert_one_file"
               PROVE  NothingToDo(TextOf(output_stream.sink), invocation)
    BY DEF ConvertedNeedsNothing
  <1> DEFINE c     == invocation.dst_convention
             ended == invocation.final_char_has_to_be_eol
             t     == Final(Text, c, ended)
  <1>1. /\ Text \in Seq(Nat) /\ invocation \in Invocation /\ c \in LineEndings
        /\ TextOf(output_stream.sink) = t /\ (HasNonText(Text) => invocation.binaries)
    BY SinkRead
  <1>2. ended \in BOOLEAN
    BY <1>1 DEF Invocation
  <1>3. 10 \in Nat /\ 13 \in Nat /\ Nat \in SUBSET Nat
    OBVIOUS
  <1>4. t \in Seq(Nat) /\ Unmixed(t, c)
    BY <1>1, <1>3, FinalIn, FinalUnmixed
  <1>5. ConventionOf(t) \in {"NO_CONVENTION", c}
    BY <1>1, <1>4, UnmixedEndings
  <1>6. ended => EndsWithEol(t)
    BY <1>1, <1>2, FinalEnds
  <1>7. HasNonText(t) => invocation.binaries
    BY <1>1, FinalAddsNoNonText
  <1> QED
    BY <1>1, <1>5, <1>6, <1>7 DEF NothingToDo

\* What a conversion wrote needs no conversion: in its own layout it is read again as the
\* translation it was meant to be, in one convention, ended if that was asked, and with no
\* control character that the input had not.  For every countable input, buffer and command line.
THEOREM ConvertedAlwaysNeedsNothing ==
  ASSUME Countable
  PROVE  Spec => []ConvertedNeedsNothing
  <1>1. Init => StreamInv /\ ExactInv /\ ReturnInv /\ SentInv
    BY StreamInit, ExactInit, SentInit DEF Init, ReturnInv
  <1>2. /\ StreamInv /\ ExactInv /\ ReturnInv /\ SentInv /\ [Next]_vars
        => (StreamInv /\ ExactInv /\ ReturnInv /\ SentInv)'
    BY StreamNext, ExactNext, ReturnNext, SentNext
  <1> QED
    BY <1>1, <1>2, NeedsNothing, PTL DEF Spec

--------------------------------------------------------------------------------
(* Where a dry scan stops, and with what.                                   *)

\* The line endings with a LF, met in the first k code points, that are not wanted.
ForeignMet(k) == {c \in {"LF", "CRLF"} : p.dst_convention # c /\ Met(Text, k, c) # {}}

\* The scan runs on until it meets the first foreign line ending or unwanted control character.
ScanInv ==
  (site = "pre_conversion_check" /\ ~ ferror) =>
    /\ pc \in {"setup", "pull", "body"} => ~ Interrupted /\ ForeignMet(Done) = {}
    /\ pc \in {"finish", "done"} =>
         \/ output_stream.err
         \/ Done = Len(Text) /\ ~ Interrupted /\ ForeignMet(Done) = {}
         \/ /\ Interrupted /\ Done > 0 /\ is_non_text_code(Text[Done])
            /\ ForeignMet(Done) = {}
         \/ /\ ~ Interrupted /\ Done > 0 /\ Text[Done] = 10
            /\ \E c : ForeignMet(Done) = {c}

LEMMA ScanParameters ==
  ASSUME CallInv, site = "pre_conversion_check"
  PROVE  /\ invocation \in Invocation /\ invocation.dst_convention \in LineEndings
         /\ p.interrupt_if_not_like_dst_convention /\ p.dst_convention = invocation.dst_convention
         /\ p.interrupt_if_non_text = ~ invocation.binaries
         /\ p.final_char_has_to_be_eol = FALSE
  BY DEF p, PreCheckParameters, CallInv, CallSites, Invocation, Targets

\* What every branch of the loop starts from, in a dry scan.
LEMMA BodyScans ==
  ASSUME StreamInv, ExactInv, ScanInv, Body, pc' # "setup", ~ ferror', Countable,
         site' = "pre_conversion_check"
  PROVE  /\ p' = p /\ Text' = Text /\ Done \in Nat /\ Done' = Done + 1 /\ Done + 1 > 0
         /\ code_point = Text[Done + 1]
         /\ last_was_13 <=> Done > 0 /\ Text[Done] = 13
         /\ p.interrupt_if_not_like_dst_convention /\ p.dst_convention \in LineEndings
         /\ ~ Interrupted /\ ForeignMet(Done) = {}
         /\ ForeignMet(Done)' = {c \in {"LF", "CRLF"} : p.dst_convention # c /\ Met(Text, Done + 1, c) # {}}
         /\ report \in Reports
  <1>1. /\ p' = p /\ Text' = Text /\ Done \in Nat /\ Done' = Done + 1
        /\ code_point = Text[Done + 1] /\ ~ ferror
        /\ last_was_13 <=> Done > 0 /\ Text[Done] = 13
    BY BodyFacts
  <1>2. site = "pre_conversion_check" /\ pc = "body"
    BY DEF Body, callVars
  <1>3. p.interrupt_if_not_like_dst_convention /\ p.dst_convention \in LineEndings
    BY <1>2, ScanParameters DEF StreamInv
  <1>4. ~ Interrupted /\ ForeignMet(Done) = {}
    BY <1>1, <1>2 DEF ScanInv
  <1>5. ForeignMet(Done)' = {c \in {"LF", "CRLF"} : p.dst_convention # c /\ Met(Text, Done + 1, c) # {}}
    BY <1>1 DEF ForeignMet
  <1>6. report \in Reports
    BY DEF StreamInv, LoopInv
  <1> QED
    BY <1>1, <1>3, <1>4, <1>5, <1>6

LEMMA InterruptScans ==
  ASSUME StreamInv, ExactInv, ScanInv, InterruptOnNonText, Countable
  PROVE  ScanInv'
  <1> SUFFICES ASSUME site' = "pre_conversion_check", ~ ferror' PROVE ScanInv'
    BY DEF ScanInv
  <1>1. /\ Body /\ pc' = "finish" /\ is_non_text_code(code_point) /\ p.interrupt_if_non_text
        /\ report' = [report EXCEPT !.contains_non_text_chars = TRUE]
    BY DEF InterruptOnNonText, LeaveLoopIf
  <1>2. /\ p' = p /\ Text' = Text /\ Done \in Nat /\ Done' = Done + 1 /\ Done + 1 > 0
        /\ code_point = Text[Done + 1] /\ report \in Reports /\ ForeignMet(Done) = {}
        /\ ForeignMet(Done)' = {c \in {"LF", "CRLF"} : p.dst_convention # c /\ Met(Text, Done + 1, c) # {}}
    BY <1>1, BodyScans
  <1>3. code_point \notin {10, 13}
    BY <1>1, LineEndsAreText
  <1>4. \A c \in {"LF", "CRLF"} : Met(Text, Done + 1, c) = Met(Text, Done, c)
    BY <1>2, <1>3, MeetsNone DEF LineEndings
  <1>5. ForeignMet(Done)' = {}
    BY <1>2, <1>4 DEF ForeignMet
  <1>6. report'.contains_non_text_chars
    BY <1>1, <1>2 DEF Reports
  <1>7. Interrupted'
    BY <1>1, <1>2, <1>6 DEF Interrupted
  <1> QED
    BY <1>1, <1>2, <1>5, <1>7 DEF ScanInv

LEMMA MeetRegularScans ==
  ASSUME StreamInv, ExactInv, ScanInv, MeetRegular, Countable
  PROVE  ScanInv'
  <1> SUFFICES ASSUME site' = "pre_conversion_check", ~ ferror' PROVE ScanInv'
    BY DEF ScanInv
  <1>1. /\ Body /\ pc' \in {"pull", "finish"} /\ (pc' = "finish" => output_stream'.err)
        /\ ~ (is_non_text_code(code_point) /\ p.interrupt_if_non_text)
        /\ report' = [report EXCEPT !.contains_non_text_chars = @ \/ is_non_text_code(code_point)]
        /\ code_point \notin {10, 13}
    BY DEF MeetRegular, LeaveLoopIf
  <1>2. /\ p' = p /\ Text' = Text /\ Done \in Nat /\ Done' = Done + 1
        /\ code_point = Text[Done + 1] /\ report \in Reports /\ ForeignMet(Done) = {}
        /\ ~ Interrupted
        /\ ForeignMet(Done)' = {c \in {"LF", "CRLF"} : p.dst_convention # c /\ Met(Text, Done + 1, c) # {}}
    BY <1>1, BodyScans
  <1>3. \A c \in {"LF", "CRLF"} : Met(Text, Done + 1, c) = Met(Text, Done, c)
    BY <1>1, <1>2, MeetsNone DEF LineEndings
  <1>4. ForeignMet(Done)' = {}
    BY <1>2, <1>3 DEF ForeignMet
  <1>5. report'.contains_non_text_chars <=> report.contains_non_text_chars \/ is_non_text_code(code_point)
    BY <1>1, <1>2 DEF Reports
  <1>6. ~ Interrupted'
    BY <1>1, <1>2, <1>5 DEF Interrupted
  <1> QED
    BY <1>1, <1>4, <1>6 DEF ScanInv

LEMMA MeetCRScans ==
  ASSUME StreamInv, ExactInv, ScanInv, MeetCR, Countable
  PROVE  ScanInv'
  <1> SUFFICES ASSUME site' = "pre_conversion_check", ~ ferror' PROVE ScanInv'
    BY DEF ScanInv
  <1>1. /\ Body /\ pc' \in {"pull", "finish"} /\ (pc' = "finish" => output_stream'.err)
        /\ report' = Count("CR", 1) /\ code_point = 13
    BY DEF MeetCR, LeaveLoopIf
  <1>2. /\ p' = p /\ Text' = Text /\ Done \in Nat /\ Done' = Done + 1
        /\ code_point = Text[Done + 1] /\ report \in Reports /\ ForeignMet(Done) = {}
        /\ ~ Interrupted
        /\ ForeignMet(Done)' = {c \in {"LF", "CRLF"} : p.dst_convention # c /\ Met(Text, Done + 1, c) # {}}
    BY <1>1, BodyScans
  <1>3. \A c \in {"LF", "CRLF"} : Met(Text, Done + 1, c) = Met(Text, Done, c)
    BY <1>1, <1>2, MeetsCR
  <1>4. ForeignMet(Done)' = {}
    BY <1>2, <1>3 DEF ForeignMet
  <1>5. report'.contains_non_text_chars = report.contains_non_text_chars
    BY <1>1, <1>2 DEF Reports, Count
  <1>6. ~ Interrupted'
    BY <1>2, <1>5 DEF Interrupted
  <1> QED
    BY <1>1, <1>4, <1>6 DEF ScanInv

\* A LF that is not wanted is the first one, and the last code point that is looked at.
LEMMA LFScans ==
  ASSUME StreamInv, ExactInv, ScanInv, Body, pc' \in {"pull", "finish"}, Countable,
         site' = "pre_conversion_check", ~ ferror', code_point = 10,
         report'.contains_non_text_chars = report.contains_non_text_chars,
         NEW c \in {"LF", "CRLF"}, Met(Text, Done + 1, c) # {},
         \A d \in {"LF", "CRLF"} : d # c => Met(Text, Done + 1, d) = Met(Text, Done, d),
         IF pc' = "pull" THEN ~ IsUnwanted(c) ELSE IsUnwanted(c) \/ output_stream'.err
  PROVE  ScanInv'
  <1>1. /\ p' = p /\ Text' = Text /\ Done \in Nat /\ Done' = Done + 1 /\ Done + 1 > 0
        /\ code_point = Text[Done + 1] /\ ForeignMet(Done) = {} /\ ~ Interrupted
        /\ p.interrupt_if_not_like_dst_convention
        /\ ForeignMet(Done)' = {d \in {"LF", "CRLF"} : p.dst_convention # d /\ Met(Text, Done + 1, d) # {}}
    BY BodyScans
  <1>2. ~ Interrupted'
    BY <1>1 DEF Interrupted
  <1>3. \A d \in {"LF", "CRLF"} : d # c => p.dst_convention = d \/ Met(Text, Done + 1, d) = {}
    BY <1>1 DEF ForeignMet
  <1>4. ~ IsUnwanted(c) => ForeignMet(Done)' = {}
    BY <1>1, <1>3 DEF IsUnwanted
  <1>5. IsUnwanted(c) => ForeignMet(Done)' = {c}
    BY <1>1, <1>3 DEF IsUnwanted
  <1>6. CASE pc' = "pull"
    BY <1>2, <1>4, <1>6 DEF ScanInv
  <1>7. CASE pc' = "finish" /\ ~ output_stream'.err
    BY <1>1, <1>2, <1>5, <1>7 DEF ScanInv
  <1>8. CASE pc' = "finish" /\ output_stream'.err
    BY <1>8 DEF ScanInv
  <1> QED
    BY <1>6, <1>7, <1>8

LEMMA MeetLoneLFScans ==
  ASSUME StreamInv, ExactInv, ScanInv, MeetLoneLF, Countable
  PROVE  ScanInv'
  <1> SUFFICES ASSUME site' = "pre_conversion_check", ~ ferror' PROVE ScanInv'
    BY DEF ScanInv
  <1>1. /\ Body /\ pc' \in {"pull", "finish"}
        /\ IF pc' = "pull" THEN ~ IsUnwanted("LF") ELSE IsUnwanted("LF") \/ output_stream'.err
        /\ report' = Count("LF", 1) /\ code_point = 10 /\ ~ last_was_13
    BY DEF MeetLoneLF, LeaveLoopIf
  <1>2. /\ Done \in Nat /\ code_point = Text[Done + 1] /\ report \in Reports
        /\ last_was_13 <=> Done > 0 /\ Text[Done] = 13
    BY <1>1, BodyScans
  <1>3. /\ Met(Text, Done + 1, "LF") = Met(Text, Done, "LF") \cup {Done + 1}
        /\ Met(Text, Done + 1, "CRLF") = Met(Text, Done, "CRLF")
    BY <1>1, <1>2, MeetsLoneLF
  <1>4. report'.contains_non_text_chars = report.contains_non_text_chars
    BY <1>1, <1>2 DEF Reports, Count
  <1>5. /\ "LF" \in {"LF", "CRLF"} /\ Met(Text, Done + 1, "LF") # {}
        /\ \A d \in {"LF", "CRLF"} : d # "LF" => Met(Text, Done + 1, d) = Met(Text, Done, d)
    BY <1>3
  <1> QED
    BY <1>1, <1>4, <1>5, LFScans

LEMMA MeetLFOfCRLFScans ==
  ASSUME StreamInv, ExactInv, ScanInv, MeetLFOfCRLF, Countable
  PROVE  ScanInv'
  <1> SUFFICES ASSUME site' = "pre_conversion_check", ~ ferror' PROVE ScanInv'
    BY DEF ScanInv
  <1>1. /\ Body /\ pc' \in {"pull", "finish"}
        /\ IF pc' = "pull" THEN ~ IsUnwanted("CRLF") ELSE IsUnwanted("CRLF")
        /\ report' = [report EXCEPT
                        !.count_by_convention["CR"]   = (@ - 1) % UINT_RANGE,
                        !.count_by_convention["CRLF"] = (@ + 1) % UINT_RANGE]
        /\ code_point = 10 /\ last_was_13
    BY DEF MeetLFOfCRLF, LeaveLoopIf
  <1>2. /\ Done \in Nat /\ code_point = Text[Done + 1] /\ report \in Reports
        /\ last_was_13 <=> Done > 0 /\ Text[Done] = 13
    BY <1>1, BodyScans
  <1>3. /\ Met(Text, Done + 1, "CRLF") = Met(Text, Done, "CRLF") \cup {Done + 1}
        /\ Met(Text, Done + 1, "LF") = Met(Text, Done, "LF")
    BY <1>1, <1>2, MeetsLFOfCRLF
  <1>4. report'.contains_non_text_chars = report.contains_non_text_chars
    BY <1>1, <1>2 DEF Reports, Counts, LineEndings
  <1>5. /\ "CRLF" \in {"LF", "CRLF"} /\ Met(Text, Done + 1, "CRLF") # {}
        /\ \A d \in {"LF", "CRLF"} : d # "CRLF" => Met(Text, Done + 1, d) = Met(Text, Done, d)
    BY <1>3
  <1> QED
    BY <1>1, <1>4, <1>5, LFScans

LEMMA ReadScans ==
  ASSUME StreamInv, ExactInv, ScanInv, Setup \/ PullFrame \/ PullByte, Countable
  PROVE  ScanInv'
  <1> SUFFICES ASSUME site' = "pre_conversion_check", ~ ferror' PROVE ScanInv'
    BY DEF ScanInv
  <1>1. /\ UNCHANGED <<callVars, report, output_stream>> /\ pc \in {"setup", "pull"}
        /\ pc' \in {"pull", "body"} \/ (PullFrame /\ input_stream'.eof /\ pc' = "finish")
    BY DEF Setup, PullFrame, PullByte, LeaveLoopIf
  <1>2. ~ ferror
    <2>1. CASE Setup \/ PullFrame
      BY <2>1, FrameRead DEF Setup, PullFrame, callVars
    <2>2. CASE PullByte
      BY <2>2 DEF PullByte
    <2> QED
      BY <2>1, <2>2
  <1>3. Placed /\ site = "pre_conversion_check"
    BY <1>1, <1>2 DEF ExactInv, Placed, callVars
  <1>4. Done' = Done /\ p' = p /\ Text' = Text
    BY <1>1, <1>3, FramePlace, PullBytePlace, Parameters
  <1>5. ~ Interrupted /\ ForeignMet(Done) = {}
    BY <1>1, <1>2, <1>3 DEF ScanInv
  <1>6. ~ Interrupted' /\ ForeignMet(Done)' = {}
    BY <1>1, <1>4, <1>5 DEF Interrupted, ForeignMet
  <1>7. PullFrame /\ input_stream'.eof => Done' = Len(Text')
    BY <1>3, <1>4, EofReads
  <1> QED
    BY <1>1, <1>6, <1>7 DEF ScanInv

LEMMA FinishScans ==
  ASSUME StreamInv, ExactInv, ScanInv, Finish, Countable
  PROVE  ScanInv'
  <1> SUFFICES ASSUME site' = "pre_conversion_check", ~ ferror', ~ output_stream'.err PROVE ScanInv'
    BY DEF ScanInv, Finish
  <1>1. /\ pc = "finish" /\ pc' = "done" /\ UNCHANGED <<callVars, inVars, encoding_layout, pulled>>
        /\ report' = [report EXCEPT !.has_final_eol = FinalEol,
                                    !.error_during_conversion = output_stream'.err \/ ReadFailed]
        /\ output_stream' = flush_buffer(IF EolIsMissing THEN push_newline(output_stream)
                                         ELSE output_stream)
    BY DEF Finish
  <1>2. ~ ferror /\ site = "pre_conversion_check"
    BY <1>1 DEF callVars, inVars
  <1>3. p' = p /\ Text' = Text
    BY <1>1, Parameters
  <1>4. Done' = Done
    BY <1>1 DEF Done, Consumed, BytesPerCodePoint, inVars
  <1>5. report'.contains_non_text_chars = report.contains_non_text_chars
    BY <1>1 DEF StreamInv, LoopInv, Reports
  <1>6. ~ output_stream.err
    <2>1. ~ EolIsMissing
      BY <1>2, ScanParameters DEF EolIsMissing, StreamInv
    <2> QED
      BY <1>1, <2>1, ErrorStays
  <1>7. (Interrupted' <=> Interrupted) /\ ForeignMet(Done)' = ForeignMet(Done)
    BY <1>3, <1>4, <1>5 DEF Interrupted, ForeignMet
  <1> QED
    BY <1>1, <1>2, <1>3, <1>4, <1>6, <1>7 DEF ScanInv

LEMMA ScanInit == Init => ScanInv
  <1> SUFFICES ASSUME Init, site = "pre_conversion_check" PROVE ScanInv
    BY DEF ScanInv
  <1>1. pc = "setup" /\ pulled = <<>> /\ position = 0
        /\ input_stream = [buffer |-> <<>>, buf_ptr |-> BUFFERSIZE, eof |-> FALSE]
        /\ report = init_report
    BY DEF Init
  <1>2. Consumed = 0 /\ Len(<<>>) = 0 /\ BytesPerCodePoint = 1
    BY <1>1, EmptySeq DEF Consumed, Init, BytesPerCodePoint
  <1>3. Done = 0
    BY <1>1, <1>2 DEF Done
  <1>4. ForeignMet(Done) = {}
    BY <1>3 DEF ForeignMet, Met
  <1>5. ~ Interrupted
    BY <1>1 DEF Interrupted, init_report
  <1> QED
    BY <1>1, <1>4, <1>5 DEF ScanInv

LEMMA ScanNext == StreamInv /\ ExactInv /\ ScanInv /\ [Next]_vars /\ Countable => ScanInv'
  <1> SUFFICES ASSUME StreamInv, ExactInv, ScanInv, [Next]_vars, Countable PROVE ScanInv'
    OBVIOUS
  <1>1. CASE UNCHANGED vars
    <2>1. UNCHANGED <<callVars, inVars, encoding_layout, pulled, report, output_stream, pc>>
      BY <1>1 DEF vars
    <2>2. p' = p /\ Text' = Text
      BY <2>1, Parameters
    <2>3. Done' = Done
      BY <2>1 DEF Done, Consumed, BytesPerCodePoint, inVars
    <2>4. (Interrupted' <=> Interrupted) /\ ForeignMet(Done)' = ForeignMet(Done)
      BY <2>1, <2>2, <2>3 DEF Interrupted, ForeignMet
    <2> QED
      BY <2>1, <2>3, <2>2, <2>4 DEF ScanInv, callVars, inVars
  <1>2. CASE Next
    BY <1>2, ReadScans, InterruptScans, MeetCRScans, MeetLFOfCRLFScans, MeetLoneLFScans,
       MeetRegularScans, FinishScans DEF Next
  <1> QED
    BY <1>1, <1>2

--------------------------------------------------------------------------------
(* Reports and texts, cut down to kinds.                                    *)

\* The endings the report has counted.
Counted == {c \in LineEndings : Count_(c) > 0}

LEMMA CountsCutDown ==
  ASSUME NEW counts \in Counts
  PROVE  [c \in LineEndings |-> SmallerOf(counts[c], 1)] =
           [c \in LineEndings |-> IF c \in {d \in LineEndings : counts[d] > 0} THEN 1 ELSE 0]
  <1> SUFFICES ASSUME NEW c \in LineEndings
               PROVE  SmallerOf(counts[c], 1) = IF counts[c] > 0 THEN 1 ELSE 0
    OBVIOUS
  <1>1. counts[c] \in Nat
    BY UintAssumption DEF Counts
  <1> QED
    BY <1>1 DEF SmallerOf

LEMMA SummaryIs ==
  ASSUME report \in Reports, ~ report.error_during_conversion
  PROVE  Summary(report) = report_of(report.contains_non_text_chars, report.has_final_eol, Counted)
  <1> DEFINE counts == report.count_by_convention
             cut    == [c \in LineEndings |-> SmallerOf(counts[c], 1)]
  <1>1. counts \in Counts /\ report.error_during_conversion = FALSE
    BY DEF Reports
  <1>2. cut = [c \in LineEndings |-> IF c \in Counted THEN 1 ELSE 0]
    BY <1>1, CountsCutDown DEF Counted, Count_
  <1>3. Summary(report) = [report EXCEPT !.count_by_convention = cut]
    BY DEF Summary
  <1>4. report = [error_during_conversion |-> report.error_during_conversion,
                  contains_non_text_chars |-> report.contains_non_text_chars,
                  has_final_eol           |-> report.has_final_eol,
                  count_by_convention     |-> counts]
    BY DEF Reports
  <1> HIDE DEF cut
  <1>5. [report EXCEPT !.count_by_convention = cut] =
          [error_during_conversion |-> report.error_during_conversion,
           contains_non_text_chars |-> report.contains_non_text_chars,
           has_final_eol           |-> report.has_final_eol,
           count_by_convention     |-> cut]
    BY <1>4
  <1> QED
    BY <1>1, <1>2, <1>3, <1>5 DEF report_of

\* Counted are the endings met in what was seen.
LEMMA CountedMet ==
  ASSUME StreamInv, SeenInv, Done \in Nat
  PROVE  Counted = {c \in LineEndings : Met(Text, Done, c) # {}}
  <1> SUFFICES ASSUME NEW c \in LineEndings PROVE Count_(c) > 0 <=> Met(Text, Done, c) # {}
    BY DEF Counted
  <1>1. Count_(c) = Cardinality(Met(Text, Done, c))
    BY DEF SeenInv, Seen_
  <1> QED
    BY <1>1, MetFinite

LEMMA MetIsThere ==
  ASSUME NEW text \in Seq(Nat), NEW k \in 0 .. Len(text), NEW c \in LineEndings,
         k = Len(text) \/ (k > 0 /\ text[k] # 13)
  PROVE  Met(text, k, c) \subseteq EndingsAt(text, c)
  <1>1. DOMAIN text = 1 .. Len(text) /\ Len(text) \in Nat
    BY LenProperties
  <1>2. CASE c \in {"LF", "CRLF"}
    BY <1>2, MetStays
  <1>3. CASE c = "CR"
    <2> SUFFICES ASSUME NEW i \in Met(text, k, c) PROVE i \in EndingsAt(text, c)
      OBVIOUS
    <2>1. i \in 1 .. k /\ text[i] = 13 /\ ~ (i < k /\ text[i + 1] = 10)
      BY <1>3 DEF Met
    <2>2. i < k \/ k = Len(text)
      <3>1. CASE i = k
        BY <2>1, <3>1
      <3>2. CASE i # k
        <4>1. k \in Nat
          <5>1. Len(text) \in Nat
            BY <1>1
          <5> QED
            BY <5>1
        <4>2. i \in Nat /\ i <= k
          <5>1. i \in 1 .. k
            BY <2>1
          <5> QED
            BY <4>1, <5>1
        <4> QED
          BY <3>2, <4>1, <4>2
      <3> QED
        BY <3>1, <3>2
    <2> QED
      BY <1>1, <1>3, <2>1, <2>2 DEF EndingsAt, PrecedesLF
  <1> QED
    BY <1>2, <1>3 DEF LineEndings

\* The report of a dry scan is one of scan_reports.
LEMMA ScanReport ==
  ASSUME StreamInv, ExactInv, ReturnInv, ScanInv, Returned, ~ report.error_during_conversion,
         site = "pre_conversion_check"
  PROVE  Summary(report) \in scan_reports(KindOf(Text), invocation)
  <1> DEFINE kind     == KindOf(Text)
             unwanted == IsUnwantedBinary(kind, invocation)
             foreign  == Foreign(kind, invocation)
             binary   == report.contains_non_text_chars
             eol      == report.has_final_eol
             endings  == {c \in LineEndings : EndingsAt(Text, c) # {}}
             at_a_LF  == {S \in SUBSET endings : \E c \in foreign : S \cap foreign = {c}}
  <1>1. ~ ferror /\ ~ output_stream.err /\ pc = "done"
    BY DEF ReturnInv, Returned
  <1>2. FrameInv /\ PlaceInv /\ SeenInv
    BY <1>1 DEF ExactInv
  <1>3. /\ invocation \in Invocation /\ invocation.dst_convention \in LineEndings
        /\ p.dst_convention = invocation.dst_convention
        /\ p.interrupt_if_non_text = ~ invocation.binaries /\ p.final_char_has_to_be_eol = FALSE
    BY ScanParameters DEF StreamInv
  <1>4. Text \in Seq(Nat) /\ Done \in 0 .. Len(Text)
    <2>1. Text \in Seq(Nat)
      BY InputSizes, TextFacts DEF Text
    <2>2. Done \in Nat /\ Done <= Len(Text)
      BY <1>1, <1>2, DoneInText
    <2> QED
      BY <2>1, <2>2, LenProperties
  <1>5. Summary(report) = report_of(binary, eol, Counted) /\ binary \in BOOLEAN /\ eol \in BOOLEAN
    BY SummaryIs DEF StreamInv, LoopInv, Reports
  <1>6. Counted = {c \in LineEndings : Met(Text, Done, c) # {}}
    BY <1>2, <1>4, CountedMet
  <1>7. eol <=> Done > 0 /\ Text[Done] \in {10, 13}
    BY <1>1, <1>2, <1>3 DEF ReturnInv, SeenInv
  <1>8. binary => HasNonText(Text)
    BY <1>2, <1>4, NonTextIsTheSame DEF SeenInv
  <1>9. /\ kind.endings = endings /\ kind.binary = HasNonText(Text) /\ kind.eol = EndsWithEol(Text)
        /\ unwanted <=> HasNonText(Text) /\ ~ invocation.binaries
        /\ foreign = (endings \cap {"LF", "CRLF"}) \ {invocation.dst_convention}
    BY DEF KindOf, IsUnwantedBinary, Foreign
  <1>10. ForeignMet(Done) \subseteq foreign
    BY <1>3, <1>4, <1>9, MetStays DEF ForeignMet, LineEndings
  <1>11. Done = Len(Text) \/ (Done > 0 /\ Text[Done] # 13) => Counted \subseteq endings
    BY <1>4, <1>6, MetIsThere
  <1>12. Counted \cap foreign = ForeignMet(Done)
    <2>1. ForeignMet(Done) \subseteq Counted
      BY <1>6 DEF ForeignMet, LineEndings
    <2>2. Counted \cap foreign \subseteq ForeignMet(Done)
      BY <1>3, <1>6, <1>9 DEF ForeignMet
    <2> QED
      BY <1>10, <2>1, <2>2
  <1>13. reports_of_a_part(kind, invocation) =
           {report_of(FALSE, TRUE, met) : met \in at_a_LF}
           \cup {report_of(kind.binary /\ ~ unwanted, TRUE, met) : met \in at_a_LF}
           \cup {report_of(TRUE, FALSE, met) : met \in {S \in SUBSET (endings \ foreign) : unwanted}}
    BY <1>9 DEF reports_of_a_part
  <1>14. scan_reports(kind, invocation) =
           IF foreign = {} /\ ~ unwanted THEN {report_of(kind.binary, kind.eol, kind.endings)}
           ELSE reports_of_a_part(kind, invocation)
    BY DEF scan_reports
  <1> HIDE DEF kind, unwanted, foreign, endings, at_a_LF, binary, eol
  <1>15. CASE Done = Len(Text) /\ ~ Interrupted /\ ForeignMet(Done) = {}
    <2>1. binary <=> HasNonText(Text)
      BY <1>2, <1>15, WholeText DEF binary
    <2>2. eol <=> EndsWithEol(Text)
      BY <1>4, <1>7, <1>15, EolIsTheSame
    <2>3. Counted = endings
      BY <1>4, <1>6, <1>15, MetAll DEF endings
    <2>4. foreign = {}
      BY <1>9, <1>12, <1>15, <2>3
    <2>5. ~ unwanted
      BY <1>3, <1>9, <1>15, <2>1 DEF Interrupted, binary
    <2>6. kind.binary = binary /\ kind.eol = eol
      BY <1>5, <1>9, <2>1, <2>2 DEF HasNonText, EndsWithEol
    <2> QED
      BY <1>5, <1>9, <1>14, <2>3, <2>4, <2>5, <2>6 DEF kind
  <1>16. CASE Interrupted /\ Done > 0 /\ is_non_text_code(Text[Done]) /\ ForeignMet(Done) = {}
    <2>1. Text[Done] \notin {10, 13}
      BY <1>16, LineEndsAreText
    <2>2. eol = FALSE /\ binary = TRUE
      BY <1>5, <1>7, <1>16, <2>1 DEF Interrupted, binary
    <2>3. unwanted
      BY <1>3, <1>8, <1>9, <1>16, <2>2 DEF Interrupted
    <2>4. Counted \in SUBSET (endings \ foreign)
      BY <1>11, <1>12, <1>16, <2>1
    <2> QED
      BY <1>5, <1>13, <1>14, <2>3, <2>2, <2>4 DEF kind
  <1>17. CASE /\ ~ Interrupted /\ Done > 0 /\ Text[Done] = 10 /\ \E c : ForeignMet(Done) = {c}
    <2>1. eol = TRUE
      BY <1>5, <1>7, <1>17
    <2>2. PICK c : ForeignMet(Done) = {c}
      BY <1>17
    <2>3. c \in foreign /\ Counted \cap foreign = {c}
      BY <1>10, <1>12, <2>2
    <2>4. Counted \in SUBSET endings
      BY <1>11, <1>17
    <2>5. Counted \in at_a_LF
      BY <2>3, <2>4 DEF at_a_LF
    <2>6. binary => invocation.binaries /\ kind.binary /\ ~ unwanted
      BY <1>3, <1>8, <1>9, <1>17 DEF Interrupted, binary, Invocation
    <2>7. binary = FALSE \/ binary = (kind.binary /\ ~ unwanted)
      BY <1>5, <2>6
    <2>8. scan_reports(kind, invocation) = reports_of_a_part(kind, invocation)
      BY <1>14, <2>3
    <2>9. report_of(binary, TRUE, Counted) \in reports_of_a_part(kind, invocation)
      BY <1>13, <2>5, <2>7
    <2> QED
      BY <1>5, <2>1, <2>8, <2>9 DEF kind
  <1> QED
    BY <1>1, <1>15, <1>16, <1>17 DEF ScanInv, kind

\* Nothing that a piece begins with gets lost.
LEMMA TranslationKeeps ==
  ASSUME NEW text \in Seq(Nat), NEW c \in LineEndings, NEW at \in 1 .. Len(text),
         Len(Piece(text, c, at)) > 0
  PROVE  \E j \in 1 .. Len(Translation(text, c)) : Translation(text, c)[j] = Piece(text, c, at)[1]
  <1> DEFINE n == Len(text)
             Keeps(k) == at <= k => \E j \in 1 .. Len(Translated(text, c, k)) :
                                      Translated(text, c, k)[j] = Piece(text, c, at)[1]
             T == {k \in 0 .. n : ~ Keeps(k)}
  <1>1. n \in Nat /\ at \in Nat /\ at >= 1 /\ at <= n /\ Translation(text, c) = Translated(text, c, n)
    BY LenProperties, TranslationIsJoined
  <1>2. ASSUME T # {} PROVE FALSE
    <2>1. T \in SUBSET Nat
      OBVIOUS
    <2>2. PICK k \in T : \A j \in T : k <= j
      BY <1>2, <2>1, Smallest
    <2>3. at <= k
      BY <2>2
    <2> DEFINE j == k - 1
               t == Translated(text, c, j)
               q == Piece(text, c, k)
    <2>4. j \in Nat /\ j + 1 = k /\ j \notin T /\ j \in 0 .. n /\ k \in 1 .. n /\ j < n
      <3>1. k \in 0 .. n
        BY <2>2
      <3>2. j \in Nat /\ j + 1 = k /\ j \in 0 .. n /\ k \in 1 .. n /\ j < n /\ ~ (k <= j)
        <4> HIDE DEF n
        <4> QED
          BY <1>1, <2>3, <3>1
      <3>3. j \notin T
        <4> HIDE DEF T, j
        <4> QED
          BY <2>2, <3>2
      <3> QED
        BY <3>2, <3>3
    <2>5. Keeps(j)
      BY <2>4
    <2>6. t \in Seq(Nat) /\ Translated(text, c, k) = t \o q
      <3> HIDE DEF j
      <3>1. /\ Translated(text, c, j) \in Seq(Nat)
            /\ Translated(text, c, j + 1) = Translated(text, c, j) \o Piece(text, c, j + 1)
        BY <2>4, TranslatedMore
      <3> QED
        BY <2>4, <3>1
    <2>7. q \in Seq(Nat)
      BY <2>4, PieceStarts
    <2>8. /\ Len(t) \in Nat /\ Len(q) \in Nat /\ Len(t \o q) = Len(t) + Len(q)
          /\ \A i \in 1 .. Len(t) + Len(q) : (t \o q)[i] = IF i <= Len(t) THEN t[i] ELSE q[i - Len(t)]
      BY <2>6, <2>7, ConcatAt, LenProperties
    <2>9. at <= j => \E i \in 1 .. Len(t) : t[i] = Piece(text, c, at)[1]
      BY <2>5
    <2>10. at <= j \/ at = k
      BY <1>1, <2>3, <2>4
    <2> HIDE DEF t, q, j
    <2>11. \E i \in 1 .. Len(t) + Len(q) : (t \o q)[i] = Piece(text, c, at)[1]
      <3>1. CASE at <= j
        <4>1. PICK i \in 1 .. Len(t) : t[i] = Piece(text, c, at)[1]
          BY <2>9, <3>1
        <4>2. i \in 1 .. Len(t) + Len(q) /\ i <= Len(t)
          BY <2>8
        <4> QED
          BY <2>8, <4>1, <4>2
      <3>2. CASE at = k
        <4> DEFINE i == Len(t) + 1
        <4>1. q = Piece(text, c, at) /\ Len(q) > 0
          BY <3>2 DEF q
        <4>2. i \in 1 .. Len(t) + Len(q) /\ ~ (i <= Len(t)) /\ i - Len(t) = 1
          BY <2>8, <4>1
        <4> HIDE DEF i
        <4> QED
          BY <2>8, <4>1, <4>2
      <3> QED
        BY <2>10, <3>1, <3>2
    <2>12. \E i \in 1 .. Len(Translated(text, c, k)) :
             Translated(text, c, k)[i] = Piece(text, c, at)[1]
      BY <2>6, <2>8, <2>11
    <2> QED
      BY <2>2, <2>12
  <1>3. n \notin T
    <2> HIDE DEF T
    <2> QED
      BY <1>2
  <1>4. Keeps(n)
    BY <1>1, <1>3
  <1> QED
    BY <1>1, <1>4

\* What the translation holds, what is sent holds.
LEMMA FinalHolds ==
  ASSUME NEW text \in Seq(Nat), NEW c \in LineEndings, NEW ended,
         NEW j \in 1 .. Len(Translation(text, c))
  PROVE  \E i \in 1 .. Len(Final(text, c, ended)) : Final(text, c, ended)[i] = Translation(text, c)[j]
  <1> DEFINE tr == Translation(text, c)
             nl == Newline(c)
             t  == Final(text, c, ended)
  <1>1. tr \in Seq(Nat) /\ nl \in Seq(Nat) /\ j \in 1 .. Len(tr)
    BY WrittenEnds, NewlineType
  <1>2. t = tr \/ t = tr \o nl
    BY DEF Final, WithFinalEol
  <1> HIDE DEF tr, nl, t
  <1>3. CASE t = tr \o nl
    <2>1. /\ Len(tr) \in Nat /\ Len(nl) \in Nat /\ Len(t) = Len(tr) + Len(nl)
          /\ \A i \in 1 .. Len(tr) + Len(nl) : t[i] = IF i <= Len(tr) THEN tr[i] ELSE nl[i - Len(tr)]
      BY <1>1, <1>3, ConcatAt, LenProperties
    <2>2. j \in 1 .. Len(tr) + Len(nl) /\ j <= Len(tr)
      BY <1>1, <2>1
    <2>3. j \in 1 .. Len(t) /\ t[j] = tr[j]
      BY <2>1, <2>2
    <2> QED
      BY <2>3 DEF t, tr
  <1>4. CASE t = tr
    BY <1>1, <1>4 DEF t, tr
  <1> QED
    BY <1>2, <1>3, <1>4

LEMMA FinalKeepsNonText ==
  ASSUME NEW text \in Seq(Nat), NEW c \in LineEndings, NEW ended, HasNonText(text)
  PROVE  HasNonText(Final(text, c, ended))
  <1>1. PICK i \in 1 .. Len(text) : is_non_text_code(text[i])
    BY NonTextIsTheSame
  <1>2. text[i] \notin {10, 13}
    BY <1>1, LineEndsAreText
  <1>3. Piece(text, c, i) = <<text[i]>>
    BY <1>2, PieceIs
  <1>4. Len(Piece(text, c, i)) = 1 /\ Piece(text, c, i)[1] = text[i]
    BY <1>3
  <1>5. PICK j \in 1 .. Len(Translation(text, c)) : Translation(text, c)[j] = text[i]
    <2>1. Len(Piece(text, c, i)) > 0
      BY <1>4
    <2> QED
      BY <1>4, <2>1, TranslationKeeps
  <1>6. PICK k \in 1 .. Len(Final(text, c, ended)) : Final(text, c, ended)[k] = Translation(text, c)[j]
    BY FinalHolds
  <1>7. Final(text, c, ended) \in Seq(Nat)
    BY FinalStarts
  <1> QED
    BY <1>1, <1>5, <1>6, <1>7, NonTextIsTheSame

LEMMA EolsAreEndings ==
  ASSUME NEW text \in Seq(Nat)
  PROVE  (\E d \in LineEndings : EndingsAt(text, d) # {}) <=> \E i \in 1 .. Len(text) : text[i] \in {10, 13}
  <1>1. DOMAIN text = 1 .. Len(text) /\ Len(text) \in Nat
    BY LenProperties
  <1>2. ASSUME NEW d \in LineEndings, NEW i \in EndingsAt(text, d)
        PROVE  i \in 1 .. Len(text) /\ text[i] \in {10, 13}
    BY <1>1, <1>2 DEF EndingsAt, LineEndings
  <1>3. ASSUME NEW i \in 1 .. Len(text), text[i] = 10
        PROVE  \E d \in LineEndings : EndingsAt(text, d) # {}
    <2>1. i \in EndingsAt(text, "CRLF") \/ i \in EndingsAt(text, "LF")
      BY <1>1, <1>3 DEF EndingsAt
    <2> QED
      BY <2>1 DEF LineEndings
  <1>4. ASSUME NEW i \in 1 .. Len(text), text[i] = 13
        PROVE  \E d \in LineEndings : EndingsAt(text, d) # {}
    <2>1. CASE PrecedesLF(text, i)
      <3>1. i + 1 \in 1 .. Len(text) /\ text[i + 1] = 10
        BY <1>1, <2>1 DEF PrecedesLF
      <3> QED
        BY <1>3, <3>1
    <2>2. CASE ~ PrecedesLF(text, i)
      <3>1. i \in EndingsAt(text, "CR")
        BY <1>1, <1>4, <2>2 DEF EndingsAt
      <3> QED
        BY <3>1 DEF LineEndings
    <2> QED
      BY <2>1, <2>2
  <1> QED
    BY <1>2, <1>3, <1>4

\* A text without line ends is its own translation.
LEMMA OneLineStays ==
  ASSUME NEW text \in Seq(Nat), NEW c \in LineEndings, \A i \in 1 .. Len(text) : text[i] \notin {10, 13}
  PROVE  Translation(text, c) = text
  <1> DEFINE n == Len(text)
             F == Pieces(text, c)
  <1>1. n \in Nat /\ Translation(text, c) = Joined(F, n)
    BY LenProperties, TranslationIsJoined DEF Translated
  <1>2. \A i \in 1 .. n : F[i] \in Seq(Nat) /\ Len(F[i]) = 1 /\ F[i][1] = text[i]
    <2> SUFFICES ASSUME NEW i \in 1 .. n PROVE F[i] \in Seq(Nat) /\ Len(F[i]) = 1 /\ F[i][1] = text[i]
      OBVIOUS
    <2>1. F[i] = Piece(text, c, i) /\ F[i] \in Seq(Nat)
      BY PiecesType
    <2>2. Piece(text, c, i) = <<text[i]>>
      BY PieceIs
    <2> HIDE DEF F
    <2> QED
      BY <2>1, <2>2
  <1> HIDE DEF F
  <1>3. Joined(F, n) \in Seq(Nat) /\ Len(Joined(F, n)) = n /\ \A i \in 1 .. n : Joined(F, n)[i] = F[i][1]
    BY <1>1, <1>2, JoinedOnes
  <1>4. Joined(F, n) = text
    BY <1>2, <1>3, SeqEqual
  <1> QED
    BY <1>1, <1>4

\* Whether what is sent has line ends.
LEMMA FinalEols ==
  ASSUME NEW text \in Seq(Nat), NEW c \in LineEndings, NEW ended \in BOOLEAN
  PROVE  LET t == Final(text, c, ended)
         IN  (\E i \in 1 .. Len(t) : t[i] \in {10, 13}) <=>
               (\E d \in LineEndings : EndingsAt(text, d) # {}) \/ (ended /\ ~ EndsWithEol(text))
  <1> DEFINE t == Final(text, c, ended)
             eols == \E i \in 1 .. Len(t) : t[i] \in {10, 13}
  <1>1. t \in Seq(Nat)
    BY FinalStarts
  <1>2. EndsWithEol(t) => eols
    <2> HIDE DEF t
    <2> SUFFICES ASSUME EndsWithEol(t) PROVE Len(t) \in 1 .. Len(t) /\ t[Len(t)] \in {10, 13}
      OBVIOUS
    <2>1. Len(t) > 0 /\ t[Len(t)] \in {10, 13} /\ Len(t) \in Nat
      BY <1>1, EolIsTheSame, LenProperties
    <2> QED
      BY <2>1
  <1>3. ended => eols
    BY <1>2, FinalEnds
  <1>4. ASSUME NEW d \in LineEndings, NEW i \in EndingsAt(text, d) PROVE eols
    <2>1. i \in 1 .. Len(text) /\ (text[i] = 10 \/ (text[i] = 13 /\ ~ PrecedesLF(text, i)))
      BY LenProperties DEF EndingsAt, LineEndings
    <2>2. Piece(text, c, i) = Newline(c)
      BY <2>1, PieceIs
    <2>3. Len(Newline(c)) > 0 /\ Newline(c)[1] \in {10, 13}
      BY NewlineStarts DEF IsEol
    <2>4. PICK j \in 1 .. Len(Translation(text, c)) : Translation(text, c)[j] = Newline(c)[1]
      BY <2>1, <2>3, <2>2, TranslationKeeps
    <2>5. PICK k \in 1 .. Len(t) : t[k] = Translation(text, c)[j]
      BY FinalHolds
    <2> QED
      BY <2>3, <2>4, <2>5
  <1>5. ASSUME ~ (\E d \in LineEndings : EndingsAt(text, d) # {}), ~ (ended /\ ~ EndsWithEol(text))
        PROVE  ~ eols
    <2>1. \A i \in 1 .. Len(text) : text[i] \notin {10, 13}
      BY <1>5, EolsAreEndings
    <2>2. Translation(text, c) = text
      BY <2>1, OneLineStays
    <2>3. ~ EndsWithEol(text)
      <3>1. Len(text) \in Nat /\ (Len(text) > 0 => Len(text) \in 1 .. Len(text))
        BY LenProperties
      <3> QED
        BY <2>1, <3>1, EolIsTheSame
    <2>4. t = text
      BY <1>5, <2>2, <2>3 DEF Final
    <2> QED
      BY <2>1, <2>4
  <1> QED
    BY <1>3, <1>4, <1>5

LEMMA KindReplaced ==
  ASSUME NEW endings, NEW binary, NEW eol, NEW endings_, NEW eol_
  PROVE  [[endings |-> endings, binary |-> binary, eol |-> eol] EXCEPT !.endings = endings_, !.eol = eol_] =
           [endings |-> endings_, binary |-> binary, eol |-> eol_]
  <1> DEFINE names == {"endings", "binary", "eol"}
             kind  == [endings |-> endings, binary |-> binary, eol |-> eol]
             s     == [kind EXCEPT !.endings = endings_, !.eol = eol_]
             t     == [endings |-> endings_, binary |-> binary, eol |-> eol_]
  <1>1. s.endings = endings_ /\ s.eol = eol_ /\ s.binary = binary
    OBVIOUS
  <1>2. t.endings = endings_ /\ t.eol = eol_ /\ t.binary = binary
    OBVIOUS
  <1>3. s = [x \in names |-> s[x]]
    OBVIOUS
  <1>4. t = [x \in names |-> t[x]]
    OBVIOUS
  <1> HIDE DEF s, t
  <1>5. \A x \in names : s[x] = t[x]
    BY <1>1, <1>2
  <1> HIDE DEF names
  <1>6. s = t
    BY <1>3, <1>4, <1>5
  <1> QED
    BY <1>6 DEF s, t

\* What a conversion has sent is what converted makes of the kind of its input.
LEMMA FinalKind ==
  ASSUME NEW text \in Seq(Nat), NEW inv \in Invocation, inv.dst_convention \in LineEndings
  PROVE  KindOf(Final(text, inv.dst_convention, inv.final_char_has_to_be_eol)) =
           converted(KindOf(text), inv)
  <1> DEFINE c     == inv.dst_convention
             ended == inv.final_char_has_to_be_eol
             t     == Final(text, c, ended)
             endings(s) == {d \in LineEndings : EndingsAt(s, d) # {}}
             adds  == ended /\ ~ EndsWithEol(text)
  <1>1. ended \in BOOLEAN /\ t \in Seq(Nat)
    BY FinalStarts DEF Invocation
  <1>2. HasNonText(t) <=> HasNonText(text)
    BY FinalAddsNoNonText, FinalKeepsNonText
  <1>3. EndsWithEol(t) <=> EndsWithEol(text) \/ adds
    BY <1>1, FinalEnds
  <1>4. (\E i \in 1 .. Len(t) : t[i] \in {10, 13}) <=> endings(text) # {} \/ adds
    BY <1>1, FinalEols
  <1>5. /\ \A d \in LineEndings \ {c} : EndingsAt(t, d) = {}
        /\ EndingsAt(t, c) # {} <=> \E i \in 1 .. Len(t) : t[i] \in {10, 13}
    BY <1>1, FinalUnmixed, UnmixedEndings
  <1> HIDE DEF t
  <1>6. endings(t) = IF endings(text) # {} \/ adds THEN {c} ELSE {}
    <2>1. CASE endings(text) # {} \/ adds
      BY <1>4, <1>5, <2>1
    <2>2. CASE ~ (endings(text) # {} \/ adds)
      BY <1>4, <1>5, <2>2
    <2> QED
      BY <2>1, <2>2
  <1>7. /\ HasNonText(t) = HasNonText(text)
        /\ EndsWithEol(t) = (EndsWithEol(text) \/ adds)
    BY <1>2, <1>3 DEF HasNonText, EndsWithEol
  <1>8. KindOf(t) = [endings |-> IF endings(text) # {} \/ adds THEN {c} ELSE {},
                     binary  |-> HasNonText(text),
                     eol     |-> EndsWithEol(text) \/ adds]
    BY <1>6, <1>7 DEF KindOf
  <1>9. KindOf(text) = [endings |-> endings(text), binary |-> HasNonText(text),
                        eol |-> EndsWithEol(text)]
    BY DEF KindOf
  <1>10. converted(KindOf(text), inv) =
           [endings |-> IF endings(text) # {} \/ adds THEN {c} ELSE {},
            binary  |-> HasNonText(text),
            eol     |-> EndsWithEol(text) \/ adds]
    <2> DEFINE kind     == KindOf(text)
               e        == endings(text)
               e2       == IF e # {} \/ adds THEN {c} ELSE {}
               l        == EndsWithEol(text)
               b        == HasNonText(text)
               l2       == l \/ adds
    <2>1. kind.endings = e /\ kind.eol = l
      BY <1>9
    <2>2. converted(kind, inv) = [kind EXCEPT !.endings = e2, !.eol = l2]
      BY <2>1 DEF converted
    <2>3. kind = [endings |-> e, binary |-> b, eol |-> l]
      BY <1>9
    <2> HIDE DEF e, e2, l, b, l2, kind
    <2>4. converted(kind, inv) = [endings |-> e2, binary |-> b, eol |-> l2]
      BY <2>2, <2>3, KindReplaced
    <2> QED
      BY <2>4 DEF e, e2, l, b, l2, kind
  <1> QED
    BY <1>8, <1>10 DEF t

\* A control character that is reported is there.
LEMMA ReportedIsThere ==
  ASSUME StreamInv, ExactInv, ReturnInv, Returned, ~ report.error_during_conversion,
         report.contains_non_text_chars
  PROVE  HasNonText(Text)
  <1>1. ~ ferror /\ pc = "done"
    BY DEF ReturnInv, Returned
  <1>2. FrameInv /\ PlaceInv /\ SeenInv
    BY <1>1 DEF ExactInv
  <1>3. Text \in Seq(Nat)
    BY InputSizes, TextFacts DEF Text
  <1>4. Done \in Nat /\ Done <= Len(Text) /\ Len(Text) \in Nat
    BY <1>1, <1>2, <1>3, DoneInText, LenProperties
  <1>5. PICK i \in 1 .. Done : is_non_text_code(Text[i])
    BY <1>2 DEF SeenInv
  <1>6. i \in 1 .. Len(Text)
    BY <1>4
  <1> QED
    BY <1>3, <1>5, <1>6, NonTextIsTheSame

LEMMA CheckReport ==
  ASSUME StreamInv, ExactInv, ReturnInv, Returned, ~ report.error_during_conversion,
         site = "check_one_file"
  PROVE  LET kind == KindOf(Text)
         IN  \/ IsUnwantedBinary(kind, invocation) /\ report.contains_non_text_chars
             \/ Summary(report) = report_of(kind.binary, kind.eol, kind.endings)
  <1> DEFINE kind == KindOf(Text)
  <1>1. kind.binary = HasNonText(Text) /\ kind.eol = EndsWithEol(Text)
        /\ kind.endings = {c \in LineEndings : EndingsAt(Text, c) # {}}
    BY DEF KindOf
  <1>2. p.interrupt_if_non_text = ~ invocation.binaries /\ p.final_char_has_to_be_eol = FALSE
    BY DEF p, CheckParameters
  <1>3. CASE Interrupted
    <2>1. report.contains_non_text_chars /\ ~ invocation.binaries
      BY <1>2, <1>3 DEF Interrupted
    <2>2. HasNonText(Text)
      BY <2>1, ReportedIsThere
    <2>3. IsUnwantedBinary(kind, invocation)
      BY <1>1, <2>1, <2>2 DEF IsUnwantedBinary
    <2> QED
      BY <2>1, <2>3
  <1>4. CASE ~ Interrupted
    <2>1. Accepted
      BY <1>4 DEF Accepted, Interrupted
    <2>2. /\ \A c \in LineEndings : Count_(c) = Cardinality(EndingsAt(Text, c))
          /\ report.contains_non_text_chars = HasNonText(Text)
          /\ report.has_final_eol = (EndsWithEol(Text) \/ FALSE)
      BY <1>2, <2>1, ReportFollows DEF ReportIsExact, Count_
    <2>3. report.has_final_eol = EndsWithEol(Text)
      BY <2>2 DEF EndsWithEol
    <2>4. \A c \in LineEndings : Count_(c) > 0 <=> EndingsAt(Text, c) # {}
      <3> SUFFICES ASSUME NEW c \in LineEndings PROVE Count_(c) > 0 <=> EndingsAt(Text, c) # {}
        OBVIOUS
      <3>1. Text \in Seq(Nat)
        BY InputSizes, TextFacts DEF Text
      <3>2. Met(Text, Len(Text), c) = EndingsAt(Text, c) /\ Len(Text) \in Nat
        BY <3>1, MetAll, LenProperties
      <3>3. Cardinality(EndingsAt(Text, c)) \in Nat
            /\ (Cardinality(EndingsAt(Text, c)) = 0 <=> EndingsAt(Text, c) = {})
        BY <3>2, MetFinite
      <3> QED
        BY <2>2, <3>3
    <2>5. Counted = kind.endings
      BY <1>1, <2>4 DEF Counted
    <2>6. Summary(report) = report_of(report.contains_non_text_chars, report.has_final_eol, Counted)
      BY SummaryIs DEF StreamInv, LoopInv
    <2> HIDE DEF kind
    <2>7. Summary(report) = report_of(kind.binary, kind.eol, kind.endings)
      BY <1>1, <2>2, <2>3, <2>5, <2>6
    <2> QED
      BY <2>7 DEF kind
  <1> QED
    BY <1>3, <1>4

LEMMA ConvertOutcome ==
  ASSUME StreamInv, ExactInv, ReturnInv, SentInv, Returned, ~ report.error_during_conversion,
         site = "convert_one_file"
  PROVE  LET kind == KindOf(Text)
         IN  IF IsUnwantedBinary(kind, invocation)
             THEN report.contains_non_text_chars
             ELSE KindOf(TextOf(output_stream.sink)) = converted(kind, invocation)
  <1> DEFINE kind == KindOf(Text)
  <1>1. kind.binary = HasNonText(Text)
    BY DEF KindOf
  <1>2. p.interrupt_if_non_text = ~ invocation.binaries
    BY DEF p, ConvertParameters
  <1>3. CASE Interrupted
    <2>1. report.contains_non_text_chars /\ ~ invocation.binaries
      BY <1>2, <1>3 DEF Interrupted
    <2>2. IsUnwantedBinary(kind, invocation)
      BY <1>1, <2>1, ReportedIsThere DEF IsUnwantedBinary
    <2> QED
      BY <2>1, <2>2
  <1>4. CASE ~ Interrupted
    <2>1. Accepted
      BY <1>4 DEF Accepted, Interrupted
    <2>2. /\ Text \in Seq(Nat) /\ invocation \in Invocation /\ invocation.dst_convention \in LineEndings
          /\ TextOf(output_stream.sink) =
               Final(Text, invocation.dst_convention, invocation.final_char_has_to_be_eol)
          /\ HasNonText(Text) => invocation.binaries
      BY <2>1, SinkRead
    <2>3. ~ IsUnwantedBinary(kind, invocation)
      BY <1>1, <2>2 DEF IsUnwantedBinary
    <2>4. KindOf(TextOf(output_stream.sink)) = converted(kind, invocation)
      BY <2>2, FinalKind
    <2> QED
      BY <2>3, <2>4
  <1> QED
    BY <1>3, <1>4

LEMMA AbstractionFollows == StreamInv /\ ExactInv /\ ReturnInv /\ SentInv /\ ScanInv => AbstractionIsExact
  BY ScanReport, ConvertOutcome, CheckReport DEF AbstractionIsExact

\* What the models of one file and of directories take a call for is what it does: wherever
\* the dry scan stops, its report is one of scan_reports; a conversion makes of the file what
\* converted says; a check reports what is there.  For every countable input and every buffer.
THEOREM AbstractionAlwaysExact ==
  ASSUME Countable
  PROVE  Spec => []AbstractionIsExact
  <1>1. Init => StreamInv /\ ExactInv /\ ReturnInv /\ SentInv /\ ScanInv
    BY StreamInit, ExactInit, SentInit, ScanInit DEF Init, ReturnInv
  <1>2. /\ StreamInv /\ ExactInv /\ ReturnInv /\ SentInv /\ ScanInv /\ [Next]_vars
        => (StreamInv /\ ExactInv /\ ReturnInv /\ SentInv /\ ScanInv)'
    BY StreamNext, ExactNext, ReturnNext, SentNext, ScanNext
  <1> QED
    BY <1>1, <1>2, AbstractionFollows, PTL DEF Spec
================================================================================
