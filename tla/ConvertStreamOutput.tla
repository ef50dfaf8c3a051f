--------------------------- MODULE ConvertStreamOutput ---------------------------
(***************************************************************************)
(* Proofs about what convert_stream writes.                                 *)
(***************************************************************************)
EXTENDS ConvertStreamProofs, WellFoundedInduction

--------------------------------------------------------------------------------
(* Sequences put together from pieces.                                      *)

Below == {x \in Nat \X Nat : x[1] < x[2]}

LEMMA Smallest ==
  ASSUME NEW T \in SUBSET Nat, T # {}
  PROVE  \E n \in T : \A m \in T : n <= m
  <1>1. IsWellFoundedOn(OpToRel(<, Nat), Nat)
    BY NatLessThanWellFounded
  <1>2. OpToRel(<, Nat) = Below
    BY DEF OpToRel, Below
  <1>3. PICK n \in T : \A m \in T : <<m, n>> \notin Below
    BY <1>1, <1>2, WFMin
  <1>4. \A m \in T : <<m, n>> \in Below <=> m < n
    BY DEF Below
  <1>5. \A m \in T : ~ (m < n)
    BY <1>3, <1>4
  <1>6. n \in Nat /\ \A m \in T : m \in Nat
    OBVIOUS
  <1>7. \A m \in T : n <= m
    BY <1>5, <1>6
  <1> QED
    BY <1>7

\* The function that FlattenSeq takes its value from.
IsFlat(f, s, n) == f = [i \in 1 .. n |-> IF i = 1 THEN s[i] ELSE f[i - 1] \o s[i]]

LEMMA FlatExists ==
  ASSUME NEW s, NEW n \in Nat
  PROVE  \E f : IsFlat(f, s, n)
  <1> DEFINE T == {m \in 0 .. n : ~ \E f : IsFlat(f, s, m)}
  <1> SUFFICES ASSUME T # {} PROVE FALSE
    OBVIOUS
  <1>0. T \in SUBSET Nat
    OBVIOUS
  <1>1. PICK m \in T : \A j \in T : m <= j
    BY <1>0, Smallest
  <1>2. CASE m = 0
    <2> DEFINE f == [i \in 1 .. 0 |-> 0]
    <2>1. IsFlat(f, s, 0)
      BY DEF IsFlat
    <2> QED
      BY <1>2, <2>1
  <1>3. CASE m # 0
    <2>1. m - 1 \in 0 .. n /\ m - 1 \notin T /\ m \in Nat
      BY <1>1, <1>3
    <2>2. PICK f : IsFlat(f, s, m - 1)
      BY <2>1
    <2> DEFINE last == IF m = 1 THEN s[m] ELSE f[m - 1] \o s[m]
               g    == [i \in 1 .. m |-> IF i = m THEN last ELSE f[i]]
    <2>3. \A i \in 1 .. m - 1 : f[i] = IF i = 1 THEN s[i] ELSE f[i - 1] \o s[i]
      BY <2>2 DEF IsFlat
    <2>4. \A i \in 1 .. m : g[i] = IF i = 1 THEN s[i] ELSE g[i - 1] \o s[i]
      <3> SUFFICES ASSUME NEW i \in 1 .. m PROVE g[i] = IF i = 1 THEN s[i] ELSE g[i - 1] \o s[i]
        OBVIOUS
      <3>1. CASE i = m
        <4>1. g[i] = last
          BY <3>1
        <4>2. i # 1 => g[i - 1] = f[m - 1]
          BY <2>1, <3>1
        <4> QED
          BY <3>1, <4>1, <4>2
      <3>2. CASE i # m
        <4>1. i \in 1 .. m - 1 /\ g[i] = f[i]
          BY <2>1, <3>2
        <4>2. i # 1 => g[i - 1] = f[i - 1]
          BY <2>1, <3>2
        <4> QED
          BY <2>3, <4>1, <4>2
      <3> QED
        BY <3>1, <3>2
    <2>5. g = [i \in 1 .. m |-> IF i = 1 THEN s[i] ELSE g[i - 1] \o s[i]]
      <3>1. g = [i \in 1 .. m |-> g[i]]
        OBVIOUS
      <3> HIDE DEF g
      <3> QED
        BY <2>4, <3>1
    <2>6. IsFlat(g, s, m)
      BY <2>5 DEF IsFlat
    <2> QED
      BY <2>6
  <1> QED
    BY <1>2, <1>3

LEMMA FlatAgree ==
  ASSUME NEW s, NEW t, NEW n \in Nat, NEW m \in Nat, NEW k \in Nat, k <= n, k <= m,
         NEW f, IsFlat(f, s, n), NEW g, IsFlat(g, t, m),
         \A i \in 1 .. k : s[i] = t[i]
  PROVE  \A i \in 1 .. k : f[i] = g[i]
  <1> DEFINE T == {i \in 1 .. k : f[i] # g[i]}
  <1> SUFFICES ASSUME T # {} PROVE FALSE
    OBVIOUS
  <1>1. T \in SUBSET Nat
    OBVIOUS
  <1>2. PICK i \in T : \A j \in T : i <= j
    BY <1>1, Smallest
  <1>3. i \in 1 .. n /\ i \in 1 .. m /\ i \in 1 .. k
    OBVIOUS
  <1>4. /\ f[i] = IF i = 1 THEN s[i] ELSE f[i - 1] \o s[i]
        /\ g[i] = IF i = 1 THEN t[i] ELSE g[i - 1] \o t[i]
    BY <1>3 DEF IsFlat
  <1>5. i # 1 => f[i - 1] = g[i - 1]
    <2>1. i # 1 => i - 1 \in 1 .. k /\ i - 1 \notin T
      BY <1>2, <1>3
    <2> QED
      BY <2>1
  <1>6. f[i] = g[i]
    BY <1>3, <1>4, <1>5
  <1> QED
    BY <1>6

LEMMA FlatValue ==
  ASSUME NEW s, Len(s) \in Nat, Len(s) # 0
  PROVE  \E f : IsFlat(f, s, Len(s)) /\ FlattenSeq(s) = f[Len(s)]
  <1> DEFINE f == CHOOSE flat : IsFlat(flat, s, Len(s))
  <1>1. IsFlat(f, s, Len(s))
    BY FlatExists
  <1>2. FlattenSeq(s) = f[Len(s)]
    BY DEF FlattenSeq, IsFlat
  <1> QED
    BY <1>1, <1>2

LEMMA FlattenNone ==
  ASSUME NEW s, Len(s) = 0
  PROVE  FlattenSeq(s) = s
  BY DEF FlattenSeq

LEMMA FlattenOne ==
  ASSUME NEW s, Len(s) = 1
  PROVE  FlattenSeq(s) = s[1]
  <1>1. Len(s) \in Nat /\ Len(s) # 0
    OBVIOUS
  <1>2. PICK f : IsFlat(f, s, Len(s)) /\ FlattenSeq(s) = f[Len(s)]
    BY <1>1, FlatValue
  <1>3. IsFlat(f, s, 1) /\ FlattenSeq(s) = f[1]
    BY <1>2
  <1>4. f[1] = s[1]
    BY <1>3 DEF IsFlat
  <1> QED
    BY <1>3, <1>4

\* One piece more at the end.
LEMMA FlattenMore ==
  ASSUME NEW s, NEW t, NEW n \in Nat, n # 0, Len(s) = n, Len(t) = n + 1,
         \A i \in 1 .. n : s[i] = t[i]
  PROVE  FlattenSeq(t) = FlattenSeq(s) \o t[n + 1]
  <1>1. PICK f : IsFlat(f, s, n) /\ FlattenSeq(s) = f[n]
    BY FlatValue
  <1>2. PICK g : IsFlat(g, t, n + 1) /\ FlattenSeq(t) = g[n + 1]
    BY FlatValue
  <1>3. \A i \in 1 .. n : f[i] = g[i]
    BY <1>1, <1>2, FlatAgree
  <1>4. g[n + 1] = g[(n + 1) - 1] \o t[n + 1]
    <2>1. \A i \in 1 .. n + 1 : g[i] = IF i = 1 THEN t[i] ELSE g[i - 1] \o t[i]
      BY <1>2 DEF IsFlat
    <2>2. n + 1 \in 1 .. n + 1 /\ n + 1 # 1
      OBVIOUS
    <2> QED
      BY <2>1, <2>2
  <1>5. (n + 1) - 1 = n /\ n \in 1 .. n
    OBVIOUS
  <1> QED
    BY <1>1, <1>2, <1>3, <1>4, <1>5

LEMMA FlattenType ==
  ASSUME NEW S, NEW s, NEW n \in Nat, n # 0, Len(s) = n, \A i \in 1 .. n : s[i] \in Seq(S)
  PROVE  FlattenSeq(s) \in Seq(S)
  <1>1. PICK f : IsFlat(f, s, n) /\ FlattenSeq(s) = f[n]
    BY FlatValue
  <1> DEFINE T == {i \in 1 .. n : f[i] \notin Seq(S)}
  <1>2. T \in SUBSET Nat
    OBVIOUS
  <1>3. ASSUME T # {} PROVE FALSE
    <2>1. PICK i \in T : \A j \in T : i <= j
      BY <1>2, <1>3, Smallest
    <2>2. i \in 1 .. n /\ (i # 1 => i - 1 \in 1 .. n /\ i - 1 \notin T)
      BY <2>1
    <2>3. f[i] = IF i = 1 THEN s[i] ELSE f[i - 1] \o s[i]
      BY <1>1, <2>2 DEF IsFlat
    <2>4. s[i] \in Seq(S) /\ (i # 1 => f[i - 1] \in Seq(S))
      BY <2>2
    <2>5. i # 1 => f[i - 1] \o s[i] \in Seq(S)
      BY <2>4, ConcatProperties
    <2>6. f[i] \in Seq(S)
      BY <2>3, <2>4, <2>5
    <2> QED
      BY <2>6
  <1> QED
    BY <1>1, <1>3

\* The first k of the pieces that a function gives, put together.
Joined(F, k) == FlattenSeq([i \in 1 .. k |-> F[i]])

LEMMA FirstPieces ==
  ASSUME NEW F, NEW k \in Nat
  PROVE  /\ Len([i \in 1 .. k |-> F[i]]) = k
         /\ \A i \in 1 .. k : [j \in 1 .. k |-> F[j]][i] = F[i]
  OBVIOUS

LEMMA JoinedNone ==
  ASSUME NEW F
  PROVE  Joined(F, 0) = <<>>
  <1> DEFINE none == [i \in 1 .. 0 |-> F[i]]
  <1>1. Len(none) = 0 /\ none = <<>>
    OBVIOUS
  <1> HIDE DEF none
  <1>2. FlattenSeq(none) = <<>>
    BY <1>1, FlattenNone
  <1> QED
    BY <1>2 DEF Joined, none

LEMMA JoinedMore ==
  ASSUME NEW S, NEW F, NEW k \in Nat, \A i \in 1 .. k + 1 : F[i] \in Seq(S)
  PROVE  /\ Joined(F, k) \in Seq(S) /\ Joined(F, k + 1) \in Seq(S)
         /\ Joined(F, k + 1) = Joined(F, k) \o F[k + 1]
  <1> DEFINE s == [i \in 1 .. k |-> F[i]]
             t == [i \in 1 .. k + 1 |-> F[i]]
  <1>1. /\ Len(s) = k /\ \A i \in 1 .. k : s[i] = F[i]
        /\ Len(t) = k + 1 /\ \A i \in 1 .. k + 1 : t[i] = F[i]
    BY FirstPieces
  <1>2. Joined(F, k) = FlattenSeq(s) /\ Joined(F, k + 1) = FlattenSeq(t)
    BY DEF Joined
  <1> HIDE DEF s, t
  <1>3. k + 1 \in Nat /\ k + 1 # 0 /\ F[k + 1] \in Seq(S) /\ t[k + 1] = F[k + 1]
    BY <1>1
  <1>4. FlattenSeq(t) \in Seq(S)
    BY <1>1, <1>3, FlattenType
  <1>5. CASE k = 0
    <2>1. Joined(F, k) = <<>>
      BY <1>5, JoinedNone
    <2>2. FlattenSeq(t) = F[k + 1]
      BY <1>1, <1>3, <1>5, FlattenOne
    <2>3. <<>> \in Seq(S) /\ <<>> \o F[k + 1] = F[k + 1]
      BY <1>3, EmptySeq, ConcatEmptySeq
    <2> QED
      BY <1>2, <1>4, <2>1, <2>2, <2>3
  <1>6. CASE k # 0
    <2>1. FlattenSeq(s) \in Seq(S)
      <3>1. \A i \in 1 .. k : s[i] \in Seq(S)
        BY <1>1
      <3> QED
        BY <1>1, <1>6, <3>1, FlattenType
    <2>2. \A i \in 1 .. k : s[i] = t[i]
      BY <1>1
    <2>3. FlattenSeq(t) = FlattenSeq(s) \o t[k + 1]
      BY <1>1, <1>6, <2>2, FlattenMore
    <2> QED
      BY <1>2, <1>3, <1>4, <2>1, <2>3
  <1> QED
    BY <1>5, <1>6

LEMMA JoinedSame ==
  ASSUME NEW F, NEW G, NEW k \in Nat, \A i \in 1 .. k : F[i] = G[i]
  PROVE  Joined(F, k) = Joined(G, k)
  <1>1. [i \in 1 .. k |-> F[i]] = [i \in 1 .. k |-> G[i]]
    OBVIOUS
  <1> QED
    BY <1>1 DEF Joined

--------------------------------------------------------------------------------
(* The bytes of a text.                                                     *)

Encoded(w, origin) ==
  IF IsUTF16LE(origin) THEN <<w % 256, w \div 256>>
  ELSE IF IsUTF16BE(origin) THEN <<w \div 256, w % 256>>
  ELSE <<w>>

EncodedText(text, origin) == [i \in DOMAIN text |-> Encoded(text[i], origin)]

LEMMA EncodedType ==
  ASSUME NEW w \in Nat, NEW origin
  PROVE  Encoded(w, origin) \in Seq(Nat)
  <1>1. w % 256 \in Nat /\ w \div 256 \in Nat
    OBVIOUS
  <1> QED
    BY <1>1 DEF Encoded

LEMMA BytesAreJoined ==
  ASSUME NEW text \in Seq(Nat), NEW origin
  PROVE  /\ BytesOf(text, origin) = Joined(EncodedText(text, origin), Len(text))
         /\ \A i \in 1 .. Len(text) : /\ EncodedText(text, origin)[i] = Encoded(text[i], origin)
                                     /\ EncodedText(text, origin)[i] \in Seq(Nat)
  <1>1. DOMAIN text = 1 .. Len(text) /\ \A i \in 1 .. Len(text) : text[i] \in Nat
    BY LenProperties, ElementOfSeq
  <1>2. \A i \in 1 .. Len(text) : EncodedText(text, origin)[i] = Encoded(text[i], origin)
    BY <1>1 DEF EncodedText
  <1>3. \A i \in 1 .. Len(text) : EncodedText(text, origin)[i] \in Seq(Nat)
    BY <1>1, <1>2, EncodedType
  <1>4. [i \in 1 .. Len(text) |-> EncodedText(text, origin)[i]] = EncodedText(text, origin)
    BY <1>1 DEF EncodedText
  <1>5. BytesOf(text, origin) = FlattenSeq(EncodedText(text, origin))
    BY DEF BytesOf, EncodedText, Encoded
  <1> QED
    BY <1>2, <1>3, <1>4, <1>5 DEF Joined

LEMMA BytesOfNone ==
  ASSUME NEW origin
  PROVE  BytesOf(<<>>, origin) = <<>>
  <1>1. <<>> \in Seq(Nat) /\ Len(<<>>) = 0
    BY EmptySeq
  <1> QED
    BY <1>1, BytesAreJoined, JoinedNone

LEMMA BytesOfMore ==
  ASSUME NEW text \in Seq(Nat), NEW w \in Nat, NEW origin
  PROVE  /\ BytesOf(text, origin) \in Seq(Nat)
         /\ BytesOf(Append(text, w), origin) \in Seq(Nat)
         /\ BytesOf(Append(text, w), origin) = BytesOf(text, origin) \o Encoded(w, origin)
  <1> DEFINE more == Append(text, w)
             n    == Len(text)
  <1>1. /\ more \in Seq(Nat) /\ Len(more) = n + 1 /\ n \in Nat
        /\ \A i \in 1 .. n : more[i] = text[i]
        /\ more[n + 1] = w
    BY AppendProperties, LenProperties
  <1> HIDE DEF more, n
  <1>2. /\ \A i \in 1 .. n + 1 : EncodedText(more, origin)[i] \in Seq(Nat)
        /\ EncodedText(more, origin)[n + 1] = Encoded(w, origin)
        /\ BytesOf(more, origin) = Joined(EncodedText(more, origin), n + 1)
    BY <1>1, BytesAreJoined
  <1>3. \A i \in 1 .. n : EncodedText(more, origin)[i] = EncodedText(text, origin)[i]
    <2>1. \A i \in 1 .. n : EncodedText(more, origin)[i] = Encoded(more[i], origin)
      BY <1>1, BytesAreJoined
    <2>2. \A i \in 1 .. n : EncodedText(text, origin)[i] = Encoded(text[i], origin)
      BY BytesAreJoined DEF n
    <2> QED
      BY <1>1, <2>1, <2>2
  <1>4. BytesOf(text, origin) = Joined(EncodedText(more, origin), n)
    BY <1>1, <1>3, BytesAreJoined, JoinedSame DEF n
  <1>5. /\ Joined(EncodedText(more, origin), n) \in Seq(Nat)
        /\ Joined(EncodedText(more, origin), n + 1) \in Seq(Nat)
        /\ Joined(EncodedText(more, origin), n + 1) =
              Joined(EncodedText(more, origin), n) \o EncodedText(more, origin)[n + 1]
    BY <1>1, <1>2, JoinedMore
  <1> QED
    BY <1>2, <1>4, <1>5 DEF more

--------------------------------------------------------------------------------
(* The translation of the first k code points.                              *)

Piece(text, c, i) ==
  IF \E d \in LineEndings : i \in EndingsAt(text, d) THEN Newline(c)
  ELSE IF text[i] = 13 THEN <<>>
  ELSE <<text[i]>>
Pieces(text, c) == [i \in DOMAIN text |-> Piece(text, c, i)]

Translated(text, c, k) == Joined(Pieces(text, c), k)

\* The loop writes a CRLF at its CR, the translation at its LF.
InsideCRLF(text, k) == k > 0 /\ k < Len(text) /\ text[k] = 13 /\ text[k + 1] = 10
Written(text, c, k) ==
  Translated(text, c, k) \o (IF InsideCRLF(text, k) THEN Newline(c) ELSE <<>>)

LEMMA NewlineType ==
  ASSUME NEW c \in LineEndings
  PROVE  Newline(c) \in Seq(Nat)
  BY DEF Newline, LineEndings

LEMMA PiecesType ==
  ASSUME NEW text \in Seq(Nat), NEW c \in LineEndings, NEW i \in 1 .. Len(text)
  PROVE  Pieces(text, c)[i] = Piece(text, c, i) /\ Pieces(text, c)[i] \in Seq(Nat)
  <1>1. DOMAIN text = 1 .. Len(text) /\ text[i] \in Nat
    BY LenProperties, ElementOfSeq
  <1>2. Pieces(text, c)[i] = Piece(text, c, i)
    BY <1>1 DEF Pieces
  <1>3. Newline(c) \in Seq(Nat) /\ <<>> \in Seq(Nat) /\ <<text[i]>> \in Seq(Nat)
    BY <1>1, NewlineType
  <1> QED
    BY <1>2, <1>3 DEF Piece

LEMMA TranslationIsJoined ==
  ASSUME NEW text \in Seq(Nat), NEW c \in LineEndings
  PROVE  Translation(text, c) = Translated(text, c, Len(text))
  <1>1. DOMAIN text = 1 .. Len(text)
    BY LenProperties
  <1>2. [i \in 1 .. Len(text) |-> Pieces(text, c)[i]] = Pieces(text, c)
    BY <1>1 DEF Pieces
  <1>3. Translation(text, c) = FlattenSeq(Pieces(text, c))
    BY DEF Translation, Pieces, Piece
  <1> QED
    BY <1>2, <1>3 DEF Translated, Joined

LEMMA TranslatedMore ==
  ASSUME NEW text \in Seq(Nat), NEW c \in LineEndings, NEW k \in Nat, k < Len(text)
  PROVE  /\ Translated(text, c, k) \in Seq(Nat) /\ Translated(text, c, k + 1) \in Seq(Nat)
         /\ Translated(text, c, k + 1) = Translated(text, c, k) \o Piece(text, c, k + 1)
  <1>1. Len(text) \in Nat
    BY LenProperties
  <1>2. \A i \in 1 .. k + 1 : i \in 1 .. Len(text)
    BY <1>1
  <1>3. \A i \in 1 .. k + 1 : Pieces(text, c)[i] \in Seq(Nat)
    BY <1>2, PiecesType
  <1>4. Pieces(text, c)[k + 1] = Piece(text, c, k + 1)
    BY <1>1, PiecesType
  <1> QED
    BY <1>3, <1>4, JoinedMore DEF Translated

LEMMA TranslatedNone ==
  ASSUME NEW text, NEW c
  PROVE  Translated(text, c, 0) = <<>>
  BY JoinedNone DEF Translated

LEMMA TranslatedType ==
  ASSUME NEW text \in Seq(Nat), NEW c \in LineEndings, NEW k \in 0 .. Len(text)
  PROVE  Translated(text, c, k) \in Seq(Nat)
  <1>1. Len(text) \in Nat
    BY LenProperties
  <1>2. CASE k = 0
    BY <1>2, TranslatedNone, EmptySeq
  <1>3. CASE k # 0
    <2>1. k - 1 \in Nat /\ k - 1 < Len(text) /\ (k - 1) + 1 = k
      BY <1>1, <1>3
    <2> QED
      BY <2>1, TranslatedMore
  <1> QED
    BY <1>2, <1>3

\* Where an ending ends.
LEMMA PieceIs ==
  ASSUME NEW text \in Seq(Nat), NEW c \in LineEndings, NEW i \in 1 .. Len(text)
  PROVE  Piece(text, c, i) = IF text[i] = 10 \/ (text[i] = 13 /\ ~ PrecedesLF(text, i)) THEN Newline(c)
                             ELSE IF text[i] = 13 THEN <<>>
                             ELSE <<text[i]>>
  <1>1. DOMAIN text = 1 .. Len(text)
    BY LenProperties
  <1>2. (\E d \in LineEndings : i \in EndingsAt(text, d)) <=>
          text[i] = 10 \/ (text[i] = 13 /\ ~ PrecedesLF(text, i))
    <2>1. (\E d \in LineEndings : i \in EndingsAt(text, d)) <=>
            \/ i \in EndingsAt(text, "CR") \/ i \in EndingsAt(text, "LF") \/ i \in EndingsAt(text, "CRLF")
      BY DEF LineEndings
    <2> QED
      BY <1>1, <2>1 DEF EndingsAt
  <1> QED
    BY <1>2 DEF Piece

LEMMA WrittenMore ==
  ASSUME NEW text \in Seq(Nat), NEW c \in LineEndings, NEW k \in Nat, k < Len(text)
  PROVE  /\ Written(text, c, k) \in Seq(Nat)
         /\ Written(text, c, k + 1) =
              Written(text, c, k) \o
                (IF text[k + 1] = 13 THEN Newline(c)
                 ELSE IF text[k + 1] # 10 THEN <<text[k + 1]>>
                 ELSE IF k > 0 /\ text[k] = 13 THEN <<>>
                 ELSE Newline(c))
  <1> DEFINE before == Translated(text, c, k)
             piece  == Piece(text, c, k + 1)
             nl     == Newline(c)
  <1>1. /\ before \in Seq(Nat) /\ Translated(text, c, k + 1) = before \o piece
        /\ nl \in Seq(Nat) /\ Len(text) \in Nat /\ before \o piece \in Seq(Nat)
    BY TranslatedMore, NewlineType, LenProperties
  <1>2. piece = IF text[k + 1] = 10 \/ (text[k + 1] = 13 /\ ~ PrecedesLF(text, k + 1)) THEN nl
                ELSE IF text[k + 1] = 13 THEN <<>>
                ELSE <<text[k + 1]>>
    BY <1>1, PieceIs
  <1>3. PrecedesLF(text, k + 1) <=> k + 1 < Len(text) /\ text[k + 2] = 10
    BY DEF PrecedesLF
  <1>4. /\ InsideCRLF(text, k) <=> k > 0 /\ text[k] = 13 /\ text[k + 1] = 10
        /\ InsideCRLF(text, k + 1) <=> k + 1 < Len(text) /\ text[k + 1] = 13 /\ text[k + 2] = 10
    BY <1>1 DEF InsideCRLF
  <1>5. /\ Written(text, c, k) = before \o (IF InsideCRLF(text, k) THEN nl ELSE <<>>)
        /\ Written(text, c, k + 1) = (before \o piece) \o (IF InsideCRLF(text, k + 1) THEN nl ELSE <<>>)
    BY <1>1 DEF Written
  <1>6. text[k + 1] \in Nat
    BY <1>1, ElementOfSeq
  <1> HIDE DEF before, piece, nl
  <1>7. /\ before \o <<>> = before /\ before \o nl \in Seq(Nat) /\ (before \o nl) \o <<>> = before \o nl
        /\ (before \o piece) \o <<>> = before \o piece
    BY <1>1, ConcatEmptySeq, ConcatProperties
  <1>8. Written(text, c, k) \in Seq(Nat)
    BY <1>1, <1>5, <1>7
  <1>9. CASE text[k + 1] = 13
    <2>1. Written(text, c, k) = before
      BY <1>4, <1>5, <1>7, <1>9
    <2>2. CASE InsideCRLF(text, k + 1)
      BY <1>2, <1>3, <1>4, <1>5, <1>7, <1>8, <1>9, <2>1, <2>2 DEF nl
    <2>3. CASE ~ InsideCRLF(text, k + 1)
      BY <1>2, <1>3, <1>4, <1>5, <1>7, <1>8, <1>9, <2>1, <2>3 DEF nl
    <2> QED
      BY <2>2, <2>3
  <1>10. CASE text[k + 1] \notin {10, 13}
    <2>1. Written(text, c, k) = before /\ piece = <<text[k + 1]>>
      BY <1>2, <1>4, <1>5, <1>7, <1>10
    <2>2. Written(text, c, k + 1) = before \o piece
      BY <1>4, <1>5, <1>7, <1>10
    <2> QED
      BY <1>8, <1>10, <2>1, <2>2
  <1>11. CASE text[k + 1] = 10 /\ k > 0 /\ text[k] = 13
    <2>1. Written(text, c, k) = before \o nl /\ piece = nl
      BY <1>2, <1>4, <1>5, <1>11
    <2>2. Written(text, c, k + 1) = before \o piece
      <3>1. text[k + 1] = 10
        BY <1>11
      <3>2. ~ InsideCRLF(text, k + 1)
        BY <1>4, <3>1
      <3> QED
        BY <1>5, <1>7, <3>2
    <2> QED
      BY <1>7, <1>8, <1>11, <2>1, <2>2
  <1>12. CASE text[k + 1] = 10 /\ ~ (k > 0 /\ text[k] = 13)
    <2>1. Written(text, c, k) = before /\ piece = nl
      BY <1>2, <1>4, <1>5, <1>7, <1>12
    <2>2. Written(text, c, k + 1) = before \o piece
      <3>1. text[k + 1] = 10
        BY <1>12
      <3>2. ~ InsideCRLF(text, k + 1)
        BY <1>4, <3>1
      <3> QED
        BY <1>5, <1>7, <3>2
    <2> QED
      BY <1>8, <1>12, <2>1, <2>2 DEF nl
  <1> QED
    BY <1>9, <1>10, <1>11, <1>12

LEMMA WrittenType ==
  ASSUME NEW text \in Seq(Nat), NEW c \in LineEndings, NEW k \in 0 .. Len(text)
  PROVE  Written(text, c, k) \in Seq(Nat)
  <1>1. Translated(text, c, k) \in Seq(Nat) /\ Newline(c) \in Seq(Nat) /\ <<>> \in Seq(Nat)
    BY TranslatedType, NewlineType, EmptySeq
  <1> QED
    BY <1>1, ConcatProperties DEF Written

LEMMA WrittenEnds ==
  ASSUME NEW text \in Seq(Nat), NEW c \in LineEndings
  PROVE  /\ Written(text, c, 0) = <<>>
         /\ Written(text, c, Len(text)) = Translation(text, c)
         /\ Translation(text, c) \in Seq(Nat)
  <1>1. Len(text) \in Nat /\ Len(text) \in 0 .. Len(text)
    BY LenProperties
  <1>2. Translated(text, c, Len(text)) \in Seq(Nat)
    BY <1>1, TranslatedType
  <1>3. ~ InsideCRLF(text, 0) /\ ~ InsideCRLF(text, Len(text))
    BY <1>1 DEF InsideCRLF
  <1>4. <<>> \in Seq(Nat)
    BY EmptySeq
  <1> QED
    BY <1>2, <1>3, <1>4, ConcatEmptySeq, TranslatedNone, TranslationIsJoined DEF Written

--------------------------------------------------------------------------------
(* What was pushed into an output stream: behind the buffer or still in it.  *)

Sent(o) == o.sink \o o.buffer

LEMMA SentType ==
  ASSUME NEW o, o \in Output
  PROVE  Sent(o) \in Seq(Byte) /\ Sent(o) \in Seq(Nat)
  <1>1. o.sink \in Seq(Byte) /\ o.buffer \in Seq(Byte)
    BY DEF Output
  <1>2. Sent(o) \in Seq(Byte)
    BY <1>1, ConcatProperties DEF Sent
  <1> QED
    BY <1>2, BytesAreNumbers, SeqMonotonic

\* A write that does not fall short takes the buffer to the sink.
LEMMA FlushSends ==
  ASSUME NEW o, o \in Output, o.open, ~ flush_buffer(o).err
  PROVE  ~ o.err /\ flush_buffer(o).buffer = <<>> /\ flush_buffer(o).sink = Sent(o)
  <1> DEFINE written == SmallerOf(Len(o.buffer), o.room)
             short   == FellShort(written, o)
             flushed == [o EXCEPT !.sink = @ \o SubSeq(o.buffer, 1, written), !.room = @ - written,
                                  !.err = short, !.buffer = IF short THEN @ ELSE <<>>]
  <1>1. ~ o.err
    BY DEF flush_buffer
  <1>2. flush_buffer(o) = flushed
    BY <1>1 DEF flush_buffer
  <1>3. o.buffer \in Seq(Byte)
    BY DEF Output
  <1>4. short \in BOOLEAN
    BY DEF FellShort
  <1> HIDE DEF short, written
  <1>5. /\ flushed.err = short /\ flushed.sink = o.sink \o SubSeq(o.buffer, 1, written)
        /\ flushed.buffer = IF short THEN o.buffer ELSE <<>>
    BY DEF Output
  <1> HIDE DEF flushed
  <1>6. ~ short /\ written = Len(o.buffer)
    BY <1>2, <1>5 DEF short, FellShort
  <1>7. SubSeq(o.buffer, 1, written) = o.buffer
    BY <1>3, <1>6, SubSeqFull
  <1> QED
    BY <1>1, <1>2, <1>5, <1>6, <1>7 DEF Sent

LEMMA AppendOfConcat ==
  ASSUME NEW a \in Seq(Byte), NEW b \in Seq(Byte), NEW v \in Byte
  PROVE  a \o Append(b, v) = Append(a \o b, v)
  <1> DEFINE single == <<v>>
  <1>1. Append(b, v) = b \o single /\ single \in Seq(Byte)
    BY AppendIsConcat
  <1>2. a \o b \in Seq(Byte) /\ Append(a \o b, v) = (a \o b) \o single
    BY ConcatProperties, AppendIsConcat
  <1> HIDE DEF single
  <1>3. (a \o b) \o single = a \o (b \o single)
    BY <1>1, ConcatAssociative
  <1> QED
    BY <1>1, <1>2, <1>3

LEMMA PushSends ==
  ASSUME NEW o, InBounds(o), o.open, NEW value \in Byte, ~ push_byte(value, o).err
  PROVE  ~ o.err /\ Sent(push_byte(value, o)) = Append(Sent(o), value)
  <1> DEFINE pushed == [o EXCEPT !.buffer = Append(@, value)]
  <1>1. ~ o.err
    BY DEF push_byte
  <1>2. push_byte(value, o) = IF IsFull(pushed) THEN flush_buffer(pushed) ELSE pushed
    BY <1>1 DEF push_byte
  <1>3. o.sink \in Seq(Byte) /\ o.buffer \in Seq(Byte)
    BY DEF InBounds, Output
  <1>4. Append(o.buffer, value) \in Seq(Byte)
    BY <1>3, AppendProperties
  <1>5. /\ pushed \in Output /\ pushed.open /\ pushed.buffer = Append(o.buffer, value)
        /\ pushed.sink = o.sink
    BY <1>4 DEF InBounds, Output
  <1> HIDE DEF pushed
  <1>6. Sent(pushed) = Append(Sent(o), value)
    <2>1. o.sink \o Append(o.buffer, value) = Append(o.sink \o o.buffer, value)
      BY <1>3, AppendOfConcat
    <2> QED
      BY <1>5, <2>1 DEF Sent
  <1>7. CASE IsFull(pushed)
    <2>1. ~ flush_buffer(pushed).err
      BY <1>2, <1>7
    <2>2. flush_buffer(pushed).buffer = <<>> /\ flush_buffer(pushed).sink = Sent(pushed)
      BY <1>5, <2>1, FlushSends
    <2>3. Sent(pushed) \in Seq(Byte)
      BY <1>5, SentType
    <2>4. Sent(flush_buffer(pushed)) = Sent(pushed)
      BY <2>2, <2>3, ConcatEmptySeq DEF Sent
    <2> QED
      BY <1>1, <1>2, <1>6, <1>7, <2>4
  <1>8. CASE ~ IsFull(pushed)
    BY <1>1, <1>2, <1>6, <1>8
  <1> QED
    BY <1>7, <1>8

\* What a code point can be, in the layout of the file.
Fits(w) == w \in Nat /\ w <= 65535 /\ (encoding_layout = "WT_1BYTE" => w <= 255)

LEMMA ByteOfSmall ==
  ASSUME NEW w \in Nat, w <= 255
  PROVE  w % 256 = w
  OBVIOUS

LEMMA BytesOfPair ==
  ASSUME NEW w \in Nat, w <= 65535
  PROVE  /\ w % 256 \in Byte /\ w \div 256 \in Byte /\ (w \div 256) % 256 = w \div 256
  <1>1. w % 256 \in Byte
    BY DEF Byte
  <1>2. w \div 256 \in Nat /\ w \div 256 <= 255
    OBVIOUS
  <1>3. w \div 256 \in Byte
    BY <1>2 DEF Byte
  <1>4. (w \div 256) % 256 = w \div 256
    BY <1>2, ByteOfSmall
  <1> QED
    BY <1>1, <1>3, <1>4

LEMMA PushTwoSends ==
  ASSUME NEW o, InBounds(o), o.open, NEW a \in Byte, NEW b \in Byte,
         ~ push_byte(b, push_byte(a, o)).err
  PROVE  ~ o.err /\ Sent(push_byte(b, push_byte(a, o))) = Sent(o) \o <<a, b>>
  <1> DEFINE first == push_byte(a, o)
  <1>1. InBounds(first) /\ first.open
    BY PushInBounds
  <1>2. ~ first.err /\ Sent(push_byte(b, first)) = Append(Sent(first), b)
    <2> HIDE DEF first
    <2> QED
      BY <1>1, PushSends DEF first
  <1>3. ~ o.err /\ Sent(first) = Append(Sent(o), a)
    BY <1>2, PushSends
  <1>4. Sent(o) \in Seq(Byte)
    BY SentType DEF InBounds
  <1> HIDE DEF first
  <1>5. Append(Append(Sent(o), a), b) = Sent(o) \o <<a, b>>
    BY <1>4
  <1> QED
    BY <1>2, <1>3, <1>5 DEF first

LEMMA PushOneSends ==
  ASSUME NEW o, InBounds(o), o.open, NEW a \in Byte, ~ push_byte(a, o).err
  PROVE  ~ o.err /\ Sent(push_byte(a, o)) = Sent(o) \o <<a>>
  <1>1. ~ o.err /\ Sent(push_byte(a, o)) = Append(Sent(o), a)
    BY PushSends
  <1>2. Sent(o) \in Seq(Byte)
    BY SentType DEF InBounds
  <1> QED
    BY <1>1, <1>2, AppendIsConcat

LEMMA PushCodePointSends ==
  ASSUME NEW o, InBounds(o), o.open, encoding_layout = detect_buffer_encoding_layout(input),
         input \in Seq(Byte), NEW w, Fits(w), ~ push_code_point(w, o).err
  PROVE  ~ o.err /\ Sent(push_code_point(w, o)) = Sent(o) \o Encoded(w, input)
  <1> DEFINE low  == w % 256
             high == w \div 256
  <1>1. /\ w \in Nat /\ low \in Byte /\ high \in Byte /\ (w \div 256) % 256 = high
    BY BytesOfPair DEF Fits
  <1>2. push_code_point(w, o) =
          CASE encoding_layout = "WT_1BYTE"    -> push_byte(low, o)
            [] encoding_layout = "WT_2BYTE_LE" -> push_byte(high, push_byte(low, o))
            [] encoding_layout = "WT_2BYTE_BE" -> push_byte(low, push_byte(high, o))
    BY <1>1 DEF push_code_point, LowByte
  <1>3. /\ encoding_layout = "WT_2BYTE_LE" <=> IsUTF16LE(input)
        /\ encoding_layout = "WT_2BYTE_BE" <=> IsUTF16BE(input)
        /\ encoding_layout \in Layouts
    BY LayoutOfText
  <1>4. encoding_layout = "WT_1BYTE" => low = w
    BY <1>1, ByteOfSmall DEF Fits
  <1>5. CASE encoding_layout = "WT_1BYTE"
    <2>1. Encoded(w, input) = <<low>> /\ push_code_point(w, o) = push_byte(low, o)
      BY <1>2, <1>3, <1>4, <1>5 DEF Encoded
    <2> HIDE DEF low
    <2> QED
      BY <1>1, <2>1, PushOneSends
  <1>6. CASE encoding_layout = "WT_2BYTE_LE"
    <2>1. Encoded(w, input) = <<low, high>> /\ push_code_point(w, o) = push_byte(high, push_byte(low, o))
      BY <1>2, <1>3, <1>6 DEF Encoded
    <2> HIDE DEF low, high
    <2> QED
      BY <1>1, <2>1, PushTwoSends
  <1>7. CASE encoding_layout = "WT_2BYTE_BE"
    <2>1. Encoded(w, input) = <<high, low>> /\ push_code_point(w, o) = push_byte(low, push_byte(high, o))
      BY <1>2, <1>3, <1>7 DEF Encoded
    <2> HIDE DEF low, high
    <2> QED
      BY <1>1, <2>1, PushTwoSends
  <1> QED
    BY <1>3, <1>5, <1>6, <1>7 DEF Layouts

\* In terms of the text: if the bytes of a text were sent, so are now those of the text and
\* one code point more.
LEMMA SendsOneMore ==
  ASSUME NEW o, InBounds(o), o.open, encoding_layout = detect_buffer_encoding_layout(input),
         input \in Seq(Byte), NEW w, Fits(w), ~ push_code_point(w, o).err,
         NEW text \in Seq(Nat), Sent(o) = BytesOf(text, input)
  PROVE  ~ o.err /\ Sent(push_code_point(w, o)) = BytesOf(text \o <<w>>, input)
  <1>0. w \in Nat
    BY DEF Fits
  <1>1. w \in Nat /\ ~ o.err /\ Sent(push_code_point(w, o)) = Sent(o) \o Encoded(w, input)
    BY <1>0, PushCodePointSends
  <1>2. BytesOf(Append(text, w), input) = BytesOf(text, input) \o Encoded(w, input)
    BY <1>1, BytesOfMore
  <1>3. Append(text, w) = text \o <<w>>
    BY <1>1, AppendIsConcat
  <1> QED
    BY <1>1, <1>2, <1>3

LEMMA SendsNewline ==
  ASSUME NEW o, InBounds(o), o.open, encoding_layout = detect_buffer_encoding_layout(input),
         input \in Seq(Byte), p.dst_convention \in LineEndings, ~ push_newline(o).err,
         NEW text \in Seq(Nat), Sent(o) = BytesOf(text, input)
  PROVE  ~ o.err /\ Sent(push_newline(o)) = BytesOf(text \o Newline(p.dst_convention), input)
  <1> DEFINE c == p.dst_convention
  <1>0. Fits(10) /\ Fits(13) /\ encoding_layout \in Layouts
    BY LayoutOfText DEF Fits
  <1>1. /\ push_newline(o) = CASE c = "CR"   -> push_code_point(13, o)
                                [] c = "LF"   -> push_code_point(10, o)
                                [] c = "CRLF" -> push_code_point(10, push_code_point(13, o))
        /\ Newline(c) = CASE c = "CR" -> <<13>> [] c = "LF" -> <<10>> [] c = "CRLF" -> <<13, 10>>
    BY DEF push_newline, Newline, LineEndings
  <1>2. c \in {"CR", "LF", "CRLF"}
    BY DEF LineEndings
  <1> HIDE DEF c
  <1>3. CASE c = "CR"
    BY <1>0, <1>1, <1>3, SendsOneMore DEF c
  <1>4. CASE c = "LF"
    BY <1>0, <1>1, <1>4, SendsOneMore DEF c
  <1>5. CASE c = "CRLF"
    <2> DEFINE first == push_code_point(13, o)
    <2>1. InBounds(first) /\ first.open = o.open
      BY <1>0, PushCodePointInBounds
    <2>2. push_newline(o) = push_code_point(10, first) /\ ~ push_code_point(10, first).err
      BY <1>1, <1>5
    <2>3. ~ first.err
      BY <1>0, <2>2, ErrorStays
    <2>4. ~ o.err /\ Sent(first) = BytesOf(text \o <<13>>, input)
      BY <1>0, <2>3, SendsOneMore
    <2>5. text \o <<13>> \in Seq(Nat)
      BY ConcatProperties
    <2> HIDE DEF first
    <2>6. Sent(push_newline(o)) = BytesOf((text \o <<13>>) \o <<10>>, input)
      BY <1>0, <2>1, <2>2, <2>4, <2>5, SendsOneMore
    <2>7. (text \o <<13>>) \o <<10>> = text \o <<13, 10>>
      OBVIOUS
    <2> QED
      BY <1>1, <1>5, <2>4, <2>6, <2>7 DEF c
  <1> QED
    BY <1>2, <1>3, <1>4, <1>5

--------------------------------------------------------------------------------
(* The invariant: what was sent is the translation of what was seen.        *)

Ended == Written(Text, p.dst_convention, Done)
           \o (IF EolIsMissing THEN Newline(p.dst_convention) ELSE <<>>)

SentInv ==
  /\ output_stream.open = p.has_outstream
  /\ p.has_outstream /\ ~ ferror /\ ~ output_stream.err /\ ~ Interrupted =>
       IF pc = "done"
       THEN output_stream.sink = BytesOf(Ended, input)
       ELSE Sent(output_stream) = BytesOf(Written(Text, p.dst_convention, Done), input)

LEMMA WritersTarget ==
  ASSUME CallInv, p.has_outstream
  PROVE  p.dst_convention \in LineEndings
  <1>1. site \in CallSites(invocation.dst_convention) /\ invocation.dst_convention \in Targets
    BY DEF CallInv, Invocation
  <1>2. CASE site = "convert_one_file"
    BY <1>1, <1>2 DEF p, ConvertParameters, CallSites, Targets
  <1>3. CASE site = "convert_stdin_to_stdout"
    BY <1>1, <1>3 DEF p, StdinParameters, Targets
  <1>4. CASE site \in {"pre_conversion_check", "check_one_file"}
    BY <1>4 DEF p, PreCheckParameters, CheckParameters
  <1> QED
    BY <1>1, <1>2, <1>3, <1>4, SitesOfCall DEF Sites

LEMMA TwoBytesFit ==
  ASSUME NEW a \in 0 .. 255, NEW b \in 0 .. 255
  PROVE  a + 256 * b <= 65535 /\ 256 * a + b <= 65535
  OBVIOUS

LEMMA CodePointFits ==
  ASSUME StreamInv, pc = "body"
  PROVE  Fits(code_point)
  <1>1. encoding_layout \in Layouts /\ Len(pulled) = BytesPerCodePoint /\ pulled \in Seq(Byte)
    BY DEF StreamInv, LoopInv
  <1>2. \A i \in 1 .. BytesPerCodePoint : pulled[i] \in 0 .. 255
    BY <1>1, ElementOfSeq DEF Byte
  <1>3. code_point \in Nat
    BY CodePointType DEF StreamInv
  <1>4. CASE encoding_layout = "WT_1BYTE"
    <2>1. BytesPerCodePoint = 1
      BY <1>4 DEF BytesPerCodePoint
    <2>2. pulled[1] \in 0 .. 255 /\ code_point = pulled[1]
      BY <1>2, <1>4, <2>1 DEF code_point
    <2>3. code_point <= 255 /\ code_point <= 65535
      BY <2>2
    <2> QED
      BY <1>3, <2>3 DEF Fits
  <1>5. CASE encoding_layout \in {"WT_2BYTE_LE", "WT_2BYTE_BE"}
    <2>1. BytesPerCodePoint = 2 /\ encoding_layout # "WT_1BYTE"
      BY <1>5 DEF BytesPerCodePoint
    <2>2. pulled[1] \in 0 .. 255 /\ pulled[2] \in 0 .. 255
      BY <1>2, <2>1
    <2> DEFINE a == pulled[1]
               b == pulled[2]
    <2>3. code_point = a + 256 * b \/ code_point = 256 * a + b
      BY <1>5 DEF code_point
    <2> HIDE DEF a, b
    <2>4. code_point <= 65535
      <3>1. a \in 0 .. 255 /\ b \in 0 .. 255
        BY <2>2 DEF a, b
      <3>2. a + 256 * b <= 65535 /\ 256 * a + b <= 65535
        BY <3>1, TwoBytesFit
      <3> QED
        BY <2>3, <3>2
    <2> QED
      BY <1>3, <2>1, <2>4 DEF Fits
  <1> QED
    BY <1>1, <1>4, <1>5 DEF Layouts

LEMMA OpenStays ==
  ASSUME NEW o, InBounds(o), encoding_layout \in Layouts, p.dst_convention \in Targets
  PROVE  push_newline(o).open = o.open /\ flush_buffer(o).open = o.open
  <1>1. flush_buffer(o).open = o.open
    BY FlushKeepsOpen DEF InBounds
  <1>2. /\ push_code_point(13, o).open = o.open /\ push_code_point(10, o).open = o.open
        /\ InBounds(push_code_point(13, o))
    BY PushCodePointInBounds
  <1>3. push_code_point(10, push_code_point(13, o)).open = o.open
    BY <1>2, PushCodePointInBounds
  <1> QED
    BY <1>1, <1>2, <1>3 DEF push_newline, Targets, LineEndings

\* What a branch of the loop finds, when it writes and nothing has gone wrong.
LEMMA BodyWrites ==
  ASSUME StreamInv, ExactInv, SentInv, Body, pc' # "setup", Countable,
         p.has_outstream, ~ ferror', ~ output_stream.err, ~ Interrupted
  PROVE  /\ InBounds(output_stream) /\ output_stream.open
         /\ encoding_layout = detect_buffer_encoding_layout(input) /\ input \in Seq(Byte)
         /\ p.dst_convention \in LineEndings
         /\ Written(Text, p.dst_convention, Done) \in Seq(Nat)
         /\ Sent(output_stream) = BytesOf(Written(Text, p.dst_convention, Done), input)
         /\ Written(Text, p.dst_convention, Done + 1) =
              Written(Text, p.dst_convention, Done) \o
                (IF code_point = 13 THEN Newline(p.dst_convention)
                 ELSE IF code_point # 10 THEN <<code_point>>
                 ELSE IF last_was_13 THEN <<>>
                 ELSE Newline(p.dst_convention))
  <1>1. ~ ferror /\ pc = "body"
    BY DEF Body, inVars
  <1>2. /\ InBounds(output_stream) /\ output_stream.open /\ input \in Seq(Byte)
        /\ p.dst_convention \in LineEndings
    BY InputSizes, WritersTarget DEF StreamInv, SentInv
  <1>3. encoding_layout = detect_buffer_encoding_layout(input)
    BY <1>1 DEF ExactInv, FrameInv
  <1>4. Sent(output_stream) = BytesOf(Written(Text, p.dst_convention, Done), input)
    BY <1>1 DEF SentInv
  <1>5. /\ Text \in Seq(Nat) /\ Done \in Nat /\ Done < Len(Text) /\ code_point = Text[Done + 1]
        /\ last_was_13 <=> Done > 0 /\ Text[Done] = 13
    <2>1. Len(Text) \in Nat /\ Done \in Nat /\ Done + 1 <= Len(Text)
      BY BodyFacts
    <2> QED
      BY <2>1, BodyFacts
  <1> QED
    BY <1>2, <1>3, <1>4, <1>5, WrittenMore

\* What a branch of the loop has to show.
LEMMA BodySent ==
  ASSUME StreamInv, ExactInv, SentInv, Body, pc' \in {"pull", "finish"}, Countable,
         output_stream'.open = output_stream.open,
         p.has_outstream /\ ~ ferror' /\ ~ output_stream'.err /\ ~ Interrupted' =>
           Sent(output_stream') = BytesOf(Written(Text, p.dst_convention, Done + 1), input)
  PROVE  SentInv'
  <1>1. p' = p /\ Text' = Text /\ input' = input
    BY Parameters DEF Body, callVars
  <1>2. ~ ferror' => Done' = Done + 1
    BY BodyFacts
  <1> QED
    BY <1>1, <1>2 DEF SentInv

LEMMA InterruptionStays ==
  ASSUME StreamInv, p' = p, report.contains_non_text_chars => report'.contains_non_text_chars,
         ~ Interrupted'
  PROVE  ~ Interrupted
  BY DEF Interrupted

LEMMA NewlineSent ==
  ASSUME StreamInv, ExactInv, SentInv, Body, pc' # "setup", Countable,
         p.has_outstream, ~ ferror', ~ Interrupted,
         output_stream' = push_newline(output_stream), ~ output_stream'.err,
         code_point = 13 \/ (code_point = 10 /\ ~ last_was_13)
  PROVE  Sent(output_stream') = BytesOf(Written(Text, p.dst_convention, Done + 1), input)
  <1>1. ~ output_stream.err
    <2>1. ASSUME output_stream.err PROVE push_newline(output_stream) = output_stream
      <3>1. encoding_layout \in Layouts /\ p.dst_convention \in Targets
        BY ParametersType, SitesOfCall DEF StreamInv, LoopInv, CallInv
      <3>2. \A w : push_code_point(w, output_stream) = output_stream
        BY <2>1, <3>1, ErrorStays
      <3> QED
        BY <3>1, <3>2 DEF push_newline, Targets, LineEndings
    <2> QED
      BY <2>1
  <1> DEFINE before == Written(Text, p.dst_convention, Done)
             nl     == Newline(p.dst_convention)
  <1>2. Written(Text, p.dst_convention, Done + 1) = before \o nl
    BY <1>1, BodyWrites
  <1>3. Sent(output_stream') = BytesOf(before \o nl, input)
    <2>1. /\ InBounds(output_stream) /\ output_stream.open /\ before \in Seq(Nat)
          /\ encoding_layout = detect_buffer_encoding_layout(input) /\ input \in Seq(Byte)
          /\ p.dst_convention \in LineEndings
          /\ Sent(output_stream) = BytesOf(before, input)
      BY <1>1, BodyWrites
    <2> HIDE DEF before
    <2> QED
      BY <2>1, SendsNewline
  <1> QED
    BY <1>2, <1>3

LEMMA MeetCRSent ==
  ASSUME StreamInv, ExactInv, SentInv, MeetCR, Countable
  PROVE  SentInv'
  <1>1. /\ Body /\ pc' \in {"pull", "finish"} /\ output_stream' = push_newline(output_stream)
        /\ report' = Count("CR", 1) /\ code_point = 13
    BY DEF MeetCR, LeaveLoopIf
  <1>2. output_stream'.open = output_stream.open
    BY <1>1, OpenStays, ParametersType, SitesOfCall DEF StreamInv, LoopInv, CallInv
  <1>3. ~ Interrupted' => ~ Interrupted
    <2>1. report'.contains_non_text_chars = report.contains_non_text_chars
      BY <1>1 DEF Count, StreamInv, LoopInv, Reports
    <2> QED
      BY <1>1, <2>1, Parameters DEF Body, Interrupted
  <1>4. ASSUME p.has_outstream, ~ ferror', ~ output_stream'.err, ~ Interrupted'
        PROVE  Sent(output_stream') = BytesOf(Written(Text, p.dst_convention, Done + 1), input)
    BY <1>1, <1>3, <1>4, NewlineSent
  <1> QED
    BY <1>1, <1>2, <1>4, BodySent

LEMMA MeetLoneLFSent ==
  ASSUME StreamInv, ExactInv, SentInv, MeetLoneLF, Countable
  PROVE  SentInv'
  <1>1. /\ Body /\ pc' \in {"pull", "finish"} /\ output_stream' = push_newline(output_stream)
        /\ report' = Count("LF", 1) /\ code_point = 10 /\ ~ last_was_13
    BY DEF MeetLoneLF, LeaveLoopIf
  <1>2. output_stream'.open = output_stream.open
    BY <1>1, OpenStays, ParametersType, SitesOfCall DEF StreamInv, LoopInv, CallInv
  <1>3. ~ Interrupted' => ~ Interrupted
    <2>1. report'.contains_non_text_chars = report.contains_non_text_chars
      BY <1>1 DEF Count, StreamInv, LoopInv, Reports
    <2> QED
      BY <1>1, <2>1, Parameters DEF Body, Interrupted
  <1>4. ASSUME p.has_outstream, ~ ferror', ~ output_stream'.err, ~ Interrupted'
        PROVE  Sent(output_stream') = BytesOf(Written(Text, p.dst_convention, Done + 1), input)
    BY <1>1, <1>3, <1>4, NewlineSent
  <1> QED
    BY <1>1, <1>2, <1>4, BodySent

\* Nothing is written at the LF of a CRLF.
LEMMA MeetLFOfCRLFSent ==
  ASSUME StreamInv, ExactInv, SentInv, MeetLFOfCRLF, Countable
  PROVE  SentInv'
  <1>1. /\ Body /\ pc' \in {"pull", "finish"} /\ output_stream' = output_stream
        /\ code_point = 10 /\ last_was_13
        /\ report' = [report EXCEPT
                        !.count_by_convention["CR"]   = (@ - 1) % UINT_RANGE,
                        !.count_by_convention["CRLF"] = (@ + 1) % UINT_RANGE]
    BY DEF MeetLFOfCRLF, LeaveLoopIf
  <1>2. ~ Interrupted' => ~ Interrupted
    <2>1. report'.contains_non_text_chars = report.contains_non_text_chars
      BY <1>1 DEF StreamInv, LoopInv, Reports
    <2> QED
      BY <1>1, <2>1, Parameters DEF Body, Interrupted
  <1>3. ASSUME p.has_outstream, ~ ferror', ~ output_stream'.err, ~ Interrupted'
        PROVE  Sent(output_stream') = BytesOf(Written(Text, p.dst_convention, Done + 1), input)
    <2> DEFINE before == Written(Text, p.dst_convention, Done)
               after  == Written(Text, p.dst_convention, Done + 1)
    <2>1. /\ before \in Seq(Nat) /\ Sent(output_stream) = BytesOf(before, input)
          /\ after = before \o <<>>
      BY <1>1, <1>2, <1>3, BodyWrites
    <2> HIDE DEF before, after
    <2>2. after = before
      BY <2>1, ConcatEmptySeq
    <2> QED
      BY <1>1, <2>1, <2>2 DEF after
  <1> QED
    BY <1>1, <1>3, BodySent

LEMMA MeetRegularSent ==
  ASSUME StreamInv, ExactInv, SentInv, MeetRegular, Countable
  PROVE  SentInv'
  <1>1. /\ Body /\ pc = "body" /\ pc' \in {"pull", "finish"} /\ code_point \notin {10, 13}
        /\ output_stream' = push_code_point(code_point, output_stream)
        /\ report' = [report EXCEPT !.contains_non_text_chars = @ \/ is_non_text_code(code_point)]
    BY DEF MeetRegular, LeaveLoopIf, Body
  <1>2. /\ code_point \in Nat /\ Fits(code_point) /\ encoding_layout \in Layouts
        /\ InBounds(output_stream)
    BY <1>1, CodePointType, CodePointFits DEF StreamInv, LoopInv
  <1>3. output_stream'.open = output_stream.open
    BY <1>1, <1>2, PushCodePointInBounds
  <1>4. ~ Interrupted' => ~ Interrupted
    <2>1. report.contains_non_text_chars => report'.contains_non_text_chars
      BY <1>1 DEF StreamInv, LoopInv, Reports
    <2> QED
      BY <1>1, <2>1, Parameters DEF Body, Interrupted
  <1>5. output_stream.err => output_stream'.err
    BY <1>1, <1>2, ErrorStays
  <1>6. ASSUME p.has_outstream, ~ ferror', ~ output_stream'.err, ~ Interrupted'
        PROVE  Sent(output_stream') = BytesOf(Written(Text, p.dst_convention, Done + 1), input)
    <2> DEFINE before == Written(Text, p.dst_convention, Done)
               after  == Written(Text, p.dst_convention, Done + 1)
    <2>1. /\ before \in Seq(Nat) /\ Sent(output_stream) = BytesOf(before, input)
          /\ after = before \o <<code_point>> /\ output_stream.open
          /\ encoding_layout = detect_buffer_encoding_layout(input) /\ input \in Seq(Byte)
      BY <1>1, <1>4, <1>5, <1>6, BodyWrites
    <2> HIDE DEF before, after
    <2>2. ~ push_code_point(code_point, output_stream).err
      BY <1>1, <1>6
    <2>3. Sent(push_code_point(code_point, output_stream)) = BytesOf(before \o <<code_point>>, input)
      BY <1>2, <2>1, <2>2, SendsOneMore
    <2> QED
      BY <1>1, <2>1, <2>3 DEF after
  <1> QED
    BY <1>1, <1>3, <1>6, BodySent

\* An interruption gives up what was written.
LEMMA InterruptSent ==
  ASSUME StreamInv, ExactInv, SentInv, InterruptOnNonText, Countable
  PROVE  SentInv'
  <1>1. /\ Body /\ pc' \in {"pull", "finish"} /\ output_stream' = output_stream
        /\ p.interrupt_if_non_text
        /\ report' = [report EXCEPT !.contains_non_text_chars = TRUE]
    BY DEF InterruptOnNonText, LeaveLoopIf
  <1>2. Interrupted'
    <2>1. report'.contains_non_text_chars = TRUE
      BY <1>1 DEF StreamInv, LoopInv, Reports
    <2> QED
      BY <1>1, <2>1, Parameters DEF Body, Interrupted
  <1> QED
    BY <1>1, <1>2, BodySent

LEMMA PullSent ==
  ASSUME StreamInv, ExactInv, SentInv, Setup \/ PullFrame \/ PullByte
  PROVE  SentInv'
  <1>1. /\ UNCHANGED <<callVars, report, output_stream>> /\ pc # "done" /\ pc' # "done"
        /\ input' = input
    BY DEF Setup, PullFrame, PullByte, LeaveLoopIf, callVars
  <1>2. p' = p /\ Text' = Text
    BY <1>1, Parameters
  <1>3. ~ ferror' => ~ ferror
    <2>1. CASE Setup \/ PullFrame
      BY <1>1, <2>1, FrameRead DEF Setup, PullFrame
    <2>2. CASE PullByte
      BY <2>2 DEF PullByte
    <2> QED
      BY <2>1, <2>2
  <1>4. ~ ferror' => Done' = Done
    BY <1>3, FramePlace, PullBytePlace DEF ExactInv, Placed
  <1> QED
    BY <1>1, <1>2, <1>3, <1>4 DEF SentInv, Interrupted

LEMMA DoneInText ==
  ASSUME StreamInv, FrameInv, PlaceInv, pc # "setup"
  PROVE  Done \in Nat /\ Done <= Len(Text)
  <1>1. BytesPerCodePoint = Width(input)
    BY DEF FrameInv, BytesPerCodePoint, Width
  <1>2. Len(Text) = Len(input) \div BytesPerCodePoint
    BY <1>1, InputSizes, TextFacts DEF Text
  <1>3. BytesPerCodePoint * Done <= Len(input) /\ Done \in Nat
    <2>1. Consumed = BytesPerCodePoint * Done + Len(pulled) /\ Done \in Nat
      BY DEF PlaceInv
    <2>2. BytesPerCodePoint * Done \in Nat
      BY <2>1, InputSizes, WholeUnits
    <2> QED
      BY <2>1, <2>2, InputSizes
  <1>4. Done <= Len(input) \div BytesPerCodePoint
    BY <1>3, InputSizes
  <1> QED
    BY <1>2, <1>3, <1>4

LEMMA FinishSent ==
  ASSUME StreamInv, ExactInv, SentInv, Finish
  PROVE  SentInv'
  <1> DEFINE last == IF EolIsMissing THEN push_newline(output_stream) ELSE output_stream
             nl   == IF EolIsMissing THEN Newline(p.dst_convention) ELSE <<>>
             text == Written(Text, p.dst_convention, Done)
  <1>1. /\ pc = "finish" /\ pc' = "done"
        /\ UNCHANGED <<callVars, inVars, encoding_layout, pulled, flagVars>>
        /\ output_stream' = flush_buffer(last)
        /\ report' = [report EXCEPT !.has_final_eol = FinalEol,
                                    !.error_during_conversion = output_stream'.err \/ ReadFailed]
    BY DEF Finish
  <1>2. report'.contains_non_text_chars = report.contains_non_text_chars
    BY <1>1 DEF StreamInv, LoopInv, Reports
  <1>3. p' = p /\ Text' = Text /\ input' = input /\ ferror' = ferror
    BY <1>1, Parameters DEF inVars, callVars
  <1>4. Done' = Done
    BY <1>1 DEF Done, Consumed, BytesPerCodePoint, inVars
  <1>5. Ended' = Ended /\ (Interrupted' <=> Interrupted)
    BY <1>1, <1>2, <1>3, <1>4 DEF Ended, EolIsMissing, flagVars, Interrupted
  <1>6. /\ encoding_layout \in Layouts /\ p.dst_convention \in Targets /\ InBounds(output_stream)
        /\ site \in Sites /\ invocation \in Invocation
    BY ParametersType, SitesOfCall DEF StreamInv, LoopInv, CallInv
  <1>7. InBounds(last) /\ last.open = output_stream.open
    BY <1>6, PushNewlineInBounds, OpenStays
  <1>8. output_stream'.open = output_stream.open
    <2> HIDE DEF last
    <2> QED
      BY <1>1, <1>7, FlushKeepsOpen DEF InBounds
  <1>9. ASSUME p.has_outstream, ~ ferror, ~ output_stream'.err, ~ Interrupted
        PROVE  output_stream'.sink = BytesOf(Ended, input)
    <2>1. output_stream.open
      BY <1>9 DEF SentInv
    <2>2. ~ last.err /\ output_stream'.sink = Sent(last)
      <3> HIDE DEF last
      <3> QED
        BY <1>1, <1>7, <1>9, <2>1, FlushSends DEF InBounds
    <2>3. ~ output_stream.err
      <3>1. ASSUME output_stream.err PROVE push_newline(output_stream) = output_stream
        <4>1. \A w : push_code_point(w, output_stream) = output_stream
          BY <1>6, <3>1, ErrorStays
        <4> QED
          BY <1>6, <4>1 DEF push_newline, Targets, LineEndings
      <3> QED
        BY <2>2, <3>1
    <2>4. Sent(output_stream) = BytesOf(text, input)
      BY <1>1, <1>9, <2>3 DEF SentInv
    <2>5. /\ input \in Seq(Byte) /\ Text \in Seq(Nat) /\ p.dst_convention \in LineEndings
          /\ encoding_layout = detect_buffer_encoding_layout(input)
      BY <1>1, <1>9, InputSizes, TextFacts, WritersTarget DEF Text, StreamInv, ExactInv, FrameInv
    <2>6. text \in Seq(Nat)
      <3>1. Done \in Nat /\ Done <= Len(Text) /\ Len(Text) \in Nat
        BY <1>1, <1>9, <2>5, DoneInText, LenProperties DEF ExactInv
      <3> QED
        BY <2>5, <3>1, WrittenType
    <2> HIDE DEF text
    <2>7. CASE EolIsMissing
      <3>1. Sent(push_newline(output_stream)) = BytesOf(text \o Newline(p.dst_convention), input)
        BY <1>6, <2>1, <2>2, <2>4, <2>5, <2>6, <2>7, SendsNewline
      <3> QED
        BY <2>2, <2>7, <3>1 DEF Ended, text
    <2>8. CASE ~ EolIsMissing
      <3>1. Ended = text \o <<>>
        BY <2>8 DEF Ended, text
      <3>2. text \o <<>> = text
        BY <2>6, ConcatEmptySeq
      <3> QED
        BY <2>2, <2>4, <2>8, <3>1, <3>2
    <2> QED
      BY <2>7, <2>8
  <1> QED
    BY <1>1, <1>3, <1>5, <1>8, <1>9 DEF SentInv

LEMMA SentInit == Init => SentInv
  <1> SUFFICES ASSUME Init PROVE SentInv
    OBVIOUS
  <1>1. /\ input_stream = [buffer |-> <<>>, buf_ptr |-> BUFFERSIZE, eof |-> FALSE] /\ position = 0
        /\ pulled = <<>> /\ pc = "setup" /\ BytesPerCodePoint = 1
    BY DEF Init, BytesPerCodePoint
  <1>2. StreamInv
    BY StreamInit
  <1>3. Done = 0
    <2>1. Consumed = 0 /\ Len(<<>>) = 0
      BY <1>1, EmptySeq DEF Consumed
    <2> QED
      BY <1>1, <2>1 DEF Done
  <1>4. PICK room \in Rooms :
          output_stream = [open |-> p.has_outstream, buffer |-> <<>>, sink |-> <<>>,
                           room |-> room, err |-> FALSE]
    BY DEF Init
  <1>5. output_stream.open = p.has_outstream /\ Sent(output_stream) = <<>>
    <2>1. <<>> \in Seq(Byte) /\ <<>> \o <<>> = <<>>
      BY EmptySeq, ConcatEmptySeq
    <2> QED
      BY <1>4, <2>1 DEF Sent
  <1>6. ASSUME p.has_outstream PROVE BytesOf(Written(Text, p.dst_convention, Done), input) = <<>>
    <2>1. Text \in Seq(Nat) /\ p.dst_convention \in LineEndings
      BY <1>2, <1>6, InputSizes, TextFacts, WritersTarget DEF Text, StreamInv
    <2>2. Written(Text, p.dst_convention, 0) = <<>>
      BY <2>1, WrittenEnds
    <2> QED
      BY <1>3, <2>2, BytesOfNone
  <1> QED
    BY <1>1, <1>5, <1>6 DEF SentInv

LEMMA SentNext == StreamInv /\ ExactInv /\ SentInv /\ [Next]_vars /\ Countable => SentInv'
  <1> SUFFICES ASSUME StreamInv, ExactInv, SentInv, [Next]_vars, Countable PROVE SentInv'
    OBVIOUS
  <1>1. CASE UNCHANGED vars
    <2>1. UNCHANGED <<callVars, inVars, encoding_layout, pulled, flagVars, report, output_stream, pc>>
      BY <1>1 DEF vars
    <2>2. p' = p /\ Text' = Text /\ input' = input /\ ferror' = ferror
      BY <2>1, Parameters DEF inVars, callVars
    <2>3. Done' = Done
      BY <2>1 DEF Done, Consumed, BytesPerCodePoint, inVars
    <2>4. Ended' = Ended /\ (Interrupted' <=> Interrupted)
      BY <2>1, <2>2, <2>3 DEF Ended, EolIsMissing, flagVars, Interrupted
    <2> QED
      BY <2>1, <2>3, <2>2, <2>4 DEF SentInv
  <1>2. CASE Next
    BY <1>2, PullSent, InterruptSent, MeetCRSent, MeetLFOfCRLFSent, MeetLoneLFSent,
       MeetRegularSent, FinishSent DEF Next
  <1> QED
    BY <1>1, <1>2

--------------------------------------------------------------------------------
(* The theorem about the output.                                            *)

LEMMA LastOfConcat ==
  ASSUME NEW a \in Seq(Nat), NEW b \in Seq(Nat), Len(b) > 0
  PROVE  a \o b # <<>> /\ Last(a \o b) = b[Len(b)]
  <1>1. /\ a \o b \in Seq(Nat) /\ Len(a \o b) = Len(a) + Len(b) /\ Len(a) \in Nat /\ Len(b) \in Nat
        /\ (a \o b)[Len(a) + Len(b)] = b[Len(b)]
    BY ConcatProperties, LenProperties
  <1>2. Len(a \o b) > 0
    BY <1>1
  <1>3. a \o b # <<>>
    BY <1>2, EmptySeq
  <1> QED
    BY <1>1, <1>3 DEF Last

LEMMA EndsAlike ==
  ASSUME NEW text \in Seq(Nat), NEW c \in LineEndings
  PROVE  EndsWithEol(Translation(text, c)) <=> EndsWithEol(text)
  <1> DEFINE n    == Len(text)
             tr   == Translation(text, c)
             head == Translated(text, c, n - 1)
             piece == Piece(text, c, n)
  <1>1. n \in Nat /\ tr = Translated(text, c, n)
    BY LenProperties, TranslationIsJoined
  <1>2. CASE n = 0
    <2>1. tr = <<>> /\ text = <<>>
      BY <1>1, <1>2, TranslatedNone, EmptySeq
    <2> QED
      BY <2>1 DEF EndsWithEol
  <1>3. CASE n # 0
    <2>1. n - 1 \in Nat /\ n - 1 < n /\ (n - 1) + 1 = n /\ n \in 1 .. n
      BY <1>1, <1>3
    <2>2. head \in Seq(Nat) /\ tr = head \o piece
      BY <1>1, <2>1, TranslatedMore
    <2>3. piece = IF text[n] = 10 \/ (text[n] = 13 /\ ~ PrecedesLF(text, n)) THEN Newline(c)
                  ELSE IF text[n] = 13 THEN <<>> ELSE <<text[n]>>
      BY <2>1, PieceIs
    <2>4. ~ PrecedesLF(text, n)
      BY <1>1 DEF PrecedesLF
    <2>5. piece = IF text[n] \in {10, 13} THEN Newline(c) ELSE <<text[n]>>
      BY <2>3, <2>4
    <2>6. text[n] \in Nat
      BY <2>1, ElementOfSeq
    <2>7. EndsWithEol(text) <=> text[n] \in {10, 13}
      BY <1>1, <1>3, EolIsTheSame
    <2> HIDE DEF head, tr, n
    <2>8. piece \in Seq(Nat) /\ Len(piece) > 0 /\ (piece[Len(piece)] \in {10, 13} <=> text[n] \in {10, 13})
      <3> HIDE DEF piece
      <3>1. CASE text[n] \in {10, 13}
        <4>1. piece = Newline(c)
          BY <2>5, <3>1
        <4> QED
          BY <3>1, <4>1 DEF Newline, LineEndings
      <3>2. CASE text[n] \notin {10, 13}
        <4>1. piece = <<text[n]>>
          BY <2>5, <3>2
        <4> QED
          BY <2>6, <3>2, <4>1
      <3> QED
        BY <3>1, <3>2
    <2> HIDE DEF piece
    <2>9. tr # <<>> /\ Last(tr) = piece[Len(piece)]
      BY <2>2, <2>8, LastOfConcat
    <2>10. EndsWithEol(tr) <=> text[n] \in {10, 13}
      BY <2>8, <2>9 DEF EndsWithEol
    <2> QED
      BY <2>7, <2>10 DEF tr
  <1> QED
    BY <1>2, <1>3

\* What a call that is not interrupted has sent, in terms of the whole text.
LEMMA WholeOutput ==
  ASSUME StreamInv, ExactInv, ReturnInv, SentInv, Accepted, p.has_outstream
  PROVE  LET translated == Translation(Text, p.dst_convention)
         IN  output_stream.sink =
               BytesOf(IF p.final_char_has_to_be_eol
                       THEN WithFinalEol(translated, p.dst_convention) ELSE translated, input)
  <1> DEFINE c  == p.dst_convention
             tr == Translation(Text, c)
  <1>1. pc = "done" /\ ~ ferror /\ ~ output_stream.err /\ ~ Interrupted
    BY DEF Accepted, Returned, ReturnInv, Interrupted
  <1>2. SeenInv /\ LeftInv
    BY <1>1 DEF ExactInv
  <1>3. ~ p.interrupt_if_not_like_dst_convention
    BY SitesOfCall DEF StreamInv, Sites, p, PreCheckParameters, ConvertParameters, CheckParameters,
       StdinParameters
  <1>4. Done = Len(Text)
    BY <1>1, <1>2, <1>3 DEF LeftInv, IsForeign
  <1>5. Text \in Seq(Nat) /\ c \in LineEndings
    BY InputSizes, TextFacts, WritersTarget DEF Text, StreamInv
  <1>6. Written(Text, c, Done) = tr /\ tr \in Seq(Nat)
    BY <1>4, <1>5, WrittenEnds
  <1>7. last_was_newline <=> EndsWithEol(tr)
    BY <1>2, <1>4, <1>5, WholeText, EndsAlike
  <1>8. output_stream.sink = BytesOf(tr \o (IF EolIsMissing THEN Newline(c) ELSE <<>>), input)
    BY <1>1, <1>6 DEF SentInv, Ended
  <1> HIDE DEF tr
  <1>9. tr \o (IF EolIsMissing THEN Newline(c) ELSE <<>>) =
          IF p.final_char_has_to_be_eol THEN WithFinalEol(tr, c) ELSE tr
    <2>1. tr \o <<>> = tr
      BY <1>6, ConcatEmptySeq
    <2>2. EolIsMissing <=> p.final_char_has_to_be_eol /\ ~ EndsWithEol(tr)
      BY <1>7 DEF EolIsMissing
    <2> QED
      BY <2>1, <2>2 DEF WithFinalEol
  <1> QED
    BY <1>8, <1>9 DEF tr

LEMMA OutputFollows == StreamInv /\ ExactInv /\ ReturnInv /\ SentInv => OutputIsTranslation
  BY WholeOutput DEF OutputIsTranslation

\* What a call that reports no error has written is the whole input with every line ending
\* replaced, also the ones that a frame of the input buffer cut in two: for every input that
\* the counters can count, every buffer of at least two bytes and every convention.
THEOREM OutputAlwaysTranslation ==
  ASSUME Countable
  PROVE  Spec => []OutputIsTranslation
  <1>1. Init => StreamInv /\ ExactInv /\ ReturnInv /\ SentInv
    BY StreamInit, ExactInit, SentInit DEF Init, ReturnInv
  <1>2. /\ StreamInv /\ ExactInv /\ ReturnInv /\ SentInv /\ [Next]_vars
        => (StreamInv /\ ExactInv /\ ReturnInv /\ SentInv)'
    BY StreamNext, ExactNext, ReturnNext, SentNext
  <1> QED
    BY <1>1, <1>2, OutputFollows, PTL DEF Spec
================================================================================
