----------------------------- MODULE FileNamesProofs -----------------------------
(***************************************************************************)
(* Proofs about the functions that look at the characters of a name, for   *)
(* paths and names of any length over any characters.                      *)
(***************************************************************************)
EXTENDS FileNamesProperties, SequenceTheorems, WellFoundedInduction, TLAPS

vars == <<base_path, filename>>

--------------------------------------------------------------------------------
(* The paths and names that are met are names.                             *)

NamesType == base_path \in Seq(Char) /\ filename \in Seq(Char)

LEMMA NamesInit == Init => NamesType
  BY EmptySeq DEF Init, NamesType

LEMMA NamesNext == NamesType /\ [Next]_vars => NamesType'
  <1> SUFFICES ASSUME NamesType, [Next]_vars
               PROVE  NamesType'
    OBVIOUS
  <1>1. ASSUME NEW c \in Char, Grow(c)
        PROVE  NamesType'
    <2>1. base_path \in Seq(Char) /\ filename \in Seq(Char)
      BY DEF NamesType
    <2>2. Append(base_path, c) \in Seq(Char) /\ Append(filename, c) \in Seq(Char)
      BY <2>1, AppendProperties
    <2>3. base_path' = Append(base_path, c) \/ base_path' = base_path
      BY <1>1 DEF Grow
    <2>4. filename' = Append(filename, c) \/ filename' = filename
      BY <1>1 DEF Grow
    <2>5. base_path' \in Seq(Char)
      BY <2>1, <2>2, <2>3
    <2>6. filename' \in Seq(Char)
      BY <2>1, <2>2, <2>4
    <2> QED
      BY <2>5, <2>6 DEF NamesType
  <1>2. CASE UNCHANGED vars
    BY <1>2 DEF NamesType, vars
  <1> QED
    BY <1>1, <1>2 DEF Next

\* The path and the name that the walker hands to the helpers of walkers.c and
\* file_operations.c stay sequences of characters, however long they grow.
THEOREM NamesCorrect == Spec => []NamesType
  <1> QED
    BY NamesInit, NamesNext, PTL DEF Spec, vars

--------------------------------------------------------------------------------
(* The scans from the end of a name to its beginning.                      *)

Below == {x \in Nat \X Nat : x[1] < x[2]}

LEMMA Smallest ==
  ASSUME NEW T \in SUBSET Nat, T # {}
  PROVE  \E n \in T : \A m \in T : n <= m
  <1>1. IsWellFoundedOn(OpToRel(<, Nat), Nat)
    BY NatLessThanWellFounded
  <1>2. OpToRel(<, Nat) = Below
    BY DEF OpToRel, Below
  <1>3. PICK n \in T : \A m \in T : <<m, n>> \notin Below
    BY <1>1, <1>2, WFMin
  <1>4. \A m \in T : <<m, n>> \in Below <=> m < n
    BY DEF Below
  <1>5. \A m \in T : ~ (m < n)
    BY <1>3, <1>4
  <1>6. n \in Nat /\ \A m \in T : m \in Nat
    OBVIOUS
  <1>7. \A m \in T : n <= m
    BY <1>5, <1>6
  <1> QED
    BY <1>7

Places(set, name) == {0} \cup {i \in 1..Len(name) : name[i] \in set}

\* A place is the last one of a character of the set when there is none behind it.
LEMMA LastInIs ==
  ASSUME NEW set, NEW name \in Seq(Char), NEW k \in 0..Len(name),
         k = 0 \/ name[k] \in set,
         \A j \in k + 1 .. Len(name) : name[j] \notin set
  PROVE  LastIn(set, name) = k
  <1> DEFINE P == Places(set, name)
             Top(x) == \A y \in P : x >= y
  <1>1. Len(name) \in Nat
    BY LenProperties
  <1>2. k \in P
    BY <1>1 DEF Places
  <1>3. P \subseteq Nat
    BY <1>1 DEF Places
  <1>4. ASSUME NEW y \in P PROVE k >= y
    <2>1. CASE y = 0
      BY <2>1, <1>1
    <2>2. CASE y # 0
      <3>1. y \in 1..Len(name) /\ name[y] \in set
        BY <2>2 DEF Places
      <3>2. ~ (y \in k + 1 .. Len(name))
        BY <3>1
      <3> QED
        BY <3>1, <3>2, <1>1
    <2> QED
      BY <2>1, <2>2
  <1>5. LastIn(set, name) = CHOOSE x \in P : Top(x)
    BY DEF LastIn, Max, Places
  <1>6. Top(k)
    BY <1>4
  <1>7. \A x \in P : Top(x) => x = k
    <2> TAKE x \in P
    <2> HAVE Top(x)
    <2>1. x >= k
      BY <1>2
    <2>2. k >= x
      BY <1>6
    <2> QED
      BY <2>1, <2>2, <1>2, <1>3
  <1> HIDE DEF P, Top
  <1>8. (CHOOSE x \in P : Top(x)) = k
    BY <1>2, <1>6, <1>7
  <1> QED
    BY <1>5, <1>8

\* What the scans find: the end of the scan, or a character of the set, with none behind.
LEMMA LastInFinds ==
  ASSUME NEW set, NEW name \in Seq(Char)
  PROVE  /\ LastIn(set, name) \in 0..Len(name)
         /\ LastIn(set, name) = 0 \/ name[LastIn(set, name)] \in set
         /\ \A j \in LastIn(set, name) + 1 .. Len(name) : name[j] \notin set
  <1> DEFINE n == Len(name)
             T == {m \in 0..n : n - m \in Places(set, name)}
  <1>1. n \in Nat
    BY LenProperties
  <1>2. n \in T
    BY <1>1 DEF Places
  <1>3. T \in SUBSET Nat /\ T # {}
    BY <1>1, <1>2
  <1>4. PICK m \in T : \A l \in T : m <= l
    BY <1>3, Smallest
  <1> DEFINE k == n - m
  <1>5. m \in 0..n /\ k \in Places(set, name)
    BY <1>4
  <1>6. k \in 0..n
    BY <1>1, <1>5
  <1>7. k = 0 \/ name[k] \in set
    BY <1>5 DEF Places
  <1>8. ASSUME NEW j \in k + 1 .. n
        PROVE  name[j] \notin set
    <2>1. j \in 1..n /\ n - j \in 0..n /\ n - (n - j) = j /\ n - j < m
      BY <1>1, <1>5, <1>6
    <2>2. n - j \notin T
      BY <2>1, <1>4, <1>5, <1>1
    <2>3. j \notin Places(set, name)
      BY <2>1, <2>2
    <2> QED
      BY <2>1, <2>3 DEF Places
  <1> HIDE DEF k
  <1>9. LastIn(set, name) = k
    BY <1>6, <1>7, <1>8, LastInIs
  <1> QED
    BY <1>6, <1>7, <1>8, <1>9

--------------------------------------------------------------------------------
(* Paths of entries: the path of a directory, with a slash at its end, and *)
(* a name behind it.                                                       *)

Prefix == IF base_path[Len(base_path)] # Slash THEN base_path \o <<Slash>> ELSE base_path

IsPrefix(pre) == /\ pre \in Seq(Char) /\ Len(pre) \in Nat \ {0}
                 /\ pre[Len(pre)] = Slash

LEMMA PrefixIs ==
  ASSUME NamesType, base_path # <<>>
  PROVE  /\ IsPrefix(Prefix)
         /\ Len(Prefix) \in {Len(base_path), Len(base_path) + 1}
         /\ base_path[Len(base_path)] # Slash => Len(Prefix) = Len(base_path) + 1
  <1> DEFINE n == Len(base_path)
  <1>1. base_path \in Seq(Char) /\ Slash \in Char
    BY CharAssumption DEF NamesType
  <1>2. n \in Nat \ {0}
    BY <1>1, EmptySeq, LenProperties
  <1>3. CASE base_path[n] = Slash
    <2>1. Prefix = base_path
      BY <1>3 DEF Prefix
    <2> QED
      BY <2>1, <1>1, <1>2, <1>3 DEF IsPrefix
  <1>4. CASE base_path[n] # Slash
    <2>1. Prefix = base_path \o <<Slash>>
      BY <1>4 DEF Prefix
    <2>2. <<Slash>> \in Seq(Char) /\ Len(<<Slash>>) = 1 /\ <<Slash>>[1] = Slash
      BY <1>1
    <2>3. /\ base_path \o <<Slash>> \in Seq(Char)
          /\ Len(base_path \o <<Slash>>) = n + Len(<<Slash>>)
          /\ \A i \in 1 .. n + Len(<<Slash>>) : (base_path \o <<Slash>>)[i] =
               IF i <= n THEN base_path[i] ELSE <<Slash>>[i - n]
      BY <1>1, <2>2, ConcatProperties
    <2>4. Prefix \in Seq(Char) /\ Len(Prefix) = n + 1
      BY <2>1, <2>2, <2>3
    <2>5. Prefix[n + 1] = <<Slash>>[(n + 1) - n]
      <3>1. n + 1 \in 1 .. n + Len(<<Slash>>) /\ ~ (n + 1 <= n)
        BY <1>2, <2>2
      <3> QED
        BY <2>1, <2>3, <3>1
    <2>6. (n + 1) - n = 1
      BY <1>2
    <2>7. Prefix[n + 1] = Slash
      BY <2>2, <2>5, <2>6
    <2> QED
      BY <2>4, <2>7, <1>2 DEF IsPrefix
  <1> QED
    BY <1>3, <1>4

\* append_filename_to_base_path puts the name behind the prefix, where it has the room.
LEMMA AppendedIs ==
  ASSUME NEW name
  PROVE  append_filename_to_base_path(base_path, name) =
           IF Len(base_path) + Len(name) + 1 >= MAX_PATH_LENGTH THEN TooLong
           ELSE Prefix \o name
  BY DEF append_filename_to_base_path, Prefix

\* A scan for slashes, and maybe other characters, ends in the name or at the prefix.
LEMMA LastBehindPrefix ==
  ASSUME NEW pre, IsPrefix(pre), NEW name \in Seq(Char), NEW set, Slash \in set
  PROVE  LastIn(set, pre \o name) = Len(pre) + LastIn(set, name)
  <1> DEFINE n == Len(pre)
             k == LastIn(set, name)
             path == pre \o name
  <1>1. pre \in Seq(Char) /\ n \in Nat \ {0} /\ pre[n] = Slash /\ Len(name) \in Nat
    BY LenProperties DEF IsPrefix
  <1>2. /\ path \in Seq(Char)
        /\ Len(path) = n + Len(name)
        /\ \A i \in 1 .. n + Len(name) : path[i] = IF i <= n THEN pre[i] ELSE name[i - n]
    BY <1>1, ConcatProperties
  <1>3. /\ k \in 0..Len(name)
        /\ k = 0 \/ name[k] \in set
        /\ \A j \in k + 1 .. Len(name) : name[j] \notin set
    BY LastInFinds
  <1> HIDE DEF n, k, path
  <1>4. n + k \in 0..Len(path)
    BY <1>1, <1>2, <1>3
  <1>5. path[n + k] \in set
    <2>1. CASE k = 0
      <3>1. n + k = n /\ n \in 1 .. n + Len(name) /\ n <= n
        BY <1>1, <2>1
      <3>2. path[n] = pre[n]
        BY <1>2, <3>1
      <3> QED
        BY <1>1, <3>1, <3>2
    <2>2. CASE k # 0
      <3>1. n + k \in 1 .. n + Len(name) /\ ~ (n + k <= n) /\ (n + k) - n = k
        BY <1>1, <1>3, <2>2
      <3>2. path[n + k] = name[k]
        BY <1>2, <3>1
      <3> QED
        BY <1>3, <2>2, <3>2
    <2> QED
      BY <2>1, <2>2
  <1>6. ASSUME NEW j \in n + k + 1 .. Len(path)
        PROVE  path[j] \notin set
    <2>1. j \in 1 .. n + Len(name) /\ ~ (j <= n) /\ j - n \in k + 1 .. Len(name)
      BY <1>1, <1>2, <1>3
    <2>2. path[j] = name[j - n]
      BY <1>2, <2>1
    <2> QED
      BY <1>3, <2>1, <2>2
  <1>7. LastIn(set, path) = n + k
    BY <1>2, <1>4, <1>5, <1>6, LastInIs
  <1> QED
    BY <1>7 DEF n, k, path

LEMMA NoneInName ==
  ASSUME NEW name \in Seq(Char), NEW set, \A i \in DOMAIN name : name[i] \notin set
  PROVE  LastIn(set, name) = 0
  <1>1. Len(name) \in Nat /\ DOMAIN name = 1..Len(name)
    BY LenProperties
  <1>2. 0 \in 0..Len(name) /\ \A j \in 0 + 1 .. Len(name) : name[j] \notin set
    BY <1>1
  <1> QED
    BY <1>2, LastInIs

\* What is behind the prefix, and the prefix, are found again in the path.
LEMMA PathParts ==
  ASSUME NEW pre \in Seq(Char), NEW name \in Seq(Char), NEW k \in 0..Len(name)
  PROVE  /\ SubSeq(pre \o name, Len(pre) + k + 1, Len(pre) + Len(name))
              = SubSeq(name, k + 1, Len(name))
         /\ SubSeq(pre \o name, 1, Len(pre)) = pre
  <1> DEFINE n == Len(pre)
             m == Len(name)
             path == pre \o name
             a == SubSeq(path, n + k + 1, n + m)
             b == SubSeq(name, k + 1, m)
             c == SubSeq(path, 1, n)
  <1>1. n \in Nat /\ m \in Nat /\ k \in Nat /\ k <= m
    BY LenProperties
  <1>2. /\ path \in Seq(Char)
        /\ Len(path) = n + m
        /\ \A i \in 1 .. n + m : path[i] = IF i <= n THEN pre[i] ELSE name[i - n]
    BY ConcatProperties
  <1>3. \A i \in 1 .. n + m : path[i] \in Char
    BY <1>2, ElementOfSeq
  <1>4. \A i \in 1 .. m : name[i] \in Char
    BY ElementOfSeq
  <1> HIDE DEF n, m, path
  <1>5. /\ a \in Seq(Char)
        /\ Len(a) = IF n + k + 1 <= n + m THEN (n + m) - (n + k + 1) + 1 ELSE 0
        /\ \A i \in 1 .. (n + m) - (n + k + 1) + 1 : a[i] = path[(n + k + 1) + i - 1]
    <2>1. n + k + 1 \in Int /\ n + m \in Int /\ \A i \in n + k + 1 .. n + m : path[i] \in Char
      BY <1>1, <1>3
    <2> QED
      BY <2>1, SubSeqProperties
  <1>6. /\ b \in Seq(Char)
        /\ Len(b) = IF k + 1 <= m THEN m - (k + 1) + 1 ELSE 0
        /\ \A i \in 1 .. m - (k + 1) + 1 : b[i] = name[(k + 1) + i - 1]
    <2>1. k + 1 \in Int /\ m \in Int /\ \A i \in k + 1 .. m : name[i] \in Char
      BY <1>1, <1>4
    <2> QED
      BY <2>1, SubSeqProperties
  <1>7. /\ c \in Seq(Char)
        /\ Len(c) = IF 1 <= n THEN n - 1 + 1 ELSE 0
        /\ \A i \in 1 .. n - 1 + 1 : c[i] = path[1 + i - 1]
    <2>1. 1 \in Int /\ n \in Int /\ \A i \in 1 .. n : path[i] \in Char
      BY <1>1, <1>3
    <2> QED
      BY <2>1, SubSeqProperties
  <1> HIDE DEF a, b, c
  <1>8. a = b
    <2>1. Len(a) = m - k /\ Len(b) = m - k
      BY <1>1, <1>5, <1>6
    <2>2. ASSUME NEW i \in 1 .. Len(a)
          PROVE  a[i] = b[i]
      <3>1. i \in 1 .. (n + m) - (n + k + 1) + 1 /\ i \in 1 .. m - (k + 1) + 1
        BY <1>1, <2>1
      <3>2. /\ (n + k + 1) + i - 1 \in 1 .. n + m
            /\ ~ ((n + k + 1) + i - 1 <= n)
            /\ ((n + k + 1) + i - 1) - n = (k + 1) + i - 1
        BY <1>1, <2>1
      <3>3. a[i] = path[(n + k + 1) + i - 1]
        BY <1>5, <3>1
      <3>4. path[(n + k + 1) + i - 1] = name[((n + k + 1) + i - 1) - n]
        BY <1>2, <3>2
      <3>5. b[i] = name[(k + 1) + i - 1]
        BY <1>6, <3>1
      <3> QED
        BY <3>2, <3>3, <3>4, <3>5
    <2> QED
      BY <2>1, <2>2, <1>5, <1>6, SeqEqual
  <1>9. c = pre
    <2>1. Len(c) = n
      BY <1>1, <1>7
    <2>2. ASSUME NEW i \in 1 .. Len(c)
          PROVE  c[i] = pre[i]
      <3>1. i \in 1 .. n - 1 + 1 /\ i \in 1 .. n + m /\ i <= n /\ 1 + i - 1 = i
        BY <1>1, <2>1
      <3> QED
        BY <1>2, <1>7, <3>1
    <2>3. Len(c) = Len(pre)
      BY <2>1 DEF n
    <2> QED
      BY <2>2, <2>3, <1>7, SeqEqual
  <1> QED
    BY <1>8, <1>9 DEF a, b, c, n, m, path

--------------------------------------------------------------------------------
(* What the functions find in the path of an entry.                        *)

LEMMA HiddenBehindPrefix ==
  ASSUME NEW pre, IsPrefix(pre), NEW name \in Seq(Char), name # <<>>,
         \A i \in DOMAIN name : name[i] # Slash
  PROVE  is_hidden_filename(pre \o name) <=> name[1] = Dot
  <1> DEFINE n == Len(pre)
             m == Len(name)
             path == pre \o name
             front == SubSeq(path, 1, n + m - 1)
  <1>1. pre \in Seq(Char) /\ n \in Nat \ {0} /\ pre[n] = Slash
    BY DEF IsPrefix
  <1>2. m \in Nat \ {0} /\ DOMAIN name = 1..m
    BY LenProperties, EmptySeq
  <1>3. /\ path \in Seq(Char)
        /\ Len(path) = n + m
        /\ \A i \in 1 .. n + m : path[i] = IF i <= n THEN pre[i] ELSE name[i - n]
    BY <1>1, ConcatProperties
  <1>4. \A i \in 1 .. n + m : path[i] \in Char
    BY <1>3, ElementOfSeq
  <1>5. \A i \in 1..m : name[i] # Slash
    BY <1>2
  <1> HIDE DEF n, m, path
  <1>6. /\ front \in Seq(Char)
        /\ Len(front) = IF 1 <= n + m - 1 THEN (n + m - 1) - 1 + 1 ELSE 0
        /\ \A i \in 1 .. (n + m - 1) - 1 + 1 : front[i] = path[1 + i - 1]
    <2>1. 1 \in Int /\ n + m - 1 \in Int /\ \A i \in 1 .. n + m - 1 : path[i] \in Char
      BY <1>1, <1>2, <1>4
    <2> QED
      BY <2>1, SubSeqProperties
  <1> HIDE DEF front
  <1>7. Len(front) = n + m - 1 /\ \A i \in 1 .. n + m - 1 : front[i] = path[i]
    <2>1. Len(front) = n + m - 1
      BY <1>1, <1>2, <1>6
    <2>2. \A i \in 1 .. n + m - 1 : i \in 1 .. (n + m - 1) - 1 + 1 /\ 1 + i - 1 = i
      BY <1>1, <1>2
    <2> QED
      BY <2>1, <2>2, <1>6
  <1>8. LastIn({Slash}, front) = n
    <2>1. n \in 0..Len(front) /\ n \in 1 .. n + m - 1 /\ n \in 1 .. n + m /\ n <= n
      BY <1>1, <1>2, <1>7
    <2>2. front[n] = Slash
      BY <2>1, <1>1, <1>3, <1>7
    <2>3. ASSUME NEW j \in n + 1 .. Len(front)
          PROVE  front[j] \notin {Slash}
      <3>1. /\ j \in 1 .. n + m - 1 /\ j \in 1 .. n + m /\ ~ (j <= n)
            /\ j - n \in 1..m
        BY <1>1, <1>2, <1>7
      <3> QED
        BY <3>1, <1>3, <1>5, <1>7
    <2> QED
      BY <2>1, <2>3, <2>2, <1>6, LastInIs
  <1>9. path[n + 1] = name[1]
    <2>1. n + 1 \in 1 .. n + m /\ ~ (n + 1 <= n) /\ (n + 1) - n = 1
      BY <1>1, <1>2
    <2> QED
      BY <2>1, <1>3
  <1>10. SubSeq(path, 1, Len(path) - 1) = front
    <2>1. Len(path) = n + m
      BY <1>3
    <2>2. Len(path) - 1 = n + m - 1
      BY <1>1, <1>2, <2>1
    <2> QED
      BY ONLY <2>2 DEF front
  <1>11. n > 0
    BY <1>1
  <1>12. is_hidden_filename(path) <=> path[n + 1] = Dot
    BY <1>8, <1>10, <1>11 DEF is_hidden_filename
  <1> QED
    BY <1>9, <1>12 DEF path

LEMMA ExtensionBehindPrefix ==
  ASSUME NEW pre, IsPrefix(pre), NEW name \in Seq(Char),
         \A i \in DOMAIN name : name[i] # Slash
  PROVE  \/ get_file_extension(pre \o name) = get_file_extension(name)
         \/ name[1] = Dot /\ get_file_extension(name) = <<>>
  <1> DEFINE n == Len(pre)
             m == Len(name)
             path == pre \o name
             k == LastIn({Dot, Slash}, name)
  <1>1. pre \in Seq(Char) /\ n \in Nat \ {0} /\ pre[n] = Slash
    BY DEF IsPrefix
  <1>2. m \in Nat /\ DOMAIN name = 1..m
    BY LenProperties
  <1>3. /\ Len(path) = n + m
        /\ \A i \in 1 .. n + m : path[i] = IF i <= n THEN pre[i] ELSE name[i - n]
    BY <1>1, ConcatProperties
  <1>4. LastIn({Dot, Slash}, path) = n + k
    BY LastBehindPrefix
  <1>5. k \in 0..m /\ (k = 0 \/ name[k] \in {Dot, Slash})
    BY LastInFinds
  <1>6. k # 0 => name[k] = Dot
    BY <1>2, <1>5
  <1>7. SubSeq(path, n + k + 1, n + m) = SubSeq(name, k + 1, m)
    BY <1>1, <1>5, PathParts
  <1> HIDE DEF n, m, path, k
  <1>8. CASE k = 0
    <2>1. n + k = n /\ n \in 1 .. n + m /\ n <= n /\ k <= 1
      BY <1>1, <1>2, <1>8
    <2>2. path[n + k] = Slash
      BY <2>1, <1>1, <1>3
    <2>3. get_file_extension(path) = <<>>
      BY <2>2, <1>4 DEF get_file_extension
    <2>4. get_file_extension(name) = <<>>
      BY <2>1 DEF get_file_extension, k
    <2> QED
      BY <2>3, <2>4 DEF path
  <1>9. CASE k = 1
    <2>1. k <= 1
      BY <1>9
    <2>2. get_file_extension(name) = <<>>
      BY <2>1 DEF get_file_extension, k
    <2> QED
      BY <2>2, <1>6, <1>9
  <1>10. CASE k # 0 /\ k # 1
    <2>1. /\ ~ (k <= 1) /\ ~ (n + k <= 1)
          /\ n + k \in 1 .. n + m /\ ~ (n + k <= n) /\ (n + k) - n = k
      BY <1>1, <1>2, <1>5, <1>10
    <2>2. path[n + k] = name[k]
      BY <2>1, <1>3
    <2>3. path[n + k] # Slash /\ name[k] # Slash
      BY <2>2, <1>6, <1>10, CharAssumption
    <2>4. get_file_extension(path) = SubSeq(path, n + k + 1, Len(path))
      BY <2>1, <2>3, <1>4 DEF get_file_extension
    <2>5. get_file_extension(name) = SubSeq(name, k + 1, m)
      BY <2>1, <2>3 DEF get_file_extension, k, m
    <2>6. get_file_extension(path) = get_file_extension(name)
      BY <2>4, <2>5, <1>3, <1>7
    <2> QED
      BY <2>6 DEF path
  <1> QED
    BY <1>8, <1>9, <1>10

--------------------------------------------------------------------------------
(* The properties, for all paths and names.                                *)

LEMMA ExistingPath ==
  ASSUME NamesType, Exists
  PROVE  /\ IsPrefix(Prefix) /\ Path = Prefix \o filename
         /\ filename \in Seq(Char) /\ filename # <<>>
         /\ \A i \in DOMAIN filename : filename[i] # Slash
         /\ ~ (Len(base_path) + Len(filename) + 1 >= MAX_PATH_LENGTH)
  <1>1. IsPrefix(Prefix)
    BY PrefixIs DEF Exists
  <1>2. /\ Path = Prefix \o filename
        /\ ~ (Len(base_path) + Len(filename) + 1 >= MAX_PATH_LENGTH)
    BY AppendedIs DEF Path, Exists
  <1>3. /\ filename # <<>>
        /\ \A i \in DOMAIN filename : filename[i] # Slash
    BY DEF Exists, IsEntry
  <1> QED
    BY <1>1, <1>2, <1>3 DEF NamesType

LEMMA HiddenFollows == NamesType => HiddenIsTheName
  <1> SUFFICES ASSUME NamesType, Exists
               PROVE  is_hidden_filename(Path) <=> filename[1] = Dot
    BY DEF HiddenIsTheName
  <1> QED
    BY ExistingPath, HiddenBehindPrefix

\* Whether the entry of a directory is passed over as hidden depends on its own name
\* only, for all paths of directories and all names of entries.
THEOREM HiddenIsAlwaysTheName == Spec => []HiddenIsTheName
  <1> QED
    BY NamesCorrect, HiddenFollows, PTL

LEMMA ExtensionFollows == NamesType => ExtensionIsTheNames
  <1> SUFFICES ASSUME NamesType, Exists
               PROVE  \/ get_file_extension(Path) = get_file_extension(filename)
                      \/ filename[1] = Dot /\ get_file_extension(filename) = <<>>
    BY DEF ExtensionIsTheNames
  <1> QED
    BY ExistingPath, ExtensionBehindPrefix

\* The extension that is looked up among the known binary ones is that of the name of
\* the entry, wherever there are dots in the path of its directory.
THEOREM ExtensionIsAlwaysTheNames == Spec => []ExtensionIsTheNames
  <1> QED
    BY NamesCorrect, ExtensionFollows, PTL

\* A path made by either function is a sequence as long as its parts, within the buffer.
LEMMA SameLocationFits ==
  ASSUME NEW reference \in Seq(Char), NEW wanted \in Seq(Char),
         make_filename_in_same_location(reference, wanted) # TooLong
  PROVE  Len(make_filename_in_same_location(reference, wanted)) + 1 <= MAX_PATH_LENGTH
  <1> DEFINE n == Len(reference)
             m == Len(wanted)
             s == LastIn({Slash}, reference)
             dir == SubSeq(reference, 1, s)
  <1>1. n \in Nat /\ m \in Nat
    BY LenProperties
  <1>2. s \in 0..n
    BY LastInFinds
  <1>3. \A i \in 1..n : reference[i] \in Char
    BY ElementOfSeq
  <1>4. /\ make_filename_in_same_location(reference, wanted) = dir \o wanted
        /\ ~ (m + s + 1 >= MAX_PATH_LENGTH)
    BY DEF make_filename_in_same_location
  <1> HIDE DEF n, m, s
  <1>5. dir \in Seq(Char) /\ Len(dir) = IF 1 <= s THEN s - 1 + 1 ELSE 0
    <2>1. 1 \in Int /\ s \in Int /\ \A i \in 1..s : reference[i] \in Char
      BY <1>1, <1>2, <1>3
    <2> QED
      BY <2>1, SubSeqProperties
  <1> HIDE DEF dir
  <1>6. Len(dir) = s
    BY <1>1, <1>2, <1>5
  <1>7. Len(dir \o wanted) = s + m
    <2>1. Len(dir \o wanted) = Len(dir) + Len(wanted)
      BY <1>5, ConcatProperties
    <2> QED
      BY <2>1, <1>6 DEF m
  <1>8. s + m + 1 <= MAX_PATH_LENGTH
    BY <1>1, <1>2, <1>4, SizeAssumption
  <1>9. Len(dir \o wanted) + 1 <= MAX_PATH_LENGTH
    BY <1>7, <1>8
  <1> QED
    BY <1>4, <1>9

LEMMA PathFits ==
  ASSUME NamesType, base_path # <<>>, Path # TooLong
  PROVE  Len(Path) + 1 <= MAX_PATH_LENGTH
  <1> DEFINE n == Len(base_path)
             m == Len(filename)
             l == Len(Prefix)
  <1>1. base_path \in Seq(Char) /\ filename \in Seq(Char)
    BY DEF NamesType
  <1>2. n \in Nat /\ m \in Nat
    BY <1>1, LenProperties
  <1>3. Prefix \in Seq(Char) /\ l \in {n, n + 1}
    BY PrefixIs DEF IsPrefix
  <1>4. Path = Prefix \o filename /\ ~ (n + m + 1 >= MAX_PATH_LENGTH)
    BY AppendedIs DEF Path
  <1>5. Len(Path) = l + m
    BY <1>1, <1>3, <1>4, ConcatProperties
  <1> HIDE DEF n, m, l
  <1>6. l + m + 1 <= MAX_PATH_LENGTH
    BY <1>2, <1>3, <1>4, SizeAssumption
  <1> QED
    BY <1>5, <1>6

LEMMA FitFollows == NamesType => PathsFit
  <1> SUFFICES ASSUME NamesType, base_path # <<>>,
                      NEW path \in {Path, make_filename_in_same_location(base_path, filename)},
                      path # TooLong
               PROVE  Len(path) + 1 <= MAX_PATH_LENGTH
    BY DEF PathsFit
  <1>1. CASE path = Path
    BY <1>1, PathFits
  <1>2. CASE path = make_filename_in_same_location(base_path, filename)
    BY <1>2, SameLocationFits DEF NamesType
  <1> QED
    BY <1>1, <1>2

\* No path is put together that does not fit its buffer with the terminating zero,
\* for any size of the buffers.
THEOREM PathsAlwaysFit == Spec => []PathsFit
  <1> QED
    BY NamesCorrect, FitFollows, PTL

LEMMA TmpIsName ==
  /\ tmp \in Seq(Char) /\ tmp # <<>>
  /\ \A i \in DOMAIN tmp : tmp[i] # Slash
  <1>1. tmp \in Seq(Char \ {Slash}) /\ Len(tmp) > 0
    BY TmpAssumption
  <1>2. Len(tmp) \in Nat /\ DOMAIN tmp = 1..Len(tmp) /\ tmp \in [1..Len(tmp) -> Char \ {Slash}]
    BY <1>1, LenProperties
  <1>3. \A i \in 1..Len(tmp) : tmp[i] \in Char \ {Slash}
    BY <1>1, ElementOfSeq
  <1>4. tmp \in Seq(Char)
    BY <1>1
  <1>5. tmp # <<>>
    BY <1>1
  <1> QED
    BY <1>2, <1>3, <1>4, <1>5

LEMMA TmpFollows == NamesType => TmpIsNextToIt
  <1> DEFINE n == Len(base_path)
             m == Len(filename)
             t == Len(tmp)
             l == Len(Prefix)
             path == make_filename_in_same_location(Path, tmp)
             next == append_filename_to_base_path(base_path, tmp)
  <1> SUFFICES ASSUME NamesType, Exists
               PROVE  /\ path # TooLong => path = next
                      /\ path # TooLong => (is_hidden_filename(path) <=> tmp[1] = Dot)
                      /\ t < m /\ base_path[n] # Slash => path # TooLong
    BY DEF TmpIsNextToIt
  <1>1. /\ IsPrefix(Prefix) /\ Path = Prefix \o filename
        /\ filename \in Seq(Char)
        /\ \A i \in DOMAIN filename : filename[i] # Slash
        /\ ~ (n + m + 1 >= MAX_PATH_LENGTH)
    BY ExistingPath
  <1>2. Prefix \in Seq(Char) /\ l \in Nat \ {0}
    BY <1>1 DEF IsPrefix
  <1>3. /\ tmp \in Seq(Char) /\ tmp # <<>>
        /\ \A i \in DOMAIN tmp : tmp[i] # Slash
    BY TmpIsName
  <1>4. n \in Nat /\ m \in Nat /\ t \in Nat
    BY <1>1, <1>3, LenProperties DEF NamesType
  <1>5. l \in {n, n + 1} /\ (base_path[n] # Slash => l = n + 1)
    BY PrefixIs DEF Exists
  <1>6. LastIn({Slash}, Path) = l
    <2>1. LastIn({Slash}, filename) = 0
      BY <1>1, NoneInName
    <2>2. LastIn({Slash}, Prefix \o filename) = l + LastIn({Slash}, filename)
      BY <1>1, LastBehindPrefix
    <2> QED
      BY <2>1, <2>2, <1>1, <1>2
  <1>7. Len(Path) = l + m
    BY <1>1, <1>2, ConcatProperties
  <1>8. SubSeq(Path, 1, l) = Prefix
    <2>1. 0 \in 0..m
      BY <1>4
    <2> QED
      BY <2>1, <1>1, <1>2, PathParts
  <1>9. path = IF \/ Len(Path) >= MAX_PATH_LENGTH
                  \/ t + l + 1 >= MAX_PATH_LENGTH
               THEN TooLong ELSE Prefix \o tmp
    BY <1>6, <1>8 DEF make_filename_in_same_location
  <1>10. next = IF n + t + 1 >= MAX_PATH_LENGTH THEN TooLong ELSE Prefix \o tmp
    BY AppendedIs
  <1>11. Prefix \o tmp # TooLong
    BY <1>2, <1>3, ConcatProperties, TooLongAssumption
  <1>12. is_hidden_filename(Prefix \o tmp) <=> tmp[1] = Dot
    BY <1>1, <1>3, HiddenBehindPrefix
  <1> HIDE DEF n, m, t, l, path, next
  <1>13. ~ (t + l + 1 >= MAX_PATH_LENGTH) => ~ (n + t + 1 >= MAX_PATH_LENGTH)
    BY <1>4, <1>5, SizeAssumption
  <1>14. path # TooLong => path = Prefix \o tmp /\ path = next
    BY <1>9, <1>10, <1>13
  <1>15. ASSUME t < m, base_path[n] # Slash
         PROVE  path # TooLong
    <2>1. ~ (l + m >= MAX_PATH_LENGTH) /\ ~ (t + l + 1 >= MAX_PATH_LENGTH)
      <3>1. l = n + 1
        BY <1>15, <1>5
      <3> QED
        BY <3>1, <1>1, <1>4, <1>15, SizeAssumption
    <2> QED
      BY <2>1, <1>7, <1>9, <1>11
  <1> QED
    BY <1>12, <1>14, <1>15

\* The temporary file of an entry is in the directory of that entry, is hidden when its
\* own name says so, and there is room for its path.
THEOREM TmpIsAlwaysNextToIt == Spec => []TmpIsNextToIt
  <1> QED
    BY NamesCorrect, TmpFollows, PTL
================================================================================
