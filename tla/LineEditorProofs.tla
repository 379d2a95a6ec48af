-------------------------- MODULE LineEditorProofs --------------------------
(***************************************************************************)
(* Theorems about LineEditor, for any number of keys. The reference of its *)
(* properties is a count over all the keys (Stays); that the editor, which *)
(* looks at the last key only, agrees with it is an invariant of the keys  *)
(* (Balanced), carried from key to key by the lemmas on Picked and Count.  *)
(***************************************************************************)
EXTENDS LineEditor, SequenceTheorems, FiniteSetTheorems, TLAPS

\* What Front does to a sequence that is not empty.
LEMMA FrontTypes ==
    ASSUME NEW S, NEW s \in Seq(S), s /= <<>>
    PROVE  /\ Front(s) \in Seq(S)
           /\ Len(Front(s)) = Len(s) - 1
           /\ \A i \in 1 .. Len(s) - 1 : Front(s)[i] = s[i]
<1>1. Len(s) \in Nat \ {0} /\ \A i \in 1 .. Len(s) : s[i] \in S
  BY EmptySeq, ElementOfSeq, LenProperties
<1>2. PICK n \in Nat : n = Len(s) - 1
  BY <1>1
<1>3. \A i \in 1 .. n : s[i] \in S
  BY <1>1, <1>2
<1>4. /\ SubSeq(s, 1, n) \in Seq(S)
      /\ Len(SubSeq(s, 1, n)) = IF 1 <= n THEN n - 1 + 1 ELSE 0
      /\ \A i \in 1 .. n - 1 + 1 : SubSeq(s, 1, n)[i] = s[1 + i - 1]
  BY <1>3, SubSeqProperties
<1>5. /\ Len(SubSeq(s, 1, n)) = n
      /\ \A i \in 1 .. n : SubSeq(s, 1, n)[i] = s[i]
  BY <1>4
<1>6. Front(s) = SubSeq(s, 1, n)
  BY <1>2 DEF Front
<1>7. QED
  BY <1>2, <1>4, <1>5, <1>6

LEMMA FrontOfAppend ==
    ASSUME NEW S, NEW s \in Seq(S), NEW x \in S
    PROVE  Append(s, x) /= <<>> /\ Front(Append(s, x)) = s
<1>1. /\ Append(s, x) \in Seq(S) /\ Len(Append(s, x)) = Len(s) + 1
      /\ Len(s) \in Nat
      /\ \A i \in 1 .. Len(s) : Append(s, x)[i] = s[i]
  BY AppendProperties, LenProperties
<1>2. Append(s, x) /= <<>>
  BY <1>1, EmptySeq
<1> DEFINE t == Append(s, x)
<1> HIDE DEF t
<1>3. /\ t \in Seq(S) /\ t /= <<>> /\ Len(t) = Len(s) + 1
      /\ \A i \in 1 .. Len(s) : t[i] = s[i]
  BY <1>1, <1>2 DEF t
<1>4. /\ Front(t) \in Seq(S) /\ Len(Front(t)) = Len(t) - 1
      /\ \A i \in 1 .. Len(t) - 1 : Front(t)[i] = t[i]
  BY <1>3, FrontTypes
<1>5. Len(t) - 1 = Len(s)
  BY <1>1, <1>3
<1>6. Front(t) = s
  BY <1>3, <1>4, <1>5, SeqEqual
<1>7. QED
  BY <1>2, <1>6 DEF t

LEMMA EmptyFront == Front(<<>>) = <<>>
BY SubSeqEmpty DEF Front

\* An erasure on the terminal takes back what the last echo has written.
LEMMA FrontOfConcat ==
    ASSUME NEW S, NEW s \in Seq(S), NEW t \in Seq(S), t /= <<>>
    PROVE  Front(s \o t) = s \o Front(t)
<1>1. /\ s \o t \in Seq(S) /\ Len(s \o t) = Len(s) + Len(t)
      /\ Len(s) \in Nat /\ Len(t) \in Nat \ {0}
      /\ \A i \in 1 .. Len(s) + Len(t) :
            (s \o t)[i] = IF i <= Len(s) THEN s[i] ELSE t[i - Len(s)]
  BY ConcatProperties, EmptySeq, LenProperties
<1>2. s \o t /= <<>>
  BY <1>1, EmptySeq
<1>3. /\ Front(s \o t) \in Seq(S)
      /\ Len(Front(s \o t)) = Len(s \o t) - 1
      /\ \A i \in 1 .. Len(s \o t) - 1 : Front(s \o t)[i] = (s \o t)[i]
  BY <1>1, <1>2, FrontTypes
<1>4. /\ Front(t) \in Seq(S) /\ Len(Front(t)) = Len(t) - 1
      /\ \A i \in 1 .. Len(t) - 1 : Front(t)[i] = t[i]
  BY FrontTypes
<1>5. /\ s \o Front(t) \in Seq(S)
      /\ Len(s \o Front(t)) = Len(s) + Len(Front(t))
      /\ \A i \in 1 .. Len(s) + Len(Front(t)) :
            (s \o Front(t))[i] =
              IF i <= Len(s) THEN s[i] ELSE Front(t)[i - Len(s)]
  BY <1>4, ConcatProperties
<1>6. Len(Front(s \o t)) = Len(s \o Front(t))
  BY <1>1, <1>3, <1>4, <1>5
<1>7. ASSUME NEW i \in 1 .. Len(Front(s \o t))
      PROVE  Front(s \o t)[i] = (s \o Front(t))[i]
  <2>1. i \in 1 .. Len(s) + Len(t) - 1
    BY <1>1, <1>3
  <2>2. Front(s \o t)[i] = IF i <= Len(s) THEN s[i] ELSE t[i - Len(s)]
    BY <1>1, <1>3, <2>1
  <2>3. (s \o Front(t))[i] =
          IF i <= Len(s) THEN s[i] ELSE Front(t)[i - Len(s)]
    BY <1>1, <1>4, <1>5, <2>1
  <2>4. CASE i <= Len(s)
    BY <2>2, <2>3, <2>4
  <2>5. CASE ~(i <= Len(s))
    <3>1. i - Len(s) \in 1 .. Len(t) - 1
      BY <1>1, <2>1, <2>5
    <3>2. QED
      BY <1>4, <2>2, <2>3, <2>5, <3>1
  <2>6. QED
    BY <2>4, <2>5
<1>8. QED
  BY <1>3, <1>5, <1>6, <1>7, SeqEqual

-----------------------------------------------------------------------------
Shown == Characters \cup {"prompt", "^C", "newline"}

\* The type invariant is inductive.
THEOREM TypeCorrect == Spec => []TypeOK
<1>1. Init => TypeOK
  <2>1. /\ <<>> \in Seq(Characters) /\ <<>> \in Seq(Keys)
        /\ <<"prompt">> \in Seq(Characters \cup {"prompt", "^C", "newline"})
    OBVIOUS
  <2>2. QED
    BY <2>1, Zenon DEF Init, TypeOK
<1>2. TypeOK /\ [Next]_vars => TypeOK'
  <2> SUFFICES ASSUME TypeOK, [Next]_vars PROVE TypeOK'
    OBVIOUS
  <2> DEFINE Step(key) ==
               \/ Enter /\ key = "enter"
               \/ Erase /\ key = "erase"
               \/ CtrlC /\ key = "ctrl-c"
               \/ CtrlD /\ key = "ctrl-d"
               \/ Control /\ key = "control"
               \/ PasswordBackslash /\ key = "backslash"
               \/ key \in Characters /\ LineCharacter(key)
               \/ key \in {"plain", "special"} /\ PasswordCharacter(key)
  <2>1. CASE ReadFails \/ UNCHANGED vars
    BY <2>1 DEF ReadFails, vars, TypeOK
  <2>2. ASSUME NEW key \in Keys, Step(key) PROVE TypeOK'
    <3>1. /\ typed' = Append(typed, key) /\ reader' = reader
      BY <2>2 DEF Enter, Erase, CtrlC, CtrlD, Control, PasswordBackslash,
                  LineCharacter, PasswordCharacter, Read
    <3>2. typed' \in Seq(Keys)
      BY <3>1, AppendProperties DEF TypeOK
    <3>3. result' \in {"reading", "line", "exit", "interrupted", "error"}
      BY <2>2 DEF TypeOK, Enter, Erase, CtrlC, CtrlD, Control, Read,
                  PasswordBackslash, LineCharacter, PasswordCharacter
    <3>4. /\ lastChar' \in BOOLEAN
          /\ lastChar' => reader' = "readPassword"
      <4>1. \/ lastChar' = lastChar
            \/ lastChar' = FALSE
            \/ lastChar' = TRUE /\ reader = "readPassword"
        BY <2>2, Zenon DEF Enter, Erase, CtrlC, CtrlD, Control, Read,
                    PasswordBackslash, LineCharacter, PasswordCharacter
      <4>2. CASE lastChar' = lastChar
        BY <3>1, <4>2 DEF TypeOK
      <4>3. CASE lastChar' = FALSE
        BY <4>3
      <4>4. CASE lastChar' = TRUE /\ reader = "readPassword"
        BY <3>1, <4>4
      <4>5. QED
        BY <4>1, <4>2, <4>3, <4>4
    <3>5. \A c \in Characters : <<"backslash", c>> \in Seq(Characters)
      BY DEF Characters
    <3>6. \/ line' = line
          \/ line /= <<>> /\ line' = Front(line)
          \/ \E c \in Characters : line' = Append(line, c)
          \/ \E c \in Characters : line' = line \o <<"backslash", c>>
      <4>1. CASE Erase
        BY <4>1 DEF Erase
      <4>2. CASE key \in Characters /\ LineCharacter(key)
        BY <4>2 DEF LineCharacter
      <4>3. CASE key \in {"plain", "special"} /\ PasswordCharacter(key)
        BY <4>3 DEF PasswordCharacter, Characters
      <4>4. QED
        BY <2>2, <4>1, <4>2, <4>3
           DEF Enter, CtrlC, CtrlD, Control, PasswordBackslash
    <3>7. line' \in Seq(Characters)
      <4>1. line \in Seq(Characters)
        BY DEF TypeOK
      <4>2. CASE line /= <<>> /\ line' = Front(line)
        BY <4>1, <4>2, FrontTypes
      <4>3. ASSUME NEW c \in Characters, line' = Append(line, c)
            PROVE  line' \in Seq(Characters)
        BY <4>1, <4>3, AppendProperties
      <4>4. ASSUME NEW c \in Characters, line' = line \o <<"backslash", c>>
            PROVE  line' \in Seq(Characters)
        BY <4>1, <4>4, <3>5, ConcatProperties
      <4>5. QED
        BY <3>6, <4>1, <4>2, <4>3, <4>4
    <3>8. \/ screen' = screen
          \/ screen' = Front(screen)
          \/ \E c \in Characters : screen' = Append(screen, c)
          \/ screen' = screen \o <<"newline">>
          \/ screen' = screen \o <<"^C", "newline">>
      <4>1. CASE Erase
        BY <4>1 DEF Erase
      <4>2. CASE key \in Characters /\ LineCharacter(key)
        BY <4>2 DEF LineCharacter
      <4>3. CASE Enter \/ CtrlC
        BY <4>3 DEF Enter, CtrlC, WriteLine
      <4>4. QED
        BY <2>2, <4>1, <4>2, <4>3
           DEF CtrlD, Control, PasswordBackslash, PasswordCharacter
    <3>9. screen' \in Seq(Shown)
      <4>1. screen \in Seq(Shown)
        BY DEF TypeOK, Shown
      <4>2. /\ <<"newline">> \in Seq(Shown)
            /\ <<"^C", "newline">> \in Seq(Shown)
        BY DEF Shown
      <4>3. CASE screen' = Front(screen)
        BY <4>1, <4>3, FrontTypes, EmptyFront
      <4>4. ASSUME NEW c \in Characters, screen' = Append(screen, c)
            PROVE  screen' \in Seq(Shown)
        BY <4>1, <4>4, AppendProperties DEF Shown
      <4>5. CASE \/ screen' = screen \o <<"newline">>
                 \/ screen' = screen \o <<"^C", "newline">>
        BY <4>1, <4>2, <4>5, ConcatProperties
      <4>6. QED
        BY <3>8, <4>1, <4>3, <4>4, <4>5
    <3>10. QED
      BY <3>1, <3>2, <3>3, <3>4, <3>7, <3>9, Zenon DEF TypeOK, Shown
  <2>3. ASSUME Next PROVE ReadFails \/ \E key \in Keys : Step(key)
    BY <2>3 DEF Next, Keys, Controls, Characters
  <2>4. QED
    BY <2>1, <2>2, <2>3
<1>3. QED
  BY <1>1, <1>2, PTL DEF Spec

-----------------------------------------------------------------------------
\* The terminal shows the prompt and the line, and nothing of a password.
THEOREM ScreenAlwaysShowsLine == Spec => []ScreenShowsLine
<1>1. Init => ScreenShowsLine
  BY DEF Init, ScreenShowsLine
<1>2. TypeOK /\ ScreenShowsLine /\ [Next]_vars => ScreenShowsLine'
  <2> SUFFICES ASSUME TypeOK, ScreenShowsLine, [Next]_vars
      PROVE  ScreenShowsLine'
    OBVIOUS
  <2> USE DEF ScreenShowsLine, Read
  <2>1. CASE Enter \/ CtrlC
    BY <2>1 DEF Enter, CtrlC
  <2>2. CASE Erase
    <3>1. CASE line = <<>>
      BY <2>2, <3>1 DEF Erase
    <3>2. CASE line /= <<>> /\ reader = "readLine"
      <4>1. /\ screen = <<"prompt">> \o line
            /\ line \in Seq(Shown) /\ <<"prompt">> \in Seq(Shown)
        BY <2>2, <3>2 DEF Erase, TypeOK, Shown, Characters
      <4>2. Front(screen) = <<"prompt">> \o Front(line)
        BY <4>1, <3>2, FrontOfConcat
      <4>3. QED
        BY <2>2, <3>2, <4>2 DEF Erase
    <3>3. CASE line /= <<>> /\ reader /= "readLine"
      BY <2>2, <3>3 DEF Erase
    <3>4. QED
      BY <3>1, <3>2, <3>3
  <2>3. CASE CtrlD \/ Control
    BY <2>3 DEF CtrlD, Control
  <2>4. ASSUME NEW char \in Characters, LineCharacter(char)
        PROVE  ScreenShowsLine'
    <3>1. /\ screen = <<"prompt">> \o line /\ reader' = "readLine"
          /\ screen' = Append(screen, char) /\ line' = Append(line, char)
      BY <2>4 DEF LineCharacter
    <3>2. line \in Seq(Characters) /\ <<"prompt">> \in Seq({"prompt"})
      BY DEF TypeOK
    <3>3. Append(<<"prompt">> \o line, char)
            = <<"prompt">> \o Append(line, char)
      BY <3>2
    <3>4. QED
      BY <3>1, <3>3
  <2>5. CASE PasswordBackslash
    BY <2>5 DEF PasswordBackslash
  <2>6. ASSUME NEW char \in {"plain", "special"}, PasswordCharacter(char)
        PROVE  ScreenShowsLine'
    BY <2>6 DEF PasswordCharacter
  <2>7. CASE ReadFails
    BY <2>7 DEF ReadFails
  <2>8. CASE UNCHANGED vars
    BY <2>8 DEF vars
  <2>9. QED
    BY <2>1, <2>2, <2>3, <2>4, <2>5, <2>6, <2>7, <2>8 DEF Next
<1>3. QED
  BY <1>1, <1>2, TypeCorrect, PTL DEF Spec
-----------------------------------------------------------------------------
\* The elements of a sequence at some of its positions (Picked).

LEMMA Positions ==
    ASSUME NEW n \in Nat, NEW S \in SUBSET (1 .. n)
    PROVE  S \in SUBSET Int /\ IsFiniteSet(S) /\ Cardinality(S) \in Nat
<1>1. IsFiniteSet(1 .. n)
  BY FS_Interval
<1>2. IsFiniteSet(S)
  BY <1>1, FS_Subset
<1>3. Cardinality(S) \in Nat
  BY <1>2, FS_CardinalityType
<1>4. \A i \in S : i \in Int
  OBVIOUS
<1>5. QED
  BY <1>2, <1>3, <1>4

LEMMA RankType ==
    ASSUME NEW S \in SUBSET Int, IsFiniteSet(S), NEW i \in Int
    PROVE  /\ IsFiniteSet({j \in S : j <= i})
           /\ Rank(S, i) \in 0 .. Cardinality(S)
           /\ i \in S => Rank(S, i) >= 1
<1> DEFINE A == {j \in S : j <= i}
<1>1. A \in SUBSET S /\ (i \in S => i \in A)
  OBVIOUS
<1> HIDE DEF A
<1>2. IsFiniteSet(A) /\ Cardinality(A) <= Cardinality(S)
  BY <1>1, FS_Subset
<1>3. Cardinality(A) \in Nat /\ Cardinality(S) \in Nat
  BY <1>2, FS_CardinalityType
<1>4. i \in S => Cardinality(A) /= 0
  BY <1>1, <1>2, FS_EmptySet
<1>5. Rank(S, i) = Cardinality(A)
  BY DEF Rank, A
<1>6. IsFiniteSet({j \in S : j <= i})
  BY <1>2 DEF A
<1>7. QED
  BY <1>2, <1>3, <1>4, <1>5, <1>6

LEMMA RankGrows ==
    ASSUME NEW S \in SUBSET Int, IsFiniteSet(S),
           NEW i \in Int, NEW j \in S, i < j
    PROVE  Rank(S, i) < Rank(S, j)
<1> DEFINE A == {k \in S : k <= i}
           B == {k \in S : k <= j}
<1>1. j \in Int /\ \A k \in S : k \in Int
  OBVIOUS
<1>2. \A k \in S : k <= i => k <= j
  BY <1>1
<1>3. A \in SUBSET B /\ j \in B /\ j \notin A
  <2>1. j <= j /\ ~(j <= i)
    BY <1>1
  <2>2. A \subseteq B
    BY <1>2
  <2>3. QED
    BY <2>1, <2>2
<1>4. IsFiniteSet(A) /\ IsFiniteSet(B)
  BY <1>1, RankType
<1> HIDE DEF A, B
<1>5. Cardinality(A) <= Cardinality(B) /\ Cardinality(A) /= Cardinality(B)
  BY <1>3, <1>4, FS_Subset
<1>6. Cardinality(A) \in Nat /\ Cardinality(B) \in Nat
  BY <1>4, FS_CardinalityType
<1>7. Rank(S, i) = Cardinality(A) /\ Rank(S, j) = Cardinality(B)
  BY DEF Rank, A, B
<1>8. QED
  BY <1>5, <1>6, <1>7

\* Each rank up to the number of the positions is the rank of one of them.
LEMMA RankExists ==
    ASSUME NEW S \in SUBSET Int, IsFiniteSet(S),
           NEW r \in 1 .. Cardinality(S)
    PROVE  \E i \in S : Rank(S, i) = r
<1>1. Cardinality(S) \in Nat
  BY FS_CardinalityType
<1>2. ASSUME NEW i \in S
      PROVE  i \in Int /\ Rank(S, i) \in 1 .. Cardinality(S)
  <2>1. i \in Int
    OBVIOUS
  <2>2. Rank(S, i) \in 0 .. Cardinality(S) /\ Rank(S, i) >= 1
    BY <2>1, RankType
  <2>3. QED
    BY <1>1, <2>1, <2>2
<1>3. SUFFICES ASSUME \A i \in S : Rank(S, i) /= r PROVE FALSE
  OBVIOUS
<1> DEFINE T == (1 .. Cardinality(S)) \ {r}
           f == [i \in S |-> Rank(S, i)]
<1>4. f \in [S -> T]
  BY <1>2, <1>3
<1>5. IsFiniteSet(T) /\ Cardinality(T) < Cardinality(S)
  <2>1. /\ IsFiniteSet(1 .. Cardinality(S))
        /\ Cardinality(1 .. Cardinality(S)) = Cardinality(S)
    BY <1>1, FS_Interval
  <2>2. IsFiniteSet(T) /\ Cardinality(T) = Cardinality(S) - 1
    BY <2>1, FS_RemoveElement
  <2>3. QED
    BY <1>1, <2>2
<1>6. \E x, y \in S : x /= y /\ f[x] = f[y]
  <2> HIDE DEF T, f
  <2>1. QED
    BY <1>4, <1>5, FS_PigeonHole
<1>7. PICK x \in S, y \in S : x /= y /\ Rank(S, x) = Rank(S, y)
  BY <1>6
<1>8. /\ x < y => Rank(S, x) < Rank(S, y)
      /\ y < x => Rank(S, y) < Rank(S, x)
  BY <1>2, RankGrows
<1>9. /\ x \in Int /\ y \in Int
      /\ Rank(S, x) \in 1 .. Cardinality(S)
      /\ Rank(S, y) \in 1 .. Cardinality(S)
  BY <1>2
<1>10. QED
  BY <1>1, <1>7, <1>8, <1>9

At(S, r) == CHOOSE i \in S : Rank(S, i) = r

LEMMA AtProperties ==
    ASSUME NEW S \in SUBSET Int, IsFiniteSet(S),
           NEW r \in 1 .. Cardinality(S)
    PROVE  /\ At(S, r) \in S /\ Rank(S, At(S, r)) = r
           /\ \A i \in S : Rank(S, i) = r => i = At(S, r)
<1>1. At(S, r) \in S /\ Rank(S, At(S, r)) = r
  <2>1. \E i \in S : Rank(S, i) = r
    BY RankExists
  <2>2. QED
    BY <2>1, Zenon DEF At
<1>2. ASSUME NEW i \in S, Rank(S, i) = r PROVE i = At(S, r)
  <2> DEFINE t == At(S, r)
  <2>1. t \in S /\ Rank(S, t) = r
    BY <1>1
  <2> HIDE DEF t
  <2>2. i \in Int /\ t \in Int
    BY <2>1
  <2>3. i < t => Rank(S, i) < Rank(S, t)
    BY <2>1, <2>2, RankGrows
  <2>4. t < i => Rank(S, t) < Rank(S, i)
    BY <2>1, <2>2, RankGrows
  <2>5. r \in Int
    BY FS_CardinalityType
  <2>6. i = t
    BY <1>2, <2>1, <2>2, <2>3, <2>4, <2>5
  <2>7. QED
    BY <2>6 DEF t
<1>3. QED
  BY <1>1, <1>2

LEMMA PickedProperties ==
    ASSUME NEW X, NEW seq \in Seq(X), NEW S \in SUBSET (1 .. Len(seq))
    PROVE  /\ Picked(seq, S) \in Seq(X)
           /\ Len(Picked(seq, S)) = Cardinality(S)
           /\ \A r \in 1 .. Cardinality(S) : Picked(seq, S)[r] = seq[At(S, r)]
<1>1. Len(seq) \in Nat /\ \A i \in 1 .. Len(seq) : seq[i] \in X
  BY LenProperties, ElementOfSeq
<1>2. S \in SUBSET Int /\ IsFiniteSet(S) /\ Cardinality(S) \in Nat
  BY <1>1, Positions
<1>3. Picked(seq, S) = [r \in 1 .. Cardinality(S) |-> seq[At(S, r)]]
  BY Zenon DEF Picked, At
<1>4. ASSUME NEW r \in 1 .. Cardinality(S) PROVE seq[At(S, r)] \in X
  <2>1. At(S, r) \in S
    BY <1>2, AtProperties
  <2>2. QED
    BY <1>1, <2>1
<1>5. QED
  BY <1>2, <1>3, <1>4

\* A position after all others adds its element at the end.
LEMMA PickedMore ==
    ASSUME NEW X, NEW seq \in Seq(X), NEW S \in SUBSET (1 .. Len(seq)),
           NEW t \in 1 .. Len(seq), \A i \in S : i < t
    PROVE  Picked(seq, S \cup {t}) = Append(Picked(seq, S), seq[t])
<1> DEFINE U == S \cup {t}
           c == Cardinality(S)
<1>1. /\ Len(seq) \in Nat /\ U \in SUBSET (1 .. Len(seq))
      /\ t \in Int /\ t \notin S
  BY LenProperties
<1>2. /\ S \in SUBSET Int /\ IsFiniteSet(S) /\ c \in Nat
      /\ \A i \in S : i \in Int
  BY <1>1, Positions
<1>3. IsFiniteSet(U) /\ Cardinality(U) = c + 1
  BY <1>1, <1>2, FS_AddElement
<1>4. U \in SUBSET Int
  BY <1>1, <1>2
<1>5. \A i \in S : Rank(U, i) = Rank(S, i)
  <2>1. ASSUME NEW i \in S PROVE {j \in U : j <= i} = {j \in S : j <= i}
    <3>1. i \in Int /\ i < t
      BY <1>2
    <3>2. ~(t <= i)
      BY <1>1, <3>1
    <3>3. QED
      BY <3>2
  <2>2. QED
    BY <2>1 DEF Rank
<1>6. Rank(U, t) = c + 1
  <2>1. \A j \in U : j <= t
    BY <1>1, <1>2
  <2>2. {j \in U : j <= t} = U
    BY <2>1
  <2>3. QED
    BY <2>2, <1>3 DEF Rank
<1>7. ASSUME NEW r \in 1 .. c PROVE At(U, r) = At(S, r)
  <2>1. At(S, r) \in S /\ Rank(S, At(S, r)) = r
    BY <1>2, AtProperties
  <2>2. At(S, r) \in U /\ Rank(U, At(S, r)) = r
    BY <2>1, <1>5
  <2>3. r \in 1 .. Cardinality(U)
    BY <1>2, <1>3
  <2> HIDE DEF U
  <2>4. \A i \in U : Rank(U, i) = r => i = At(U, r)
    BY <1>3, <1>4, <2>3, AtProperties
  <2>5. QED
    BY <2>2, <2>4
<1>8. At(U, c + 1) = t
  <2>1. c + 1 \in 1 .. Cardinality(U) /\ t \in U
    BY <1>2, <1>3
  <2> HIDE DEF U
  <2>2. \A i \in U : Rank(U, i) = c + 1 => i = At(U, c + 1)
    BY <1>3, <1>4, <2>1, AtProperties
  <2>3. QED
    BY <1>6, <2>1, <2>2
<1>9. /\ Picked(seq, S) \in Seq(X) /\ Len(Picked(seq, S)) = c
      /\ \A r \in 1 .. c : Picked(seq, S)[r] = seq[At(S, r)]
  BY PickedProperties
<1>10. /\ Picked(seq, U) \in Seq(X) /\ Len(Picked(seq, U)) = c + 1
       /\ \A r \in 1 .. c + 1 : Picked(seq, U)[r] = seq[At(U, r)]
  <2> HIDE DEF U, c
  <2>1. /\ Picked(seq, U) \in Seq(X) /\ Len(Picked(seq, U)) = Cardinality(U)
        /\ \A r \in 1 .. Cardinality(U) : Picked(seq, U)[r] = seq[At(U, r)]
    BY <1>1, PickedProperties
  <2>2. QED
    BY <2>1, <1>3
<1>11. seq[t] \in X
  BY ElementOfSeq
<1> HIDE DEF U, c
<1>12. /\ Append(Picked(seq, S), seq[t]) \in Seq(X)
       /\ Len(Append(Picked(seq, S), seq[t])) = c + 1
       /\ \A r \in 1 .. c :
             Append(Picked(seq, S), seq[t])[r] = Picked(seq, S)[r]
       /\ Append(Picked(seq, S), seq[t])[c + 1] = seq[t]
  BY <1>9, <1>11, AppendProperties
<1>13. ASSUME NEW r \in 1 .. c + 1
       PROVE  Picked(seq, U)[r] = Append(Picked(seq, S), seq[t])[r]
  <2>1. CASE r = c + 1
    BY <2>1, <1>2, <1>8, <1>10, <1>12
  <2>2. CASE r /= c + 1
    <3>1. r \in 1 .. c
      BY <1>2, <2>2
    <3>2. QED
      BY <3>1, <1>7, <1>9, <1>10, <1>12
  <2>3. QED
    BY <2>1, <2>2
<1>14. Picked(seq, U) = Append(Picked(seq, S), seq[t])
  BY <1>10, <1>12, <1>13, SeqEqual
<1>15. QED
  BY <1>14 DEF U

\* What comes after the positions is not looked at.
LEMMA PickedSame ==
    ASSUME NEW X, NEW seq \in Seq(X), NEW S \in SUBSET (1 .. Len(seq)),
           NEW x \in X
    PROVE  Picked(Append(seq, x), S) = Picked(seq, S)
<1>1. /\ Len(seq) \in Nat /\ Append(seq, x) \in Seq(X)
      /\ Len(Append(seq, x)) = Len(seq) + 1
      /\ \A i \in 1 .. Len(seq) : Append(seq, x)[i] = seq[i]
  BY LenProperties, AppendProperties
<1>2. S \in SUBSET (1 .. Len(Append(seq, x)))
  BY <1>1
<1>3. /\ Picked(seq, S) \in Seq(X) /\ Len(Picked(seq, S)) = Cardinality(S)
      /\ \A r \in 1 .. Cardinality(S) : Picked(seq, S)[r] = seq[At(S, r)]
  BY PickedProperties
<1>4. /\ Picked(Append(seq, x), S) \in Seq(X)
      /\ Len(Picked(Append(seq, x), S)) = Cardinality(S)
      /\ \A r \in 1 .. Cardinality(S) :
            Picked(Append(seq, x), S)[r] = Append(seq, x)[At(S, r)]
  BY <1>1, <1>2, PickedProperties
<1>5. ASSUME NEW r \in 1 .. Cardinality(S) PROVE At(S, r) \in 1 .. Len(seq)
  <2>1. S \in SUBSET Int /\ IsFiniteSet(S)
    BY <1>1, Positions
  <2>2. At(S, r) \in S
    BY <2>1, AtProperties
  <2>3. QED
    BY <2>2
<1>6. \A r \in 1 .. Cardinality(S) :
        Picked(Append(seq, x), S)[r] = Picked(seq, S)[r]
  BY <1>1, <1>3, <1>4, <1>5
<1>7. QED
  BY <1>3, <1>4, <1>6, SeqEqual

\* Of all positions, everything.
LEMMA PickedAll ==
    ASSUME NEW X, NEW seq \in Seq(X)
    PROVE  Picked(seq, 1 .. Len(seq)) = seq
<1> DEFINE S == 1 .. Len(seq)
<1>1. Len(seq) \in Nat
  BY LenProperties
<1>2. /\ S \in SUBSET (1 .. Len(seq)) /\ S \in SUBSET Int
      /\ IsFiniteSet(S) /\ Cardinality(S) = Len(seq)
  BY <1>1, FS_Interval
<1>3. ASSUME NEW r \in 1 .. Len(seq) PROVE At(S, r) = r
  <2>1. {j \in S : j <= r} = 1 .. r /\ r \in S /\ r \in Nat \ {0}
    BY <1>1
  <2>2. Cardinality(1 .. r) = r
    BY <2>1, FS_Interval
  <2>3. Rank(S, r) = r
    BY <2>1, <2>2 DEF Rank
  <2> HIDE DEF S
  <2>4. r \in 1 .. Cardinality(S)
    BY <1>2
  <2>5. QED
    BY <1>2, <2>1, <2>3, <2>4, AtProperties
<1> HIDE DEF S
<1>4. /\ Picked(seq, S) \in Seq(X) /\ Len(Picked(seq, S)) = Cardinality(S)
      /\ \A r \in 1 .. Cardinality(S) : Picked(seq, S)[r] = seq[At(S, r)]
  BY <1>2, PickedProperties
<1>5. \A r \in 1 .. Len(seq) : Picked(seq, S)[r] = seq[r]
  BY <1>2, <1>3, <1>4
<1>6. Picked(seq, S) = seq
  BY <1>2, <1>4, <1>5, SeqEqual
<1>7. QED
  BY <1>6 DEF S

\* Positions that are not empty have a last one.
LEMMA LastPosition ==
    ASSUME NEW n \in Nat, NEW S \in SUBSET (1 .. n), S /= {}
    PROVE  \E t \in S : \A i \in S : i <= t
<1>1. S \in SUBSET Int /\ IsFiniteSet(S) /\ Cardinality(S) \in Nat
  BY Positions
<1>2. Cardinality(S) \in 1 .. Cardinality(S)
  <2>1. Cardinality(S) /= 0
    BY <1>1, FS_EmptySet
  <2>2. QED
    BY <1>1, <2>1
<1>3. PICK t \in S : Rank(S, t) = Cardinality(S)
  BY <1>1, <1>2, RankExists
<1> DEFINE A == {j \in S : j <= t}
<1>4. A \in SUBSET S /\ Cardinality(A) = Cardinality(S)
  BY <1>3 DEF Rank
<1>5. A = S
  <2> HIDE DEF A
  <2>1. QED
    BY <1>1, <1>4, FS_Subset
<1>6. QED
  BY <1>5

-----------------------------------------------------------------------------
\* What a key does to the characters that are left.

Left(keys) == {i \in DOMAIN keys : Stays(keys, i)}

\* The characters typed after position i less the erasures.
Above(keys, i) ==
    Count(keys, i + 1, Len(keys), Characters)
      - Count(keys, i + 1, Len(keys), {"erase"})

\* After a character that is left, those that are left are the characters that
\* no erasure has met.
Balanced(keys) ==
    \A i \in Left(keys) :
        Above(keys, i) = Cardinality({j \in Left(keys) : j > i})

LEMMA CountType ==
    ASSUME NEW keys, NEW i \in Int, NEW j \in Int, NEW S
    PROVE  /\ Count(keys, i, j, S) \in Nat
           /\ i > j => Count(keys, i, j, S) = 0
<1> DEFINE A == {n \in i .. j : keys[n] \in S}
<1>1. A \in SUBSET (i .. j)
  OBVIOUS
<1>2. IsFiniteSet(i .. j)
  BY FS_Interval
<1>3. i > j => A = {}
  OBVIOUS
<1>4. Count(keys, i, j, S) = Cardinality(A)
  BY DEF Count
<1> HIDE DEF A
<1>5. IsFiniteSet(A)
  BY <1>1, <1>2, FS_Subset
<1>6. Cardinality(A) \in Nat /\ (A = {} => Cardinality(A) = 0)
  BY <1>5, FS_CardinalityType, FS_EmptySet
<1>7. QED
  BY <1>3, <1>4, <1>6

LEMMA CountStep ==
    ASSUME NEW X, NEW keys \in Seq(X), NEW k \in X, NEW S,
           NEW i \in 1 .. Len(keys) + 1, NEW j \in 0 .. Len(keys)
    PROVE  /\ Count(Append(keys, k), i, j, S) = Count(keys, i, j, S)
           /\ Count(Append(keys, k), i, Len(keys) + 1, S)
                = Count(keys, i, Len(keys), S) + IF k \in S THEN 1 ELSE 0
<1> DEFINE new == Append(keys, k)
           n == Len(keys)
           A == {m \in i .. n : keys[m] \in S}
           B == {m \in i .. n + 1 : new[m] \in S}
<1>1. /\ n \in Nat /\ i \in Int /\ new[n + 1] = k
      /\ \A m \in 1 .. n : new[m] = keys[m]
  BY LenProperties, AppendProperties
<1>2. Count(new, i, j, S) = Count(keys, i, j, S)
  <2>1. \A m \in i .. j : new[m] = keys[m]
    BY <1>1
  <2>2. {m \in i .. j : new[m] \in S} = {m \in i .. j : keys[m] \in S}
    BY <2>1
  <2>3. QED
    BY <2>2 DEF Count
<1>3. \A m \in i .. n : new[m] = keys[m]
  BY <1>1
<1>4. i .. n + 1 = (i .. n) \cup {n + 1} /\ n + 1 \notin i .. n
  BY <1>1
<1>5. B = (IF k \in S THEN A \cup {n + 1} ELSE A) /\ n + 1 \notin A
  <2>1. /\ A \subseteq i .. n /\ B \subseteq i .. n + 1
        /\ \A m \in i .. n : m \in A <=> m \in B
        /\ n + 1 \in B <=> k \in S
    BY <1>1, <1>3, <1>4
  <2> HIDE DEF A, B
  <2>2. n + 1 \notin A
    BY <1>4, <2>1
  <2>3. \A m : m \in B <=> m \in A \/ (m = n + 1 /\ k \in S)
    BY <1>4, <2>1
  <2>4. CASE k \in S
    BY <2>2, <2>3, <2>4
  <2>5. CASE k \notin S
    BY <2>2, <2>3, <2>5
  <2>6. QED
    BY <2>4, <2>5
<1>6. n \in Int
  BY <1>1
<1> HIDE DEF n
<1>7. A \in SUBSET (i .. n) /\ IsFiniteSet(i .. n)
  BY <1>1, <1>6, FS_Interval
<1>8. IsFiniteSet(A)
  BY <1>7, FS_Subset
<1> HIDE DEF A, B
<1>9. Cardinality(B) = Cardinality(A) + IF k \in S THEN 1 ELSE 0
  <2>1. Cardinality(A) \in Nat
    BY <1>8, FS_CardinalityType
  <2>2. CASE k \in S
    BY <2>1, <2>2, <1>5, <1>8, FS_AddElement
  <2>3. CASE k \notin S
    BY <2>1, <2>3, <1>5
  <2>4. QED
    BY <2>2, <2>3
<1>10. QED
  BY <1>2, <1>9 DEF Count, A, B, n

LEMMA AboveStep ==
    ASSUME NEW keys \in Seq(Keys), NEW k \in Keys, NEW i \in 1 .. Len(keys)
    PROVE  /\ Above(keys, i) \in Int
           /\ Above(Append(keys, k), i) = Above(keys, i)
                + (IF k \in Characters THEN 1
                   ELSE IF k = "erase" THEN -1 ELSE 0)
<1> DEFINE n == Len(keys)
<1>1. /\ n \in Nat /\ Len(Append(keys, k)) = n + 1
      /\ i + 1 \in 1 .. n + 1 /\ n \in 0 .. n
  BY LenProperties, AppendProperties
<1>2. ASSUME NEW S
      PROVE  Count(Append(keys, k), i + 1, n + 1, S)
               = Count(keys, i + 1, n, S) + IF k \in S THEN 1 ELSE 0
  <2>1. i + 1 \in 1 .. Len(keys) + 1 /\ n \in 0 .. Len(keys)
    BY <1>1
  <2>2. QED
    BY <2>1, CountStep
<1>3. \A S : Count(keys, i + 1, n, S) \in Nat
  BY <1>1, CountType
<1>4. "erase" \notin Characters
  BY DEF Characters
<1>5. QED
  BY <1>1, <1>2, <1>3, <1>4 DEF Above

LEMMA StaysStep ==
    ASSUME NEW keys \in Seq(Keys), NEW k \in Keys
    PROVE  /\ \A i \in 1 .. Len(keys) :
                 Stays(Append(keys, k), i)
                   <=> Stays(keys, i) /\ Above(Append(keys, k), i) >= 0
           /\ Stays(Append(keys, k), Len(keys) + 1) <=> k \in Characters
           /\ Above(Append(keys, k), Len(keys) + 1) = 0
<1> DEFINE new == Append(keys, k)
           n == Len(keys)
<1>1. /\ n \in Nat /\ Len(new) = n + 1 /\ new[n + 1] = k
      /\ \A m \in 1 .. n : new[m] = keys[m]
  BY LenProperties, AppendProperties
<1>2. ASSUME NEW i \in 1 .. n
      PROVE  Stays(new, i) <=> Stays(keys, i) /\ Above(new, i) >= 0
  <2> DEFINE P(s, j) == Count(s, i + 1, j, {"erase"})
                          <= Count(s, i + 1, j, Characters)
  <2>1. /\ Stays(new, i)
             <=> new[i] \in Characters /\ \A j \in i + 1 .. n + 1 : P(new, j)
        /\ Stays(keys, i)
             <=> keys[i] \in Characters /\ \A j \in i + 1 .. n : P(keys, j)
    BY <1>1 DEF Stays
  <2>2. ASSUME NEW j \in i + 1 .. n PROVE P(new, j) <=> P(keys, j)
    <3>1. i + 1 \in 1 .. n + 1 /\ j \in 0 .. n
      BY <1>1
    <3>2. \A S : Count(new, i + 1, j, S) = Count(keys, i + 1, j, S)
      BY <3>1, CountStep
    <3>3. Count(new, i + 1, j, {"erase"}) = Count(keys, i + 1, j, {"erase"})
      BY <3>2, Zenon
    <3>4. Count(new, i + 1, j, Characters) = Count(keys, i + 1, j, Characters)
      BY <3>2, Zenon
    <3>5. QED
      BY <3>3, <3>4, Zenon
  <2>3. P(new, n + 1) <=> Above(new, i) >= 0
    <3>1. \A S : Count(new, i + 1, n + 1, S) \in Nat
      BY <1>1, CountType
    <3>2. QED
      BY <1>1, <3>1 DEF Above
  <2>4. i + 1 .. n + 1 = (i + 1 .. n) \cup {n + 1}
    BY <1>1
  <2> HIDE DEF P
  <2>5. (\A j \in i + 1 .. n + 1 : P(new, j))
           <=> (\A j \in i + 1 .. n : P(keys, j)) /\ P(new, n + 1)
    BY <2>2, <2>4
  <2>6. new[i] = keys[i]
    BY <1>1
  <2>7. QED
    BY <2>1, <2>3, <2>5, <2>6
<1>3. \A S : Count(new, n + 1 + 1, n + 1, S) = 0
  BY <1>1, CountType
<1>4. Stays(new, n + 1) <=> k \in Characters
  <2>1. n + 1 + 1 .. n + 1 = {}
    BY <1>1
  <2>2. QED
    BY <1>1, <2>1 DEF Stays
<1>5. Above(new, n + 1) = 0
  BY <1>1, <1>3 DEF Above
<1>6. QED
  BY <1>2, <1>4, <1>5

LEMMA LeftStep ==
    ASSUME NEW keys \in Seq(Keys), NEW k \in Keys
    PROVE  /\ Left(keys) \in SUBSET (1 .. Len(keys))
           /\ Left(Append(keys, k))
                = {i \in Left(keys) : Above(Append(keys, k), i) >= 0}
                    \cup (IF k \in Characters THEN {Len(keys) + 1} ELSE {})
<1> DEFINE n == Len(keys)
           new == Append(keys, k)
<1>1. /\ n \in Nat /\ DOMAIN keys = 1 .. n /\ DOMAIN new = 1 .. n + 1
  BY LenProperties, AppendProperties
<1>2. 1 .. n + 1 = (1 .. n) \cup {n + 1}
  BY <1>1
<1> HIDE DEF new, n
<1>3. /\ \A i \in 1 .. n : Stays(new, i)
            <=> Stays(keys, i) /\ Above(new, i) >= 0
      /\ Stays(new, n + 1) <=> k \in Characters
  BY StaysStep DEF new, n
<1>4. Left(new) = {i \in Left(keys) : Above(new, i) >= 0}
                    \cup (IF k \in Characters THEN {n + 1} ELSE {})
  BY <1>1, <1>2, <1>3 DEF Left
<1>5. QED
  BY <1>1, <1>4 DEF Left, new, n

\* A key that is neither a character nor an erasure.
LEMMA OtherKey ==
    ASSUME NEW keys \in Seq(Keys), NEW k \in Keys, Balanced(keys),
           k \notin Characters, k /= "erase"
    PROVE  /\ Balanced(Append(keys, k))
           /\ Edited(Append(keys, k)) = Edited(keys)
<1> DEFINE new == Append(keys, k)
<1>1. /\ Left(keys) \in SUBSET (1 .. Len(keys))
      /\ Left(new) = {i \in Left(keys) : Above(new, i) >= 0}
  BY LeftStep
<1>2. ASSUME NEW i \in Left(keys)
      PROVE  Above(new, i) = Above(keys, i) /\ Above(keys, i) >= 0
  <2>1. i \in 1 .. Len(keys)
    BY <1>1
  <2>2. Above(new, i) = Above(keys, i) /\ Above(keys, i) \in Int
    BY <2>1, AboveStep
  <2>3. Cardinality({j \in Left(keys) : j > i}) \in Nat
    <3>1. {j \in Left(keys) : j > i} \in SUBSET (1 .. Len(keys))
      BY <1>1
    <3>2. QED
      BY <3>1, Positions, LenProperties
  <2>4. QED
    BY <2>2, <2>3 DEF Balanced
<1> HIDE DEF new
<1>3. Left(new) = Left(keys)
  BY <1>1, <1>2
<1>4. Balanced(new)
  BY <1>2, <1>3 DEF Balanced
<1>5. Edited(new) = Edited(keys)
  <2>1. Picked(new, Left(keys)) = Picked(keys, Left(keys))
    BY <1>1, PickedSame DEF new
  <2>2. QED
    BY <1>3, <2>1 DEF Edited, Left
<1>6. QED
  BY <1>4, <1>5 DEF new

LEMMA CharacterKey ==
    ASSUME NEW keys \in Seq(Keys), NEW k \in Characters, Balanced(keys)
    PROVE  /\ Balanced(Append(keys, k))
           /\ Edited(Append(keys, k)) = Append(Edited(keys), k)
<1> DEFINE new == Append(keys, k)
           n == Len(keys)
<1>1. k \in Keys
  BY DEF Keys
<1>2. /\ n \in Nat /\ new \in Seq(Keys) /\ Len(new) = n + 1
      /\ new[n + 1] = k
  BY <1>1, LenProperties, AppendProperties
<1>3. /\ Left(keys) \in SUBSET (1 .. n)
      /\ Left(new) = {i \in Left(keys) : Above(new, i) >= 0} \cup {n + 1}
      /\ Above(new, n + 1) = 0
  BY <1>1, LeftStep, StaysStep
<1>4. ASSUME NEW i \in Left(keys)
      PROVE  /\ i \in 1 .. n /\ Above(new, i) = Above(keys, i) + 1
             /\ Above(keys, i) \in Nat
             /\ Above(keys, i) = Cardinality({j \in Left(keys) : j > i})
             /\ IsFiniteSet({j \in Left(keys) : j > i})
  <2>1. i \in 1 .. n
    BY <1>3
  <2>2. Above(new, i) = Above(keys, i) + 1 /\ Above(keys, i) \in Int
    BY <1>1, <2>1, AboveStep
  <2>3. /\ Cardinality({j \in Left(keys) : j > i}) \in Nat
        /\ IsFiniteSet({j \in Left(keys) : j > i})
    <3>1. {j \in Left(keys) : j > i} \in SUBSET (1 .. n)
      BY <1>3
    <3>2. QED
      BY <1>2, <3>1, Positions
  <2>4. QED
    BY <2>1, <2>2, <2>3 DEF Balanced
<1> HIDE DEF new, n
<1>5. Left(new) = Left(keys) \cup {n + 1}
  <2>1. ASSUME NEW i \in Left(keys) PROVE Above(new, i) >= 0
    <3>1. Above(new, i) = Above(keys, i) + 1 /\ Above(keys, i) \in Nat
      BY <1>4
    <3>2. QED
      BY <3>1
  <2>2. QED
    BY <1>3, <2>1
<1>6. ASSUME NEW i \in Left(new)
      PROVE  Above(new, i) = Cardinality({j \in Left(new) : j > i})
  <2>1. CASE i = n + 1
    <3>1. {j \in Left(new) : j > i} = {}
      <4>1. \A j \in Left(new) : j \in 1 .. n \/ j = n + 1
        BY <1>3, <1>5
      <4>2. \A j \in Left(new) : ~(j > i)
        BY <1>2, <2>1, <4>1
      <4>3. QED
        BY <4>2
    <3>2. QED
      BY <1>3, <2>1, <3>1, FS_EmptySet
  <2>2. CASE i \in Left(keys)
    <3> DEFINE A == {j \in Left(keys) : j > i}
    <3>1. {j \in Left(new) : j > i} = A \cup {n + 1} /\ n + 1 \notin A
      <4>1. i \in 1 .. n /\ n + 1 > i /\ n + 1 \notin 1 .. n
        <5>1. i \in 1 .. n
          BY <1>3, <2>2
        <5>2. QED
          BY <1>2, <5>1
      <4>2. n + 1 \notin Left(keys)
        BY <1>3, <4>1
      <4>3. QED
        BY <1>5, <4>1, <4>2
    <3>2. IsFiniteSet(A) /\ Above(new, i) = Cardinality(A) + 1
      BY <1>4, <2>2
    <3> HIDE DEF A
    <3>3. QED
      BY <3>1, <3>2, FS_AddElement
  <2>3. QED
    BY <1>5, <2>1, <2>2
<1>7. Edited(new) = Append(Edited(keys), k)
  <2>1. /\ Left(keys) \in SUBSET (1 .. Len(new)) /\ n + 1 \in 1 .. Len(new)
        /\ \A i \in Left(keys) : i < n + 1
    BY <1>2, <1>3
  <2>2. Picked(new, Left(keys) \cup {n + 1})
          = Append(Picked(new, Left(keys)), new[n + 1])
    BY <1>2, <2>1, PickedMore
  <2>3. Picked(new, Left(keys)) = Picked(keys, Left(keys))
    BY <1>1, <1>3, PickedSame DEF new, n
  <2>4. QED
    BY <1>2, <1>5, <2>2, <2>3 DEF Edited, Left
<1>8. QED
  BY <1>6, <1>7 DEF Balanced, new

\* An erasure takes the last character that is left.
LEMMA EraseKey ==
    ASSUME NEW keys \in Seq(Keys), Balanced(keys)
    PROVE  /\ Balanced(Append(keys, "erase"))
           /\ Edited(Append(keys, "erase"))
                = IF Edited(keys) = <<>> THEN <<>> ELSE Front(Edited(keys))
<1> DEFINE new == Append(keys, "erase")
           n == Len(keys)
<1>1. "erase" \in Keys /\ "erase" \notin Characters
  BY DEF Keys, Characters, Controls
<1>2. n \in Nat /\ new \in Seq(Keys) /\ Len(new) = n + 1
  BY <1>1, LenProperties, AppendProperties
<1>3. /\ Left(keys) \in SUBSET (1 .. n)
      /\ Left(new) = {i \in Left(keys) : Above(new, i) >= 0}
  BY <1>1, LeftStep
<1>4. ASSUME NEW i \in Left(keys)
      PROVE  /\ i \in 1 .. n /\ Above(new, i) = Above(keys, i) - 1
             /\ Above(keys, i) \in Nat
             /\ Above(keys, i) = Cardinality({j \in Left(keys) : j > i})
             /\ IsFiniteSet({j \in Left(keys) : j > i})
  <2>1. i \in 1 .. n
    BY <1>3
  <2>2. Above(new, i) = Above(keys, i) - 1 /\ Above(keys, i) \in Int
    BY <1>1, <2>1, AboveStep
  <2>3. /\ Cardinality({j \in Left(keys) : j > i}) \in Nat
        /\ IsFiniteSet({j \in Left(keys) : j > i})
    <3>1. {j \in Left(keys) : j > i} \in SUBSET (1 .. n)
      BY <1>3
    <3>2. QED
      BY <1>2, <3>1, Positions
  <2>4. QED
    BY <2>1, <2>2, <2>3 DEF Balanced
<1> HIDE DEF new, n
<1>5. /\ Edited(keys) = Picked(keys, Left(keys))
      /\ Edited(new) = Picked(new, Left(new))
  BY DEF Edited, Left
<1>6. /\ Edited(keys) \in Seq(Keys)
      /\ Len(Edited(keys)) = Cardinality(Left(keys))
  BY <1>3, <1>5, PickedProperties DEF n
<1>7. \A S \in SUBSET (1 .. n) : Picked(new, S) = Picked(keys, S)
  BY <1>1, PickedSame DEF new, n
<1>8. CASE Left(keys) = {}
  <2>1. Left(new) = {}
    BY <1>3, <1>8
  <2>2. Edited(keys) = <<>>
    BY <1>6, <1>8, FS_EmptySet, EmptySeq
  <2>3. Edited(new) = <<>>
    BY <1>3, <1>5, <1>7, <1>8, <2>1, <2>2
  <2>4. Balanced(new)
    BY <2>1 DEF Balanced
  <2>5. QED
    BY <2>2, <2>3, <2>4 DEF new
<1>9. CASE Left(keys) /= {}
  <2>1. PICK t \in Left(keys) : \A i \in Left(keys) : i <= t
    BY <1>2, <1>3, <1>9, LastPosition
  <2>2. \A i \in Left(keys) : i \in Int
    BY <1>3
  <2>3. t \notin Left(new)
    <3>1. {j \in Left(keys) : j > t} = {}
      BY <2>1, <2>2
    <3>2. /\ Above(keys, t) = Cardinality({j \in Left(keys) : j > t})
          /\ Above(new, t) = Above(keys, t) - 1
      BY <1>4
    <3>3. Above(keys, t) = 0
      BY <3>1, <3>2, FS_EmptySet
    <3>4. ~(Above(new, t) >= 0)
      BY <3>2, <3>3
    <3>5. QED
      BY <1>3, <3>4
  <2>4. ASSUME NEW i \in Left(keys), i /= t PROVE i \in Left(new)
    <3> DEFINE A == {j \in Left(keys) : j > i}
    <3>1. t \in A
      BY <2>1, <2>2, <2>4
    <3>2. IsFiniteSet(A) /\ Above(keys, i) = Cardinality(A)
      BY <1>4
    <3> HIDE DEF A
    <3>3. Cardinality(A) /= 0
      BY <3>1, <3>2, FS_EmptySet
    <3>4. Above(keys, i) \in Nat /\ Above(new, i) = Above(keys, i) - 1
      BY <1>4
    <3>5. Above(new, i) >= 0
      BY <3>2, <3>3, <3>4
    <3>6. QED
      BY <1>3, <3>5
  <2>5. Left(new) = Left(keys) \ {t}
    BY <1>3, <2>3, <2>4
  <2>6. ASSUME NEW i \in Left(new)
        PROVE  Above(new, i) = Cardinality({j \in Left(new) : j > i})
    <3> DEFINE A == {j \in Left(keys) : j > i}
    <3>1. i \in Left(keys) /\ i /= t
      BY <2>5
    <3>2. t \in A /\ {j \in Left(new) : j > i} = A \ {t}
      BY <2>1, <2>2, <2>5, <3>1
    <3>3. IsFiniteSet(A) /\ Above(new, i) = Cardinality(A) - 1
      BY <1>4, <3>1
    <3> HIDE DEF A
    <3>4. QED
      BY <3>2, <3>3, FS_RemoveElement
  <2>7. /\ Left(new) \in SUBSET (1 .. n) /\ t \in 1 .. n
        /\ \A i \in Left(new) : i < t
        /\ Left(new) \cup {t} = Left(keys)
    BY <1>3, <2>1, <2>2, <2>5
  <2>8. Edited(keys) = Append(Picked(keys, Left(new)), keys[t])
    <3>1. Picked(keys, Left(new) \cup {t})
            = Append(Picked(keys, Left(new)), keys[t])
      BY <2>7, PickedMore DEF n
    <3>2. QED
      BY <1>5, <2>7, <3>1
  <2>9. Edited(new) = Picked(keys, Left(new))
    BY <1>5, <1>7, <2>7
  <2>10. Edited(new) \in Seq(Keys) /\ keys[t] \in Keys
    BY <2>7, <2>9, PickedProperties, ElementOfSeq DEF n
  <2>11. Edited(keys) /= <<>> /\ Front(Edited(keys)) = Edited(new)
    BY <2>8, <2>9, <2>10, FrontOfAppend
  <2>12. QED
    BY <2>6, <2>11 DEF Balanced, new
<1>10. QED
  BY <1>8, <1>9

-----------------------------------------------------------------------------
\* What a character does to a password whose escapes are undone.

NotEscapes(chars) == {i \in DOMAIN chars : ~Escapes(chars, i)}

EndsPlain(chars) == chars /= <<>> => chars[Len(chars)] /= "backslash"

LEMMA EscapesStep ==
    ASSUME NEW X, NEW chars \in Seq(X), NEW c \in X, NEW i \in 1 .. Len(chars),
           \/ i < Len(chars) \/ chars[i] /= "backslash"
           \/ c \notin {"special", "backslash"}
    PROVE  Escapes(Append(chars, c), i) <=> Escapes(chars, i)
<1> DEFINE new == Append(chars, c)
           Run(s) == {n \in 1 .. i : \A m \in n .. i : s[m] = "backslash"}
           Odd(s) == Cardinality(Run(s)) % 2 = 1
<1>1. /\ Len(chars) \in Nat /\ Len(new) = Len(chars) + 1
      /\ new[Len(chars) + 1] = c
      /\ \A m \in 1 .. Len(chars) : new[m] = chars[m]
  BY LenProperties, AppendProperties
<1>2. Odd(new) <=> Odd(chars)
  <2>1. ASSUME NEW n \in 1 .. i, NEW m \in n .. i PROVE new[m] = chars[m]
    BY <1>1
  <2>2. Run(new) = Run(chars)
    BY <2>1
  <2> HIDE DEF Run
  <2>3. QED
    BY <2>2
<1>3. /\ Escapes(new, i) <=>
            /\ new[i] = "backslash"
            /\ i < Len(new) /\ new[i + 1] \in {"special", "backslash"}
            /\ Odd(new)
      /\ Escapes(chars, i) <=>
            /\ chars[i] = "backslash"
            /\ i < Len(chars) /\ chars[i + 1] \in {"special", "backslash"}
            /\ Odd(chars)
  BY DEF Escapes
<1> HIDE DEF new, Odd
<1>4. i \in Int /\ 1 <= i /\ i <= Len(chars) /\ new[i] = chars[i]
  BY <1>1
<1>5. ASSUME i < Len(chars) PROVE Escapes(new, i) <=> Escapes(chars, i)
  <2>1. new[i + 1] = chars[i + 1] /\ i < Len(new)
    BY <1>1, <1>4, <1>5
  <2>2. QED
    BY <1>2, <1>3, <1>4, <1>5, <2>1
<1>6. ASSUME i = Len(chars) PROVE Escapes(new, i) <=> Escapes(chars, i)
  <2>1. /\ ~(i < Len(chars)) /\ new[i + 1] = c
        /\ chars[i] /= "backslash" \/ c \notin {"special", "backslash"}
    BY <1>1, <1>6
  <2>2. QED
    BY <1>3, <1>4, <2>1
<1>7. Escapes(new, i) <=> Escapes(chars, i)
  BY <1>1, <1>4, <1>5, <1>6
<1>8. QED
  BY <1>7 DEF new

\* A character that no backslash escapes.
LEMMA PlainCharacter ==
    ASSUME NEW X, NEW chars \in Seq(X), NEW c \in X,
           EndsPlain(chars) \/ c \notin {"special", "backslash"}
    PROVE  Unescaped(Append(chars, c)) = Append(Unescaped(chars), c)
<1> DEFINE new == Append(chars, c)
           n == Len(chars)
<1>1. /\ n \in Nat /\ new \in Seq(X) /\ Len(new) = n + 1 /\ new[n + 1] = c
      /\ DOMAIN chars = 1 .. n /\ DOMAIN new = 1 .. n + 1
  BY LenProperties, AppendProperties
<1>2. ASSUME NEW i \in 1 .. n PROVE Escapes(new, i) <=> Escapes(chars, i)
  <2>1. \/ i < n \/ chars[i] /= "backslash"
        \/ c \notin {"special", "backslash"}
    <3>1. i < n \/ i = n
      <4> n \in Nat /\ i \in 1 .. n
        BY <1>1
      <4> HIDE DEF n
      <4> QED
        OBVIOUS
    <3>2. chars /= <<>>
      BY <1>1, EmptySeq
    <3>3. QED
      BY <3>1, <3>2 DEF EndsPlain
  <2>2. QED
    BY <2>1, EscapesStep
<1>3. ~Escapes(new, n + 1)
  BY <1>1 DEF Escapes
<1>4. 1 .. n + 1 = (1 .. n) \cup {n + 1}
  BY <1>1
<1> HIDE DEF new, n
<1>5. /\ NotEscapes(new) = NotEscapes(chars) \cup {n + 1}
      /\ NotEscapes(chars) \in SUBSET (1 .. n)
  BY <1>1, <1>2, <1>3, <1>4 DEF NotEscapes
<1>6. /\ NotEscapes(chars) \in SUBSET (1 .. Len(new)) /\ n + 1 \in 1 .. Len(new)
      /\ \A i \in NotEscapes(chars) : i < n + 1
  BY <1>1, <1>5
<1>7. Picked(new, NotEscapes(chars) \cup {n + 1})
        = Append(Picked(new, NotEscapes(chars)), new[n + 1])
  BY <1>1, <1>6, PickedMore
<1>8. Picked(new, NotEscapes(chars)) = Picked(chars, NotEscapes(chars))
  BY <1>5, PickedSame DEF new, n
<1>9. QED
  BY <1>1, <1>5, <1>7, <1>8 DEF Unescaped, NotEscapes, new

\* The backslash before a special character is left out.
LEMMA EscapedCharacter ==
    ASSUME NEW X, NEW chars \in Seq(X), "backslash" \in X, "special" \in X,
           EndsPlain(chars)
    PROVE  Unescaped(Append(Append(chars, "backslash"), "special"))
             = Append(Unescaped(chars), "special")
<1> DEFINE mid == Append(chars, "backslash")
           new == Append(mid, "special")
           n == Len(chars)
<1>1. /\ n \in Nat /\ mid \in Seq(X) /\ Len(mid) = n + 1
      /\ mid[n + 1] = "backslash"
      /\ \A m \in 1 .. n : mid[m] = chars[m]
  BY LenProperties, AppendProperties
<1>2. /\ new \in Seq(X) /\ Len(new) = n + 2 /\ new[n + 2] = "special"
      /\ \A m \in 1 .. n + 1 : new[m] = mid[m]
  <2> HIDE DEF mid, n
  <2>1. /\ new \in Seq(X) /\ Len(new) = Len(mid) + 1
        /\ new[Len(mid) + 1] = "special"
        /\ \A m \in 1 .. Len(mid) : new[m] = mid[m]
    BY <1>1, AppendProperties
  <2>2. Len(mid) + 1 = n + 2
    BY <1>1
  <2>3. QED
    BY <1>1, <2>1, <2>2
<1>3. DOMAIN chars = 1 .. n /\ DOMAIN new = 1 .. n + 2
  BY <1>2, LenProperties
<1>4. ASSUME NEW i \in 1 .. n PROVE Escapes(new, i) <=> Escapes(chars, i)
  <2>1. i \in 1 .. Len(mid) /\ i < Len(mid)
    BY <1>1
  <2>2. Escapes(new, i) <=> Escapes(mid, i)
    <3> HIDE DEF mid
    <3>1. QED
      BY <1>1, <2>1, EscapesStep
  <2>3. i < n \/ chars[i] /= "backslash"
    <3>1. i < n \/ i = n
      BY <1>1
    <3>2. chars /= <<>>
      BY <1>1, EmptySeq
    <3>3. QED
      BY <3>1, <3>2 DEF EndsPlain
  <2>4. Escapes(mid, i) <=> Escapes(chars, i)
    BY <2>3, EscapesStep
  <2>5. QED
    BY <2>2, <2>4
<1>5. ~Escapes(new, n + 2)
  BY <1>1, <1>2 DEF Escapes
<1> HIDE DEF mid, new, n
<1>6. Escapes(new, n + 1)
  <2> DEFINE Run == {k \in 1 .. n + 1 :
                       \A m \in k .. n + 1 : new[m] = "backslash"}
  <2>1. /\ new[n + 1] = "backslash" /\ n + 1 < Len(new)
        /\ new[n + 1 + 1] = "special"
    BY <1>1, <1>2
  <2>2. n + 1 \in Run
    BY <1>1, <2>1
  <2>3. ASSUME NEW k \in Run PROVE k = n + 1
    <3>1. CASE k < n + 1
      <4>1. n \in k .. n + 1 /\ n \in 1 .. n
        BY <1>1, <3>1
      <4>2. chars[n] = "backslash"
        BY <1>1, <1>2, <4>1
      <4>3. chars /= <<>>
        BY <1>1, <4>1, EmptySeq DEF n
      <4>4. QED
        BY <4>2, <4>3 DEF EndsPlain, n
    <3>2. CASE ~(k < n + 1)
      BY <1>1, <3>2
    <3>3. QED
      BY <3>1, <3>2
  <2>4. Run = {n + 1}
    BY <2>2, <2>3
  <2>5. Cardinality(Run) = 1
    BY <2>4, FS_Singleton
  <2>6. Cardinality(Run) % 2 = 1
    BY <2>5
  <2>7. QED
    BY <2>1, <2>6 DEF Escapes
<1>7. 1 .. n + 2 = (1 .. n) \cup {n + 1, n + 2}
  BY <1>1
<1>8. /\ NotEscapes(new) = NotEscapes(chars) \cup {n + 2}
      /\ NotEscapes(chars) \in SUBSET (1 .. n)
  BY <1>1, <1>3, <1>4, <1>5, <1>6, <1>7 DEF NotEscapes
<1>9. /\ NotEscapes(chars) \in SUBSET (1 .. Len(mid))
      /\ NotEscapes(chars) \in SUBSET (1 .. Len(new))
      /\ n + 2 \in 1 .. Len(new)
      /\ \A i \in NotEscapes(chars) : i < n + 2
  BY <1>1, <1>2, <1>8
<1>10. Picked(new, NotEscapes(chars) \cup {n + 2})
         = Append(Picked(new, NotEscapes(chars)), new[n + 2])
  BY <1>2, <1>9, PickedMore
<1>11. Picked(new, NotEscapes(chars)) = Picked(mid, NotEscapes(chars))
  BY <1>1, <1>9, PickedSame DEF new
<1>12. Picked(mid, NotEscapes(chars)) = Picked(chars, NotEscapes(chars))
  BY <1>8, PickedSame DEF mid, n
<1>13. QED
  BY <1>2, <1>8, <1>10, <1>11, <1>12 DEF Unescaped, NotEscapes, new, mid

\* Without a backslash nothing is left out.
LEMMA NothingEscaped ==
    ASSUME NEW X, NEW chars \in Seq(X), "backslash" \notin X
    PROVE  Unescaped(chars) = chars
<1>1. /\ DOMAIN chars = 1 .. Len(chars)
      /\ \A i \in 1 .. Len(chars) : chars[i] \in X
  BY LenProperties, ElementOfSeq
<1>2. {i \in DOMAIN chars : ~Escapes(chars, i)} = 1 .. Len(chars)
  BY <1>1 DEF Escapes
<1>3. QED
  BY <1>2, PickedAll DEF Unescaped

-----------------------------------------------------------------------------
\* What a key that is read does, by the key.
KeyStep(key) ==
    \/ key = "enter" /\ Enter
    \/ key = "erase" /\ Erase
    \/ key = "ctrl-c" /\ CtrlC
    \/ key = "ctrl-d" /\ CtrlD
    \/ key = "control" /\ Control
    \/ key = "backslash" /\ PasswordBackslash
    \/ key \in Characters /\ LineCharacter(key)
    \/ key \in {"plain", "special"} /\ PasswordCharacter(key)

LEMMA StepsAreKeys ==
    ASSUME [Next]_vars
    PROVE  \/ \E key \in Keys : KeyStep(key)
           \/ /\ UNCHANGED <<reader, line, lastChar, typed>>
              /\ result' \in {result, "error"}
<1>1. CASE Enter \/ Erase \/ CtrlC \/ CtrlD \/ Control \/ PasswordBackslash
  BY <1>1, Zenon DEF KeyStep, Keys, Characters, Controls
<1>2. ASSUME NEW char \in Characters, LineCharacter(char)
      PROVE  \E key \in Keys : KeyStep(key)
  BY <1>2, Zenon DEF KeyStep, Keys
<1>3. ASSUME NEW char \in {"plain", "special"}, PasswordCharacter(char)
      PROVE  \E key \in Keys : KeyStep(key)
  <2>1. char \in Keys
    BY DEF Keys, Characters
  <2>2. QED
    BY <1>3, <2>1, Zenon DEF KeyStep
<1>4. CASE ReadFails
  BY <1>4 DEF ReadFails
<1>5. CASE UNCHANGED vars
  BY <1>5 DEF vars
<1>6. QED
  BY <1>1, <1>2, <1>3, <1>4, <1>5, Zenon DEF Next

LEMMA KeyStepReads ==
    ASSUME NEW key \in Keys, KeyStep(key)
    PROVE  /\ typed' = Append(typed, key) /\ reader' = reader
           /\ result = "reading"
BY DEF KeyStep, Read, Enter, Erase, CtrlC, CtrlD, Control, PasswordBackslash,
       LineCharacter, PasswordCharacter

-----------------------------------------------------------------------------
\* The inductive invariant of readLine.
LineInv ==
    /\ Balanced(typed)
    /\ reader = "readLine" =>
          line = Edited(typed) /\ (result = "exit" => line = <<>>)

LEMMA NoKeys == Left(<<>>) = {} /\ Edited(<<>>) = <<>> /\ Balanced(<<>>)
<1>1. Left(<<>>) = {}
  BY DEF Left
<1>2. Cardinality({}) = 0
  BY FS_EmptySet
<1>3. Picked(<<>>, {}) = <<>>
  <2>1. <<>> \in Seq({}) /\ {} \in SUBSET (1 .. Len(<<>>))
    OBVIOUS
  <2>2. /\ Picked(<<>>, {}) \in Seq({})
        /\ Len(Picked(<<>>, {})) = 0
    BY <1>2, <2>1, PickedProperties
  <2>3. QED
    BY <2>2, EmptySeq
<1>4. Edited(<<>>) = <<>>
  BY <1>1, <1>3 DEF Edited, Left
<1>5. QED
  BY <1>1, <1>4 DEF Balanced

LEMMA LineInvStep ==
    ASSUME TypeOK, LineInv, [Next]_vars
    PROVE  LineInv'
<1>1. typed \in Seq(Keys) /\ Balanced(typed)
  BY DEF TypeOK, LineInv
<1>2. CASE UNCHANGED <<reader, line, lastChar, typed>>
            /\ result' \in {result, "error"}
  BY <1>2 DEF LineInv
<1>3. ASSUME NEW key \in Keys, KeyStep(key) PROVE LineInv'
  <2>1. /\ typed' = Append(typed, key) /\ reader' = reader
        /\ result = "reading"
    BY <1>3, KeyStepReads
  <2>2. CASE key \in Characters
    <3>1. /\ Balanced(typed')
          /\ Edited(typed') = Append(Edited(typed), key)
      BY <1>1, <2>1, <2>2, CharacterKey
    <3>2. ASSUME reader = "readLine"
          PROVE  line' = Append(line, key) /\ result' = "reading"
      BY <1>3, <2>1, <2>2, <3>2
         DEF KeyStep, LineCharacter, PasswordBackslash, PasswordCharacter,
             Characters
    <3>3. QED
      BY <2>1, <3>1, <3>2 DEF LineInv
  <2>3. CASE key = "erase"
    <3>1. /\ Balanced(typed')
          /\ Edited(typed') = IF Edited(typed) = <<>>
                              THEN <<>> ELSE Front(Edited(typed))
      BY <1>1, <2>1, <2>3, EraseKey
    <3>2. /\ line' = IF line = <<>> THEN <<>> ELSE Front(line)
          /\ result' = "reading"
      BY <1>3, <2>1, <2>3 DEF KeyStep, Erase, Characters
    <3>3. QED
      BY <2>1, <3>1, <3>2 DEF LineInv
  <2>4. CASE key \notin Characters /\ key /= "erase"
    <3>1. Balanced(typed') /\ Edited(typed') = Edited(typed)
      BY <1>1, <2>1, <2>4, OtherKey
    <3>2. /\ line' = line
          /\ reader = "readLine" /\ result' = "exit" => line = <<>>
      BY <1>3, <2>1, <2>4
         DEF KeyStep, Enter, CtrlC, CtrlD, Control, Characters
    <3>3. QED
      BY <2>1, <3>1, <3>2 DEF LineInv
  <2>5. QED
    BY <2>2, <2>3, <2>4
<1>4. QED
  BY <1>2, <1>3, StepsAreKeys

\* readLine returns what is left of the keys that were typed, in their order,
\* however long the line and however it was edited; and Ctrl-D ends the session
\* only on an empty line.
THEOREM LineAlwaysIsTyped == Spec => []LineIsTyped
<1>1. Init => LineInv
  BY NoKeys DEF Init, LineInv
<1>2. TypeOK /\ LineInv /\ [Next]_vars => LineInv'
  BY LineInvStep
<1>3. LineInv => LineIsTyped
  BY DEF LineInv, LineIsTyped
<1>4. QED
  BY <1>1, <1>2, <1>3, TypeCorrect, PTL DEF Spec

-----------------------------------------------------------------------------
\* The inductive invariant of readPassword. Plain and Kept are the two cases of
\* NoBackslashLost, Kept for keys of which the last may be a backslash: lastChar
\* then holds it back.
Plain(keys) == \A i \in DOMAIN keys : keys[i] /= "backslash"
Kept(keys) ==
    \A i \in DOMAIN keys :
        /\ keys[i] /= "erase"
        /\ keys[i] = "backslash" /\ i < Len(keys) =>
              keys[i + 1] \in {"plain", "special"}

HeldBack(chars) ==
    /\ Edited(typed) = Append(chars, "backslash")
    /\ line = Unescaped(chars) /\ EndsPlain(chars)
PasswordInv ==
    reader = "readPassword" =>
        /\ Plain(typed) => ~lastChar /\ line = Edited(typed)
        /\ Kept(typed) =>
              /\ lastChar <=> ~EndsPlain(typed)
              /\ lastChar => \E chars \in Seq(Keys) : HeldBack(chars)
              /\ ~lastChar => /\ line = Unescaped(Edited(typed))
                              /\ EndsPlain(Edited(typed))

LEMMA EditedType ==
    ASSUME NEW X, NEW keys \in Seq(X) PROVE Edited(keys) \in Seq(X)
<1>1. {i \in DOMAIN keys : Stays(keys, i)} \in SUBSET (1 .. Len(keys))
  BY LenProperties
<1>2. QED
  BY <1>1, PickedProperties DEF Edited

LEMMA AppendTwo ==
    ASSUME NEW X, NEW s \in Seq(X), NEW x \in X, NEW y \in X
    PROVE  s \o <<x, y>> = Append(Append(s, x), y)
OBVIOUS

LEMMA EndOfAppend ==
    ASSUME NEW X, NEW s \in Seq(X), NEW x \in X
    PROVE  EndsPlain(Append(s, x)) <=> x /= "backslash"
<1>1. /\ Append(s, x) \in Seq(X)
      /\ Len(Append(s, x)) = Len(s) + 1 /\ Append(s, x)[Len(s) + 1] = x
      /\ Len(s) \in Nat
  BY LenProperties, AppendProperties
<1>2. Append(s, x) /= <<>>
  BY <1>1, EmptySeq
<1>3. QED
  BY <1>1, <1>2 DEF EndsPlain

\* If one of the two holds after a key, it held before it.
LEMMA KeptBefore ==
    ASSUME NEW keys \in Seq(Keys), NEW key \in Keys
    PROVE  /\ Plain(Append(keys, key)) => Plain(keys) /\ key /= "backslash"
           /\ Kept(Append(keys, key)) =>
                 /\ Kept(keys) /\ key /= "erase"
                 /\ ~EndsPlain(keys) => key \in {"plain", "special"}
<1> DEFINE new == Append(keys, key)
           n == Len(keys)
<1>1. /\ n \in Nat /\ Len(new) = n + 1 /\ new[n + 1] = key
      /\ \A i \in 1 .. n : new[i] = keys[i]
      /\ DOMAIN keys = 1 .. n /\ DOMAIN new = 1 .. n + 1
  BY LenProperties, AppendProperties
<1>2. n + 1 \in 1 .. n + 1 /\ \A i \in 1 .. n : i \in 1 .. n + 1
  BY <1>1
<1>3. keys /= <<>> => n \in 1 .. n
  BY <1>1, EmptySeq
<1> HIDE DEF new
<1>4. Plain(new) => Plain(keys) /\ key /= "backslash"
  BY <1>1, <1>2 DEF Plain
<1>5. ASSUME Kept(new)
      PROVE  /\ Kept(keys) /\ key /= "erase"
             /\ ~EndsPlain(keys) => key \in {"plain", "special"}
  <2>1. \A i \in 1 .. n + 1 :
          /\ new[i] /= "erase"
          /\ new[i] = "backslash" /\ i < n + 1 =>
                new[i + 1] \in {"plain", "special"}
    BY <1>1, <1>5 DEF Kept
  <2>2. key /= "erase"
    BY <1>1, <1>2, <2>1
  <2>3. ASSUME NEW i \in 1 .. n
        PROVE  /\ keys[i] /= "erase"
               /\ keys[i] = "backslash" =>
                     new[i + 1] \in {"plain", "special"}
    <3>1. i < n + 1 /\ new[i] = keys[i] /\ i \in 1 .. n + 1
      BY <1>1
    <3>2. QED
      BY <2>1, <3>1
  <2>4. Kept(keys)
    <3>1. ASSUME NEW i \in 1 .. n, i < n PROVE new[i + 1] = keys[i + 1]
      BY <1>1, <3>1
    <3>2. QED
      BY <1>1, <2>3, <3>1 DEF Kept
  <2>5. ~EndsPlain(keys) => key \in {"plain", "special"}
    BY <1>1, <1>3, <2>3 DEF EndsPlain
  <2>6. QED
    BY <2>2, <2>4, <2>5
<1>6. QED
  BY <1>4, <1>5 DEF new

LEMMA PasswordInvStep ==
    ASSUME TypeOK, LineInv, PasswordInv, [Next]_vars
    PROVE  PasswordInv'
<1>1. typed \in Seq(Keys) /\ Balanced(typed) /\ lastChar \in BOOLEAN
  BY DEF TypeOK, LineInv
<1>2. CASE UNCHANGED <<reader, line, lastChar, typed>>
  BY <1>2 DEF PasswordInv, HeldBack
<1>3. ASSUME NEW key \in Keys, KeyStep(key), reader' = "readPassword"
      PROVE  /\ Plain(typed)' => ~lastChar' /\ line' = Edited(typed')
             /\ Kept(typed)' =>
                   /\ lastChar' <=> ~EndsPlain(typed')
                   /\ lastChar' => \E chars \in Seq(Keys) : HeldBack(chars)'
                   /\ ~lastChar' => /\ line' = Unescaped(Edited(typed'))
                                    /\ EndsPlain(Edited(typed'))
  <2>1. typed' = Append(typed, key) /\ reader = "readPassword"
    BY <1>3, KeyStepReads
  <2>2. /\ Plain(typed) => ~lastChar /\ line = Edited(typed)
        /\ Kept(typed) =>
              /\ lastChar <=> ~EndsPlain(typed)
              /\ lastChar => \E chars \in Seq(Keys) : HeldBack(chars)
              /\ ~lastChar => /\ line = Unescaped(Edited(typed))
                              /\ EndsPlain(Edited(typed))
    BY <2>1 DEF PasswordInv
  <2>3. /\ Plain(typed') => Plain(typed) /\ key /= "backslash"
        /\ Kept(typed') =>
              /\ Kept(typed) /\ key /= "erase"
              /\ ~EndsPlain(typed) => key \in {"plain", "special"}
        /\ EndsPlain(typed') <=> key /= "backslash"
    BY <1>1, <2>1, KeptBefore, EndOfAppend
  <2>4. Edited(typed) \in Seq(Keys)
    BY <1>1, EditedType
  <2>5. CASE key \notin Characters /\ key /= "erase"
    <3>1. Edited(typed') = Edited(typed)
      BY <1>1, <2>1, <2>5, OtherKey
    <3>2. line' = line /\ lastChar' = lastChar
      BY <1>3, <2>5 DEF KeyStep, Enter, CtrlC, CtrlD, Control, Characters
    <3>3. Kept(typed') => ~lastChar
      BY <2>2, <2>3, <2>5 DEF Characters
    <3>4. key /= "backslash"
      BY <2>5 DEF Characters
    <3>5. QED
      BY <2>2, <2>3, <3>1, <3>2, <3>3, <3>4
  <2>6. CASE key = "erase"
    <3>1. Edited(typed') = IF Edited(typed) = <<>>
                           THEN <<>> ELSE Front(Edited(typed))
      BY <1>1, <2>1, <2>6, EraseKey
    <3>2. /\ line' = IF line = <<>> THEN <<>> ELSE Front(line)
          /\ lastChar' = lastChar
      BY <1>3, <2>6 DEF KeyStep, Erase, Characters
    <3>3. QED
      BY <2>2, <2>3, <2>6, <3>1, <3>2
  <2>7. CASE key = "backslash"
    <3>1. Edited(typed') = Append(Edited(typed), "backslash")
      BY <1>1, <2>1, <2>7, CharacterKey DEF Characters
    <3>2. line' = line /\ lastChar' = TRUE
      BY <1>3, <2>1, <2>7
         DEF KeyStep, PasswordBackslash, LineCharacter
    <3>3. Kept(typed') => ~lastChar /\ Kept(typed)
      BY <2>2, <2>3, <2>7
    <3>4. ASSUME Kept(typed')
          PROVE  \E chars \in Seq(Keys) : HeldBack(chars)'
      <4>2. PICK chars \in Seq(Keys) : chars = Edited(typed)
        BY <2>4
      <4>3. HeldBack(chars)'
        BY <2>2, <3>1, <3>2, <3>3, <3>4, <4>2 DEF HeldBack
      <4>4. QED
        BY <4>3
    <3>5. QED
      BY <2>3, <2>7, <3>2, <3>4
  <2>8. CASE key \in {"plain", "special"}
    <3>1. Edited(typed') = Append(Edited(typed), key)
      BY <1>1, <2>1, <2>8, CharacterKey DEF Characters
    <3>2. /\ line' = IF lastChar /\ key /= "special"
                     THEN line \o <<"backslash", key>> ELSE Append(line, key)
          /\ lastChar' = FALSE
      BY <1>3, <2>1, <2>8
         DEF KeyStep, PasswordCharacter, LineCharacter
    <3>3. ASSUME Kept(typed')
          PROVE  /\ line' = Unescaped(Edited(typed'))
                 /\ EndsPlain(Edited(typed'))
      <4>1. EndsPlain(Edited(typed'))
        BY <2>4, <2>8, <3>1, EndOfAppend
      <4>2. CASE ~lastChar
        <5>1. line = Unescaped(Edited(typed)) /\ EndsPlain(Edited(typed))
          BY <2>2, <2>3, <3>3, <4>2
        <5>2. Unescaped(Append(Edited(typed), key))
                = Append(Unescaped(Edited(typed)), key)
          BY <2>4, <5>1, PlainCharacter
        <5>3. QED
          BY <3>1, <3>2, <4>1, <4>2, <5>1, <5>2
      <4>3. CASE lastChar
        <5>1. PICK chars \in Seq(Keys) : HeldBack(chars)
          BY <2>2, <2>3, <3>3, <4>3
        <5>2. /\ Edited(typed') = Append(Append(chars, "backslash"), key)
              /\ line = Unescaped(chars) /\ EndsPlain(chars)
          BY <3>1, <5>1 DEF HeldBack
        <5>3. CASE key = "special"
          <6>1. Unescaped(Append(Append(chars, "backslash"), "special"))
                  = Append(Unescaped(chars), "special")
            BY <5>2, EscapedCharacter DEF Keys, Characters
          <6>2. QED
            BY <3>2, <4>1, <5>2, <5>3, <6>1
        <5>4. CASE key = "plain"
          <6>1. "backslash" \in Keys
            BY DEF Keys, Characters
          <6>2. /\ Append(chars, "backslash") \in Seq(Keys)
                /\ Unescaped(Append(chars, "backslash"))
                     = Append(line, "backslash")
            BY <5>2, <6>1, PlainCharacter, AppendProperties
          <6>3. Unescaped(Append(Append(chars, "backslash"), "plain"))
                  = Append(Append(line, "backslash"), "plain")
            BY <5>4, <6>2, PlainCharacter
          <6>4. line' = Append(Append(line, "backslash"), "plain")
            BY <3>2, <4>3, <5>4, AppendTwo DEF TypeOK, Characters
          <6>5. QED
            BY <4>1, <5>2, <5>4, <6>3, <6>4
        <5>5. QED
          BY <2>8, <5>3, <5>4
      <4>4. QED
        BY <1>1, <4>2, <4>3
    <3>4. ASSUME Plain(typed') PROVE line' = Edited(typed')
      BY <2>2, <2>3, <3>1, <3>2, <3>4
    <3>5. QED
      BY <2>3, <2>8, <3>2, <3>3, <3>4
  <2>9. QED
    BY <2>5, <2>6, <2>7, <2>8 DEF Characters
<1>4. QED
  BY <1>2, <1>3, StepsAreKeys DEF PasswordInv

\* A password in which no backslash is lost is the one that was typed, without
\* its escapes: one without a backslash however it was edited, and one that was
\* not edited and has a character after each backslash.
THEOREM EscapesAlwaysUndone == Spec => []EscapesUndone
<1>1. Init => LineInv /\ PasswordInv
  <2>1. Unescaped(<<>>) = <<>>
    <3>1. <<>> \in Seq({}) /\ "backslash" \notin {}
      OBVIOUS
    <3>2. QED
      BY <3>1, NothingEscaped
  <2>2. EndsPlain(<<>>)
    BY DEF EndsPlain
  <2>3. QED
    BY NoKeys, <2>1, <2>2 DEF Init, LineInv, PasswordInv
<1>2. TypeOK /\ LineInv /\ PasswordInv /\ [Next]_vars
        => LineInv' /\ PasswordInv'
  BY LineInvStep, PasswordInvStep
<1>3. TypeOK /\ PasswordInv => EscapesUndone
  <2> SUFFICES ASSUME TypeOK, PasswordInv, NoBackslashLost, PasswordRead
      PROVE  line = Unescaped(Edited(typed))
    BY DEF EscapesUndone, PasswordAsTyped
  <2>1. /\ typed \in Seq(Keys)
        /\ DOMAIN typed = 1 .. Len(typed) /\ Len(typed) \in Nat
    BY LenProperties DEF TypeOK
  <2>2. /\ Plain(typed) => line = Edited(typed)
        /\ Kept(typed) /\ EndsPlain(typed) => line = Unescaped(Edited(typed))
    BY DEF PasswordInv, PasswordRead
  <2>3. CASE Plain(typed)
    <3>1. typed \in Seq(Keys \ {"backslash"})
      BY <2>1, <2>3, ElementOfSeq DEF Plain
    <3>2. Edited(typed) \in Seq(Keys \ {"backslash"})
      BY <3>1, EditedType
    <3>3. Unescaped(Edited(typed)) = Edited(typed)
      BY <3>2, NothingEscaped
    <3>4. QED
      BY <2>2, <2>3, <3>3
  <2>4. CASE \A i \in DOMAIN typed :
                /\ typed[i] /= "erase"
                /\ typed[i] = "backslash" =>
                      /\ i < Len(typed)
                      /\ typed[i + 1] \in {"plain", "special"}
    <3>1. Kept(typed)
      BY <2>4 DEF Kept
    <3>2. EndsPlain(typed)
      <4>1. typed /= <<>> => Len(typed) \in 1 .. Len(typed)
        BY <2>1, EmptySeq
      <4>2. ~(Len(typed) < Len(typed))
        BY <2>1
      <4>3. QED
        BY <2>1, <2>4, <4>1, <4>2 DEF EndsPlain
    <3>3. QED
      BY <2>2, <3>1, <3>2
  <2>5. QED
    BY <2>3, <2>4 DEF NoBackslashLost, Plain
<1>4. QED
  BY <1>1, <1>2, <1>3, TypeCorrect, PTL DEF Spec
=============================================================================
