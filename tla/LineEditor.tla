----------------------------- MODULE LineEditor -----------------------------
(***************************************************************************)
(* The two readers of a prompt (src/internal/ssh/bastion.go): readLine,    *)
(* which echoes, and readPassword, which does not and which undoes the     *)
(* escapes a shell may have put before special characters. They read one   *)
(* byte at a time; a key stands for the bytes that the code treats alike.  *)
(***************************************************************************)
EXTENDS Integers, SequencesExt

CONSTANT MaxKeys    \* bound: keys typed at a prompt

Characters == {"plain", "special", "backslash"}
Controls == {"erase", "enter", "ctrl-c", "ctrl-d", "control"}
Keys == Characters \cup Controls

VARIABLES
    reader,     \* "readLine" or "readPassword"
    line,       \* line, or password
    lastChar,   \* readPassword holds a backslash back
    screen,     \* what the reader has written to the terminal
    result,     \* "reading", "line", "exit", "interrupted", "error"
    typed       \* ghost: the keys read since the prompt

vars == <<reader, line, lastChar, screen, result, typed>>

TypeOK ==
    /\ reader \in {"readLine", "readPassword"}
    /\ line \in Seq(Characters)
    /\ lastChar \in BOOLEAN /\ (lastChar => reader = "readPassword")
    /\ screen \in Seq(Characters \cup {"prompt", "^C", "newline"})
    /\ result \in {"reading", "line", "exit", "interrupted", "error"}
    /\ typed \in Seq(Keys)

Init ==
    /\ reader \in {"readLine", "readPassword"}
    /\ line = <<>> /\ lastChar = FALSE
    /\ screen = <<"prompt">>
    /\ result = "reading"
    /\ typed = <<>>

Read(key) ==
    /\ result = "reading"
    /\ typed' = Append(typed, key)
    /\ UNCHANGED reader

WriteLine(text) ==
    screen' = IF reader = "readLine" THEN screen \o text ELSE screen

----------------------------------------------------------------------------
\* '\r' or '\n'.
Enter ==
    /\ Read("enter")
    /\ result' = "line"
    /\ WriteLine(<<"newline">>)
    /\ UNCHANGED <<line, lastChar>>

\* Backspace without a look at the length of the line.
EraseAny ==
    /\ Read("erase")
    /\ line' = IF line = <<>> THEN line ELSE Front(line)
    /\ screen' = IF reader = "readLine" THEN Front(screen) ELSE screen
    /\ UNCHANGED <<lastChar, result>>

\* 127 or 8.
Erase ==
    /\ Read("erase")
    /\ \/ line = <<>> /\ UNCHANGED <<line, screen>>
       \/ /\ line /= <<>>
          /\ line' = Front(line)
          /\ screen' = IF reader = "readLine" THEN Front(screen) ELSE screen
    /\ UNCHANGED <<lastChar, result>>

CtrlC ==
    /\ Read("ctrl-c")
    /\ result' = "interrupted"
    /\ WriteLine(<<"^C", "newline">>)
    /\ UNCHANGED <<line, lastChar>>

\* Ctrl-D in the middle of a line taken for the end.
CtrlDAnywhere ==
    /\ Read("ctrl-d")
    /\ result' = IF reader = "readLine" THEN "exit" ELSE result
    /\ UNCHANGED <<line, lastChar, screen>>

\* readPassword has no case for it.
CtrlD ==
    /\ Read("ctrl-d")
    /\ result' = IF reader = "readLine" /\ line = <<>> THEN "exit" ELSE result
    /\ UNCHANGED <<line, lastChar, screen>>

\* Bytes below 32 and above 126 that have no case of their own.
Control == Read("control") /\ UNCHANGED <<line, lastChar, screen, result>>

LineCharacter(char) ==
    /\ reader = "readLine" /\ Read(char)
    /\ line' = Append(line, char)
    /\ screen' = Append(screen, char)
    /\ UNCHANGED <<lastChar, result>>

\* case '\\': a second backslash finds the first still held back.
PasswordBackslash ==
    /\ reader = "readPassword" /\ Read("backslash")
    /\ lastChar' = TRUE
    /\ UNCHANGED <<line, screen, result>>

\* lastChar not reset.
PasswordCharacterKept(char) ==
    /\ reader = "readPassword" /\ Read(char)
    /\ line' = IF lastChar /\ char /= "special"
               THEN line \o <<"backslash", char>> ELSE Append(line, char)
    /\ UNCHANGED <<lastChar, screen, result>>

\* The default case: '!', '$', '`' and '"' are special.
PasswordCharacter(char) ==
    /\ reader = "readPassword" /\ Read(char)
    /\ line' = IF lastChar /\ char /= "special"
               THEN line \o <<"backslash", char>> ELSE Append(line, char)
    /\ lastChar' = FALSE
    /\ UNCHANGED <<screen, result>>

\* The channel ends while a key is awaited.
ReadFails ==
    /\ result = "reading"
    /\ result' = "error"
    /\ UNCHANGED <<reader, line, lastChar, screen, typed>>

Next ==
    \/ /\ Len(typed) < MaxKeys
       /\ \/ Enter \/ Erase \/ CtrlC \/ CtrlD \/ Control \/ PasswordBackslash
          \/ \E char \in Characters : LineCharacter(char)
          \/ \E char \in {"plain", "special"} : PasswordCharacter(char)
    \/ ReadFails

Spec == Init /\ [][Next]_vars

----------------------------------------------------------------------------
\* Properties.

\* The elements of a sequence at some of its positions, in their order.
Rank(S, i) == Cardinality({j \in S : j <= i})
Picked(seq, S) ==
    [n \in 1 .. Cardinality(S) |-> seq[CHOOSE i \in S : Rank(S, i) = n]]

Count(keys, i, j, S) == Cardinality({n \in i .. j : keys[n] \in S})

\* The characters typed that are left of the line: a key's character stays
\* unless, at some point after it, there have been more erasures than
\* characters.
Stays(keys, i) ==
    /\ keys[i] \in Characters
    /\ \A j \in i + 1 .. Len(keys) :
          Count(keys, i + 1, j, {"erase"}) <= Count(keys, i + 1, j, Characters)
Edited(keys) == Picked(keys, {i \in DOMAIN keys : Stays(keys, i)})

\* readLine returns what is left of the keys, in their order; only an empty
\* line gives exit to Ctrl-D.
LineIsTyped ==
    reader = "readLine" =>
        /\ line = Edited(typed)
        /\ result = "exit" => line = <<>>

\* The terminal shows the prompt and the line as it will be returned, and of a
\* password nothing: an erasure never takes away the prompt.
ScreenShowsLine ==
    result \in {"reading", "exit", "error"} =>
        screen = <<"prompt">> \o (IF reader = "readLine" THEN line ELSE <<>>)

\* bastion.go:603: a backslash before a special character, which another one is,
\* is an escape and is left out; any other belongs to the password.
Escapes(chars, i) ==
    /\ chars[i] = "backslash"
    /\ i < Len(chars) /\ chars[i + 1] \in {"special", "backslash"}
    \* It is not escaped itself: the run of backslashes up to it is odd.
    /\ Cardinality({n \in 1 .. i : \A m \in n .. i : chars[m] = "backslash"})
         % 2 = 1
Unescaped(chars) == Picked(chars, {i \in DOMAIN chars : ~Escapes(chars, i)})

PasswordRead == reader = "readPassword" /\ result = "line"
PasswordAsTyped == PasswordRead => line = Unescaped(Edited(typed))

\* The same for the passwords of which the code does not lose a backslash: those
\* without one, however they were edited, and those in which each backslash is
\* followed at once by a character and nothing is erased.
NoBackslashLost ==
    \/ \A i \in DOMAIN typed : typed[i] /= "backslash"
    \/ \A i \in DOMAIN typed :
          /\ typed[i] /= "erase"
          /\ typed[i] = "backslash" =>
                i < Len(typed) /\ typed[i + 1] \in {"plain", "special"}
EscapesUndone == NoBackslashLost => PasswordAsTyped
=============================================================================
