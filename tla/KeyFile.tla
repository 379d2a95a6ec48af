------------------------------ MODULE KeyFile ------------------------------
(***************************************************************************)
(* The authorized_keys file as the bastion sees it: what can be on disk    *)
(* and what loadAuthorizedKeys makes of it (bastion.go:65-94).             *)
(***************************************************************************)
EXTENDS Naturals, Sequences

CONSTANTS
    Keys,       \* lines that ssh.ParseAuthorizedKey accepts, one per key blob
    Noise,      \* blank lines, comments and lines that do not parse
    Contents,   \* bound: what a file may consist of, as sets of lines
    Cuts        \* keys that a line may parse as when a change during the
                \* read puts it together from parts of two lines

ASSUME LinesAssumption == Keys \cap Noise = {}
ASSUME CutsAssumption == Cuts \subseteq Keys

Lines == Keys \cup Noise

ASSUME ContentsAssumption == Contents \subseteq SUBSET Lines

\* A version of what the path names. "unreadable" is a file whose ReadFile
\* fails with anything but not-exist (permissions, I/O error). "new" tells a
\* file that was put at the path, or taken from it, from one that was changed
\* in place and that a reader who has it open goes on reading.
Files == [state : {"present", "unreadable"}, lines : Contents, new : BOOLEAN]
         \cup [state : {"absent"}, lines : {{}}, new : {TRUE}]

\* The map built from the text: noise is skipped line by line, equal keys
\* collapse because the map is keyed by the key blob.
Parse(lines) == lines \cap Keys

\* Versions i to j of the history p are one file, changed in place.
OneFile(p, i, j) == \A n \in i + 1 .. j : ~p[n].new

\* os.ReadFile takes several read(2) calls. Of a file that they all find with
\* the same text they return that text. When it is changed in place between
\* them, the parts come from different versions and do not fit together: the
\* parse may then hold any of those versions' keys, and cut lines.
Readings(p, i, j) ==
    IF \A n \in i .. j : p[n].lines = p[i].lines
    THEN {Parse(p[i].lines)}
    ELSE SUBSET (Cuts \cup UNION {Parse(p[n].lines) : n \in i .. j})

\* publicKeyCallback's decision about key k under table T: an empty table
\* admits everybody.
Admits(T, k) == T = {} \/ k \in T
============================================================================
