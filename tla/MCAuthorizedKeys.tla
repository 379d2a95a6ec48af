-------------------------- MODULE MCAuthorizedKeys --------------------------
(* Instances of AuthorizedKeys for TLC. *)
EXTENDS AuthorizedKeys

CONSTANTS k1, k2, n1

\* A file without a key, or with one of two, with and without lines to skip.
ThreeFiles == {{n1}, {k1}, {k2, n1}}

\* With a key or without.
TwoFiles == {{n1}, {k1}}

\* Every kind of change the environment knows.
AllOps == {"write", "create", "remove", "rename", "chmod", "other"}

\* Changes that announce themselves with events inside the reload's mask.
PlainOps == {"write", "create"}
============================================================================
