------------------------------ MODULE KeyTable ------------------------------
(***************************************************************************)
(* What the key table promises, without watcher, goroutines or events: it  *)
(* is empty until something is published and from then on shows the file   *)
(* as one read of it found it - a whole version, unless that very file was *)
(* changed in place during the read - and no read began before the version *)
(* at which the one shown until then had ended: the table never goes back. *)
(***************************************************************************)
EXTENDS KeyFile

VARIABLES
    published,  \* every version of the file so far, the last one on disk
    at,         \* index of the version at the end of the read that the table
                \* shows, 0 before the first
    table       \* the set of keys the table holds

vars == <<published, at, table>>

Init ==
    /\ \E f \in Files : f.new /\ published = <<f>>
    /\ at = 0
    /\ table = {}

Edit ==
    /\ \E f \in Files : published' = Append(published, f)
    /\ UNCHANGED <<at, table>>

Publish ==
    /\ \E i \in at .. Len(published) : \E j \in i .. Len(published) :
          /\ i > 0
          /\ published[i].state = "present"
          /\ OneFile(published, i, j)
          /\ at' = j
          /\ table' \in Readings(published, i, j)
    /\ UNCHANGED published

Next == Edit \/ Publish

Spec == Init /\ [][Next]_vars
============================================================================
