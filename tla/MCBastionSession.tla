-------------------------- MODULE MCBastionSession --------------------------
(* Instances of BastionSession for TLC. *)
EXTENDS BastionSession

Base == [k \in Kinds |-> 0]

\* Two device sessions in a shell, with resizes before, during and between
\* them, and the client's close at any moment.
Resizes ==
    [Base EXCEPT !["pty"] = 1, !["shell"] = 1, !["win"] = 2, !["ssh"] = 2,
                 !["word"] = 4, !["close"] = 1]

\* The same with one resize and an end of the input.
Ends ==
    [Base EXCEPT !["shell"] = 1, !["win"] = 1, !["ssh"] = 2, !["word"] = 4,
                 !["eof"] = 1, !["close"] = 1]

\* One device session by exec or shell, every kind of request.
Requests ==
    [Base EXCEPT !["pty"] = 1, !["shell"] = 1, !["exec"] = 1, !["win"] = 1,
                 !["other"] = 1, !["word"] = 2, !["intr"] = 1, !["eof"] = 1,
                 !["close"] = 1]

\* One device session by exec or shell, every kind of line.
Typing ==
    [Base EXCEPT !["shell"] = 1, !["exec"] = 1, !["ssh"] = 1, !["word"] = 2,
                 !["exit"] = 1, !["intr"] = 1, !["close"] = 1]

AllBudgets == {Resizes, Ends, Requests, Typing}

\* Two sessions, one resize.
ResizeBudget ==
    {[Base EXCEPT !["shell"] = 1, !["win"] = 1, !["ssh"] = 2, !["word"] = 4]}

\* One device session, then exit.
LeaveBudget ==
    {[Base EXCEPT !["shell"] = 1, !["ssh"] = 1, !["word"] = 2, !["exit"] = 1]}
============================================================================
