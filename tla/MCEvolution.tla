---------------------------- MODULE MCEvolution ----------------------------
(* Instances of Evolution for TLC. *)
EXTENDS Evolution, TLC

CONSTANTS r1, r2              \* two browsers post at once
CONSTANTS c0, c1, bad, tagged \* the installed source, a better one, one that
                              \* does not compile, one that quotes the error tag

MCRequests  == {r1, r2}
MCCode      == {c0, c1, bad, tagged}
MCCompiling == {c0, c1, tagged}
MCQuotesTag == {tagged}

\* copies succeed, nothing throws, nobody kills the process
OrderlyFaults == {"spawn", "open", "journal", "write", "build"}
\* all but "spawn", which leaves the flag set for good, and "journal"
ThreadFaults  == FaultKinds \ {"spawn", "journal"}
NoFaults      == {}
CopyFaults    == {"copy"}
=============================================================================
