--------------------------- MODULE LaunchContract ---------------------------
(***************************************************************************)
(* What POST .../launch with an Idempotency-Key promises its callers, with *)
(* nothing of how it is kept: a key stands for one canonical request and   *)
(* one run for ever, through retries, concurrent calls and restarts, and   *)
(* two keys never share a run.                                             *)
(***************************************************************************)
CONSTANTS Keys, Fps, Runs

VARIABLE answers      \* every launch answer given: [key, fp, run]

Answer == [key: Keys, fp: Fps, run: Runs]

Init == answers = {}

\* A successful answer, or the repetition of one.
Give(a) ==
    /\ \A b \in answers : b.key = a.key \/ b.run = a.run => b = a
    /\ answers' = answers \cup {a}

Next == \E a \in Answer : Give(a)

Spec == Init /\ [][Next]_answers
=============================================================================
