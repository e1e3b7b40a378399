---------------------------- MODULE PullContract ----------------------------
(***************************************************************************)
(* What POST .../pulls with an Idempotency-Key promises its callers when   *)
(* correlation is on: a key stands for one request and one pull request,   *)
(* two keys never share one, and a pull request that was answered has been *)
(* recorded for its key, for good.                                         *)
(***************************************************************************)
CONSTANTS Ops, Digests, Pulls

VARIABLES
    answers,     \* every successful answer given: [op, digest, pull]
    recorded     \* the recorded correlations: [op, pull]

Init == answers = {} /\ recorded = {}

Correlate(op, pull) ==
    /\ \A b \in recorded : b.op # op /\ b.pull # pull
    /\ recorded' = recorded \cup {[op |-> op, pull |-> pull]}
    /\ UNCHANGED answers

Give(op, digest, pull) ==
    /\ [op |-> op, pull |-> pull] \in recorded
    /\ \A b \in answers : b.op = op => b.digest = digest /\ b.pull = pull
    /\ answers' = answers \cup {[op |-> op, digest |-> digest, pull |-> pull]}
    /\ UNCHANGED recorded

Next == \E op \in Ops, pull \in Pulls : \/ Correlate(op, pull)
                                      \/ \E d \in Digests : Give(op, d, pull)

Spec == Init /\ [][Next]_<<answers, recorded>>
=============================================================================
