--------------------------- MODULE CIObservation ---------------------------
(***************************************************************************)
(* GET /pulls/{n}/ci-observation (handleCIObservation of server.go): the   *)
(* broker collects what GitHub knows about one head of a pull request in a *)
(* series of reads, reads the pull request again, and sums up the required *)
(* identities in one word.  The head, the evidence and the rules change    *)
(* while it reads.  A required identity is a check, pinned to an app or    *)
(* not, or a workflow, pinned to a definition, a ref and a repository or   *)
(* not.                                                                    *)
(***************************************************************************)
EXTENDS BrokerPolicy

CONSTANTS
    Heads,          \* commits the pull request points to
    Apps,           \* apps that report checks under the required name
    Definitions,    \* how runs of the required workflow name their definition
    Rules,          \* sequences of rule entries a branch may have
    MaxEvents,      \* bound on what happens at GitHub
    MaxReads        \* bound on observations

AnyPin == "any"
Hidden == "hidden"      \* what GitHub does not say of a run

\* A pull request has a head, and its base branch a list of rules.  A check is
\* pinned to an app, a workflow to a SHA, a ref and a repository; nothing is
\* pinned to what GitHub hides.
ASSUME CIAssumption ==
    /\ Heads # {} /\ Rules # {}
    /\ Definitions \subseteq [sha: STRING, ref: STRING, repository: STRING]
    /\ Rules \subseteq Seq([kind: STRING, pin: STRING \ {Hidden}, ref: STRING \ {Hidden},
                            repository: STRING \ {Hidden}])

States == {"none", "pending", "success", "failure", "error", "other"}

VARIABLES
    head,           \* the head of the pull request
    evidence,       \* what GitHub holds for each head
    rules,          \* the active rules of the base branch
    obs,            \* the observation in progress
    answer,         \* the last answer
    seenGreen,      \* by head, what was satisfied at some moment since it began
    events,
    reads

ciVars == <<head, evidence, rules, obs, answer, seenGreen, events, reads>>

Blank == [status |-> "none", checks |-> [a \in Apps |-> "none"],
          runs |-> [d \in Definitions |-> "none"]]
AllGreen == [status |-> "success", checks |-> [a \in Apps |-> "success"],
             runs |-> [d \in Definitions |-> "success"]]
Unread == [pc |-> "idle", head |-> "", got |-> Blank, rules |-> <<>>]
NoAnswer == [given |-> FALSE, state |-> "", head |-> "", rules |-> <<>>]

CIInit ==
    /\ head \in Heads
    /\ evidence \in [Heads -> {Blank, AllGreen}]
    /\ rules \in Rules
    /\ obs = Unread /\ answer = NoAnswer /\ seenGreen = [h \in Heads |-> {}]
    /\ events = 0 /\ reads = 0

CIIdle ==
    /\ head = (CHOOSE h \in Heads : TRUE)
    /\ evidence = [h \in Heads |-> Blank]
    /\ rules = (CHOOSE r \in Rules : TRUE)
    /\ obs = Unread /\ answer = NoAnswer /\ seenGreen = [h \in Heads |-> {}]
    /\ events = 0 /\ reads = 0

-----------------------------------------------------------------------------
(* What GitHub means by a satisfied identity, independently of the reads.  *)

Satisfied(req, ev) ==
    IF req.kind = "workflow"
      THEN \E d \in Definitions :
             /\ ev.runs[d] = "success"
             /\ req.pin \in {AnyPin, d.sha} /\ req.ref \in {AnyPin, d.ref}
             /\ d.repository # Hidden => req.repository \in {AnyPin, d.repository}
      ELSE \/ \E a \in Apps : ev.checks[a] = "success" /\ req.pin \in {AnyPin, a}
           \/ req.pin = AnyPin /\ ev.status = "success"

Entries(r) == {r[i] : i \in DOMAIN r}
Identities(r) == {e \in Entries(r) : e.kind \in {"check", "workflow"}}
Requirements == UNION {Identities(r) : r \in Rules}

Green(evs) == [h \in Heads |-> {q \in Requirements : Satisfied(q, evs[h])}]

\* Whatever turns green for a head while the observation lasts is seen.
Watch(evs) ==
    seenGreen' = IF obs.pc = "idle" THEN seenGreen
                 ELSE [h \in Heads |-> seenGreen[h] \cup Green(evs)[h]]

-----------------------------------------------------------------------------
(* The reads.                                                              *)

\* withReadAccess and the first read: any other head is stale.
ObserveBegins ==
    /\ obs.pc = "idle" /\ reads < MaxReads
    /\ reads' = reads + 1
    /\ Admits(cfg, "ci.read", "", TRUE)
    /\ obs' = [Unread EXCEPT !.pc = "status", !.head = head]
    /\ seenGreen' = Green(evidence)
    /\ answer' = NoAnswer
    /\ UNCHANGED <<head, evidence, rules, events>>

\* requiredCI: the identities of the rules that require one, each once, at the
\* place where it first appears.
RequiredCI(r) ==
    LET first == {i \in DOMAIN r : r[i] \in Identities(r) /\ \A j \in 1..(i - 1) : r[j] # r[i]}
    IN [i \in first |-> r[i]]

\* GetCommitStatus, ListCheckRuns, ListWorkflowRuns with their jobs, BranchRules.
Collect ==
    /\ obs.pc \in {"status", "checks", "runs", "rules"}
    /\ LET ev == evidence[obs.head] IN
         obs' = CASE obs.pc = "status" -> [obs EXCEPT !.pc = "checks", !.got.status = ev.status]
                  [] obs.pc = "checks" -> [obs EXCEPT !.pc = "runs", !.got.checks = ev.checks]
                  [] obs.pc = "runs" -> [obs EXCEPT !.pc = "rules", !.got.runs = ev.runs]
                  [] obs.pc = "rules" -> [obs EXCEPT !.pc = "reread", !.rules = rules]
    /\ UNCHANGED <<head, evidence, rules, answer, seenGreen, events, reads>>

\* A read that fails or passes a bound answers an error and nothing else.
ReadFails ==
    /\ obs.pc # "idle" /\ events < MaxEvents
    /\ events' = events + 1
    /\ obs' = Unread
    /\ UNCHANGED <<head, evidence, rules, answer, seenGreen, reads>>

\* Mutant: a workflow is matched by its path and ref alone.
DefinitionMatchesRef(req, d) == req.ref \in {AnyPin, d.ref}

\* workflowRunMatches: a direct run hides the SHA and cannot satisfy one that is
\* pinned; a run whose repository is hidden passes for any.
DefinitionMatches(req, d) ==
    /\ req.pin \in {AnyPin, d.sha} /\ req.ref \in {AnyPin, d.ref}
    /\ Hidden = d.repository \/ req.repository \in {AnyPin, d.repository}

\* The words an identity may be judged by: the first run or check GitHub lists
\* that matches; a status stands in for a check nobody reports, unless pinned.
Words(req, ev) ==
    LET reported == {a \in Apps : ev.checks[a] # "none"}
        runs == {d \in Definitions : ev.runs[d] # "none" /\ DefinitionMatches(req, d)}
        checks == {a \in reported : req.pin \in {AnyPin, a}}
        words == IF req.kind = "workflow" THEN {ev.runs[d] : d \in runs}
                 ELSE IF reported = {} /\ req.pin = AnyPin THEN {ev.status}
                 ELSE {ev.checks[a] : a \in checks}
    IN IF words = {} THEN {"none"} ELSE words

\* aggregateCI: the first failing identity decides; one that is missing, not
\* finished or ended in no known way makes the whole pending.
Aggregate(words) ==
    LET failing == {i \in DOMAIN words : words[i] \in {"failure", "error"}}
    IN IF failing # {}
         THEN IF words[CHOOSE i \in failing : \A j \in failing : i <= j] = "error"
                THEN "infrastructure_failure" ELSE "code_failure"
         ELSE IF \A i \in DOMAIN words : words[i] = "success" THEN "success" ELSE "pending"

\* Mutant: the head is read again and not compared.
StillCurrentAlways == TRUE

StillCurrent == head = obs.head

\* The answer shows the pull request as it was read again.
ObserveEnds ==
    /\ obs.pc = "reread"
    /\ LET required == RequiredCI(obs.rules) IN
       \E words \in [DOMAIN required -> States] :
         /\ \A i \in DOMAIN words : words[i] \in Words(required[i], obs.got)
         /\ answer' = IF StillCurrent
                        THEN [given |-> TRUE, state |-> Aggregate(words), head |-> head, rules |-> obs.rules]
                        ELSE NoAnswer
    /\ obs' = Unread
    /\ UNCHANGED <<head, evidence, rules, seenGreen, events, reads>>

-----------------------------------------------------------------------------
(* External: what happens at GitHub meanwhile.                             *)

Happens == events < MaxEvents /\ events' = events + 1

HeadMoves ==
    /\ Happens /\ \E h \in Heads \ {head} : head' = h
    /\ UNCHANGED <<evidence, rules, obs, answer, seenGreen, reads>>

Report ==
    /\ Happens
    /\ \E h \in Heads, s \in States \ {"none"} :
         evidence' \in {[evidence EXCEPT ![h].status = s]}
             \cup {[evidence EXCEPT ![h].checks[a] = s] : a \in Apps}
             \cup {[evidence EXCEPT ![h].runs[d] = s] : d \in Definitions}
    /\ Watch(evidence')
    /\ UNCHANGED <<head, rules, obs, answer, reads>>

RulesChange ==
    /\ Happens /\ \E r \in Rules \ {rules} : rules' = r
    /\ UNCHANGED <<head, evidence, obs, answer, seenGreen, reads>>

CINext == ObserveBegins \/ Collect \/ ReadFails \/ ObserveEnds \/ HeadMoves \/ Report \/ RulesChange

-----------------------------------------------------------------------------
\* The word "success" is earned: every identity that the rules the answer
\* shows require was satisfied at GitHub for the head the answer shows, by the
\* pinned app or definition where there is a pin, at some moment of the
\* observation; neither a missing one nor the evidence of an earlier head
\* counts (handleCIObservation, aggregateCI, workflowRunMatches).
SuccessWasGreen ==
    answer.given /\ answer.state = "success" =>
        Identities(answer.rules) \subseteq seenGreen[answer.head]
=============================================================================
