------------------------------ MODULE IssueOps ------------------------------
(***************************************************************************)
(* The broker's changes to issues and reviews (internal/server): comments, *)
(* which reserve their Idempotency-Key and reconcile an interrupted        *)
(* attempt with what the issue shows; label changes, review dismissals and *)
(* thread resolutions, which are answered from the idempotency file once   *)
(* they have succeeded; and new issues, which a budget per run limits.     *)
(* One issue, one label, one review and one thread stand for all.          *)
(***************************************************************************)
EXTENDS BrokerPolicy

CONSTANTS
    Clients,        \* requests in progress
    CommentKeys,    \* Idempotency-Keys of comments
    Bodies,         \* comment texts
    Skew,           \* issueCommentReconciliationClockSkew
    Drift,          \* how far GitHub's created_at may be from the broker's clock
    Classes,        \* classes operationClass finds for a new issue
    Budget,         \* max_new_objects_per_run and, by class, class_limits; 0: none
    MaxOps,         \* bound on requests
    MaxOpFaults,    \* bound on failing calls, lost answers and crashes
    MaxHuman,       \* bound on comments other people write
    MaxClock        \* bound on the clock

Reserving == "issue.comment"
Replaying == {"issue.label.add", "issue.label.remove", "pull.review.dismiss",
              "pull.review_thread.resolve"}
Creating == "issue.create"

VARIABLES
    op,             \* the request each handler works on
    lock,           \* issueCommentMutationMu
    file,           \* the idempotency file
    comments,       \* the comments of the issue at GitHub
    state,          \* label, review and thread at GitHub
    created,        \* issues made for the run, in all and by class
    limit,          \* the mutation budget file: total and class counters
    clock,          \* the broker's clock
    ops,
    opFaults

issueVars == <<op, lock, file, comments, state, created, limit, clock, ops, opFaults>>

Nobody == "nobody"
NoRecord == [state |-> "none", operation |-> "", body |-> "", since |-> 0, id |-> 0]
Resting == [pc |-> "idle", name |-> "", key |-> "", body |-> "", id |-> 0]

\* Without an Idempotency-Key header the key names the operation's target; a
\* header is taken as it is, whichever operation it is sent with.
Header == "header"
FileKeys == CommentKeys \cup Replaying \cup {Header}

\* What is counted of a run: all its new objects and those of each class.
Total == "total"
Scopes == Classes \cup {Total}

\* The key of a comment is scoped by its operation, agent and issue, so it is
\* none of the others; "nobody" is neither a client nor a key.
ASSUME IssueAssumption ==
    /\ IsFiniteSet(Clients) /\ Nobody \notin Clients \cup CommentKeys
    /\ CommentKeys \cap (Replaying \cup {Header}) = {}
    /\ Skew \in Nat /\ Drift \in Nat
    /\ Total \notin Classes /\ Budget \in [Scopes -> Nat]

IssueInit ==
    /\ op = [c \in Clients |-> Resting]
    /\ lock = Nobody
    /\ file = [k \in FileKeys |-> NoRecord]
    /\ comments = {}
    /\ state = [label |-> FALSE, dismissed |-> FALSE, resolved |-> FALSE, replies |-> 0]
    /\ created = [s \in Scopes |-> 0]
    /\ limit = [s \in Scopes |-> 0]
    /\ clock = 0
    /\ ops = 0 /\ opFaults = 0

IssueFault == opFaults < MaxOpFaults /\ opFaults' = opFaults + 1

Step(c, pc) == op' = [op EXCEPT ![c].pc = pc]
Finish(c) == op' = [op EXCEPT ![c] = Resting]

\* Every handler starts with authentication, the policy under the configuration
\* of the moment and, where text is published, blockUnsafeEgress.
Begin(c, name, pc, key, body) ==
    /\ op[c].pc = "idle" /\ ops < MaxOps
    /\ ops' = ops + 1
    /\ \E meta \in BOOLEAN : Admits(cfg, name, "", meta)
    /\ op' = [op EXCEPT ![c] = [pc |-> pc, name |-> name, key |-> key, body |-> body, id |-> 0]]
    /\ UNCHANGED <<lock, file, comments, state, created, limit, clock, opFaults>>

HandleCommentCreate(c) == \E k \in CommentKeys, b \in Bodies : Begin(c, Reserving, "lock", k, b)

\* The metadata of the request chooses the class the new issue is counted under.
HandleIssueCreate(c) == \E class \in Classes : Begin(c, Creating, "budget", "", class)

HandleIssueLabelsAdd(c) ==
    \E k \in {"issue.label.add", Header} : Begin(c, "issue.label.add", "load", k, "")

HandleIssueLabelRemove(c) ==
    \E k \in {"issue.label.remove", Header} : Begin(c, "issue.label.remove", "load", k, "")

HandlePullReviewDismiss(c) ==
    \E k \in {"pull.review.dismiss", Header} : Begin(c, "pull.review.dismiss", "load", k, "")

HandlePullReviewThreadResolve(c) ==
    \E k \in {"pull.review_thread.resolve", Header} : Begin(c, "pull.review_thread.resolve", "load", k, "")

-----------------------------------------------------------------------------
(* handleCommentCreate.                                                    *)

MayEnter(c) == lock = Nobody

Enter(c) ==
    /\ op[c].pc = "lock" /\ MayEnter(c)
    /\ lock' = c
    /\ Step(c, "reserve")
    /\ UNCHANGED <<file, comments, state, created, limit, clock, ops, opFaults>>

Leave(c) == Finish(c) /\ lock' = Nobody

\* ReserveExact writes a pending record before anything is posted.
ReserveComment(c) ==
    /\ op[c].pc = "reserve"
    /\ LET k == op[c].key
           rec == file[k]
       IN \/ /\ rec.state = "none"
             /\ \/ /\ file' = [file EXCEPT ![k] = [state |-> "pending", operation |-> Reserving, body |-> op[c].body,
                                             since |-> clock, id |-> 0]]
                   /\ Step(c, "post") /\ UNCHANGED <<lock, opFaults>>
                \/ file' = file /\ Leave(c) /\ IssueFault
          \/ rec.state = "pending" /\ rec.body = op[c].body /\ Step(c, "list") /\ UNCHANGED <<file, lock, opFaults>>
          \/ /\ rec.state = "done" \/ (rec.state = "pending" /\ rec.body # op[c].body)
             /\ Leave(c) /\ UNCHANGED <<file, opFaults>>
    /\ UNCHANGED <<comments, state, created, limit, clock, ops>>

\* Mutant: no margin between the two clocks.
MatchingExactly(rec) ==
    {m \in comments : m.body = rec.body /\ m.author /\ m.at >= rec.since}

\* Mutant: a comment from long before the reservation counts.
MatchingOld(rec) == {m \in comments : m.body = rec.body /\ m.author}

\* reconcilePendingComment: exactly this text, by a named author, by GitHub's
\* clock at most Skew older than the reservation is by the broker's.
Matching(rec) ==
    {m \in comments : m.body = rec.body /\ m.author /\ m.at >= rec.since - Skew}

StoreDone(c, id) ==
    file' = [file EXCEPT ![op[c].key].state = "done", ![op[c].key].id = id,
                         ![op[c].key].operation = op[c].name]

\* One match is taken for the comment of the interrupted attempt, several are
\* left to a human, none means it was never posted.
Reconcile(c) ==
    /\ op[c].pc = "list"
    /\ LET rec == file[op[c].key]
           found == Matching(rec)
       IN \/ found = {} /\ Step(c, "post") /\ UNCHANGED <<file, lock, opFaults>>
          \/ /\ Cardinality(found) = 1
             /\ \/ \E m \in found : StoreDone(c, m.id) /\ Leave(c) /\ opFaults' = opFaults
                \/ file' = file /\ Leave(c) /\ IssueFault
          \/ Cardinality(found) > 1 /\ Leave(c) /\ UNCHANGED <<file, opFaults>>
          \/ Leave(c) /\ file' = file /\ IssueFault
    /\ UNCHANGED <<comments, state, created, limit, clock, ops>>

\* GitHub's created_at, to the second, when its clock is off by d.
Comment(who, author, body, d) ==
    [id |-> Cardinality(comments) + 1, by |-> who, author |-> author, body |-> body,
     at |-> clock + d]

Drifts == (0 - Drift)..Drift

\* The comment is made and answered, made with its answer lost, or refused.
Post(c) ==
    /\ op[c].pc = "post"
    /\ \E d \in Drifts :
       LET m == Comment(op[c].key, TRUE, file[op[c].key].body, d) IN
         \/ comments' = comments \cup {m} /\ op' = [op EXCEPT ![c].pc = "store", ![c].id = m.id]
            /\ UNCHANGED <<lock, opFaults>>
         \/ comments' = comments \cup {m} /\ Leave(c) /\ IssueFault
         \/ comments' = comments /\ Leave(c) /\ IssueFault
    /\ UNCHANGED <<file, state, created, limit, clock, ops>>

StoreComment(c) ==
    /\ op[c].pc = "store"
    /\ \/ StoreDone(c, op[c].id) /\ opFaults' = opFaults
       \/ file' = file /\ IssueFault
    /\ Leave(c)
    /\ UNCHANGED <<comments, state, created, limit, clock, ops>>

-----------------------------------------------------------------------------
(* Labels, review dismissals and thread resolutions: replayIdempotent, the  *)
(* call, writeIdempotentJSON.  Without a header the key names the target.   *)

Load(c) ==
    /\ op[c].pc = "load"
    /\ \/ file[op[c].key].state = "done" /\ Finish(c) /\ opFaults' = opFaults
       \/ /\ file[op[c].key].state # "done" /\ opFaults' = opFaults
          /\ Step(c, IF op[c].name = "pull.review_thread.resolve" THEN "reply" ELSE "call")
       \/ Finish(c) /\ IssueFault
    /\ UNCHANGED <<lock, file, comments, state, created, limit, clock, ops>>

\* ResolvePullReviewThread: a thread that is not resolved gets the reply first.
AddPullReviewThreadReply(c) ==
    /\ op[c].pc = "reply"
    /\ \/ state.resolved /\ Step(c, "call") /\ UNCHANGED <<state, opFaults>>
       \/ /\ ~state.resolved
          /\ state' = [state EXCEPT !.replies = @ + 1]
          /\ (Step(c, "call") /\ opFaults' = opFaults) \/ (Finish(c) /\ IssueFault)
    /\ UNCHANGED <<lock, file, comments, created, limit, clock, ops>>

\* What each call leaves behind; a label that is not there and a review or
\* thread that is already closed are success as well.
Effect(name) ==
    CASE name = "issue.label.add" -> [state EXCEPT !.label = TRUE]
      [] name = "issue.label.remove" -> [state EXCEPT !.label = FALSE]
      [] name = "pull.review.dismiss" -> [state EXCEPT !.dismissed = TRUE]
      [] name = "pull.review_thread.resolve" -> [state EXCEPT !.resolved = TRUE]

Call(c) ==
    /\ op[c].pc = "call"
    /\ \/ /\ state' = Effect(op[c].name)
          /\ (Step(c, "keep") /\ opFaults' = opFaults) \/ (Finish(c) /\ IssueFault)
       \/ state' = state /\ Finish(c) /\ IssueFault
    /\ UNCHANGED <<lock, file, comments, created, limit, clock, ops>>

Keep(c) ==
    /\ op[c].pc = "keep"
    /\ (StoreDone(c, 0) /\ opFaults' = opFaults) \/ (file' = file /\ IssueFault)
    /\ Finish(c)
    /\ UNCHANGED <<lock, comments, state, created, limit, clock, ops>>

-----------------------------------------------------------------------------
(* handleIssueCreate.                                                      *)

\* Mutant: only the total is limited.
ExhaustedTotal(class) == Budget[Total] > 0 /\ limit[Total] >= Budget[Total]

\* One of the limits that a new issue of this class counts against is reached.
Exhausted(class) == \E s \in {Total, class} : Budget[s] > 0 /\ limit[s] >= Budget[s]

\* One more in all and of this class.
Counting(n, class) == [s \in Scopes |-> IF s \in {Total, class} THEN n[s] + 1 ELSE n[s]]

\* CheckAndReserve counts an attempt before it is made, under its own mutex.
CheckAndReserve(c) ==
    /\ op[c].pc = "budget"
    /\ \/ Exhausted(op[c].body) /\ Finish(c) /\ UNCHANGED <<limit, opFaults>>
       \/ /\ ~Exhausted(op[c].body)
          /\ limit' = Counting(limit, op[c].body)
          /\ Step(c, "create") /\ opFaults' = opFaults
       \/ Finish(c) /\ limit' = limit /\ IssueFault
    /\ UNCHANGED <<lock, file, comments, state, created, clock, ops>>

CreateIssue(c) ==
    /\ op[c].pc = "create"
    /\ \/ created' = Counting(created, op[c].body) /\ opFaults' = opFaults
       \/ created' \in {created, Counting(created, op[c].body)} /\ IssueFault
    /\ Finish(c)
    /\ UNCHANGED <<lock, file, comments, state, limit, clock, ops>>

-----------------------------------------------------------------------------
\* Somebody else writes on the issue, perhaps the same text, perhaps from an
\* account that GitHub no longer names.
HumanComments ==
    /\ Cardinality({m \in comments : m.by = Nobody}) < MaxHuman
    /\ \E b \in Bodies, d \in Drifts, author \in BOOLEAN :
          comments' = comments \cup {Comment(Nobody, author, b, d)}
    /\ UNCHANGED <<op, lock, file, state, created, limit, clock, ops, opFaults>>

TimePasses ==
    /\ clock < MaxClock /\ clock' = clock + 1
    /\ UNCHANGED <<op, lock, file, comments, state, created, limit, ops, opFaults>>

IssueCrash ==
    /\ \E c \in Clients : op[c] # Resting
    /\ IssueFault
    /\ op' = [c \in Clients |-> Resting] /\ lock' = Nobody
    /\ UNCHANGED <<file, comments, state, created, limit, clock, ops>>

IssueNext ==
    \/ HumanComments \/ TimePasses \/ IssueCrash
    \/ \E c \in Clients :
         \/ HandleCommentCreate(c) \/ HandleIssueCreate(c)
         \/ HandleIssueLabelsAdd(c) \/ HandleIssueLabelRemove(c)
         \/ HandlePullReviewDismiss(c) \/ HandlePullReviewThreadResolve(c)
         \/ Enter(c) \/ ReserveComment(c) \/ Reconcile(c) \/ Post(c) \/ StoreComment(c)
         \/ Load(c) \/ AddPullReviewThreadReply(c) \/ Call(c) \/ Keep(c)
         \/ CheckAndReserve(c) \/ CreateIssue(c)

-----------------------------------------------------------------------------
\* What the margin of the search is for: the two clocks are no further apart.
ClocksAgree == Drift <= Skew

\* However often a comment is retried, by whom and around which crash or lost
\* answer, the broker posts at most one comment for its key, as long as the
\* clocks agree (handleCommentCreate: the mutex, the pending record and the
\* search among comments that GitHub's clock has dated).
OneCommentPerKey ==
    \A k \in CommentKeys : Cardinality({m \in comments : m.by = k}) <= 1

\* A finished record names a comment with exactly the text that was asked for
\* and a named author, by GitHub's clock at most Skew older than the
\* reservation: never the old comment of somebody who wrote the same words
\* (reconcilePendingComment).
RecordNamesComment ==
    \A k \in CommentKeys : file[k].state = "done" =>
        \E m \in comments : /\ m.id = file[k].id /\ m.body = file[k].body /\ m.author
                            /\ m.at >= file[k].since - Skew

\* A run makes no more issues than its budgets allow, in all and of each class,
\* whatever runs at the same time and whichever attempts fail (limits.go
\* CheckAndReserve).
IssuesWithinBudget == \A s \in Scopes : Budget[s] > 0 => created[s] <= Budget[s]
=============================================================================
