--------------------------- MODULE IssueOpsProofs ---------------------------
(***************************************************************************)
(* Theorems about the issue operations of BrokerServer, for every finite   *)
(* set of requests, every set of keys and texts and every budget.  The     *)
(* comments and the budget have an inductive invariant each.               *)
(***************************************************************************)
EXTENDS BrokerServer, FiniteSetTheorems, TLAPS

-----------------------------------------------------------------------------
(* Types.                                                                  *)

\* Under the mutex of the comments.
Critical == {"reserve", "list", "post", "store"}

\* The operations that are answered from the file once they are done.
Replayed == {"load", "reply", "call", "keep"}

OpPcs == {"idle", "lock", "budget", "create"} \cup Critical \cup Replayed

\* What a request carries: the text of a comment or the class of an issue.
Texts == Bodies \cup Classes \cup {""}

OpRecord ==
    [pc: OpPcs, name: {"", Reserving, Creating} \cup Replaying, key: FileKeys \cup {""},
     body: Texts, id: Nat]

FileRecord ==
    [state: {"none", "pending", "done"}, operation: {"", Reserving, Creating} \cup Replaying,
     body: Texts, since: Nat, id: Nat]

CommentRecord ==
    [id: Nat, by: CommentKeys \cup {Nobody}, author: BOOLEAN, body: Texts, at: Int]

IssueType ==
    /\ op \in [Clients -> OpRecord]
    /\ file \in [FileKeys -> FileRecord]
    /\ comments \subseteq CommentRecord /\ IsFiniteSet(comments)
    /\ clock \in Nat

LEMMA RestingOp == Resting \in OpRecord /\ Resting.pc = "idle"
  BY DEF Resting, OpRecord, OpPcs, Texts

\* What a handler that ends or moves on does to the others: nothing.
LEMMA FinishStep ==
  ASSUME IssueType, NEW c \in Clients, Finish(c)
  PROVE  /\ op' \in [Clients -> OpRecord] /\ op'[c].pc = "idle"
         /\ \A q \in Clients : q # c => op'[q] = op[q]
<1>1. op \in [Clients -> OpRecord] /\ op' = [op EXCEPT ![c] = Resting]
  BY DEF IssueType, Finish
<1>2. op' \in [Clients -> OpRecord] /\ op'[c] = Resting /\ \A q \in Clients : q # c => op'[q] = op[q]
  BY <1>1, RestingOp
<1> QED
  BY <1>2, RestingOp

LEMMA MovedOp ==
  ASSUME NEW o \in OpRecord, NEW pc \in OpPcs
  PROVE  LET u == [o EXCEPT !.pc = pc]
         IN  /\ u \in OpRecord /\ u.pc = pc /\ u.key = o.key /\ u.name = o.name
             /\ u.body = o.body /\ u.id = o.id
  BY DEF OpRecord

LEMMA MoveStep ==
  ASSUME IssueType, NEW c \in Clients, NEW pc \in OpPcs, Step(c, pc)
  PROVE  /\ op' \in [Clients -> OpRecord]
         /\ op'[c].pc = pc /\ op'[c].key = op[c].key /\ op'[c].name = op[c].name
         /\ op'[c].body = op[c].body /\ op'[c].id = op[c].id
         /\ \A q \in Clients : q # c => op'[q] = op[q]
<1> DEFINE u == [op[c] EXCEPT !.pc = pc]
<1>1. op \in [Clients -> OpRecord] /\ op' = [op EXCEPT ![c] = u]
  BY DEF IssueType, Step
<1>2. /\ u \in OpRecord /\ u.pc = pc /\ u.key = op[c].key /\ u.name = op[c].name
      /\ u.body = op[c].body /\ u.id = op[c].id
  BY <1>1, MovedOp
<1> HIDE DEF u
<1>3. op' \in [Clients -> OpRecord] /\ op'[c] = u /\ \A q \in Clients : q # c => op'[q] = op[q]
  BY <1>1, <1>2
<1> QED
  BY <1>2, <1>3

-----------------------------------------------------------------------------
(* Comments: the inductive invariant.                                      *)

\* A comment request has a key of its own; the other operations never do.
KeyOK(o) ==
    /\ o.pc \in Critical \cup {"lock"} => o.key \in CommentKeys
    /\ o.pc \in Replayed => o.key \in Replaying \cup {Header}

\* Whoever is past the mutex has it.
Exclusive == \A c \in Clients : op[c].pc \in Critical => lock = c

\* The comments posted for a key: one at most when the clocks agree, with the
\* text of the record, an author and a date that the reservation may have.
PostedOnce ==
    \A k \in CommentKeys : \A m \in comments : m.by = k =>
        /\ file[k].state # "none" /\ m.body = file[k].body /\ m.author
        /\ ClocksAgree => m.at >= file[k].since - Skew
        /\ ClocksAgree => \A n \in comments : n.by = k => n = m

\* A handler that is going to post has found the key without a comment, which
\* it can only see when the clocks agree.
PostsFresh ==
    \A c \in Clients : op[c].pc \in {"list", "post"} =>
        /\ file[op[c].key].state = "pending"
        /\ op[c].pc = "post" /\ ClocksAgree => \A m \in comments : m.by # op[c].key

Names(id, rec) ==
    \E m \in comments : /\ m.id = id /\ m.body = rec.body /\ m.author
                        /\ ClocksAgree => m.at >= rec.since - Skew

\* What a handler is going to store is a comment of the issue.
StoresFound == \A c \in Clients : op[c].pc = "store" => Names(op[c].id, file[op[c].key])

SinceOK == \A k \in CommentKeys : file[k].since <= clock

CommentInv ==
    /\ IssueType /\ \A c \in Clients : KeyOK(op[c])
    /\ Exclusive /\ PostedOnce /\ PostsFresh /\ StoresFound /\ SinceOK
    /\ \A k \in CommentKeys : file[k].state = "done" => Names(file[k].id, file[k])

LEMMA CommentInit == IssueInit => CommentInv
<1> SUFFICES ASSUME IssueInit PROVE CommentInv
  OBVIOUS
<1>1. op \in [Clients -> OpRecord] /\ \A c \in Clients : op[c].pc = "idle"
  BY RestingOp DEF IssueInit
<1>2. NoRecord \in FileRecord /\ NoRecord.state = "none" /\ NoRecord.since = 0
  BY DEF NoRecord, FileRecord, Texts
<1>3. /\ file \in [FileKeys -> FileRecord]
      /\ \A k \in CommentKeys : file[k].state = "none" /\ file[k].since = 0
  BY <1>2 DEF IssueInit, FileKeys
<1>4. IssueType
  BY <1>1, <1>3, FS_EmptySet, IssueAssumption DEF IssueInit, IssueType
<1>5. (\A c \in Clients : KeyOK(op[c])) /\ Exclusive /\ PostsFresh /\ StoresFound
  BY <1>1 DEF KeyOK, Exclusive, PostsFresh, StoresFound, Critical, Replayed
<1>6. SinceOK /\ PostedOnce
  BY <1>3, <1>4 DEF IssueInit, SinceOK, PostedOnce, IssueType
<1> QED
  BY <1>3, <1>4, <1>5, <1>6 DEF CommentInv

\* A step that keeps the comments and their records and brings nobody past the
\* mutex keeps the invariant.
LEMMA QuietStep ==
  ASSUME CommentInv, op' \in [Clients -> OpRecord],
         \A q \in Clients : op'[q] = op[q] \/ (op'[q].pc \notin Critical /\ KeyOK(op'[q])),
         \A q \in Clients : op'[q].pc \in Critical => lock' = q,
         file' \in [FileKeys -> FileRecord], \A k \in CommentKeys : file'[k] = file[k],
         comments' = comments, clock' \in Nat, clock <= clock'
  PROVE  CommentInv'
<1>1. IssueType'
  BY DEF CommentInv, IssueType
<1>2. (\A c \in Clients : KeyOK(op[c]))' /\ Exclusive'
  BY DEF CommentInv, KeyOK, Exclusive
<1>3. PostedOnce'
  BY DEF CommentInv, PostedOnce
<1>4. \A q \in Clients : op'[q].pc \in Critical => op'[q] = op[q] /\ op[q].key \in CommentKeys
  BY DEF CommentInv, KeyOK
<1>5. PostsFresh'
  BY <1>4 DEF CommentInv, PostsFresh, Critical
<1>6. StoresFound'
  BY <1>4 DEF CommentInv, StoresFound, Names, Critical
<1>7. SinceOK'
  <2>1. \A k \in CommentKeys : file[k].since \in Nat
    BY DEF CommentInv, IssueType, FileRecord, FileKeys
  <2> QED
    BY <2>1 DEF CommentInv, IssueType, SinceOK
<1>8. (\A k \in CommentKeys : file[k].state = "done" => Names(file[k].id, file[k]))'
  BY DEF CommentInv, Names
<1> QED
  BY <1>1, <1>2, <1>3, <1>5, <1>6, <1>7, <1>8 DEF CommentInv

\* A comment made after its reservation is dated within the margin of it.
LEMMA WithinSkew ==
  ASSUME ClocksAgree, NEW a \in Nat, NEW b \in Nat, a <= b, NEW d \in Drifts
  PROVE  b + d >= a - Skew
  BY IssueAssumption DEF Drifts, ClocksAgree

LEMMA SameTime == ASSUME NEW a \in Nat PROVE a <= a
  OBVIOUS

LEMMA SameFile ==
  ASSUME IssueType
  PROVE  /\ file' = file => file' \in [FileKeys -> FileRecord]
         /\ clock' = clock => clock' \in Nat /\ clock <= clock'
<1>1. file \in [FileKeys -> FileRecord] /\ clock \in Nat
  BY DEF IssueType
<1>2. clock <= clock
  BY <1>1
<1> QED
  BY <1>1, <1>2

\* A request arrives.
LEMMA BeginComment ==
  ASSUME CommentInv, NEW c \in Clients,
         NEW name \in {Reserving, Creating} \cup Replaying, NEW pc \in {"lock", "budget", "load"},
         NEW key \in FileKeys \cup {""}, NEW body \in Texts,
         pc = "lock" => key \in CommentKeys, pc = "load" => key \in Replaying \cup {Header},
         Begin(c, name, pc, key, body)
  PROVE  CommentInv'
<1> DEFINE o == [pc |-> pc, name |-> name, key |-> key, body |-> body, id |-> 0]
<1>1. o \in OpRecord
  BY DEF OpRecord, OpPcs, Replayed
<1>2. o.pc = pc /\ o.key = key
  OBVIOUS
<1>3. op \in [Clients -> OpRecord] /\ op' = [op EXCEPT ![c] = o]
  BY DEF Begin, CommentInv, IssueType
<1> HIDE DEF o
<1>4. op' \in [Clients -> OpRecord] /\ op'[c] = o /\ \A q \in Clients : q # c => op'[q] = op[q]
  BY <1>1, <1>3
<1>5. o.pc \notin Critical /\ KeyOK(o)
  BY <1>2 DEF KeyOK, Critical, Replayed
<1>6. lock' = lock /\ file' = file /\ comments' = comments /\ clock' = clock
  BY DEF Begin
<1>7. \A q \in Clients : op'[q].pc \in Critical => lock' = q
  BY <1>4, <1>5, <1>6 DEF CommentInv, Exclusive
<1>8. file' \in [FileKeys -> FileRecord] /\ clock' \in Nat /\ clock <= clock'
  BY <1>6, SameFile DEF CommentInv
<1> QED
  BY <1>4, <1>5, <1>6, <1>7, <1>8, QuietStep

LEMMA HandlersBegin ==
  ASSUME CommentInv, NEW c \in Clients,
         \/ HandleCommentCreate(c) \/ HandleIssueCreate(c)
         \/ HandleIssueLabelsAdd(c) \/ HandleIssueLabelRemove(c)
         \/ HandlePullReviewDismiss(c) \/ HandlePullReviewThreadResolve(c)
  PROVE  CommentInv'
<1>1. CASE HandleCommentCreate(c)
  <2>1. PICK k \in CommentKeys, b \in Bodies : Begin(c, Reserving, "lock", k, b)
    BY <1>1 DEF HandleCommentCreate
  <2>2. k \in FileKeys \cup {""} /\ b \in Texts /\ "lock" \in {"lock", "budget", "load"}
    BY DEF FileKeys, Texts
  <2> QED
    BY <2>1, <2>2, BeginComment
<1>2. CASE HandleIssueCreate(c)
  <2>1. PICK class \in Classes : Begin(c, Creating, "budget", "", class)
    BY <1>2 DEF HandleIssueCreate
  <2>2. class \in Texts
    BY DEF Texts
  <2> QED
    BY <2>1, <2>2, BeginComment
<1>3. CASE \/ HandleIssueLabelsAdd(c) \/ HandleIssueLabelRemove(c)
           \/ HandlePullReviewDismiss(c) \/ HandlePullReviewThreadResolve(c)
  <2>1. PICK name \in Replaying, k \in Replaying \cup {Header} : Begin(c, name, "load", k, "")
    BY <1>3 DEF HandleIssueLabelsAdd, HandleIssueLabelRemove, HandlePullReviewDismiss,
       HandlePullReviewThreadResolve, Replaying
  <2>2. k \in FileKeys \cup {""} /\ "" \in Texts /\ "load" \in {"lock", "budget", "load"}
        /\ name \in {Reserving, Creating} \cup Replaying
    BY DEF FileKeys, Texts
  <2> QED
    BY <2>1, <2>2, BeginComment
<1> QED
  BY <1>1, <1>2, <1>3

-----------------------------------------------------------------------------
(* Comments: the steps under the mutex.                                    *)

LEMMA EnterComment == ASSUME CommentInv, NEW c \in Clients, Enter(c) PROVE CommentInv'
<1>1. /\ op' \in [Clients -> OpRecord]
      /\ op'[c].pc = "reserve" /\ op'[c].key = op[c].key
      /\ \A q \in Clients : q # c => op'[q] = op[q]
  BY MoveStep DEF Enter, CommentInv, OpPcs, Critical
<1>2. /\ lock = Nobody /\ lock' = c /\ op[c].pc = "lock"
      /\ file' = file /\ comments' = comments /\ clock' = clock
  BY DEF Enter, MayEnter
<1>3. \A q \in Clients : op[q].pc \notin Critical
  BY <1>2, IssueAssumption DEF CommentInv, Exclusive
<1>4. IssueType'
  BY <1>1, <1>2 DEF CommentInv, IssueType
<1>5. (\A q \in Clients : KeyOK(op[q]))'
  BY <1>1, <1>2 DEF CommentInv, KeyOK, Replayed
<1>6. Exclusive' /\ PostsFresh' /\ StoresFound'
  BY <1>1, <1>2, <1>3 DEF Exclusive, PostsFresh, StoresFound, Critical
<1>7. PostedOnce' /\ SinceOK' /\ (\A k \in CommentKeys : file[k].state = "done" => Names(file[k].id, file[k]))'
  BY <1>2 DEF CommentInv, PostedOnce, SinceOK, Names
<1> QED
  BY <1>4, <1>5, <1>6, <1>7 DEF CommentInv

\* A handler past the mutex is alone there and works on a comment key.
LEMMA Alone ==
  ASSUME CommentInv, NEW c \in Clients, op[c].pc \in Critical
  PROVE  /\ lock = c /\ op[c].key \in CommentKeys /\ op[c].key \in FileKeys
         /\ \A q \in Clients : op[q].pc \in Critical => q = c
  BY DEF CommentInv, Exclusive, KeyOK, FileKeys

\* It leaves with the records and the comments as they are.
LEMMA LeaveComment ==
  ASSUME CommentInv, NEW c \in Clients, op[c].pc \in Critical, Leave(c), file' = file,
         comments' = comments, clock' = clock
  PROVE  CommentInv'
<1>1. /\ op' \in [Clients -> OpRecord] /\ op'[c].pc = "idle"
      /\ \A q \in Clients : q # c => op'[q] = op[q]
  BY FinishStep DEF Leave, CommentInv
<1>2. \A q \in Clients : op'[q].pc \notin Critical
  BY <1>1, Alone DEF Critical
<1>3. \A q \in Clients : op'[q] = op[q] \/ (op'[q].pc \notin Critical /\ KeyOK(op'[q]))
  BY <1>1 DEF KeyOK, Critical, Replayed
<1> QED
  BY <1>1, <1>2, <1>3, SameFile, QuietStep DEF CommentInv

\* The record of its key becomes done, naming a comment of the issue.
LEMMA DoneComment ==
  ASSUME CommentInv, NEW c \in Clients, op[c].pc \in Critical, Leave(c),
         NEW id \in Nat, Names(id, file[op[c].key]), StoreDone(c, id),
         comments' = comments, clock' = clock
  PROVE  CommentInv'
<1> DEFINE k == op[c].key
<1>1. /\ op' \in [Clients -> OpRecord] /\ op'[c].pc = "idle"
      /\ \A q \in Clients : q # c => op'[q] = op[q]
  BY FinishStep DEF Leave, CommentInv
<1>2. \A q \in Clients : op'[q].pc \notin Critical
  BY <1>1, Alone DEF Critical
<1>3. file \in [FileKeys -> FileRecord] /\ k \in FileKeys /\ k \in CommentKeys /\ op[c] \in OpRecord
  BY Alone DEF CommentInv, IssueType
<1>4. op[c].name \in {"", Reserving, Creating} \cup Replaying
  BY <1>3 DEF OpRecord
<1>5. /\ file' \in [FileKeys -> FileRecord] /\ file'[k].state = "done" /\ file'[k].id = id
      /\ file'[k].body = file[k].body /\ file'[k].since = file[k].since
      /\ \A j \in FileKeys : j # k => file'[j] = file[j]
  <2> DEFINE name == op[c].name
             rec == [file[k] EXCEPT !.state = "done", !.id = id, !.operation = name]
  <2>1. file' = [file EXCEPT ![k] = rec]
    BY DEF StoreDone
  <2>2. file[k] \in FileRecord
    BY <1>3
  <2> HIDE DEF name
  <2>3. /\ rec \in FileRecord /\ rec.state = "done" /\ rec.id = id
        /\ rec.body = file[k].body /\ rec.since = file[k].since
    BY <1>4, <2>2 DEF FileRecord, name
  <2> HIDE DEF rec
  <2> QED
    BY <1>3, <2>1, <2>3
<1>6. IssueType'
  BY <1>1, <1>5 DEF CommentInv, IssueType
<1>7. (\A q \in Clients : KeyOK(op[q]))'
  BY <1>1, <1>2 DEF CommentInv, KeyOK, Replayed
<1>8. Exclusive' /\ PostsFresh' /\ StoresFound'
  BY <1>2 DEF Exclusive, PostsFresh, StoresFound, Critical
<1>9. \A j \in CommentKeys : j \in FileKeys /\ file'[j].body = file[j].body /\ file'[j].since = file[j].since
  BY <1>5 DEF FileKeys
<1>10. \A j \in CommentKeys : file[j].state # "none" => file'[j].state # "none"
  BY <1>5, <1>9
<1>11. PostedOnce'
  BY <1>9, <1>10 DEF CommentInv, PostedOnce
<1>12. SinceOK'
  BY <1>9 DEF CommentInv, SinceOK
<1>13. (\A j \in CommentKeys : file[j].state = "done" => Names(file[j].id, file[j]))'
  BY <1>5, <1>9 DEF CommentInv, Names
<1> QED
  BY <1>6, <1>7, <1>8, <1>11, <1>12, <1>13 DEF CommentInv

LEMMA ReserveInv == ASSUME CommentInv, NEW c \in Clients, ReserveComment(c) PROVE CommentInv'
<1> DEFINE k == op[c].key
           rec == [state |-> "pending", operation |-> Reserving, body |-> op[c].body,
                   since |-> clock, id |-> 0]
<1>1. op[c].pc = "reserve" /\ op[c].pc \in Critical /\ comments' = comments /\ clock' = clock
  BY DEF ReserveComment, Critical
<1>2. /\ lock = c /\ k \in CommentKeys /\ k \in FileKeys
      /\ \A q \in Clients : op[q].pc \in Critical => q = c
  BY <1>1, Alone
<1>3. CASE Leave(c) /\ file' = file
  BY <1>1, <1>3, LeaveComment
<1>4. CASE file[k].state = "none" /\ file' = [file EXCEPT ![k] = rec] /\ Step(c, "post") /\ lock' = lock
  <2>1. /\ op' \in [Clients -> OpRecord] /\ op'[c].pc = "post" /\ op'[c].key = k
        /\ \A q \in Clients : q # c => op'[q] = op[q]
    BY <1>4, MoveStep DEF CommentInv, OpPcs, Critical
  <2>2. file \in [FileKeys -> FileRecord] /\ clock \in Nat /\ op[c].body \in Texts
    BY DEF CommentInv, IssueType, OpRecord
  <2>3. /\ rec \in FileRecord /\ rec.state = "pending" /\ rec.since = clock
    BY <2>2 DEF FileRecord
  <2> HIDE DEF rec
  <2>4. /\ file' \in [FileKeys -> FileRecord] /\ file'[k] = rec
        /\ \A j \in FileKeys : j # k => file'[j] = file[j]
    BY <1>2, <1>4, <2>2, <2>3
  <2>5. IssueType'
    BY <1>1, <2>1, <2>4 DEF CommentInv, IssueType
  <2>6. (\A q \in Clients : KeyOK(op[q]))' /\ Exclusive'
    BY <1>2, <1>4, <2>1 DEF CommentInv, KeyOK, Exclusive, Critical, Replayed
  <2>7. \A m \in comments : m.by # k
    BY <1>2, <1>4 DEF CommentInv, PostedOnce
  <2>8. \A j \in CommentKeys : j \in FileKeys
    BY DEF FileKeys
  <2>9. PostedOnce'
    BY <1>1, <2>4, <2>7, <2>8 DEF CommentInv, PostedOnce
  <2>10. \A q \in Clients : q # c => op'[q].pc \notin Critical
    BY <1>2, <2>1
  <2>11. PostsFresh' /\ StoresFound'
    BY <1>1, <2>1, <2>3, <2>4, <2>7, <2>10 DEF PostsFresh, StoresFound, Critical
  <2>12. SinceOK'
    <3>1. file'[k].since = clock
      BY <2>3, <2>4
    <3>2. clock' = clock /\ clock <= clock
      BY <1>1, <2>2, SameTime
    <3> QED
      BY <2>4, <2>8, <3>1, <3>2 DEF CommentInv, SinceOK
  <2>13. (\A j \in CommentKeys : file[j].state = "done" => Names(file[j].id, file[j]))'
    BY <1>1, <2>3, <2>4, <2>8 DEF CommentInv, Names
  <2> QED
    BY <2>5, <2>6, <2>9, <2>11, <2>12, <2>13 DEF CommentInv
<1>5. CASE file[k].state = "pending" /\ Step(c, "list") /\ file' = file /\ lock' = lock
  <2>1. /\ op' \in [Clients -> OpRecord] /\ op'[c].pc = "list" /\ op'[c].key = k
        /\ \A q \in Clients : q # c => op'[q] = op[q]
    BY <1>5, MoveStep DEF CommentInv, OpPcs, Critical
  <2>2. IssueType'
    BY <1>1, <1>5, <2>1 DEF CommentInv, IssueType
  <2>3. (\A q \in Clients : KeyOK(op[q]))' /\ Exclusive'
    BY <1>2, <1>5, <2>1 DEF CommentInv, KeyOK, Exclusive, Critical, Replayed
  <2>4. \A q \in Clients : q # c => op'[q].pc \notin Critical
    BY <1>2, <2>1
  <2>5. PostsFresh' /\ StoresFound'
    BY <1>1, <1>5, <2>1, <2>4 DEF PostsFresh, StoresFound, Critical
  <2>6. PostedOnce' /\ SinceOK' /\ (\A j \in CommentKeys : file[j].state = "done" => Names(file[j].id, file[j]))'
    BY <1>1, <1>5 DEF CommentInv, PostedOnce, SinceOK, Names
  <2> QED
    BY <2>2, <2>3, <2>5, <2>6 DEF CommentInv
<1> QED
  BY <1>3, <1>4, <1>5 DEF ReserveComment

\* A search that finds nothing means that the key has no comment; one match is
\* the comment the record will name.
LEMMA ReconcileComment == ASSUME CommentInv, NEW c \in Clients, Reconcile(c) PROVE CommentInv'
<1> DEFINE k == op[c].key
           rec == file[k]
<1>1. op[c].pc = "list" /\ op[c].pc \in Critical /\ comments' = comments /\ clock' = clock
  BY DEF Reconcile, Critical
<1>2. /\ lock = c /\ k \in CommentKeys /\ k \in FileKeys
      /\ \A q \in Clients : op[q].pc \in Critical => q = c
  BY <1>1, Alone
<1>3. /\ rec \in FileRecord /\ rec.since \in Nat /\ comments \subseteq CommentRecord
      /\ \A m \in comments : m.id \in Nat
  BY <1>2 DEF CommentInv, IssueType, FileRecord, CommentRecord
<1>4. CASE Leave(c) /\ file' = file
  BY <1>1, <1>4, LeaveComment
<1>5. CASE \E m \in Matching(rec) : StoreDone(c, m.id) /\ Leave(c)
  <2>1. PICK m \in Matching(rec) : StoreDone(c, m.id) /\ Leave(c)
    BY <1>5
  <2>2. Names(m.id, file[op[c].key]) /\ m.id \in Nat
    BY <1>3 DEF Matching, Names
  <2> QED
    BY <1>1, <2>1, <2>2, DoneComment
<1>6. CASE Matching(rec) = {} /\ Step(c, "post") /\ file' = file /\ lock' = lock
  <2>1. /\ op' \in [Clients -> OpRecord] /\ op'[c].pc = "post" /\ op'[c].key = k
        /\ \A q \in Clients : q # c => op'[q] = op[q]
    BY <1>6, MoveStep DEF CommentInv, OpPcs, Critical
  <2>2. IssueType'
    BY <1>1, <1>6, <2>1 DEF CommentInv, IssueType
  <2>3. (\A q \in Clients : KeyOK(op[q]))' /\ Exclusive'
    BY <1>2, <1>6, <2>1 DEF CommentInv, KeyOK, Exclusive, Critical, Replayed
  <2>4. \A q \in Clients : q # c => op'[q].pc \notin Critical
    BY <1>2, <2>1
  <2>5. ClocksAgree => \A m \in comments : m.by # k
    <3> SUFFICES ASSUME ClocksAgree, NEW m \in comments, m.by = k PROVE FALSE
      OBVIOUS
    <3>1. m.body = rec.body /\ m.author /\ m.at >= rec.since - Skew
      BY <1>2 DEF CommentInv, PostedOnce
    <3> QED
      BY <1>6, <3>1 DEF Matching
  <2>6. rec.state = "pending"
    BY <1>1 DEF CommentInv, PostsFresh
  <2>7. PostsFresh' /\ StoresFound'
    BY <1>1, <1>6, <2>1, <2>4, <2>5, <2>6 DEF PostsFresh, StoresFound, Critical
  <2>8. PostedOnce' /\ SinceOK' /\ (\A j \in CommentKeys : file[j].state = "done" => Names(file[j].id, file[j]))'
    BY <1>1, <1>6 DEF CommentInv, PostedOnce, SinceOK, Names
  <2> QED
    BY <2>2, <2>3, <2>7, <2>8 DEF CommentInv
<1> QED
  BY <1>4, <1>5, <1>6 DEF Reconcile

LEMMA NextId == ASSUME IssueType PROVE Cardinality(comments) + 1 \in Nat
<1>1. Cardinality(comments) \in Nat
  BY FS_CardinalityType DEF IssueType
<1> QED
  BY <1>1

LEMMA NewComment ==
  ASSUME IssueType, NEW who \in CommentKeys \cup {Nobody}, NEW author \in BOOLEAN,
         NEW text \in Texts, NEW d \in Drifts
  PROVE  LET m == Comment(who, author, text, d)
         IN  /\ m \in CommentRecord /\ m.by = who /\ m.author = author /\ m.body = text
             /\ m.at = clock + d
             /\ comments \cup {m} \subseteq CommentRecord /\ IsFiniteSet(comments \cup {m})
<1> DEFINE id == Cardinality(comments) + 1
           m == Comment(who, author, text, d)
<1>1. id \in Nat /\ clock + d \in Int
  BY NextId, IssueAssumption DEF IssueType, Drifts
<1>2. m = [id |-> id, by |-> who, author |-> author, body |-> text, at |-> clock + d]
  BY DEF Comment
<1> HIDE DEF id, m
<1>3. /\ m \in CommentRecord /\ m.by = who /\ m.author = author /\ m.body = text
      /\ m.at = clock + d
  BY <1>1, <1>2 DEF CommentRecord
<1>4. IsFiniteSet(comments \cup {m})
  BY FS_AddElement DEF IssueType
<1>5. comments \cup {m} \subseteq CommentRecord
  BY <1>3 DEF IssueType
<1> QED
  BY <1>3, <1>4, <1>5 DEF m

\* The comment of a key without one, posted and answered or with its answer lost.
LEMMA PostComment == ASSUME CommentInv, NEW c \in Clients, Post(c) PROVE CommentInv'
<1> DEFINE k == op[c].key
<1>0. PICK d \in Drifts :
        LET m == Comment(k, TRUE, file[k].body, d)
        IN  \/ comments' = comments \cup {m} /\ op' = [op EXCEPT ![c].pc = "store", ![c].id = m.id]
               /\ UNCHANGED <<lock, opFaults>>
            \/ comments' = comments \cup {m} /\ Leave(c) /\ IssueFault
            \/ comments' = comments /\ Leave(c) /\ IssueFault
  BY DEF Post
<1> DEFINE m == Comment(k, TRUE, file[k].body, d)
<1>1. op[c].pc = "post" /\ op[c].pc \in Critical /\ file' = file /\ clock' = clock
  BY DEF Post, Critical
<1>2. /\ lock = c /\ k \in CommentKeys /\ k \in FileKeys
      /\ \A q \in Clients : op[q].pc \in Critical => q = c
  BY <1>1, Alone
<1>3. /\ file[k] \in FileRecord /\ file[k].since \in Nat /\ file[k].body \in Texts
      /\ clock \in Nat /\ file[k].since <= clock /\ file[k].state = "pending"
      /\ ClocksAgree => \A n \in comments : n.by # k
  BY <1>1, <1>2 DEF CommentInv, IssueType, FileRecord, SinceOK, PostsFresh
<1>4. CASE Leave(c) /\ comments' = comments
  BY <1>1, <1>4, LeaveComment
<1>5. CASE /\ comments' = comments \cup {m}
           /\ \/ op' = [op EXCEPT ![c].pc = "store", ![c].id = m.id] /\ lock' = lock
              \/ Leave(c)
  <2>1. /\ m \in CommentRecord /\ m.by = k /\ m.author /\ m.body = file[k].body
        /\ m.at = clock + d
        /\ comments' \subseteq CommentRecord /\ IsFiniteSet(comments')
    <3>1. IssueType /\ k \in CommentKeys \cup {Nobody} /\ TRUE \in BOOLEAN
      BY <1>2 DEF CommentInv
    <3> QED
      <4> HIDE DEF k
      <4>1. PICK text \in Texts : text = file[k].body
        BY <1>3
      <4>2. LET n == Comment(k, TRUE, text, d)
            IN  /\ n \in CommentRecord /\ n.by = k /\ n.author = TRUE /\ n.body = text
                /\ n.at = clock + d
                /\ comments \cup {n} \subseteq CommentRecord /\ IsFiniteSet(comments \cup {n})
        BY <3>1, NewComment
      <4> QED
        BY <1>5, <4>1, <4>2
  <2>2. /\ op' \in [Clients -> OpRecord]
        /\ \A q \in Clients : q # c => op'[q] = op[q]
        /\ \/ op'[c].pc = "store" /\ op'[c].key = k /\ op'[c].id = m.id /\ lock' = lock
           \/ op'[c].pc = "idle"
    <3>1. CASE Leave(c)
      BY <3>1, FinishStep DEF Leave, CommentInv
    <3>2. CASE op' = [op EXCEPT ![c].pc = "store", ![c].id = m.id] /\ lock' = lock
      <4> DEFINE id == m.id
                 u == [op[c] EXCEPT !.pc = "store", !.id = id]
      <4>1. op \in [Clients -> OpRecord] /\ op' = [op EXCEPT ![c] = u] /\ id \in Nat
        BY <2>1, <3>2 DEF CommentInv, IssueType, CommentRecord
      <4> HIDE DEF id, m
      <4>2. op[c] \in OpRecord /\ u \in OpRecord /\ u.pc = "store" /\ u.key = k /\ u.id = id
        BY <4>1 DEF OpRecord, OpPcs, Critical
      <4> HIDE DEF u
      <4> QED
        BY <3>2, <4>1, <4>2 DEF id
    <3> QED
      BY <1>5, <3>1, <3>2
  <2> HIDE DEF m
  <2>3. IssueType'
    BY <1>1, <2>1, <2>2 DEF CommentInv, IssueType
  <2>4. (\A q \in Clients : KeyOK(op[q]))'
    BY <1>2, <2>2 DEF CommentInv, KeyOK, Critical, Replayed
  <2>5. \A q \in Clients : q # c => op'[q].pc \notin Critical
    BY <1>2, <2>2
  <2>6. Exclusive' /\ PostsFresh'
    BY <1>2, <2>2, <2>5 DEF Exclusive, PostsFresh, Critical
  <2>7. ClocksAgree => m.at >= file[k].since - Skew
    <3>1. file[k].since \in Nat /\ clock \in Nat /\ file[k].since <= clock /\ m.at = clock + d
      BY <1>3, <2>1
    <3> QED
      BY <3>1, WithinSkew
  <2>8. StoresFound'
    BY <1>1, <1>5, <2>1, <2>2, <2>5, <2>7 DEF StoresFound, Names, Critical
  <2>9. \A j \in CommentKeys, n \in comments' : n.by = j =>
           /\ file'[j].state # "none" /\ n.body = file'[j].body /\ n.author
           /\ ClocksAgree => n.at >= file'[j].since - Skew
    <3> SUFFICES ASSUME NEW j \in CommentKeys, NEW n \in comments', n.by = j
                 PROVE  /\ file'[j].state # "none" /\ n.body = file'[j].body /\ n.author
                        /\ ClocksAgree => n.at >= file'[j].since - Skew
      OBVIOUS
    <3>1. CASE n = m
      BY <1>1, <1>3, <2>1, <2>7, <3>1
    <3>2. CASE n \in comments
      BY <1>1, <3>2 DEF CommentInv, PostedOnce
    <3> QED
      BY <1>5, <3>1, <3>2
  <2>10. ClocksAgree => \A j \in CommentKeys, n, o \in comments' : n.by = j /\ o.by = j => n = o
    <3> SUFFICES ASSUME ClocksAgree, NEW j \in CommentKeys, NEW n \in comments',
                        NEW o \in comments', n.by = j, o.by = j
                 PROVE  n = o
      OBVIOUS
    <3>1. CASE n \in comments /\ o \in comments
      BY <3>1 DEF CommentInv, PostedOnce
    <3>2. CASE n = m \/ o = m
      BY <1>3, <1>5, <2>1, <3>2
    <3> QED
      BY <1>5, <3>1, <3>2
  <2>11. PostedOnce'
    BY <2>9, <2>10 DEF PostedOnce
  <2>12. SinceOK' /\ (\A j \in CommentKeys : file[j].state = "done" => Names(file[j].id, file[j]))'
    BY <1>1, <1>5 DEF CommentInv, SinceOK, Names
  <2> QED
    BY <2>3, <2>4, <2>6, <2>8, <2>11, <2>12 DEF CommentInv
<1> QED
  BY <1>0, <1>4, <1>5

LEMMA StoreInv == ASSUME CommentInv, NEW c \in Clients, StoreComment(c) PROVE CommentInv'
<1>1. /\ op[c].pc = "store" /\ op[c].pc \in Critical /\ Leave(c)
      /\ comments' = comments /\ clock' = clock
  BY DEF StoreComment, Critical
<1>2. op[c].id \in Nat /\ Names(op[c].id, file[op[c].key])
  BY <1>1 DEF CommentInv, IssueType, OpRecord, StoresFound
<1>3. CASE file' = file
  BY <1>1, <1>3, LeaveComment
<1>4. CASE StoreDone(c, op[c].id)
  BY <1>1, <1>2, <1>4, DoneComment
<1> QED
  BY <1>3, <1>4 DEF StoreComment

-----------------------------------------------------------------------------
(* Comments: everybody else.                                               *)

\* A handler of another operation moves on or ends.
LEMMA OutsideStep ==
  ASSUME CommentInv, NEW c \in Clients, op[c].pc \notin Critical,
         \/ Finish(c)
         \/ op[c].pc \in Replayed /\ \E pc \in Replayed : Step(c, pc)
         \/ Step(c, "create"),
         lock' = lock, file' \in [FileKeys -> FileRecord], \A k \in CommentKeys : file'[k] = file[k],
         comments' = comments, clock' = clock
  PROVE  CommentInv'
<1>1. /\ op' \in [Clients -> OpRecord] /\ \A q \in Clients : q # c => op'[q] = op[q]
      /\ op'[c].pc \notin Critical /\ KeyOK(op'[c])
  <2>1. CASE Finish(c)
    BY <2>1, FinishStep DEF CommentInv, KeyOK, Critical, Replayed
  <2>2. CASE op[c].pc \in Replayed /\ \E pc \in Replayed : Step(c, pc)
    <3>1. PICK pc \in Replayed : Step(c, pc)
      BY <2>2
    <3>2. pc \in OpPcs /\ pc \notin Critical /\ pc # "lock"
      BY DEF OpPcs, Replayed, Critical
    <3>3. op[c].key \in Replaying \cup {Header}
      BY <2>2 DEF CommentInv, KeyOK
    <3> QED
      BY <3>1, <3>2, <3>3, MoveStep DEF CommentInv, KeyOK
  <2>3. CASE Step(c, "create")
    <3>1. "create" \in OpPcs /\ "create" \notin Critical \cup {"lock"} /\ "create" \notin Replayed
      BY DEF OpPcs, Critical, Replayed
    <3> QED
      BY <2>3, <3>1, MoveStep DEF CommentInv, KeyOK
  <2> QED
    BY <2>1, <2>2, <2>3
<1>2. \A q \in Clients : op'[q].pc \in Critical => lock' = q
  BY <1>1 DEF CommentInv, Exclusive
<1>3. clock' \in Nat /\ clock <= clock'
  BY SameFile DEF CommentInv
<1> QED
  BY <1>1, <1>2, <1>3, QuietStep

LEMMA OthersInv ==
  ASSUME CommentInv, NEW c \in Clients,
         \/ Load(c) \/ AddPullReviewThreadReply(c) \/ Call(c) \/ Keep(c)
         \/ CheckAndReserve(c) \/ CreateIssue(c)
  PROVE  CommentInv'
<1>1. op[c].pc \notin Critical
  BY DEF Load, AddPullReviewThreadReply, Call, Keep, CheckAndReserve, CreateIssue, Critical
<1>2. lock' = lock /\ comments' = comments /\ clock' = clock
  BY DEF Load, AddPullReviewThreadReply, Call, Keep, CheckAndReserve, CreateIssue
<1>3. \/ Finish(c)
      \/ op[c].pc \in Replayed /\ \E pc \in Replayed : Step(c, pc)
      \/ Step(c, "create")
  BY DEF Load, AddPullReviewThreadReply, Call, Keep, CheckAndReserve, CreateIssue, Replayed
<1>4. file' \in [FileKeys -> FileRecord] /\ \A k \in CommentKeys : file'[k] = file[k]
  <2>1. CASE file' = file
    BY <2>1, SameFile DEF CommentInv
  <2>2. CASE op[c].pc = "keep" /\ StoreDone(c, 0)
    <3> DEFINE k == op[c].key
               name == op[c].name
               rec == [file[k] EXCEPT !.state = "done", !.id = 0, !.operation = name]
    <3>1. k \in Replaying \cup {Header} /\ op[c] \in OpRecord /\ file \in [FileKeys -> FileRecord]
      BY <2>2 DEF CommentInv, KeyOK, IssueType, Replayed
    <3>2. k \in FileKeys /\ k \notin CommentKeys
      BY <3>1, IssueAssumption DEF FileKeys
    <3>3. name \in {"", Reserving, Creating} \cup Replaying /\ file[k] \in FileRecord
      BY <3>1, <3>2 DEF OpRecord
    <3>4. file' = [file EXCEPT ![k] = rec]
      BY <2>2 DEF StoreDone
    <3> HIDE DEF name, k
    <3>5. rec \in FileRecord
      BY <3>3 DEF FileRecord
    <3> HIDE DEF rec
    <3>6. \A j \in CommentKeys : j \in FileKeys
      BY DEF FileKeys
    <3> QED
      BY <3>1, <3>2, <3>4, <3>5, <3>6
  <2> QED
    BY <2>1, <2>2 DEF Load, AddPullReviewThreadReply, Call, Keep, CheckAndReserve, CreateIssue
<1> QED
  BY <1>1, <1>2, <1>3, <1>4, OutsideStep

LEMMA HumanInv == ASSUME CommentInv, HumanComments PROVE CommentInv'
<1>1. PICK b \in Bodies, d \in Drifts, author \in BOOLEAN :
         comments' = comments \cup {Comment(Nobody, author, b, d)}
  BY DEF HumanComments
<1> DEFINE m == Comment(Nobody, author, b, d)
<1>2. op' = op /\ lock' = lock /\ file' = file /\ clock' = clock
  BY DEF HumanComments
<1>3. m.by = Nobody /\ comments' \subseteq CommentRecord /\ IsFiniteSet(comments')
  <2>1. IssueType /\ Nobody \in CommentKeys \cup {Nobody} /\ b \in Texts
    BY DEF CommentInv, Texts
  <2> QED
    BY <1>1, <2>1, NewComment
<1> HIDE DEF m
<1>4. m.by \notin CommentKeys
  BY <1>3, IssueAssumption
<1>5. comments' = comments \cup {m}
  BY <1>1 DEF m
<1>6. IssueType'
  BY <1>2, <1>3 DEF CommentInv, IssueType
<1>7. (\A c \in Clients : KeyOK(op[c]))' /\ Exclusive' /\ SinceOK'
  BY <1>2 DEF CommentInv, KeyOK, Exclusive, SinceOK
<1>8. \A k \in CommentKeys, n \in comments' : n.by = k => n \in comments
  BY <1>4, <1>5
<1>9. PostedOnce'
  BY <1>2, <1>8 DEF CommentInv, PostedOnce
<1>10. PostsFresh'
  BY <1>2, <1>8 DEF CommentInv, PostsFresh, KeyOK, Critical
<1>11. StoresFound' /\ (\A k \in CommentKeys : file[k].state = "done" => Names(file[k].id, file[k]))'
  BY <1>2, <1>5 DEF CommentInv, StoresFound, Names
<1> QED
  BY <1>6, <1>7, <1>9, <1>10, <1>11 DEF CommentInv

LEMMA TimeInv == ASSUME CommentInv, TimePasses PROVE CommentInv'
<1>1. op' = op /\ lock' = lock /\ file' = file /\ comments' = comments
  BY DEF TimePasses
<1>2. clock \in Nat /\ clock' = clock + 1
  BY DEF TimePasses, CommentInv, IssueType
<1>3. clock' \in Nat /\ clock <= clock'
  BY <1>2
<1>4. op' \in [Clients -> OpRecord] /\ file' \in [FileKeys -> FileRecord]
  BY <1>1 DEF CommentInv, IssueType
<1>5. \A q \in Clients : op'[q].pc \in Critical => lock' = q
  BY <1>1 DEF CommentInv, Exclusive
<1> QED
  BY <1>1, <1>3, <1>4, <1>5, QuietStep

LEMMA CrashInv == ASSUME CommentInv, IssueCrash PROVE CommentInv'
<1>1. op' = [c \in Clients |-> Resting] /\ file' = file /\ comments' = comments /\ clock' = clock
  BY DEF IssueCrash
<1>2. op' \in [Clients -> OpRecord] /\ \A q \in Clients : op'[q].pc = "idle"
  BY <1>1, RestingOp
<1>3. \A q \in Clients : op'[q].pc \notin Critical /\ KeyOK(op'[q])
  BY <1>2 DEF KeyOK, Critical, Replayed
<1> QED
  BY <1>1, <1>2, <1>3, SameFile, QuietStep DEF CommentInv

\* A step of the broker is one of the issue operations or leaves them alone.
LEMMA BrokerIssueStep == ASSUME [BrokerNext]_brokerVars PROVE [IssueNext]_issueVars
  BY DEF BrokerNext, ReloadConfig, brokerVars

LEMMA CommentNext == ASSUME CommentInv, [IssueNext]_issueVars PROVE CommentInv'
<1>1. CASE UNCHANGED issueVars
  <2>1. op' = op /\ lock' = lock /\ file' = file /\ comments' = comments /\ clock' = clock
    BY <1>1 DEF issueVars
  <2>2. op' \in [Clients -> OpRecord] /\ \A q \in Clients : op'[q].pc \in Critical => lock' = q
    BY <2>1 DEF CommentInv, IssueType, Exclusive
  <2> QED
    BY <2>1, <2>2, SameFile, QuietStep DEF CommentInv
<1>2. CASE HumanComments \/ TimePasses \/ IssueCrash
  BY <1>2, HumanInv, TimeInv, CrashInv
<1>3. CASE \E c \in Clients : \/ HandleCommentCreate(c) \/ HandleIssueCreate(c)
                              \/ HandleIssueLabelsAdd(c) \/ HandleIssueLabelRemove(c)
                              \/ HandlePullReviewDismiss(c) \/ HandlePullReviewThreadResolve(c)
  BY <1>3, HandlersBegin
<1>4. CASE \E c \in Clients : \/ Enter(c) \/ ReserveComment(c) \/ Reconcile(c) \/ Post(c)
                              \/ StoreComment(c)
  BY <1>4, EnterComment, ReserveInv, ReconcileComment, PostComment, StoreInv
<1>5. CASE \E c \in Clients : \/ Load(c) \/ AddPullReviewThreadReply(c) \/ Call(c) \/ Keep(c)
                              \/ CheckAndReserve(c) \/ CreateIssue(c)
  BY <1>5, OthersInv
<1> QED
  BY <1>1, <1>2, <1>3, <1>4, <1>5 DEF IssueNext

LEMMA CommentInvariant == BrokerSpec => []CommentInv
<1>1. BrokerInit => CommentInv
  BY CommentInit DEF BrokerInit
<1>2. CommentInv /\ [BrokerNext]_brokerVars => CommentInv'
  BY BrokerIssueStep, CommentNext
<1> QED
  BY <1>1, <1>2, PTL DEF BrokerSpec

\* However many requests retry a comment around crashes and lost answers, the
\* broker posts at most one comment for its key (handleCommentCreate), as long
\* as GitHub's clock and its own differ by no more than the margin of the search.
THEOREM CommentPostedOnce == ClocksAgree => (BrokerSpec => []OneCommentPerKey)
<1> SUFFICES ASSUME ClocksAgree PROVE BrokerSpec => []OneCommentPerKey
  OBVIOUS
<1>1. CommentInv => OneCommentPerKey
  <2> SUFFICES ASSUME CommentInv, NEW k \in CommentKeys
               PROVE  Cardinality({m \in comments : m.by = k}) <= 1
    BY DEF OneCommentPerKey
  <2> DEFINE own == {m \in comments : m.by = k}
  <2>1. \A m, n \in own : m = n
    BY DEF CommentInv, PostedOnce
  <2> HIDE DEF own
  <2>2. own = {} \/ \E m : own = {m}
    BY <2>1
  <2>3. ASSUME own = {} PROVE Cardinality(own) <= 1
    <3>1. Cardinality(own) = 0
      BY <2>3, FS_EmptySet
    <3> QED
      BY <3>1
  <2>4. ASSUME NEW m, own = {m} PROVE Cardinality(own) <= 1
    <3>1. Cardinality({m}) = 1
      BY FS_Singleton
    <3> QED
      BY <2>4, <3>1
  <2> QED
    BY <2>2, <2>3, <2>4 DEF own
<1> QED
  BY <1>1, CommentInvariant, PTL

\* A finished record names a comment of the issue with the text that was asked
\* for and an author, at most Skew older than the reservation, whether it was
\* found (reconcilePendingComment) or posted, which needs clocks that agree.
THEOREM RecordsNameComments == ClocksAgree => (BrokerSpec => []RecordNamesComment)
<1> SUFFICES ASSUME ClocksAgree PROVE BrokerSpec => []RecordNamesComment
  OBVIOUS
<1>1. CommentInv => RecordNamesComment
  BY DEF CommentInv, Names, RecordNamesComment
<1> QED
  BY <1>1, CommentInvariant, PTL

-----------------------------------------------------------------------------
(* The budget of new issues.                                               *)

\* The attempts that count against a limit and have not yet been made.
CountedFor(s) == {c \in Clients : op[c].pc = "create" /\ s \in {Total, op[c].body}}

\* No limit is passed, and every issue of the run has been counted.
BudgetInv ==
    /\ op \in [Clients -> OpRecord]
    /\ created \in [Scopes -> Nat] /\ limit \in [Scopes -> Nat]
    /\ \A s \in Scopes : /\ created[s] + Cardinality(CountedFor(s)) <= limit[s]
                         /\ Budget[s] > 0 => limit[s] <= Budget[s]

LEMMA CountedSet ==
  ASSUME NEW s
  PROVE  /\ IsFiniteSet(CountedFor(s)) /\ Cardinality(CountedFor(s)) \in Nat
         /\ IsFiniteSet(CountedFor(s)') /\ Cardinality(CountedFor(s)') \in Nat
<1>1. CountedFor(s) \subseteq Clients /\ CountedFor(s)' \subseteq Clients
  BY DEF CountedFor
<1>2. IsFiniteSet(CountedFor(s)) /\ IsFiniteSet(CountedFor(s)')
  BY <1>1, IssueAssumption, FS_Subset
<1> QED
  BY <1>2, FS_CardinalityType

\* Nobody new is counted, and nothing is made.
LEMMA QuietBudget ==
  ASSUME BudgetInv, op' \in [Clients -> OpRecord], created' = created, limit' = limit,
         \A s \in Scopes : CountedFor(s)' \subseteq CountedFor(s)
  PROVE  BudgetInv'
<1> SUFFICES ASSUME NEW s \in Scopes PROVE created[s] + Cardinality(CountedFor(s)') <= limit[s]
  BY DEF BudgetInv
<1>1. PICK n \in Nat, i \in Nat : n = Cardinality(CountedFor(s)) /\ i = Cardinality(CountedFor(s)')
  BY CountedSet
<1>2. i <= n
  BY <1>1, CountedSet, FS_Subset
<1>3. created[s] \in Nat /\ limit[s] \in Nat /\ created[s] + n <= limit[s]
  BY <1>1 DEF BudgetInv
<1> QED
  BY <1>1, <1>2, <1>3

\* The steps of a handler, as far as the budget sees them.
LEMMA BudgetOps ==
  ASSUME op \in [Clients -> OpRecord], NEW c \in Clients, NEW o \in OpRecord,
         op' = [op EXCEPT ![c] = o]
  PROVE  /\ op' \in [Clients -> OpRecord] /\ op'[c] = o
         /\ \A q \in Clients : q # c => op'[q] = op[q]
  OBVIOUS

LEMMA MovedBudget ==
  ASSUME BudgetInv, NEW c \in Clients, created' = created, limit' = limit,
         Finish(c) \/ \E pc \in OpPcs \ {"create"} : Step(c, pc)
  PROVE  BudgetInv'
<1>1. op \in [Clients -> OpRecord] /\ op[c] \in OpRecord
  BY DEF BudgetInv
<1>2. PICK o \in OpRecord : op' = [op EXCEPT ![c] = o] /\ o.pc # "create"
  <2>1. CASE Finish(c)
    BY <2>1, RestingOp DEF Finish
  <2>2. CASE \E pc \in OpPcs \ {"create"} : Step(c, pc)
    <3>1. PICK pc \in OpPcs \ {"create"} : op' = [op EXCEPT ![c] = [op[c] EXCEPT !.pc = pc]]
      BY <2>2 DEF Step
    <3>2. [op[c] EXCEPT !.pc = pc] \in OpRecord /\ [op[c] EXCEPT !.pc = pc].pc # "create"
      BY <1>1, MovedOp
    <3> QED
      BY <3>1, <3>2
  <2> QED
    BY <2>1, <2>2
<1>3. op' \in [Clients -> OpRecord] /\ \A s \in Scopes : CountedFor(s)' \subseteq CountedFor(s)
  BY <1>1, <1>2, BudgetOps DEF CountedFor
<1> QED
  BY <1>3, QuietBudget

LEMMA CountingType ==
  ASSUME NEW n \in [Scopes -> Nat], NEW class
  PROVE  /\ Counting(n, class) \in [Scopes -> Nat]
         /\ \A s \in Scopes : Counting(n, class)[s] = IF s \in {Total, class} THEN n[s] + 1 ELSE n[s]
<1>1. Counting(n, class) = [s \in Scopes |-> IF s \in {Total, class} THEN n[s] + 1 ELSE n[s]]
  BY DEF Counting
<1>2. \A s \in Scopes : (IF s \in {Total, class} THEN n[s] + 1 ELSE n[s]) \in Nat
  OBVIOUS
<1> QED
  BY <1>1, <1>2

LEMMA ReserveBudget == ASSUME BudgetInv, NEW c \in Clients, CheckAndReserve(c) PROVE BudgetInv'
<1> DEFINE class == op[c].body
<1>1. created' = created /\ op[c].pc = "budget"
  BY DEF CheckAndReserve
<1>2. CASE Finish(c) /\ limit' = limit
  BY <1>1, <1>2, MovedBudget
<1>3. CASE ~Exhausted(class) /\ limit' = Counting(limit, class) /\ Step(c, "create")
  <2> DEFINE o == [op[c] EXCEPT !.pc = "create"]
  <2>1. op \in [Clients -> OpRecord] /\ op[c] \in OpRecord /\ op' = [op EXCEPT ![c] = o]
    BY <1>3 DEF BudgetInv, Step
  <2>2. o \in OpRecord /\ o.pc = "create" /\ o.body = class
    BY <2>1, MovedOp DEF OpPcs
  <2> HIDE DEF o, class
  <2>3. /\ created \in [Scopes -> Nat] /\ limit \in [Scopes -> Nat]
        /\ op' \in [Clients -> OpRecord] /\ limit' \in [Scopes -> Nat]
    BY <1>3, <2>1, <2>2, BudgetOps, CountingType DEF BudgetInv
  <2>4. ASSUME NEW s \in Scopes
        PROVE  /\ created[s] + Cardinality(CountedFor(s)') <= limit'[s]
               /\ Budget[s] > 0 => limit'[s] <= Budget[s]
    <3>1. c \notin CountedFor(s)
      BY <1>1 DEF CountedFor
    <3>2. CountedFor(s)' = IF s \in {Total, class} THEN CountedFor(s) \cup {c} ELSE CountedFor(s)
      <4>1. op'[c].pc = "create" /\ op'[c].body = class /\ \A q \in Clients : q # c => op'[q] = op[q]
        BY <2>1, <2>2, BudgetOps
      <4> QED
        BY <3>1, <4>1 DEF CountedFor
    <3>3. PICK n \in Nat : n = Cardinality(CountedFor(s))
      BY CountedSet
    <3>4. /\ created[s] \in Nat /\ limit[s] \in Nat /\ created[s] + n <= limit[s]
          /\ Budget[s] \in Nat /\ (Budget[s] > 0 => limit[s] <= Budget[s])
      BY <2>3, <3>3, IssueAssumption DEF BudgetInv
    <3>5. limit'[s] = IF s \in {Total, class} THEN limit[s] + 1 ELSE limit[s]
      BY <1>3, <2>3, CountingType
    <3>6. CASE s \in {Total, class}
      <4>1. Cardinality(CountedFor(s)') = n + 1
        BY <3>1, <3>2, <3>3, <3>6, CountedSet, FS_AddElement
      <4>2. Budget[s] > 0 => limit[s] < Budget[s]
        BY <1>3, <3>4, <3>6 DEF Exhausted
      <4> QED
        BY <3>4, <3>5, <3>6, <4>1, <4>2
    <3>7. CASE s \notin {Total, class}
      BY <3>2, <3>3, <3>4, <3>5, <3>7
    <3> QED
      BY <3>6, <3>7
  <2> QED
    BY <1>1, <2>3, <2>4 DEF BudgetInv
<1> QED
  BY <1>2, <1>3 DEF CheckAndReserve

LEMMA CreateBudget == ASSUME BudgetInv, NEW c \in Clients, CreateIssue(c) PROVE BudgetInv'
<1> DEFINE class == op[c].body
<1>1. /\ limit' = limit /\ op[c].pc = "create" /\ Finish(c)
      /\ created' \in {created, Counting(created, class)}
  BY DEF CreateIssue
<1>2. CASE created' = created
  BY <1>1, <1>2, MovedBudget
<1>3. CASE created' = Counting(created, class)
  <2>1. op \in [Clients -> OpRecord] /\ op' = [op EXCEPT ![c] = Resting]
    BY <1>1 DEF BudgetInv, Finish
  <2>2. /\ created \in [Scopes -> Nat] /\ limit \in [Scopes -> Nat]
        /\ op' \in [Clients -> OpRecord] /\ created' \in [Scopes -> Nat]
    BY <1>3, <2>1, RestingOp, BudgetOps, CountingType DEF BudgetInv
  <2>3. ASSUME NEW s \in Scopes PROVE created'[s] + Cardinality(CountedFor(s)') <= limit[s]
    <3>1. CountedFor(s)' = CountedFor(s) \ {c}
      <4>1. op'[c].pc = "idle" /\ \A q \in Clients : q # c => op'[q] = op[q]
        BY <2>1, RestingOp, BudgetOps
      <4> QED
        BY <4>1 DEF CountedFor
    <3>2. c \in CountedFor(s) <=> s \in {Total, class}
      BY <1>1 DEF CountedFor
    <3> HIDE DEF class
    <3>3. PICK n \in Nat : n = Cardinality(CountedFor(s))
      BY CountedSet
    <3>4. created[s] \in Nat /\ limit[s] \in Nat /\ created[s] + n <= limit[s]
      BY <2>2, <3>3 DEF BudgetInv
    <3>5. created'[s] = IF s \in {Total, class} THEN created[s] + 1 ELSE created[s]
      BY <1>3, <2>2, CountingType
    <3>6. CASE s \in {Total, class}
      <4>1. Cardinality(CountedFor(s)') = n - 1
        BY <3>1, <3>2, <3>3, <3>6, CountedSet, FS_RemoveElement
      <4> QED
        BY <3>4, <3>5, <3>6, <4>1
    <3>7. CASE s \notin {Total, class}
      <4>1. CountedFor(s)' = CountedFor(s)
        BY <3>1, <3>2, <3>7
      <4> QED
        BY <3>3, <3>4, <3>5, <3>7, <4>1
    <3> QED
      BY <3>6, <3>7
  <2> QED
    BY <1>1, <2>2, <2>3 DEF BudgetInv
<1> QED
  BY <1>1, <1>2, <1>3

LEMMA BudgetInit == IssueInit => BudgetInv
<1> SUFFICES ASSUME IssueInit PROVE BudgetInv
  OBVIOUS
<1>1. op \in [Clients -> OpRecord] /\ \A s : CountedFor(s) = {}
  <2>1. op = [c \in Clients |-> Resting]
    BY DEF IssueInit
  <2>2. \A c \in Clients : op[c] \in OpRecord /\ op[c].pc = "idle"
    BY <2>1, RestingOp
  <2> QED
    BY <2>1, <2>2, RestingOp DEF CountedFor
<1>2. \A s : Cardinality(CountedFor(s)) = 0
  BY <1>1, FS_EmptySet
<1>3. /\ created \in [Scopes -> Nat] /\ limit \in [Scopes -> Nat]
      /\ \A s \in Scopes : created[s] = 0 /\ limit[s] = 0
  BY DEF IssueInit
<1>4. \A s \in Scopes : Budget[s] \in Nat
  BY IssueAssumption
<1> QED
  BY <1>1, <1>2, <1>3, <1>4 DEF BudgetInv

\* The operations other than new issues count nothing and make none.
LEMMA OtherBudget ==
  ASSUME CommentInv, BudgetInv, NEW c \in Clients,
         \/ Enter(c) \/ ReserveComment(c) \/ Reconcile(c) \/ StoreComment(c)
         \/ Load(c) \/ AddPullReviewThreadReply(c) \/ Call(c) \/ Keep(c)
  PROVE  BudgetInv'
<1>1. created' = created /\ limit' = limit
  BY DEF Enter, ReserveComment, Reconcile, StoreComment, Load, AddPullReviewThreadReply, Call, Keep
<1>2. Finish(c) \/ Step(c, "reserve") \/ Step(c, "post") \/ Step(c, "list") \/ Step(c, "reply")
      \/ Step(c, "call") \/ Step(c, "keep")
  BY DEF Enter, ReserveComment, Reconcile, StoreComment, Load, AddPullReviewThreadReply, Call, Keep, Leave
<1>3. Finish(c) \/ \E pc \in OpPcs \ {"create"} : Step(c, pc)
  BY <1>2 DEF OpPcs, Critical, Replayed
<1> QED
  BY <1>1, <1>3, MovedBudget

LEMMA PostBudget == ASSUME CommentInv, BudgetInv, NEW c \in Clients, Post(c) PROVE BudgetInv'
<1>1. created' = created /\ limit' = limit
  BY DEF Post
<1>2. CASE Leave(c)
  BY <1>1, <1>2, MovedBudget DEF Leave
<1>3. CASE \E i \in Nat : op' = [op EXCEPT ![c].pc = "store", ![c].id = i]
  <2>1. PICK i \in Nat : op' = [op EXCEPT ![c].pc = "store", ![c].id = i]
    BY <1>3
  <2>2. op \in [Clients -> OpRecord] /\ op[c] \in OpRecord
    BY DEF BudgetInv
  <2> DEFINE o == [op[c] EXCEPT !.pc = "store", !.id = i]
  <2>3. op' = [op EXCEPT ![c] = o]
    BY <2>1, <2>2
  <2>4. o \in OpRecord /\ o.pc = "store"
    BY <2>2 DEF OpRecord, OpPcs, Critical
  <2> HIDE DEF o
  <2>5. op' \in [Clients -> OpRecord] /\ \A s \in Scopes : CountedFor(s)' \subseteq CountedFor(s)
    BY <2>2, <2>3, <2>4, BudgetOps DEF CountedFor
  <2> QED
    BY <1>1, <2>5, QuietBudget
<1>4. \A d : Comment(op[c].key, TRUE, file[op[c].key].body, d).id \in Nat
  BY NextId DEF Comment, CommentInv
<1> QED
  BY <1>2, <1>3, <1>4 DEF Post

LEMMA BeginBudget ==
  ASSUME CommentInv, CommentInv', BudgetInv, NEW c \in Clients,
         NEW name, NEW pc \in {"lock", "budget", "load"}, NEW key, NEW body,
         Begin(c, name, pc, key, body)
  PROVE  BudgetInv'
<1> DEFINE o == [pc |-> pc, name |-> name, key |-> key, body |-> body, id |-> 0]
<1>1. created' = created /\ limit' = limit /\ op' = [op EXCEPT ![c] = o] /\ o.pc # "create"
  BY DEF Begin
<1> HIDE DEF o
<1>2. op \in [Clients -> OpRecord] /\ op' \in [Clients -> OpRecord]
  BY DEF BudgetInv, CommentInv, IssueType
<1>3. o \in OpRecord
  BY <1>1, <1>2
<1>4. \A s \in Scopes : CountedFor(s)' \subseteq CountedFor(s)
  BY <1>1, <1>2, <1>3, BudgetOps DEF CountedFor
<1> QED
  BY <1>1, <1>2, <1>4, QuietBudget

LEMMA BudgetNext ==
  ASSUME CommentInv, CommentInv', BudgetInv, [IssueNext]_issueVars
  PROVE  BudgetInv'
<1>1. CASE UNCHANGED issueVars \/ HumanComments \/ TimePasses
  <2>1. op' = op /\ created' = created /\ limit' = limit
    BY <1>1 DEF issueVars, HumanComments, TimePasses
  <2>2. (\A s \in Scopes : CountedFor(s)' \subseteq CountedFor(s)) /\ op' \in [Clients -> OpRecord]
    BY <2>1 DEF CountedFor, BudgetInv
  <2> QED
    BY <2>1, <2>2, QuietBudget
<1>2. CASE IssueCrash
  <2>1. op' = [c \in Clients |-> Resting] /\ created' = created /\ limit' = limit
    BY <1>2 DEF IssueCrash
  <2>2. op' \in [Clients -> OpRecord] /\ \A c \in Clients : op'[c].pc = "idle"
    BY <2>1, RestingOp
  <2>3. \A s \in Scopes : CountedFor(s)' \subseteq CountedFor(s)
    BY <2>2 DEF CountedFor
  <2> QED
    BY <2>1, <2>2, <2>3, QuietBudget
<1>3. ASSUME NEW c \in Clients,
             \/ HandleCommentCreate(c) \/ HandleIssueCreate(c)
             \/ HandleIssueLabelsAdd(c) \/ HandleIssueLabelRemove(c)
             \/ HandlePullReviewDismiss(c) \/ HandlePullReviewThreadResolve(c)
      PROVE  BudgetInv'
  <2>1. \E name, key, body : \E pc \in {"lock", "budget", "load"} : Begin(c, name, pc, key, body)
    BY <1>3 DEF HandleCommentCreate, HandleIssueCreate, HandleIssueLabelsAdd, HandleIssueLabelRemove,
                HandlePullReviewDismiss, HandlePullReviewThreadResolve
  <2> QED
    BY <2>1, BeginBudget
<1>4. ASSUME NEW c \in Clients,
             \/ Enter(c) \/ ReserveComment(c) \/ Reconcile(c) \/ Post(c) \/ StoreComment(c)
             \/ Load(c) \/ AddPullReviewThreadReply(c) \/ Call(c) \/ Keep(c)
             \/ CheckAndReserve(c) \/ CreateIssue(c)
      PROVE  BudgetInv'
  BY <1>4, OtherBudget, PostBudget, ReserveBudget, CreateBudget
<1> QED
  BY <1>1, <1>2, <1>3, <1>4 DEF IssueNext

\* A run makes no more issues than its budgets allow, in all and of each class,
\* whatever runs at the same time and whichever attempts fail (limits.go CheckAndReserve).
THEOREM IssuesWithinLimits == BrokerSpec => []IssuesWithinBudget
<1>1. BrokerInit => BudgetInv
  BY BudgetInit DEF BrokerInit
<1>2. CommentInv /\ CommentInv' /\ BudgetInv /\ [BrokerNext]_brokerVars => BudgetInv'
  BY BrokerIssueStep, BudgetNext
<1>3. BudgetInv => IssuesWithinBudget
  <2> SUFFICES ASSUME BudgetInv, NEW s \in Scopes, Budget[s] > 0 PROVE created[s] <= Budget[s]
    BY DEF IssuesWithinBudget
  <2>1. PICK n \in Nat : n = Cardinality(CountedFor(s))
    BY CountedSet
  <2>2. /\ created[s] \in Nat /\ limit[s] \in Nat /\ Budget[s] \in Nat
        /\ created[s] + n <= limit[s] /\ limit[s] <= Budget[s]
    BY <2>1, IssueAssumption DEF BudgetInv
  <2> QED
    BY <2>2
<1> QED
  BY <1>1, <1>2, <1>3, CommentInvariant, PTL DEF BrokerSpec
=============================================================================
