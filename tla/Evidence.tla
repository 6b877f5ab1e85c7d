------------------------------- MODULE Evidence -------------------------------
(***************************************************************************)
(* The evidence items of one user (backend/internal/evidence): uploads,    *)
(* which write a file and then a row, requests for review, and the reviews *)
(* that an operator makes with cmd/reviewevidence                          *)
(* (backend/internal/evidencereview).  No statement of either package      *)
(* touches the items of two users.                                         *)
(*                                                                         *)
(* A file and its row are not written together.  A status is written by    *)
(* two programs that do not know of each other, each in a transaction with *)
(* its audit row; an item is named by the call that uploads it.            *)
(*                                                                         *)
(* An audit row bears the time at which its transaction began (created_at  *)
(* is NOW()), but takes effect when it commits: transactions that overlap  *)
(* wait for each other at the row of the item, and may commit in another   *)
(* order than they sort in.  As elsewhere, a definition that differs by    *)
(* one slip from the one after it is a mutant, which no action uses.       *)
(***************************************************************************)
EXTENDS Naturals

CONSTANT Calls  \* requests to the API and runs of reviewevidence; each runs once

VARIABLES
    file,    \* the file of each upload in the storage directory
    status,  \* evidence_items.status, or "none" while there is no row
    trail,   \* the audit rows of each item, in no order
    begun,   \* the clock: how many transactions on each item have begun
    call     \* what each call holds

vars == <<file, status, trail, begun, call>>

FileStates == {"none", "partial", "complete"}
Decisions == {"verified", "rejected"}
Statuses == {"none", "uploaded", "pending_verification"} \union Decisions
Events == {"created", "review_requested"} \union Decisions
Stages == {"idle", "writing", "saved", "committed", "requesting", "reviewing",
           "answered", "lost"}

NewCall(k) == [stage |-> "idle", item |-> k, typed |-> "uploaded", at |-> 0]

Init ==
    /\ file = [u \in Calls |-> "none"]
    /\ status = [u \in Calls |-> "none"]
    /\ trail = [u \in Calls |-> {}]
    /\ begun = [u \in Calls |-> 0]
    /\ call = [k \in Calls |-> NewCall(k)]

(* Only a transaction under way holds more than its stage.                 *)
Goto(k, stage) == call' = [call EXCEPT ![k] = [NewCall(k) EXCEPT !.stage = stage]]

(* An item of a caller: its id became known with the upload's answer, or   *)
(* from a list.  Any other id matches no row, and nothing is written.      *)
Exists(u) == status[u] # "none"

(* BeginTx: the call knows its item, and its created_at is settled.        *)
Begin(k, stage, u, typed) ==
    /\ begun' = [begun EXCEPT ![u] = @ + 1]
    /\ call' = [call EXCEPT ![k] =
                   [stage |-> stage, item |-> u, typed |-> typed, at |-> begun[u] + 1]]

(* Commit: the new status and its audit row at once.  created_at is at;    *)
(* that committed of the item's transactions had begun by the commit is    *)
(* history, which no column holds.                                         *)
Write(u, newStatus, event, at, committed) ==
    /\ status' = [status EXCEPT ![u] = newStatus]
    /\ trail' = [trail EXCEPT ![u] =
                    @ \union {[event |-> event, at |-> at, committed |-> committed]}]

(***************************************************************************)
(* evidence.Create: LocalStorage.Save makes a new file (O_EXCL) and copies *)
(* the upload into it; only a file that was copied whole gets a row.       *)
(***************************************************************************)
OpenFile(u) ==
    /\ call[u].stage = "idle"
    /\ file' = [file EXCEPT ![u] = "partial"]
    /\ Goto(u, "writing")
    /\ UNCHANGED <<status, trail, begun>>

CopyFileIgnoringError(u) ==
    /\ call[u].stage = "writing"
    /\ file' \in {file, [file EXCEPT ![u] = "complete"]}
    /\ Goto(u, "saved")
    /\ UNCHANGED <<status, trail, begun>>

CopyFile(u) ==
    /\ call[u].stage = "writing"
    /\ file' = [file EXCEPT ![u] = "complete"]
    /\ Goto(u, "saved")
    /\ UNCHANGED <<status, trail, begun>>

(* Nobody knows the item before this transaction commits, so it matters    *)
(* not when it began.                                                      *)
InsertItem(u) ==
    /\ call[u].stage = "saved"
    /\ begun' = [begun EXCEPT ![u] = @ + 1]
    /\ Write(u, "uploaded", "created", begun[u] + 1, begun[u] + 1)
    /\ Goto(u, "committed")
    /\ UNCHANGED file

Answer(u) ==
    /\ call[u].stage = "committed"
    /\ Goto(u, "answered")
    /\ UNCHANGED <<file, status, trail, begun>>

(***************************************************************************)
(* evidence.RequestReview: a transaction with one UPDATE, which only an    *)
(* uploaded item matches once the transaction has its row.                 *)
(***************************************************************************)
BeginRequest(k, u) ==
    /\ call[k].stage = "idle"
    /\ \/ Exists(u) /\ Begin(k, "requesting", u, "pending_verification")
       \/ ~ Exists(u) /\ Goto(k, "answered") /\ UNCHANGED begun
    /\ UNCHANGED <<file, status, trail>>

ReviewableUntilRequested(u) == status[u] # "pending_verification"
ReviewableUntilReviewed(u) == status[u] \notin Decisions
Reviewable(u) == status[u] = "uploaded"

RequestReview(k) ==
    LET u == call[k].item IN
    /\ call[k].stage = "requesting"
    /\ \/ /\ Reviewable(u)
          /\ Write(u, "pending_verification", "review_requested", call[k].at, begun[u])
       \/ /\ ~ Reviewable(u)
          /\ UNCHANGED <<status, trail>>
    /\ Goto(k, "answered")
    /\ UNCHANGED <<file, begun>>

(***************************************************************************)
(* evidencereview.Review: verified or rejected, whatever the status was.   *)
(* cleanInput: the operator types the status; only two of them are taken.  *)
(***************************************************************************)
AllowedByTable(typed) == typed \in (Statuses \ {"none"}) \union {"expired"}
Allowed(typed) == typed \in Decisions

BeginReview(k, u, typed) ==
    /\ call[k].stage = "idle"
    /\ \/ Allowed(typed) /\ Exists(u) /\ Begin(k, "reviewing", u, typed)
       \/ ~ (Allowed(typed) /\ Exists(u)) /\ Goto(k, "answered") /\ UNCHANGED begun
    /\ UNCHANGED <<file, status, trail>>

EventOf(decision) == IF decision = "verified" THEN "verified" ELSE "rejected"

Review(k) ==
    LET u == call[k].item IN
    /\ call[k].stage = "reviewing"
    /\ Write(u, call[k].typed, EventOf(call[k].typed), call[k].at, begun[u])
    /\ Goto(k, "answered")
    /\ UNCHANGED <<file, begun>>

(* The disk is full, the client goes away, the process stops, a statement  *)
(* fails, or the outcome of the commit is not learned: what has not been   *)
(* committed is rolled back, but nobody removes the file.                  *)
Lose(k) ==
    /\ call[k].stage \in {"writing", "saved", "committed", "requesting", "reviewing"}
    /\ Goto(k, "lost")
    /\ UNCHANGED <<file, status, trail, begun>>

Next ==
    \E k \in Calls :
        \/ OpenFile(k) \/ CopyFile(k) \/ InsertItem(k) \/ Answer(k)
        \/ RequestReview(k) \/ Review(k) \/ Lose(k)
        \/ \E u \in Calls :
              \/ BeginRequest(k, u)
              \/ \E typed \in Statuses \union {"expired"} : BeginReview(k, u, typed)

Spec == Init /\ [][Next]_vars

(***************************************************************************)
(* PROPERTIES                                                              *)
(***************************************************************************)

Row == [event : Events, at : Nat, committed : Nat]

TypeOK ==
    /\ file \in [Calls -> FileStates]
    /\ status \in [Calls -> Statuses]
    /\ trail \in [Calls -> SUBSET Row]
    /\ begun \in [Calls -> Nat]
    /\ call \in [Calls -> [stage : Stages, item : Calls, typed : Statuses, at : Nat]]

(* Wherever an upload stops, an item in the database has its whole file,   *)
(* and an upload that was answered has its item.  What may be left over is *)
(* a file without an item, of an upload that was lost.                     *)
ItemHasFile ==
    \A u \in Calls :
        /\ Exists(u) => file[u] = "complete"
        /\ call[u].stage = "answered" /\ file[u] # "none" => Exists(u)
        /\ file[u] # "none" /\ ~ Exists(u)
           => call[u].stage \in {"writing", "saved", "lost"}

(* a's transaction was over when b's began.                                *)
Precedes(a, b) == a.committed < b.at

StatusAfter(event) ==
    CASE event = "created" -> "uploaded"
      [] event = "review_requested" -> "pending_verification"
      [] OTHER -> event

(* The audit trail tells how an item came to its status, however requests  *)
(* and reviews overlap.  It is not in the order of the commits, so only    *)
(* rows of transactions that did not overlap can be told apart by time:    *)
(*   - an item was created once, before anything else was done to it;      *)
(*   - at most one request for review was granted, and none that began     *)
(*     after a review of the item was over;                                *)
(*   - once a review is in the trail the status is a review's;             *)
(*   - the status is told by a row that no other row follows.  So it is    *)
(*     that of the newest row, or of one whose transaction overlapped it.  *)
CreatedOnce(u) ==
    /\ trail[u] # {} <=> Exists(u)
    /\ \A r, s \in trail[u] : r.event = "created" /\ r # s
          => s.event # "created" /\ Precedes(r, s)

RequestedOnce(u) ==
    \A r, s \in trail[u] : r.event = "review_requested" /\ r # s
        => /\ s.event # "review_requested"
           /\ s.event \in Decisions => ~ Precedes(s, r)

StatusTold(u) ==
    /\ (\E r \in trail[u] : r.event \in Decisions) <=> status[u] \in Decisions
    /\ Exists(u) => \E r \in trail[u] :
          /\ status[u] = StatusAfter(r.event)
          /\ \A s \in trail[u] : ~ Precedes(r, s)

TrailTellsStatus ==
    \A u \in Calls : CreatedOnce(u) /\ RequestedOnce(u) /\ StatusTold(u)

(* "Moves a user-owned uploaded record into pending_verification": never   *)
(* one that was reviewed.  A request that waited for a review to commit    *)
(* does not undo it, although a review does not wait for a request.        *)
ReviewStands ==
    [][ \A u \in Calls : status[u] \in Decisions => status'[u] \in Decisions ]_vars
=============================================================================
