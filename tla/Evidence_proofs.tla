--------------------------- MODULE Evidence_proofs ---------------------------
(***************************************************************************)
(* Proofs about Evidence, for every set of calls.                          *)
(***************************************************************************)
EXTENDS Evidence, TLAPS

(***************************************************************************)
(* The files: how far an upload has come tells what it has left on the     *)
(* disk and in the table.                                                  *)
(***************************************************************************)
UploadState(u) ==
    /\ call[u].stage = "idle" => file[u] = "none"
    /\ call[u].stage \in {"requesting", "reviewing"} => file[u] = "none"
    /\ call[u].stage = "writing" => file[u] # "none"
    /\ call[u].stage \in {"saved", "committed"} => file[u] = "complete"
    /\ call[u].stage \in {"idle", "writing", "saved"} => ~ Exists(u)
    /\ call[u].stage = "committed" => Exists(u)
    /\ Exists(u) => file[u] = "complete"
    /\ call[u].stage = "answered" /\ file[u] # "none" => Exists(u)

(* A call past its BeginTx knows an item, and what it will write is an     *)
(* item's status.                                                          *)
OpenState(k) ==
    call[k].stage \in {"requesting", "reviewing"} =>
        /\ Exists(call[k].item)
        /\ call[k].stage = "reviewing" => call[k].typed \in Decisions

FileInv == TypeOK /\ \A u \in Calls : UploadState(u) /\ OpenState(u)

LEMMA Names ==
    /\ Decisions \subseteq Statuses \ {"none"}
    /\ {"none", "uploaded", "pending_verification"} \subseteq Statuses
    /\ {"created", "review_requested"} \subseteq Events
    /\ \A decision \in Decisions :
          /\ EventOf(decision) \in Events
          /\ EventOf(decision) \in Decisions
          /\ StatusAfter(EventOf(decision)) = decision
  BY DEF Decisions, Statuses, Events, EventOf, StatusAfter

LEMMA WriteType ==
  ASSUME TypeOK, NEW u \in Calls, NEW s \in Statuses, NEW e \in Events,
         NEW at \in Nat, NEW committed \in Nat, Write(u, s, e, at, committed)
  PROVE  /\ status' \in [Calls -> Statuses] /\ trail' \in [Calls -> SUBSET Row]
         /\ status'[u] = s
         /\ trail'[u] = trail[u] \union {[event |-> e, at |-> at, committed |-> committed]}
         /\ \A v \in Calls : v # u => status'[v] = status[v] /\ trail'[v] = trail[v]
  BY DEF TypeOK, Write, Row

LEMMA GotoType ==
  ASSUME TypeOK, NEW k \in Calls, NEW stage \in Stages, Goto(k, stage)
  PROVE  /\ call' \in [Calls -> [stage : Stages, item : Calls, typed : Statuses, at : Nat]]
         /\ call'[k].stage = stage
         /\ \A v \in Calls : v # k => call'[v] = call[v]
  BY Names DEF TypeOK, Goto, NewCall

LEMMA BeginType ==
  ASSUME TypeOK, NEW k \in Calls, NEW stage \in Stages, NEW u \in Calls,
         NEW typed \in Statuses, Begin(k, stage, u, typed)
  PROVE  /\ call' \in [Calls -> [stage : Stages, item : Calls, typed : Statuses, at : Nat]]
         /\ call'[k].stage = stage /\ call'[k].item = u
         /\ call'[k].typed = typed /\ call'[k].at = begun[u] + 1
         /\ \A v \in Calls : v # k => call'[v] = call[v]
         /\ begun' \in [Calls -> Nat]
         /\ begun'[u] = begun[u] + 1
         /\ \A v \in Calls : v # u => begun'[v] = begun[v]
  BY DEF TypeOK, Begin

LEMMA StageNames ==
    /\ "idle" \in Stages /\ "writing" \in Stages /\ "saved" \in Stages
    /\ "committed" \in Stages /\ "requesting" \in Stages /\ "reviewing" \in Stages
    /\ "answered" \in Stages /\ "lost" \in Stages
  BY DEF Stages

(* Only k's own call and file change in a step of k, and no row goes.      *)
LEMMA StepOf ==
  ASSUME FileInv, NEW k \in Calls, TypeOK',
         \A v \in Calls : v # k => call'[v] = call[v] /\ file'[v] = file[v],
         \A v \in Calls : status[v] # "none" => status'[v] # "none",
         \A v \in Calls : v # k => (status'[v] # "none" => status[v] # "none"),
         UploadState(k)', OpenState(k)'
  PROVE  FileInv'
<1>1. ASSUME NEW v \in Calls, v # k
      PROVE  UploadState(v)' /\ OpenState(v)'
  <2>1. /\ call'[v] = call[v] /\ file'[v] = file[v]
        /\ status'[v] # "none" <=> status[v] # "none"
    BY <1>1
  <2>2. UploadState(v) /\ OpenState(v) /\ call[v].item \in Calls
    BY DEF FileInv, TypeOK
  <2>3. UploadState(v)'
    BY <2>1, <2>2 DEF UploadState, Exists
  <2>4. OpenState(v)'
    BY <2>1, <2>2 DEF OpenState, Exists
  <2>5. QED
    BY <2>3, <2>4
<1>2. QED
  BY <1>1 DEF FileInv

LEMMA StepFile == FileInv /\ [Next]_vars => FileInv'
<1> SUFFICES ASSUME FileInv, [Next]_vars PROVE FileInv'
  OBVIOUS
<1>type. TypeOK
  BY DEF FileInv
<1>calls. \A u \in Calls : UploadState(u) /\ OpenState(u)
  BY DEF FileInv
<1>1. ASSUME NEW k \in Calls, OpenFile(k)
      PROVE  FileInv'
  <2>1. /\ call' \in [Calls -> [stage : Stages, item : Calls, typed : Statuses, at : Nat]]
        /\ call'[k].stage = "writing"
        /\ \A v \in Calls : v # k => call'[v] = call[v]
    BY <1>1, <1>type, StageNames, GotoType DEF OpenFile
  <2>2. /\ file' \in [Calls -> FileStates] /\ file'[k] = "partial"
        /\ \A v \in Calls : v # k => file'[v] = file[v]
        /\ status' = status /\ trail' = trail /\ begun' = begun
    BY <1>1, <1>type DEF OpenFile, TypeOK, FileStates
  <2>3. TypeOK'
    BY <1>type, <2>1, <2>2 DEF TypeOK
  <2>4. UploadState(k)' /\ OpenState(k)'
    BY <1>1, <1>calls, <2>1, <2>2 DEF OpenFile, UploadState, OpenState, Exists
  <2>5. QED
    BY <2>1, <2>2, <2>3, <2>4, StepOf
<1>2. ASSUME NEW k \in Calls, CopyFile(k)
      PROVE  FileInv'
  <2>1. /\ call' \in [Calls -> [stage : Stages, item : Calls, typed : Statuses, at : Nat]]
        /\ call'[k].stage = "saved"
        /\ \A v \in Calls : v # k => call'[v] = call[v]
    BY <1>2, <1>type, StageNames, GotoType DEF CopyFile
  <2>2. /\ file' \in [Calls -> FileStates] /\ file'[k] = "complete"
        /\ \A v \in Calls : v # k => file'[v] = file[v]
        /\ status' = status /\ trail' = trail /\ begun' = begun
    BY <1>2, <1>type DEF CopyFile, TypeOK, FileStates
  <2>3. TypeOK'
    BY <1>type, <2>1, <2>2 DEF TypeOK
  <2>4. UploadState(k)' /\ OpenState(k)'
    BY <1>2, <1>calls, <2>1, <2>2 DEF CopyFile, UploadState, OpenState, Exists
  <2>5. QED
    BY <2>1, <2>2, <2>3, <2>4, StepOf
<1>3. ASSUME NEW k \in Calls, InsertItem(k)
      PROVE  FileInv'
  <2>1. begun[k] + 1 \in Nat
    BY <1>type DEF TypeOK
  <2>2. /\ status' \in [Calls -> Statuses] /\ trail' \in [Calls -> SUBSET Row]
        /\ status'[k] = "uploaded"
        /\ \A v \in Calls : v # k => status'[v] = status[v]
    BY <1>3, <1>type, <2>1, Names, WriteType DEF InsertItem
  <2>3. /\ call' \in [Calls -> [stage : Stages, item : Calls, typed : Statuses, at : Nat]]
        /\ call'[k].stage = "committed"
        /\ \A v \in Calls : v # k => call'[v] = call[v]
    BY <1>3, <1>type, StageNames, GotoType DEF InsertItem
  <2>4. begun' \in [Calls -> Nat] /\ file' = file
    BY <1>3, <1>type DEF InsertItem, TypeOK
  <2>5. TypeOK'
    BY <1>type, <2>2, <2>3, <2>4 DEF TypeOK
  <2>6. UploadState(k)' /\ OpenState(k)'
    BY <1>3, <1>calls, <2>2, <2>3, <2>4 DEF InsertItem, UploadState, OpenState, Exists
  <2>7. QED
    BY <2>2, <2>3, <2>4, <2>5, <2>6, StepOf
<1>7. ASSUME NEW k \in Calls, NEW stage \in {"answered", "lost"}, Goto(k, stage),
             UNCHANGED <<file, begun>>,
             status' \in [Calls -> Statuses], trail' \in [Calls -> SUBSET Row],
             \A v \in Calls : status'[v] # "none" <=> status[v] # "none",
             stage = "answered" /\ file[k] # "none" => status[k] # "none"
      PROVE  FileInv'
  <2>1. /\ call' \in [Calls -> [stage : Stages, item : Calls, typed : Statuses, at : Nat]]
        /\ call'[k].stage = stage
        /\ \A v \in Calls : v # k => call'[v] = call[v]
    BY <1>7, <1>type, StageNames, GotoType
  <2>2. TypeOK'
    BY <1>type, <1>7, <2>1 DEF TypeOK
  <2>3. UploadState(k)' /\ OpenState(k)'
    BY <1>7, <1>calls, <2>1 DEF UploadState, OpenState, Exists
  <2>4. QED
    BY <1>7, <2>1, <2>2, <2>3, StepOf
<1>4. ASSUME NEW k \in Calls, Answer(k)
      PROVE  FileInv'
  BY <1>4, <1>7, <1>type, <1>calls DEF Answer, UploadState, Exists, TypeOK
<1>5. ASSUME NEW k \in Calls, Lose(k)
      PROVE  FileInv'
  BY <1>5, <1>7, <1>type DEF Lose, TypeOK
<1>6. ASSUME NEW k \in Calls, NEW u \in Calls, NEW stage \in {"requesting", "reviewing"},
             NEW typed \in Statuses, call[k].stage = "idle", Exists(u),
             stage = "reviewing" => typed \in Decisions,
             Begin(k, stage, u, typed), UNCHANGED <<file, status, trail>>
      PROVE  FileInv'
  <2>1. /\ call' \in [Calls -> [stage : Stages, item : Calls, typed : Statuses, at : Nat]]
        /\ call'[k].stage = stage /\ call'[k].item = u /\ call'[k].typed = typed
        /\ \A v \in Calls : v # k => call'[v] = call[v]
        /\ begun' \in [Calls -> Nat]
    BY <1>6, <1>type, StageNames, BeginType
  <2>2. TypeOK'
    BY <1>type, <1>6, <2>1 DEF TypeOK
  <2>3. UploadState(k)' /\ OpenState(k)'
    BY <1>6, <1>calls, <2>1 DEF UploadState, OpenState, Exists
  <2>4. QED
    BY <1>6, <2>1, <2>2, <2>3, StepOf
<1>8. ASSUME NEW k \in Calls, call[k].stage \in {"idle", "requesting", "reviewing"},
             Goto(k, "answered"), UNCHANGED <<file, begun>>,
             status' \in [Calls -> Statuses], trail' \in [Calls -> SUBSET Row],
             \A v \in Calls : status'[v] # "none" <=> status[v] # "none"
      PROVE  FileInv'
  BY <1>7, <1>8, <1>calls DEF UploadState
<1>9. ASSUME NEW k \in Calls, RequestReview(k)
      PROVE  FileInv'
  <2> DEFINE u == call[k].item
  <2>1. u \in Calls /\ call[k].at \in Nat /\ begun[u] \in Nat
    BY <1>type DEF TypeOK
  <2>2. CASE Reviewable(u)
    <3>1. Write(u, "pending_verification", "review_requested", call[k].at, begun[u])
      BY <1>9, <2>2 DEF RequestReview
    <3>2. /\ status' \in [Calls -> Statuses] /\ trail' \in [Calls -> SUBSET Row]
          /\ \A v \in Calls : status'[v] # "none" <=> status[v] # "none"
      BY <1>type, <2>1, <2>2, <3>1, Names, WriteType DEF Reviewable, Exists
    <3>3. QED
      BY <1>8, <1>9, <3>2 DEF RequestReview
  <2>3. CASE ~ Reviewable(u)
    BY <1>8, <1>9, <1>type, <2>3 DEF RequestReview, TypeOK
  <2>4. QED
    BY <2>2, <2>3
<1>10. ASSUME NEW k \in Calls, Review(k)
       PROVE  FileInv'
  <2> DEFINE u == call[k].item
             typed == call[k].typed
  <2>1. u \in Calls /\ call[k].at \in Nat /\ begun[u] \in Nat
    BY <1>type DEF TypeOK
  <2>2. Exists(u) /\ typed \in Decisions
    BY <1>10 DEF Review, FileInv, OpenState
  <2>3. Write(u, typed, EventOf(typed), call[k].at, begun[u])
    BY <1>10 DEF Review
  <2>4. /\ status' \in [Calls -> Statuses] /\ trail' \in [Calls -> SUBSET Row]
        /\ \A v \in Calls : status'[v] # "none" <=> status[v] # "none"
    <3>1. typed \in Statuses /\ typed # "none" /\ EventOf(typed) \in Events
      BY <2>2, Names
    <3>2. QED
      BY <1>type, <2>1, <2>2, <2>3, <3>1, WriteType DEF Exists
  <2>5. QED
    BY <1>8, <1>10, <2>4 DEF Review
<1>11. ASSUME NEW k \in Calls, NEW u \in Calls, BeginRequest(k, u)
       PROVE  FileInv'
  BY <1>6, <1>8, <1>11, <1>type, Names DEF BeginRequest, TypeOK
<1>12. ASSUME NEW k \in Calls, NEW u \in Calls, NEW typed \in Statuses \union {"expired"},
              BeginReview(k, u, typed)
       PROVE  FileInv'
  <2>1. CASE Allowed(typed) /\ Exists(u) /\ Begin(k, "reviewing", u, typed)
    <3>1. typed \in Statuses /\ typed \in Decisions
      BY <2>1, Names DEF Allowed
    <3>2. QED
      BY <1>6, <1>12, <2>1, <3>1 DEF BeginReview
  <2>2. CASE Goto(k, "answered") /\ UNCHANGED begun
    BY <1>8, <1>12, <1>type, <2>2 DEF BeginReview, TypeOK
  <2>3. QED
    BY <1>12, <2>1, <2>2 DEF BeginReview
<1>13. CASE UNCHANGED vars
  BY <1>13 DEF vars, FileInv, UploadState, OpenState, Exists, TypeOK
<1>14. QED
  BY <1>1, <1>2, <1>3, <1>4, <1>5, <1>9, <1>10, <1>11, <1>12, <1>13 DEF Next

LEMMA InitFile == Init => FileInv
  BY DEF Init, NewCall, FileInv, UploadState, OpenState, Exists, TypeOK, FileStates,
         Statuses, Stages

LEMMA FileInvariant == Spec => []FileInv
  BY InitFile, StepFile, PTL DEF Spec

(* Files, statuses, audit rows and calls keep their types; no status or    *)
(* event comes up that the code has no name for.                           *)
THEOREM TypeCorrect == Spec => []TypeOK
<1>1. FileInv => TypeOK
  BY DEF FileInv
<1>2. QED
  BY <1>1, FileInvariant, PTL

(* Wherever an upload stops, an item has its whole file.                   *)
THEOREM ItemsKeepFiles == Spec => []ItemHasFile
<1>1. FileInv => ItemHasFile
  <2> SUFFICES ASSUME FileInv, NEW u \in Calls
               PROVE  /\ Exists(u) => file[u] = "complete"
                      /\ call[u].stage = "answered" /\ file[u] # "none" => Exists(u)
                      /\ file[u] # "none" /\ ~ Exists(u)
                         => call[u].stage \in {"writing", "saved", "lost"}
    BY DEF ItemHasFile
  <2>1. UploadState(u) /\ call[u].stage \in Stages
    BY DEF FileInv, TypeOK
  <2>2. QED
    BY <2>1 DEF UploadState, Stages
<1>2. QED
  BY <1>1, FileInvariant, PTL

(***************************************************************************)
(* The trail.  Three facts carry the proof: a transaction's times lie in   *)
(* order and in the past (Dated), whoever is in a transaction began it     *)
(* after the item was there (BegunAfter), and some row that tells the      *)
(* status was committed last (ToldLast).                                   *)
(***************************************************************************)
Dated(u) == \A r \in trail[u] : r.at <= r.committed /\ r.committed <= begun[u]

BegunAfter(k) ==
    call[k].stage \in {"requesting", "reviewing"} =>
        /\ call[k].at <= begun[call[k].item]
        /\ \A r \in trail[call[k].item] :
              r.event = "created" => r.committed < call[k].at

(* Whom a request may follow: it is granted only while there is none.      *)
Unreviewed(u) ==
    /\ status[u] \in {"none", "uploaded"}
       => \A r \in trail[u] : r.event # "review_requested"
    /\ (\E r \in trail[u] : r.event \in Decisions) <=> status[u] \in Decisions

ToldLast(u) ==
    Exists(u) => \E r \in trail[u] :
        /\ status[u] = StatusAfter(r.event)
        /\ \A s \in trail[u] : s.committed <= r.committed

ItemTrail(u) ==
    /\ Dated(u) /\ Unreviewed(u) /\ ToldLast(u)
    /\ CreatedOnce(u) /\ RequestedOnce(u)

TrailInv == FileInv /\ \A u \in Calls : ItemTrail(u) /\ BegunAfter(u)

(* Times pass and nothing is written to u.                                 *)
LEMMA KeptTrail ==
  ASSUME TrailInv, NEW u \in Calls, status'[u] = status[u], trail'[u] = trail[u],
         begun[u] <= begun'[u], begun'[u] \in Nat
  PROVE  ItemTrail(u)'
<1>1. ItemTrail(u) /\ trail[u] \subseteq Row /\ begun[u] \in Nat
  BY DEF TrailInv, FileInv, TypeOK
<1>2. Dated(u)'
  BY <1>1 DEF ItemTrail, Dated, Row
<1>3. QED
  BY <1>1, <1>2 DEF ItemTrail, Unreviewed, ToldLast, CreatedOnce, RequestedOnce, Exists

(* A row is written: the first one, or one by a transaction that began     *)
(* after it was; a request only to an uploaded item.                       *)
LEMMA WrittenTrail ==
  ASSUME TrailInv, NEW u \in Calls, NEW s \in Statuses, NEW e \in Events,
         NEW at \in Nat, NEW committed \in Nat, Write(u, s, e, at, committed),
         s = StatusAfter(e), s # "none",
         at <= committed, begun[u] <= committed, begun'[u] = committed,
         e = "created" <=> trail[u] = {},
         \A r \in trail[u] : r.event = "created" => r.committed < at,
         e = "review_requested" => status[u] = "uploaded",
         s \in Decisions <=> e \in Decisions,
         e # "review_requested" /\ e # "created" => e \in Decisions
  PROVE  ItemTrail(u)'
<1> DEFINE new == [event |-> e, at |-> at, committed |-> committed]
<1>1. /\ ItemTrail(u) /\ TypeOK /\ trail[u] \subseteq Row /\ begun[u] \in Nat
      /\ status[u] \in Statuses
  BY DEF TrailInv, FileInv, TypeOK
<1>2. trail'[u] = trail[u] \union {new} /\ status'[u] = s /\ Exists(u)'
  BY <1>1, WriteType DEF Exists
<1>3. new.event = e /\ new.at = at /\ new.committed = committed
  OBVIOUS
<1>4. \A r \in trail[u] : /\ r.at \in Nat /\ r.committed \in Nat
                          /\ r.at <= r.committed /\ r.committed <= begun[u]
  BY <1>1 DEF ItemTrail, Dated, Row
<1>5. Dated(u)'
  BY <1>1, <1>2, <1>3, <1>4 DEF Dated
<1>6. Unreviewed(u)'
  <2>1. s \in {"none", "uploaded"}
        => e = "created"
    BY DEF StatusAfter, Decisions, Statuses, Events
  <2>2. (\E r \in trail[u] : r.event \in Decisions) => e \in Decisions
    BY <1>1 DEF ItemTrail, Unreviewed, Decisions, CreatedOnce
  <2>3. QED
    BY <1>2, <1>3, <2>1, <2>2 DEF Unreviewed
<1>7. ToldLast(u)'
  <2>1. new \in trail'[u] /\ status'[u] = StatusAfter(new.event)
    BY <1>2, <1>3
  <2>2. \A r \in trail'[u] : r.committed <= new.committed
    BY <1>1, <1>2, <1>3, <1>4
  <2>3. QED
    BY <2>1, <2>2 DEF ToldLast
<1>8. CreatedOnce(u)'
  <2>1. ASSUME NEW r \in trail'[u], NEW t \in trail'[u], r.event = "created", r # t
        PROVE  t.event # "created" /\ (r.committed < t.at)
    <3>1. CASE r \in trail[u] /\ t \in trail[u]
      BY <1>1, <2>1, <3>1 DEF ItemTrail, CreatedOnce, Precedes
    <3>2. CASE r \in trail[u] /\ t = new
      BY <1>3, <2>1, <3>2
    <3>3. CASE r = new
      BY <1>2, <1>3, <2>1, <3>3
    <3>4. QED
      BY <1>2, <3>1, <3>2, <3>3
  <2>2. QED
    BY <1>2, <2>1 DEF CreatedOnce, Precedes
<1>9. RequestedOnce(u)'
  <2>1. ASSUME NEW r \in trail'[u], NEW t \in trail'[u], r.event = "review_requested", r # t
        PROVE  /\ t.event # "review_requested"
               /\ t.event \in Decisions => ~ (t.committed < r.at)
    <3>1. CASE r \in trail[u] /\ t \in trail[u]
      BY <1>1, <2>1, <3>1 DEF ItemTrail, RequestedOnce, Precedes
    <3>2. CASE r \in trail[u] /\ t = new
      <4>1. e # "review_requested"
        BY <1>1, <2>1, <3>2 DEF ItemTrail, Unreviewed
      <4>2. ~ (committed < r.at)
        BY <1>1, <1>4, <3>2
      <4>3. QED
        BY <1>3, <3>2, <4>1, <4>2
    <3>3. CASE r = new
      <4>1. status[u] = "uploaded" /\ t \in trail[u]
        BY <1>2, <1>3, <2>1, <3>3
      <4>2. t.event # "review_requested" /\ t.event \notin Decisions
        BY <1>1, <4>1 DEF ItemTrail, Unreviewed, Decisions
      <4>3. QED
        BY <4>2
    <3>4. QED
      BY <1>2, <3>1, <3>2, <3>3
  <2>2. QED
    BY <2>1 DEF RequestedOnce, Precedes
<1>10. QED
  BY <1>5, <1>6, <1>7, <1>8, <1>9 DEF ItemTrail

(* A step of k: times do not go back, and only an item without a row is    *)
(* created.                                                                *)
LEMMA TrailOfStep ==
  ASSUME TrailInv, FileInv', NEW k \in Calls,
         \A v \in Calls : v # k => call'[v] = call[v],
         \A v \in Calls : begun[v] <= begun'[v],
         \A v \in Calls : Exists(v) =>
             \A r \in trail'[v] : r.event = "created" => r \in trail[v],
         \A v \in Calls : ItemTrail(v)', BegunAfter(k)'
  PROVE  TrailInv'
<1>1. ASSUME NEW v \in Calls, v # k
      PROVE  BegunAfter(v)'
  <2>1. /\ call'[v] = call[v] /\ call[v].item \in Calls /\ call[v].at \in Nat
        /\ begun[call[v].item] \in Nat /\ begun'[call[v].item] \in Nat
    BY <1>1 DEF TrailInv, FileInv, TypeOK
  <2>2. OpenState(v) /\ BegunAfter(v)
    BY DEF TrailInv, FileInv
  <2>3. begun[call[v].item] <= begun'[call[v].item]
    BY <2>1
  <2>4. QED
    BY <2>1, <2>2, <2>3 DEF OpenState, BegunAfter
<1>2. QED
  BY <1>1 DEF TrailInv

(* A call goes on or ends, and no item is touched.                         *)
LEMMA QuietStep ==
  ASSUME TrailInv, FileInv', NEW k \in Calls,
         NEW stage \in Stages \ {"requesting", "reviewing"}, Goto(k, stage),
         UNCHANGED <<status, trail, begun>>
  PROVE  TrailInv'
<1>1. TypeOK /\ TypeOK'
  BY DEF TrailInv, FileInv
<1>2. call'[k].stage = stage /\ \A v \in Calls : v # k => call'[v] = call[v]
  BY <1>1, GotoType
<1>3. \A v \in Calls : /\ begun[v] <= begun'[v] /\ begun'[v] \in Nat
                       /\ status'[v] = status[v] /\ trail'[v] = trail[v]
  BY <1>1 DEF TypeOK
<1>4. \A v \in Calls : ItemTrail(v)'
  BY <1>3, KeptTrail
<1>5. BegunAfter(k)'
  BY <1>2 DEF BegunAfter
<1>6. QED
  BY <1>2, <1>3, <1>4, <1>5, TrailOfStep

(* A transaction begins: later than whatever is in the trail.              *)
LEMMA BegunStep ==
  ASSUME TrailInv, FileInv', NEW k \in Calls, NEW u \in Calls,
         NEW stage \in {"requesting", "reviewing"}, NEW typed \in Statuses,
         Begin(k, stage, u, typed), UNCHANGED <<status, trail>>
  PROVE  TrailInv'
<1>1. TypeOK /\ TypeOK' /\ stage \in Stages
  BY StageNames DEF TrailInv, FileInv
<1>2. /\ call'[k].stage = stage /\ call'[k].item = u /\ call'[k].at = begun[u] + 1
      /\ \A v \in Calls : v # k => call'[v] = call[v]
      /\ begun'[u] = begun[u] + 1
      /\ \A v \in Calls : v # u => begun'[v] = begun[v]
  BY <1>1, BeginType
<1>3. \A v \in Calls : /\ begun[v] <= begun'[v] /\ begun'[v] \in Nat
                       /\ status'[v] = status[v] /\ trail'[v] = trail[v]
  <2>1. ASSUME NEW v \in Calls
        PROVE  begun[v] <= begun'[v] /\ begun'[v] \in Nat
    <3>1. begun[v] \in Nat /\ begun'[v] \in Nat /\ (begun'[v] = begun[v] \/ begun'[v] = begun[v] + 1)
      BY <1>1, <1>2 DEF TypeOK
    <3>2. QED
      BY <3>1
  <2>2. QED
    BY <2>1
<1>4. \A v \in Calls : ItemTrail(v)'
  BY <1>3, KeptTrail
<1>5. BegunAfter(k)'
  <2>1. trail[u] \subseteq Row /\ begun[u] \in Nat /\ Dated(u)
    BY <1>1 DEF TrailInv, ItemTrail, TypeOK
  <2>2. \A r \in trail[u] : r.committed < begun[u] + 1
    BY <2>1 DEF Dated, Row
  <2>3. QED
    BY <1>2, <1>3, <2>1, <2>2 DEF BegunAfter
<1>6. QED
  BY <1>2, <1>3, <1>4, <1>5, TrailOfStep

(* A transaction of k commits a row to the item u that it knows.           *)
LEMMA CommittedStep ==
  ASSUME TrailInv, FileInv', NEW k \in Calls, NEW u \in Calls,
         call[k].stage \in {"requesting", "reviewing"}, u = call[k].item,
         NEW s \in Statuses, NEW e \in Events,
         Write(u, s, e, call[k].at, begun[u]), UNCHANGED begun, Goto(k, "answered"),
         s = StatusAfter(e), s # "none", e # "created",
         e = "review_requested" => status[u] = "uploaded",
         s \in Decisions <=> e \in Decisions,
         e # "review_requested" => e \in Decisions
  PROVE  TrailInv'
<1>1. /\ TypeOK /\ TypeOK' /\ OpenState(k) /\ BegunAfter(k) /\ CreatedOnce(u)
      /\ call[k].at \in Nat /\ begun[u] \in Nat
  BY DEF TrailInv, FileInv, TypeOK, ItemTrail
<1>2. call'[k].stage = "answered" /\ \A v \in Calls : v # k => call'[v] = call[v]
  BY <1>1, StageNames, GotoType
<1>3. /\ trail'[u] = trail[u] \union {[event |-> e, at |-> call[k].at, committed |-> begun[u]]}
      /\ \A v \in Calls : v # u => status'[v] = status[v] /\ trail'[v] = trail[v]
  BY <1>1, WriteType
<1>4. \A v \in Calls : begun[v] <= begun'[v] /\ begun'[v] \in Nat
  BY <1>1 DEF TypeOK
<1>5. ItemTrail(u)'
  <2>1. trail[u] # {}
    BY <1>1 DEF OpenState, CreatedOnce
  <2>2. /\ call[k].at <= begun[u]
        /\ \A r \in trail[u] : r.event = "created" => r.committed < call[k].at
    BY <1>1 DEF BegunAfter
  <2>3. begun[u] <= begun[u] /\ begun'[u] = begun[u]
    BY <1>1
  <2>4. QED
    BY <1>1, <2>1, <2>2, <2>3, WrittenTrail
<1>6. \A v \in Calls : v # u => ItemTrail(v)'
  BY <1>3, <1>4, KeptTrail
<1>7. \A v \in Calls : \A r \in trail'[v] : r.event = "created" => r \in trail[v]
  BY <1>3
<1>8. BegunAfter(k)'
  BY <1>2 DEF BegunAfter
<1>9. QED
  BY <1>2, <1>4, <1>5, <1>6, <1>7, <1>8, TrailOfStep

LEMMA StepTrail == TrailInv /\ [Next]_vars => TrailInv'
<1> SUFFICES ASSUME TrailInv, [Next]_vars PROVE TrailInv'
  OBVIOUS
<1>file. FileInv /\ FileInv' /\ TypeOK
  BY StepFile DEF TrailInv, FileInv
<1>stages. {"writing", "saved", "committed", "answered", "lost"}
           \subseteq Stages \ {"requesting", "reviewing"}
  BY DEF Stages
<1>1. ASSUME NEW k \in Calls, OpenFile(k)
      PROVE  TrailInv'
  BY <1>1, <1>file, <1>stages, QuietStep DEF OpenFile
<1>2. ASSUME NEW k \in Calls, CopyFile(k)
      PROVE  TrailInv'
  BY <1>2, <1>file, <1>stages, QuietStep DEF CopyFile
<1>3. ASSUME NEW k \in Calls, InsertItem(k)
      PROVE  TrailInv'
  <2>1. /\ begun[k] \in Nat /\ begun[k] + 1 \in Nat /\ begun[k] <= begun[k] + 1
        /\ begun'[k] = begun[k] + 1
        /\ begun[k] + 1 <= begun[k] + 1
        /\ \A v \in Calls : begun[v] <= begun'[v] /\ begun'[v] \in Nat
    BY <1>3, <1>file DEF InsertItem, TypeOK
  <2>2. status[k] = "none" /\ trail[k] = {}
    BY <1>3, <1>file DEF InsertItem, FileInv, UploadState, TrailInv, ItemTrail, CreatedOnce,
                         Exists
  <2>3. Write(k, "uploaded", "created", begun[k] + 1, begun[k] + 1)
    BY <1>3 DEF InsertItem
  <2>4. /\ StatusAfter("created") = "uploaded"
        /\ "uploaded" \notin Decisions /\ "created" \notin Decisions
    BY DEF StatusAfter, Decisions
  <2>5. ItemTrail(k)'
    BY <2>1, <2>2, <2>3, <2>4, Names, WrittenTrail
  <2>6. \A v \in Calls : v # k => status'[v] = status[v] /\ trail'[v] = trail[v]
    BY <1>file, <2>1, <2>3, Names, WriteType
  <2>7. \A v \in Calls : v # k => ItemTrail(v)'
    BY <2>1, <2>6, KeptTrail
  <2>8. call'[k].stage = "committed" /\ \A v \in Calls : v # k => call'[v] = call[v]
    BY <1>3, <1>file, StageNames, GotoType DEF InsertItem
  <2>9. BegunAfter(k)'
    BY <2>8 DEF BegunAfter
  <2>10. \A v \in Calls : Exists(v) =>
             \A r \in trail'[v] : r.event = "created" => r \in trail[v]
    BY <2>2, <2>6 DEF Exists
  <2>11. QED
    BY <1>file, <2>1, <2>5, <2>7, <2>8, <2>9, <2>10, TrailOfStep
<1>4. ASSUME NEW k \in Calls, Answer(k)
      PROVE  TrailInv'
  BY <1>4, <1>file, <1>stages, QuietStep DEF Answer
<1>5. ASSUME NEW k \in Calls, Lose(k)
      PROVE  TrailInv'
  BY <1>5, <1>file, <1>stages, QuietStep DEF Lose
<1>6. ASSUME NEW k \in Calls, NEW u \in Calls, BeginRequest(k, u)
      PROVE  TrailInv'
  <2>1. CASE Begin(k, "requesting", u, "pending_verification")
    BY <1>6, <1>file, <2>1, Names, BegunStep DEF BeginRequest
  <2>2. CASE Goto(k, "answered") /\ UNCHANGED begun
    BY <1>6, <1>file, <1>stages, <2>2, QuietStep DEF BeginRequest
  <2>3. QED
    BY <1>6, <2>1, <2>2 DEF BeginRequest
<1>7. ASSUME NEW k \in Calls, RequestReview(k)
      PROVE  TrailInv'
  <2> DEFINE u == call[k].item
  <2>1. u \in Calls
    BY <1>file DEF TypeOK
  <2>2. CASE Reviewable(u)
    <3>1. Write(u, "pending_verification", "review_requested", call[k].at, begun[u])
      BY <1>7, <2>2 DEF RequestReview
    <3>2. /\ StatusAfter("review_requested") = "pending_verification"
          /\ "pending_verification" \notin Decisions /\ "review_requested" \notin Decisions
      BY DEF StatusAfter, Decisions
    <3>3. QED
      BY <1>7, <1>file, <2>1, <2>2, <3>1, <3>2, Names, CommittedStep
         DEF RequestReview, Reviewable
  <2>3. CASE ~ Reviewable(u)
    BY <1>7, <1>file, <1>stages, <2>3, QuietStep DEF RequestReview
  <2>4. QED
    BY <2>2, <2>3
<1>8. ASSUME NEW k \in Calls, NEW u \in Calls, NEW typed \in Statuses \union {"expired"},
             BeginReview(k, u, typed)
      PROVE  TrailInv'
  <2>1. CASE Allowed(typed) /\ Begin(k, "reviewing", u, typed)
    <3>1. typed \in Statuses
      BY <2>1, Names DEF Allowed
    <3>2. QED
      BY <1>8, <1>file, <2>1, <3>1, BegunStep DEF BeginReview
  <2>2. CASE Goto(k, "answered") /\ UNCHANGED begun
    BY <1>8, <1>file, <1>stages, <2>2, QuietStep DEF BeginReview
  <2>3. QED
    BY <1>8, <2>1, <2>2 DEF BeginReview
<1>9. ASSUME NEW k \in Calls, Review(k)
      PROVE  TrailInv'
  <2> DEFINE u == call[k].item
             e == EventOf(call[k].typed)
  <2>1. u \in Calls
    BY <1>file DEF TypeOK
  <2>2. call[k].typed \in Decisions
    BY <1>9, <1>file DEF Review, FileInv, OpenState
  <2>3. /\ call[k].typed \in Statuses /\ call[k].typed # "none"
        /\ e \in Events /\ e \in Decisions /\ StatusAfter(e) = call[k].typed
        /\ e # "created" /\ e # "review_requested"
    BY <2>2, Names DEF Decisions
  <2>4. Write(u, call[k].typed, e, call[k].at, begun[u])
    BY <1>9 DEF Review
  <2>5. QED
    BY <1>9, <1>file, <2>1, <2>2, <2>3, <2>4, CommittedStep DEF Review
<1>10. CASE UNCHANGED vars
  BY <1>10, <1>file
     DEF vars, TrailInv, ItemTrail, BegunAfter, Dated, Unreviewed, ToldLast, CreatedOnce,
         RequestedOnce, Exists
<1>11. QED
  BY <1>1, <1>2, <1>3, <1>4, <1>5, <1>6, <1>7, <1>8, <1>9, <1>10 DEF Next

LEMMA InitTrail == Init => TrailInv
<1> SUFFICES ASSUME Init PROVE TrailInv
  OBVIOUS
<1>1. FileInv
  BY InitFile
<1>2. ASSUME NEW u \in Calls
      PROVE  ItemTrail(u) /\ BegunAfter(u)
  BY DEF Init, NewCall, ItemTrail, BegunAfter, Dated, Unreviewed, ToldLast, CreatedOnce,
         RequestedOnce, Exists, Decisions
<1>3. QED
  BY <1>1, <1>2 DEF TrailInv

LEMMA TrailInvariant == Spec => []TrailInv
  BY InitTrail, StepTrail, PTL DEF Spec

(* The rows of the audit trail tell how an item came to its status, up to  *)
(* transactions that overlapped: it was created once, first; a request was *)
(* granted once, not after a review; and the status is told by a row that  *)
(* no other row follows.                                                   *)
THEOREM TrailTold == Spec => []TrailTellsStatus
<1>1. TrailInv => TrailTellsStatus
  <2> SUFFICES ASSUME TrailInv, NEW u \in Calls
               PROVE  CreatedOnce(u) /\ RequestedOnce(u) /\ StatusTold(u)
    BY DEF TrailTellsStatus
  <2>1. ItemTrail(u) /\ trail[u] \subseteq Row
    BY DEF TrailInv, FileInv, TypeOK
  <2>2. ASSUME Exists(u)
        PROVE  \E r \in trail[u] : /\ status[u] = StatusAfter(r.event)
                                   /\ \A s \in trail[u] : ~ Precedes(r, s)
    <3>1. PICK r \in trail[u] : /\ status[u] = StatusAfter(r.event)
                                /\ \A s \in trail[u] : s.committed <= r.committed
      BY <2>1, <2>2 DEF ItemTrail, ToldLast
    <3>2. \A s \in trail[u] : ~ Precedes(r, s)
      BY <2>1, <3>1 DEF ItemTrail, Dated, Precedes, Row
    <3>3. QED
      BY <3>1, <3>2
  <2>3. QED
    BY <2>1, <2>2 DEF ItemTrail, Unreviewed, StatusTold
<1>2. QED
  BY <1>1, TrailInvariant, PTL

(* A request for review never takes a reviewed item back, even one that    *)
(* waited at the row for the review.                                       *)
THEOREM ReviewsStand == Spec => ReviewStands
<1>1. FileInv /\ [Next]_vars
      => [ \A u \in Calls : status[u] \in Decisions => status'[u] \in Decisions ]_vars
  <2> SUFFICES ASSUME FileInv, [Next]_vars, NEW v \in Calls, status[v] \in Decisions
               PROVE  status'[v] \in Decisions
    OBVIOUS
  <2>type. TypeOK
    BY DEF FileInv
  <2>1. ASSUME NEW k \in Calls, InsertItem(k)
        PROVE  status'[v] \in Decisions
    <3>1. status[k] = "none" /\ begun[k] + 1 \in Nat
      BY <2>1 DEF InsertItem, FileInv, UploadState, Exists, TypeOK
    <3>2. v # k
      BY <3>1, Names
    <3>3. status'[v] = status[v]
      BY <2>1, <2>type, <3>1, <3>2, Names, WriteType DEF InsertItem
    <3>4. QED
      BY <3>3
  <2>2. ASSUME NEW k \in Calls, RequestReview(k)
        PROVE  status'[v] \in Decisions
    <3> DEFINE u == call[k].item
    <3>1. CASE Reviewable(u)
      <4>1. /\ u \in Calls /\ call[k].at \in Nat /\ begun[u] \in Nat
            /\ Write(u, "pending_verification", "review_requested", call[k].at, begun[u])
        BY <2>2, <2>type, <3>1 DEF RequestReview, TypeOK
      <4>2. v # u
        BY <3>1 DEF Reviewable, Decisions
      <4>3. status'[v] = status[v]
        BY <2>type, <4>1, <4>2, Names, WriteType
      <4>4. QED
        BY <4>3
    <3>2. CASE ~ Reviewable(u)
      BY <2>2, <3>2 DEF RequestReview
    <3>3. QED
      BY <3>1, <3>2
  <2>3. ASSUME NEW k \in Calls, Review(k)
        PROVE  status'[v] \in Decisions
    <3> DEFINE u == call[k].item
               typed == call[k].typed
    <3>1. /\ u \in Calls /\ call[k].at \in Nat /\ begun[u] \in Nat
          /\ typed \in Decisions /\ Write(u, typed, EventOf(typed), call[k].at, begun[u])
      BY <2>3, <2>type DEF Review, FileInv, OpenState, TypeOK
    <3>2. typed \in Statuses /\ EventOf(typed) \in Events
      BY <3>1, Names
    <3>3. status'[u] = typed /\ (v # u => status'[v] = status[v])
      BY <2>type, <3>1, <3>2, WriteType
    <3>4. QED
      BY <3>1, <3>3
  <2>4. CASE UNCHANGED status
    BY <2>4
  <2>5. QED
    BY <2>1, <2>2, <2>3, <2>4
       DEF Next, vars, OpenFile, CopyFile, Answer, Lose, BeginRequest, BeginReview
<1>2. QED
  BY <1>1, FileInvariant, PTL DEF Spec, ReviewStands
=============================================================================
