----------------------------- MODULE PodCapture -----------------------------
(***************************************************************************)
(* Proof of delivery of one shipment.  The driver's app uploads photos     *)
(* under a capture id (POST .../pod/capture/); the worker that serves it   *)
(* commits the bundle, its media and its seal one by one.  The execute     *)
(* request of the delivery step then promotes a bundle: it appends the     *)
(* media to the action log and marks them, in the transaction of the log.  *)
(* Bundles that nobody used expire.                                        *)
(*                                                                         *)
(* A bundle row is always written back as a whole, as it was read: the     *)
(* worker's copy is part of its state.                                     *)
(***************************************************************************)
EXTENDS Naturals, FiniteSets

CONSTANTS Captures,    \* client_capture_ids of the driver for the shipment
          Files,       \* uploaded files, by their normalized reference
          Contents,    \* what the app may send: the files of each capture
          Keys,        \* client_action_ids of the execute requests
          Phones,      \* web workers that serve captures
          Executors,   \* web workers that serve execute requests
          PodSteps,    \* delivery-proof actions in the tenant's catalog
          Nobody, NoBundle, NoLog

ASSUME ContentsAssumption ==
    \A sent \in Contents :
        sent \in [Captures -> SUBSET Files] /\ \A c \in Captures : sent[c] # {}
ASSUME StepsAssumption == PodSteps \in Nat \ {0}
VARIABLES row,      \* the bundle row of a capture, or NoBundle
          media,    \* the media row of a file: its bundle, the log it was promoted to
          sent,     \* the files the app sends with each capture, whenever it does
          late,     \* captures whose expires_at has passed
          logs,     \* the committed action log of a key, or NoLog
          lock,     \* holder of the shipment's row lock
          phone,    \* what a capture worker is doing
          exec      \* what an execute worker is doing

vars == <<row, media, sent, late, logs, lock, phone, exec>>

Bundles == [status : {"draft", "ready", "promoted", "expired"},
            sealed : SUBSET Files, log : Keys \cup {NoLog}]
Log     == [bundle : Captures, files : SUBSET Files]
Draft   == [status |-> "draft", sealed |-> {}, log |-> NoLog]

ASSUME NoneAssumption ==
    /\ NoBundle \notin Captures \cup Bundles
    /\ NoLog \notin Keys \cup Log
    /\ Nobody \notin Executors

IdlePhone == [at |-> "idle"]
IdleExec  == [at |-> "idle"]

Init ==
    /\ row   = [c \in Captures |-> NoBundle]
    /\ media = [f \in Files |-> [bundle |-> NoBundle, log |-> NoLog]]
    /\ sent \in Contents
    /\ late  = {}
    /\ logs  = [k \in Keys |-> NoLog]
    /\ lock  = Nobody
    /\ phone = [p \in Phones |-> IdlePhone]
    /\ exec  = [x \in Executors |-> IdleExec]

MediaOf(c) == {f \in Files : media[f].bundle = c}
Stored     == {c \in Captures : row[c] # NoBundle}

\* PODCaptureBundle.is_expired and is_promoted, of a row as it was read.
IsExpired(c, copy) == copy.status = "expired" \/ c \in late
IsPromoted(copy)   == copy.status = "promoted" \/ copy.log # NoLog

\* An execute transaction that has written a bundle holds its row until it ends.
RowIsFree(c) == \A x \in Executors : exec[x].at = "promoted" => exec[x].bundle # c

-----------------------------------------------------------------------------
(* POST .../pod/capture/: every write is committed at once.                *)

Hang(p) == phone' = [phone EXCEPT ![p] = IdlePhone]

\* Mutant: a bundle is always taken for found.
LookBlind(p, c) ==
    /\ phone[p] = IdlePhone
    /\ phone' = [phone EXCEPT ![p] = [at |-> "found", capture |-> c, copy |-> row[c]]]
    /\ UNCHANGED <<row, media, late, logs, lock, exec>>

\* stage_bundle looks the capture id up.
Look(p, c) ==
    /\ phone[p] = IdlePhone
    /\ phone' = [phone EXCEPT ![p] =
           IF row[c] = NoBundle THEN [at |-> "new", capture |-> c]
           ELSE [at |-> "found", capture |-> c, copy |-> row[c]]]
    /\ UNCHANGED <<row, media, late, logs, lock, exec>>

\* A retry: refused if the bundle was promoted; written back as expired if its
\* time is over; answered as a success otherwise, a draft too.
Refused(p) ==
    /\ phone[p].at = "found"
    /\ IsPromoted(phone[p].copy)
    /\ Hang(p)
    /\ UNCHANGED <<row, media, late, logs, lock, exec>>

Replay(p) ==
    /\ phone[p].at = "found"
    /\ ~IsPromoted(phone[p].copy)
    /\ ~IsExpired(phone[p].capture, phone[p].copy)
    /\ Hang(p)
    /\ UNCHANGED <<row, media, late, logs, lock, exec>>

MarkExpired(p) ==
    LET c == phone[p].capture IN
    /\ phone[p].at = "found"
    /\ ~IsPromoted(phone[p].copy)
    /\ IsExpired(c, phone[p].copy)
    /\ \/ /\ phone[p].copy.status = "expired"
          /\ UNCHANGED row
       \/ /\ phone[p].copy.status # "expired"
          /\ RowIsFree(c)
          /\ row' = [row EXCEPT ![c] = [phone[p].copy EXCEPT !.status = "expired"]]
    /\ Hang(p)
    /\ UNCHANGED <<media, late, logs, lock, exec>>

\* The first request inserts the draft.  The unique constraint stops a second
\* one, which goes on with a bundle that is not stored and fails on its media.
Create(p) ==
    LET c == phone[p].capture IN
    /\ phone[p].at = "new"
    /\ \/ /\ row[c] = NoBundle
          /\ row' = [row EXCEPT ![c] = Draft]
          /\ phone' = [phone EXCEPT ![p] = [at |-> "staged", capture |-> c, copy |-> Draft]]
       \/ /\ row[c] # NoBundle
          /\ Hang(p)
          /\ UNCHANGED row
    /\ UNCHANGED <<media, late, logs, lock, exec>>

\* attach_media: no file may belong to another bundle, promoted or not, which
\* its unique column enforces.  A refusal leaves the draft behind.
FilesAreFree(c) ==
    \A f \in sent[c] : media[f].bundle \in {NoBundle, c} /\ media[f].log = NoLog

\* Mutant: the bundle is made ready without a seal.
AttachUnsealed(p) ==
    LET c == phone[p].capture IN
    /\ phone[p].at = "staged"
    /\ FilesAreFree(c)
    /\ media' = [f \in Files |->
           IF f \in sent[c] THEN [bundle |-> c, log |-> NoLog] ELSE media[f]]
    /\ phone' = [phone EXCEPT ![p].at = "sealed"]
    /\ UNCHANGED <<row, late, logs, lock, exec>>

Attach(p) ==
    LET c == phone[p].capture IN
    /\ phone[p].at = "staged"
    /\ FilesAreFree(c)
    /\ media' = [f \in Files |->
           IF f \in sent[c] THEN [bundle |-> c, log |-> NoLog] ELSE media[f]]
    /\ phone' = [phone EXCEPT ![p].at = "attached"]
    /\ UNCHANGED <<row, late, logs, lock, exec>>

\* The count of the media is then saved with the whole row.
Count(p) ==
    LET c == phone[p].capture IN
    /\ phone[p].at = "attached"
    /\ RowIsFree(c)
    /\ row' = [row EXCEPT ![c] = phone[p].copy]
    /\ phone' = [phone EXCEPT ![p].at = "counted"]
    /\ UNCHANGED <<media, late, logs, lock, exec>>

\* finalize_bundle: the header with the seal over the media, then READY, each a
\* write of the whole row.
Seal(p) ==
    LET c == phone[p].capture
        sealed == [phone[p].copy EXCEPT !.sealed = MediaOf(c)] IN
    /\ phone[p].at = "counted"
    /\ RowIsFree(c)
    /\ row' = [row EXCEPT ![c] = sealed]
    /\ phone' = [phone EXCEPT ![p].at = "sealed", ![p].copy = sealed]
    /\ UNCHANGED <<media, late, logs, lock, exec>>

MarkReady(p) ==
    LET c == phone[p].capture IN
    /\ phone[p].at = "sealed"
    /\ RowIsFree(c)
    /\ row' = [row EXCEPT ![c] =
           [phone[p].copy EXCEPT !.status = IF c \in late THEN "expired" ELSE "ready"]]
    /\ Hang(p)
    /\ UNCHANGED <<media, late, logs, lock, exec>>

Conflict(p) ==
    /\ phone[p].at = "staged"
    /\ ~FilesAreFree(phone[p].capture)
    /\ Hang(p)
    /\ UNCHANGED <<row, media, late, logs, lock, exec>>

\* The validation refuses the request, or the worker dies: what is stored stays.
Drop(p) ==
    /\ phone[p].at \in {"staged", "attached", "counted", "sealed"}
    /\ Hang(p)
    /\ UNCHANGED <<row, media, late, logs, lock, exec>>

-----------------------------------------------------------------------------
(* The execute request of the delivery step, in one transaction.           *)

Finish(x) == exec' = [exec EXCEPT ![x] = IdleExec]

\* A key whose log is committed is answered with it, without a change.  Else
\* prepare_a7_execute_evidence, before any lock: the files of all the driver's
\* READY bundles are merged and one of them is chosen; the app's own choice
\* counts only when there is none, and the evidence check then refuses it.
Candidates == {c \in Stored : row[c].status = "ready" /\ c \notin late}

Prepare(x, k, c) ==
    /\ exec[x] = IdleExec
    /\ logs[k] = NoLog
    /\ c \in Candidates
    /\ exec' = [exec EXCEPT ![x] =
           [at |-> "prepared", key |-> k, bundle |-> c,
            merged |-> UNION {MediaOf(d) : d \in Candidates}]]
    /\ UNCHANGED <<row, media, late, logs, lock, phone>>

\* Mutant: the shipment's row is read without locking it.
LockNothing(x) ==
    /\ exec[x].at = "prepared"
    /\ exec' = [exec EXCEPT ![x].at = "locked"]
    /\ UNCHANGED <<row, media, late, logs, lock, phone>>

\* lock_execution_entities.
Lock(x) ==
    /\ exec[x].at = "prepared"
    /\ lock = Nobody
    /\ lock' = x
    /\ exec' = [exec EXCEPT ![x].at = "locked"]
    /\ UNCHANGED <<row, media, late, logs, phone>>

\* The kernel writes a log only for a step that is due; then the bundle is read
\* again: it must be READY, in time, not empty and as it was sealed.
StepIsDue == Cardinality({k \in Keys : logs[k] # NoLog}) < PodSteps

Promotable(c, copy) ==
    /\ ~IsPromoted(copy)
    /\ copy.status = "ready"
    /\ ~IsExpired(c, copy)
    /\ MediaOf(c) # {}
    /\ copy.sealed = MediaOf(c)

\* Mutant: the bundle is not read again under the lock.
MayPromoteUnread(x) == logs[exec[x].key] = NoLog /\ StepIsDue

MayPromote(x) ==
    /\ logs[exec[x].key] = NoLog
    /\ StepIsDue
    /\ Promotable(exec[x].bundle, row[exec[x].bundle])

Resolve(x) ==
    /\ exec[x].at = "locked"
    /\ MayPromote(x)
    /\ exec' = [exec EXCEPT ![x] =
           [at |-> "resolved", key |-> exec[x].key, bundle |-> exec[x].bundle,
            merged |-> exec[x].merged, copy |-> row[exec[x].bundle]]]
    /\ UNCHANGED <<row, media, late, logs, lock, phone>>

\* mark_promoted writes the row as it was read and keeps it locked.
Promote(x) ==
    /\ exec[x].at = "resolved"
    /\ RowIsFree(exec[x].bundle)
    /\ exec' = [exec EXCEPT ![x].at = "promoted"]
    /\ UNCHANGED <<row, media, late, logs, lock, phone>>

Commit(x) ==
    LET c == exec[x].bundle
        k == exec[x].key IN
    /\ exec[x].at = "promoted"
    /\ row' = [row EXCEPT ![c] =
           [exec[x].copy EXCEPT !.status = "promoted", !.log = k]]
    /\ media' = [f \in Files |->
           IF media[f].bundle = c THEN [media[f] EXCEPT !.log = k] ELSE media[f]]
    /\ \E extra \in SUBSET exec[x].merged :
           logs' = [logs EXCEPT ![k] = [bundle |-> c, files |-> MediaOf(c) \cup extra]]
    /\ lock' = Nobody
    /\ Finish(x)
    /\ UNCHANGED <<late, phone>>

\* A check refuses the request, or the worker dies: everything is rolled back.
Rollback(x) ==
    /\ lock' = IF lock = x THEN Nobody ELSE lock
    /\ Finish(x)
    /\ UNCHANGED <<row, media, late, logs, phone>>

Refuse(x) == exec[x].at = "locked" /\ ~MayPromote(x) /\ Rollback(x)
Die(x)    == exec[x].at # "idle" /\ Rollback(x)

-----------------------------------------------------------------------------
(* Time, and the command that marks what nobody used.                      *)

TimePasses(c) ==
    /\ c \in Stored \ late
    /\ late' = late \cup {c}
    /\ UNCHANGED <<row, media, logs, lock, phone, exec>>

ExpireStale ==
    LET stale == {c \in Stored \cap late : row[c].status \in {"draft", "ready"}} IN
    /\ stale # {}
    /\ \A c \in stale : RowIsFree(c)
    /\ row' = [c \in Captures |->
           IF c \in stale THEN [row[c] EXCEPT !.status = "expired"] ELSE row[c]]
    /\ UNCHANGED <<media, late, logs, lock, phone, exec>>

Capture(p) ==
    \/ Refused(p) \/ Replay(p) \/ MarkExpired(p) \/ Create(p)
    \/ Attach(p) \/ Count(p) \/ Conflict(p) \/ Seal(p) \/ MarkReady(p)

Execute(x) == Resolve(x) \/ Refuse(x) \/ Promote(x) \/ Commit(x)

Next ==
    /\ \/ \E p \in Phones : Capture(p) \/ Drop(p) \/ \E c \in Captures : Look(p, c)
       \/ \E x \in Executors :
              \/ Lock(x) \/ Execute(x) \/ Die(x)
              \/ \E k \in Keys, c \in Captures : Prepare(x, k, c)
       \/ \E c \in Captures : TimePasses(c)
       \/ ExpireStale
    /\ UNCHANGED sent

Spec == Init /\ [][Next]_vars

-----------------------------------------------------------------------------
(* What the proof of delivery must keep.                                   *)

PhoneStates ==
    {IdlePhone}
    \cup [at : {"new"}, capture : Captures]
    \cup [at : {"found", "staged", "attached", "counted", "sealed"},
          capture : Captures, copy : Bundles]

ExecStates ==
    {IdleExec}
    \cup [at : {"prepared", "locked"}, key : Keys,
          bundle : Captures, merged : SUBSET Files]
    \cup [at : {"resolved", "promoted"}, key : Keys,
          bundle : Captures, merged : SUBSET Files, copy : Bundles]

\* Every row, log and worker has the shape the code gives it.
TypeOK ==
    /\ row \in [Captures -> Bundles \cup {NoBundle}]
    /\ media \in [Files -> [bundle : Captures \cup {NoBundle}, log : Keys \cup {NoLog}]]
    /\ sent \in Contents
    /\ late \subseteq Captures
    /\ logs \in [Keys -> Log \cup {NoLog}]
    /\ lock \in Executors \cup {Nobody}
    /\ phone \in [Phones -> PhoneStates]
    /\ exec \in [Executors -> ExecStates]

\* Whatever dies or is written back late, a bundle that an execute request may
\* choose has all the files of its capture, under its seal: the merge before
\* the lock and the promotion after it never see half a capture.
ReadyIsWhole ==
    \A c \in Stored :
        row[c].status \in {"ready", "promoted"} =>
            row[c].sealed = sent[c] /\ MediaOf(c) = sent[c]

\* The files of a committed log stay its bundle's and stay marked with it,
\* whatever is later written over the bundle row: no other capture takes them.
EvidenceStays ==
    \A k \in Keys :
        logs[k] # NoLog =>
            \A f \in sent[logs[k].bundle] :
                media[f] = [bundle |-> logs[k].bundle, log |-> k] /\ f \in logs[k].files

\* A capture is opened, filled once and used by at most one log, even though the
\* row of a bundle may be written back to what it was.
Used(c) == \E k \in Keys : logs[k] # NoLog /\ logs[k].bundle = c

StageOf(c) == IF Used(c) THEN "used"
              ELSE IF MediaOf(c) # {} THEN "filled"
              ELSE IF row[c] # NoBundle THEN "open" ELSE "absent"

Evidence == INSTANCE DeliveryEvidence WITH
    stage <- [c \in Captures |-> StageOf(c)],
    proof <- [k \in Keys |-> IF logs[k] = NoLog THEN NoLog ELSE logs[k].files]

RefinesEvidence == Evidence!Spec

\* "Promoted bundles and file refs cannot be re-staged or mutated via POD
\* Capture": a bundle that was promoted stays promoted.
PromotedIsFinal ==
    [][\A c \in Stored : row[c].status = "promoted" => row'[c].status = "promoted"]_vars
=============================================================================
