----------------------------- MODULE GroupEmail -----------------------------
(***************************************************************************)
(* One group email (src/server/camphoric/mail/batches.py) over the outbox: *)
(* a batch is created and its expansion scheduled; a worker prepares it,   *)
(* queueing a copy for each recipient at once; the outbox delivers the     *)
(* copies; an organizer may cancel the batch at any moment of it.          *)
(*                                                                         *)
(* The outbox's messages are the batch's copies, one per recipient.  "Retry *)
(* failed" is the outbox's Retry of each failed copy.                      *)
(*                                                                         *)
(* Assumed: the request that cancels is not killed between its two commits. *)
(***************************************************************************)
EXTENDS Outbox

CONSTANT Unrendered  \* the copies whose template fails for their recipient

VARIABLES
  batch,     \* its status
  schedule,  \* its expand_batch task: "none", "later" or "ready"
  expander,  \* the worker preparing it: "idle" or "write"
  canceller  \* the request cancelling it: "idle" or "copies"

batchVars == <<batch, schedule, expander, canceller>>
allVars == <<vars, batchVars>>

BatchTypeOK ==
  /\ TypeOK
  /\ batch \in {"none", "scheduled", "expanding", "sending", "cancelled"}
  /\ schedule \in {"none", "later", "ready"}
  /\ expander \in {"idle", "write"} /\ canceller \in {"idle", "copies"}
  /\ schedule # "none" => batch \in {"scheduled", "cancelled"}
  /\ expander = "write" => batch \in {"expanding", "cancelled"}

BatchInit ==
  /\ Init
  /\ batch = "none" /\ schedule = "none" /\ expander = "idle" /\ canceller = "idle"

(* The queued ones of these rows are cancelled.                             *)
StopQueued(rows) ==
  [m \in Messages |-> IF rows[m].status = "queued"
                        THEN [rows[m] EXCEPT !.status = "cancelled"] ELSE rows[m]]

-----------------------------------------------------------------------------
(* create_batch: the row, then its task, to run now or at its time.          *)
CreateBatch ==
  /\ batch = "none"
  /\ batch' = "scheduled"
  /\ \/ schedule' \in {"later", "ready"} /\ UNCHANGED crashes
     \/ crashes < MaxCrashes /\ crashes' = crashes + 1 /\ UNCHANGED schedule
  /\ UNCHANGED <<message, tasks, stuck, worker, accepted, onWire, edits, expander, canceller>>

SendTimeComes ==
  /\ schedule = "later" /\ schedule' = "ready"
  /\ UNCHANGED <<vars, batch, expander, canceller>>

ExpandClaimUnmarked ==                                     \* mutant
  /\ schedule = "ready" /\ expander = "idle"
  /\ schedule' = "none"
  /\ expander' = IF batch = "scheduled" THEN "write" ELSE "idle"
  /\ UNCHANGED <<vars, batch, canceller>>

(* expand, its claim: a batch still scheduled is this task's to prepare.     *)
ExpandClaim ==
  /\ schedule = "ready" /\ expander = "idle"
  /\ schedule' = "none"
  /\ IF batch = "scheduled" THEN batch' = "expanding" /\ expander' = "write"
                            ELSE UNCHANGED <<batch, expander>>
  /\ UNCHANGED <<vars, canceller>>

(* The rows once the copies are there: one that can't be rendered or sent to  *)
(* has failed.                                                                *)
WithCopies(copies) ==
  [m \in Messages |->
     IF m \notin copies THEN message[m]
     ELSE [NewMessage EXCEPT !.status =
             IF m \in Unreachable \union Unrendered THEN "failed" ELSE "queued"]]

WrittenAnyway(rows) == rows                                \* mutant

(* A batch cancelled while it was prepared stops its copies at once.          *)
WrittenIfExpanding(rows) == IF batch = "expanding" THEN rows ELSE StopQueued(rows)

(* expand, its transaction, for the recipients still there and not sent to    *)
(* before.                                                                    *)
ExpandWrite ==
  /\ expander = "write" /\ expander' = "idle"
  /\ \E copies \in SUBSET Messages :
       /\ message' = WrittenIfExpanding(WithCopies(copies))
       /\ tasks' = [m \in Messages |->
            IF m \in copies /\ WithCopies(copies)[m].status = "queued"
              THEN {"ready"} ELSE tasks[m]]
  /\ batch' = IF batch = "expanding" THEN "sending" ELSE batch
  /\ UNCHANGED <<stuck, worker, accepted, onWire, crashes, edits, schedule, canceller>>

ExpandDies ==
  /\ expander = "write" /\ crashes < MaxCrashes
  /\ expander' = "idle" /\ crashes' = crashes + 1
  /\ UNCHANGED <<message, tasks, stuck, worker, accepted, onWire, edits, batch, schedule,
                 canceller>>

(* cancel: the batch first, then its queued copies.                          *)
CancelBatch ==
  /\ batch \in {"scheduled", "expanding", "sending"}
  /\ batch' = "cancelled" /\ canceller' = "copies"
  /\ UNCHANGED <<vars, schedule, expander>>

CancelCopies ==
  /\ canceller = "copies" /\ canceller' = "idle"
  /\ message' = StopQueued(message)
  /\ UNCHANGED <<tasks, stuck, worker, accepted, onWire, crashes, edits, batch, schedule,
                 expander>>

-----------------------------------------------------------------------------
OutboxStep ==
  /\ \/ \E w \in Workers : Worker(w)
     \/ \E m \in Messages : Reconciler(m) \/ Organizer(m) \/ Time(m)
  /\ UNCHANGED batchVars

BatchNext ==
  \/ CreateBatch \/ SendTimeComes \/ ExpandClaim \/ ExpandWrite \/ ExpandDies
  \/ CancelBatch \/ CancelCopies
  \/ OutboxStep

BatchSpec == BatchInit /\ [][BatchNext]_allVars

-----------------------------------------------------------------------------
(* Properties.                                                             *)

Cancelled == batch = "cancelled" /\ canceller = "idle" /\ expander = "idle"

(* Once a batch is cancelled no copy of it is waiting to be sent              *)
(* (SPEC_CLIENT_V2.md:2291, "one under way stops the copies still waiting").  *)
CancelledBatchStops == Cancelled => \A m \in Messages : ~Queued(m)

(* Whether the batch was being prepared, its copies were being claimed, or    *)
(* both, when it was cancelled: no copy of it is then claimed that was not    *)
(* tried before (batches.py, "Cancelled while it was being prepared: nothing  *)
(* goes out").                                                                *)
CancelledStartsNone ==
  [][Cancelled => \A m \in Messages \ Unrendered :
       message[m].attempts = 0 /\ message'[m].status = "sending"
         => message[m].status = "sending"]_allVars
=============================================================================
