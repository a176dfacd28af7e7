-------------------------- MODULE GroupEmailProofs --------------------------
(***************************************************************************)
(* Proofs about GroupEmail: whenever a batch is cancelled, between any two *)
(* steps of its preparation and of the workers that deliver it, no copy of *)
(* it is tried after that was not tried before.                            *)
(* A send delivers only to those its author reviewed.                      *)
(***************************************************************************)
EXTENDS GroupEmail, GroupSend, OutboxProofs, SequenceTheorems

-----------------------------------------------------------------------------
(* The inductive invariant.                                                 *)

(* No copy is there yet.                                                    *)
NoCopies == \A m \in Messages : message[m].status = "none"

(* A worker is busy with a copy that is there.                              *)
BusyWithCopy ==
  \A w \in Workers : worker[w].pc # "idle" => message[worker[w].msg].status # "none"

(* A copy that failed was tried, or never was to be sent.                    *)
FailedTried ==
  \A m \in Messages \ (Unreachable \union Unrendered) :
    message[m].status = "failed" => message[m].attempts > 0

(* After a cancel, what waits was tried before.                             *)
WaitingTried ==
  Cancelled => \A m \in Messages \ Unrendered : Queued(m) => message[m].attempts > 0

BatchInv ==
  /\ BatchTypeOK /\ BusyWithCopy /\ FailedTried /\ WaitingTried
  /\ batch \in {"none", "scheduled"} => NoCopies /\ expander = "idle"
  /\ expander = "write" => NoCopies
  /\ canceller = "copies" => batch = "cancelled"

-----------------------------------------------------------------------------
(* What a step of the outbox does to a copy, of what the batch goes by.      *)
CopyMove(m) ==
  /\ message[m].status = "none" <=> message'[m].status = "none"
  /\ message'[m].status = "failed" =>
       \/ message[m].status = "failed" /\ message'[m].attempts = message[m].attempts
       \/ message'[m].attempts > 0
  /\ message'[m].status = "queued" =>
       \/ message[m].status = "queued" /\ message'[m].attempts = message[m].attempts
       \/ message'[m].attempts > 0
       \/ /\ message[m].status = "failed" /\ m \notin Unreachable
          /\ message'[m].attempts = message[m].attempts
  /\ message'[m].status = "sending" => message[m].status \in {"queued", "sending"}

LEMMA WorkerMoves ==
  ASSUME TypeOK, BusyWithCopy, NEW w \in Workers, Worker(w), NEW m \in Messages
  PROVE  CopyMove(m)
<1> DEFINE n == worker[w].msg
<1>1. /\ message \in [Messages -> MessageType] /\ message[m] \in MessageType /\ message[m].attempts \in Nat
      /\ worker[w].tries \in Nat
      /\ worker[w].pc # "idle" => n \in Messages /\ message[n].status # "none" /\ message[n] \in MessageType
  BY RowType, WorkerState DEF TypeOK, BusyWithCopy
<1>2. CASE message' = message
  BY <1>1, <1>2 DEF CopyMove
<1>3. CASE m # n
  <2>1. message' = message \/ \E row : message' = [message EXCEPT ![n] = row]
    BY DEF Worker, Start, Deliver, Claim, Open, Send, RecordSent, RecordFailure, RecordWake, More, Crash
  <2> QED BY <1>1, <1>2, <1>3, <2>1 DEF CopyMove
<1>4. CASE m = n /\ Claim(w)
  <2>1. worker[w].pc # "idle"
    BY <1>4 DEF Claim, At
  <2>2. CASE Queued(n) /\ message' = [message EXCEPT ![n].due = "later"]
    BY <1>1, <1>4, <2>1, <2>2 DEF CopyMove, MessageType
  <2>3. CASE Queued(n) /\ message' = [message EXCEPT ![n].status = "sending", ![n].lease = "held"]
    BY <1>1, <1>4, <2>1, <2>3 DEF CopyMove, MessageType, Queued
  <2> QED BY <1>2, <1>4, <2>2, <2>3 DEF Claim, Claimable, Due
<1>5. CASE m = n /\ RecordSent(w)
  <2>1. worker[w].pc # "idle"
    BY <1>5 DEF RecordSent, At
  <2> QED BY <1>1, <1>5, <2>1 DEF CopyMove, RecordSent, MessageType
<1>6. CASE m = n /\ RecordFailure(w)
  <2>1. worker[w].pc # "idle"
    BY <1>6 DEF RecordFailure, At
  <2>2. message'[m].status \in {"queued", "failed"} /\ message'[m].attempts = worker[w].tries + 1
    BY <1>1, <1>6, <2>1 DEF RecordFailure, MessageType
  <2> QED BY <1>1, <1>6, <2>1, <2>2 DEF CopyMove
<1> QED BY <1>2, <1>3, <1>4, <1>5, <1>6
        DEF Worker, Start, Deliver, Open, Send, RecordWake, More, Crash

LEMMA RowMoves ==
  ASSUME TypeOK, NEW n \in Messages, Reconciler(n) \/ Organizer(n) \/ Time(n), NEW m \in Messages
  PROVE  CopyMove(m)
<1>1. /\ message \in [Messages -> MessageType] /\ message[m] \in MessageType /\ message[m].attempts \in Nat
  BY RowType DEF TypeOK
<1>2. CASE message' = message
  BY <1>1, <1>2 DEF CopyMove
<1>3. CASE m # n
  <2>1. message' = message \/ \E row : message' = [message EXCEPT ![n] = row]
    BY DEF Reconciler, RecoverExpired, RecoverOverdue, Abandon, Organizer, Retry, Cancel, Time,
           BecomesDue, TwoMinutesPass, LeaseEnds, WindowPasses, Tick
  <2> QED BY <1>1, <1>2, <1>3, <2>1 DEF CopyMove
<1>4. CASE m = n /\ RecoverExpired(n)
  <2>1. message'[m].status \in {"queued", "failed"} /\ message'[m].attempts = message[m].attempts + 1
    BY <1>1, <1>4 DEF RecoverExpired, MessageType
  <2> QED BY <1>1, <1>4, <2>1 DEF CopyMove, RecoverExpired
<1>5. CASE m = n /\ Retry(n)
  BY <1>1, <1>5 DEF CopyMove, Retry, MessageType
<1>6. CASE m = n /\ Cancel(n)
  BY <1>1, <1>6 DEF CopyMove, Cancel, Queued, MessageType
<1>7. CASE m = n /\ Time(n)
  <2>1. message'[m].status = message[m].status /\ message'[m].attempts = message[m].attempts
    BY <1>1, <1>7 DEF Time, BecomesDue, TwoMinutesPass, LeaseEnds, WindowPasses, Tick, MessageType
  <2> QED BY <1>1, <2>1 DEF CopyMove
<1> QED BY <1>2, <1>3, <1>4, <1>5, <1>6, <1>7 DEF Reconciler, RecoverOverdue, Abandon, Organizer

(* A worker begins with a copy that waits, and goes on with it.              *)
LEMMA BusyKept ==
  ASSUME TypeOK, TypeOK', BusyWithCopy, OutboxStep, \A m \in Messages : CopyMove(m)
  PROVE  BusyWithCopy'
<1> SUFFICES ASSUME NEW v \in Workers, worker'[v].pc # "idle"
             PROVE  message'[worker'[v].msg].status # "none"
  BY DEF BusyWithCopy
<1>1. worker[v].pc # "idle" => worker[v].msg \in Messages /\ message[worker[v].msg].status # "none"
  BY WorkerState DEF BusyWithCopy
<1>2. CASE worker'[v].msg = worker[v].msg /\ worker[v].pc # "idle"
  BY <1>1, <1>2 DEF CopyMove
<1>3. CASE UNCHANGED worker
  BY <1>2, <1>3
<1>4. ASSUME NEW w \in Workers, Worker(w) PROVE message'[worker'[v].msg].status # "none"
  <2>1. worker \in [Workers -> WorkerType] /\ worker[w] \in WorkerType
    BY DEF TypeOK
  <2>2. CASE v # w
    <3>1. UNCHANGED worker \/ \E state : worker' = [worker EXCEPT ![w] = state]
      BY <1>4 DEF Worker, Start, Deliver, Claim, Skips, Open, Send, RecordSent, RecordFailure, RecordWake,
                  More, Crash, Becomes, GoTo, Returns
    <3>2. worker'[v] = worker[v]
      BY <2>1, <2>2, <3>1
    <3> QED BY <1>2, <3>2
  <2>3. CASE v = w /\ \E m \in Messages : Start(w, m)
    <3>1. PICK m \in Messages : Start(w, m)
      BY <2>3
    <3>2. Due(m)
      BY <1>1, <2>1, <2>3, <3>1 DEF Start, At
    <3>3. worker'[w].msg = m
      BY <2>1, <3>1, <3>2 DEF Start, Becomes, Idle
    <3> QED BY <2>3, <3>2, <3>3 DEF CopyMove, Due, Queued
  <2>4. CASE v = w /\ More(w)
    <3>1. PICK m \in Messages : Due(m) /\ Becomes(w, [worker[w] EXCEPT !.pc = "claim", !.msg = m, !.count = @ + 1])
      <4>1. ~Returns(w)
        BY <2>1, <2>4 DEF Returns, Becomes, Idle
      <4> QED BY <2>4, <4>1 DEF More
    <3> DEFINE state == [worker[w] EXCEPT !.pc = "claim", !.msg = m, !.count = @ + 1]
    <3>2. state.msg = m
      BY <2>1 DEF WorkerType
    <3>3. worker' = [worker EXCEPT ![w] = state]
      BY <3>1 DEF Becomes
    <3> HIDE DEF state
    <3>4. worker'[w].msg = m
      BY <2>1, <3>2, <3>3
    <3> QED BY <2>4, <3>1, <3>4 DEF CopyMove, Due, Queued
  <2>5. CASE v = w /\ (Deliver(w) \/ Crash(w)) /\ ~More(w)
    <3>1. worker[w].pc # "idle"
      BY <2>5 DEF Deliver, Claim, Open, Send, RecordSent, RecordFailure, RecordWake, Crash, At
    <3>2. worker'[w] = Idle \/ worker'[w].msg = worker[w].msg
      <4>1. ASSUME NEW state, Becomes(w, state) PROVE worker'[w] = state
        BY <2>1, <4>1 DEF Becomes
      <4>2. ASSUME NEW pc, GoTo(w, pc) PROVE worker'[w].msg = worker[w].msg
        <5>1. [worker[w] EXCEPT !.pc = pc].msg = worker[w].msg
          BY <2>1 DEF WorkerType
        <5> QED BY <4>1, <4>2, <5>1 DEF GoTo
      <4>3. ASSUME NEW outcome, Becomes(w, [worker[w] EXCEPT !.pc = "record", !.outcome = outcome])
            PROVE  worker'[w].msg = worker[w].msg
        <5>1. [worker[w] EXCEPT !.pc = "record", !.outcome = outcome].msg = worker[w].msg
          BY <2>1 DEF WorkerType
        <5> QED BY <4>1, <4>3, <5>1
      <4>4. AtWork(w).msg = worker[w].msg
        BY <2>1 DEF AtWork, WorkerType
      <4>5. CASE Crash(w) \/ RecordWake(w)
        BY <4>1, <4>5 DEF Crash, RecordWake, Returns
      <4>6. CASE Claim(w)
        BY <4>1, <4>2, <4>4, <4>6 DEF Claim, Skips, Returns
      <4>7. CASE Open(w)
        BY <4>2, <4>3, <4>7 DEF Open
      <4>8. CASE Send(w)
        BY <4>3, <4>8 DEF Send
      <4>9. CASE RecordSent(w) \/ RecordFailure(w)
        BY <4>1, <4>2, <4>9 DEF RecordSent, RecordFailure, Returns
      <4> QED BY <2>5, <4>5, <4>6, <4>7, <4>8, <4>9 DEF Deliver
    <3> QED BY <1>2, <2>5, <3>1, <3>2 DEF Idle
  <2> QED BY <1>4, <2>2, <2>3, <2>4, <2>5 DEF Worker
<1>5. CASE \E m \in Messages : Reconciler(m) \/ Organizer(m) \/ Time(m)
  BY <1>3, <1>5 DEF Reconciler, RecoverExpired, RecoverOverdue, Abandon, Organizer, Retry, Cancel, Time,
                    BecomesDue, TwoMinutesPass, LeaseEnds, WindowPasses, Tick
<1> QED BY <1>4, <1>5 DEF OutboxStep

-----------------------------------------------------------------------------
(* A step of the outbox's.                                                  *)
LEMMA OutboxStepKeeps ==
  ASSUME BatchInv, OutboxStep
  PROVE  /\ BatchInv'
         /\ Cancelled => \A m \in Messages \ Unrendered :
              message[m].attempts = 0 /\ message'[m].status = "sending" => message[m].status = "sending"
<1>1. TypeOK /\ BusyWithCopy /\ UNCHANGED batchVars
  BY DEF BatchInv, BatchTypeOK, OutboxStep
<1>2. Next
  BY DEF OutboxStep, Next
<1>3. TypeOK'
  BY <1>1, <1>2, NextType
<1>4. ASSUME NEW m \in Messages PROVE CopyMove(m)
  BY <1>1, WorkerMoves, RowMoves DEF OutboxStep
<1>5. BusyWithCopy'
  BY <1>1, <1>3, <1>4, BusyKept
<1>6. ASSUME NEW m \in Messages
      PROVE  message[m].attempts \in Nat /\ message'[m].attempts \in Nat
  <2>1. message'[m] \in MessageType
    BY <1>3 DEF TypeOK
  <2> QED BY <1>1, <2>1, RowType DEF MessageType
<1>7. FailedTried'
  BY <1>4, <1>6 DEF BatchInv, FailedTried, CopyMove
<1>8. UNCHANGED Cancelled
  BY <1>1 DEF Cancelled, batchVars
<1>9. WaitingTried'
  BY <1>4, <1>6, <1>8 DEF BatchInv, FailedTried, WaitingTried, CopyMove, Queued
<1>10. NoCopies => NoCopies'
  BY <1>4 DEF NoCopies, CopyMove
<1>11. BatchInv'
  BY <1>1, <1>3, <1>5, <1>7, <1>9, <1>10 DEF BatchInv, BatchTypeOK, batchVars
<1>12. ASSUME Cancelled, NEW m \in Messages \ Unrendered, message[m].attempts = 0,
              message'[m].status = "sending"
       PROVE  message[m].status = "sending"
  BY <1>4, <1>12 DEF BatchInv, WaitingTried, CopyMove, Queued
<1> QED BY <1>11, <1>12

(* Stopping what is queued leaves nothing that waits.                       *)
LEMMA StopQueuedRows ==
  ASSUME NEW rows \in [Messages -> MessageType]
  PROVE  /\ StopQueued(rows) \in [Messages -> MessageType]
         /\ \A m \in Messages :
              /\ StopQueued(rows)[m].status # "queued"
              /\ StopQueued(rows)[m].attempts = rows[m].attempts
              /\ \/ StopQueued(rows)[m].status = rows[m].status
                 \/ rows[m].status = "queued" /\ StopQueued(rows)[m].status = "cancelled"
<1> SUFFICES ASSUME NEW m \in Messages
             PROVE  /\ StopQueued(rows)[m] \in MessageType
                    /\ StopQueued(rows)[m].status # "queued"
                    /\ StopQueued(rows)[m].attempts = rows[m].attempts
                    /\ \/ StopQueued(rows)[m].status = rows[m].status
                       \/ rows[m].status = "queued" /\ StopQueued(rows)[m].status = "cancelled"
  BY DEF StopQueued
<1>1. rows[m] \in MessageType
  OBVIOUS
<1>2. CASE rows[m].status = "queued"
  <2>1. StopQueued(rows)[m] = [rows[m] EXCEPT !.status = "cancelled"]
    BY <1>2 DEF StopQueued
  <2> QED BY <1>1, <1>2, <2>1 DEF MessageType
<1>3. CASE rows[m].status # "queued"
  <2>1. StopQueued(rows)[m] = rows[m]
    BY <1>3 DEF StopQueued
  <2> QED BY <1>1, <1>3, <2>1
<1> QED BY <1>2, <1>3

LEMMA CopiesRows ==
  ASSUME TypeOK, NoCopies, NEW copies \in SUBSET Messages
  PROVE  /\ WithCopies(copies) \in [Messages -> MessageType]
         /\ \A m \in Messages :
              /\ WithCopies(copies)[m].status \in {"none", "queued", "failed"}
              /\ WithCopies(copies)[m].status = "failed" => m \in Unreachable \union Unrendered
<1> SUFFICES ASSUME NEW m \in Messages
             PROVE  /\ WithCopies(copies)[m] \in MessageType
                    /\ WithCopies(copies)[m].status \in {"none", "queued", "failed"}
                    /\ WithCopies(copies)[m].status = "failed" => m \in Unreachable \union Unrendered
  BY DEF WithCopies
<1>1. CASE m \notin copies
  BY <1>1, RowType DEF WithCopies, NoCopies
<1>2. CASE m \in copies
  <2> DEFINE st == IF m \in Unreachable \union Unrendered THEN "failed" ELSE "queued"
  <2>1. WithCopies(copies)[m] = [NewMessage EXCEPT !.status = st]
    BY <1>2 DEF WithCopies
  <2>2. st \in {"queued", "failed"} /\ (st = "failed" => m \in Unreachable \union Unrendered)
    OBVIOUS
  <2> HIDE DEF st
  <2> QED BY <2>1, <2>2 DEF NewMessage, MessageType
<1> QED BY <1>1, <1>2

LEMMA NoneBusy ==
  ASSUME TypeOK, BusyWithCopy, NoCopies
  PROVE  \A w \in Workers : worker[w].pc = "idle"
BY WorkerState DEF BusyWithCopy, NoCopies

(* The batch's own steps.                                                   *)
LEMMA ExpandWriteKeeps ==
  ASSUME BatchInv, ExpandWrite
  PROVE  BatchInv' /\ \A m \in Messages : message'[m].status # "sending"
<1>1. TypeOK /\ NoCopies /\ BusyWithCopy /\ batch \in {"expanding", "cancelled"}
  BY DEF BatchInv, BatchTypeOK, ExpandWrite
<1>2. PICK copies \in SUBSET Messages :
        /\ message' = WrittenIfExpanding(WithCopies(copies))
        /\ tasks' = [m \in Messages |->
             IF m \in copies /\ WithCopies(copies)[m].status = "queued" THEN {"ready"} ELSE tasks[m]]
  BY DEF ExpandWrite
<1> DEFINE rows == WithCopies(copies)
<1>3. /\ rows \in [Messages -> MessageType]
      /\ \A m \in Messages :
           /\ rows[m].status \in {"none", "queued", "failed"}
           /\ rows[m].status = "failed" => m \in Unreachable \union Unrendered
  BY <1>1, CopiesRows
<1>4. tasks' \in [Messages -> SUBSET {"ready", "deferred"}]
  BY <1>1, <1>2 DEF TypeOK
<1> HIDE DEF rows
<1>5. /\ message' \in [Messages -> MessageType]
      /\ \A m \in Messages :
           /\ message'[m].status \in {"none", "queued", "failed", "cancelled"}
           /\ message'[m].status = "failed" => m \in Unreachable \union Unrendered
           /\ batch = "cancelled" => message'[m].status # "queued"
  <2>1. CASE batch = "expanding"
    BY <1>2, <1>3, <2>1 DEF WrittenIfExpanding, rows
  <2>2. CASE batch = "cancelled"
    BY <1>2, <1>3, <2>2, StopQueuedRows DEF WrittenIfExpanding, rows
  <2> QED BY <1>1, <2>1, <2>2
<1>6. /\ UNCHANGED <<stuck, worker, accepted, onWire, crashes, edits, schedule, canceller>>
      /\ expander' = "idle" /\ batch' = IF batch = "expanding" THEN "sending" ELSE batch
  BY DEF ExpandWrite
<1>7. BatchTypeOK'
  BY <1>1, <1>4, <1>5, <1>6 DEF BatchInv, BatchTypeOK, TypeOK
<1>8. BusyWithCopy'
  BY <1>1, <1>6, NoneBusy DEF BusyWithCopy
<1>9. FailedTried' /\ WaitingTried'
  BY <1>1, <1>5, <1>6 DEF FailedTried, WaitingTried, Cancelled, Queued
<1> QED BY <1>1, <1>5, <1>6, <1>7, <1>8, <1>9 DEF BatchInv

LEMMA CancelCopiesKeeps ==
  ASSUME BatchInv, CancelCopies
  PROVE  BatchInv' /\ \A m \in Messages : message'[m].status = "sending" => message[m].status = "sending"
<1>1. /\ TypeOK /\ message \in [Messages -> MessageType] /\ message' = StopQueued(message)
      /\ UNCHANGED <<tasks, stuck, worker, accepted, onWire, crashes, edits, batch, schedule, expander>>
      /\ canceller' = "idle"
  BY DEF BatchInv, BatchTypeOK, TypeOK, CancelCopies
<1>2. /\ message' \in [Messages -> MessageType]
      /\ \A m \in Messages :
           /\ message'[m].status # "queued" /\ message'[m].attempts = message[m].attempts
           /\ \/ message'[m].status = message[m].status
              \/ message[m].status = "queued" /\ message'[m].status = "cancelled"
  BY <1>1, StopQueuedRows
<1>3. BatchTypeOK'
  BY <1>1, <1>2 DEF BatchInv, BatchTypeOK, TypeOK
<1>4. BusyWithCopy'
  BY <1>1, <1>2, WorkerState DEF BatchInv, BusyWithCopy
<1>5. FailedTried' /\ WaitingTried' /\ (NoCopies => NoCopies')
  BY <1>1, <1>2 DEF BatchInv, FailedTried, WaitingTried, NoCopies, Queued
<1> QED BY <1>1, <1>2, <1>3, <1>4, <1>5 DEF BatchInv

LEMMA OthersKeep ==
  ASSUME BatchInv,
         CreateBatch \/ SendTimeComes \/ ExpandClaim \/ ExpandDies \/ CancelBatch \/ UNCHANGED allVars
  PROVE  BatchInv' /\ UNCHANGED message
<1>1. UNCHANGED <<message, tasks, stuck, worker, accepted, onWire, edits>>
  BY DEF CreateBatch, SendTimeComes, ExpandClaim, ExpandDies, CancelBatch, allVars, vars
<1>2. crashes' \in Nat
  BY DEF CreateBatch, SendTimeComes, ExpandClaim, ExpandDies, CancelBatch, allVars, vars,
         BatchInv, BatchTypeOK, TypeOK
<1>3. TypeOK'
  BY <1>1, <1>2 DEF BatchInv, BatchTypeOK, TypeOK
<1>4. BusyWithCopy' /\ FailedTried' /\ (NoCopies <=> NoCopies')
  BY <1>1 DEF BatchInv, BusyWithCopy, FailedTried, NoCopies
<1>5. Cancelled' => Cancelled \/ NoCopies
  BY DEF BatchInv, BatchTypeOK, Cancelled, CreateBatch, SendTimeComes, ExpandClaim, ExpandDies, CancelBatch,
         allVars, batchVars
<1>6. WaitingTried'
  BY <1>1, <1>5 DEF BatchInv, WaitingTried, NoCopies, Queued
<1>7. /\ BatchTypeOK'
      /\ batch' \in {"none", "scheduled"} => NoCopies /\ expander' = "idle"
      /\ expander' = "write" => NoCopies
      /\ canceller' = "copies" => batch' = "cancelled"
  BY <1>3 DEF BatchInv, BatchTypeOK, CreateBatch, SendTimeComes, ExpandClaim, ExpandDies, CancelBatch,
              allVars, batchVars
<1> QED BY <1>1, <1>3, <1>4, <1>6, <1>7 DEF BatchInv

-----------------------------------------------------------------------------
(* The specification.                                                       *)
LEMMA BatchInvInit == BatchInit => BatchInv
<1> SUFFICES ASSUME BatchInit PROVE BatchInv
  OBVIOUS
<1>1. TypeOK /\ NoCopies
  BY InitType DEF BatchInit, Init, NewMessage, NoCopies
<1>2. BusyWithCopy
  BY DEF BatchInit, Init, Idle, BusyWithCopy
<1> QED BY <1>1, <1>2 DEF BatchInit, BatchInv, BatchTypeOK, NoCopies, FailedTried, WaitingTried, Queued

LEMMA BatchStep ==
  ASSUME BatchInv, [BatchNext]_allVars
  PROVE  /\ BatchInv'
         /\ Cancelled => \A m \in Messages \ Unrendered :
              message[m].attempts = 0 /\ message'[m].status = "sending" => message[m].status = "sending"
<1>1. CASE OutboxStep
  BY <1>1, OutboxStepKeeps
<1>2. CASE ExpandWrite
  BY <1>2, ExpandWriteKeeps
<1>3. CASE CancelCopies
  BY <1>3, CancelCopiesKeeps
<1>4. CASE CreateBatch \/ SendTimeComes \/ ExpandClaim \/ ExpandDies \/ CancelBatch \/ UNCHANGED allVars
  BY <1>4, OthersKeep
<1> QED BY <1>1, <1>2, <1>3, <1>4 DEF BatchNext

LEMMA BatchInvariant == BatchSpec => []BatchInv
<1>1. BatchInv /\ [BatchNext]_allVars => BatchInv'
  BY BatchStep
<1> QED BY BatchInvInit, <1>1, PTL DEF BatchSpec

(* The batch's row, its scheduled task, the worker that prepares it and the  *)
(* request that cancels it are as BatchTypeOK says, beside the outbox's.     *)
THEOREM BatchTypeCorrect == BatchSpec => []BatchTypeOK
<1>1. BatchInv => BatchTypeOK
  BY DEF BatchInv
<1> QED BY <1>1, BatchInvariant, PTL

(* Whenever it is cancelled, no copy of a group email is then claimed that   *)
(* was not tried before (batches.py cancel, expand; outbox.py _claim).       *)
THEOREM CancelledStays == BatchSpec => CancelledStartsNone
<1> DEFINE StartsNone ==
      Cancelled => \A m \in Messages \ Unrendered :
        message[m].attempts = 0 /\ message'[m].status = "sending" => message[m].status = "sending"
<1>1. BatchInv /\ [BatchNext]_allVars => [StartsNone]_allVars
  BY BatchStep
<1> QED BY <1>1, BatchInvariant, PTL DEF BatchSpec, CancelledStartsNone

-----------------------------------------------------------------------------
(* Sending to those reviewed.  The inductive invariant: a send's keys are    *)
(* among those on screen as it was asked for, and a batch's copies are each  *)
(* for one of its keys, at an address of its own.                            *)
Reviewed(b) ==
  /\ b.keys \subseteq b.shown
  /\ \A k \in Keys : b.to[k] # None => k \in b.keys
  /\ \A k \in Keys : b.copy[k] # None => b.to[k] # None
  /\ \A j, k \in Keys : b.to[k] # None /\ b.to[j] = b.to[k] => j = k
  /\ b.at \in {"scheduled", "expanding"} => \A k \in Keys : b.copy[k] = None

SendInv ==
  /\ SendTypeOK
  /\ sends \in Seq(Wish) /\ batches \in Seq(Batch)
  /\ sendDialog # None /\ sendDialog.confirm # None
       => sendDialog.confirm.keys \subseteq sendDialog.confirm.shown
  /\ \A i \in DOMAIN sends : sends[i].keys \subseteq sends[i].shown
  /\ \A i \in DOMAIN batches : Reviewed(batches[i])

(* An audience is of the event's people, one at an address.                  *)
LEMMA ResolveOneEach ==
  ASSUME SendAssumption, SendTypeOK, NEW asked \in SUBSET Keys
  PROVE  /\ Resolve(asked) \subseteq asked
         /\ \A k \in Resolve(asked) : person[k].address \in Addresses
         /\ \A j, k \in Resolve(asked) : person[j].address = person[k].address => j = k
<1>1. \A k \in Keys : person[k].address \in Addresses /\ k \in Nat
  BY DEF SendTypeOK, SendAssumption
<1>2. Resolve(asked) \subseteq asked
  BY DEF Resolve
<1>3. ASSUME NEW j \in Resolve(asked), NEW k \in Resolve(asked),
             person[j].address = person[k].address
      PROVE  j = k
  <2> DEFINE able == {x \in asked : person[x].here /\ person[x].address \notin unsubscribed}
  <2>1. Resolve(asked) = {x \in able : \A y \in able : person[y].address = person[x].address => x <= y}
    BY DEF Resolve
  <2> HIDE DEF able
  <2>2. j \in able /\ k \in able
    BY <2>1
  <2>3. j <= k /\ k <= j
    BY <1>3, <2>1, <2>2
  <2>4. j \in Nat /\ k \in Nat
    BY <1>1, <1>2
  <2> QED BY <2>3, <2>4
<1> QED BY <1>1, <1>2, <1>3

LEMMA AudienceType ==
  ASSUME SendAssumption, SendTypeOK, NEW filter
  PROVE  Audience(filter) \in Answer
<1> DEFINE asked == IF filter = "template" THEN {k \in Keys : person[k].wanted} ELSE Keys
<1>1. asked \in SUBSET Keys
  OBVIOUS
<1>2. Resolve(asked) \subseteq Keys
  BY <1>1, ResolveOneEach
<1> HIDE DEF asked
<1>3. Audience(filter) = [to |-> Resolve(asked), reached |-> Sent(0) \cap Resolve(asked)]
  BY DEF Audience, asked
<1> QED BY <1>2, <1>3 DEF Answer

(* What is on screen, and what is chosen of it.                              *)
LEMMA ShownType ==
  ASSUME SendTypeOK, Showing
  PROVE  /\ sendDialog \in ReviewDialog /\ sendDialog # None /\ sendDialog.confirm = None
         /\ Shown(sendDialog) \in Answer
         /\ Selected(sendDialog) \subseteq Keys /\ Chosen(sendDialog) \subseteq Keys
<1>1. sendDialog \in ReviewDialog /\ sendDialog # None /\ sendDialog.confirm = None
  BY DEF SendTypeOK, Showing
<1>2. Shown(sendDialog) \in Answer
  BY <1>1 DEF ReviewDialog, Shown, Showing
<1>3. Selected(sendDialog) \subseteq Keys
  BY <1>1, <1>2 DEF ReviewDialog, Selected, Answer
<1> QED BY <1>1, <1>2, <1>3 DEF Chosen

-----------------------------------------------------------------------------
LEMMA SendStarts == SendAssumption /\ SendInit => SendInv
<1> SUFFICES ASSUME SendAssumption, SendInit PROVE SendInv
  OBVIOUS
<1> DEFINE b == Earlier(person)
<1>1. person \in [Keys -> [here : BOOLEAN, address : Addresses, wanted : BOOLEAN]]
  BY DEF SendInit
<1>2. person[1].address \in Addresses
  BY <1>1 DEF SendAssumption
<1>3. b \in Batch
  <2>1. [k \in Keys |-> IF k = 1 THEN person[1].address ELSE None] \in [Keys -> Addresses \cup {None}]
    BY <1>2
  <2>2. [k \in Keys |-> IF k = 1 THEN "sent" ELSE None] \in [Keys -> {None, "waiting", "sent"}]
    OBVIOUS
  <2>3. {1} \in SUBSET Keys
    BY DEF SendAssumption
  <2> QED BY <2>1, <2>2, <2>3 DEF Earlier, Batch
<1>4. Reviewed(b)
  <2>1. b.keys = {1} /\ b.shown = {1} /\ b.at = "sending"
    BY DEF Earlier
  <2>2. \A k \in Keys : b.to[k] = IF k = 1 THEN person[1].address ELSE None
    BY DEF Earlier
  <2>3. \A k \in Keys : b.copy[k] = IF k = 1 THEN "sent" ELSE None
    BY DEF Earlier
  <2>4. person[1].address # None
    BY <1>2 DEF SendAssumption
  <2> HIDE DEF b
  <2> QED BY <2>1, <2>2, <2>3, <2>4 DEF Reviewed
<1> HIDE DEF b
<1>5. batches = <<b>> /\ sends = <<>> /\ sendDialog = None /\ news = 0 /\ unsubscribed = {}
  BY DEF SendInit, b
<1>6. batches \in Seq(Batch) /\ \A i \in DOMAIN batches : batches[i] = b
  BY <1>3, <1>5
<1>7. sends \in Seq(Wish) /\ DOMAIN sends = {}
  BY <1>5
<1>8. news \in 0..MaxNews
  BY <1>5 DEF SendAssumption
<1> QED BY <1>1, <1>3, <1>4, <1>5, <1>6, <1>7, <1>8 DEF SendInv, SendTypeOK

(* The dialog's steps: what is on its way and recorded stays, and what Send  *)
(* keeps to confirm is what is chosen.                                       *)
DialogMoves ==
  /\ UNCHANGED <<person, unsubscribed, sends, batches, news>>
  /\ sendDialog' = None \/ sendDialog' \in ReviewDialog
  /\ sendDialog' # None /\ sendDialog'.confirm # None
       => sendDialog'.confirm.keys \subseteq sendDialog'.confirm.shown

LEMMA DialogKeeps == SendInv /\ DialogMoves => SendInv'
BY DEF SendInv, DialogMoves, SendTypeOK, Reviewed

LEMMA DialogSteps ==
  ASSUME SendAssumption, SendInv,
         \/ OpenDialog \/ CloseDialog \/ DefaultsCome \/ SetSkip \/ FoundCome \/ Add \/ Replace
         \/ Press \/ Back
         \/ \E some \in SUBSET Keys, on \in BOOLEAN : Check(some, on)
  PROVE  DialogMoves
<1> USE DEF DialogMoves
<1>0. SendTypeOK
  BY DEF SendInv
<1>1. CASE OpenDialog
  <2>1. None \in Answer \cup {None} /\ None \in (SUBSET Keys) \cup {None} /\ None \in Wish \cup {None}
    OBVIOUS
  <2>2. sendDialog' \in ReviewDialog /\ sendDialog'.confirm = None
    BY <1>1, <2>1 DEF OpenDialog, ReviewDialog
  <2> QED BY <1>1, <2>2 DEF OpenDialog
<1>2. CASE CloseDialog
  BY <1>2 DEF CloseDialog
<1>3. CASE DefaultsCome
  <2>1. Audience("template") \in Answer /\ sendDialog \in ReviewDialog
    BY <1>0, <1>3, AudienceType DEF DefaultsCome, SendTypeOK
  <2>2. sendDialog' \in ReviewDialog /\ sendDialog'.confirm = sendDialog.confirm
    BY <1>3, <2>1 DEF DefaultsCome, ReviewDialog
  <2> QED BY <1>3, <2>2 DEF DefaultsCome, SendInv
<1>4. CASE SetSkip
  <2>1. sendDialog' \in ReviewDialog /\ sendDialog'.confirm = None
    BY <1>0, <1>4, ShownType DEF SetSkip, ReviewDialog
  <2> QED BY <1>4, <2>1 DEF SetSkip
<1>5. CASE FoundCome
  <2>1. Audience("everyone") \in Answer
    BY <1>0, AudienceType
  <2>2. sendDialog' \in ReviewDialog /\ sendDialog'.confirm = None
    BY <1>0, <1>5, <2>1, ShownType DEF FoundCome, ReviewDialog
  <2> QED BY <1>5, <2>2 DEF FoundCome
<1>6. CASE Add
  <2> DEFINE new == sendDialog.found.to \ Shown(sendDialog).to
             list == [to |-> Shown(sendDialog).to \cup new,
                      reached |-> Shown(sendDialog).reached \cup (sendDialog.found.reached \cap new)]
  <2>1. Showing /\ sendDialog.found # None
    BY <1>6 DEF Add
  <2>2. sendDialog.found \in Answer
    BY <1>0, <2>1, ShownType DEF ReviewDialog
  <2>3. list \in Answer /\ Selected(sendDialog) \cup new \in SUBSET Keys
    BY <1>0, <2>1, <2>2, ShownType DEF Answer
  <2>4. sendDialog' = [sendDialog EXCEPT !.list = list, !.picked = Selected(sendDialog) \cup new,
                                         !.found = None]
    BY <1>6 DEF Add
  <2> HIDE DEF list, new
  <2>5. sendDialog' \in ReviewDialog /\ sendDialog'.confirm = None
    BY <1>0, <2>1, <2>3, <2>4, ShownType DEF ReviewDialog
  <2> QED BY <1>6, <2>5 DEF Add
<1>7. CASE Replace
  <2>1. sendDialog.found \in Answer /\ Showing
    BY <1>0, <1>7, ShownType DEF Replace, ReviewDialog
  <2>2. sendDialog.found.to \in SUBSET Keys
    BY <2>1 DEF Answer
  <2>3. sendDialog' \in ReviewDialog /\ sendDialog'.confirm = None
    BY <1>0, <1>7, <2>1, <2>2, ShownType DEF Replace, ReviewDialog
  <2> QED BY <1>7, <2>3 DEF Replace
<1>8. CASE Press
  <2>1. Showing /\ sendDialog \in ReviewDialog /\ Asked(sendDialog) \in Wish
    BY <1>0, <1>8, ShownType DEF Press, Asked, Wish, ReviewDialog
  <2>2. sendDialog' \in ReviewDialog /\ sendDialog'.confirm = Asked(sendDialog)
    BY <1>8, <2>1 DEF Press, ReviewDialog
  <2> QED BY <1>8, <2>2 DEF Press, Asked
<1>9. CASE Back
  <2>1. sendDialog' \in ReviewDialog /\ sendDialog'.confirm = None
    BY <1>0, <1>9 DEF Back, SendTypeOK, ReviewDialog
  <2> QED BY <1>9, <2>1 DEF Back
<1>10. ASSUME NEW some \in SUBSET Keys, NEW on \in BOOLEAN, Check(some, on)
       PROVE  DialogMoves
  <2>1. Showing /\ Selected(sendDialog) \cup some \in SUBSET Keys
        /\ Selected(sendDialog) \ some \in SUBSET Keys
    BY <1>0, <1>10, ShownType DEF Check
  <2>2. sendDialog' \in ReviewDialog /\ sendDialog'.confirm = None
    BY <1>0, <1>10, <2>1, ShownType DEF Check, ReviewDialog
  <2> QED BY <1>10, <2>2 DEF Check
<1> QED BY <1>1, <1>2, <1>3, <1>4, <1>5, <1>6, <1>7, <1>8, <1>9, <1>10

-----------------------------------------------------------------------------
(* The request and its batch.                                                *)
LEMMA ConfirmKeeps ==
  ASSUME SendInv, Confirm
  PROVE  SendInv'
<1> DEFINE wish == sendDialog.confirm
<1>1. /\ sendDialog \in ReviewDialog /\ wish \in Wish /\ wish.keys \subseteq wish.shown
      /\ [wish EXCEPT !.keys = KeysToSend] = wish
  BY DEF SendInv, SendTypeOK, Confirm, ReviewDialog, Wish, KeysToSend
<1>2. sends' = Append(sends, wish) /\ UNCHANGED <<person, unsubscribed, batches, news>>
  BY <1>1 DEF Confirm
<1>3. sendDialog' \in ReviewDialog /\ sendDialog'.confirm = None
  BY <1>1 DEF Confirm, ReviewDialog
<1> HIDE DEF wish
<1>4. sends \in Seq(Wish) /\ \A i \in DOMAIN sends : sends[i].keys \subseteq sends[i].shown
  BY DEF SendInv
<1>5. sends' \in Seq(Wish) /\ \A i \in DOMAIN sends' : sends'[i].keys \subseteq sends'[i].shown
  BY <1>1, <1>2, <1>4, AppendProperties
<1> QED BY <1>2, <1>3, <1>5 DEF SendInv, SendTypeOK, Reviewed

LEMMA TailKeeps ==
  ASSUME SendInv, sends # <<>>
  PROVE  /\ Head(sends) \in Wish /\ Head(sends).keys \subseteq Head(sends).shown
         /\ Tail(sends) \in Seq(Wish)
         /\ \A i \in DOMAIN Tail(sends) : Tail(sends)[i].keys \subseteq Tail(sends)[i].shown
<1>1. sends \in Seq(Wish) /\ \A i \in DOMAIN sends : sends[i].keys \subseteq sends[i].shown
  BY DEF SendInv
<1>2. /\ Len(sends) \in Nat \ {0} /\ Head(sends) = sends[1]
      /\ Tail(sends) \in Seq(Wish) /\ Len(Tail(sends)) = Len(sends) - 1
      /\ \A i \in 1..Len(Tail(sends)) : Tail(sends)[i] = sends[i + 1]
  BY <1>1, EmptySeq, HeadTailProperties
<1>3. DOMAIN sends = 1..Len(sends) /\ DOMAIN Tail(sends) = 1..Len(Tail(sends))
  BY <1>1, <1>2
<1> QED BY <1>1, <1>2, <1>3

LEMMA ArrivesKeeps ==
  ASSUME SendInv, SendArrives
  PROVE  SendInv'
<1> DEFINE b == [keys |-> Head(sends).keys, skip |-> Head(sends).skip, shown |-> Head(sends).shown,
                 at |-> "scheduled", to |-> [k \in Keys |-> None], copy |-> [k \in Keys |-> None]]
<1>1. /\ Head(sends) \in Wish /\ Head(sends).keys \subseteq Head(sends).shown
      /\ sends' \in Seq(Wish)
      /\ \A i \in DOMAIN sends' : sends'[i].keys \subseteq sends'[i].shown
  BY TailKeeps DEF SendArrives
<1>2. b \in Batch
  <2>1. /\ [k \in Keys |-> None] \in [Keys -> Addresses \cup {None}]
        /\ [k \in Keys |-> None] \in [Keys -> {None, "waiting", "sent"}]
    OBVIOUS
  <2> QED BY <1>1, <2>1 DEF Batch, Wish
<1>3. Reviewed(b)
  <2>1. b.keys \subseteq b.shown /\ \A k \in Keys : b.to[k] = None /\ b.copy[k] = None
    BY <1>1
  <2> HIDE DEF b
  <2> QED BY <2>1 DEF Reviewed
<1>4. batches' = Append(batches, b) /\ UNCHANGED <<person, unsubscribed, news>>
  BY DEF SendArrives
<1> HIDE DEF b
<1>5. batches' \in Seq(Batch) /\ \A i \in DOMAIN batches' : Reviewed(batches'[i])
  <2>1. batches \in Seq(Batch) /\ \A i \in DOMAIN batches : Reviewed(batches[i])
    BY DEF SendInv
  <2> QED BY <1>2, <1>3, <1>4, <2>1, AppendProperties
<1>6. sendDialog' \in {None, sendDialog} \/ (sendDialog # None /\ sendDialog' = [sendDialog EXCEPT !.waits = FALSE])
  BY DEF SendArrives
<1>7. /\ sendDialog' = None \/ sendDialog' \in ReviewDialog
      /\ sendDialog' # None => sendDialog # None /\ sendDialog'.confirm = sendDialog.confirm
  BY <1>6 DEF SendInv, SendTypeOK, ReviewDialog
<1> QED BY <1>1, <1>4, <1>5, <1>7 DEF SendInv, SendTypeOK, Reviewed

LEMMA FailsKeeps ==
  ASSUME SendInv, SendFails
  PROVE  SendInv'
<1>1. /\ sends' \in Seq(Wish) /\ \A i \in DOMAIN sends' : sends'[i].keys \subseteq sends'[i].shown
      /\ UNCHANGED <<person, unsubscribed, batches, news>>
  BY TailKeeps DEF SendFails
<1>2. sendDialog' = sendDialog \/ (sendDialog # None /\ sendDialog' = [sendDialog EXCEPT !.waits = FALSE])
  BY DEF SendFails
<1>3. /\ sendDialog' = None \/ sendDialog' \in ReviewDialog
      /\ sendDialog' # None => sendDialog # None /\ sendDialog'.confirm = sendDialog.confirm
  BY <1>2 DEF SendInv, SendTypeOK, ReviewDialog
<1> QED BY <1>1, <1>3 DEF SendInv, SendTypeOK, Reviewed

(* A batch becomes another, reviewed like it.                                *)
LEMMA BatchKeeps ==
  ASSUME SendInv, NEW i \in DOMAIN batches, NEW b \in Batch, Reviewed(b),
         batches' = [batches EXCEPT ![i] = b],
         UNCHANGED <<person, unsubscribed, sendDialog, sends, news>>
  PROVE  SendInv'
<1>1. batches \in Seq(Batch) /\ \A j \in DOMAIN batches : Reviewed(batches[j])
  BY DEF SendInv
<1>2. batches' \in Seq(Batch) /\ DOMAIN batches' = DOMAIN batches
      /\ \A j \in DOMAIN batches : batches'[j] = IF j = i THEN b ELSE batches[j]
  BY <1>1, ExceptSeq
<1>3. \A j \in DOMAIN batches' : batches'[j] \in Batch /\ Reviewed(batches'[j])
  BY <1>1, <1>2
<1>4. \A j \in DOMAIN batches' : Reviewed(batches[j])'
  BY <1>3 DEF Reviewed
<1> QED BY <1>2, <1>3, <1>4 DEF SendInv, SendTypeOK

LEMMA ExpandReadsKeeps ==
  ASSUME SendAssumption, SendInv, NEW i \in DOMAIN batches, ExpandReads(i)
  PROVE  SendInv'
<1> DEFINE passed == IF batches[i].skip THEN Sent(i) ELSE {}
           found == Resolve(batches[i].keys) \ passed
           to == [k \in Keys |-> IF k \in found THEN person[k].address ELSE None]
           b == [batches[i] EXCEPT !.at = "expanding", !.to = to]
<1>1. batches[i] \in Batch /\ Reviewed(batches[i]) /\ SendTypeOK
  BY DEF SendInv, SendTypeOK
<1>2. /\ found \subseteq batches[i].keys
      /\ \A k \in found : person[k].address \in Addresses
      /\ \A j, k \in found : person[j].address = person[k].address => j = k
  <2>1. batches[i].keys \in SUBSET Keys
    BY <1>1 DEF Batch
  <2> QED BY <1>1, <2>1, ResolveOneEach
<1>3. batches' = [batches EXCEPT ![i] = b] /\ UNCHANGED <<person, unsubscribed, sendDialog, sends, news>>
  BY DEF ExpandReads
<1>4. batches[i].at = "scheduled" /\ \A k \in Keys : batches[i].copy[k] = None
  BY <1>1 DEF ExpandReads, Reviewed
<1>5. to \in [Keys -> Addresses \cup {None}]
  BY <1>2
<1>6. /\ \A k \in Keys : to[k] = IF k \in found THEN person[k].address ELSE None
      /\ None \notin Addresses
  BY DEF SendAssumption
<1> HIDE DEF to, found
<1>7. b \in Batch /\ b.keys = batches[i].keys /\ b.shown = batches[i].shown
      /\ b.to = to /\ b.copy = batches[i].copy
  BY <1>1, <1>5 DEF Batch
<1> HIDE DEF b
<1>8. Reviewed(b)
  <2>1. \A k \in Keys : b.to[k] # None => k \in b.keys
    BY <1>2, <1>6, <1>7
  <2>2. \A j, k \in Keys : b.to[k] # None /\ b.to[j] = b.to[k] => j = k
    BY <1>2, <1>6, <1>7
  <2> QED BY <1>1, <1>4, <1>7, <2>1, <2>2 DEF Reviewed
<1> QED BY <1>3, <1>7, <1>8, BatchKeeps

LEMMA ExpandWritesKeeps ==
  ASSUME SendAssumption, SendInv, NEW i \in DOMAIN batches, ExpandWrites(i)
  PROVE  SendInv'
<1> DEFINE copy == [k \in Keys |-> IF batches[i].to[k] = None THEN None ELSE "waiting"]
           b == [batches[i] EXCEPT !.at = "sending", !.copy = copy]
<1>1. batches[i] \in Batch /\ Reviewed(batches[i])
  BY DEF SendInv, SendTypeOK
<1>2. /\ batches' = [batches EXCEPT ![i] = b]
      /\ UNCHANGED <<person, unsubscribed, sendDialog, sends, news>>
  BY DEF ExpandWrites
<1>3. copy \in [Keys -> {None, "waiting", "sent"}]
      /\ \A k \in Keys : copy[k] # None => batches[i].to[k] # None
  OBVIOUS
<1> HIDE DEF copy
<1>4. b \in Batch /\ b.keys = batches[i].keys /\ b.shown = batches[i].shown
      /\ b.to = batches[i].to /\ b.copy = copy /\ b.at = "sending"
  BY <1>1, <1>3 DEF Batch
<1> HIDE DEF b
<1>5. Reviewed(b)
  BY <1>1, <1>3, <1>4 DEF Reviewed
<1> QED BY <1>2, <1>4, <1>5, BatchKeeps

LEMMA CopySentKeeps ==
  ASSUME SendAssumption, SendInv, NEW i \in DOMAIN batches, NEW k \in Keys, CopySent(i, k)
  PROVE  SendInv'
<1> DEFINE copy == [batches[i].copy EXCEPT ![k] = "sent"]
           b == [batches[i] EXCEPT !.copy = copy]
<1>1. batches[i] \in Batch /\ Reviewed(batches[i])
  BY DEF SendInv, SendTypeOK
<1>2. batches[i].copy \in [Keys -> {None, "waiting", "sent"}] /\ batches[i].copy[k] = "waiting"
  BY <1>1 DEF CopySent, Batch
<1>3. /\ batches' = [batches EXCEPT ![i] = b]
      /\ UNCHANGED <<person, unsubscribed, sendDialog, sends, news>>
  BY DEF CopySent
<1>4. copy \in [Keys -> {None, "waiting", "sent"}]
      /\ \A j \in Keys : j # k => copy[j] = batches[i].copy[j]
  BY <1>2
<1> HIDE DEF copy
<1>5. b \in Batch /\ b.keys = batches[i].keys /\ b.shown = batches[i].shown
      /\ b.to = batches[i].to /\ b.copy = copy /\ b.at = batches[i].at
  BY <1>1, <1>4 DEF Batch
<1> HIDE DEF b
<1>6. batches[i].copy[k] # None
  BY <1>2 DEF SendAssumption
<1>7. batches[i].at \notin {"scheduled", "expanding"} /\ batches[i].to[k] # None
  BY <1>1, <1>6 DEF Reviewed
<1>8. \A j \in Keys : b.copy[j] # None => b.to[j] # None
  BY <1>1, <1>4, <1>5, <1>7 DEF Reviewed
<1>9. Reviewed(b)
  BY <1>1, <1>5, <1>7, <1>8 DEF Reviewed
<1> QED BY <1>3, <1>5, <1>9, BatchKeeps

(* Others change people and subscriptions only.                              *)
LEMMA OtherSendsKeep ==
  ASSUME SendInv,
         \/ \E k \in Keys : PersonChanges(k)
         \/ \E a \in Addresses : Unsubscribe(a)
  PROVE  SendInv'
<1>1. /\ UNCHANGED <<sendDialog, sends, batches>> /\ news' = news + 1 /\ news < MaxNews
      /\ person' \in [Keys -> [here : BOOLEAN, address : Addresses, wanted : BOOLEAN]]
      /\ unsubscribed' \subseteq Addresses
  BY DEF SendInv, SendTypeOK, PersonChanges, Unsubscribe, Happens
<1>2. news' \in 0..MaxNews
  BY <1>1, SendAssumption DEF SendInv, SendTypeOK, SendAssumption
<1> QED BY <1>1, <1>2 DEF SendInv, SendTypeOK, Reviewed

-----------------------------------------------------------------------------
LEMMA SendKept == SendInv /\ [SendNext]_sendVars => SendInv'
<1> SUFFICES ASSUME SendInv, [SendNext]_sendVars PROVE SendInv'
  OBVIOUS
<1>1. CASE \/ OpenDialog \/ CloseDialog \/ DefaultsCome \/ SetSkip \/ FoundCome \/ Add \/ Replace
           \/ Press \/ Back
           \/ \E some \in SUBSET Keys, on \in BOOLEAN : Check(some, on)
  BY <1>1, SendAssumption, DialogSteps, DialogKeeps
<1>2. CASE Confirm
  BY <1>2, ConfirmKeeps
<1>3. CASE SendArrives
  BY <1>3, ArrivesKeeps
<1>4. CASE SendFails
  BY <1>4, FailsKeeps
<1>5. ASSUME NEW i \in DOMAIN batches,
             \/ ExpandReads(i) \/ ExpandWrites(i) \/ \E k \in Keys : CopySent(i, k)
      PROVE  SendInv'
  BY <1>5, SendAssumption, ExpandReadsKeeps, ExpandWritesKeeps, CopySentKeeps
<1>6. CASE (\E k \in Keys : PersonChanges(k)) \/ (\E a \in Addresses : Unsubscribe(a))
  BY <1>6, OtherSendsKeep
<1>7. CASE UNCHANGED sendVars
  BY <1>7 DEF sendVars, SendInv, SendTypeOK, Reviewed
<1> QED BY <1>1, <1>2, <1>3, <1>4, <1>5, <1>6, <1>7 DEF SendNext

LEMMA SendAlways == SendSpec => []SendInv
<1>1. SendInit => SendInv
  BY SendAssumption, SendStarts
<1> QED BY <1>1, SendKept, PTL DEF SendSpec

(* Every state of a group email's dialog, requests and batches is of the     *)
(* types the module states.                                                 *)
THEOREM SendTypeCorrect == SendSpec => []SendTypeOK
<1>1. SendInv => SendTypeOK
  BY DEF SendInv
<1> QED BY <1>1, SendAlways, PTL

(* Whatever answers come between the list, the confirmation and the sending, *)
(* and whoever moves or unsubscribes meanwhile, a copy goes only to someone  *)
(* listed and checked as Send was pressed, and one to an address             *)
(* (SendDialog.tsx, bulk.py).                                               *)
THEOREM ReviewedOnly == SendSpec => []OnlyReviewedOnce
<1>1. SendInv => OnlyReviewedOnce
  <2> SUFFICES ASSUME SendInv PROVE OnlyReviewedOnce
    OBVIOUS
  <2>1. \A i \in DOMAIN batches : Reviewed(batches[i])
    BY DEF SendInv
  <2> QED BY <2>1 DEF OnlyReviewedOnce, OnlyReviewed, OneEach, Copies, Reviewed
<1> QED BY <1>1, SendAlways, PTL
=============================================================================
