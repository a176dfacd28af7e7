----------------------------- MODULE OutboxProofs -----------------------------
(***************************************************************************)
(* Proofs about Outbox, for every set of messages and workers, every limit, *)
(* chunk and number of attempts, and every bound.                          *)
(***************************************************************************)
EXTENDS Outbox, FiniteSetTheorems, TLAPS

(* A worker's state names a message and a task unless it is idle.           *)
Busy(state) == state.pc # "idle" => state.task # NoMessage /\ state.msg # NoMessage

WorkersTyped ==
  /\ worker \in [Workers -> WorkerType]
  /\ \A w \in Workers : Busy(worker[w])

(* A row keeps its type whatever an action sets in it.                      *)
LEMMA RowType ==
  ASSUME TypeOK, NEW m \in Messages
  PROVE  /\ message[m] \in MessageType
         /\ message[m].status \in {"none", "queued", "sending", "sent", "failed", "cancelled"}
         /\ message[m].due \in {"later", "now", "overdue"}
         /\ message[m].attempts \in Nat
         /\ message[m].lease \in {"none", "held", "expired"}
         /\ message[m].sent \in {"no", "recent", "old"}
<1>1. message[m] \in MessageType
  BY DEF TypeOK
<1> QED BY <1>1 DEF MessageType

(* A worker's step to a typed state keeps every worker's type.              *)
LEMMA WorkerStepType ==
  ASSUME TypeOK, NEW w \in Workers, NEW state \in WorkerType, Busy(state), Becomes(w, state)
  PROVE  WorkersTyped'
BY DEF TypeOK, Becomes, Busy, WorkersTyped

(* What a worker is at, and that it may go on from there.                   *)
LEMMA WorkerState ==
  ASSUME TypeOK, NEW w \in Workers
  PROVE  /\ worker[w] \in WorkerType
         /\ worker[w].task \in Messages \union {NoMessage}
         /\ worker[w].msg \in Messages \union {NoMessage}
         /\ worker[w].tries \in Nat /\ worker[w].count \in Nat
         /\ worker[w].outcome \in {"none", "accepted", "temporary", "permanent"}
         /\ worker[w].pc # "idle" =>
              /\ worker[w].task \in Messages /\ worker[w].msg \in Messages
              /\ worker[w].task # NoMessage /\ worker[w].msg # NoMessage
<1>1. worker[w] \in WorkerType
  BY DEF TypeOK
<1> QED BY <1>1 DEF WorkerType, TypeOK

LEMMA IdleType == Idle \in WorkerType /\ Busy(Idle)
BY DEF Idle, WorkerType, Busy

LEMMA GoToType ==
  ASSUME TypeOK, NEW w \in Workers, ~At(w, "idle"),
         NEW pc \in {"idle", "claim", "open", "send", "record", "wake", "more"}, GoTo(w, pc)
  PROVE  WorkersTyped'
<1> DEFINE state == [worker[w] EXCEPT !.pc = pc]
<1>1. state \in WorkerType
  BY WorkerState DEF WorkerType
<1>2. Busy(state)
  BY WorkerState DEF Busy, At, WorkerType, TypeOK
<1>3. Becomes(w, state)
  BY DEF GoTo
<1> HIDE DEF state
<1> QED BY <1>1, <1>2, <1>3, WorkerStepType

LEMMA ReturnsType ==
  ASSUME TypeOK, NEW w \in Workers, Returns(w)
  PROVE  WorkersTyped'
BY IdleType, WorkerStepType DEF Returns

(* A row set by an action to one of its type leaves the rows typed.         *)
LEMMA MessageStepType ==
  ASSUME TypeOK, NEW m \in Messages, NEW row \in MessageType,
         message' = [message EXCEPT ![m] = row]
  PROVE  message' \in [Messages -> MessageType]
BY DEF TypeOK

LEMMA WakeType ==
  ASSUME TypeOK, NEW m \in Messages, NEW when \in {"ready", "deferred"}, Wake(m, when)
  PROVE  tasks' \in [Messages -> SUBSET {"ready", "deferred"}]
BY DEF TypeOK, Wake

LEMMA WakeUnlessKilledType ==
  ASSUME TypeOK, NEW m \in Messages, WakeUnlessKilled(m)
  PROVE  tasks' \in [Messages -> SUBSET {"ready", "deferred"}] /\ crashes' \in Nat
BY WakeType DEF TypeOK, WakeUnlessKilled

(* Every step of a delivery keeps the types.                                *)
LEMMA DeliverType ==
  ASSUME TypeOK, NEW w \in Workers, Deliver(w)
  PROVE  TypeOK'
<1> DEFINE m == worker[w].msg
<1>1. ~At(w, "idle") => m \in Messages /\ worker[w].task \in Messages
  BY WorkerState DEF At
<1>2. CASE Claim(w)
  <2>1. At(w, "claim") /\ m \in Messages
    BY <1>1, <1>2 DEF Claim, At
  <2>2. CASE /\ Throttled /\ Queued(m)
             /\ message' = [message EXCEPT ![m].due = "later"]
             /\ Wake(m, "deferred") /\ Returns(w)
    <3>1. [message[m] EXCEPT !.due = "later"] \in MessageType
      BY <2>1, RowType DEF MessageType
    <3>2. message' \in [Messages -> MessageType]
      BY <2>1, <2>2, <3>1, MessageStepType
    <3>3. WorkersTyped'
      BY <2>2, ReturnsType
    <3>4. tasks' \in [Messages -> SUBSET {"ready", "deferred"}]
      BY <2>1, <2>2, WakeType
    <3>5. UNCHANGED <<stuck, accepted, onWire, crashes, edits>>
      BY <1>2 DEF Claim, AtWork
    <3> QED BY <3>2, <3>3, <3>4, <3>5 DEF TypeOK, WorkersTyped, Busy
  <2>3. CASE /\ ~Throttled /\ Claimable(m)
             /\ message' = [message EXCEPT ![m].status = "sending", ![m].lease = "held"]
             /\ Becomes(w, [worker[w] EXCEPT
                  !.pc = IF worker[w].count = 0 THEN "open" ELSE "send",
                  !.tries = message[m].attempts])
             /\ UNCHANGED tasks
    <3>1. [message[m] EXCEPT !.status = "sending", !.lease = "held"] \in MessageType
      BY <2>1, RowType DEF MessageType
    <3>2. message' \in [Messages -> MessageType]
      <4>1. message' = [message EXCEPT ![m] =
                          [message[m] EXCEPT !.status = "sending", !.lease = "held"]]
        BY <2>1, <2>3
      <4> QED BY <2>1, <3>1, <4>1, MessageStepType
    <3> DEFINE state == [worker[w] EXCEPT
                           !.pc = IF worker[w].count = 0 THEN "open" ELSE "send",
                           !.tries = message[m].attempts]
    <3>3. state \in WorkerType /\ Busy(state)
      <4>1. worker[w] \in WorkerType /\ message[m].attempts \in Nat
        BY <2>1, RowType, WorkerState
      <4>2. worker[w].task # NoMessage /\ m # NoMessage
        BY <2>1, WorkerState DEF At
      <4>3. (IF worker[w].count = 0 THEN "open" ELSE "send")
              \in {"idle", "claim", "open", "send", "record", "wake", "more"}
        OBVIOUS
      <4> HIDE DEF m
      <4>4. state \in WorkerType
        BY <4>1, <4>3 DEF WorkerType
      <4>5. Busy(state)
        BY <4>1, <4>2 DEF WorkerType, Busy, m
      <4> QED BY <4>4, <4>5
    <3>4. Becomes(w, state)
      BY <2>3
    <3> HIDE DEF state
    <3>5. WorkersTyped'
      BY <3>3, <3>4, WorkerStepType
    <3>6. UNCHANGED <<tasks, stuck, accepted, onWire, crashes, edits>>
      BY <1>2, <2>3 DEF Claim, AtWork
    <3> QED BY <3>2, <3>5, <3>6 DEF TypeOK, WorkersTyped, Busy
  <2>4. CASE Skips(w) /\ UNCHANGED <<message, tasks>>
    <3>1. WorkersTyped'
      BY <2>1, <2>4, ReturnsType, GoToType DEF Skips, At
    <3>2. UNCHANGED <<message, tasks, stuck, accepted, onWire, crashes, edits>>
      BY <1>2, <2>4 DEF Claim, AtWork
    <3> QED BY <3>1, <3>2 DEF TypeOK, WorkersTyped, Busy
  <2> QED BY <1>2, <2>2, <2>3, <2>4 DEF Claim, AtWork
<1>3. CASE Open(w)
  <2>1. ~At(w, "idle")
    BY <1>3 DEF Open, At
  <2>2. CASE GoTo(w, "send")
    <3>1. WorkersTyped'
      BY <2>1, <2>2, GoToType
    <3> QED BY <1>3, <3>1 DEF Open, TypeOK, WorkersTyped, Busy
  <2>3. ASSUME NEW outcome \in {"temporary", "permanent"},
               Becomes(w, [worker[w] EXCEPT !.pc = "record", !.outcome = outcome])
        PROVE  TypeOK'
    <3> DEFINE state == [worker[w] EXCEPT !.pc = "record", !.outcome = outcome]
    <3>1. state \in WorkerType /\ Busy(state)
      <4>1. worker[w] \in WorkerType /\ worker[w].task # NoMessage /\ m # NoMessage
        BY <2>1, WorkerState DEF At
      <4> QED BY <4>1 DEF WorkerType, Busy
    <3>2. Becomes(w, state)
      BY <2>3
    <3> HIDE DEF state
    <3>3. WorkersTyped'
      BY <3>1, <3>2, WorkerStepType
    <3> QED BY <1>3, <3>3 DEF Open, TypeOK, WorkersTyped, Busy
  <2> QED BY <1>3, <2>2, <2>3 DEF Open
<1>4. CASE Send(w)
  <2>1. ~At(w, "idle") /\ m \in Messages
    BY <1>1, <1>4 DEF Send, At
  <2>2. PICK outcome \in SendOutcomes :
           /\ Becomes(w, [worker[w] EXCEPT !.pc = "record",
                !.outcome = IF outcome = "lost" THEN "temporary" ELSE outcome])
           /\ IF outcome \in {"accepted", "lost"}
                THEN /\ accepted' = [accepted EXCEPT ![m] = @ + 1]
                     /\ onWire' = onWire \union {m}
                ELSE UNCHANGED <<accepted, onWire>>
    BY <1>4 DEF Send
  <2> DEFINE state == [worker[w] EXCEPT !.pc = "record",
                         !.outcome = IF outcome = "lost" THEN "temporary" ELSE outcome]
  <2>3. state \in WorkerType /\ Busy(state)
    <3>1. worker[w] \in WorkerType /\ worker[w].task # NoMessage /\ m # NoMessage
      BY <2>1, WorkerState DEF At
    <3>2. (IF outcome = "lost" THEN "temporary" ELSE outcome)
             \in {"none", "accepted", "temporary", "permanent"}
      BY OutcomeAssumption
    <3> QED BY <3>1, <3>2 DEF WorkerType, Busy
  <2>4. Becomes(w, state)
    BY <2>2
  <2>5. accepted' \in [Messages -> Nat] /\ onWire' \subseteq Messages
    BY <2>1, <2>2 DEF TypeOK
  <2> HIDE DEF state
  <2>6. WorkersTyped'
    BY <2>3, <2>4, WorkerStepType
  <2>7. UNCHANGED <<message, tasks, stuck, crashes, edits>>
    BY <1>4 DEF Send
  <2> QED BY <2>5, <2>6, <2>7 DEF TypeOK, WorkersTyped, Busy
<1>5. CASE RecordSent(w)
  <2>1. ~At(w, "idle") /\ m \in Messages
    BY <1>1, <1>5 DEF RecordSent, At
  <2> DEFINE row == [message[m] EXCEPT !.status = "sent", !.sent = "recent",
                       !.lease = "none", !.attempts = worker[w].tries + 1]
  <2>2. row \in MessageType
    <3>1. message[m] \in MessageType /\ worker[w].tries + 1 \in Nat
      BY <2>1, RowType, WorkerState
    <3> HIDE DEF m
    <3> QED BY <3>1 DEF MessageType
  <2>3. message' = [message EXCEPT ![m] = row]
    BY <1>5, <2>1 DEF RecordSent
  <2> HIDE DEF row
  <2>4. message' \in [Messages -> MessageType]
    BY <2>1, <2>2, <2>3, MessageStepType
  <2>5. WorkersTyped'
    BY <1>5, <2>1, GoToType DEF RecordSent
  <2>6. UNCHANGED <<tasks, stuck, accepted, onWire, crashes, edits>>
    BY <1>5 DEF RecordSent
  <2> QED BY <2>4, <2>5, <2>6 DEF TypeOK, WorkersTyped, Busy
<1>6. CASE RecordFailure(w)
  <2>1. ~At(w, "idle") /\ m \in Messages
    BY <1>1, <1>6 DEF RecordFailure, At
  <2> DEFINE again == worker[w].outcome = "temporary" /\ worker[w].tries + 1 < MaxAttempts
             row == [message[m] EXCEPT !.attempts = worker[w].tries + 1, !.lease = "none",
                       !.status = IF again THEN "queued" ELSE "failed",
                       !.due = IF again THEN "later" ELSE message[m].due]
  <2>2. row \in MessageType
    <3>1. message[m] \in MessageType /\ worker[w].tries + 1 \in Nat
      BY <2>1, RowType, WorkerState
    <3> HIDE DEF m, again
    <3>2. message[m].due \in {"later", "now", "overdue"}
      BY <3>1 DEF MessageType
    <3> QED BY <3>1, <3>2 DEF MessageType
  <2>3. message' = [message EXCEPT ![m] = row]
    BY <1>6, <2>1 DEF RecordFailure
  <2> HIDE DEF row
  <2>4. message' \in [Messages -> MessageType]
    BY <2>1, <2>2, <2>3, MessageStepType
  <2>5. WorkersTyped'
    BY <1>6, <2>1, GoToType, ReturnsType DEF RecordFailure
  <2>6. UNCHANGED <<tasks, stuck, accepted, onWire, crashes, edits>>
    BY <1>6 DEF RecordFailure
  <2> QED BY <2>4, <2>5, <2>6 DEF TypeOK, WorkersTyped, Busy
<1>7. CASE RecordWake(w)
  <2>1. m \in Messages
    BY <1>1, <1>7 DEF RecordWake, At
  <2>2. WorkersTyped'
    BY <1>7, ReturnsType DEF RecordWake
  <2>3. tasks' \in [Messages -> SUBSET {"ready", "deferred"}]
    BY <1>7, <2>1, WakeType DEF RecordWake
  <2>4. UNCHANGED <<message, stuck, accepted, onWire, crashes, edits>>
    BY <1>7 DEF RecordWake
  <2> QED BY <2>2, <2>3, <2>4 DEF TypeOK, WorkersTyped, Busy
<1>8. CASE More(w)
  <2>1. ~At(w, "idle")
    BY <1>8 DEF More, At
  <2>2. ASSUME NEW n \in Messages,
               Becomes(w, [worker[w] EXCEPT !.pc = "claim", !.msg = n, !.count = @ + 1])
        PROVE  TypeOK'
    <3> DEFINE state == [worker[w] EXCEPT !.pc = "claim", !.msg = n,
                                          !.count = worker[w].count + 1]
    <3>1. state \in WorkerType /\ Busy(state)
      <4>1. worker[w] \in WorkerType /\ worker[w].task # NoMessage
        BY <2>1, WorkerState DEF At
      <4>2. n # NoMessage /\ worker[w].count + 1 \in Nat
        BY WorkerState, MessageAssumption
      <4> QED BY <4>1, <4>2 DEF WorkerType, Busy
    <3>2. Becomes(w, state)
      BY <2>2
    <3> HIDE DEF state
    <3>3. WorkersTyped'
      BY <3>1, <3>2, WorkerStepType
    <3> QED BY <1>8, <3>3 DEF More, TypeOK, WorkersTyped, Busy
  <2>3. CASE Returns(w)
    <3>1. WorkersTyped'
      BY <2>3, ReturnsType
    <3> QED BY <1>8, <3>1 DEF More, TypeOK, WorkersTyped, Busy
  <2> QED BY <1>8, <2>2, <2>3 DEF More
<1> QED BY <1>2, <1>3, <1>4, <1>5, <1>6, <1>7, <1>8 DEF Deliver

(* And so does every other step.                                            *)
LEMMA RowStepType ==
  ASSUME TypeOK, NEW m \in Messages, NEW row \in MessageType,
         message' = [message EXCEPT ![m] = row],
         tasks' \in [Messages -> SUBSET {"ready", "deferred"}],
         stuck' \subseteq Messages, onWire' \subseteq Messages,
         crashes' \in Nat, edits' \in Nat, UNCHANGED <<worker, accepted>>
  PROVE  TypeOK'
<1>1. message' \in [Messages -> MessageType]
  BY MessageStepType
<1> QED BY <1>1 DEF TypeOK

LEMMA StartType ==
  ASSUME TypeOK, NEW w \in Workers, NEW m \in Messages, Start(w, m)
  PROVE  TypeOK'
<1>1. tasks' \in [Messages -> SUBSET {"ready", "deferred"}]
  BY DEF Start, TypeOK
<1>2. WorkersTyped'
  <2>1. CASE Due(m)
    <3> DEFINE state == [Idle EXCEPT !.pc = "claim", !.task = m, !.msg = m]
    <3>1. state \in WorkerType /\ Busy(state)
      BY MessageAssumption DEF Idle, WorkerType, Busy
    <3>2. Becomes(w, state)
      BY <2>1 DEF Start
    <3> HIDE DEF state
    <3> QED BY <3>1, <3>2, WorkerStepType
  <2>2. CASE ~Due(m)
    BY <2>2 DEF Start, TypeOK, WorkersTyped, Busy
  <2> QED BY <2>1, <2>2
<1>3. UNCHANGED <<message, stuck, accepted, onWire, crashes, edits>>
  BY DEF Start
<1> QED BY <1>1, <1>2, <1>3 DEF TypeOK, WorkersTyped, Busy

LEMMA CrashType ==
  ASSUME TypeOK, NEW w \in Workers, Crash(w)
  PROVE  TypeOK'
<1>1. WorkersTyped'
  BY ReturnsType DEF Crash
<1>2. stuck' \subseteq Messages /\ crashes' \in Nat
  BY WorkerState DEF Crash, At, TypeOK
<1>3. UNCHANGED <<message, tasks, accepted, onWire, edits>>
  BY DEF Crash
<1> QED BY <1>1, <1>2, <1>3 DEF TypeOK, WorkersTyped, Busy

LEMMA MessageStepsType ==
  ASSUME TypeOK, NEW m \in Messages, Enqueue(m) \/ Reconciler(m) \/ Organizer(m) \/ Time(m)
  PROVE  TypeOK'
<1>1. message[m] \in MessageType
  BY RowType
<1>2. /\ stuck \subseteq Messages /\ onWire \subseteq Messages
      /\ tasks \in [Messages -> SUBSET {"ready", "deferred"}]
      /\ crashes \in Nat /\ edits \in Nat
  BY DEF TypeOK
<1>3. CASE Enqueue(m)
  <2>1. PICK status \in {"failed", "cancelled", "queued"} :
           message' = [message EXCEPT ![m].status = status]
    BY <1>3 DEF Enqueue
  <2> DEFINE row == [message[m] EXCEPT !.status = status]
  <2>2. row \in MessageType
    BY <1>1 DEF MessageType
  <2>3. message' = [message EXCEPT ![m] = row]
    BY <2>1
  <2>4. tasks' \in [Messages -> SUBSET {"ready", "deferred"}]
    BY <1>2, <1>3, WakeType DEF Enqueue
  <2> HIDE DEF row
  <2> QED BY <1>2, <1>3, <2>2, <2>3, <2>4, RowStepType DEF Enqueue
<1>4. CASE RecoverExpired(m)
  <2> DEFINE tries == message[m].attempts + 1
             again == tries < MaxAttempts
             row == [message[m] EXCEPT !.attempts = tries, !.lease = "none",
                       !.status = IF again THEN "queued" ELSE "failed",
                       !.due = IF again THEN "now" ELSE message[m].due]
  <2>1. row \in MessageType
    <3> HIDE DEF again
    <3>1. tries \in Nat /\ message[m].due \in {"later", "now", "overdue"}
      BY RowType
    <3> HIDE DEF tries
    <3> QED BY <1>1, <3>1 DEF MessageType
  <2>2. message' = [message EXCEPT ![m] = row]
    BY <1>4 DEF RecoverExpired
  <2>3. tasks' \in [Messages -> SUBSET {"ready", "deferred"}] /\ crashes' \in Nat
    BY <1>2, <1>4, WakeUnlessKilledType DEF RecoverExpired
  <2> HIDE DEF row
  <2>4. UNCHANGED <<stuck, worker, accepted, onWire, edits>>
    BY <1>4 DEF RecoverExpired
  <2> QED BY <1>2, <2>1, <2>2, <2>3, <2>4, RowStepType
<1>5. CASE RecoverOverdue(m)
  BY <1>2, <1>5, WakeType DEF RecoverOverdue, TypeOK
<1>6. CASE Abandon(m)
  BY <1>6 DEF Abandon, TypeOK
<1>7. CASE Retry(m)
  <2> DEFINE row == [message[m] EXCEPT !.status = "queued", !.due = "now", !.lease = "none"]
  <2>1. row \in MessageType
    BY <1>1 DEF MessageType
  <2>2. message' = [message EXCEPT ![m] = row]
    BY <1>7 DEF Retry
  <2>3. tasks' \in [Messages -> SUBSET {"ready", "deferred"}] /\ crashes' \in Nat
    BY <1>7, WakeUnlessKilledType DEF Retry
  <2>4. edits' \in Nat /\ UNCHANGED <<stuck, worker, accepted, onWire>>
    BY <1>2, <1>7 DEF Retry
  <2> HIDE DEF row
  <2> QED BY <1>2, <2>1, <2>2, <2>3, <2>4, RowStepType
<1>8. CASE Cancel(m)
  <2> DEFINE row == [message[m] EXCEPT !.status = "cancelled"]
  <2>1. row \in MessageType
    BY <1>1 DEF MessageType
  <2>2. message' = [message EXCEPT ![m] = row]
    BY <1>8 DEF Cancel
  <2>3. edits' \in Nat /\ UNCHANGED <<tasks, stuck, worker, accepted, onWire, crashes>>
    BY <1>2, <1>8 DEF Cancel
  <2> HIDE DEF row
  <2> QED BY <1>2, <2>1, <2>2, <2>3, RowStepType
<1>9. CASE Time(m)
  <2>1. PICK row \in MessageType :
          /\ Tick(m, row)
          /\ tasks' \in [Messages -> SUBSET {"ready", "deferred"}]
          /\ onWire' \subseteq Messages
    <3>1. CASE BecomesDue(m)
      <4> DEFINE row == [message[m] EXCEPT !.due =
                           IF message[m].due = "later" THEN "now" ELSE message[m].due]
      <4>1. message[m].due \in {"later", "now", "overdue"}
        BY RowType
      <4>2. row \in MessageType
        BY <1>1, <4>1 DEF MessageType
      <4>3. Tick(m, row)
        BY <3>1 DEF BecomesDue
      <4>4. tasks' \in [Messages -> SUBSET {"ready", "deferred"}] /\ onWire' \subseteq Messages
        BY <1>2, <3>1 DEF BecomesDue
      <4> QED BY <4>2, <4>3, <4>4
    <3>2. CASE TwoMinutesPass(m)
      <4>1. [message[m] EXCEPT !.due = "overdue"] \in MessageType
        BY <1>1 DEF MessageType
      <4> QED BY <1>2, <3>2, <4>1 DEF TwoMinutesPass
    <3>3. CASE LeaseEnds(m)
      <4>1. [message[m] EXCEPT !.lease = "expired"] \in MessageType
        BY <1>1 DEF MessageType
      <4> QED BY <1>2, <3>3, <4>1 DEF LeaseEnds
    <3>4. CASE WindowPasses(m)
      <4>1. [message[m] EXCEPT !.sent = "old"] \in MessageType
        BY <1>1 DEF MessageType
      <4> QED BY <1>1, <1>2, <3>4, <4>1 DEF WindowPasses
    <3> QED BY <1>9, <3>1, <3>2, <3>3, <3>4 DEF Time
  <2> QED BY <1>2, <2>1, RowStepType DEF Tick
<1> QED BY <1>3, <1>4, <1>5, <1>6, <1>7, <1>8, <1>9 DEF Reconciler, Organizer

LEMMA InitType == Init => TypeOK
BY IdleType DEF Init, TypeOK, NewMessage, MessageType, Idle

LEMMA NextType == TypeOK /\ [Next]_vars => TypeOK'
<1> SUFFICES ASSUME TypeOK, [Next]_vars PROVE TypeOK'
  OBVIOUS
<1>1. ASSUME NEW w \in Workers, Worker(w) PROVE TypeOK'
  BY <1>1, DeliverType, StartType, CrashType DEF Worker
<1>2. ASSUME NEW m \in Messages, Enqueue(m) \/ Reconciler(m) \/ Organizer(m) \/ Time(m)
      PROVE  TypeOK'
  BY <1>2, MessageStepsType
<1>3. CASE UNCHANGED vars
  BY <1>3 DEF vars, TypeOK
<1> QED BY <1>1, <1>2, <1>3 DEF Next

(* Every state of the outbox is of the types the module states.             *)
THEOREM TypeCorrect == Spec => []TypeOK
BY InitType, NextType, PTL DEF Spec

-----------------------------------------------------------------------------
(* Who holds a message.                                                     *)

(* What a worker is sending is marked so, under a lease that still runs.    *)
HoldersSending ==
  \A w \in Workers, m \in Messages :
    Holds(w, m) => message[m].status = "sending" /\ message[m].lease = "held"

HoldInv == TypeOK /\ HoldersSending /\ OneHolder

(* A step in which nobody comes to hold a message, and which leaves as it   *)
(* was the row of every message somebody still holds.                       *)
LEMMA HoldersKept ==
  ASSUME HoldInv,
         \A v \in Workers, n \in Messages :
           Holds(v, n)' => /\ Holds(v, n)
                           /\ message'[n].status = message[n].status
                           /\ message'[n].lease = message[n].lease
  PROVE  HoldersSending' /\ OneHolder'
<1>1. HoldersSending'
  BY DEF HoldInv, HoldersSending
<1>2. OneHolder'
  BY DEF HoldInv, OneHolder
<1> QED BY <1>1, <1>2

(* When one worker moves, the others hold what they held.                   *)
LEMMA OthersHold ==
  ASSUME TypeOK, NEW w \in Workers, NEW state, Becomes(w, state),
         NEW v \in Workers, NEW m \in Messages
  PROVE  /\ v # w => (Holds(v, m)' <=> Holds(v, m))
         /\ Holds(w, m)' <=> state.msg = m /\ state.pc \in {"open", "send", "record"}
BY DEF TypeOK, Becomes, Holds

LEMMA ReturnsHold ==
  ASSUME TypeOK, NEW w \in Workers, Returns(w), NEW v \in Workers, NEW m \in Messages
  PROVE  Holds(v, m)' => v # w /\ Holds(v, m)
<1>1. Becomes(w, Idle)
  BY DEF Returns
<1> QED BY <1>1, OthersHold DEF Idle

LEMMA GoToHold ==
  ASSUME TypeOK, NEW w \in Workers, NEW pc, GoTo(w, pc),
         NEW v \in Workers, NEW m \in Messages
  PROVE  /\ v # w => (Holds(v, m)' <=> Holds(v, m))
         /\ Holds(w, m)' <=> worker[w].msg = m /\ pc \in {"open", "send", "record"}
<1> DEFINE state == [worker[w] EXCEPT !.pc = pc]
<1>1. Becomes(w, state)
  BY DEF GoTo
<1>2. state.msg = worker[w].msg /\ state.pc = pc
  BY WorkerState DEF WorkerType
<1> HIDE DEF state
<1> QED BY <1>1, <1>2, OthersHold

(* A delivery claims what nobody holds, keeps what it holds while it sends, *)
(* and lets go of it as it records the outcome.                             *)
LEMMA DeliverHold ==
  ASSUME HoldInv, NEW w \in Workers, Deliver(w)
  PROVE  HoldersSending' /\ OneHolder'
<1> USE DEF HoldInv
<1> DEFINE m == worker[w].msg
<1>1. ~At(w, "idle") => m \in Messages
  BY WorkerState DEF At
<1>2. CASE Claim(w)
  <2>1. At(w, "claim") /\ m \in Messages
    BY <1>1, <1>2 DEF Claim, At
  <2>2. CASE /\ message' = [message EXCEPT ![m].due = "later"]
             /\ Returns(w)
    <3>1. \A n \in Messages : /\ message'[n].status = message[n].status
                              /\ message'[n].lease = message[n].lease
      BY <2>1, <2>2, RowType DEF TypeOK, MessageType
    <3> QED BY <2>2, <3>1, ReturnsHold, HoldersKept
  <2>3. CASE /\ Claimable(m)
             /\ message' = [message EXCEPT ![m].status = "sending", ![m].lease = "held"]
             /\ Becomes(w, [worker[w] EXCEPT
                  !.pc = IF worker[w].count = 0 THEN "open" ELSE "send",
                  !.tries = message[m].attempts])
    <3> DEFINE state == [worker[w] EXCEPT
                           !.pc = IF worker[w].count = 0 THEN "open" ELSE "send",
                           !.tries = message[m].attempts]
    <3>1. state.msg = m
      BY WorkerState DEF WorkerType
    <3>2. Becomes(w, state)
      BY <2>3
    <3> HIDE DEF state
    <3>3. \A v \in Workers : ~Holds(v, m)
      BY <2>1, <2>3 DEF HoldersSending, Claimable, Due, Queued
    <3>4. /\ message'[m].status = "sending" /\ message'[m].lease = "held"
          /\ \A n \in Messages : n # m => message'[n] = message[n]
      <4>1. message' = [message EXCEPT ![m] =
                          [message[m] EXCEPT !.status = "sending", !.lease = "held"]]
        BY <2>1, <2>3
      <4>2. m \in Messages /\ message \in [Messages -> MessageType]
        BY <2>1 DEF TypeOK
      <4> HIDE DEF m
      <4> QED BY <4>1, <4>2 DEF MessageType
    <3>5. \A v \in Workers, n \in Messages :
            Holds(v, n)' => \/ n = m /\ v = w
                            \/ n # m /\ v # w /\ Holds(v, n)
      BY <2>1, <3>1, <3>2, <3>3, OthersHold
    <3>6. HoldersSending'
      BY <3>4, <3>5 DEF HoldersSending
    <3>7. OneHolder'
      BY <3>5 DEF OneHolder
    <3> QED BY <3>6, <3>7
  <2>4. CASE Skips(w) /\ UNCHANGED message
    <3>1. CASE Returns(w)
      BY <2>4, <3>1, ReturnsHold, HoldersKept
    <3>2. CASE GoTo(w, "more")
      BY <2>4, <3>2, GoToHold, HoldersKept
    <3> QED BY <2>4, <3>1, <3>2 DEF Skips
  <2> QED BY <1>2, <2>2, <2>3, <2>4 DEF Claim, AtWork
<1>3. CASE Open(w)
  <2>1. At(w, "open") /\ m \in Messages /\ UNCHANGED message
    BY <1>1, <1>3 DEF Open, At
  <2>2. Holds(w, m)
    BY <2>1 DEF Holds, At
  <2>3. CASE GoTo(w, "send")
    BY <2>1, <2>2, <2>3, GoToHold, HoldersKept
  <2>4. ASSUME NEW outcome,
               Becomes(w, [worker[w] EXCEPT !.pc = "record", !.outcome = outcome])
        PROVE  HoldersSending' /\ OneHolder'
    <3> DEFINE state == [worker[w] EXCEPT !.pc = "record", !.outcome = outcome]
    <3>1. state.msg = m
      BY WorkerState DEF WorkerType
    <3>2. Becomes(w, state)
      BY <2>4
    <3> HIDE DEF state
    <3> QED BY <2>1, <2>2, <3>1, <3>2, OthersHold, HoldersKept
  <2> QED BY <1>3, <2>3, <2>4 DEF Open
<1>4. CASE Send(w)
  <2>1. At(w, "send") /\ m \in Messages /\ UNCHANGED message
    BY <1>1, <1>4 DEF Send, At
  <2>2. Holds(w, m)
    BY <2>1 DEF Holds, At
  <2>3. PICK outcome :
          Becomes(w, [worker[w] EXCEPT !.pc = "record", !.outcome = outcome])
    BY <1>4 DEF Send
  <2> DEFINE state == [worker[w] EXCEPT !.pc = "record", !.outcome = outcome]
  <2>4. state.msg = m
    BY WorkerState DEF WorkerType
  <2>5. Becomes(w, state)
    BY <2>3
  <2> HIDE DEF state
  <2> QED BY <2>1, <2>2, <2>4, <2>5, OthersHold, HoldersKept
<1>5. CASE RecordSent(w) \/ RecordFailure(w)
  <2>1. At(w, "record") /\ m \in Messages
    BY <1>1, <1>5 DEF RecordSent, RecordFailure, At
  <2>2. Holds(w, m)
    BY <2>1 DEF Holds, At
  <2>3. \A v \in Workers, n \in Messages : Holds(v, n)' => v # w /\ Holds(v, n)
    <3>1. Returns(w) \/ GoTo(w, "more") \/ GoTo(w, "wake")
      BY <1>5 DEF RecordSent, RecordFailure
    <3> QED BY <3>1, ReturnsHold, GoToHold
  <2>4. \A n \in Messages : n # m => message'[n] = message[n]
    BY <1>5 DEF RecordSent, RecordFailure, TypeOK
  <2>5. \A v \in Workers : v # w => ~Holds(v, m)
    BY <2>1, <2>2 DEF OneHolder
  <2> QED BY <2>1, <2>3, <2>4, <2>5, HoldersKept
<1>6. CASE RecordWake(w)
  BY <1>6, ReturnsHold, HoldersKept DEF RecordWake
<1>7. CASE More(w)
  <2>1. UNCHANGED message
    BY <1>7 DEF More
  <2>2. CASE Returns(w)
    BY <2>1, <2>2, ReturnsHold, HoldersKept
  <2>3. ASSUME NEW n \in Messages,
               Becomes(w, [worker[w] EXCEPT !.pc = "claim", !.msg = n, !.count = @ + 1])
        PROVE  HoldersSending' /\ OneHolder'
    <3> DEFINE state == [worker[w] EXCEPT !.pc = "claim", !.msg = n,
                                          !.count = worker[w].count + 1]
    <3>1. state.pc = "claim"
      BY WorkerState DEF WorkerType
    <3>2. Becomes(w, state)
      BY <2>3
    <3> HIDE DEF state
    <3> QED BY <2>1, <3>1, <3>2, OthersHold, HoldersKept
  <2> QED BY <1>7, <2>2, <2>3 DEF More
<1> QED BY <1>2, <1>3, <1>4, <1>5, <1>6, <1>7 DEF Deliver

(* Nobody else touches the row of a message held, while sends end before    *)
(* their leases do.                                                         *)
LEMMA MessageStepsHold ==
  ASSUME HoldInv, ~SlowSends, NEW m \in Messages,
         Enqueue(m) \/ Reconciler(m) \/ Organizer(m) \/ Time(m)
  PROVE  HoldersSending' /\ OneHolder'
<1>1. UNCHANGED worker
  BY DEF Enqueue, Reconciler, RecoverExpired, RecoverOverdue, Abandon, Organizer, Retry,
         Cancel, Time, BecomesDue, TwoMinutesPass, LeaseEnds, WindowPasses, Tick
<1>2. \A n \in Messages : n # m => message'[n] = message[n]
  BY DEF HoldInv, TypeOK, Enqueue, Reconciler, RecoverExpired, RecoverOverdue, Abandon,
         Organizer, Retry, Cancel, Time, BecomesDue, TwoMinutesPass, LeaseEnds,
         WindowPasses, Tick
<1>3. ASSUME NEW v \in Workers, Holds(v, m)
      PROVE  message'[m].status = message[m].status /\ message'[m].lease = message[m].lease
  <2>1. message[m].status = "sending" /\ message[m].lease = "held"
    BY <1>3 DEF HoldInv, HoldersSending
  <2>2. message[m] \in MessageType
    BY RowType DEF HoldInv
  <2>3. CASE RecoverOverdue(m) \/ Abandon(m)
    BY <2>3 DEF RecoverOverdue, Abandon
  <2>4. CASE Time(m)
    BY <1>3, <2>1, <2>2, <2>4 DEF HoldInv, TypeOK, MessageType, Time, BecomesDue,
       TwoMinutesPass, LeaseEnds, WindowPasses, Tick, Queued
  <2> QED BY <2>1, <2>3, <2>4 DEF Enqueue, Reconciler, RecoverExpired, Organizer, Retry,
          Cancel, Queued
<1> QED BY <1>1, <1>2, <1>3, HoldersKept DEF Holds

LEMMA StartHold ==
  ASSUME HoldInv, NEW w \in Workers, NEW m \in Messages, Start(w, m)
  PROVE  HoldersSending' /\ OneHolder'
<1> DEFINE state == [Idle EXCEPT !.pc = "claim", !.task = m, !.msg = m]
<1>1. state.pc = "claim"
  BY DEF Idle
<1>2. Becomes(w, state) \/ UNCHANGED worker
  BY DEF Start
<1> HIDE DEF state
<1>3. UNCHANGED message
  BY DEF Start
<1> QED BY <1>1, <1>2, <1>3, OthersHold, HoldersKept DEF HoldInv, Holds

LEMMA HoldInit == Init => HoldInv
BY InitType DEF Init, HoldInv, HoldersSending, OneHolder, Holds, Idle

LEMMA HoldNext ==
  ASSUME ~SlowSends
  PROVE  HoldInv /\ [Next]_vars => HoldInv'
<1> SUFFICES ASSUME HoldInv, [Next]_vars PROVE HoldersSending' /\ OneHolder'
  BY NextType DEF HoldInv
<1>1. ASSUME NEW w \in Workers, Crash(w) PROVE HoldersSending' /\ OneHolder'
  BY <1>1, ReturnsHold, HoldersKept DEF Crash, HoldInv
<1>2. CASE UNCHANGED vars
  BY <1>2 DEF HoldInv, HoldersSending, OneHolder, Holds, vars
<1> QED BY <1>1, <1>2, DeliverHold, StartHold, MessageStepsHold DEF Next, Worker

(* Two workers are never sending one message, whatever tasks, chunks,       *)
(* retries and recoveries reach for it, as long as a send ends before its   *)
(* lease does.                                                              *)
THEOREM OneHolderAtATime ==
  ASSUME ~SlowSends
  PROVE  Spec => []OneHolder
<1>1. HoldInv /\ [Next]_vars => HoldInv'
  BY HoldNext
<1>2. HoldInv => OneHolder
  BY DEF HoldInv
<1> QED BY HoldInit, <1>1, <1>2, PTL DEF Spec

-----------------------------------------------------------------------------
(* What is final.                                                           *)

(* A delivery sends, and records the outcome of, only what is marked as     *)
(* being sent, and claims only what is queued.                              *)
LEMMA DeliverFinal ==
  ASSUME HoldInv, NEW w \in Workers, Deliver(w),
         NEW n \in Messages, message[n].status \in {"sent", "cancelled"}
  PROVE  message'[n].status = message[n].status /\ accepted'[n] = accepted[n]
<1> DEFINE m == worker[w].msg
<1>1. ~At(w, "idle") => m \in Messages
  BY WorkerState DEF At, HoldInv
<1>2. message[n] \in MessageType
  BY RowType DEF HoldInv
<1>3. ASSUME worker[w].pc \in {"open", "send", "record"} PROVE m # n
  <2>1. Holds(w, m) /\ m \in Messages
    BY <1>1, <1>3 DEF Holds, At
  <2>2. message[m].status = "sending"
    BY <2>1 DEF HoldInv, HoldersSending
  <2> QED BY <2>2
<1>4. CASE Claim(w)
  <2>1. m \in Messages /\ UNCHANGED accepted
    BY <1>1, <1>4 DEF Claim, At
  <2>2. CASE message' = [message EXCEPT ![m].due = "later"]
    BY <1>2, <2>1, <2>2 DEF HoldInv, TypeOK, MessageType
  <2>3. CASE /\ Claimable(m)
             /\ message' = [message EXCEPT ![m].status = "sending", ![m].lease = "held"]
    <3>1. m # n
      BY <2>3 DEF Claimable, Due, Queued
    <3> QED BY <2>1, <2>3, <3>1 DEF HoldInv, TypeOK
  <2> QED BY <1>4, <2>1, <2>2, <2>3 DEF Claim, AtWork
<1>5. CASE Send(w)
  <2>1. m # n
    BY <1>3, <1>5 DEF Send, At
  <2> QED BY <1>5, <2>1 DEF Send, HoldInv, TypeOK
<1>6. CASE RecordSent(w) \/ RecordFailure(w)
  <2>1. m # n
    BY <1>3, <1>6 DEF RecordSent, RecordFailure, At
  <2> QED BY <1>6, <2>1 DEF RecordSent, RecordFailure, HoldInv, TypeOK
<1> QED BY <1>4, <1>5, <1>6 DEF Deliver, Open, RecordWake, More

LEMMA MessageStepsFinal ==
  ASSUME TypeOK, NEW m \in Messages,
         Enqueue(m) \/ Reconciler(m) \/ Organizer(m) \/ Time(m),
         NEW n \in Messages, message[n].status \in {"sent", "cancelled"}
  PROVE  message'[n].status = message[n].status /\ accepted'[n] = accepted[n]
<1>1. UNCHANGED accepted
  BY DEF Enqueue, Reconciler, RecoverExpired, RecoverOverdue, Abandon, Organizer, Retry,
         Cancel, Time, BecomesDue, TwoMinutesPass, LeaseEnds, WindowPasses, Tick
<1>2. message[n] \in MessageType
  BY RowType
<1>3. CASE n # m
  BY <1>3 DEF TypeOK, Enqueue, Reconciler, RecoverExpired, RecoverOverdue, Abandon,
         Organizer, Retry, Cancel, Time, BecomesDue, TwoMinutesPass, LeaseEnds,
         WindowPasses, Tick
<1>4. CASE n = m
  <2>1. CASE RecoverOverdue(m) \/ Abandon(m)
    BY <2>1 DEF RecoverOverdue, Abandon
  <2>2. CASE Time(m)
    BY <1>2, <1>4, <2>2 DEF TypeOK, MessageType, Time, BecomesDue, TwoMinutesPass,
       LeaseEnds, WindowPasses, Tick, Queued
  <2> QED BY <1>4, <2>1, <2>2 DEF Enqueue, Reconciler, RecoverExpired, Organizer, Retry,
          Cancel, Queued
<1> QED BY <1>1, <1>3, <1>4

LEMMA FinalKept ==
  ASSUME HoldInv, [Next]_vars,
         NEW n \in Messages, message[n].status \in {"sent", "cancelled"}
  PROVE  message'[n].status = message[n].status /\ accepted'[n] = accepted[n]
<1>1. ASSUME NEW w \in Workers, Worker(w)
      PROVE  message'[n].status = message[n].status /\ accepted'[n] = accepted[n]
  BY <1>1, DeliverFinal DEF Worker, Start, Crash
<1>2. CASE UNCHANGED vars
  BY <1>2 DEF vars
<1> QED BY <1>1, <1>2, MessageStepsFinal DEF Next, HoldInv

(* A message sent stays sent and is not sent again, as long as a send ends  *)
(* before its lease does: the documented promise that a task that runs      *)
(* twice or late can't send twice.                                          *)
THEOREM SentOnce ==
  ASSUME ~SlowSends
  PROVE  Spec => SentIsFinal
<1>1. HoldInv /\ [Next]_vars => HoldInv'
  BY HoldNext
<1>2. HoldInv /\ [Next]_vars =>
        [\A m \in Messages : message[m].status = "sent" =>
           message'[m].status = "sent" /\ accepted'[m] = accepted[m]]_vars
  BY FinalKept
<1> QED BY HoldInit, <1>1, <1>2, PTL DEF Spec, SentIsFinal

(* A message an organizer stopped is not sent, whichever worker was about   *)
(* to claim it.                                                             *)
THEOREM StoppedForGood ==
  ASSUME ~SlowSends
  PROVE  Spec => CancelledIsFinal
<1>1. HoldInv /\ [Next]_vars => HoldInv'
  BY HoldNext
<1>2. HoldInv /\ [Next]_vars =>
        [\A m \in Messages : message[m].status = "cancelled" =>
           message'[m].status = "cancelled" /\ accepted'[m] = accepted[m]]_vars
  BY FinalKept
<1> QED BY HoldInit, <1>1, <1>2, PTL DEF Spec, CancelledIsFinal

-----------------------------------------------------------------------------
(* The account's limit.                                                     *)

(* What the server took within the window counts against the limit, and     *)
(* goes on counting: recorded as sent, or being sent under its lease.       *)
OnWireRow(m) ==
  \/ message[m].status = "sent" /\ message[m].sent = "recent"
  \/ message[m].status = "sending" /\ message[m].lease = "held"

OnWireCounted == \A m \in onWire : OnWireRow(m)

(* The server has nothing of a message a worker has yet to send, or failed  *)
(* to.                                                                      *)
UnsentOffWire ==
  \A w \in Workers, m \in Messages :
    Holds(w, m) /\ m \in onWire => worker[w].pc = "record" /\ worker[w].outcome = "accepted"

CountKept == Limit > 0 => Cardinality(Counted) <= Limit

LimitInv == HoldInv /\ OnWireCounted /\ UnsentOffWire /\ CountKept

LEMMA CountedFinite == IsFiniteSet(Counted) /\ Cardinality(Counted) \in Nat
<1>1. IsFiniteSet(Counted)
  BY MessageAssumption, FS_Subset DEF Counted
<1> QED BY <1>1, FS_CardinalityType

LEMMA CountShrinks ==
  ASSUME CountKept, Counted' \subseteq Counted
  PROVE  CountKept'
<1>1. Cardinality(Counted') <= Cardinality(Counted) /\ Cardinality(Counted') \in Nat
  BY CountedFinite, FS_Subset, FS_CardinalityType
<1> QED BY <1>1, CountedFinite, NumberAssumption DEF CountKept

(* A worker that moves leaves the others where they are.                    *)
LEMMA OthersStay ==
  ASSUME TypeOK, NEW w \in Workers, NEW state, Becomes(w, state)
  PROVE  worker'[w] = state /\ \A v \in Workers : v # w => worker'[v] = worker[v]
BY DEF Becomes, TypeOK

LEMMA OthersStayPut ==
  ASSUME TypeOK, NEW w \in Workers, NEW pc, GoTo(w, pc) \/ Returns(w),
         NEW v \in Workers, v # w
  PROVE  worker'[v] = worker[v]
BY DEF GoTo, Returns, Becomes, TypeOK

(* A delivery counts a message before it sends it, and until the server's   *)
(* window for it has passed: provided no answer of the server is lost.      *)
LEMMA DeliverLimit ==
  ASSUME LimitInv, HoldInv', "lost" \notin SendOutcomes, NEW w \in Workers, Deliver(w)
  PROVE  OnWireCounted' /\ UnsentOffWire' /\ CountKept'
<1> USE DEF LimitInv, HoldInv
<1> DEFINE m == worker[w].msg
<1>1. ~At(w, "idle") => m \in Messages
  BY WorkerState DEF At
<1>2. CASE Claim(w)
  <2>1. At(w, "claim") /\ m \in Messages /\ UNCHANGED onWire
    BY <1>1, <1>2 DEF Claim, At
  <2>2. CASE message' = [message EXCEPT ![m].due = "later"] /\ Returns(w)
    <3>1. \A n \in Messages : /\ message'[n].status = message[n].status
                              /\ message'[n].lease = message[n].lease
                              /\ message'[n].sent = message[n].sent
      BY <2>1, <2>2, RowType DEF TypeOK, MessageType
    <3>2. OnWireCounted'
      BY <2>1, <3>1 DEF OnWireCounted, OnWireRow, TypeOK
    <3>3. UnsentOffWire'
      BY <2>1, <2>2, ReturnsHold DEF UnsentOffWire, Returns, Becomes, TypeOK
    <3>4. Counted' \subseteq Counted
      BY <3>1 DEF Counted
    <3> QED BY <3>2, <3>3, <3>4, CountShrinks
  <2>3. CASE /\ ~Throttled /\ Claimable(m)
             /\ message' = [message EXCEPT ![m].status = "sending", ![m].lease = "held"]
    <3>1. m \notin onWire
      BY <2>3 DEF OnWireCounted, OnWireRow, Claimable, Due, Queued
    <3>2. \A n \in Messages : n # m => message'[n] = message[n]
      BY <2>3 DEF TypeOK
    <3>3. OnWireCounted'
      BY <2>1, <3>1, <3>2 DEF OnWireCounted, OnWireRow, TypeOK
    <3>4. \A v \in Workers, n \in Messages :
            Holds(v, n)' => \/ v = w /\ n = m
                            \/ Holds(v, n) /\ worker'[v] = worker[v]
      <4> DEFINE state == [worker[w] EXCEPT
                             !.pc = IF worker[w].count = 0 THEN "open" ELSE "send",
                             !.tries = message[m].attempts]
      <4>1. state.msg = m
        BY WorkerState DEF WorkerType
      <4>2. Becomes(w, state)
        BY <1>2, <2>1, <2>3 DEF Claim, AtWork
      <4> HIDE DEF state
      <4> QED BY <4>1, <4>2, OthersHold, OthersStay
    <3>5. UnsentOffWire'
      BY <2>1, <3>1, <3>4 DEF UnsentOffWire
    <3>6. Counted' \subseteq Counted \union {m}
      BY <3>2 DEF Counted
    <3>7. Limit > 0 => Cardinality(Counted') <= Limit
      <4>1. CASE m \in Counted
        BY <3>6, <4>1, CountShrinks DEF CountKept
      <4>2. CASE m \notin Counted
        <5>1. /\ IsFiniteSet(Counted \union {m})
              /\ Cardinality(Counted \union {m}) = Cardinality(Counted) + 1
          BY <4>2, CountedFinite, FS_AddElement
        <5>2. Cardinality(Counted') <= Cardinality(Counted) + 1
          BY <3>6, <5>1, FS_Subset
        <5>3. Cardinality(Counted') \in Nat
          BY <3>6, <5>1, FS_Subset, FS_CardinalityType
        <5> QED BY <2>3, <5>2, <5>3, CountedFinite, NumberAssumption DEF Throttled
      <4> QED BY <4>1, <4>2
    <3>8. CountKept'
      BY <3>7 DEF CountKept
    <3> QED BY <3>3, <3>5, <3>8
  <2>4. CASE Skips(w) /\ UNCHANGED message
    <3>1. OnWireCounted' /\ CountKept'
      BY <2>1, <2>4 DEF OnWireCounted, OnWireRow, CountKept, Counted
    <3>2. UnsentOffWire'
      <4>1. CASE Returns(w)
        BY <2>1, <4>1, ReturnsHold, OthersStayPut DEF UnsentOffWire
      <4>2. CASE GoTo(w, "more")
        BY <2>1, <4>2, GoToHold, OthersStayPut DEF UnsentOffWire
      <4> QED BY <2>4, <4>1, <4>2 DEF Skips
    <3> QED BY <3>1, <3>2
  <2> QED BY <1>2, <2>2, <2>3, <2>4 DEF Claim, AtWork
<1>3. CASE Open(w)
  <2>1. At(w, "open") /\ m \in Messages /\ UNCHANGED <<message, onWire>>
    BY <1>1, <1>3 DEF Open, At
  <2>2. m \notin onWire
    BY <2>1 DEF UnsentOffWire, Holds, At
  <2>3. \A v \in Workers, n \in Messages :
          Holds(v, n)' => \/ n = m
                          \/ Holds(v, n) /\ worker'[v] = worker[v]
    <3>1. \E state : Becomes(w, state) /\ state.msg = m
      <4>1. CASE GoTo(w, "send")
        <5>1. [worker[w] EXCEPT !.pc = "send"].msg = m
          BY WorkerState DEF WorkerType
        <5> QED BY <4>1, <5>1 DEF GoTo
      <4>2. ASSUME NEW outcome,
                   Becomes(w, [worker[w] EXCEPT !.pc = "record", !.outcome = outcome])
            PROVE  \E state : Becomes(w, state) /\ state.msg = m
        <5>1. [worker[w] EXCEPT !.pc = "record", !.outcome = outcome].msg = m
          BY WorkerState DEF WorkerType
        <5> QED BY <4>2, <5>1
      <4> QED BY <1>3, <4>1, <4>2 DEF Open
    <3> QED BY <3>1, OthersHold, OthersStay
  <2>4. UnsentOffWire'
    BY <2>1, <2>2, <2>3 DEF UnsentOffWire
  <2> QED BY <2>1, <2>4 DEF OnWireCounted, OnWireRow, CountKept, Counted
<1>4. CASE Send(w)
  <2>1. At(w, "send") /\ m \in Messages /\ UNCHANGED message
    BY <1>1, <1>4 DEF Send, At
  <2>2. Holds(w, m) /\ m \notin onWire
    BY <2>1 DEF UnsentOffWire, Holds, At
  <2>3. PICK outcome \in SendOutcomes :
           /\ Becomes(w, [worker[w] EXCEPT !.pc = "record",
                !.outcome = IF outcome = "lost" THEN "temporary" ELSE outcome])
           /\ IF outcome \in {"accepted", "lost"}
                THEN /\ accepted' = [accepted EXCEPT ![m] = @ + 1]
                     /\ onWire' = onWire \union {m}
                ELSE UNCHANGED <<accepted, onWire>>
    BY <1>4 DEF Send
  <2> DEFINE state == [worker[w] EXCEPT !.pc = "record",
                         !.outcome = IF outcome = "lost" THEN "temporary" ELSE outcome]
  <2>4. state.msg = m /\ state.pc = "record" /\ state.outcome = outcome
    BY WorkerState DEF WorkerType
  <2>5. Becomes(w, state)
    BY <2>3
  <2> HIDE DEF state
  <2>6. onWire' \subseteq onWire \union {m} /\ (outcome # "accepted" => onWire' = onWire)
    BY <2>3
  <2>7. message[m].status = "sending" /\ message[m].lease = "held"
    BY <2>1, <2>2 DEF HoldersSending
  <2>8. OnWireCounted'
    BY <2>1, <2>6, <2>7 DEF OnWireCounted, OnWireRow
  <2>9. worker'[w] = state /\ \A v \in Workers : v # w => worker'[v] = worker[v]
    BY <2>5 DEF Becomes, TypeOK
  <2>10. ASSUME NEW v \in Workers, NEW n \in Messages, Holds(v, n)', n \in onWire'
         PROVE  worker'[v].pc = "record" /\ worker'[v].outcome = "accepted"
    <3>1. CASE v = w
      <4>1. n = m
        BY <2>4, <2>5, <2>10, <3>1, OthersHold
      <4>2. outcome = "accepted"
        BY <2>2, <2>6, <2>10, <4>1
      <4> QED BY <2>4, <2>9, <3>1, <4>2
    <3>2. CASE v # w
      <4>1. Holds(v, n) /\ n # m
        BY <2>1, <2>2, <2>5, <2>10, <3>2, OthersHold DEF OneHolder
      <4>2. n \in onWire
        BY <2>6, <2>10, <4>1
      <4> QED BY <2>9, <3>2, <4>1, <4>2 DEF UnsentOffWire
    <3> QED BY <3>1, <3>2
  <2>11. UnsentOffWire'
    BY <2>10 DEF UnsentOffWire
  <2> QED BY <2>1, <2>8, <2>11 DEF CountKept, Counted
<1>5. CASE RecordSent(w) \/ RecordFailure(w)
  <2>1. At(w, "record") /\ m \in Messages /\ UNCHANGED onWire
    BY <1>1, <1>5 DEF RecordSent, RecordFailure, At
  <2>2. Holds(w, m)
    BY <2>1 DEF Holds, At
  <2>3. \A v \in Workers, n \in Messages :
          Holds(v, n)' => Holds(v, n) /\ worker'[v] = worker[v]
    <3>1. Returns(w) \/ GoTo(w, "more") \/ GoTo(w, "wake")
      BY <1>5 DEF RecordSent, RecordFailure
    <3>2. \A v \in Workers, n \in Messages : Holds(v, n)' => v # w /\ Holds(v, n)
      BY <3>1, ReturnsHold, GoToHold
    <3> QED BY <3>1, <3>2, OthersStayPut
  <2>4. UnsentOffWire'
    BY <2>1, <2>3 DEF UnsentOffWire
  <2>5. \A n \in Messages : n # m => message'[n] = message[n]
    BY <1>5 DEF RecordSent, RecordFailure, TypeOK
  <2>6. message[m].status = "sending"
    BY <2>1, <2>2 DEF HoldersSending
  <2>7. Counted' \subseteq Counted
    BY <2>5, <2>6 DEF Counted
  <2>8. OnWireCounted'
    <3>1. CASE RecordSent(w)
      <4>1. message'[m].status = "sent" /\ message'[m].sent = "recent"
        <5>1. message[m] \in MessageType
          BY <2>1, RowType
        <5> QED BY <2>1, <3>1, <5>1 DEF RecordSent, TypeOK, MessageType
      <4> QED BY <2>1, <2>5, <4>1 DEF OnWireCounted, OnWireRow, TypeOK
    <3>2. CASE RecordFailure(w)
      <4>1. m \notin onWire
        BY <2>1, <2>2, <3>2 DEF UnsentOffWire, RecordFailure
      <4> QED BY <2>1, <2>5, <4>1 DEF OnWireCounted, OnWireRow, TypeOK
    <3> QED BY <1>5, <3>1, <3>2
  <2> QED BY <2>4, <2>7, <2>8, CountShrinks
<1>6. CASE RecordWake(w) \/ More(w)
  <2>1. UNCHANGED <<message, onWire>> /\ ~(worker[w].pc \in {"open", "send", "record"})
    BY <1>6 DEF RecordWake, More, At
  <2>2. \A v \in Workers, n \in Messages :
          Holds(v, n)' => Holds(v, n) /\ worker'[v] = worker[v]
    <3>1. PICK state : Becomes(w, state) /\ state.pc \notin {"open", "send", "record"}
      <4>1. CASE Returns(w)
        BY <4>1 DEF Returns, Idle
      <4>2. ASSUME NEW n \in Messages,
                   Becomes(w, [worker[w] EXCEPT !.pc = "claim", !.msg = n, !.count = @ + 1])
            PROVE  \E state : Becomes(w, state) /\ state.pc \notin {"open", "send", "record"}
        <5>1. [worker[w] EXCEPT !.pc = "claim", !.msg = n, !.count = @ + 1].pc = "claim"
          BY WorkerState DEF WorkerType
        <5> QED BY <4>2, <5>1
      <4> QED BY <1>6, <4>1, <4>2 DEF RecordWake, More
    <3> QED BY <3>1, OthersHold, OthersStay
  <2>3. UnsentOffWire'
    BY <2>1, <2>2 DEF UnsentOffWire
  <2> QED BY <2>1, <2>3 DEF OnWireCounted, OnWireRow, CountKept, Counted
<1> QED BY <1>2, <1>3, <1>4, <1>5, <1>6 DEF Deliver

(* Everything else leaves the row of a message on the wire as it is, but    *)
(* for the ends of its window and of its lease, in that order.              *)
LEMMA MessageStepsLimit ==
  ASSUME LimitInv, NEW m \in Messages,
         Enqueue(m) \/ Reconciler(m) \/ Organizer(m) \/ Time(m)
  PROVE  OnWireCounted' /\ UnsentOffWire' /\ CountKept'
<1> USE DEF LimitInv, HoldInv
<1>1. UNCHANGED worker /\ onWire' \subseteq onWire
  BY DEF Enqueue, Reconciler, RecoverExpired, RecoverOverdue, Abandon, Organizer, Retry,
         Cancel, Time, BecomesDue, TwoMinutesPass, LeaseEnds, WindowPasses, Tick
<1>2. \A n \in Messages : n # m => message'[n] = message[n]
  BY DEF TypeOK, Enqueue, Reconciler, RecoverExpired, RecoverOverdue, Abandon,
         Organizer, Retry, Cancel, Time, BecomesDue, TwoMinutesPass, LeaseEnds,
         WindowPasses, Tick
<1>3. message[m] \in MessageType
  BY RowType
<1>4. ASSUME m \in onWire' PROVE OnWireRow(m)'
  <2>1. OnWireRow(m)
    BY <1>1, <1>4 DEF OnWireCounted
  <2>2. CASE RecoverOverdue(m) \/ Abandon(m)
    BY <2>1, <2>2 DEF RecoverOverdue, Abandon, OnWireRow
  <2>3. CASE BecomesDue(m) \/ TwoMinutesPass(m)
    BY <1>3, <2>1, <2>3 DEF BecomesDue, TwoMinutesPass, Tick, OnWireRow, MessageType, TypeOK
  <2>4. CASE LeaseEnds(m) \/ WindowPasses(m)
    <3>1. m \in onWire /\ (LeaseEnds(m) => m \notin onWire)
      BY <1>1, <1>4 DEF LeaseEnds
    <3>2. WindowPasses(m) => FALSE
      BY <1>4, <3>1 DEF WindowPasses
    <3> QED BY <2>4, <3>1, <3>2
  <2> QED BY <2>1, <2>2, <2>3, <2>4 DEF Enqueue, Reconciler, RecoverExpired, Organizer,
          Retry, Cancel, Time, Queued, OnWireRow
<1>5. OnWireCounted'
  BY <1>1, <1>2, <1>4 DEF OnWireCounted, OnWireRow, TypeOK
<1>6. UnsentOffWire'
  BY <1>1 DEF UnsentOffWire, Holds
<1>7. Counted' \subseteq Counted
  <2>1. ASSUME m \in Counted' PROVE m \in Counted
    <3>1. CASE RecoverOverdue(m) \/ Abandon(m)
      BY <2>1, <3>1 DEF RecoverOverdue, Abandon, Counted
    <3>2. CASE Time(m)
      BY <1>3, <2>1, <3>2 DEF Time, BecomesDue, TwoMinutesPass, LeaseEnds, WindowPasses,
         Tick, Counted, MessageType, TypeOK
    <3>3. CASE Enqueue(m)
      BY <1>3, <2>1, <3>3 DEF Enqueue, Counted, MessageType, TypeOK
    <3>4. CASE RecoverExpired(m)
      BY <1>3, <2>1, <3>4 DEF RecoverExpired, Counted, MessageType, TypeOK
    <3>5. CASE Retry(m)
      <4>1. message'[m] = [message[m] EXCEPT !.status = "queued", !.due = "now",
                                             !.lease = "none"]
        BY <3>5 DEF Retry, TypeOK
      <4>2. message'[m].status = "queued"
        BY <1>3, <4>1 DEF MessageType
      <4> QED BY <2>1, <4>2 DEF Counted
    <3>6. CASE Cancel(m)
      <4>1. message'[m].status = "cancelled"
        BY <1>3, <3>6 DEF Cancel, MessageType, TypeOK
      <4> QED BY <2>1, <4>1 DEF Counted
    <3> QED BY <3>1, <3>2, <3>3, <3>4, <3>5, <3>6 DEF Reconciler, Organizer
  <2> QED BY <1>2, <2>1 DEF Counted
<1> QED BY <1>5, <1>6, <1>7, CountShrinks

LEMMA StartCrashLimit ==
  ASSUME LimitInv, NEW w \in Workers,
         Crash(w) \/ (\E m \in Messages : Start(w, m))
  PROVE  OnWireCounted' /\ UnsentOffWire' /\ CountKept'
<1> USE DEF LimitInv, HoldInv
<1>1. UNCHANGED <<message, onWire>>
  BY DEF Crash, Start
<1>2. \A v \in Workers, n \in Messages :
        Holds(v, n)' => Holds(v, n) /\ worker'[v] = worker[v]
  <2>1. CASE UNCHANGED worker
    BY <2>1 DEF Holds
  <2>2. ASSUME NEW m \in Messages,
               Becomes(w, [Idle EXCEPT !.pc = "claim", !.task = m, !.msg = m])
        PROVE  \A v \in Workers, n \in Messages :
                 Holds(v, n)' => Holds(v, n) /\ worker'[v] = worker[v]
    <3> DEFINE state == [Idle EXCEPT !.pc = "claim", !.task = m, !.msg = m]
    <3>1. state.pc = "claim"
      BY DEF Idle
    <3>2. Becomes(w, state)
      BY <2>2
    <3> HIDE DEF state
    <3> QED BY <3>1, <3>2, OthersHold, OthersStay
  <2>3. CASE Returns(w)
    BY <2>3, ReturnsHold, OthersStayPut
  <2> QED BY <2>1, <2>2, <2>3 DEF Start, Crash
<1>3. UnsentOffWire'
  BY <1>1, <1>2 DEF UnsentOffWire
<1> QED BY <1>1, <1>3 DEF OnWireCounted, OnWireRow, CountKept, Counted

LEMMA LimitInit == Init => LimitInv
<1> SUFFICES ASSUME Init PROVE LimitInv
  OBVIOUS
<1>1. OnWireCounted /\ UnsentOffWire
  BY DEF Init, OnWireCounted, UnsentOffWire
<1>2. Counted = {}
  BY DEF Init, Counted, NewMessage
<1>3. CountKept
  BY <1>2, FS_EmptySet, NumberAssumption DEF CountKept
<1> QED BY <1>1, <1>3, HoldInit DEF LimitInv

LEMMA LimitNext ==
  ASSUME ~SlowSends, "lost" \notin SendOutcomes
  PROVE  LimitInv /\ [Next]_vars => LimitInv'
<1> SUFFICES ASSUME LimitInv, [Next]_vars PROVE LimitInv'
  OBVIOUS
<1>1. HoldInv'
  BY HoldNext DEF LimitInv
<1>2. ASSUME NEW w \in Workers, Worker(w) PROVE LimitInv'
  BY <1>1, <1>2, DeliverLimit, StartCrashLimit DEF Worker, LimitInv
<1>3. ASSUME NEW m \in Messages, Enqueue(m) \/ Reconciler(m) \/ Organizer(m) \/ Time(m)
      PROVE  LimitInv'
  BY <1>1, <1>3, MessageStepsLimit DEF LimitInv
<1>4. CASE UNCHANGED vars
  BY <1>1, <1>4 DEF LimitInv, OnWireCounted, OnWireRow, UnsentOffWire, CountKept, Counted,
     Holds, vars
<1> QED BY <1>2, <1>3, <1>4 DEF Next

LEMMA LimitHolds == LimitInv => WithinLimit
<1> SUFFICES ASSUME LimitInv PROVE WithinLimit
  OBVIOUS
<1>1. onWire \subseteq Counted
  BY DEF LimitInv, HoldInv, TypeOK, OnWireCounted, OnWireRow, Counted
<1>2. Cardinality(onWire) <= Cardinality(Counted) /\ Cardinality(onWire) \in Nat
  BY <1>1, CountedFinite, FS_Subset, FS_CardinalityType
<1> QED BY <1>2, CountedFinite, NumberAssumption DEF LimitInv, CountKept, WithinLimit

(* However many workers send an account's messages, the server never gets   *)
(* more of them within the window than the account's limit, as long as a    *)
(* send ends before its lease does and no answer of the server is lost.     *)
THEOREM LimitRespected ==
  ASSUME ~SlowSends, "lost" \notin SendOutcomes
  PROVE  Spec => []WithinLimit
<1>1. LimitInv /\ [Next]_vars => LimitInv'
  BY LimitNext
<1> QED BY LimitInit, LimitHolds, <1>1, PTL DEF Spec
-----------------------------------------------------------------------------
(* The outbox implements Mail.                                              *)

(* What a delivery read of the attempts is what they are, until it records  *)
(* its own.                                                                 *)
TriesKept ==
  \A w \in Workers, m \in Messages : Holds(w, m) => worker[w].tries = message[m].attempts

(* The server took a message once a try at most, this one included.         *)
GivenOncePerTry ==
  \A m \in Messages : /\ accepted[m] <= message[m].attempts + 1
                      /\ message[m].status # "sending" => accepted[m] <= message[m].attempts

UnsentThisTry ==
  \A w \in Workers, m \in Messages :
    Holds(w, m) /\ worker[w].pc # "record" => accepted[m] <= message[m].attempts

SentIfTaken ==
  \A w \in Workers, m \in Messages :
    Holds(w, m) /\ worker[w].pc = "record" /\ worker[w].outcome = "accepted"
      => accepted[m] > 0

(* A message has a try left until it is settled; an organizer's retry gives *)
(* it one more.                                                             *)
TriesBounded ==
  \A m \in Messages :
    /\ message[m].attempts <= MaxAttempts + edits
    /\ message[m].status \in {"none", "queued", "sending"}
         => message[m].attempts < MaxAttempts + edits

HoldersPromise == TriesKept /\ UnsentThisTry /\ SentIfTaken
RowsPromise == GivenOncePerTry /\ TriesBounded

PromiseInv == HoldInv /\ HoldersPromise /\ RowsPromise

(* What a step does to a row, as Mail sees it.                              *)
Same(m) ==
  /\ message'[m].status = message[m].status
  /\ message'[m].attempts = message[m].attempts
  /\ accepted'[m] = accepted[m]
OthersSame(m) == \A n \in Messages : n # m => Same(n)

Turns(m, from, to) ==
  /\ message[m].status = from /\ message'[m].status = to
  /\ accepted'[m] = accepted[m]
Untried(m) == message'[m].attempts = message[m].attempts
Tried(m) == message'[m].attempts = message[m].attempts + 1

Move(m) ==
  \/ Same(m)
  \/ Untried(m) /\ \E to \in {"queued", "failed", "cancelled"} : Turns(m, "none", to)
  \/ Untried(m) /\ Turns(m, "queued", "sending")
  \/ /\ Untried(m) /\ message[m].status = "sending" /\ message'[m].status = "sending"
     /\ accepted[m] <= message[m].attempts /\ accepted'[m] = accepted[m] + 1
  \/ Tried(m) /\ Turns(m, "sending", "sent") /\ accepted[m] > 0
  \/ /\ Tried(m) /\ Turns(m, "sending", "queued")
     /\ message[m].attempts + 1 < MaxAttempts + edits
  \/ Tried(m) /\ Turns(m, "sending", "failed")
  \/ Untried(m) /\ Turns(m, "failed", "queued") /\ edits' = edits + 1
  \/ Untried(m) /\ Turns(m, "queued", "cancelled")

(* Such moves of one message are what Mail allows, and keep its row's part  *)
(* of the promise.                                                          *)
LEMMA MoveKeepsRows ==
  ASSUME PromiseInv, NEW m \in Messages, Move(m), OthersSame(m),
         edits' \in Nat, edits' >= edits
  PROVE  RowsPromise'
<1> SUFFICES ASSUME NEW n \in Messages
             PROVE  /\ accepted'[n] <= message'[n].attempts + 1
                    /\ message'[n].status # "sending" => accepted'[n] <= message'[n].attempts
                    /\ message'[n].attempts <= MaxAttempts + edits'
                    /\ message'[n].status \in {"none", "queued", "sending"}
                         => message'[n].attempts < MaxAttempts + edits'
  BY DEF RowsPromise, GivenOncePerTry, TriesBounded
<1>1. /\ message[n].attempts \in Nat /\ accepted[n] \in Nat /\ edits \in Nat
      /\ MaxAttempts \in Nat
  BY RowType, NumberAssumption DEF PromiseInv, HoldInv, TypeOK
<1>2. /\ accepted[n] <= message[n].attempts + 1
      /\ message[n].status # "sending" => accepted[n] <= message[n].attempts
      /\ message[n].attempts <= MaxAttempts + edits
      /\ message[n].status \in {"none", "queued", "sending"}
           => message[n].attempts < MaxAttempts + edits
  BY DEF PromiseInv, RowsPromise, GivenOncePerTry, TriesBounded
<1>3. Same(n) \/ (n = m /\ Move(n))
  BY DEF OthersSame
<1> QED BY <1>1, <1>2, <1>3 DEF Move, Same, Untried, Tried, Turns

LEMMA MoveIsMail ==
  ASSUME TypeOK, NEW m \in Messages, Move(m), OthersSame(m), TypeOK'
  PROVE  [AsMail!Next]_(AsMail!mail)
<1> DEFINE status == [n \in Messages |-> message[n].status]
           tries == [n \in Messages |-> message[n].attempts]
<1>1. CASE Same(m)
  <2>1. \A n \in Messages : Same(n)
    BY <1>1 DEF OthersSame
  <2>2. status' = status /\ tries' = tries
    BY <2>1 DEF Same
  <2>3. accepted' = accepted
    BY <2>1 DEF Same, TypeOK
  <2> QED BY <2>2, <2>3 DEF AsMail!mail
<1>2. ASSUME NEW from, NEW to, Turns(m, from, to)
      PROVE  /\ status' = [status EXCEPT ![m] = to] /\ status[m] = from
             /\ accepted' = accepted
             /\ Untried(m) => tries' = tries
             /\ Tried(m) => tries' = [tries EXCEPT ![m] = @ + 1]
  <2>1. accepted' = accepted
    BY <1>2 DEF Turns, OthersSame, Same, TypeOK
  <2> QED BY <1>2, <2>1 DEF Turns, Untried, Tried, OthersSame, Same
<1>3. ASSUME Untried(m), NEW to \in {"queued", "failed", "cancelled"}, Turns(m, "none", to)
      PROVE  AsMail!Next
  BY <1>2, <1>3 DEF AsMail!Next, AsMail!Write, AsMail!Moves
<1>4. ASSUME Untried(m), Turns(m, "queued", "sending") PROVE AsMail!Next
  BY <1>2, <1>4 DEF AsMail!Next, AsMail!Begin, AsMail!Moves
<1>5. ASSUME Untried(m), message[m].status = "sending", message'[m].status = "sending",
             accepted[m] <= message[m].attempts, accepted'[m] = accepted[m] + 1
      PROVE  AsMail!Next
  <2>1. accepted' = [accepted EXCEPT ![m] = @ + 1]
    BY <1>5 DEF OthersSame, Same, TypeOK
  <2>2. status' = status /\ tries' = tries /\ status[m] = "sending"
        /\ accepted[m] <= tries[m]
    BY <1>5 DEF OthersSame, Same, Untried
  <2> QED BY <2>1, <2>2 DEF AsMail!Next, AsMail!Give
<1>6. ASSUME Tried(m), Turns(m, "sending", "sent"), accepted[m] > 0 PROVE AsMail!Next
  BY <1>2, <1>6 DEF AsMail!Next, AsMail!End, AsMail!Moves
<1>7. ASSUME Tried(m), NEW to \in {"queued", "failed"}, Turns(m, "sending", to)
      PROVE  AsMail!Next
  <2>1. AsMail!Moves(m, {"sending"}, to) /\ accepted' = accepted
        /\ tries' = [tries EXCEPT ![m] = @ + 1]
    BY <1>2, <1>7 DEF AsMail!Moves
  <2>2. AsMail!End(m)
    BY <1>7, <2>1 DEF AsMail!End
  <2> QED BY <2>2 DEF AsMail!Next
<1>8. ASSUME Untried(m), Turns(m, "failed", "queued") PROVE AsMail!Next
  BY <1>2, <1>8 DEF AsMail!Next, AsMail!TryAgain, AsMail!Moves
<1>9. ASSUME Untried(m), Turns(m, "queued", "cancelled") PROVE AsMail!Next
  BY <1>2, <1>9 DEF AsMail!Next, AsMail!Stop, AsMail!Moves
<1> QED BY <1>1, <1>3, <1>4, <1>5, <1>6, <1>7, <1>8, <1>9 DEF Move

(* A step in which nobody comes to hold a message, and which leaves as it   *)
(* was what every holder has.                                               *)
LEMMA HoldersLeft ==
  ASSUME PromiseInv,
         \A v \in Workers, n \in Messages :
           Holds(v, n)' => Holds(v, n) /\ worker'[v] = worker[v] /\ Same(n)
  PROVE  HoldersPromise'
BY DEF PromiseInv, HoldersPromise, TriesKept, UnsentThisTry, SentIfTaken, Same

(* A step in which one worker comes, or goes on, to hold a message that     *)
(* nobody else holds.                                                       *)
LEMMA HolderGoesOn ==
  ASSUME PromiseInv, NEW w \in Workers, NEW m \in Messages, NEW state, Becomes(w, state),
         \A v \in Workers : v # w => ~Holds(v, m),
         OthersSame(m), state.msg = m, state.tries = message'[m].attempts,
         state.pc # "record" => accepted'[m] <= message'[m].attempts,
         state.pc = "record" /\ state.outcome = "accepted" => accepted'[m] > 0
  PROVE  HoldersPromise'
<1>1. worker'[w] = state /\ \A v \in Workers : v # w => worker'[v] = worker[v]
  BY OthersStay DEF PromiseInv, HoldInv
<1>2. ASSUME NEW v \in Workers, NEW n \in Messages, Holds(v, n)'
      PROVE  (v = w /\ n = m) \/ (v # w /\ Holds(v, n) /\ worker'[v] = worker[v] /\ Same(n))
  BY <1>1, <1>2 DEF Holds, OthersSame
<1> QED BY <1>1, <1>2 DEF PromiseInv, HoldersPromise, TriesKept, UnsentThisTry,
        SentIfTaken, Same

(* A worker that lets its message go.                                       *)
LEMMA HolderStops ==
  ASSUME PromiseInv, NEW w \in Workers, NEW m \in Messages,
         Returns(w) \/ GoTo(w, "more") \/ GoTo(w, "wake"),
         \A v \in Workers : v # w => ~Holds(v, m), OthersSame(m)
  PROVE  HoldersPromise'
<1>1. ASSUME NEW v \in Workers, NEW n \in Messages, Holds(v, n)'
      PROVE  v # w /\ Holds(v, n)
  BY <1>1, ReturnsHold, GoToHold DEF PromiseInv, HoldInv
<1>2. ASSUME NEW v \in Workers, NEW n \in Messages, Holds(v, n)'
      PROVE  Holds(v, n) /\ worker'[v] = worker[v] /\ Same(n)
  BY <1>1, <1>2, OthersStayPut DEF PromiseInv, HoldInv, OthersSame
<1> QED BY <1>2, HoldersLeft

LEMMA DeliverPromise ==
  ASSUME PromiseInv, NEW w \in Workers, Deliver(w)
  PROVE  HoldersPromise' /\ \E m \in Messages : Move(m) /\ OthersSame(m)
<1> USE DEF PromiseInv, HoldInv
<1> DEFINE m == worker[w].msg
<1>1. ~At(w, "idle") => m \in Messages
  BY WorkerState DEF At
<1>2. \A n \in Messages : message[n] \in MessageType
  BY RowType
<1>3. ASSUME worker[w].pc \in {"open", "send", "record"}
      PROVE  /\ m \in Messages /\ Holds(w, m) /\ message[m].status = "sending"
             /\ worker[w].tries = message[m].attempts
             /\ \A v \in Workers : v # w => ~Holds(v, m)
  <2>1. m \in Messages /\ Holds(w, m)
    BY <1>1, <1>3 DEF Holds, At
  <2> QED BY <2>1 DEF HoldersSending, OneHolder, HoldersPromise, TriesKept
<1>4. CASE Claim(w)
  <2>1. At(w, "claim") /\ m \in Messages /\ UNCHANGED accepted
    BY <1>1, <1>4 DEF Claim, At
  <2>2. CASE message' = [message EXCEPT ![m].due = "later"] /\ Returns(w)
    <3>1. \A n \in Messages : Same(n)
      BY <1>2, <2>1, <2>2 DEF Same, TypeOK, MessageType
    <3>2. HoldersPromise'
      BY <2>2, <3>1, ReturnsHold, OthersStayPut, HoldersLeft
    <3> QED BY <2>1, <3>1, <3>2 DEF Move, OthersSame
  <2>3. CASE /\ Claimable(m)
             /\ message' = [message EXCEPT ![m].status = "sending", ![m].lease = "held"]
             /\ Becomes(w, AtWork(w))
    <3>1. \A v \in Workers : ~Holds(v, m)
      BY <2>1, <2>3 DEF HoldersSending, Claimable, Due, Queued
    <3>2. /\ message'[m].status = "sending" /\ message'[m].attempts = message[m].attempts
          /\ \A n \in Messages : n # m => message'[n] = message[n]
      <4>1. message' = [message EXCEPT ![m] =
                          [message[m] EXCEPT !.status = "sending", !.lease = "held"]]
        BY <2>1, <2>3
      <4>2. m \in Messages /\ message \in [Messages -> MessageType]
        BY <2>1 DEF TypeOK
      <4> HIDE DEF m
      <4> QED BY <4>1, <4>2 DEF MessageType
    <3>3. message[m].status = "queued" /\ accepted[m] <= message[m].attempts
      BY <2>1, <2>3 DEF Claimable, Due, Queued, RowsPromise, GivenOncePerTry
    <3>4. /\ AtWork(w).msg = m /\ AtWork(w).tries = message'[m].attempts
          /\ AtWork(w).pc \in {"open", "send"}
      BY <3>2, WorkerState DEF AtWork, WorkerType
    <3>5. OthersSame(m)
      BY <2>1, <3>2 DEF OthersSame, Same
    <3>6. HoldersPromise'
      BY <2>1, <2>3, <3>1, <3>2, <3>3, <3>4, <3>5, HolderGoesOn
    <3>7. Untried(m) /\ Turns(m, "queued", "sending")
      BY <2>1, <3>2, <3>3 DEF Untried, Turns
    <3> QED BY <2>1, <3>5, <3>6, <3>7 DEF Move
  <2>4. CASE Skips(w) /\ UNCHANGED message
    <3>1. \A n \in Messages : Same(n)
      BY <2>1, <2>4 DEF Same
    <3>2. Returns(w) \/ GoTo(w, "more")
      BY <2>4 DEF Skips
    <3>3. HoldersPromise'
      BY <3>1, <3>2, ReturnsHold, GoToHold, OthersStayPut, HoldersLeft
    <3> QED BY <2>1, <3>1, <3>3 DEF Move, OthersSame
  <2> QED BY <1>4, <2>2, <2>3, <2>4 DEF Claim
<1>5. CASE Open(w)
  <2>1. At(w, "open") /\ UNCHANGED <<message, accepted>>
    BY <1>5 DEF Open
  <2>2. accepted[m] <= message[m].attempts
    BY <1>3, <2>1 DEF At, HoldersPromise, UnsentThisTry
  <2>3. \A n \in Messages : Same(n)
    BY <2>1 DEF Same
  <2>4. ASSUME NEW goal, Becomes(w, goal), goal.msg = m, goal.tries = worker[w].tries,
               goal.pc # "record" \/ goal.outcome # "accepted"
        PROVE  HoldersPromise'
    <3>1. OthersSame(m) /\ m \in Messages
      BY <1>3, <2>1, <2>3 DEF At, OthersSame
    <3>2. /\ \A v \in Workers : v # w => ~Holds(v, m)
          /\ goal.tries = message'[m].attempts /\ accepted'[m] <= message'[m].attempts
      BY <1>3, <2>1, <2>2, <2>4 DEF At
    <3> HIDE DEF m
    <3> QED BY <2>4, <3>1, <3>2, HolderGoesOn
  <2>5. ASSUME GoTo(w, "send") PROVE HoldersPromise'
    <3> DEFINE state == [worker[w] EXCEPT !.pc = "send"]
    <3>1. state.msg = m /\ state.tries = worker[w].tries /\ state.pc = "send"
      BY WorkerState DEF WorkerType
    <3>2. Becomes(w, state)
      BY <2>5 DEF GoTo
    <3> HIDE DEF state, m
    <3> QED BY <2>4, <3>1, <3>2
  <2>6. ASSUME NEW outcome \in {"temporary", "permanent"},
               Becomes(w, [worker[w] EXCEPT !.pc = "record", !.outcome = outcome])
        PROVE  HoldersPromise'
    <3> DEFINE state == [worker[w] EXCEPT !.pc = "record", !.outcome = outcome]
    <3>1. state.msg = m /\ state.tries = worker[w].tries /\ state.outcome = outcome
      BY WorkerState DEF WorkerType
    <3>2. Becomes(w, state)
      BY <2>6
    <3> HIDE DEF state, m
    <3> QED BY <2>4, <3>1, <3>2
  <2>7. HoldersPromise'
    BY <1>5, <2>5, <2>6 DEF Open
  <2> QED BY <1>3, <2>1, <2>3, <2>7 DEF At, Move, OthersSame
<1>6. CASE Send(w)
  <2>1. At(w, "send") /\ UNCHANGED message
    BY <1>6 DEF Send
  <2>2. accepted[m] <= message[m].attempts /\ accepted[m] \in Nat
    BY <1>3, <2>1 DEF At, HoldersPromise, UnsentThisTry, TypeOK
  <2>3. PICK outcome \in SendOutcomes :
          /\ Becomes(w, [worker[w] EXCEPT !.pc = "record",
               !.outcome = IF outcome = "lost" THEN "temporary" ELSE outcome])
          /\ IF outcome \in {"accepted", "lost"}
               THEN accepted' = [accepted EXCEPT ![m] = @ + 1]
               ELSE UNCHANGED accepted
    BY <1>6 DEF Send
  <2> DEFINE state == [worker[w] EXCEPT !.pc = "record",
                         !.outcome = IF outcome = "lost" THEN "temporary" ELSE outcome]
  <2>4. /\ state.msg = m /\ state.tries = worker[w].tries /\ state.pc = "record"
        /\ state.outcome = "accepted" => outcome = "accepted"
    BY WorkerState DEF WorkerType
  <2>5. Becomes(w, state)
    BY <2>3
  <2>6. OthersSame(m)
    BY <1>3, <2>1, <2>3 DEF At, OthersSame, Same, TypeOK
  <2>7. /\ outcome \in {"accepted", "lost"} => accepted'[m] = accepted[m] + 1
        /\ outcome \notin {"accepted", "lost"} => accepted'[m] = accepted[m]
    BY <1>3, <2>1, <2>3 DEF At, TypeOK
  <2> HIDE DEF state
  <2>8. state.outcome = "accepted" => accepted'[m] > 0
    BY <2>2, <2>4, <2>7
  <2>9. HoldersPromise'
    BY <1>3, <2>1, <2>4, <2>5, <2>6, <2>8, HolderGoesOn DEF At
  <2>10. Move(m)
    BY <1>3, <2>1, <2>2, <2>7 DEF At, Move, Same, Untried
  <2> QED BY <1>3, <2>1, <2>6, <2>9, <2>10 DEF At
<1>7. CASE RecordSent(w)
  <2>1. At(w, "record") /\ worker[w].outcome = "accepted" /\ UNCHANGED accepted
        /\ GoTo(w, "more")
    BY <1>7 DEF RecordSent
  <2>2. accepted[m] > 0
    BY <1>3, <2>1 DEF At, HoldersPromise, SentIfTaken
  <2>3. message' = [message EXCEPT ![m] =
          [message[m] EXCEPT !.status = "sent", !.sent = "recent", !.lease = "none",
                             !.attempts = worker[w].tries + 1]]
    BY <1>7 DEF RecordSent
  <2>4. message'[m].status = "sent" /\ message'[m].attempts = message[m].attempts + 1
    <3>1. message'[m] = [message[m] EXCEPT !.status = "sent", !.sent = "recent",
                                           !.lease = "none",
                                           !.attempts = worker[w].tries + 1]
      BY <1>3, <2>1, <2>3 DEF At, TypeOK
    <3>2. message[m] \in MessageType
      BY <1>2, <1>3, <2>1 DEF At
    <3> QED BY <1>3, <2>1, <3>1, <3>2 DEF At, MessageType
  <2>5. OthersSame(m)
    BY <2>1, <2>3 DEF OthersSame, Same, TypeOK
  <2>6. HoldersPromise'
    BY <1>3, <2>1, <2>5, HolderStops DEF At
  <2>7. Tried(m) /\ Turns(m, "sending", "sent")
    BY <1>3, <2>1, <2>4 DEF At, Tried, Turns
  <2> QED BY <1>3, <2>1, <2>2, <2>5, <2>6, <2>7 DEF At, Move
<1>8. CASE RecordFailure(w)
  <2> DEFINE again == worker[w].outcome = "temporary" /\ worker[w].tries + 1 < MaxAttempts
  <2>1. At(w, "record") /\ UNCHANGED <<accepted, edits>>
        /\ (Returns(w) \/ GoTo(w, "wake"))
    BY <1>8 DEF RecordFailure
  <2>2. message' = [message EXCEPT ![m] =
          [message[m] EXCEPT !.attempts = worker[w].tries + 1, !.lease = "none",
                             !.status = IF again THEN "queued" ELSE "failed",
                             !.due = IF again THEN "later" ELSE message[m].due]]
    BY <1>8 DEF RecordFailure
  <2>3. /\ message'[m].status = IF again THEN "queued" ELSE "failed"
        /\ message'[m].attempts = message[m].attempts + 1
    <3>1. message'[m] = [message[m] EXCEPT !.attempts = worker[w].tries + 1, !.lease = "none",
                           !.status = IF again THEN "queued" ELSE "failed",
                           !.due = IF again THEN "later" ELSE message[m].due]
      BY <1>3, <2>1, <2>2 DEF At, TypeOK
    <3>2. message[m] \in MessageType
      BY <1>2, <1>3, <2>1 DEF At
    <3> HIDE DEF again
    <3> QED BY <1>3, <2>1, <3>1, <3>2 DEF At, MessageType
  <2>4. OthersSame(m)
    BY <2>1, <2>2 DEF OthersSame, Same, TypeOK
  <2>5. HoldersPromise'
    BY <1>3, <2>1, <2>4, HolderStops DEF At
  <2>6. again => message[m].attempts + 1 < MaxAttempts + edits
    BY <1>3, <2>1, RowType, NumberAssumption DEF At, TypeOK
  <2>7. Tried(m) /\ (Turns(m, "sending", "failed") \/ (again /\ Turns(m, "sending", "queued")))
    BY <1>3, <2>1, <2>3 DEF At, Tried, Turns
  <2> HIDE DEF again
  <2> QED BY <1>3, <2>1, <2>4, <2>5, <2>6, <2>7 DEF At, Move
<1>9. CASE RecordWake(w) \/ More(w)
  <2>1. m \in Messages /\ UNCHANGED <<message, accepted>>
    BY <1>1, <1>9 DEF RecordWake, More, At
  <2>2. \A n \in Messages : Same(n)
    BY <2>1 DEF Same
  <2>3. ASSUME Returns(w) PROVE HoldersPromise'
    BY <2>2, <2>3, ReturnsHold, OthersStayPut, HoldersLeft
  <2>4. ASSUME NEW n \in Messages,
               Becomes(w, [worker[w] EXCEPT !.pc = "claim", !.msg = n, !.count = @ + 1])
        PROVE  HoldersPromise'
    <3> DEFINE state == [worker[w] EXCEPT !.pc = "claim", !.msg = n,
                                          !.count = worker[w].count + 1]
    <3>1. state.pc = "claim"
      BY WorkerState DEF WorkerType
    <3>2. Becomes(w, state)
      BY <2>4
    <3> HIDE DEF state
    <3> QED BY <2>2, <3>1, <3>2, OthersHold, OthersStay, HoldersLeft
  <2>5. Returns(w) \/ \E n \in Messages :
          Becomes(w, [worker[w] EXCEPT !.pc = "claim", !.msg = n, !.count = @ + 1])
    BY <1>9 DEF RecordWake, More
  <2>6. HoldersPromise'
    BY <2>3, <2>4, <2>5
  <2> QED BY <2>1, <2>2, <2>6 DEF Move, OthersSame
<1> QED BY <1>4, <1>5, <1>6, <1>7, <1>8, <1>9 DEF Deliver

LEMMA MessageStepsPromise ==
  ASSUME PromiseInv, ~SlowSends, NEW m \in Messages,
         Enqueue(m) \/ Reconciler(m) \/ Organizer(m) \/ Time(m)
  PROVE  HoldersPromise' /\ Move(m) /\ OthersSame(m)
<1> USE DEF PromiseInv, HoldInv
<1>1. UNCHANGED <<worker, accepted>>
  BY DEF Enqueue, Reconciler, RecoverExpired, RecoverOverdue, Abandon, Organizer, Retry,
         Cancel, Time, BecomesDue, TwoMinutesPass, LeaseEnds, WindowPasses, Tick
<1>2. OthersSame(m)
  <2>1. \A n \in Messages : n # m => message'[n] = message[n]
    BY DEF TypeOK, Enqueue, Reconciler, RecoverExpired, RecoverOverdue, Abandon,
           Organizer, Retry, Cancel, Time, BecomesDue, TwoMinutesPass, LeaseEnds,
           WindowPasses, Tick
  <2> QED BY <1>1, <2>1 DEF OthersSame, Same
<1>3. message[m] \in MessageType /\ m \in DOMAIN message
  BY RowType DEF TypeOK
<1>4. Move(m) /\ ((\E v \in Workers : Holds(v, m)) => Same(m))
  <2>1. ASSUME NEW v \in Workers, Holds(v, m)
        PROVE  message[m].status = "sending" /\ message[m].lease = "held"
    BY <2>1 DEF HoldersSending
  <2>2. CASE RecoverOverdue(m) \/ Abandon(m)
    BY <1>1, <2>2 DEF RecoverOverdue, Abandon, Move, Same
  <2>3. CASE Time(m)
    <3>1. message'[m].status = message[m].status
          /\ message'[m].attempts = message[m].attempts
      BY <1>3, <2>3 DEF Time, BecomesDue, TwoMinutesPass, LeaseEnds, WindowPasses, Tick,
         MessageType
    <3> QED BY <1>1, <3>1 DEF Move, Same
  <2>4. CASE Enqueue(m)
    <3>1. PICK to \in {"queued", "failed", "cancelled"} :
            message' = [message EXCEPT ![m].status = to] /\ message[m].status = "none"
      BY <2>4 DEF Enqueue
    <3>2. Untried(m) /\ Turns(m, "none", to)
      BY <1>1, <1>3, <3>1 DEF Untried, Turns, MessageType
    <3> QED BY <2>1, <3>1, <3>2 DEF Move
  <2>5. CASE RecoverExpired(m)
    <3> DEFINE again == message[m].attempts + 1 < MaxAttempts
    <3>1. /\ message[m].status = "sending" /\ message[m].lease = "expired"
          /\ message' = [message EXCEPT ![m] =
               [message[m] EXCEPT !.attempts = message[m].attempts + 1, !.lease = "none",
                                  !.status = IF again THEN "queued" ELSE "failed",
                                  !.due = IF again THEN "now" ELSE message[m].due]]
      BY <2>5 DEF RecoverExpired
    <3>2. again => message[m].attempts + 1 < MaxAttempts + edits
      BY RowType, NumberAssumption DEF TypeOK
    <3> HIDE DEF again
    <3>3. /\ message'[m].status = IF again THEN "queued" ELSE "failed"
          /\ message'[m].attempts = message[m].attempts + 1
      BY <1>3, <3>1 DEF MessageType
    <3>4. Tried(m) /\ (Turns(m, "sending", "failed")
                         \/ (again /\ Turns(m, "sending", "queued")))
      BY <1>1, <3>1, <3>3 DEF Tried, Turns
    <3> QED BY <2>1, <3>1, <3>2, <3>4 DEF Move
  <2>6. CASE Retry(m)
    <3>1. /\ message[m].status = "failed" /\ edits' = edits + 1
          /\ message' = [message EXCEPT ![m] =
               [message[m] EXCEPT !.status = "queued", !.due = "now", !.lease = "none"]]
      BY <2>6 DEF Retry
    <3>2. message'[m].status = "queued" /\ message'[m].attempts = message[m].attempts
      BY <1>3, <3>1 DEF MessageType
    <3>3. Untried(m) /\ Turns(m, "failed", "queued")
      BY <1>1, <3>1, <3>2 DEF Untried, Turns
    <3> QED BY <2>1, <3>1, <3>3 DEF Move
  <2>7. CASE Cancel(m)
    <3>1. message[m].status = "queued" /\ message' = [message EXCEPT ![m].status = "cancelled"]
      BY <2>7 DEF Cancel, Queued
    <3>2. Untried(m) /\ Turns(m, "queued", "cancelled")
      BY <1>1, <1>3, <3>1 DEF Untried, Turns, MessageType
    <3> QED BY <2>1, <3>1, <3>2 DEF Move
  <2> QED BY <2>2, <2>3, <2>4, <2>5, <2>6, <2>7 DEF Reconciler, Organizer
<1>5. HoldersPromise'
  BY <1>1, <1>2, <1>4, HoldersLeft DEF Holds, OthersSame
<1> QED BY <1>2, <1>4, <1>5

(* A worker that starts a task, or dies, changes no message.                *)
LEMMA StartCrashPromise ==
  ASSUME PromiseInv, NEW w \in Workers,
         Crash(w) \/ (\E m \in Messages : Start(w, m))
  PROVE  HoldersPromise' /\ \A n \in Messages : Move(n) /\ OthersSame(n)
<1> USE DEF PromiseInv, HoldInv
<1>1. \A n \in Messages : Same(n)
  BY DEF Crash, Start, Same
<1>2. ASSUME Returns(w) \/ UNCHANGED worker PROVE HoldersPromise'
  BY <1>1, <1>2, ReturnsHold, OthersStayPut, HoldersLeft DEF Holds
<1>3. ASSUME NEW m \in Messages,
             Becomes(w, [Idle EXCEPT !.pc = "claim", !.task = m, !.msg = m])
      PROVE  HoldersPromise'
  <2> DEFINE state == [Idle EXCEPT !.pc = "claim", !.task = m, !.msg = m]
  <2>1. state.pc = "claim"
    BY DEF Idle
  <2>2. Becomes(w, state)
    BY <1>3
  <2> HIDE DEF state
  <2> QED BY <1>1, <2>1, <2>2, OthersHold, OthersStay, HoldersLeft
<1>4. HoldersPromise'
  BY <1>2, <1>3 DEF Crash, Start
<1> QED BY <1>1, <1>4 DEF Move, OthersSame

LEMMA PromiseInit == Init => PromiseInv /\ AsMail!Init
<1> SUFFICES ASSUME Init PROVE PromiseInv /\ AsMail!Init
  OBVIOUS
<1>1. HoldInv
  BY HoldInit
<1>2. HoldersPromise
  BY DEF Init, Holds, Idle, HoldersPromise, TriesKept, UnsentThisTry, SentIfTaken
<1>3. RowsPromise
  BY NumberAssumption DEF Init, NewMessage, RowsPromise, GivenOncePerTry, TriesBounded
<1>4. AsMail!Init
  BY DEF Init, NewMessage, AsMail!Init
<1> QED BY <1>1, <1>2, <1>3, <1>4 DEF PromiseInv

LEMMA PromiseNext ==
  ASSUME ~SlowSends
  PROVE  PromiseInv /\ [Next]_vars => PromiseInv' /\ [AsMail!Next]_(AsMail!mail)
<1> SUFFICES ASSUME PromiseInv, [Next]_vars
             PROVE  PromiseInv' /\ [AsMail!Next]_(AsMail!mail)
  OBVIOUS
<1>1. HoldInv'
  BY HoldNext DEF PromiseInv
<1>2. edits' \in Nat /\ edits' >= edits /\ edits \in Nat
  <2>1. edits' = edits \/ edits' = edits + 1
    BY DEF Next, Worker, Start, Deliver, Claim, Open, Send, RecordSent, RecordFailure,
       RecordWake, More, Crash, Enqueue, Reconciler, RecoverExpired, RecoverOverdue,
       Abandon, Organizer, Retry, Cancel, Time, BecomesDue, TwoMinutesPass, LeaseEnds,
       WindowPasses, Tick, vars
  <2> QED BY <2>1 DEF PromiseInv, HoldInv, TypeOK
<1>3. ASSUME NEW m \in Messages, Move(m), OthersSame(m), HoldersPromise'
      PROVE  PromiseInv' /\ [AsMail!Next]_(AsMail!mail)
  <2>1. RowsPromise'
    BY <1>2, <1>3, MoveKeepsRows
  <2>2. [AsMail!Next]_(AsMail!mail)
    BY <1>1, <1>3, MoveIsMail DEF PromiseInv, HoldInv
  <2> QED BY <1>1, <1>3, <2>1, <2>2 DEF PromiseInv
<1>4. CASE UNCHANGED vars
  <2>1. UNCHANGED <<message, worker, accepted, edits>>
    BY <1>4 DEF vars
  <2>2. HoldersPromise' /\ RowsPromise'
    BY <2>1 DEF PromiseInv, HoldersPromise, RowsPromise, TriesKept, UnsentThisTry,
       SentIfTaken, GivenOncePerTry, TriesBounded, Holds
  <2> QED BY <1>1, <2>1, <2>2 DEF PromiseInv, AsMail!mail
<1>5. ASSUME NEW w \in Workers, Deliver(w)
      PROVE  PromiseInv' /\ [AsMail!Next]_(AsMail!mail)
  BY <1>3, <1>5, DeliverPromise
<1>6. ASSUME NEW m \in Messages, Enqueue(m) \/ Reconciler(m) \/ Organizer(m) \/ Time(m)
      PROVE  PromiseInv' /\ [AsMail!Next]_(AsMail!mail)
  BY <1>3, <1>6, MessageStepsPromise
<1>7. ASSUME NEW w \in Workers, NEW m \in Messages, Crash(w) \/ Start(w, m)
      PROVE  PromiseInv' /\ [AsMail!Next]_(AsMail!mail)
  BY <1>3, <1>7, StartCrashPromise
<1>8. ASSUME NEW w \in Workers, Crash(w)
      PROVE  PromiseInv' /\ [AsMail!Next]_(AsMail!mail)
  <2>1. worker[w].msg \in Messages
    BY <1>8, WorkerState DEF Crash, At, PromiseInv, HoldInv
  <2> QED BY <1>7, <1>8, <2>1
<1> QED BY <1>4, <1>5, <1>6, <1>7, <1>8 DEF Next, Worker

(* The outbox implements Mail: every message is tried one worker at a time, *)
(* given to the server once a try at most, each try counted, and none once  *)
(* it was sent or stopped, as long as a send ends before its lease does.    *)
THEOREM Implementation ==
  ASSUME ~SlowSends
  PROVE  Spec => ImplementsMail
<1>1. PromiseInv /\ [Next]_vars => PromiseInv' /\ [AsMail!Next]_(AsMail!mail)
  BY PromiseNext
<1> QED BY PromiseInit, <1>1, PTL DEF Spec, ImplementsMail, AsMail!Spec

LEMMA PromiseBounds == PromiseInv => SendsBounded
<1> SUFFICES ASSUME PromiseInv, NEW m \in Messages PROVE accepted[m] <= MaxAttempts + edits
  BY DEF SendsBounded
<1>1. /\ message[m].attempts \in Nat /\ accepted[m] \in Nat /\ edits \in Nat
      /\ MaxAttempts \in Nat
  BY RowType, NumberAssumption DEF PromiseInv, HoldInv, TypeOK
<1> QED BY <1>1 DEF PromiseInv, RowsPromise, GivenOncePerTry, TriesBounded

(* A message is given to the server no oftener than it may be tried: a      *)
(* worker's death and a lost answer are tries like others.                  *)
THEOREM BoundedSends ==
  ASSUME ~SlowSends
  PROVE  Spec => []SendsBounded
<1>1. PromiseInv /\ [Next]_vars => PromiseInv'
  BY PromiseNext
<1> QED BY PromiseInit, <1>1, PromiseBounds, PTL DEF Spec

===============================================================================
