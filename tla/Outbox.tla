------------------------------- MODULE Outbox -------------------------------
(***************************************************************************)
(* The email outbox (src/server/camphoric/mail/outbox.py): the messages of *)
(* one sending account, delivered by any number of background workers.     *)
(*                                                                         *)
(* A message is a row with a status.  A delivery task is only a wake-up: a *)
(* worker that runs one reads the row, claims it (within the account's     *)
(* limit, under the account's row lock), sends, and records the outcome;   *)
(* having sent, it goes on over the same connection with the account's     *)
(* other due messages.  A worker may die anywhere.  The reconciler requeues *)
(* what a dead worker was sending, once its lease ran out, and wakes what  *)
(* lost its wake-up.                                                       *)
(*                                                                         *)
(* Times are abstracted to what the code compares them with: when a        *)
(* message is due, whether its lease ran out, whether it was sent within   *)
(* the limit's window.  One limit stands for the two (per minute, per day), *)
(* which the code treats alike; a lease outlasts its window, as the        *)
(* five minutes outlast the per-minute limit's.                            *)
(***************************************************************************)
EXTENDS Naturals, FiniteSets

CONSTANTS
  Messages,     \* the account's messages
  Workers,      \* the processes running tasks
  NoMessage,
  Unreachable,  \* the messages whose address is never sent to
  Urgent,       \* the messages of a kind ahead of the bulk ones
  SendOutcomes, \* how a send may end, see Send
  Limit,        \* messages the account may send in its window; 0 for no limit
  ChunkSize,    \* messages sent over one connection, at most
  MaxAttempts,  \* attempts after which a message fails
  SlowSends,    \* whether a send may outlast its message's lease
  MaxCrashes,   \* bound: processes that die
  MaxEdits      \* bound: retries and cancels by organizers

ASSUME MessageAssumption ==
  /\ IsFiniteSet(Messages) /\ NoMessage \notin Messages
  /\ Unreachable \subseteq Messages /\ Urgent \subseteq Messages
ASSUME OutcomeAssumption ==
  SendOutcomes \subseteq {"accepted", "lost", "temporary", "permanent"}
ASSUME NumberAssumption ==
  /\ Limit \in Nat /\ ChunkSize \in Nat \ {0} /\ MaxAttempts \in Nat \ {0}
  /\ MaxCrashes \in Nat /\ MaxEdits \in Nat /\ SlowSends \in BOOLEAN

VARIABLES
  message,   \* each message's row
  tasks,     \* its delivery tasks not yet run: ready, or deferred till it is due
  stuck,     \* the messages whose running task's worker died
  worker,    \* each worker: where it is in deliver(), and with which message
  accepted,  \* how often the mail server took each message
  onWire,    \* the messages it took within the limit's window
  crashes,   \* how many processes died
  edits      \* how many retries and cancels there were

vars == <<message, tasks, stuck, worker, accepted, onWire, crashes, edits>>

NewMessage == [status |-> "none", due |-> "now", attempts |-> 0,
               lease |-> "none", sent |-> "no"]
Idle == [pc |-> "idle", task |-> NoMessage, msg |-> NoMessage, tries |-> 0,
         outcome |-> "none", count |-> 0]

MessageType == [status: {"none", "queued", "sending", "sent", "failed", "cancelled"},
                due: {"later", "now", "overdue"}, attempts: Nat,
                lease: {"none", "held", "expired"}, sent: {"no", "recent", "old"}]
WorkerType == [pc: {"idle", "claim", "open", "send", "record", "wake", "more"},
               task: Messages \union {NoMessage}, msg: Messages \union {NoMessage},
               tries: Nat, outcome: {"none", "accepted", "temporary", "permanent"},
               count: Nat]

TypeOK ==
  /\ message \in [Messages -> MessageType]
  /\ tasks \in [Messages -> SUBSET {"ready", "deferred"}]
  /\ stuck \subseteq Messages
  /\ worker \in [Workers -> WorkerType]
  /\ \A w \in Workers : worker[w].pc # "idle" => worker[w].task # NoMessage
                                              /\ worker[w].msg # NoMessage
  /\ accepted \in [Messages -> Nat]
  /\ onWire \subseteq Messages
  /\ crashes \in Nat /\ edits \in Nat

Init ==
  /\ message = [m \in Messages |-> NewMessage]
  /\ tasks = [m \in Messages |-> {}]
  /\ stuck = {}
  /\ worker = [w \in Workers |-> Idle]
  /\ accepted = [m \in Messages |-> 0]
  /\ onWire = {}
  /\ crashes = 0 /\ edits = 0

-----------------------------------------------------------------------------
Queued(m) == message[m].status = "queued"
Due(m) == Queued(m) /\ message[m].due # "later"

(* A worker is between its claim of the message and recording the outcome.  *)
Holds(w, m) == worker[w].msg = m /\ worker[w].pc \in {"open", "send", "record"}

(* wake: the task is enqueued, to run now or when the message is due.       *)
Wake(m, when) == tasks' = [tasks EXCEPT ![m] = @ \union {when}]

(* The row is saved and then its task enqueued: the process may die between. *)
WakeUnlessKilled(m) ==
  \/ Wake(m, "ready") /\ UNCHANGED crashes
  \/ crashes < MaxCrashes /\ crashes' = crashes + 1 /\ UNCHANGED tasks

At(w, pc) == worker[w].pc = pc
Becomes(w, state) == worker' = [worker EXCEPT ![w] = state]
GoTo(w, pc) == Becomes(w, [worker[w] EXCEPT !.pc = pc])
Returns(w) == Becomes(w, Idle)

-----------------------------------------------------------------------------
(* enqueue: the row and its task in one transaction.  A message that can't  *)
(* be sent to is only recorded, as failed or, for a test's, as cancelled.    *)
Enqueue(m) ==
  /\ message[m].status = "none"
  /\ \E status \in IF m \in Unreachable THEN {"failed", "cancelled"} ELSE {"queued"} :
       message' = [message EXCEPT ![m].status = status]
  /\ IF m \in Unreachable THEN UNCHANGED tasks ELSE Wake(m, "ready")
  /\ UNCHANGED <<stuck, worker, accepted, onWire, crashes, edits>>

(* A worker takes a ready task; deliver reads the row, and skips one not     *)
(* queued or not due.  Two ready tasks of one message count as one.          *)
Start(w, m) ==
  /\ At(w, "idle") /\ "ready" \in tasks[m]
  /\ tasks' = [tasks EXCEPT ![m] = @ \ {"ready"}]
  /\ IF Due(m) THEN Becomes(w, [Idle EXCEPT !.pc = "claim", !.task = m, !.msg = m])
               ELSE UNCHANGED worker
  /\ UNCHANGED <<message, stuck, accepted, onWire, crashes, edits>>

CountedSentOnly ==                                         \* mutant
  {m \in Messages : message[m].status = "sent" /\ message[m].sent = "recent"}

(* What counts against the limit: sent within the window, or being sent.    *)
Counted == {m \in Messages : \/ message[m].status = "sent" /\ message[m].sent = "recent"
                             \/ message[m].status = "sending"}
Throttled == Limit > 0 /\ Cardinality(Counted) >= Limit

(* Nothing to do for this message: the task ends, or its chunk goes on.     *)
Skips(w) == IF worker[w].count = 0 THEN Returns(w) ELSE GoTo(w, "more")

ClaimableAsRead(m) == message[m].due # "later"             \* mutant

(* The UPDATE's condition: still queued, and still due.                     *)
Claimable(m) == Due(m)

AtWorkUnrefreshed(w) ==                                    \* mutant
  [worker[w] EXCEPT !.pc = IF worker[w].count = 0 THEN "open" ELSE "send"]

(* The message is read again once it is claimed, then sent over the         *)
(* connection there is.                                                     *)
AtWork(w) ==
  [worker[w] EXCEPT !.pc = IF worker[w].count = 0 THEN "open" ELSE "send",
                    !.tries = message[worker[w].msg].attempts]

(* _claim, in one transaction under the account's row lock.                 *)
Claim(w) ==
  LET m == worker[w].msg
  IN  /\ At(w, "claim")
      /\ \/ /\ Throttled /\ Queued(m)
            /\ message' = [message EXCEPT ![m].due = "later"]
            /\ Wake(m, "deferred") /\ Returns(w)
         \/ /\ ~Throttled /\ Claimable(m)
            /\ message' = [message EXCEPT ![m].status = "sending", ![m].lease = "held"]
            /\ Becomes(w, AtWork(w))
            /\ UNCHANGED tasks
         \/ /\ IF Throttled THEN ~Queued(m) ELSE ~Claimable(m)
            /\ Skips(w) /\ UNCHANGED <<message, tasks>>
      /\ UNCHANGED <<stuck, accepted, onWire, crashes, edits>>

(* mailer_for and open: the account may need fixing, or not answer.         *)
Open(w) ==
  /\ At(w, "open")
  /\ \/ GoTo(w, "send")
     \/ \E outcome \in SendOutcomes \intersect {"temporary", "permanent"} :
          Becomes(w, [worker[w] EXCEPT !.pc = "record", !.outcome = outcome])
  /\ UNCHANGED <<message, tasks, stuck, accepted, onWire, crashes, edits>>

(* The mail server takes the message, refuses it, or its answer is lost     *)
(* after it took it: an error like any temporary one.                       *)
Send(w) ==
  LET m == worker[w].msg
  IN  /\ At(w, "send")
      /\ \E outcome \in SendOutcomes :
           /\ Becomes(w, [worker[w] EXCEPT !.pc = "record",
                !.outcome = IF outcome = "lost" THEN "temporary" ELSE outcome])
           /\ IF outcome \in {"accepted", "lost"}
                THEN /\ accepted' = [accepted EXCEPT ![m] = @ + 1]
                     /\ onWire' = onWire \union {m}
                ELSE UNCHANGED <<accepted, onWire>>
      /\ UNCHANGED <<message, tasks, stuck, crashes, edits>>

(* The outcome is saved over the row, whatever became of it, and counts the  *)
(* attempts from what they were at the claim.  A failed send ends the task.  *)
RecordSent(w) ==
  /\ At(w, "record") /\ worker[w].outcome = "accepted"
  /\ message' = [message EXCEPT ![worker[w].msg] =
       [@ EXCEPT !.status = "sent", !.sent = "recent", !.lease = "none",
                 !.attempts = worker[w].tries + 1]]
  /\ GoTo(w, "more")
  /\ UNCHANGED <<tasks, stuck, accepted, onWire, crashes, edits>>

RecordFailure(w) ==
  LET m == worker[w].msg
      again == worker[w].outcome = "temporary" /\ worker[w].tries + 1 < MaxAttempts
  IN  /\ At(w, "record") /\ worker[w].outcome # "accepted"
      /\ message' = [message EXCEPT ![m] =
           [@ EXCEPT !.attempts = worker[w].tries + 1, !.lease = "none",
                     !.status = IF again THEN "queued" ELSE "failed",
                     !.due = IF again THEN "later" ELSE message[m].due]]
      /\ IF again THEN GoTo(w, "wake") ELSE Returns(w)
      /\ UNCHANGED <<tasks, stuck, accepted, onWire, crashes, edits>>

RecordWake(w) ==
  /\ At(w, "wake")
  /\ Wake(worker[w].msg, "deferred") /\ Returns(w)
  /\ UNCHANGED <<message, stuck, accepted, onWire, crashes, edits>>

MoreForgetsTask(w) ==                                      \* mutant
  /\ At(w, "more")
  /\ \/ \E m \in Messages : Due(m) /\ Becomes(w, [Idle EXCEPT !.pc = "claim", !.msg = m])
     \/ Returns(w)
  /\ UNCHANGED <<message, tasks, stuck, accepted, onWire, crashes, edits>>

(* _send_more: the account's next due message, the urgent first, until the   *)
(* chunk is done, its time is up or none are due.                           *)
More(w) ==
  /\ At(w, "more")
  /\ \/ /\ worker[w].count < ChunkSize - 1
        /\ \E m \in Messages :
             /\ Due(m)
             /\ m \notin Urgent => \A n \in Urgent : ~Due(n)
             /\ Becomes(w, [worker[w] EXCEPT !.pc = "claim", !.msg = m, !.count = @ + 1])
     \/ Returns(w)
  /\ UNCHANGED <<message, tasks, stuck, accepted, onWire, crashes, edits>>

(* The worker dies, or its watchdog ends it; its task stays "running".      *)
Crash(w) ==
  /\ ~At(w, "idle") /\ crashes < MaxCrashes
  /\ crashes' = crashes + 1
  /\ stuck' = stuck \union {worker[w].task}
  /\ Returns(w)
  /\ UNCHANGED <<message, tasks, accepted, onWire, edits>>

-----------------------------------------------------------------------------
(* The reconciler, every minute.                                            *)

RecoverUncounted(m) ==                                     \* mutant
  /\ message[m].status = "sending" /\ message[m].lease = "expired"
  /\ message' = [message EXCEPT ![m].status = "queued", ![m].due = "now", ![m].lease = "none"]
  /\ WakeUnlessKilled(m)
  /\ UNCHANGED <<stuck, worker, accepted, onWire, edits>>

(* A message whose lease ran out is tried again; the attempt counts.        *)
RecoverExpired(m) ==
  LET tries == message[m].attempts + 1
      again == tries < MaxAttempts
  IN  /\ message[m].status = "sending" /\ message[m].lease = "expired"
      /\ message' = [message EXCEPT ![m] =
           [@ EXCEPT !.attempts = tries, !.lease = "none",
                     !.status = IF again THEN "queued" ELSE "failed",
                     !.due = IF again THEN "now" ELSE message[m].due]]
      /\ IF again THEN WakeUnlessKilled(m) ELSE UNCHANGED <<tasks, crashes>>
      /\ UNCHANGED <<stuck, worker, accepted, onWire, edits>>

PendingOnceTried(m) == tasks[m] # {} \/ message[m].attempts > 0   \* mutant

(* _pending_message_ids: a delivery task for it is waiting, or running.     *)
Pending(m) ==
  \/ tasks[m] # {} \/ m \in stuck
  \/ \E w \in Workers : worker[w].task = m

RecoverOverdue(m) ==
  /\ Queued(m) /\ message[m].due = "overdue" /\ ~Pending(m)
  /\ Wake(m, "ready")
  /\ UNCHANGED <<message, stuck, worker, accepted, onWire, crashes, edits>>

(* _fail_abandoned_tasks: an hour on, the dead worker's task has failed.    *)
Abandon(m) ==
  /\ m \in stuck
  /\ stuck' = stuck \ {m}
  /\ UNCHANGED <<message, tasks, worker, accepted, onWire, crashes, edits>>

-----------------------------------------------------------------------------
(* The organizers.                                                          *)

Retry(m) ==
  /\ edits < MaxEdits /\ edits' = edits + 1
  /\ message[m].status = "failed" /\ m \notin Unreachable
  /\ message' = [message EXCEPT ![m] =
       [@ EXCEPT !.status = "queued", !.due = "now", !.lease = "none"]]
  /\ WakeUnlessKilled(m)
  /\ UNCHANGED <<stuck, worker, accepted, onWire>>

CancelUnsent(m) ==                                         \* mutant
  /\ edits < MaxEdits /\ edits' = edits + 1
  /\ message[m].status \in {"queued", "sending"}
  /\ message' = [message EXCEPT ![m].status = "cancelled"]
  /\ UNCHANGED <<tasks, stuck, worker, accepted, onWire, crashes>>

Cancel(m) ==
  /\ edits < MaxEdits /\ edits' = edits + 1
  /\ Queued(m)
  /\ message' = [message EXCEPT ![m].status = "cancelled"]
  /\ UNCHANGED <<tasks, stuck, worker, accepted, onWire, crashes>>

-----------------------------------------------------------------------------
(* Time.                                                                    *)

Tick(m, row) ==
  /\ message' = [message EXCEPT ![m] = row]
  /\ UNCHANGED <<stuck, worker, accepted, crashes, edits>>

BecomesDue(m) ==
  /\ message[m].due = "later" \/ "deferred" \in tasks[m]
  /\ Tick(m, [message[m] EXCEPT !.due = IF @ = "later" THEN "now" ELSE @])
  /\ tasks' = [tasks EXCEPT ![m] = IF "deferred" \in @ THEN {"ready"} ELSE @]
  /\ UNCHANGED onWire

TwoMinutesPass(m) ==
  /\ Queued(m) /\ message[m].due = "now"
  /\ Tick(m, [message[m] EXCEPT !.due = "overdue"]) /\ UNCHANGED <<tasks, onWire>>

(* The lease is for a worker that died; with SlowSends, for a slow one too. *)
LeaseEnds(m) ==
  /\ message[m].status = "sending" /\ message[m].lease = "held"
  /\ m \notin onWire
  /\ SlowSends \/ \A w \in Workers : ~Holds(w, m)
  /\ Tick(m, [message[m] EXCEPT !.lease = "expired"]) /\ UNCHANGED <<tasks, onWire>>

(* sent_at is written after the server took it, so it leaves the window last. *)
WindowPasses(m) ==
  \/ /\ m \in onWire
     /\ onWire' = onWire \ {m} /\ Tick(m, message[m]) /\ UNCHANGED tasks
  \/ /\ m \notin onWire /\ message[m].sent = "recent"
     /\ Tick(m, [message[m] EXCEPT !.sent = "old"]) /\ UNCHANGED <<tasks, onWire>>

-----------------------------------------------------------------------------
Deliver(w) ==
  \/ Claim(w) \/ Open(w) \/ Send(w) \/ RecordSent(w) \/ RecordFailure(w)
  \/ RecordWake(w) \/ More(w)

Worker(w) == (\E m \in Messages : Start(w, m)) \/ Deliver(w) \/ Crash(w)
Reconciler(m) == RecoverExpired(m) \/ RecoverOverdue(m) \/ Abandon(m)
Organizer(m) == Retry(m) \/ Cancel(m)
Time(m) == BecomesDue(m) \/ TwoMinutesPass(m) \/ LeaseEnds(m) \/ WindowPasses(m)

Next ==
  \/ \E w \in Workers : Worker(w)
  \/ \E m \in Messages : Enqueue(m) \/ Reconciler(m) \/ Organizer(m) \/ Time(m)

Spec == Init /\ [][Next]_vars

(* Some worker runs what is ready, a task begun goes on unless its worker    *)
(* dies, the reconciler runs every minute, and time passes.                  *)
FairSpec ==
  /\ Spec
  /\ \A w \in Workers : WF_vars(Deliver(w))
  /\ \A m \in Messages :
       /\ SF_vars(\E w \in Workers : Start(w, m))
       /\ WF_vars(Reconciler(m))
       /\ WF_vars(BecomesDue(m) \/ TwoMinutesPass(m) \/ LeaseEnds(m))
       /\ WF_vars(WindowPasses(m))

-----------------------------------------------------------------------------
(* Properties.                                                             *)

(* Any number of workers keep to the account's limit: what the mail server   *)
(* took within the window is never more (outbox.py:17, "under a row lock on  *)
(* the account, so any number of workers keep to them").                     *)
WithinLimit == Limit > 0 => Cardinality(onWire) <= Limit

(* Two workers are never sending one message, though its task, another        *)
(* task's chunk and the reconciler reach for it at once (_claim's UPDATE).    *)
OneHolder ==
  \A m \in Messages : \A v, w \in Workers : Holds(v, m) /\ Holds(w, m) => v = w

(* A message recorded as sent stays so and is not sent again, whichever tasks *)
(* for it run late or twice (outbox.py:5-7; DR-44, "a task that runs twice or *)
(* late can't send twice").                                                   *)
SentIsFinal ==
  [][\A m \in Messages : message[m].status = "sent" =>
       message'[m].status = "sent" /\ accepted'[m] = accepted[m]]_vars

(* A message an organizer stopped before it was sent is not sent after.       *)
CancelledIsFinal ==
  [][\A m \in Messages : message[m].status = "cancelled" =>
       message'[m].status = "cancelled" /\ accepted'[m] = accepted[m]]_vars

(* A message that kills its worker, or whose server answers badly, is not     *)
(* sent for ever: crashes count as attempts (recover, "so a message that      *)
(* kills its worker eventually fails instead of looping").                    *)
SendsBounded == \A m \in Messages : accepted[m] <= MaxAttempts + edits

(* The outbox implements Mail, through every claim, chunk, death, lost answer *)
(* and recovery (outbox.py:3-10).                                             *)
AsMail == INSTANCE Mail WITH
  status <- [m \in Messages |-> message[m].status],
  tries  <- [m \in Messages |-> message[m].attempts],
  given  <- accepted
ImplementsMail == AsMail!Spec

(* No message is lost: one queued is sent, fails or is stopped in the end,     *)
(* though workers die and wake-ups are lost (outbox.py:5-7).                   *)
Settles ==
  \A m \in Messages : Queued(m) ~> message[m].status \in {"sent", "failed", "cancelled"}
=============================================================================
