--------------------------------- MODULE Mail ---------------------------------
(***************************************************************************)
(* What the outbox promises of each message, whoever sends it: it is tried  *)
(* only after it was queued, one try at a time; a try gives it to the mail  *)
(* server once at most; every try is counted; and what was sent, or stopped *)
(* before it was, never moves again (src/server/camphoric/mail/outbox.py:3-10). *)
(***************************************************************************)
EXTENDS Naturals

CONSTANT Messages

VARIABLES
  status,   \* of each message
  tries,    \* how often sending it was tried, to the end
  given     \* how often the mail server took it

mail == <<status, tries, given>>

Init ==
  /\ status = [m \in Messages |-> "none"]
  /\ tries = [m \in Messages |-> 0]
  /\ given = [m \in Messages |-> 0]

Moves(m, from, to) == status[m] \in from /\ status' = [status EXCEPT ![m] = to]

Write(m) ==
  /\ \E to \in {"queued", "failed", "cancelled"} : Moves(m, {"none"}, to)
  /\ UNCHANGED <<tries, given>>

Begin(m) == Moves(m, {"queued"}, "sending") /\ UNCHANGED <<tries, given>>

(* Once in a try: of the tries before, each gave it once at most.           *)
Give(m) ==
  /\ status[m] = "sending" /\ given[m] <= tries[m]
  /\ given' = [given EXCEPT ![m] = @ + 1]
  /\ UNCHANGED <<status, tries>>

(* It is sent only if the server took it, and may fail though it did.       *)
End(m) ==
  /\ \/ Moves(m, {"sending"}, "sent") /\ given[m] > 0
     \/ \E to \in {"queued", "failed"} : Moves(m, {"sending"}, to)
  /\ tries' = [tries EXCEPT ![m] = @ + 1]
  /\ UNCHANGED given

TryAgain(m) == Moves(m, {"failed"}, "queued") /\ UNCHANGED <<tries, given>>

Stop(m) == Moves(m, {"queued"}, "cancelled") /\ UNCHANGED <<tries, given>>

Next ==
  \E m \in Messages : Write(m) \/ Begin(m) \/ Give(m) \/ End(m) \/ TryAgain(m) \/ Stop(m)

Spec == Init /\ [][Next]_mail
=============================================================================
