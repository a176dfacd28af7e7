----------------------------- MODULE GroupSend -----------------------------
(***************************************************************************)
(* Sending a group email (pages/admin/email/SendDialog and what it shows,  *)
(* store/groupEmail; server mail/batches.py, templating/bulk.py): the list *)
(* an Admin reviews, adds to, replaces and unchecks, as answers about who  *)
(* there is come in; the confirmation; the send; and what its preparation  *)
(* makes of the keys it was given, when people have moved, unsubscribed or *)
(* been sent the email since.  GroupEmail has the copies' delivery; here a *)
(* copy is waiting until it is recorded sent.                              *)
(*                                                                         *)
(* A recipient's key is a number, in the event's order; their address may  *)
(* be another's too.  An ad-hoc filter finds everyone there is.            *)
(***************************************************************************)
EXTENDS Naturals, Sequences, FiniteSets

CONSTANTS None, Keys, Addresses,
          MaxBatches,  \* bounds the sends asked for, and the earlier one
          MaxNews      \* bounds the changes others make

\* Keys are in the event's order, and someone was sent the template before.
ASSUME SendAssumption ==
  /\ Keys \subseteq Nat /\ 1 \in Keys
  /\ None \notin Addresses \cup {"waiting", "sent"}
  /\ MaxNews \in Nat

VARIABLES
  person,        \* who is in the event: their address, and whether the template's filter finds them
  unsubscribed,  \* addresses
  sendDialog,    \* the open dialog, or None
  sends,         \* requests on their way: what each asks, and what was on screen for it
  batches,       \* the sends recorded
  news

sendVars == <<person, unsubscribed, sendDialog, sends, batches, news>>

Answer == [to : SUBSET Keys, reached : SUBSET Keys]
Wish == [keys : SUBSET Keys, skip : BOOLEAN, shown : SUBSET Keys]
ReviewDialog == [defaults : Answer \cup {None}, list : Answer \cup {None},
           picked : (SUBSET Keys) \cup {None}, found : Answer \cup {None},
           skip : BOOLEAN, confirm : Wish \cup {None}, waits : BOOLEAN]
Batch == [keys : SUBSET Keys, skip : BOOLEAN, shown : SUBSET Keys,
          at : {"scheduled", "expanding", "sending"}, to : [Keys -> Addresses \cup {None}],
          copy : [Keys -> {None, "waiting", "sent"}]]

SendTypeOK ==
  /\ person \in [Keys -> [here : BOOLEAN, address : Addresses, wanted : BOOLEAN]]
  /\ unsubscribed \subseteq Addresses
  /\ sendDialog = None \/ sendDialog \in ReviewDialog
  /\ \A i \in DOMAIN sends : sends[i] \in Wish
  /\ \A i \in DOMAIN batches : batches[i] \in Batch
  /\ news \in 0..MaxNews

-----------------------------------------------------------------------------
(* Who an audience reaches (resolve_recipients) *)

\* Of those asked about, the subscribed; of those at one address, the first.
Resolve(asked) ==
  LET able == {k \in asked : person[k].here /\ person[k].address \notin unsubscribed}
  IN {k \in able : \A j \in able : person[j].address = person[k].address => k <= j}

\* The keys the template was sent to, by other batches.
Sent(but) == {k \in Keys : \E i \in DOMAIN batches \ {but} : batches[i].copy[k] = "sent"}

Audience(filter) ==
  LET to == Resolve(IF filter = "template" THEN {k \in Keys : person[k].wanted} ELSE Keys)
  IN [to |-> to, reached |-> Sent(0) \cap to]

\* The template was sent to the first of them before.
Earlier(ps) ==
  [keys |-> {1}, skip |-> TRUE, shown |-> {1}, at |-> "sending",
   to |-> [k \in Keys |-> IF k = 1 THEN ps[1].address ELSE None],
   copy |-> [k \in Keys |-> IF k = 1 THEN "sent" ELSE None]]

SendInit ==
  /\ person \in [Keys -> [here : {TRUE}, address : Addresses, wanted : BOOLEAN]]
  /\ unsubscribed = {} /\ sendDialog = None /\ sends = <<>> /\ batches = <<Earlier(person)>> /\ news = 0

-----------------------------------------------------------------------------
(* The dialog *)

OpenDialog ==
  /\ sendDialog = None
  /\ sendDialog' = [defaults |-> None, list |-> None, picked |-> None,
                found |-> None, skip |-> TRUE, confirm |-> None, waits |-> FALSE]
  /\ UNCHANGED <<person, unsubscribed, sends, batches, news>>

CloseDialog ==
  /\ sendDialog # None /\ sendDialog.confirm = None
  /\ sendDialog' = None
  /\ UNCHANGED <<person, unsubscribed, sends, batches, news>>

\* The template's recipients, fetched and fetched again.
DefaultsCome ==
  /\ sendDialog # None
  /\ sendDialog' = [sendDialog EXCEPT !.defaults = Audience("template")]
  /\ UNCHANGED <<person, unsubscribed, sends, batches, news>>

Shown(d) == IF d.list # None THEN d.list ELSE d.defaults
Showing == sendDialog # None /\ Shown(sendDialog) # None /\ sendDialog.confirm = None
Selected(d) == IF d.picked # None THEN d.picked ELSE Shown(d).to
Chosen(d) == Shown(d).to \cap Selected(d)
ToSend(d) == IF d.skip THEN Chosen(d) \ Shown(d).reached ELSE Chosen(d)

\* RecipientReviewTable: one row's box, or all those a search shows.
Check(some, on) ==
  /\ Showing /\ some # {} /\ some \subseteq Shown(sendDialog).to
  /\ sendDialog' = [sendDialog EXCEPT !.picked = IF on THEN Selected(sendDialog) \cup some
                                               ELSE Selected(sendDialog) \ some]
  /\ UNCHANGED <<person, unsubscribed, sends, batches, news>>

SetSkip ==
  /\ Showing /\ Shown(sendDialog).reached # {}
  /\ sendDialog' = [sendDialog EXCEPT !.skip = ~@]
  /\ UNCHANGED <<person, unsubscribed, sends, batches, news>>

\* Choosing more: found by a filter, and found again as it and the data change.
FoundCome ==
  /\ Showing
  /\ sendDialog' = [sendDialog EXCEPT !.found = Audience("everyone")]
  /\ UNCHANGED <<person, unsubscribed, sends, batches, news>>

Add ==
  LET new == sendDialog.found.to \ Shown(sendDialog).to IN
  /\ Showing /\ sendDialog.found # None /\ new # {}
  /\ sendDialog' = [sendDialog EXCEPT
       !.list = [to |-> Shown(sendDialog).to \cup new,
                 reached |-> Shown(sendDialog).reached \cup (sendDialog.found.reached \cap new)],
       !.picked = Selected(sendDialog) \cup new, !.found = None]
  /\ UNCHANGED <<person, unsubscribed, sends, batches, news>>

Replace ==
  /\ Showing /\ sendDialog.found # None
  /\ sendDialog' = [sendDialog EXCEPT !.list = sendDialog.found,
                                      !.picked = sendDialog.found.to, !.found = None]
  /\ UNCHANGED <<person, unsubscribed, sends, batches, news>>

Asked(d) == [keys |-> Chosen(d), skip |-> d.skip, shown |-> Chosen(d)]

\* Send opens the confirmation, which keeps what is chosen then.
Press ==
  /\ Showing /\ ToSend(sendDialog) # {} /\ ~sendDialog.waits
  /\ sendDialog' = [sendDialog EXCEPT !.confirm = Asked(sendDialog)]
  /\ UNCHANGED <<person, unsubscribed, sends, batches, news>>

KeysAsListed == Shown(sendDialog).to                                           \* mutant
KeysToSend == sendDialog.confirm.keys

Confirm ==
  /\ sendDialog # None /\ sendDialog.confirm # None
  /\ Len(sends) + Len(batches) < MaxBatches
  /\ sends' = Append(sends, [sendDialog.confirm EXCEPT !.keys = KeysToSend])
  /\ sendDialog' = [sendDialog EXCEPT !.confirm = None, !.waits = TRUE]
  /\ UNCHANGED <<person, unsubscribed, batches, news>>

Back ==
  /\ sendDialog # None /\ sendDialog.confirm # None
  /\ sendDialog' = [sendDialog EXCEPT !.confirm = None]
  /\ UNCHANGED <<person, unsubscribed, sends, batches, news>>

-----------------------------------------------------------------------------
(* The server *)

\* create_batch.  The answer closes the dialog and has its lists fetched again, or is lost:
\* the dialog says so, and can send again.
SendArrives ==
  /\ sends # <<>>
  /\ batches' = Append(batches,
       [keys |-> Head(sends).keys, skip |-> Head(sends).skip, shown |-> Head(sends).shown,
        at |-> "scheduled", to |-> [k \in Keys |-> None], copy |-> [k \in Keys |-> None]])
  /\ sends' = Tail(sends)
  /\ IF sendDialog # None /\ sendDialog.waits
       THEN sendDialog' \in {None, [sendDialog EXCEPT !.waits = FALSE]} ELSE UNCHANGED sendDialog
  /\ UNCHANGED <<person, unsubscribed, news>>

\* The request never reaches the server.
SendFails ==
  /\ sends # <<>> /\ sends' = Tail(sends)
  /\ sendDialog' = IF sendDialog # None /\ sendDialog.waits THEN [sendDialog EXCEPT !.waits = FALSE] ELSE sendDialog
  /\ UNCHANGED <<person, unsubscribed, batches, news>>

\* expand: claimed, the data read, and who was sent it already.
ExpandReads(i) ==
  LET passed == IF batches[i].skip THEN Sent(i) ELSE {} IN
  /\ batches[i].at = "scheduled"
  /\ batches' = [batches EXCEPT ![i].at = "expanding",
       ![i].to = [k \in Keys |-> IF k \in Resolve(batches[i].keys) \ passed
                                   THEN person[k].address ELSE None]]
  /\ UNCHANGED <<person, unsubscribed, sendDialog, sends, news>>

\* A copy for each of them, to the address they had.
ExpandWrites(i) ==
  /\ batches[i].at = "expanding"
  /\ batches' = [batches EXCEPT ![i].at = "sending",
       ![i].copy = [k \in Keys |-> IF batches[i].to[k] = None THEN None ELSE "waiting"]]
  /\ UNCHANGED <<person, unsubscribed, sendDialog, sends, news>>

\* The outbox delivers a copy; one that can't be rendered or delivered stays unsent.
CopySent(i, k) ==
  /\ batches[i].copy[k] = "waiting"
  /\ batches' = [batches EXCEPT ![i].copy[k] = "sent"]
  /\ UNCHANGED <<person, unsubscribed, sendDialog, sends, news>>

-----------------------------------------------------------------------------
(* Others *)

Happens == news < MaxNews /\ news' = news + 1

\* A registrant or organizer changes someone's address or answers, or deletes them.
PersonChanges(k) ==
  /\ Happens /\ person[k].here
  /\ \E p \in [here : BOOLEAN, address : Addresses, wanted : BOOLEAN] :
       p # person[k] /\ person' = [person EXCEPT ![k] = p]
  /\ UNCHANGED <<unsubscribed, sendDialog, sends, batches>>

\* By the link at the foot of a copy, or by an organizer, who may take it back.
Unsubscribe(a) ==
  /\ Happens /\ unsubscribed' = IF a \in unsubscribed THEN unsubscribed \ {a} ELSE unsubscribed \cup {a}
  /\ UNCHANGED <<person, sendDialog, sends, batches>>

SendNext ==
  \/ OpenDialog \/ CloseDialog \/ DefaultsCome \/ SetSkip \/ FoundCome \/ Add \/ Replace
  \/ Press \/ Confirm \/ Back \/ SendArrives \/ SendFails
  \/ \E some \in SUBSET Keys, on \in BOOLEAN : Check(some, on)
  \/ \E i \in DOMAIN batches :
       \/ ExpandReads(i) \/ ExpandWrites(i)
       \/ \E k \in Keys : CopySent(i, k)
  \/ \E k \in Keys : PersonChanges(k)
  \/ \E a \in Addresses : Unsubscribe(a)

SendSpec == SendInit /\ [][SendNext]_sendVars

-----------------------------------------------------------------------------
(* Properties *)

Copies(i) == {k \in Keys : batches[i].copy[k] # None}

\* Whatever answers come between the list, the confirmation and the sending, a copy goes
\* only to someone who was listed and checked as Send was pressed (SendDialog.tsx, "The
\* admin reviews exactly who gets it").
OnlyReviewed == \A i \in DOMAIN batches : Copies(i) \subseteq batches[i].shown

\* Each address gets one copy of a send, whoever was at which as the list was made
\* (bulk.py _Collector.add).
OneEach ==
  \A i \in DOMAIN batches, k \in Keys :
    k \in Copies(i) => \A j \in Copies(i) \ {k} : batches[i].to[j] # batches[i].to[k]

\* A group email goes to those listed and checked as Send was pressed, once to an address
\* (SendDialog.tsx, bulk.py).
OnlyReviewedOnce == OnlyReviewed /\ OneEach

\* Only those who haven't received the email yet get one that skips the others
\* (SendDialog.tsx:319).  Two sends prepared before the copies of either are out break it.
NobodyTwice ==
  \A i, j \in DOMAIN batches, k \in Keys :
    i < j /\ batches[j].skip => ~(batches[i].copy[k] = "sent" /\ batches[j].copy[k] = "sent")
=============================================================================
