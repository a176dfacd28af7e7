-------------------------- MODULE InvitationProofs --------------------------
(***************************************************************************)
(* Proofs about Invitations: however many registrants send and complete     *)
(* forms started with one invitation while it is being deleted, one         *)
(* registration redeems it, no bed is given twice, and none is deleted that *)
(* was redeemed unseen.                                                     *)
(***************************************************************************)
EXTENDS Invitations, FiniteSetTheorems, SequenceTheorems, TLAPS

(* What the proofs take of the constants.                                   *)
InviteConstants ==
  /\ IsFiniteSet(Registrants) /\ Beds \in Nat
  /\ Organizer \notin Registrants /\ None \notin Registrants \cup Codes

Txn == [does : {"nothing", "send", "complete", "delete"}, code : Started, bed : BOOLEAN,
        wants : Seq(Rows), held : SUBSET Rows,
        then : {"registrations", "invitation", "cascade", "commit", "refuse"}]

InviteTypes == InviteTypeOK /\ txn \in [Actors -> Txn]

-----------------------------------------------------------------------------
(* The inductive invariant.                                                 *)

(* No row is locked by two transactions.                                    *)
Exclusive == \A a, b \in Actors : a # b => txn[a].held \cap txn[b].held = {}

Within(s, v) == \E i \in DOMAIN s : s[i] = v

(* A row a transaction holds, or has yet to lock.                           *)
Needs(t, row) == row \in t.held \/ Within(t.wants, row)

InvitationRow(code) == <<"invitation", code>>

Unredeemed(code) == \A r \in Registrants : registration[r].code # code

(* A registrant's step: what it found as it locked its rows still holds.     *)
Registers(r, t) ==
  /\ t.then \in {"commit", "refuse"}
  /\ t.does = "send" => page[r].at = "form"
  /\ t.does = "complete" => /\ page[r].at = "payment" /\ draft[r].bed = t.bed
                            /\ draft[r].code \in {t.code, None}
  /\ t.then = "commit" =>
       /\ t.code # None => Needs(t, InvitationRow(t.code))
       /\ t.bed => Needs(t, Lodging)
       /\ t.code # None /\ InvitationRow(t.code) \in t.held =>
            Unredeemed(t.code) /\ (t.does = "send" => invitation[t.code].st = "live")
       /\ Lodging \in t.held => Taken < Beds

(* The organizer's delete: it is of the invitation as the dialog had it.     *)
Deletes(t) ==
  /\ t.code \in Codes /\ dialog # None /\ dialog[1] = t.code
  /\ t.then \in {"cascade", "commit"} => Needs(t, InvitationRow(t.code))
  /\ t.then = "commit" => /\ InvitationRow(t.code) \in t.held
                          /\ invitation[t.code].version = dialog[2]

TxnInv(a) ==
  /\ txn[a].does = "nothing" => txn[a] = Idle
  /\ txn[a].does \in {"send", "complete"} => a \in Registrants /\ Registers(a, txn[a])
  /\ txn[a].does = "delete" => a = Organizer /\ Deletes(txn[a])

(* What names an invitation names a live one, and it links who redeemed it.  *)
Linked ==
  /\ \A r \in Registrants :
       /\ draft[r].code # None => invitation[draft[r].code].st = "live"
       /\ registration[r].code # None =>
            /\ registration[r].made
            /\ invitation[registration[r].code].st = "live"
            /\ invitation[registration[r].code].link = r
       /\ page[r].at # "done" => ~registration[r].made
  /\ \A c \in Codes :
       /\ invitation[c].link # None =>
            invitation[c].st = "live" /\ registration[invitation[c].link].code = c
       /\ invitation[c].link = None /\ invitation[c].st # "deleted" => invitation[c].version = 1

InviteInv ==
  /\ InviteConstants /\ InviteTypes /\ Exclusive /\ Linked /\ BedsHold
  /\ \A a \in Actors : TxnInv(a)

-----------------------------------------------------------------------------
(* Rows and the sequences they are locked in.                               *)
LEMMA RowTypes ==
  /\ Lodging \in Rows
  /\ \A r \in Registrants : <<"draft", r>> \in Rows /\ <<"registration", r>> \in Rows
  /\ \A c \in Codes : InvitationRow(c) \in Rows
BY DEF Rows, Lodging, InvitationRow

LEMMA TwoParts ==
  ASSUME NEW S, NEW s1 \in Seq(S), NEW s2 \in Seq(S)
  PROVE  /\ s1 \o s2 \in Seq(S)
         /\ \A v : Within(s1, v) => Within(s1 \o s2, v)
         /\ \A v : Within(s2, v) => Within(s1 \o s2, v)
<1>1. /\ s1 \o s2 \in Seq(S) /\ Len(s1 \o s2) = Len(s1) + Len(s2)
      /\ \A i \in 1..Len(s1) + Len(s2) :
           (s1 \o s2)[i] = IF i <= Len(s1) THEN s1[i] ELSE s2[i - Len(s1)]
  BY ConcatProperties
<1>2. /\ Len(s1) \in Nat /\ DOMAIN s1 = 1..Len(s1)
      /\ Len(s2) \in Nat /\ DOMAIN s2 = 1..Len(s2)
      /\ DOMAIN (s1 \o s2) = 1..Len(s1) + Len(s2)
  BY <1>1, LenProperties
<1>3. ASSUME NEW v, Within(s1, v) PROVE Within(s1 \o s2, v)
  <2>1. PICK i \in 1..Len(s1) : s1[i] = v
    BY <1>2, <1>3 DEF Within
  <2>2. i \in 1..Len(s1) + Len(s2) /\ i <= Len(s1)
    BY <1>2
  <2> QED BY <1>1, <1>2, <2>1, <2>2 DEF Within
<1>4. ASSUME NEW v, Within(s2, v) PROVE Within(s1 \o s2, v)
  <2>1. PICK i \in 1..Len(s2) : s2[i] = v
    BY <1>2, <1>4 DEF Within
  <2>2. PICK j \in 1..Len(s1) + Len(s2) : ~(j <= Len(s1)) /\ j - Len(s1) = i
    <3>1. Len(s1) + i \in 1..Len(s1) + Len(s2) /\ ~(Len(s1) + i <= Len(s1)) /\ (Len(s1) + i) - Len(s1) = i
      BY <1>2
    <3> QED BY <3>1
  <2> QED BY <1>1, <1>2, <2>1, <2>2 DEF Within
<1> QED BY <1>1, <1>3, <1>4

LEMMA LocksType ==
  ASSUME NEW r \in Registrants, NEW code \in Started, NEW bed \in BOOLEAN
  PROVE  /\ LocksOf(r, code, bed) \in Seq(Rows)
         /\ code # None => Within(LocksOf(r, code, bed), InvitationRow(code))
         /\ bed => Within(LocksOf(r, code, bed), Lodging)
<1> DEFINE d == <<<<"draft", r>>>>
           lodging == IF bed THEN <<Lodging>> ELSE <<>>
           inv == IF code = None THEN <<>> ELSE <<InvitationRow(code)>>
<1>1. d \in Seq(Rows) /\ lodging \in Seq(Rows) /\ inv \in Seq(Rows)
  <2>1. <<"draft", r>> \in Rows /\ Lodging \in Rows /\ (code # None => InvitationRow(code) \in Rows)
    BY RowTypes DEF Started
  <2> QED BY <2>1
<1>2. bed => Within(lodging, Lodging)
  BY DEF Within
<1>3. code # None => Within(inv, InvitationRow(code))
  BY DEF Within
<1>4. LocksOf(r, code, bed) = (d \o lodging) \o inv
  BY DEF LocksOf, InvitationRow
<1> HIDE DEF d, lodging, inv
<1>5. /\ d \o lodging \in Seq(Rows)
      /\ bed => Within(d \o lodging, Lodging)
  BY <1>1, <1>2, TwoParts
<1>6. /\ (d \o lodging) \o inv \in Seq(Rows)
      /\ bed => Within((d \o lodging) \o inv, Lodging)
      /\ code # None => Within((d \o lodging) \o inv, InvitationRow(code))
  BY <1>1, <1>3, <1>5, TwoParts
<1> QED BY <1>4, <1>6

(* Locking the first row a transaction wants leaves the others to lock.      *)
LEMMA RestOf ==
  ASSUME NEW S, NEW s \in Seq(S), s # <<>>
  PROVE  /\ Head(s) \in S /\ Tail(s) \in Seq(S)
         /\ \A v : Within(s, v) => v = Head(s) \/ Within(Tail(s), v)
<1>1. /\ Head(s) \in S /\ Head(s) = s[1] /\ Tail(s) \in Seq(S)
      /\ Len(s) \in Nat /\ DOMAIN s = 1..Len(s) /\ Len(s) # 0
      /\ Len(Tail(s)) = Len(s) - 1 /\ DOMAIN Tail(s) = 1..Len(s) - 1
      /\ \A i \in 1..Len(s) - 1 : Tail(s)[i] = s[i + 1]
  BY HeadTailProperties, LenProperties, EmptySeq
<1>2. ASSUME NEW v, NEW i \in 1..Len(s), s[i] = v
      PROVE  v = Head(s) \/ Within(Tail(s), v)
  <2>1. CASE i = 1
    BY <1>1, <1>2, <2>1
  <2>2. CASE i # 1
    <3>1. i - 1 \in 1..Len(s) - 1 /\ (i - 1) + 1 = i
      BY <1>1, <2>2
    <3> QED BY <1>1, <1>2, <3>1 DEF Within
  <2> QED BY <2>1, <2>2
<1> QED BY <1>1, <1>2 DEF Within

LEMMA NoneLeft == \A v : ~Within(<<>>, v)
BY DEF Within

LEMMA SetToSeqType ==
  ASSUME NEW S, IsFiniteSet(S)
  PROVE  SetToSeq(S) \in Seq(S)
<1>1. Cardinality(S) \in Nat /\ ExistsBijection(1..Cardinality(S), S)
  BY FS_CardinalityType
<1>2. \E f \in [1..Cardinality(S) -> S] : IsInjective(f)
  BY <1>1 DEF ExistsBijection, Bijection, Injection
<1>3. SetToSeq(S) \in [1..Cardinality(S) -> S]
  BY <1>2 DEF SetToSeq
<1> QED BY <1>1, <1>3, SeqDef

LEMMA InOrderType ==
  ASSUME InviteConstants, NEW kind \in {"draft", "registration"}, NEW rs \in SUBSET Registrants
  PROVE  InOrder(kind, rs) \in Seq(Rows)
<1> DEFINE S == {<<kind, r>> : r \in rs}
<1>1. IsFiniteSet(rs)
  BY FS_Subset DEF InviteConstants
<1>2. IsFiniteSet(S)
  <2> DEFINE f == [r \in rs |-> <<kind, r>>]
  <2>1. f \in Surjection(rs, S)
    BY DEF Surjection
  <2> QED BY <1>1, <2>1, FS_Surjection
<1>3. S \subseteq Rows
  BY RowTypes
<1>4. SetToSeq(S) \in Seq(S)
  BY <1>2, SetToSeqType
<1> QED BY <1>3, <1>4, SeqMonotonic DEF InOrder

-----------------------------------------------------------------------------
(* What a step keeps.                                                       *)

(* A transaction stands if nothing its registrant has, and nothing under a   *)
(* row it holds, goes back on what it found.                                *)
LEMMA Unmoved ==
  ASSUME InviteTypes, NEW b \in Actors, TxnInv(b), txn'[b] = txn[b],
         b \in Registrants /\ txn[b].does # "nothing" =>
           /\ page'[b].at = page[b].at /\ draft'[b].bed = draft[b].bed
           /\ draft'[b].code \in {draft[b].code, None},
         txn[b].does = "delete" => dialog' = dialog,
         \A c \in Codes : InvitationRow(c) \in txn[b].held =>
           /\ invitation'[c].version = invitation[c].version
           /\ invitation[c].st = "live" => invitation'[c].st = "live"
           /\ Unredeemed(c) => Unredeemed(c)',
         Lodging \in txn[b].held => (Taken < Beds => (Taken < Beds)')
  PROVE  TxnInv(b)'
<1>1. txn[b] \in Txn /\ (txn[b].code = None \/ txn[b].code \in Codes)
  BY DEF InviteTypes, Txn, Started
<1>2. CASE txn[b].does = "nothing"
  BY <1>2 DEF TxnInv, Idle
<1>3. CASE txn[b].does \in {"send", "complete"}
  <2>1. b \in Registrants /\ Registers(b, txn[b])
    BY <1>3 DEF TxnInv
  <2>2. Registers(b, txn[b])'
    BY <1>1, <1>3, <2>1 DEF Registers, Needs, Unredeemed
  <2> QED BY <1>3, <2>1, <2>2 DEF TxnInv
<1>4. CASE txn[b].does = "delete"
  <2>1. b = Organizer /\ Deletes(txn[b])
    BY <1>4 DEF TxnInv
  <2>2. Deletes(txn[b])'
    BY <1>1, <1>4, <2>1 DEF Deletes, Needs
  <2> QED BY <1>4, <2>1, <2>2 DEF TxnInv
<1> QED BY <1>1, <1>2, <1>3, <1>4 DEF Txn

(* The beds taken are counted.                                              *)
Bedded == {r \in Registrants : registration[r].made /\ registration[r].bed}

LEMMA TakenType ==
  ASSUME InviteConstants
  PROVE  IsFiniteSet(Bedded) /\ Taken = Cardinality(Bedded) /\ Taken \in Nat
<1>1. IsFiniteSet(Bedded)
  BY FS_Subset DEF InviteConstants, Bedded
<1> QED BY <1>1, FS_CardinalityType DEF Taken, Bedded

(* A step that leaves the rows as they are.                                 *)
LEMMA RowsUnchanged ==
  ASSUME InviteInv, InviteTypes', UNCHANGED <<draft, registration, page>>,
         \A c \in Codes :
           \/ invitation'[c] = invitation[c]
           \/ /\ invitation[c].st = "none" /\ invitation'[c].st = "live"
              /\ invitation'[c].version = invitation[c].version
              /\ invitation'[c].link = invitation[c].link
  PROVE  /\ Linked' /\ BedsHold'
         /\ \A b \in Actors : txn'[b] = txn[b] /\ (txn[b].does = "delete" => dialog' = dialog) => TxnInv(b)'
<1>1. Linked'
  BY DEF InviteInv, Linked, InviteTypes, InviteTypeOK, Invitation, Started
<1>2. BedsHold' /\ (Taken < Beds => (Taken < Beds)')
  BY DEF InviteInv, BedsHold, Taken
<1>3. ASSUME NEW c \in Codes
      PROVE  /\ invitation'[c].version = invitation[c].version
             /\ invitation[c].st = "live" => invitation'[c].st = "live"
             /\ Unredeemed(c) => Unredeemed(c)'
  BY DEF Unredeemed
<1>4. ASSUME NEW b \in Actors, txn'[b] = txn[b], txn[b].does = "delete" => dialog' = dialog
      PROVE  TxnInv(b)'
  BY <1>2, <1>3, <1>4, Unmoved DEF InviteInv
<1> QED BY <1>1, <1>2, <1>4

-----------------------------------------------------------------------------
(* The organizer's page.                                                    *)
LEMMA PageKeeps ==
  ASSUME InviteInv,
         \/ OpenForm \/ Refetch \/ Cancel
         \/ \E code \in Codes : Create(code) \/ Send(code) \/ AskDelete(code)
  PROVE  InviteInv'
<1>1. InviteTypes'
  <2> USE DEF InviteInv, InviteTypes, InviteTypeOK
  <2>1. CASE OpenForm
    BY <2>1 DEF OpenForm, Started
  <2>2. CASE Refetch
    BY <2>2 DEF Refetch
  <2>3. CASE Cancel
    BY <2>3 DEF Cancel
  <2>4. ASSUME NEW code \in Codes, Create(code) PROVE InviteTypes'
    <3>1. invitation' \in [Codes -> Invitation]
      <4>1. \A i \in Invitation : [i EXCEPT !.st = "live"] \in Invitation
        BY ONLY TRUE DEF Invitation
      <4> QED BY <2>4, <4>1 DEF Create
    <3>2. inviteForm' \in [at : {"closed", "open", "sending"}, code : Started]
      BY <2>4 DEF Create, Started
    <3> QED BY <2>4, <3>1, <3>2 DEF Create
  <2>5. ASSUME NEW code \in Codes, Send(code) PROVE InviteTypes'
    BY <2>5 DEF Send, Started
  <2>6. ASSUME NEW code \in Codes, AskDelete(code) PROVE InviteTypes'
    BY <2>6 DEF AskDelete, Invitation
  <2> QED BY <2>1, <2>2, <2>3, <2>4, <2>5, <2>6
<1>2. UNCHANGED <<draft, registration, page, txn>>
  BY DEF OpenForm, Refetch, Cancel, Create, Send, AskDelete
<1>3. ASSUME NEW c \in Codes
      PROVE  \/ invitation'[c] = invitation[c]
             \/ /\ invitation[c].st = "none" /\ invitation'[c].st = "live"
                /\ invitation'[c].version = invitation[c].version
                /\ invitation'[c].link = invitation[c].link
  <2>1. CASE \E code \in Codes : Create(code)
    BY <2>1 DEF Create, InviteInv, InviteTypes, InviteTypeOK, Invitation
  <2>2. CASE invitation' = invitation
    BY <2>2
  <2> QED BY <2>1, <2>2 DEF OpenForm, Refetch, Cancel, Send, AskDelete
<1>4. \A b \in Actors : txn[b].does = "delete" => dialog' = dialog
  <2>1. \A b \in Actors : txn[b].does = "delete" => txn[Organizer].does = "delete"
    BY DEF InviteInv, TxnInv
  <2> QED BY <2>1 DEF OpenForm, Refetch, Cancel, Create, Send, AskDelete, Idle
<1>5. Linked' /\ BedsHold' /\ \A b \in Actors : TxnInv(b)'
  BY <1>1, <1>2, <1>3, <1>4, RowsUnchanged
<1>6. Exclusive' /\ InviteConstants'
  BY <1>2 DEF InviteInv, Exclusive, InviteConstants
<1> QED BY <1>1, <1>5, <1>6 DEF InviteInv

LEMMA OpenLinkKeeps ==
  ASSUME InviteInv, NEW r \in Registrants, NEW code \in Codes, OpenLink(r, code)
  PROVE  InviteInv'
<1>1. InviteTypes'
  BY DEF InviteInv, InviteTypes, InviteTypeOK, OpenLink, Started
<1>2. \A b \in Registrants : page'[b].at = page[b].at
  BY DEF InviteInv, InviteTypes, InviteTypeOK, OpenLink
<1>3. Linked' /\ BedsHold' /\ Exclusive' /\ InviteConstants'
  BY <1>2 DEF InviteInv, Linked, BedsHold, Taken, Exclusive, InviteConstants, OpenLink
<1>4. ASSUME NEW b \in Actors PROVE TxnInv(b)'
  BY <1>2, Unmoved DEF InviteInv, OpenLink, Unredeemed, Taken
<1> QED BY <1>1, <1>3, <1>4 DEF InviteInv

-----------------------------------------------------------------------------
(* A transaction begins.                                                    *)
LEMMA TxnKeeps ==
  ASSUME InviteInv, NEW a \in Actors, txn' \in [Actors -> Txn],
         \A b \in Actors \ {a} : txn'[b] = txn[b] /\ txn'[a].held \cap txn[b].held = {},
         UNCHANGED <<invitation, draft, registration, page, list, inviteForm>>,
         dialog' \in {dialog, None}, a # Organizer => dialog' = dialog,
         TxnInv(a)'
  PROVE  InviteInv'
<1>1. InviteTypes'
  <2>1. \A b \in Actors : txn'[b] \in Txn
    OBVIOUS
  <2> QED BY <2>1 DEF InviteInv, InviteTypes, InviteTypeOK, Txn
<1>2. Exclusive'
  BY DEF InviteInv, Exclusive
<1>3. \A b \in Actors \ {a} : txn[b].does = "delete" => dialog' = dialog
  BY DEF InviteInv, TxnInv
<1>4. Linked' /\ BedsHold' /\ \A b \in Actors \ {a} : TxnInv(b)'
  BY <1>1, <1>3, RowsUnchanged
<1> QED BY <1>1, <1>2, <1>4 DEF InviteInv, InviteConstants

LEMMA Begins ==
  ASSUME InviteInv, NEW a \in Actors, NEW t \in Txn, t.held = {},
         txn' = [txn EXCEPT ![a] = t],
         UNCHANGED <<invitation, draft, registration, page, list, inviteForm, dialog>>,
         txn'[a] = t => TxnInv(a)'
  PROVE  InviteInv'
<1>1. txn' \in [Actors -> Txn] /\ txn'[a] = t /\ \A b \in Actors \ {a} : txn'[b] = txn[b]
  BY DEF InviteInv, InviteTypes
<1> QED BY <1>1, TxnKeeps

LEMMA SendFormKeeps ==
  ASSUME InviteInv, NEW r \in Registrants, NEW bed \in BOOLEAN, SendForm(r, bed)
  PROVE  InviteInv'
<1> DEFINE code == page[r].code
           t == [does |-> "send", code |-> code, bed |-> bed, wants |-> LocksOf(r, code, bed),
                 held |-> {}, then |-> "commit"]
<1>1. code \in Started /\ r \in Actors
  BY DEF InviteInv, InviteTypes, InviteTypeOK, Actors
<1>2. t \in Txn
  BY <1>1, LocksType DEF Txn
<1>3. Needs(t, InvitationRow(code)) \/ code = None
  BY <1>1, LocksType DEF Needs
<1>4. Needs(t, Lodging) \/ ~bed
  BY <1>1, LocksType DEF Needs
<1>5. txn'[r] = t => Registers(r, txn[r])'
  BY <1>3, <1>4 DEF Registers, SendForm, Needs
<1>6. txn'[r] = t => TxnInv(r)'
  <2>1. t.does = "send"
    OBVIOUS
  <2> HIDE DEF t
  <2> QED BY <1>5, <2>1 DEF TxnInv
<1>7. /\ txn[r] = Idle /\ txn' = [txn EXCEPT ![r] = t]
      /\ UNCHANGED <<invitation, draft, registration, page, list, inviteForm, dialog>>
  BY DEF SendForm, Begin
<1>8. t.held = {}
  OBVIOUS
<1> HIDE DEF t
<1> QED BY <1>1, <1>2, <1>6, <1>7, <1>8, Begins

LEMMA CompleteKeeps ==
  ASSUME InviteInv, NEW r \in Registrants, Complete(r)
  PROVE  InviteInv'
<1> DEFINE code == draft[r].code
           bed == draft[r].bed
           t == [does |-> "complete", code |-> code, bed |-> bed, wants |-> LocksOf(r, code, bed),
                 held |-> {}, then |-> "commit"]
<1>1. code \in Started /\ bed \in BOOLEAN /\ r \in Actors
  BY DEF InviteInv, InviteTypes, InviteTypeOK, Actors
<1>2. t \in Txn
  BY <1>1, LocksType DEF Txn
<1>3. Needs(t, InvitationRow(code)) \/ code = None
  BY <1>1, LocksType DEF Needs
<1>4. Needs(t, Lodging) \/ ~bed
  BY <1>1, LocksType DEF Needs
<1>5. txn'[r] = t => Registers(r, txn[r])'
  BY <1>3, <1>4 DEF Registers, Complete, Needs
<1>6. txn'[r] = t => TxnInv(r)'
  <2>1. t.does = "complete"
    OBVIOUS
  <2> HIDE DEF t
  <2> QED BY <1>5, <2>1 DEF TxnInv
<1>7. /\ txn[r] = Idle /\ txn' = [txn EXCEPT ![r] = t]
      /\ UNCHANGED <<invitation, draft, registration, page, list, inviteForm, dialog>>
  BY DEF Complete, Begin
<1>8. t.held = {}
  OBVIOUS
<1> HIDE DEF t
<1> QED BY <1>1, <1>2, <1>6, <1>7, <1>8, Begins

LEMMA DeleteKeeps ==
  ASSUME InviteInv, Delete
  PROVE  InviteInv'
<1> DEFINE code == dialog[1]
           wants == InOrder("draft", DraftsOf(code))
           t == [does |-> "delete", code |-> code, bed |-> FALSE, wants |-> wants,
                 held |-> {}, then |-> "registrations"]
<1>1. code \in Codes /\ Organizer \in Actors /\ dialog # None
  BY DEF InviteInv, InviteTypes, InviteTypeOK, Actors, Delete
<1>2. wants \in Seq(Rows)
  BY InOrderType DEF InviteInv, DraftsOf
<1>3. t \in Txn
  <2> HIDE DEF code, wants
  <2> QED BY <1>1, <1>2 DEF Txn, Started
<1>4. /\ txn[Organizer] = Idle /\ txn' = [txn EXCEPT ![Organizer] = t]
      /\ UNCHANGED <<invitation, draft, registration, page, list, inviteForm, dialog>>
  BY DEF Delete, Begin
<1>5. /\ t.does = "delete" /\ t.then = "registrations" /\ t.held = {} /\ t.code = dialog[1]
  OBVIOUS
<1>6. txn'[Organizer] = t => TxnInv(Organizer)'
  <2> HIDE DEF t, wants
  <2> QED BY <1>1, <1>4, <1>5 DEF TxnInv, Deletes
<1> HIDE DEF t
<1> QED BY <1>1, <1>3, <1>4, <1>5, <1>6, Begins

-----------------------------------------------------------------------------
(* A transaction goes on.                                                   *)
LEMMA GoesOn ==
  ASSUME InviteInv, NEW a \in Actors, NEW w \in Seq(Rows),
         NEW n \in {"registrations", "invitation", "cascade", "commit", "refuse"},
         txn' = [txn EXCEPT ![a].wants = w, ![a].then = n]
  PROVE  /\ txn' \in [Actors -> Txn] /\ \A b \in Actors \ {a} : txn'[b] = txn[b]
         /\ txn'[a].wants = w /\ txn'[a].then = n /\ txn'[a].held = txn[a].held
         /\ txn'[a].does = txn[a].does /\ txn'[a].code = txn[a].code /\ txn'[a].bed = txn[a].bed
<1>1. txn \in [Actors -> Txn] /\ txn[a] \in Txn
  BY DEF InviteInv, InviteTypes
<1>2. txn' \in [Actors -> Txn]
  BY <1>1 DEF Txn
<1>3. \A b \in Actors \ {a} : txn'[b] = txn[b]
  BY <1>1
<1>4. txn'[a].wants = w /\ txn'[a].then = n /\ txn'[a].held = txn[a].held
  BY <1>1 DEF Txn
<1>5. txn'[a].does = txn[a].does /\ txn'[a].code = txn[a].code /\ txn'[a].bed = txn[a].bed
  BY <1>1 DEF Txn
<1> QED BY <1>2, <1>3, <1>4, <1>5

LEMMA DeleteGoesOnKeeps ==
  ASSUME InviteInv, DeleteGoesOn
  PROVE  InviteInv'
<1> DEFINE t == txn[Organizer]
           w == CASE t.then = "registrations" -> InOrder("registration", RegistrationsOf(t.code))
                  [] t.then = "invitation" -> <<InvitationRow(t.code)>>
                  [] t.then = "cascade" -> IF Known THEN InOrder("draft", DraftsOf(t.code)) ELSE <<>>
           n == CASE t.then = "registrations" -> "invitation"
                  [] t.then = "invitation" -> "cascade"
                  [] t.then = "cascade" -> IF Known THEN "commit" ELSE "refuse"
<1>1. /\ Organizer \in Actors /\ t \in Txn /\ t.code \in Codes /\ txn \in [Actors -> Txn]
      /\ t.does = "delete" /\ t.wants = <<>> /\ Deletes(t)
      /\ t.then \in {"registrations", "invitation", "cascade"}
  BY DEF InviteInv, InviteTypes, TxnInv, Actors, DeleteGoesOn, Deletes
<1>2. w \in Seq(Rows)
  <2>1. CASE t.then = "registrations"
    <3>1. RegistrationsOf(t.code) \in SUBSET Registrants
      BY DEF RegistrationsOf
    <3>2. InOrder("registration", RegistrationsOf(t.code)) \in Seq(Rows)
      BY <3>1, InOrderType DEF InviteInv
    <3> QED BY <2>1, <3>2
  <2>2. CASE t.then = "invitation"
    <3>1. InvitationRow(t.code) \in Rows
      BY <1>1, RowTypes
    <3> QED BY <2>2, <3>1
  <2>3. CASE t.then = "cascade"
    <3>1. DraftsOf(t.code) \in SUBSET Registrants
      BY DEF DraftsOf
    <3>2. InOrder("draft", DraftsOf(t.code)) \in Seq(Rows)
      BY <3>1, InOrderType DEF InviteInv
    <3> QED BY <2>3, <3>2
  <2> QED BY <1>1, <2>1, <2>2, <2>3
<1>3. n \in {"invitation", "cascade", "commit", "refuse"}
  BY <1>1
<1>4. txn' = [txn EXCEPT ![Organizer].wants = w, ![Organizer].then = n]
  BY DEF DeleteGoesOn, InvitationRow
<1>5. UNCHANGED <<invitation, draft, registration, page, list, inviteForm, dialog>>
  BY DEF DeleteGoesOn
<1>6. n \in {"cascade", "commit"} =>
        InvitationRow(t.code) \in t.held \/ Within(w, InvitationRow(t.code))
  BY <1>1, NoneLeft DEF Deletes, Needs, Within
<1>7. n = "commit" => InvitationRow(t.code) \in t.held /\ invitation[t.code].version = dialog[2]
  BY <1>1, NoneLeft DEF Deletes, Needs, Known
<1> HIDE DEF w, n
<1>8. /\ txn' \in [Actors -> Txn] /\ \A b \in Actors \ {Organizer} : txn'[b] = txn[b]
      /\ txn'[Organizer].wants = w /\ txn'[Organizer].then = n /\ txn'[Organizer].held = t.held
      /\ txn'[Organizer].does = "delete" /\ txn'[Organizer].code = t.code
  BY <1>1, <1>2, <1>3, <1>4, GoesOn, ZenonT(60)
<1>9. TxnInv(Organizer)'
  BY <1>1, <1>3, <1>5, <1>6, <1>7, <1>8 DEF TxnInv, Deletes, Needs
<1>10. \A b \in Actors \ {Organizer} : txn'[Organizer].held \cap txn[b].held = {}
  BY <1>1, <1>8 DEF InviteInv, Exclusive
<1> QED BY <1>1, <1>5, <1>8, <1>9, <1>10, TxnKeeps

(* No registration with an invitation's code is one that names none.         *)
LEMMA NoneRedeemed ==
  ASSUME InviteInv, NEW c \in Codes
  PROVE  RegistrationsOf(c) = {} => Unredeemed(c)
BY DEF InviteInv, InviteConstants, Linked, RegistrationsOf, Unredeemed

LEMMA LockKeeps ==
  ASSUME InviteInv, NEW a \in Actors, Lock(a)
  PROVE  InviteInv'
<1> DEFINE t == txn[a]
           row == Head(t.wants)
           h == t.held \cup {row}
           w == IF Refused(a, row) THEN <<>> ELSE Tail(t.wants)
           n == IF Refused(a, row) THEN "refuse" ELSE t.then
<1>1. /\ t \in Txn /\ t.wants \in Seq(Rows) /\ t.wants # <<>> /\ t.held \in SUBSET Rows
      /\ t.then \in {"registrations", "invitation", "cascade", "commit", "refuse"}
      /\ t.code = None \/ t.code \in Codes
      /\ Free(a, row) /\ TxnInv(a)
  BY DEF InviteInv, InviteTypes, Txn, Lock, Started
<1>2. /\ row \in Rows /\ Tail(t.wants) \in Seq(Rows)
      /\ \A v : Within(t.wants, v) => v = row \/ Within(Tail(t.wants), v)
  BY <1>1, RestOf
<1>3. /\ h \in SUBSET Rows /\ w \in Seq(Rows)
      /\ n \in {"registrations", "invitation", "cascade", "commit", "refuse"}
  BY <1>1, <1>2
<1>4. txn' = [txn EXCEPT ![a].held = h, ![a].wants = w, ![a].then = n]
  BY DEF Lock
<1>5. UNCHANGED <<invitation, draft, registration, page, list, inviteForm, dialog>>
  BY DEF Lock
<1>6. /\ n \in {"commit", "cascade"} => n = t.then /\ w = Tail(t.wants) /\ ~Refused(a, row)
      /\ n = t.then \/ n = "refuse"
      /\ h = t.held \cup {row}
  OBVIOUS
<1>7. /\ ~Refused(a, row) /\ row = Lodging => Taken < Beds
      /\ ~Refused(a, row) /\ t.code # None /\ row = InvitationRow(t.code) =>
           /\ t.does \in {"send", "complete"} => Unredeemed(t.code)
           /\ t.does = "send" => invitation[t.code].st = "live"
  <2>1. Taken \in Nat /\ Beds \in Nat
    BY TakenType DEF InviteInv, InviteConstants
  <2>2. InvitationRow(t.code)[1] = "invitation"
    BY DEF InvitationRow
  <2>3. ~Refused(a, row) /\ row = Lodging => Taken < Beds
    BY <2>1 DEF Refused
  <2>4. ASSUME ~Refused(a, row), t.code # None, row = InvitationRow(t.code)
        PROVE  /\ t.does \in {"send", "complete"} => RegistrationsOf(t.code) = {}
               /\ t.does = "send" => invitation[t.code].st = "live"
    BY <2>2, <2>4 DEF Refused
  <2> QED BY <1>1, <2>3, <2>4, NoneRedeemed
<1> HIDE DEF h, w, n
<1>8. /\ txn' \in [Actors -> Txn] /\ \A b \in Actors \ {a} : txn'[b] = txn[b]
      /\ txn'[a].wants = w /\ txn'[a].then = n /\ txn'[a].held = h
      /\ txn'[a].does = t.does /\ txn'[a].code = t.code /\ txn'[a].bed = t.bed
  <2>1. txn \in [Actors -> Txn]
    BY DEF InviteInv, InviteTypes
  <2> HIDE DEF row
  <2>2. txn' \in [Actors -> Txn]
    BY <1>1, <1>3, <1>4, <2>1 DEF Txn
  <2>3. \A b \in Actors \ {a} : txn'[b] = txn[b]
    BY <1>4, <2>1
  <2>4. txn'[a].wants = w /\ txn'[a].then = n /\ txn'[a].held = h
    BY <1>1, <1>4, <2>1 DEF Txn
  <2>5. txn'[a].does = t.does /\ txn'[a].code = t.code /\ txn'[a].bed = t.bed
    BY <1>1, <1>4, <2>1 DEF Txn
  <2> QED BY <2>2, <2>3, <2>4, <2>5
<1>9. /\ t.then \in {"commit", "cascade"} /\ n = t.then => \A v : Needs(t, v) => Needs(txn'[a], v)
      /\ \A v : v \in h => v \in t.held \/ v = row
  BY <1>2, <1>6, <1>8 DEF Needs
<1>10. \A b \in Actors \ {a} : txn'[a].held \cap txn[b].held = {}
  BY <1>1, <1>6, <1>8 DEF InviteInv, Exclusive, Free
<1>11. TxnInv(a)'
  <2>1. CASE t.does = "nothing"
    BY <1>1, <2>1 DEF TxnInv, Idle
  <2>2. CASE t.does \in {"send", "complete"}
    <3>1. a \in Registrants /\ Registers(a, t)
      BY <1>1, <2>2 DEF TxnInv
    <3>2. txn'[a].then \in {"commit", "refuse"}
      BY <1>6, <1>8, <3>1 DEF Registers
    <3>3. Registers(a, txn[a])'
      <4> HIDE DEF row
      <4> QED BY <1>1, <1>5, <1>6, <1>7, <1>8, <1>9, <2>2, <3>1, <3>2 DEF Registers, Unredeemed, Taken
    <3> QED BY <1>8, <2>2, <3>1, <3>3 DEF TxnInv
  <2>3. CASE t.does = "delete"
    <3>1. a = Organizer /\ Deletes(t)
      BY <1>1, <2>3 DEF TxnInv
    <3>2. Deletes(txn[a])'
      <4> HIDE DEF row
      <4> QED BY <1>1, <1>5, <1>6, <1>8, <1>9, <2>3, <3>1 DEF Deletes
    <3> QED BY <1>8, <2>3, <3>1, <3>2 DEF TxnInv
  <2> QED BY <1>1, <2>1, <2>2, <2>3 DEF Txn
<1> QED BY <1>5, <1>8, <1>10, <1>11, TxnKeeps

-----------------------------------------------------------------------------
(* A transaction ends.                                                      *)
LEMMA Ended ==
  ASSUME InviteInv, NEW a \in Actors, txn' = [txn EXCEPT ![a] = Idle]
  PROVE  /\ txn' \in [Actors -> Txn] /\ txn'[a] = Idle /\ \A b \in Actors \ {a} : txn'[b] = txn[b]
         /\ \A b \in Actors \ {a} : txn'[a].held \cap txn[b].held = {}
         /\ Exclusive' /\ TxnInv(a)' /\ InviteConstants'
<1>1. Idle \in Txn /\ Idle.held = {} /\ Idle.does = "nothing"
  <2>1. <<>> \in Seq(Rows)
    BY EmptySeq
  <2> QED BY <2>1 DEF Idle, Txn, Started
<1>2. txn' \in [Actors -> Txn] /\ txn'[a] = Idle /\ \A b \in Actors \ {a} : txn'[b] = txn[b]
  BY <1>1 DEF InviteInv, InviteTypes
<1>3. Exclusive'
  BY <1>1, <1>2 DEF InviteInv, Exclusive
<1>4. TxnInv(a)'
  BY <1>1, <1>2 DEF TxnInv
<1> QED BY <1>1, <1>2, <1>3, <1>4 DEF InviteInv, InviteConstants

LEMMA UndoKeeps ==
  ASSUME InviteInv, NEW a \in Actors, Undo(a)
  PROVE  InviteInv'
<1>1. /\ txn' \in [Actors -> Txn] /\ TxnInv(a)'
      /\ \A b \in Actors \ {a} : txn'[b] = txn[b] /\ txn'[a].held \cap txn[b].held = {}
  BY Ended DEF Undo
<1> QED BY <1>1, TxnKeeps DEF Undo

LEMMA RefuseKeeps ==
  ASSUME InviteInv, NEW a \in Actors, Refuse(a)
  PROVE  InviteInv'
<1>1. /\ txn' \in [Actors -> Txn] /\ TxnInv(a)' /\ Exclusive' /\ InviteConstants'
      /\ \A b \in Actors \ {a} : txn'[b] = txn[b] /\ txn'[a].held \cap txn[b].held = {}
  BY Ended DEF Refuse
<1>2. CASE a = Organizer
  BY <1>1, <1>2, TxnKeeps DEF Refuse
<1>3. CASE a # Organizer
  <2>1. a \in Registrants /\ txn[a].does \in {"send", "complete"} /\ page[a].at \in {"form", "payment"}
    <3>1. a \in Registrants /\ txn[a].does # "nothing" /\ TxnInv(a) /\ txn[a] \in Txn
      BY <1>3 DEF InviteInv, InviteTypes, Refuse, Ready, Actors
    <3> QED BY <1>3, <3>1 DEF Txn, TxnInv, Registers
  <2>2. /\ page' \in [Registrants -> [at : {"form", "payment", "done"}, code : Started]]
        /\ page'[a].at \in {"form", "payment"}
        /\ \A b \in Registrants \ {a} : page'[b] = page[b]
    <3> DEFINE at == IF Lodging \in txn[a].held /\ Taken >= Beds THEN "form" ELSE page[a].at
    <3>1. page' = [page EXCEPT ![a].at = at] /\ at \in {"form", "payment"}
      BY <1>3, <2>1 DEF Refuse
    <3>2. page \in [Registrants -> [at : {"form", "payment", "done"}, code : Started]]
      BY DEF InviteInv, InviteTypes, InviteTypeOK
    <3> HIDE DEF at
    <3> QED BY <2>1, <3>1, <3>2
  <2>3. UNCHANGED <<invitation, draft, registration, list, inviteForm, dialog>>
    BY <1>3 DEF Refuse
  <2>4. InviteTypes'
    <3>1. \A b \in Actors : txn'[b] \in Txn
      BY <1>1
    <3> QED BY <1>1, <2>2, <2>3, <3>1 DEF InviteInv, InviteTypes, InviteTypeOK, Txn
  <2>5. Linked' /\ BedsHold'
    BY <2>1, <2>2, <2>3 DEF InviteInv, Linked, BedsHold, Taken
  <2>6. ASSUME NEW b \in Actors \ {a} PROVE TxnInv(b)'
    BY <1>1, <2>2, <2>3, Unmoved DEF InviteInv, Unredeemed, Taken
  <2> QED BY <1>1, <2>4, <2>5, <2>6 DEF InviteInv
<1> QED BY <1>2, <1>3

LEMMA SentKeeps ==
  ASSUME InviteInv, NEW r \in Registrants, Sent(r)
  PROVE  InviteInv'
<1>1. /\ r \in Actors /\ txn' \in [Actors -> Txn] /\ TxnInv(r)' /\ Exclusive' /\ InviteConstants'
      /\ \A b \in Actors \ {r} : txn'[b] = txn[b]
  BY Ended DEF Sent, Actors
<1>2. /\ txn[r] \in Txn /\ txn[r].does = "send" /\ txn[r].then = "commit" /\ txn[r].wants = <<>>
      /\ Registers(r, txn[r]) /\ page[r].at = "form"
  BY <1>1 DEF InviteInv, InviteTypes, TxnInv, Registers, Sent, Ready
<1>3. /\ draft' \in [Registrants -> [st : {"none", "sent", "gone"}, code : Started, bed : BOOLEAN]]
      /\ draft'[r].code = txn[r].code /\ \A b \in Registrants \ {r} : draft'[b] = draft[b]
  BY <1>2 DEF InviteInv, InviteTypes, InviteTypeOK, Sent, Txn
<1>4. /\ page' \in [Registrants -> [at : {"form", "payment", "done"}, code : Started]]
      /\ page'[r].at = "payment" /\ \A b \in Registrants \ {r} : page'[b] = page[b]
  BY DEF InviteInv, InviteTypes, InviteTypeOK, Sent
<1>5. UNCHANGED <<invitation, registration, list, inviteForm, dialog>>
  BY DEF Sent
<1>6. InviteTypes'
  <2>1. \A b \in Actors : txn'[b] \in Txn
    BY <1>1
  <2> QED BY <1>1, <1>3, <1>4, <1>5, <2>1 DEF InviteInv, InviteTypes, InviteTypeOK, Txn
<1>7. txn[r].code # None => invitation[txn[r].code].st = "live"
  BY <1>2, NoneLeft DEF Registers, Needs
<1>8. Linked' /\ BedsHold'
  BY <1>2, <1>3, <1>4, <1>5, <1>7 DEF InviteInv, Linked, BedsHold, Taken
<1>9. ASSUME NEW b \in Actors \ {r} PROVE TxnInv(b)'
  BY <1>1, <1>3, <1>4, <1>5, Unmoved DEF InviteInv, Unredeemed, Taken
<1> QED BY <1>1, <1>6, <1>8, <1>9 DEF InviteInv

(* Redeeming is of an invitation no registration had: it is at its first     *)
(* version still.                                                           *)
LEMMA CompletedKeeps ==
  ASSUME InviteInv, NEW r \in Registrants, Completed(r)
  PROVE  InviteInv'
<1> DEFINE t == txn[r]
           code == draft[r].code
           redeems == code # None /\ invitation[code].st = "live"
<1>1. /\ r \in Actors /\ txn' \in [Actors -> Txn] /\ TxnInv(r)' /\ Exclusive' /\ InviteConstants'
      /\ \A b \in Actors \ {r} : txn'[b] = txn[b]
  BY Ended DEF Completed, Actors
<1>2. /\ t \in Txn /\ t.does = "complete" /\ t.then = "commit" /\ t.wants = <<>>
      /\ Registers(r, t) /\ page[r].at = "payment"
  BY <1>1 DEF InviteInv, InviteTypes, TxnInv, Registers, Completed, Ready
<1>3. /\ draft[r].bed = t.bed /\ draft[r].bed \in BOOLEAN /\ code \in {t.code, None}
      /\ code = None \/ code \in Codes
      /\ code # None => InvitationRow(code) \in t.held /\ Unredeemed(code) /\ redeems
      /\ t.bed => Lodging \in t.held /\ Taken < Beds
  BY <1>2, NoneLeft DEF InviteInv, InviteTypes, InviteTypeOK, Linked, Registers, Needs, Started
<1>4. ~registration[r].made /\ \A c \in Codes : registration[r].code # c /\ invitation[c].link # r
  BY <1>2 DEF InviteInv, InviteTypes, InviteTypeOK, InviteConstants, Linked
<1>5. code # None => invitation[code].link = None /\ invitation[code].version = 1
  BY <1>3, SMTT(30) DEF InviteInv, InviteTypes, InviteTypeOK, Invitation, Linked, Unredeemed
<1>6. /\ registration' \in [Registrants -> [made : BOOLEAN, code : Started, bed : BOOLEAN]]
      /\ registration'[r].made /\ registration'[r].code = code /\ registration'[r].bed = t.bed
      /\ \A b \in Registrants \ {r} : registration'[b] = registration[b]
  BY <1>3 DEF InviteInv, InviteTypes, InviteTypeOK, Completed, Started
<1>7. /\ draft' \in [Registrants -> [st : {"none", "sent", "gone"}, code : Started, bed : BOOLEAN]]
      /\ draft'[r].code = None /\ \A b \in Registrants \ {r} : draft'[b] = draft[b]
  BY DEF InviteInv, InviteTypes, InviteTypeOK, Completed, Started
<1>8. /\ page' \in [Registrants -> [at : {"form", "payment", "done"}, code : Started]]
      /\ page'[r].at = "done" /\ \A b \in Registrants \ {r} : page'[b] = page[b]
  BY DEF InviteInv, InviteTypes, InviteTypeOK, Completed
<1>9. UNCHANGED <<list, inviteForm, dialog>>
  BY DEF Completed
<1>10. /\ invitation' \in [Codes -> Invitation]
       /\ \A c \in Codes \ {code} : invitation'[c] = invitation[c]
       /\ code # None => /\ invitation'[code].st = "live" /\ invitation'[code].link = r
  <2>1. CASE code = None
    BY <2>1 DEF InviteInv, InviteTypes, InviteTypeOK, Completed
  <2>2. CASE code # None
    <3>1. /\ invitation \in [Codes -> Invitation] /\ code \in Codes
          /\ invitation[code].version = 1 /\ invitation[code].st = "live"
      BY <1>3, <1>5, <2>2 DEF InviteInv, InviteTypes, InviteTypeOK
    <3>2. invitation' = [invitation EXCEPT ![code].link = r, ![code].version = @ + 1]
      BY <1>3, <2>2 DEF Completed
    <3> HIDE DEF code
    <3>3. invitation' \in [Codes -> Invitation]
      BY <3>1, <3>2 DEF Invitation
    <3>4. /\ \A c \in Codes \ {code} : invitation'[c] = invitation[c]
          /\ invitation'[code].st = "live" /\ invitation'[code].link = r
      BY <3>1, <3>2 DEF Invitation
    <3> QED BY <3>3, <3>4
  <2> QED BY <2>1, <2>2
<1>11. InviteTypes'
  <2>1. \A b \in Actors : txn'[b] \in Txn
    BY <1>1
  <2> QED BY <1>1, <1>6, <1>7, <1>8, <1>9, <1>10, <2>1 DEF InviteInv, InviteTypes, InviteTypeOK, Txn
<1>12. BedsHold' /\ (~t.bed => Taken' = Taken)
  <2>1. IsFiniteSet(Bedded) /\ Taken = Cardinality(Bedded) /\ Taken \in Nat /\ Beds \in Nat
    BY TakenType DEF InviteInv, InviteConstants
  <2>2. Taken' = Cardinality(Bedded')
    BY DEF Taken, Bedded
  <2>3. Bedded' = IF t.bed THEN Bedded \cup {r} ELSE Bedded
    BY <1>3, <1>4, <1>6 DEF Bedded
  <2>4. CASE t.bed
    <3>1. r \notin Bedded
      BY <1>4 DEF Bedded
    <3> HIDE DEF Bedded
    <3>2. Cardinality(Bedded \cup {r}) = Cardinality(Bedded) + 1
      BY <2>1, <3>1, FS_AddElement
    <3> QED BY <1>3, <2>1, <2>2, <2>3, <2>4, <3>2 DEF BedsHold
  <2>5. CASE ~t.bed
    BY <2>1, <2>2, <2>3, <2>5 DEF InviteInv, BedsHold
  <2> QED BY <2>4, <2>5
<1> HIDE DEF code
<1>13. Linked'
  <2>1. ASSUME NEW b \in Registrants
        PROVE  /\ draft'[b].code # None => invitation'[draft'[b].code].st = "live"
               /\ registration'[b].code # None =>
                    /\ registration'[b].made
                    /\ invitation'[registration'[b].code].st = "live"
                    /\ invitation'[registration'[b].code].link = b
               /\ page'[b].at # "done" => ~registration'[b].made
    <3>1. CASE b = r
      BY <1>6, <1>7, <1>8, <1>10, <3>1
    <3>2. CASE b # r
      <4>1. draft[b].code = None \/ draft[b].code \in Codes
        BY DEF InviteInv, InviteTypes, InviteTypeOK, Started
      <4>2. registration[b].code = None \/ registration[b].code \in Codes \ {code}
        BY <1>3 DEF InviteInv, InviteTypes, InviteTypeOK, Started, Unredeemed
      <4>3. /\ draft[b].code # None => invitation[draft[b].code].st = "live"
            /\ registration[b].code # None =>
                 /\ registration[b].made
                 /\ invitation[registration[b].code].st = "live"
                 /\ invitation[registration[b].code].link = b
            /\ page[b].at # "done" => ~registration[b].made
        BY DEF InviteInv, Linked
      <4>4. draft'[b] = draft[b] /\ registration'[b] = registration[b] /\ page'[b] = page[b]
        BY <1>6, <1>7, <1>8, <3>2
      <4>5. draft[b].code # None => invitation'[draft[b].code].st = "live"
        BY <1>10, <4>1, <4>3
      <4>6. registration[b].code # None => invitation'[registration[b].code] = invitation[registration[b].code]
        BY <1>10, <4>2
      <4> QED BY <4>3, <4>4, <4>5, <4>6
    <3> QED BY <3>1, <3>2
  <2>2. ASSUME NEW c \in Codes
        PROVE  /\ invitation'[c].link # None =>
                    invitation'[c].st = "live" /\ registration'[invitation'[c].link].code = c
               /\ invitation'[c].link = None /\ invitation'[c].st # "deleted" => invitation'[c].version = 1
    <3>1. CASE c = code
      <4>1. code # None /\ r # None
        BY <3>1 DEF InviteInv, InviteConstants
      <4> QED BY <1>6, <1>10, <3>1, <4>1
    <3>2. CASE c # code
      <4>1. invitation[c].link # None => invitation[c].link \in Registrants \ {r}
        BY <1>4 DEF InviteInv, InviteTypes, InviteTypeOK, Invitation
      <4> QED BY <1>6, <1>10, <3>2, <4>1 DEF InviteInv, Linked
    <3> QED BY <3>1, <3>2
  <2> QED BY <2>1, <2>2 DEF Linked
<1>14. ASSUME NEW b \in Actors \ {r} PROVE TxnInv(b)'
  <2>1. t.held \cap txn[b].held = {}
    BY <1>1 DEF InviteInv, Exclusive
  <2>2. ASSUME NEW c \in Codes, InvitationRow(c) \in txn[b].held
        PROVE  invitation'[c] = invitation[c] /\ (Unredeemed(c) => Unredeemed(c)')
    <3>1. c # code
      BY <1>3, <2>1, <2>2 DEF InviteInv, InviteConstants
    <3>2. invitation'[c] = invitation[c]
      BY <1>10, <3>1
    <3>3. Unredeemed(c) => Unredeemed(c)'
      BY <1>6, <3>1 DEF Unredeemed
    <3> QED BY <3>2, <3>3
  <2>3. Lodging \in txn[b].held => Taken' = Taken
    BY <1>3, <1>12, <2>1
  <2>4. Lodging \in txn[b].held => (Taken < Beds => (Taken < Beds)')
    BY <2>3
  <2>5. b \in Registrants => page'[b] = page[b] /\ draft'[b] = draft[b]
    BY <1>7, <1>8
  <2> QED BY <1>1, <1>9, <2>2, <2>4, <2>5, Unmoved DEF InviteInv
<1> QED BY <1>1, <1>11, <1>12, <1>13, <1>14 DEF InviteInv

LEMMA DeletedKeeps ==
  ASSUME InviteInv, Deleted
  PROVE  /\ InviteInv'
         /\ txn[Organizer].code = dialog[1] /\ invitation[dialog[1]].version = dialog[2]
         /\ \A c \in Codes \ {dialog[1]} : invitation'[c] = invitation[c]
<1> DEFINE code == txn[Organizer].code
<1>1. /\ Organizer \in Actors /\ txn' \in [Actors -> Txn] /\ TxnInv(Organizer)'
      /\ Exclusive' /\ InviteConstants' /\ \A b \in Actors \ {Organizer} : txn'[b] = txn[b]
  BY Ended DEF Deleted, Actors
<1>2. /\ txn[Organizer] \in Txn /\ txn[Organizer].does = "delete" /\ Deletes(txn[Organizer])
      /\ txn[Organizer].then = "commit"
  <2>1. /\ txn[Organizer] \in Txn /\ TxnInv(Organizer) /\ Organizer \notin Registrants
        /\ txn[Organizer].does # "nothing" /\ txn[Organizer].then = "commit"
    BY <1>1 DEF InviteInv, InviteTypes, InviteConstants, Deleted, Ready
  <2> QED BY <2>1 DEF TxnInv, Txn
<1>3. /\ code \in Codes /\ dialog[1] = code /\ InvitationRow(code) \in txn[Organizer].held
      /\ invitation[code].version = dialog[2] /\ code # None
  BY <1>2 DEF Deletes, InviteInv, InviteConstants
<1>4. /\ invitation' \in [Codes -> Invitation]
      /\ \A c \in Codes \ {code} : invitation'[c] = invitation[c]
      /\ invitation'[code].st = "deleted" /\ invitation'[code].link = None
  <2>1. invitation \in [Codes -> Invitation]
    BY DEF InviteInv, InviteTypes, InviteTypeOK
  <2>2. invitation' = [invitation EXCEPT ![code].st = "deleted", ![code].link = None]
    BY DEF Deleted
  <2> HIDE DEF code
  <2>3. invitation' \in [Codes -> Invitation]
    BY <1>3, <2>1, <2>2, ZenonT(60) DEF Invitation
  <2>4. /\ \A c \in Codes \ {code} : invitation'[c] = invitation[c]
        /\ invitation'[code].st = "deleted" /\ invitation'[code].link = None
    BY <1>3, <2>1, <2>2 DEF Invitation
  <2> QED BY <2>3, <2>4
<1>5. /\ draft' \in [Registrants -> [st : {"none", "sent", "gone"}, code : Started, bed : BOOLEAN]]
      /\ \A r \in Registrants :
           /\ draft'[r].code = IF draft[r].code = code THEN None ELSE draft[r].code
           /\ draft'[r].bed = draft[r].bed
  <2>1. draft \in [Registrants -> [st : {"none", "sent", "gone"}, code : Started, bed : BOOLEAN]]
    BY DEF InviteInv, InviteTypes, InviteTypeOK
  <2>2. draft' = [r \in Registrants |-> IF draft[r].code = code THEN [draft[r] EXCEPT !.code = None] ELSE draft[r]]
    BY DEF Deleted
  <2> HIDE DEF code
  <2>3. ASSUME NEW r \in Registrants
        PROVE  /\ draft'[r] \in [st : {"none", "sent", "gone"}, code : Started, bed : BOOLEAN]
               /\ draft'[r].code = IF draft[r].code = code THEN None ELSE draft[r].code
               /\ draft'[r].bed = draft[r].bed
    <3>1. draft[r] \in [st : {"none", "sent", "gone"}, code : Started, bed : BOOLEAN]
      BY <2>1
    <3>2. CASE draft[r].code = code
      <4>1. draft'[r] = [draft[r] EXCEPT !.code = None]
        BY <2>2, <3>2
      <4> QED BY <3>1, <3>2, <4>1 DEF Started
    <3>3. CASE draft[r].code # code
      BY <2>2, <3>1, <3>3
    <3> QED BY <3>2, <3>3
  <2>4. draft' = [r \in Registrants |-> draft'[r]]
    BY <2>2
  <2> QED BY <2>3, <2>4
<1>6. /\ registration' \in [Registrants -> [made : BOOLEAN, code : Started, bed : BOOLEAN]]
      /\ \A r \in Registrants :
           /\ registration'[r].code = IF registration[r].code = code THEN None ELSE registration[r].code
           /\ registration'[r].made = registration[r].made /\ registration'[r].bed = registration[r].bed
  <2>1. registration \in [Registrants -> [made : BOOLEAN, code : Started, bed : BOOLEAN]]
    BY DEF InviteInv, InviteTypes, InviteTypeOK
  <2>2. registration' = [r \in Registrants |->
          IF registration[r].code = code THEN [registration[r] EXCEPT !.code = None] ELSE registration[r]]
    BY DEF Deleted
  <2> HIDE DEF code
  <2> QED BY <2>1, <2>2 DEF Started
<1>7. dialog' = None /\ UNCHANGED <<page, list, inviteForm>>
  BY DEF Deleted
<1> HIDE DEF code
<1>8. InviteTypes'
  <2>1. \A b \in Actors : txn'[b] \in Txn
    BY <1>1
  <2> QED BY <1>1, <1>4, <1>5, <1>6, <1>7, <2>1 DEF InviteInv, InviteTypes, InviteTypeOK, Txn
<1>9. Taken' = Taken /\ BedsHold'
  BY <1>6 DEF InviteInv, BedsHold, Taken
<1>10. Linked'
  <2>1. ASSUME NEW r \in Registrants
        PROVE  /\ draft'[r].code # None => invitation'[draft'[r].code].st = "live"
               /\ registration'[r].code # None =>
                    /\ registration'[r].made
                    /\ invitation'[registration'[r].code].st = "live"
                    /\ invitation'[registration'[r].code].link = r
               /\ page'[r].at # "done" => ~registration'[r].made
    <3>1. draft[r].code \in Codes \cup {None} /\ registration[r].code \in Codes \cup {None}
      BY DEF InviteInv, InviteTypes, InviteTypeOK, Started
    <3>2. /\ draft[r].code # None => invitation[draft[r].code].st = "live"
          /\ registration[r].code # None =>
               /\ registration[r].made
               /\ invitation[registration[r].code].st = "live"
               /\ invitation[registration[r].code].link = r
          /\ page[r].at # "done" => ~registration[r].made
      BY DEF InviteInv, Linked
    <3>3. draft'[r].code # None => draft'[r].code = draft[r].code /\ draft[r].code \in Codes \ {code}
      BY <1>5, <3>1
    <3>4. registration'[r].code # None =>
            registration'[r].code = registration[r].code /\ registration[r].code \in Codes \ {code}
      BY <1>6, <3>1
    <3> QED BY <1>4, <1>6, <1>7, <3>2, <3>3, <3>4
  <2>2. ASSUME NEW c \in Codes
        PROVE  /\ invitation'[c].link # None =>
                    invitation'[c].st = "live" /\ registration'[invitation'[c].link].code = c
               /\ invitation'[c].link = None /\ invitation'[c].st # "deleted" => invitation'[c].version = 1
    <3>1. invitation[c].link # None => invitation[c].link \in Registrants
      BY DEF InviteInv, InviteTypes, InviteTypeOK, Invitation
    <3> QED BY <1>4, <1>6, <3>1 DEF InviteInv, Linked
  <2> QED BY <2>1, <2>2 DEF Linked
<1>11. ASSUME NEW b \in Actors \ {Organizer} PROVE TxnInv(b)'
  <2>1. txn[Organizer].held \cap txn[b].held = {} /\ TxnInv(b)
    BY <1>1 DEF InviteInv, Exclusive
  <2>2. ASSUME NEW c \in Codes, InvitationRow(c) \in txn[b].held
        PROVE  invitation'[c] = invitation[c] /\ (Unredeemed(c) => Unredeemed(c)')
    <3>1. c # code
      BY <1>3, <2>1, <2>2
    <3>2. Unredeemed(c) => Unredeemed(c)'
      BY <1>6 DEF Unredeemed, InviteInv, InviteConstants
    <3> QED BY <1>4, <3>1, <3>2
  <2>3. txn[b].does # "delete"
    BY <2>1 DEF TxnInv
  <2>4. b \in Registrants =>
          page'[b] = page[b] /\ draft'[b].bed = draft[b].bed /\ draft'[b].code \in {draft[b].code, None}
    BY <1>5, <1>7
  <2>5. Taken < Beds => (Taken < Beds)'
    BY <1>9
  <2> QED BY <1>1, <2>1, <2>2, <2>3, <2>4, <2>5, Unmoved DEF InviteInv
<1> QED BY <1>1, <1>3, <1>4, <1>8, <1>9, <1>10, <1>11 DEF InviteInv, code

-----------------------------------------------------------------------------
(* The specification.                                                       *)
LEMMA InviteInvInit ==
  ASSUME InviteConstants, InviteInit
  PROVE  InviteInv
<1>1. Idle \in Txn /\ Idle.held = {} /\ Idle.does = "nothing" /\ Absent \in Invitation
      /\ Absent.link = None /\ Absent.version = 1
  <2>1. <<>> \in Seq(Rows)
    BY EmptySeq
  <2> QED BY <2>1 DEF Idle, Txn, Started, Absent, Invitation
<1>2. InviteTypes
  BY <1>1 DEF InviteTypes, InviteTypeOK, InviteInit, Txn, Started
<1>3. Exclusive /\ \A a \in Actors : TxnInv(a)
  BY <1>1 DEF InviteInit, Exclusive, TxnInv
<1>4. Linked
  BY <1>1 DEF InviteInit, Linked
<1>5. BedsHold
  <2>1. Bedded = {}
    BY DEF InviteInit, Bedded
  <2>2. Taken = 0
    BY <2>1, TakenType, FS_EmptySet
  <2> QED BY <2>2 DEF InviteConstants, BedsHold
<1> QED BY <1>2, <1>3, <1>4, <1>5 DEF InviteInv

LEMMA InviteStep ==
  ASSUME InviteInv, [InviteNext]_inviteVars
  PROVE  InviteInv'
<1>1. CASE UNCHANGED inviteVars
  <2>1. InviteTypes' /\ Exclusive' /\ InviteConstants'
    BY <1>1 DEF InviteInv, InviteTypes, InviteTypeOK, Exclusive, InviteConstants, inviteVars
  <2>2. Linked' /\ BedsHold' /\ \A b \in Actors : TxnInv(b)'
    BY <1>1, <2>1, RowsUnchanged DEF inviteVars
  <2> QED BY <2>1, <2>2 DEF InviteInv
<1>2. CASE OpenForm \/ Refetch \/ Cancel
  BY <1>2, PageKeeps
<1>3. CASE \E code \in Codes : Create(code) \/ Send(code) \/ AskDelete(code)
  BY <1>3, PageKeeps
<1>4. CASE \E code \in Codes : \E r \in Registrants : OpenLink(r, code)
  BY <1>4, OpenLinkKeeps
<1>5. CASE Delete \/ DeleteGoesOn \/ Deleted
  BY <1>5, DeleteKeeps, DeleteGoesOnKeeps, DeletedKeeps
<1>6. CASE \E r \in Registrants : \/ \E bed \in BOOLEAN : SendForm(r, bed)
                                 \/ Complete(r) \/ Sent(r) \/ Completed(r)
  BY <1>6, SendFormKeeps, CompleteKeeps, SentKeeps, CompletedKeeps
<1>7. CASE \E a \in Actors : Lock(a) \/ Refuse(a) \/ Undo(a)
  BY <1>7, LockKeeps, RefuseKeeps, UndoKeeps
<1> QED BY <1>1, <1>2, <1>3, <1>4, <1>5, <1>6, <1>7 DEF InviteNext

LEMMA InviteInvariant ==
  ASSUME InviteConstants
  PROVE  InviteSpec => []InviteInv
<1>1. InviteInit => InviteInv
  BY InviteInvInit
<1>2. InviteInv /\ [InviteNext]_inviteVars => InviteInv'
  BY InviteStep
<1> QED BY <1>1, <1>2, PTL DEF InviteSpec

(* The variables have their types: what the organizer's page, the            *)
(* registration pages and the transactions of RegisterView and of a delete   *)
(* hold is always of the kind InviteTypeOK says.                            *)
THEOREM InviteTypeCorrect ==
  ASSUME InviteConstants
  PROVE  InviteSpec => []InviteTypeOK
<1>1. InviteInv => InviteTypeOK
  BY DEF InviteInv, InviteTypes
<1> QED BY <1>1, InviteInvariant, PTL

(* However many registrations are completed at once with one invitation, and *)
(* even as it is deleted, one at most redeems it, and it links that one      *)
(* (redeem_invitation under the locks of registration_from_draft).           *)
THEOREM OneRedeems ==
  ASSUME InviteConstants
  PROVE  InviteSpec => []RedeemedOnce
<1>1. InviteInv => RedeemedOnce
  <2> SUFFICES ASSUME InviteInv, NEW c \in Codes
               PROVE  /\ Cardinality(RegistrationsOf(c)) <= 1
                      /\ invitation[c].st = "live" => RegistrationsOf(c) = {invitation[c].link} \ {None}
    BY DEF RedeemedOnce
  <2>1. /\ c # None /\ None \notin Registrants
        /\ invitation[c].link # None => invitation[c].link \in Registrants
    BY DEF InviteInv, InviteConstants, InviteTypes, InviteTypeOK, Invitation
  <2>2. RegistrationsOf(c) \subseteq {invitation[c].link}
    BY <2>1 DEF InviteInv, Linked, RegistrationsOf
  <2>3. invitation[c].link # None => invitation[c].link \in RegistrationsOf(c)
    BY <2>1 DEF InviteInv, Linked, RegistrationsOf
  <2>4. None \notin RegistrationsOf(c)
    BY <2>1 DEF RegistrationsOf
  <2>5. Cardinality(RegistrationsOf(c)) <= 1
    <3>1. IsFiniteSet({invitation[c].link}) /\ Cardinality({invitation[c].link}) = 1
      BY FS_Singleton
    <3>2. Cardinality(RegistrationsOf(c)) <= Cardinality({invitation[c].link})
      BY <2>2, <3>1, FS_Subset
    <3> QED BY <3>1, <3>2
  <2> QED BY <2>2, <2>3, <2>4, <2>5
<1> QED BY <1>1, InviteInvariant, PTL

(* However many registrations ask for a bed and complete at once, no more    *)
(* are completed than there are beds (the lodging's row is locked before its *)
(* count is read).                                                          *)
THEOREM NoBedTwice ==
  ASSUME InviteConstants
  PROVE  InviteSpec => []BedsHold
<1>1. InviteInv => BedsHold
  BY DEF InviteInv
<1> QED BY <1>1, InviteInvariant, PTL

(* An invitation redeemed since the organizer's page had it isn't deleted    *)
(* unseen (version_conflict, read under the invitation's lock).             *)
THEOREM DeletedAsKnown ==
  ASSUME InviteConstants
  PROVE  InviteSpec => DeletesKnown
<1> DEFINE Seen == \A c \in Codes :
             invitation[c].st = "live" /\ invitation'[c].st = "deleted" => invitation[c].version = dialog[2]
<1>1. InviteInv /\ [InviteNext]_inviteVars => [Seen]_inviteVars
  <2> SUFFICES ASSUME InviteInv, InviteNext, NEW c \in Codes, invitation[c].st = "live",
                      invitation'[c].st = "deleted"
               PROVE  invitation[c].version = dialog[2]
    OBVIOUS
  <2>1. CASE Deleted
    BY <2>1, DeletedKeeps
  <2>2. CASE \E r \in Registrants : Completed(r)
    <3>1. PICK r \in Registrants : Completed(r)
      BY <2>2
    <3>2. draft[r].code = None \/ draft[r].code \in Codes
      BY DEF InviteInv, InviteTypes, InviteTypeOK, Started
    <3>3. invitation'[c].st = invitation[c].st
      BY <3>1, <3>2 DEF Completed, InviteInv, InviteTypes, InviteTypeOK, Invitation
    <3> QED BY <3>3
  <2>3. CASE \E code \in Codes : Create(code)
    BY <2>3 DEF Create, InviteInv, InviteTypes, InviteTypeOK, Invitation
  <2>4. CASE invitation' = invitation
    BY <2>4
  <2> QED BY <2>1, <2>2, <2>3, <2>4
          DEF InviteNext, OpenForm, Refetch, Cancel, Delete, DeleteGoesOn, Send, AskDelete, OpenLink,
              SendForm, Complete, Sent, Lock, Refuse, Undo
<1> QED BY <1>1, InviteInvariant, PTL DEF InviteSpec, DeletesKnown

=============================================================================
