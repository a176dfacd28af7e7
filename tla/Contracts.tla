----------------------------- MODULE Contracts -----------------------------
(***************************************************************************)
(* One organization's terms: Admins draft and publish versions of them     *)
(* (ContractsModal, ContractDraftEditor, store/contracts and the server's  *)
(* contracts.py), and everyone is asked to agree to the latest before      *)
(* reaching the organization (ContractGate, ContractPrompt).  Publishing   *)
(* ends every session but the publisher's.                                 *)
(*                                                                         *)
(* Each user here is an Admin with a page open, their drafts' list as last *)
(* fetched in `copy', and one request to change the terms at a time.  A    *)
(* text is one of a few, or None while it is blank.  A look at who is      *)
(* signed in, and a fetch of a list or of the terms, is one step.          *)
(***************************************************************************)
EXTENDS Naturals, Sequences, FiniteSets

CONSTANTS None, Users, Texts,
          MaxVersions, MaxDrafts, MaxSaves   \* bounds: published, drafts started, saves of a draft

VARIABLES
  versions,   \* the published versions' texts, in order
  draft,      \* the organization's draft, or NoDraft
  drafts,     \* how many were started
  agreed,     \* who has agreed to which version
  session,    \* whose web session the server has
  editor,     \* each Admin's draft editor
  gate        \* each user's contract gate

contractVars == <<versions, draft, drafts, agreed, session, editor, gate>>

Contract == [id : 0..MaxDrafts, version : 0..MaxSaves, body : Texts \cup {None}]
NoDraft == [id |-> 0, version |-> 0, body |-> None]

\* A request to change the terms: the draft and version it names, the text it saves; and
\* what its Admin's page knew the draft to be, and showed of it, when they asked.
Request == [kind : {"none", "start", "save", "publish", "remove"}, at : {"sent", "back"},
            body : Texts \cup {None}, saw : Contract, read : Texts \cup {None}]
NoRequest == [kind |-> "none", at |-> "back", body |-> None, saw |-> NoDraft, read |-> None]

Agreement == [number : 0..MaxVersions, at : {"no", "sent", "ok", "refused"}]
NotAgreeing == [number |-> 0, at |-> "no"]

ContractsTypeOK ==
  /\ Len(versions) <= MaxVersions /\ \A i \in DOMAIN versions : versions[i] \in Texts
  /\ draft \in Contract /\ drafts \in 0..MaxDrafts
  /\ agreed \subseteq Users \X (1..MaxVersions)
  /\ session \subseteq Users
  /\ editor \in [Users -> [copy : Contract, body : Texts \cup {None}, confirming : BOOLEAN, ask : Request]]
  /\ gate \in [Users -> [signedIn : BOOLEAN, pending : BOOLEAN, shown : 0..MaxVersions, agree : Agreement]]

Latest == Len(versions)

\* pending_organization_ids: the latest version is one they have yet to agree to.
Owes(u) == Latest > 0 /\ <<u, Latest>> \notin agreed

\* What the server lets reach the organization: someone signed in with nothing to agree to.
Admits(u) == u \in session /\ ~Owes(u)

\* Nothing under a prompt can be reached.
Reachable(u) == gate[u].signedIn /\ ~gate[u].pending

ContractsInit ==
  /\ versions \in {<<>>, <<CHOOSE x \in Texts : TRUE>>}
  /\ draft = NoDraft /\ drafts = 0
  /\ agreed = Users \X (DOMAIN versions)
  /\ session = Users
  /\ editor = [u \in Users |-> [copy |-> NoDraft, body |-> None, confirming |-> FALSE, ask |-> NoRequest]]
  /\ gate = [u \in Users |-> [signedIn |-> TRUE, pending |-> FALSE, shown |-> 0, agree |-> NotAgreeing]]

-----------------------------------------------------------------------------
(* An Admin's draft editor *)

\* The versions are fetched again: on focus, after a change, with the terms agreed to.
\* Another draft takes the editor with it; the same one's text is compared with what is typed.
Refetch(u) ==
  /\ Admits(u)
  /\ editor' = [editor EXCEPT ![u] =
       IF draft.id = @.copy.id THEN [@ EXCEPT !.copy = draft]
       ELSE [@ EXCEPT !.copy = draft, !.body = draft.body, !.confirming = FALSE]]
  /\ UNCHANGED <<versions, draft, drafts, agreed, session, gate>>

\* Bound: there is a draft, or one more to start.
DraftToCome == draft # NoDraft \/ drafts < MaxDrafts

Type(u) ==
  /\ Reachable(u) /\ DraftToCome /\ editor[u].copy # NoDraft
  /\ \E x \in (Texts \cup {None}) \ {editor[u].body} : editor' = [editor EXCEPT ![u].body = x]
  /\ UNCHANGED <<versions, draft, drafts, agreed, session, gate>>

\* Publish...: only a saved text, and not a blank one.
Confirm(u) ==
  /\ Reachable(u) /\ DraftToCome /\ ~editor[u].confirming
  /\ editor[u].copy # NoDraft
  /\ editor[u].body = editor[u].copy.body /\ editor[u].copy.body # None
  /\ editor' = [editor EXCEPT ![u].confirming = TRUE]
  /\ UNCHANGED <<versions, draft, drafts, agreed, session, gate>>

Unconfirm(u) ==
  /\ Reachable(u) /\ editor[u].confirming
  /\ editor' = [editor EXCEPT ![u].confirming = FALSE]
  /\ UNCHANGED <<versions, draft, drafts, agreed, session, gate>>

\* What the editor offers, as it stands.
Offers(e) ==
  IF e.copy = NoDraft THEN {"start"}
  ELSE IF e.confirming THEN {"publish"}
  ELSE {"remove"} \cup (IF e.body # e.copy.body THEN {"save"} ELSE {})

Send(u) ==
  LET e == editor[u] IN
  /\ Reachable(u) /\ DraftToCome /\ e.ask = NoRequest
  /\ \E kind \in Offers(e) :
       editor' = [editor EXCEPT ![u].confirming = FALSE,
                    ![u].ask = [kind |-> kind, at |-> "sent", body |-> e.body, saw |-> e.copy, read |-> e.body]]
  /\ UNCHANGED <<versions, draft, drafts, agreed, session, gate>>

Hear(u) ==
  /\ editor[u].ask # NoRequest /\ editor[u].ask.at = "back"
  /\ editor' = [editor EXCEPT ![u].ask = NoRequest]
  /\ UNCHANGED <<versions, draft, drafts, agreed, session, gate>>

-----------------------------------------------------------------------------
(* The server *)

Asks(u, kind) == editor[u].ask.kind = kind /\ editor[u].ask.at = "sent"
Answered(u) == editor' = [editor EXCEPT ![u].ask.at = "back"]

MatchesAny(saw) == draft # NoDraft /\ draft.id = saw.id         \* mutant
\* The draft it names is there, unpublished, at the version it was asked of.
Matches(saw) == draft # NoDraft /\ draft.id = saw.id /\ draft.version = saw.version

StartDraft(u) ==
  /\ Asks(u, "start") /\ Admits(u)
  /\ draft = NoDraft /\ drafts < MaxDrafts
  /\ drafts' = drafts + 1
  /\ draft' = [id |-> drafts', version |-> 1, body |-> IF Latest = 0 THEN None ELSE versions[Latest]]
  /\ Answered(u)
  /\ UNCHANGED <<versions, agreed, session, gate>>

SaveDraft(u) ==
  /\ Asks(u, "save") /\ Admits(u) /\ Matches(editor[u].ask.saw)
  /\ draft.version < MaxSaves
  /\ draft' = [draft EXCEPT !.version = @ + 1, !.body = editor[u].ask.body]
  /\ Answered(u)
  /\ UNCHANGED <<versions, drafts, agreed, session, gate>>

RemoveDraft(u) ==
  /\ Asks(u, "remove") /\ Admits(u) /\ Matches(editor[u].ask.saw)
  /\ draft' = NoDraft
  /\ Answered(u)
  /\ UNCHANGED <<versions, drafts, agreed, session, gate>>

\* publish, and end_sign_ins but for the publisher's own session.
Publish(u) ==
  /\ Asks(u, "publish") /\ Admits(u) /\ Matches(editor[u].ask.saw)
  /\ draft.body # None /\ Latest < MaxVersions
  /\ versions' = Append(versions, draft.body)
  /\ draft' = NoDraft
  /\ session' = session \cap {u}
  /\ Answered(u)
  /\ UNCHANGED <<drafts, agreed, gate>>

\* 401, 403, 404, 409, 412 or 400: nothing changes.
Refuse(u) ==
  LET ask == editor[u].ask IN
  /\ ask # NoRequest /\ ask.at = "sent"
  /\ \/ ~Admits(u)
     \/ ask.kind = "start" /\ draft # NoDraft
     \/ ask.kind # "start" /\ ~Matches(ask.saw)
     \/ ask.kind = "publish" /\ draft.body = None
  /\ Answered(u)
  /\ UNCHANGED <<versions, draft, drafts, agreed, session, gate>>

-----------------------------------------------------------------------------
(* The gate *)

\* Who is signed in, and whether they have terms to agree to, is asked again: as the session
\* monitor does, for a refusal, or after publishing.
Check(u) ==
  /\ gate' = [gate EXCEPT ![u].signedIn = u \in session, ![u].pending = u \in session /\ Owes(u),
                          ![u].shown = IF u \in session /\ Owes(u) THEN @ ELSE 0]
  /\ gate' # gate
  /\ UNCHANGED <<versions, draft, drafts, agreed, session, editor>>

\* The latest version is fetched and shown; one agreed to meanwhile is only asked after again.
Show(u) ==
  /\ gate[u].signedIn /\ gate[u].pending
  /\ u \in session /\ gate[u].shown # Latest
  /\ gate' = [gate EXCEPT ![u].shown = Latest]
  /\ UNCHANGED <<versions, draft, drafts, agreed, session, editor>>

Agree(u) ==
  /\ gate[u].signedIn /\ gate[u].pending /\ gate[u].shown > 0 /\ gate[u].agree = NotAgreeing
  /\ gate' = [gate EXCEPT ![u].agree = [number |-> gate[u].shown, at |-> "sent"]]
  /\ UNCHANGED <<versions, draft, drafts, agreed, session, editor>>

\* agree: only to the latest version, the one they were shown.
IsLatest(number) == number = Latest

ServeAgree(u) ==
  /\ gate[u].agree.at = "sent"
  /\ IF u \in session /\ IsLatest(gate[u].agree.number)
       THEN /\ agreed' = agreed \cup {<<u, gate[u].agree.number>>}
            /\ gate' = [gate EXCEPT ![u].agree.at = "ok"]
       ELSE /\ gate' = [gate EXCEPT ![u].agree.at = "refused"]
            /\ UNCHANGED agreed
  /\ UNCHANGED <<versions, draft, drafts, session, editor>>

\* The answer is the new whoami; a refusal has the latest version fetched again.
HearAgree(u) ==
  /\ gate[u].agree.at \in {"ok", "refused"}
  /\ gate' = [gate EXCEPT ![u].agree = NotAgreeing, ![u].shown = 0,
                          ![u].pending = @ /\ gate[u].agree.at # "ok"]
  /\ UNCHANGED <<versions, draft, drafts, agreed, session, editor>>

\* I don't agree: sign out.
Decline(u) ==
  /\ gate[u].signedIn /\ gate[u].pending /\ gate[u].agree = NotAgreeing
  /\ session' = session \ {u}
  /\ gate' = [gate EXCEPT ![u].signedIn = FALSE, ![u].pending = FALSE, ![u].shown = 0]
  /\ UNCHANGED <<versions, draft, drafts, agreed, editor>>

SignIn(u) ==
  /\ ~gate[u].signedIn
  /\ session' = session \cup {u}
  /\ gate' = [gate EXCEPT ![u].signedIn = TRUE, ![u].pending = Owes(u)]
  /\ UNCHANGED <<versions, draft, drafts, agreed, editor>>

ContractsNext ==
  \E u \in Users :
    \/ Refetch(u) \/ Type(u) \/ Confirm(u) \/ Unconfirm(u) \/ Send(u) \/ Hear(u)
    \/ StartDraft(u) \/ SaveDraft(u) \/ RemoveDraft(u) \/ Publish(u) \/ Refuse(u)
    \/ Check(u) \/ Show(u) \/ Agree(u) \/ ServeAgree(u) \/ HearAgree(u) \/ Decline(u) \/ SignIn(u)

\* Who is signed in is asked again and again, and the terms fetched.
ContractsFairness == \A u \in Users : WF_contractVars(Check(u)) /\ WF_contractVars(Show(u))

ContractsSpec == ContractsInit /\ [][ContractsNext]_contractVars /\ ContractsFairness

-----------------------------------------------------------------------------

\* Whatever an Admin's request replaces, deletes or publishes is the draft as their page had
\* it when they asked: no one's save is lost under another's (views.py version_conflict).
ActsOnWhatItKnew ==
  [][\A u \in Users :
       LET ask == editor[u].ask IN
       (ask.at = "sent" /\ editor'[u].ask.at = "back" /\ draft' # draft /\ ask.kind # "start")
         => ask.saw = draft]_contractVars

\* What is published is the text its Admin was reading ("Only the `version` of the draft the
\* Admin read", contracts.ts).  A fetch while they are asked to confirm breaks it.
PublishedWasRead ==
  [][\A u \in Users :
       (editor[u].ask.at = "sent" /\ editor'[u].ask.at = "back" /\ versions' # versions)
         => versions'[Len(versions')] = editor[u].ask.read]_contractVars

\* Newly published terms come to be asked of everyone still signed in, the publisher
\* included (ContractGate.tsx, useSessionMonitor.ts).
TermsReachEveryone ==
  \A u \in Users :
    (gate[u].signedIn /\ Owes(u))
      ~> (~gate[u].signedIn \/ ~Owes(u) \/ gate[u].shown = Latest)
=============================================================================
