---------------------------- MODULE AccessProofs ----------------------------
(***************************************************************************)
(* Proofs about Access: whatever an app can reach an account with is on    *)
(* the account's list, for any consent pages at once; and, one request at  *)
(* a time, there is always an active Admin and no password outlives the    *)
(* link or the order to change it, for any users.  And about Session:      *)
(* whoever's session begins, ends or is barred in any number of tabs, one  *)
(* user's admin never shows what was asked for under another's sign-in,    *)
(* and a session's end loses no unsaved edits.                             *)
(***************************************************************************)
EXTENDS Access, Session, TLAPS

-----------------------------------------------------------------------------
(* Apps.  A code the app was given is a page's it has left, and a page that *)
(* is about to give one, if it works still, has its connection recorded.    *)
Handed == \A p \in held : page[p].at = "left"

Recorded == \A p \in grants : page[p].at = "connected" => connection # NoScope

AppsInv == AppsTypeOK /\ Handed /\ Recorded /\ AccessIsShown

PageType == [at : Places, scope : Scopes]

LEMMA GoesTypes ==
  ASSUME page \in [Pages -> PageType], NEW p \in Pages, NEW place \in Places, Goes(p, place)
  PROVE  /\ page' \in [Pages -> PageType]
         /\ page'[p].at = place /\ page'[p].scope = page[p].scope
         /\ \A q \in Pages \ {p} : page'[q] = page[q]
BY DEF Goes, PageType

(* An approval's steps, and the app's, one page's at a time.                 *)
PageSteps(p) ==
  \/ OpenConsent(p) \/ See(p) \/ Agree(p) \/ Decide(p) \/ Decline(p) \/ Deny(p) \/ Declined(p)
  \/ CheckRequest(p) \/ LoseCode(p)

LEMMA PageStepsKeep ==
  ASSUME AppsInv, NEW p \in Pages, PageSteps(p)
  PROVE  AppsInv'
<1>1. page \in [Pages -> PageType]
  BY DEF AppsInv, AppsTypeOK, PageType
<1>2. PICK place \in Places : Goes(p, place) /\ place # "connected"
  BY DEF PageSteps, OpenConsent, See, Agree, Decide, Decline, Deny, Declined, CheckRequest, LoseCode,
         Places
<1>3. /\ page' \in [Pages -> PageType] /\ page'[p].at = place
      /\ \A q \in Pages \ {p} : page'[q] = page[q]
  BY <1>1, <1>2, GoesTypes
<1>4. UNCHANGED <<registered, grants, held, tokens, connection, cleaning, revokes>>
      /\ page[p].at # "left"
  BY DEF PageSteps, OpenConsent, See, Agree, Decide, Decline, Deny, Declined, CheckRequest, LoseCode
<1>5. signedIn' \in BOOLEAN /\ owes' \in BOOLEAN
  BY DEF AppsInv, AppsTypeOK, PageSteps, OpenConsent, See, Agree, Decide, Decline, Deny, Declined,
         CheckRequest, LoseCode
<1>6. AppsTypeOK'
  BY <1>3, <1>4, <1>5 DEF AppsInv, AppsTypeOK, PageType
<1>7. Handed'
  BY <1>3, <1>4 DEF AppsInv, AppsTypeOK, Handed
<1>8. Recorded'
  BY <1>2, <1>3, <1>4 DEF AppsInv, AppsTypeOK, Recorded
<1> QED BY <1>4, <1>6, <1>7, <1>8 DEF AppsInv, AccessIsShown, Usable

(* What leaves every page where it is.                                       *)
LEMMA SessionsKeep ==
  ASSUME AppsInv, (\E p \in Pages : SignInToPage(p)) \/ SignOutOfPage \/ Publish \/ FindLapsed
  PROVE  AppsInv'
<1>1. UNCHANGED <<page, registered, grants, held, tokens, connection>>
  BY DEF SignInToPage, SignOutOfPage, Publish, FindLapsed
<1>2. signedIn' \in BOOLEAN /\ owes' \in BOOLEAN /\ cleaning' \in BOOLEAN
  BY DEF AppsInv, AppsTypeOK, SignInToPage, SignOutOfPage, Publish, FindLapsed
<1>3. revokes' \in 0..MaxRevokes
  BY AppsAssumption DEF AppsInv, AppsTypeOK, SignInToPage, SignOutOfPage, Publish, FindLapsed, Revoking
<1>4. AppsTypeOK'
  BY <1>1, <1>2, <1>3 DEF AppsInv, AppsTypeOK
<1> QED BY <1>1, <1>4 DEF AppsInv, AccessIsShown, Usable, Handed, Recorded

LEMMA EndingKeeps ==
  ASSUME AppsInv, Disconnect \/ RevokeEveryone \/ Remove
  PROVE  AppsInv'
<1>1. UNCHANGED <<page, held, cleaning>> /\ grants' = {} /\ tokens' = {} /\ connection' = NoScope
  BY DEF Disconnect, RevokeEveryone, Remove, EndAccess
<1>2. signedIn' \in BOOLEAN /\ owes' \in BOOLEAN /\ registered' \in BOOLEAN
  BY DEF AppsInv, AppsTypeOK, Disconnect, RevokeEveryone, Remove
<1>3. revokes' \in 0..MaxRevokes
  BY AppsAssumption DEF AppsInv, AppsTypeOK, Disconnect, RevokeEveryone, Remove, Revoking
<1>4. AppsTypeOK'
  BY <1>1, <1>2, <1>3 DEF AppsInv, AppsTypeOK
<1> QED BY <1>1, <1>4 DEF AppsInv, AccessIsShown, Usable, Handed, Recorded

(* What only ends, or turns into tokens, what works already.                 *)
LEMMA AppStepsKeep ==
  ASSUME AppsInv,
         Expire \/ ForgetLapsed \/ \E p \in Pages : Exchange(p) \/ Refresh(p) \/ EndTokens(p)
  PROVE  AppsInv'
<1>1. UNCHANGED <<page, signedIn, owes, registered, held, revokes>>
  BY DEF Expire, ForgetLapsed, Exchange, Refresh, EndTokens
<1>2. grants' \subseteq grants /\ cleaning' \in BOOLEAN
  BY DEF AppsInv, AppsTypeOK, Expire, ForgetLapsed, Exchange, Refresh, EndTokens
<1>3. tokens' \subseteq Pages \X {"access", "refresh"}
  <2>1. tokens \subseteq Pages \X {"access", "refresh"}
    BY DEF AppsInv, AppsTypeOK
  <2>2. CASE Expire \/ ForgetLapsed
    BY <2>1, <2>2 DEF Expire, ForgetLapsed
  <2>3. ASSUME NEW p \in Pages, Exchange(p) \/ Refresh(p) PROVE tokens' \subseteq Pages \X {"access", "refresh"}
    BY <2>1, <2>3 DEF Exchange, Refresh
  <2>4. ASSUME NEW p \in Pages, EndTokens(p) PROVE tokens' \subseteq Pages \X {"access", "refresh"}
    BY <2>1, <2>4 DEF EndTokens
  <2> QED BY <2>2, <2>3, <2>4
<1>4. Usable' \subseteq Usable
  <2>1. CASE Expire \/ ForgetLapsed
    BY <2>1, <1>1 DEF Expire, ForgetLapsed, Usable
  <2>2. CASE \E p \in Pages : Exchange(p)
    <3>1. PICK p \in Pages : Exchange(p)
      BY <2>2
    <3>2. p \in held \cap grants /\ grants' \subseteq grants
          /\ tokens' = tokens \cup {<<p, "access">>, <<p, "refresh">>}
      BY <3>1 DEF Exchange
    <3>3. \A t \in tokens' : t \in tokens \/ t[1] = p
      BY <3>2
    <3> QED BY <1>1, <3>2, <3>3 DEF Usable
  <2>3. CASE \E p \in Pages : Refresh(p)
    <3>1. PICK p \in Pages : Refresh(p)
      BY <2>3
    <3>2. <<p, "refresh">> \in tokens /\ UNCHANGED grants
          /\ tokens' = tokens \cup {<<p, "access">>}
      BY <3>1 DEF Refresh
    <3>3. p \in {t[1] : t \in tokens}
      BY <3>2
    <3>4. \A t \in tokens' : t \in tokens \/ t[1] = p
      BY <3>2
    <3> QED BY <1>1, <3>2, <3>3, <3>4 DEF Usable
  <2>4. CASE \E p \in Pages : EndTokens(p)
    BY <2>4, <1>1 DEF EndTokens, Usable
  <2> QED BY <2>1, <2>2, <2>3, <2>4
<1>5. connection' = connection \/ (connection' = NoScope /\ grants = {} /\ tokens = {})
  BY DEF Expire, ForgetLapsed, StillLapsed, Lapsed, AnythingWorks, Exchange, Refresh, EndTokens
<1>6. AppsTypeOK'
  BY <1>1, <1>2, <1>3, <1>5 DEF AppsInv, AppsTypeOK
<1>7. Handed' /\ Recorded'
  BY <1>1, <1>2, <1>5 DEF AppsInv, Handed, Recorded
<1>8. AccessIsShown'
  BY <1>4, <1>5 DEF AppsInv, AccessIsShown, Usable
<1> QED BY <1>6, <1>7, <1>8 DEF AppsInv

(* The server's approval, and the code's way to the app.                     *)
LEMMA ApprovingKeeps ==
  ASSUME AppsInv, NEW p \in Pages,
         MakeCode(p) \/ ReplaceEarlier(p) \/ RecordConnection(p) \/ HandCode(p)
  PROVE  AppsInv'
<1>0. /\ page \in [Pages -> PageType] /\ held \subseteq Pages /\ grants \subseteq Pages
      /\ tokens \subseteq Pages \X {"access", "refresh"} /\ connection \in Scopes \cup {NoScope}
  BY DEF AppsInv, AppsTypeOK, PageType
<1>1. page[p].at # "left"
  BY DEF MakeCode, ReplaceEarlier, RecordConnection, HandCode
<1>2. p \notin held
  BY <1>1 DEF AppsInv, Handed
<1>3. UNCHANGED <<signedIn, owes, registered, cleaning, revokes>>
  BY DEF MakeCode, ReplaceEarlier, RecordConnection, HandCode
<1>4. CASE MakeCode(p)
  <2>1. PICK place \in {"granted", "consent"} : Goes(p, place)
    BY <1>4 DEF MakeCode
  <2>2. /\ UNCHANGED <<held, tokens, connection>> /\ grants \subseteq grants'
        /\ grants' \subseteq grants \cup {p}
    BY <1>4 DEF MakeCode
  <2>3. place \in Places /\ place # "connected"
    BY DEF Places
  <2>4. /\ page' \in [Pages -> PageType] /\ page'[p].at = place
        /\ \A q \in Pages \ {p} : page'[q] = page[q]
    BY <1>0, <2>1, <2>3, GoesTypes
  <2>5. AppsTypeOK'
    BY <1>0, <1>3, <2>2, <2>4 DEF AppsInv, AppsTypeOK, PageType
  <2>6. Handed' /\ Recorded'
    BY <1>0, <1>2, <2>2, <2>3, <2>4 DEF AppsInv, Handed, Recorded
  <2>7. Usable' = Usable
    BY <1>2, <2>2 DEF Usable
  <2> QED BY <2>2, <2>5, <2>6, <2>7 DEF AppsInv, AccessIsShown
<1>5. CASE ReplaceEarlier(p)
  <2>1. /\ Goes(p, "recording") /\ UNCHANGED <<held, connection>>
        /\ grants' = grants \cap {p} /\ tokens' = {}
    BY <1>5 DEF ReplaceEarlier
  <2>2. /\ page' \in [Pages -> PageType] /\ page'[p].at = "recording"
        /\ \A q \in Pages \ {p} : page'[q] = page[q]
    BY <1>0, <2>1, GoesTypes DEF Places
  <2>3. AppsTypeOK'
    BY <1>0, <1>3, <2>1, <2>2 DEF AppsInv, AppsTypeOK, PageType
  <2>4. Handed' /\ Recorded'
    BY <1>0, <1>2, <2>1, <2>2 DEF AppsInv, Handed, Recorded
  <2>5. Usable' = {}
    BY <1>2, <2>1 DEF Usable
  <2> QED BY <2>3, <2>4, <2>5 DEF AppsInv, AccessIsShown
<1>6. CASE RecordConnection(p)
  <2>1. /\ UNCHANGED <<held, grants, tokens>>
        /\ \/ Goes(p, "connected") /\ connection' = page[p].scope
           \/ Goes(p, "consent") /\ UNCHANGED connection
    BY <1>6 DEF RecordConnection
  <2>2. Usable' = Usable
    BY <2>1 DEF Usable
  <2>3. page[p].scope \in Scopes /\ page[p].scope # NoScope
    BY <1>0, AppsAssumption DEF PageType
  <2>4. CASE Goes(p, "connected") /\ connection' = page[p].scope
    <3>1. /\ page' \in [Pages -> PageType] /\ page'[p].at = "connected"
          /\ \A q \in Pages \ {p} : page'[q] = page[q]
      BY <1>0, <2>4, GoesTypes DEF Places
    <3>2. AppsTypeOK'
      BY <1>0, <1>3, <2>1, <2>3, <2>4, <3>1 DEF AppsInv, AppsTypeOK, PageType
    <3>3. Handed' /\ Recorded'
      BY <1>0, <1>2, <2>1, <2>3, <2>4, <3>1 DEF AppsInv, Handed, Recorded
    <3> QED BY <2>3, <2>4, <3>2, <3>3 DEF AppsInv, AccessIsShown
  <2>5. CASE Goes(p, "consent") /\ UNCHANGED connection
    <3>1. /\ page' \in [Pages -> PageType] /\ page'[p].at = "consent"
          /\ \A q \in Pages \ {p} : page'[q] = page[q]
      BY <1>0, <2>5, GoesTypes DEF Places
    <3>2. AppsTypeOK'
      BY <1>0, <1>3, <2>1, <2>5, <3>1 DEF AppsInv, AppsTypeOK, PageType
    <3>3. Handed' /\ Recorded'
      BY <1>0, <1>2, <2>1, <2>5, <3>1 DEF AppsInv, Handed, Recorded
    <3> QED BY <2>2, <2>5, <3>2, <3>3 DEF AppsInv, AccessIsShown
  <2> QED BY <2>1, <2>4, <2>5
<1>7. CASE HandCode(p)
  <2>1. /\ page[p].at = "connected" /\ Goes(p, "left") /\ held' = held \cup {p}
        /\ UNCHANGED <<grants, tokens, connection>>
    BY <1>7 DEF HandCode
  <2>2. /\ page' \in [Pages -> PageType] /\ page'[p].at = "left"
        /\ \A q \in Pages \ {p} : page'[q] = page[q]
    BY <1>0, <2>1, GoesTypes DEF Places
  <2>3. AppsTypeOK'
    BY <1>0, <1>3, <2>1, <2>2 DEF AppsInv, AppsTypeOK, PageType
  <2>4. Handed' /\ Recorded'
    BY <1>0, <2>1, <2>2 DEF AppsInv, Handed, Recorded
  <2>5. p \in grants => connection # NoScope
    BY <2>1 DEF AppsInv, Recorded
  <2>6. Usable' \subseteq Usable \cup {p} /\ (Usable' = Usable \/ p \in grants)
    BY <2>1 DEF Usable
  <2> QED BY <2>1, <2>3, <2>4, <2>5, <2>6 DEF AppsInv, AccessIsShown
<1> QED BY <1>4, <1>5, <1>6, <1>7

LEMMA AppsStart == AppsInit => AppsInv
<1> SUFFICES ASSUME AppsInit PROVE AppsInv
  OBVIOUS
<1>1. page \in [Pages -> PageType]
  BY DEF AppsInit, PageType, Places
<1>2. /\ signedIn \in BOOLEAN /\ owes \in BOOLEAN /\ registered \in BOOLEAN /\ cleaning \in BOOLEAN
      /\ grants = {} /\ held = {} /\ tokens = {} /\ connection = NoScope /\ revokes = 0
  BY DEF AppsInit
<1>3. 0 \in 0..MaxRevokes
  BY AppsAssumption
<1>4. AppsTypeOK
  BY <1>1, <1>2, <1>3 DEF AppsTypeOK, PageType
<1> QED BY <1>4 DEF AppsInit, AppsInv, Handed, Recorded, AccessIsShown, Usable

LEMMA AppsKept == AppsInv /\ [AppsNext]_appsVars => AppsInv'
<1> SUFFICES ASSUME AppsInv, [AppsNext]_appsVars PROVE AppsInv'
  OBVIOUS
<1>1. CASE \E p \in Pages : PageSteps(p)
  BY <1>1, PageStepsKeep
<1>2. CASE (\E p \in Pages : SignInToPage(p)) \/ SignOutOfPage \/ Publish \/ FindLapsed
  BY <1>2, SessionsKeep
<1>3. CASE Disconnect \/ RevokeEveryone \/ Remove
  BY <1>3, EndingKeeps
<1>4. CASE Expire \/ ForgetLapsed \/ \E p \in Pages : Exchange(p) \/ Refresh(p) \/ EndTokens(p)
  BY <1>4, AppStepsKeep
<1>5. CASE \E p \in Pages : MakeCode(p) \/ ReplaceEarlier(p) \/ RecordConnection(p) \/ HandCode(p)
  BY <1>5, ApprovingKeeps
<1>6. CASE UNCHANGED appsVars
  BY <1>6 DEF appsVars, AppsInv, AppsTypeOK, Handed, Recorded, AccessIsShown, Usable
<1> QED BY <1>1, <1>2, <1>3, <1>4, <1>5, <1>6 DEF AppsNext, PageSteps

LEMMA AppsAlways == AppsSpec => []AppsInv
<1>1. AppsInit => AppsInv
  BY AppsStart
<1>2. AppsInv /\ [AppsNext]_appsVars => AppsInv'
  BY AppsKept
<1> QED BY <1>1, <1>2, PTL DEF AppsSpec

\* Every state of the consent pages, codes, tokens and the connection is of the types the
\* module states.
THEOREM AppsTypeCorrect == AppsSpec => []AppsTypeOK
<1>1. AppsInv => AppsTypeOK
  BY DEF AppsInv
<1> QED BY <1>1, AppsAlways, PTL

-----------------------------------------------------------------------------
(* Accounts.  Nothing is locked, so most of what is kept is kept one request *)
(* at a time: what a request found at its check still holds as it writes.    *)
AskType ==
  [at : {"asked", "write", "role", "must"}, kind : Kinds, of : Members, values : FormValues,
   row : Row, number : 1..MaxAsks]
FormType == [of : Members, values : FormValues]

AccountTypes ==
  /\ user \in [Members -> User]
  /\ userForm \in [Members -> {NoUserForm} \cup FormType]
  /\ request \in [Members -> {NoAsk} \cup AskType]
  /\ links \subseteq Link /\ used \subseteq links
  /\ asks \in 0..MaxAsks /\ overlapped \in BOOLEAN

Alone == \A a, b \in Members : request[a] # NoAsk /\ request[b] # NoAsk => a = b

\* Passwords are numbered as they are asked for...
Counted ==
  /\ \A u \in Members : user[u].row.password <= asks
  /\ \A l \in links : l.password <= asks
  /\ \A a \in Members : request[a] # NoAsk => request[a].number <= asks

\* ...so that a request's is newer than its user's, and than their links.
NewerThan(r) ==
  /\ user[r.of].row.password < r.number
  /\ \A l \in links : l.of = r.of => l.password < r.number

Newer == \A a \in Members : request[a].at \in {"asked", "write"} => NewerThan(request[a])

\* What a request past its check still finds.
MayStill(a, r) ==
  /\ r.at = "write" /\ r.kind \in {"edit", "toggle"} =>
       /\ IsAdmin(a) /\ user[r.of].row.exists /\ r.row = user[r.of].row
       /\ r.of = a => /\ r.values.active
                      /\ \/ r.values.super
                         \/ user[a].role = "admin" /\ (r.kind = "edit" => r.values.role = "admin")
  /\ r.at = "write" /\ r.kind = "delete" => IsAdmin(a) /\ r.of # a
  /\ r.at = "role" => IsAdmin(a) /\ (r.of = a => r.values.role = "admin")
  /\ r.at = "must" /\ user[r.of].row.exists => (user[r.of].row.given <=> r.kind = "give")

CheckHolds == \A a \in Members : request[a] # NoAsk => MayStill(a, request[a])

\* A link that set a password is its user's request still, or is out of date for good.
Setting(u) == request[u].at = "write" /\ request[u].kind = "reset" /\ request[u].of = u

UsedUp ==
  \A l \in used : Setting(l.of) \/ ~user[l.of].row.exists \/ l.password < user[l.of].row.password

\* A password given is to be changed, or the request that gave it is about to say so.
Due(u) == user[u].must \/ \E a \in Members : request[a].at = "must" /\ request[a].of = u

GivenAreDue == \A u \in Members : user[u].row.exists /\ user[u].row.given => Due(u)

OneByOne ==
  /\ Alone /\ Counted /\ Newer /\ CheckHolds /\ AlwaysAnAdmin /\ UsedUp /\ GivenAreDue

AccountsInv == AccountTypes /\ (~overlapped => OneByOne)

LEMMA AccountsTyped == AccountTypes <=> AccountsTypeOK
BY DEF AccountTypes, AccountsTypeOK, AskType, FormType

LEMMA OneByOneHolds == AccountsInv => AnAdminIsLeft /\ PasswordsHold
<1> SUFFICES ASSUME AccountsInv PROVE AnAdminIsLeft /\ PasswordsHold
  OBVIOUS
<1>1. AnAdminIsLeft
  BY DEF AccountsInv, OneByOne, AnAdminIsLeft
<1> SUFFICES ASSUME ~overlapped PROVE PasswordsHold
  BY <1>1 DEF PasswordsHold
<1>2. ASSUME NEW link \in used PROVE request[link.of].at = "write" \/ ~LinkWorks(link)
  <2>1. CASE Setting(link.of)
    BY <2>1 DEF Setting
  <2>2. CASE ~user[link.of].row.exists
    BY <2>2 DEF LinkWorks, MayUse
  <2>3. CASE link.password < user[link.of].row.password
    <3>1. link.of \in Members /\ link.password \in Nat /\ user[link.of].row.password \in Nat
      BY DEF AccountsInv, AccountTypes, Link, User, Row
    <3>2. TokenOf(link.of).password = user[link.of].row.password
      BY DEF TokenOf
    <3> QED BY <2>3, <3>1, <3>2 DEF LinkWorks
  <2> QED BY <2>1, <2>2, <2>3 DEF AccountsInv, OneByOne, UsedUp
<1>3. ASSUME NEW u \in Members, MayUse(u) /\ user[u].row.given PROVE Due(u)
  BY <1>3 DEF AccountsInv, OneByOne, GivenAreDue, MayUse
<1> QED BY <1>2, <1>3 DEF PasswordsHold, Due

-----------------------------------------------------------------------------
(* The types of what each action says.                                       *)
LEMMA UserFields ==
  ASSUME AccountTypes, NEW u \in Members
  PROVE  /\ user[u] \in User /\ user[u].row \in Row /\ user[u].role \in Roles /\ user[u].must \in BOOLEAN
         /\ user[u].row.exists \in BOOLEAN /\ user[u].row.active \in BOOLEAN
         /\ user[u].row.super \in BOOLEAN /\ user[u].row.given \in BOOLEAN
         /\ user[u].row.password \in 0..MaxAsks /\ user[u].row.login \in 0..MaxAsks
         /\ Assigned(u) \in Roles
BY DEF AccountTypes, User, Row, Assigned, Roles

LEMMA AskFields ==
  ASSUME AccountTypes, NEW a \in Members
  PROVE  /\ request[a] = NoAsk <=> request[a].at = "idle"
         /\ request[a] # NoAsk => request[a] \in AskType
         /\ request[a] \in AskType =>
              /\ request[a].at \in {"asked", "write", "role", "must"} /\ request[a].kind \in Kinds
              /\ request[a].of \in Members /\ request[a].values \in FormValues
              /\ request[a].row \in Row /\ request[a].number \in 1..MaxAsks
BY DEF AccountTypes, AskType, NoAsk

LEMMA BlankTyped ==
  Blank \in FormValues /\ \A b \in BOOLEAN : [Blank EXCEPT !.active = b] \in FormValues
BY DEF Blank, FormValues, Roles

\* A request that begins.
LEMMA AskServerTypes ==
  ASSUME AccountTypes, NEW a \in Members, NEW kind \in Kinds, NEW of \in Members,
         NEW values \in FormValues, AskServer(a, kind, of, values),
         userForm' \in [Members -> {NoUserForm} \cup FormType]
  PROVE  AccountTypes'
<1> DEFINE r == [at |-> "asked", kind |-> kind, of |-> of, values |-> values, row |-> user[of].row,
                 number |-> asks + 1]
<1>1. /\ asks' = asks + 1 /\ asks < MaxAsks /\ request' = [request EXCEPT ![a] = r]
      /\ UNCHANGED <<user, links, used>> /\ overlapped' = (overlapped \/ Overlaps(a))
  BY DEF AskServer
<1>2. asks' \in 0..MaxAsks /\ asks + 1 \in 1..MaxAsks
  BY <1>1, AccountsAssumption DEF AccountTypes
<1>3. r \in AskType
  BY <1>2, UserFields DEF AskType
<1> HIDE DEF r
<1>4. request' \in [Members -> {NoAsk} \cup AskType]
  BY <1>1, <1>3 DEF AccountTypes
<1>5. overlapped' \in BOOLEAN
  BY <1>1 DEF AccountTypes, Overlaps
<1> QED BY <1>1, <1>2, <1>4, <1>5 DEF AccountTypes

\* A request that begins at its check.
BeginsSome(a) ==
  \E kind \in Kinds, of \in Members, values \in FormValues : AskServer(a, kind, of, values)

LEMMA BeginIs ==
  ASSUME AccountTypes, NEW a \in Members,
         \/ SaveForm(a) \/ ChangeOwn(a)
         \/ \E u \in Members : Toggle(a, u) \/ DeleteUser(a, u) \/ Give(a, u)
  PROVE  BeginsSome(a) /\ userForm' \in [Members -> {NoUserForm} \cup FormType]
<1>1. {"edit", "toggle", "delete", "give", "change"} \subseteq Kinds
  BY DEF Kinds
<1>2. CASE SaveForm(a)
  <2>1. userForm[a] \in FormType
    BY <1>2 DEF SaveForm, AccountTypes
  <2>2. userForm[a].of \in Members
    BY <2>1 DEF FormType
  <2>3. PICK values \in Offered(a) : AskServer(a, "edit", userForm[a].of, values)
    BY <1>2 DEF SaveForm
  <2>4. values \in FormValues
    BY DEF Offered
  <2>5. userForm' = [userForm EXCEPT ![a] = NoUserForm]
    BY <1>2 DEF SaveForm
  <2>6. userForm' \in [Members -> {NoUserForm} \cup FormType]
    BY <2>5 DEF AccountTypes
  <2> QED BY <1>1, <2>2, <2>3, <2>4, <2>6 DEF BeginsSome
<1>3. CASE ChangeOwn(a)
  <2>1. AskServer(a, "change", a, Blank) /\ UNCHANGED userForm
    BY <1>3 DEF ChangeOwn
  <2> QED BY <1>1, <2>1, BlankTyped DEF BeginsSome, AccountTypes
<1>4. ASSUME NEW u \in Members, Toggle(a, u) \/ DeleteUser(a, u) \/ Give(a, u)
      PROVE  BeginsSome(a) /\ userForm' \in [Members -> {NoUserForm} \cup FormType]
  <2>1. UNCHANGED userForm
    BY <1>4 DEF Toggle, DeleteUser, Give
  <2>2. userForm' \in [Members -> {NoUserForm} \cup FormType]
    BY <2>1 DEF AccountTypes
  <2>3. CASE Toggle(a, u)
    <3>1. (~user[u].row.active) \in BOOLEAN
      OBVIOUS
    <3>2. [Blank EXCEPT !.active = ~user[u].row.active] \in FormValues
      BY <3>1, BlankTyped
    <3> QED BY <1>1, <2>2, <2>3, <3>2 DEF Toggle, BeginsSome
  <2>4. CASE DeleteUser(a, u) \/ Give(a, u)
    BY <1>1, <2>2, <2>4, BlankTyped DEF DeleteUser, Give, BeginsSome
  <2> QED BY <1>4, <2>3, <2>4
<1> QED BY <1>2, <1>3, <1>4

(* What each of the server's writes leaves of its user's row.                *)
LEMMA WriteRowIs ==
  ASSUME AccountTypes, NEW a \in Members, WriteRow(a)
  PROVE  LET r == request[a] IN
         /\ r \in AskType /\ r.at = "write" /\ r.kind \in {"edit", "toggle"}
         /\ user' \in [Members -> User]
         /\ user'[r.of].row = [r.row EXCEPT !.active = r.values.active, !.super = r.values.super]
         /\ user'[r.of].role = (IF user[r.of].row.exists THEN user[r.of].role ELSE "none")
         /\ user'[r.of].must = user[r.of].must
         /\ \A u \in Members \ {r.of} : user'[u] = user[u]
<1> DEFINE r == request[a]
<1>1. r.at = "write" /\ r.kind \in {"edit", "toggle"}
  BY DEF WriteRow
<1>2. r \in AskType /\ r.of \in Members /\ r.row \in Row /\ r.values \in FormValues
  BY <1>1, AskFields
<1> DEFINE new == [row |-> [r.row EXCEPT !.active = r.values.active, !.super = r.values.super],
                   role |-> IF user[r.of].row.exists THEN user[r.of].role ELSE "none",
                   must |-> user[r.of].must]
<1>3. user' = [user EXCEPT ![r.of] = new]
  BY DEF WriteRow
<1>4. [r.row EXCEPT !.active = r.values.active, !.super = r.values.super] \in Row
  BY <1>2 DEF Row, FormValues
<1>5. new \in User
  BY <1>2, <1>4, UserFields DEF User, Roles
<1>6. user' \in [Members -> User] /\ user'[r.of] = new /\ \A u \in Members \ {r.of} : user'[u] = user[u]
  <2> HIDE DEF new
  <2> QED BY <1>2, <1>3, <1>5 DEF AccountTypes
<1> QED BY <1>1, <1>2, <1>6

LEMMA SetRoleIs ==
  ASSUME AccountTypes, NEW a \in Members, SetRole(a)
  PROVE  LET r == request[a] IN
         /\ r \in AskType /\ r.at = "role"
         /\ user' \in [Members -> User]
         /\ user'[r.of].row = user[r.of].row /\ user'[r.of].must = user[r.of].must
         /\ user'[r.of].role = (IF user[r.of].row.exists THEN r.values.role ELSE user[r.of].role)
         /\ \A u \in Members \ {r.of} : user'[u] = user[u]
<1> DEFINE r == request[a]
<1>1. r.at = "role" /\ user' = IF user[r.of].row.exists THEN [user EXCEPT ![r.of].role = r.values.role] ELSE user
  BY DEF SetRole
<1>2. r \in AskType /\ r.of \in Members /\ r.values.role \in Roles
  BY <1>1, AskFields DEF FormValues
<1>3. user[r.of] \in User /\ user \in [Members -> User]
  BY <1>2 DEF AccountTypes
<1> HIDE DEF r
<1>4. [user[r.of] EXCEPT !.role = r.values.role] \in User
  BY <1>2, <1>3 DEF User
<1> QED BY <1>1, <1>2, <1>3, <1>4 DEF User, r

LEMMA DeleteAccountIs ==
  ASSUME AccountTypes, NEW a \in Members, DeleteAccount(a)
  PROVE  LET r == request[a] IN
         /\ r \in AskType /\ r.at = "write" /\ r.kind = "delete"
         /\ user' \in [Members -> User]
         /\ user'[r.of].row.exists = FALSE
         /\ user'[r.of].row.password = user[r.of].row.password
         /\ \A u \in Members \ {r.of} : user'[u] = user[u]
<1> DEFINE r == request[a]
<1>1. /\ r.at = "write" /\ r.kind = "delete"
      /\ user' = [user EXCEPT ![r.of].row.exists = FALSE, ![r.of].role = "none", ![r.of].must = FALSE]
  BY DEF DeleteAccount
<1>2. r \in AskType /\ r.of \in Members
  BY <1>1, AskFields
<1>3. user[r.of] \in User /\ user \in [Members -> User] /\ user[r.of].row \in Row
  BY <1>2, UserFields DEF AccountTypes
<1> HIDE DEF r
<1> DEFINE new == [user[r.of] EXCEPT !.row.exists = FALSE, !.role = "none", !.must = FALSE]
<1>4. user' = [user EXCEPT ![r.of] = new]
  BY <1>1, <1>2, <1>3
<1>5. new.row = [user[r.of].row EXCEPT !.exists = FALSE] /\ new \in User
  BY <1>3 DEF User, Row, Roles
<1>6. new.row.exists = FALSE /\ new.row.password = user[r.of].row.password
  BY <1>3, <1>5 DEF Row
<1> HIDE DEF new
<1>7. user' \in [Members -> User] /\ user'[r.of] = new /\ \A u \in Members \ {r.of} : user'[u] = user[u]
  BY <1>2, <1>3, <1>4, <1>5
<1> QED BY <1>1, <1>2, <1>6, <1>7 DEF r

LEMMA SetPasswordIs ==
  ASSUME AccountTypes, NEW a \in Members, SetPassword(a), user[request[a].of].row.exists
  PROVE  LET r == request[a] IN
         /\ r \in AskType /\ r.at = "write" /\ r.kind \in {"give", "change", "reset"}
         /\ user' \in [Members -> User]
         /\ user'[r.of].row = [user[r.of].row EXCEPT !.password = r.number, !.given = (r.kind = "give")]
         /\ user'[r.of].role = user[r.of].role /\ user'[r.of].must = user[r.of].must
         /\ \A u \in Members \ {r.of} : user'[u] = user[u]
         /\ request' = [request EXCEPT ![a].at = "must"]
<1> DEFINE r == request[a]
<1>1. /\ r.at = "write" /\ r.kind \in {"give", "change", "reset"}
      /\ user' = [user EXCEPT ![r.of].row.password = r.number, ![r.of].row.given = (r.kind = "give")]
      /\ request' = [request EXCEPT ![a].at = "must"]
  BY DEF SetPassword
<1>2. r \in AskType /\ r.of \in Members /\ r.number \in 1..MaxAsks
  BY <1>1, AskFields
<1>3. user[r.of] \in User /\ user \in [Members -> User] /\ user[r.of].row \in Row
  BY <1>2, UserFields DEF AccountTypes
<1> HIDE DEF r
<1> DEFINE row == [user[r.of].row EXCEPT !.password = r.number, !.given = (r.kind = "give")]
           new == [user[r.of] EXCEPT !.row = row]
<1>4. user' = [user EXCEPT ![r.of] = new]
  BY <1>1, <1>2, <1>3 DEF User
<1>5. row \in Row
  <2>1. r.number \in 0..MaxAsks /\ (r.kind = "give") \in BOOLEAN
    BY <1>2, AccountsAssumption
  <2> QED BY <1>3, <2>1 DEF Row
<1> HIDE DEF row
<1>6. new \in User /\ new.row = row /\ new.role = user[r.of].role /\ new.must = user[r.of].must
  BY <1>3, <1>5 DEF User
<1> HIDE DEF new
<1>7. user' \in [Members -> User] /\ user'[r.of] = new /\ \A u \in Members \ {r.of} : user'[u] = user[u]
  BY <1>2, <1>3, <1>4, <1>6
<1> QED BY <1>1, <1>2, <1>6, <1>7 DEF r, row

LEMMA SetMustIs ==
  ASSUME AccountTypes, NEW a \in Members, SetMust(a)
  PROVE  LET r == request[a] IN
         /\ r \in AskType /\ r.at = "must"
         /\ user' \in [Members -> User]
         /\ user'[r.of].row = user[r.of].row /\ user'[r.of].role = user[r.of].role
         /\ user[r.of].row.exists => user'[r.of].must = (r.kind = "give")
         /\ \A u \in Members \ {r.of} : user'[u] = user[u]
<1> DEFINE r == request[a]
<1>1. r.at = "must" /\ user' = IF user[r.of].row.exists THEN [user EXCEPT ![r.of].must = (r.kind = "give")] ELSE user
  BY DEF SetMust
<1>2. r \in AskType /\ r.of \in Members
  BY <1>1, AskFields
<1>3. user[r.of] \in User /\ user \in [Members -> User]
  BY <1>2 DEF AccountTypes
<1> HIDE DEF r
<1>4. [user[r.of] EXCEPT !.must = (r.kind = "give")] \in User
  BY <1>3 DEF User
<1> QED BY <1>1, <1>2, <1>3, <1>4 DEF User, r

LEMMA CreateIs ==
  ASSUME AccountTypes, NEW a \in Members, NEW u \in Members, Create(a, u)
  PROVE  /\ asks' = asks + 1 /\ asks < MaxAsks
         /\ user' \in [Members -> User]
         /\ user'[u].row.password <= asks + 1 /\ (user'[u].row.given => user'[u].must)
         /\ \A v \in Members \ {u} : user'[v] = user[v]
         /\ links' \subseteq Link /\ used' = {l \in used : l.of # u}
         /\ used' \subseteq links'
         /\ \A l \in links' : l \in links \/ (l.of = u /\ l.password = 0)
<1>1. /\ asks' = asks + 1 /\ asks < MaxAsks /\ used' = {l \in used : l.of # u}
      /\ UNCHANGED <<userForm, request, overlapped>>
  BY DEF Create
<1>2. asks \in Nat /\ asks + 1 \in 0..MaxAsks /\ 0 \in 0..MaxAsks
  BY <1>1, AccountsAssumption DEF AccountTypes
<1>3. PICK given \in {FALSE, user[a].row.super}, role \in Roles \ {"none"} :
       LET row == [exists |-> TRUE, active |-> TRUE, super |-> FALSE, login |-> 0,
                   password |-> IF given THEN asks + 1 ELSE 0, given |-> given] IN
       /\ user' = [user EXCEPT ![u] = [row |-> row, role |-> role, must |-> given]]
       /\ links' = {l \in links : l.of # u} \cup IF given THEN {}
                   ELSE {[of |-> u, password |-> 0, login |-> 0, super |-> FALSE]}
  BY DEF Create
<1>4. given \in BOOLEAN
  BY UserFields
<1> DEFINE row == [exists |-> TRUE, active |-> TRUE, super |-> FALSE, login |-> 0,
                   password |-> IF given THEN asks + 1 ELSE 0, given |-> given]
           new == [row |-> row, role |-> role, must |-> given]
           link == [of |-> u, password |-> 0, login |-> 0, super |-> FALSE]
<1>5. row \in Row /\ row.password <= asks + 1 /\ row.given = given
  BY <1>2, <1>4 DEF Row
<1>6. user' = [user EXCEPT ![u] = new]
  BY <1>3
<1>7. \A l \in links' : (l \in links /\ l.of # u) \/ l = link
  BY <1>3
<1>8. link \in Link /\ link.of = u /\ link.password = 0
  BY <1>2 DEF Link
<1>9. used' \subseteq links'
  BY <1>1, <1>3 DEF AccountTypes
<1> HIDE DEF row, link
<1>10. new \in User /\ new.row = row /\ new.must = given
  BY <1>4, <1>5 DEF User
<1> HIDE DEF new
<1>11. user' \in [Members -> User] /\ user'[u] = new /\ \A v \in Members \ {u} : user'[v] = user[v]
  BY <1>6, <1>10 DEF AccountTypes
<1>12. links' \subseteq Link /\ \A l \in links' : l \in links \/ (l.of = u /\ l.password = 0)
  BY <1>7, <1>8 DEF AccountTypes
<1>13. user'[u].row.password <= asks + 1 /\ (user'[u].row.given => user'[u].must)
  BY <1>5, <1>10, <1>11
<1> QED BY <1>1, <1>9, <1>11, <1>12, <1>13

LEMMA PromoteIs ==
  ASSUME AccountTypes, NEW u \in Members, Promote(u)
  PROVE  /\ user' \in [Members -> User]
         /\ user'[u].row = [user[u].row EXCEPT !.super = TRUE]
         /\ user'[u].must = user[u].must
         /\ \A v \in Members \ {u} : user'[v] = user[v]
<1>1. user' = [user EXCEPT ![u].row.super = TRUE]
  BY DEF Promote
<1>2. user[u] \in User /\ user \in [Members -> User] /\ user[u].row \in Row
  BY UserFields DEF AccountTypes
<1> DEFINE row == [user[u].row EXCEPT !.super = TRUE]
           new == [user[u] EXCEPT !.row = row]
<1>3. user' = [user EXCEPT ![u] = new]
  BY <1>1, <1>2 DEF User
<1>4. row \in Row
  BY <1>2 DEF Row
<1> HIDE DEF row
<1>5. new \in User /\ new.row = row /\ new.must = user[u].must
  BY <1>2, <1>4 DEF User
<1> HIDE DEF new
<1> QED BY <1>2, <1>3, <1>5 DEF row

LEMMA LogInIs ==
  ASSUME AccountTypes, NEW u \in Members, LogIn(u)
  PROVE  /\ asks' = asks + 1 /\ asks < MaxAsks
         /\ user' \in [Members -> User]
         /\ user'[u].row = [user[u].row EXCEPT !.login = asks + 1]
         /\ user'[u].must = user[u].must /\ user'[u].role = user[u].role
         /\ \A v \in Members \ {u} : user'[v] = user[v]
<1>1. user' = [user EXCEPT ![u].row.login = asks + 1] /\ asks' = asks + 1 /\ asks < MaxAsks
  BY DEF LogIn
<1>2. user[u] \in User /\ user \in [Members -> User] /\ user[u].row \in Row
  BY UserFields DEF AccountTypes
<1>3. asks + 1 \in 0..MaxAsks
  BY <1>1, AccountsAssumption DEF AccountTypes
<1> DEFINE row == [user[u].row EXCEPT !.login = asks + 1]
           new == [user[u] EXCEPT !.row = row]
<1>4. user' = [user EXCEPT ![u] = new]
  BY <1>1, <1>2 DEF User
<1>5. row \in Row
  BY <1>2, <1>3 DEF Row
<1> HIDE DEF row
<1>6. new \in User /\ new.row = row /\ new.must = user[u].must /\ new.role = user[u].role
  BY <1>2, <1>5 DEF User
<1> HIDE DEF new
<1>7. user' \in [Members -> User] /\ user'[u] = new /\ \A v \in Members \ {u} : user'[v] = user[v]
  BY <1>2, <1>4, <1>6
<1> QED BY <1>1, <1>6, <1>7 DEF row

LEMMA FinishTypes ==
  ASSUME AccountTypes, NEW a \in Members, FinishAsk(a)
  PROVE  /\ request' \in [Members -> {NoAsk} \cup AskType] /\ request'[a] = NoAsk
         /\ \A b \in Members \ {a} : request'[b] = request[b]
BY DEF FinishAsk, AccountTypes

LEMMA AdvanceTypes ==
  ASSUME AccountTypes, NEW a \in Members, NEW at \in {"role", "must"}, request[a] \in AskType,
         request' = [request EXCEPT ![a].at = at]
  PROVE  /\ request' \in [Members -> {NoAsk} \cup AskType]
         /\ request'[a] \in AskType /\ request'[a] = [request[a] EXCEPT !.at = at]
         /\ \A b \in Members \ {a} : request'[b] = request[b]
<1>1. [request[a] EXCEPT !.at = at] \in AskType
  BY DEF AskType
<1>2. request' = [request EXCEPT ![a] = [request[a] EXCEPT !.at = at]]
  OBVIOUS
<1> QED BY <1>1, <1>2 DEF AccountTypes

\* A check reads the row, and the Django access the request will leave.
LEMMA CheckAskIs ==
  ASSUME AccountTypes, NEW a \in Members, CheckAsk(a)
  PROVE  LET r == request[a] IN
         /\ r \in AskType /\ r.at = "asked"
         /\ request' \in [Members -> {NoAsk} \cup AskType]
         /\ \A b \in Members \ {a} : request'[b] = request[b]
         /\ \/ request'[a] = NoAsk
            \/ /\ Allowed(a, r)
               /\ request'[a].at = "write" /\ request'[a].kind = r.kind /\ request'[a].of = r.of
               /\ request'[a].number = r.number /\ request'[a].row = user[r.of].row
               /\ request'[a].values.active = r.values.active
               /\ request'[a].values.role = r.values.role
               /\ request'[a].values.super = AccessAfter(a, r)
<1> DEFINE r == request[a]
<1>1. r.at = "asked"
  BY DEF CheckAsk
<1>2. /\ r \in AskType /\ r.of \in Members /\ r.values \in FormValues
  BY <1>1, AskFields
<1>3. user[r.of].row \in Row /\ AccessAfter(a, r) \in BOOLEAN
  <2>1. user[r.of].row \in Row /\ user[r.of].row.super \in BOOLEAN
    BY <1>2, UserFields
  <2> QED BY <1>2, <2>1 DEF AccessAfter, FormValues
<1> HIDE DEF r
<1>4. CASE Allowed(a, r)
  <2> DEFINE values == [r.values EXCEPT !.super = AccessAfter(a, r)]
             new == [r EXCEPT !.at = "write", !.row = user[r.of].row, !.values = values]
  <2>1. request' = [request EXCEPT ![a] = new]
    <3>1. request' = [request EXCEPT ![a].at = "write", ![a].row = user[r.of].row,
                        ![a].values.super = AccessAfter(a, r)]
      BY <1>4 DEF CheckAsk, r
    <3> QED BY <1>2, <3>1 DEF r, AskType, AccountTypes
  <2>2. /\ values \in FormValues /\ values.active = r.values.active /\ values.role = r.values.role
        /\ values.super = AccessAfter(a, r)
    BY <1>2, <1>3 DEF FormValues
  <2> HIDE DEF values
  <2>3. /\ new \in AskType /\ new.at = "write" /\ new.kind = r.kind /\ new.of = r.of
        /\ new.number = r.number /\ new.row = user[r.of].row /\ new.values = values
    BY <1>2, <1>3, <2>2 DEF AskType
  <2> HIDE DEF new
  <2>4. /\ request' \in [Members -> {NoAsk} \cup AskType] /\ request'[a] = new
        /\ \A b \in Members \ {a} : request'[b] = request[b]
    BY <2>1, <2>3 DEF AccountTypes
  <2> QED BY <1>1, <1>2, <1>4, <2>2, <2>3, <2>4 DEF r
<1>5. CASE ~Allowed(a, r)
  <2>1. FinishAsk(a)
    BY <1>5 DEF CheckAsk, r
  <2> QED BY <1>1, <1>2, <2>1, FinishTypes DEF r
<1> QED BY <1>4, <1>5

LEMMA ByLinkIs ==
  ASSUME AccountTypes, NEW u \in Members, NEW link \in links, ByLink(u, link)
  PROVE  /\ request' \in [Members -> {NoAsk} \cup AskType]
         /\ request'[u] \in AskType /\ request'[u].at = "write" /\ request'[u].kind = "reset"
         /\ request'[u].of = u /\ request'[u].number = asks + 1
         /\ \A b \in Members \ {u} : request'[b] = request[b]
         /\ asks' = asks + 1 /\ asks < MaxAsks /\ asks + 1 \in 1..MaxAsks
<1> DEFINE r == [at |-> "write", kind |-> "reset", of |-> u, values |-> Blank, row |-> user[u].row,
                 number |-> asks + 1]
<1>1. request' = [request EXCEPT ![u] = r] /\ asks < MaxAsks /\ asks' = asks + 1
  BY DEF ByLink
<1>2. asks + 1 \in 1..MaxAsks
  BY <1>1, AccountsAssumption DEF AccountTypes
<1>3. r \in AskType
  BY <1>2, UserFields, BlankTyped DEF AskType, Kinds
<1> HIDE DEF r
<1>4. request' \in [Members -> {NoAsk} \cup AskType] /\ request'[u] = r
      /\ \A b \in Members \ {u} : request'[b] = request[b]
  BY <1>1, <1>3 DEF AccountTypes
<1> QED BY <1>1, <1>2, <1>3, <1>4 DEF r

(* The server's steps, of whoever's request.                                 *)
Serves(a) == CheckAsk(a) \/ WriteRow(a) \/ SetRole(a) \/ DeleteAccount(a) \/ SetPassword(a) \/ SetMust(a)

LEMMA ServesTypes ==
  ASSUME AccountTypes, NEW a \in Members, Serves(a)
  PROVE  AccountTypes'
<1>1. UNCHANGED <<userForm, links, used, asks, overlapped>>
  BY DEF Serves, CheckAsk, WriteRow, SetRole, DeleteAccount, SetPassword, SetMust
<1> SUFFICES user' \in [Members -> User] /\ request' \in [Members -> {NoAsk} \cup AskType]
  BY <1>1 DEF AccountTypes
<1>2. CASE CheckAsk(a)
  BY <1>2, CheckAskIs DEF CheckAsk, AccountTypes
<1>3. CASE WriteRow(a)
  <2>1. request[a] \in AskType /\ user' \in [Members -> User]
    BY <1>3, WriteRowIs
  <2>2. request' = [request EXCEPT ![a].at = "role"] \/ FinishAsk(a)
    BY <1>3 DEF WriteRow
  <2> QED BY <2>1, <2>2, FinishTypes, AdvanceTypes
<1>4. CASE SetRole(a)
  BY <1>4, SetRoleIs, FinishTypes DEF SetRole
<1>5. CASE DeleteAccount(a)
  BY <1>5, DeleteAccountIs, FinishTypes DEF DeleteAccount
<1>6. CASE SetPassword(a)
  <2>1. CASE user[request[a].of].row.exists
    <3>1. request[a] \in AskType /\ user' \in [Members -> User]
          /\ request' = [request EXCEPT ![a].at = "must"]
      BY <1>6, <2>1, SetPasswordIs
    <3> QED BY <3>1, AdvanceTypes
  <2>2. CASE ~user[request[a].of].row.exists
    <3>1. FinishAsk(a) /\ UNCHANGED user
      BY <1>6, <2>2 DEF SetPassword
    <3> QED BY <3>1, FinishTypes DEF AccountTypes
  <2> QED BY <2>1, <2>2
<1>7. CASE SetMust(a)
  BY <1>7, SetMustIs, FinishTypes DEF SetMust
<1> QED BY <1>2, <1>3, <1>4, <1>5, <1>6, <1>7 DEF Serves

LEMMA OpenFormTypes ==
  ASSUME AccountTypes, NEW a \in Members, NEW u \in Members, OpenForm(a, u)
  PROVE  AccountTypes'
<1> DEFINE values == [active |-> user[u].row.active, super |-> user[u].row.super, role |-> Assigned(u)]
           form == [of |-> u, values |-> values]
<1>1. /\ UNCHANGED <<user, request, links, used, asks, overlapped>> /\ user[u].role # "none"
      /\ userForm' = [userForm EXCEPT ![a] = form]
  BY DEF OpenForm
<1>2. Assigned(u) \in Roles \ {"none"}
  BY <1>1, UserFields DEF Assigned, Roles
<1>3. values \in FormValues
  BY <1>2, UserFields DEF FormValues
<1> HIDE DEF values
<1>4. form \in FormType
  BY <1>3 DEF FormType
<1> HIDE DEF form
<1> QED BY <1>1, <1>4 DEF AccountTypes

LEMMA TokenTyped ==
  ASSUME AccountTypes, NEW u \in Members
  PROVE  TokenOf(u) \in Link
BY UserFields DEF TokenOf, Link

LEMMA TypesKept == AccountTypes /\ [AccountsNext]_accountVars => AccountTypes'
<1> SUFFICES ASSUME AccountTypes, [AccountsNext]_accountVars PROVE AccountTypes'
  OBVIOUS
<1>1. ASSUME NEW a \in Members, NEW u \in Members, OpenForm(a, u) PROVE AccountTypes'
  BY <1>1, OpenFormTypes
<1>2. ASSUME NEW a \in Members,
             \/ SaveForm(a) \/ ChangeOwn(a)
             \/ \E u \in Members : Toggle(a, u) \/ DeleteUser(a, u) \/ Give(a, u)
      PROVE  AccountTypes'
  BY <1>2, BeginIs, AskServerTypes DEF BeginsSome
<1>3. ASSUME NEW a \in Members, NEW u \in Members, Create(a, u) PROVE AccountTypes'
  <2>1. /\ asks' = asks + 1 /\ asks < MaxAsks /\ user' \in [Members -> User]
        /\ links' \subseteq Link /\ used' \subseteq links'
    BY <1>3, CreateIs
  <2>2. asks' \in 0..MaxAsks
    BY <2>1, AccountsAssumption DEF AccountTypes
  <2> QED BY <1>3, <2>1, <2>2 DEF Create, AccountTypes
<1>4. ASSUME NEW a \in Members, NEW u \in Members, SendLink(a, u) PROVE AccountTypes'
  BY <1>4, TokenTyped DEF SendLink, AccountTypes
<1>5. ASSUME NEW u \in Members, NEW link \in links, ByLink(u, link) PROVE AccountTypes'
  <2>1. request' \in [Members -> {NoAsk} \cup AskType] /\ asks' = asks + 1 /\ asks + 1 \in 1..MaxAsks
    BY <1>5, ByLinkIs
  <2>2. asks' \in 0..MaxAsks
    BY <2>1, AccountsAssumption
  <2>3. UNCHANGED <<user, userForm, links>> /\ used' = used \cup {link} /\ overlapped' \in BOOLEAN
    BY <1>5 DEF ByLink, AccountTypes, Overlaps
  <2> QED BY <2>1, <2>2, <2>3 DEF AccountTypes
<1>6. ASSUME NEW u \in Members, Promote(u) PROVE AccountTypes'
  <2>1. asks' \in 0..MaxAsks /\ UNCHANGED <<userForm, request, links, used, overlapped>>
    BY <1>6, AccountsAssumption DEF Promote, AccountTypes
  <2> QED BY <1>6, <2>1, PromoteIs DEF AccountTypes
<1>7. ASSUME NEW u \in Members, LogIn(u) PROVE AccountTypes'
  <2>1. asks' = asks + 1 /\ asks < MaxAsks /\ user' \in [Members -> User]
    BY <1>7, LogInIs
  <2>2. asks' \in 0..MaxAsks
    BY <2>1, AccountsAssumption DEF AccountTypes
  <2>3. UNCHANGED <<userForm, request, links, used>> /\ overlapped' \in BOOLEAN
    BY <1>7 DEF LogIn, AccountTypes, Overlaps
  <2> QED BY <2>1, <2>2, <2>3 DEF AccountTypes
<1>8. ASSUME NEW a \in Members, Serves(a) PROVE AccountTypes'
  BY <1>8, ServesTypes
<1>9. CASE UNCHANGED accountVars
  BY <1>9 DEF accountVars, AccountTypes
<1> QED BY <1>1, <1>2, <1>3, <1>4, <1>5, <1>6, <1>7, <1>8, <1>9 DEF AccountsNext, Serves

-----------------------------------------------------------------------------
(* One request at a time.                                                    *)
LEMMA UsedAreLinks ==
  ASSUME AccountTypes, NEW l \in used
  PROVE  l \in links /\ l \in Link /\ l.of \in Members
BY DEF AccountTypes, Link

LEMMA IdleFacts ==
  ASSUME AccountTypes, OneByOne, \A b \in Members : request[b] = NoAsk
  PROVE  /\ \A l \in used : ~user[l.of].row.exists \/ l.password < user[l.of].row.password
         /\ \A u \in Members : user[u].row.exists /\ user[u].row.given => user[u].must
<1>1. \A b \in Members : request[b].at = "idle"
  BY DEF NoAsk
<1>2. \A l \in used : ~Setting(l.of)
  BY <1>1, UsedAreLinks DEF Setting
<1>3. \A u \in Members : Due(u) => user[u].must
  BY <1>1 DEF Due
<1> QED BY <1>2, <1>3 DEF OneByOne, UsedUp, GivenAreDue

(* The same, whoever's request is at the server, if it sets no password.     *)
LEMMA OthersFacts ==
  ASSUME AccountTypes, OneByOne, NEW a \in Members, request[a] # NoAsk
  PROVE  /\ \A b \in Members \ {a} : request[b] = NoAsk /\ request[b].at = "idle"
         /\ \A l \in used : Setting(l.of) => l.of = a /\ request[a].at = "write"
                                             /\ request[a].kind = "reset" /\ request[a].of = a
         /\ \A u \in Members : Due(u) => \/ user[u].must
                                         \/ request[a].at = "must" /\ request[a].of = u
<1>1. \A b \in Members \ {a} : request[b] = NoAsk /\ request[b].at = "idle"
  BY DEF OneByOne, Alone, NoAsk
<1>2. \A l \in used : Setting(l.of) => l.of = a
  BY <1>1, UsedAreLinks DEF Setting
<1> QED BY <1>1, <1>2 DEF Setting, Due

\* A request begins with none other at the server.
LEMMA BeginKeeps ==
  ASSUME AccountTypes, AccountTypes', OneByOne, NEW a \in Members,
         request[a] = NoAsk, ~Overlaps(a), UNCHANGED <<user, links>>, asks' = asks + 1,
         request'[a] \in AskType, request'[a].number = asks + 1, request'[a].of \in Members,
         request'[a].at = "asked" \/ Setting(a)',
         \A b \in Members \ {a} : request'[b] = request[b],
         \A l \in used' : l \in used \/ (Setting(a)' /\ l.of = a)
  PROVE  OneByOne'
<1> DEFINE r == request'[a]
<1>1. \A b \in Members : request[b] = NoAsk
  BY DEF Overlaps
<1>2. \A b \in Members \ {a} : request'[b] = NoAsk /\ request'[b].at = "idle"
  BY <1>1 DEF NoAsk
<1>3. asks \in Nat /\ \A u \in Members : user[u].row.password \in Nat /\ user[u].row.password <= asks
  BY UserFields DEF OneByOne, Counted, AccountTypes
<1>4. \A l \in links : l.password \in Nat /\ l.password <= asks
  BY DEF OneByOne, Counted, AccountTypes, Link
<1>5. Alone'
  BY <1>2 DEF Alone
<1>6. Counted'
  <2>1. \A b \in Members : request'[b] # NoAsk => b = a
    BY <1>2
  <2>2. asks + 1 <= asks' /\ asks <= asks'
    BY <1>3
  <2>3. \A u \in Members : user[u].row.password <= asks'
    BY <1>3, <2>2
  <2>4. \A l \in links : l.password <= asks'
    BY <1>3, <1>4, <2>2
  <2> QED BY <2>1, <2>2, <2>3, <2>4 DEF Counted
<1>7. Newer'
  <2>1. user[r.of].row.password < asks + 1
    BY <1>3
  <2>2. \A l \in links : l.password < asks + 1
    BY <1>3, <1>4
  <2>3. NewerThan(request[a])'
    BY <2>1, <2>2 DEF NewerThan
  <2> QED BY <1>2, <2>3 DEF Newer
<1>8. CheckHolds'
  <2>1. request'[a].at = "asked" \/ (request'[a].at = "write" /\ request'[a].kind = "reset")
    BY DEF Setting
  <2>2. MayStill(a, request[a])'
    BY <2>1 DEF MayStill
  <2> QED BY <1>2, <2>2 DEF CheckHolds
<1>9. AlwaysAnAdmin'
  BY DEF OneByOne, AlwaysAnAdmin, IsAdmin, MayUse, Assigned
<1>10. UsedUp'
  BY <1>1, IdleFacts DEF UsedUp
<1>11. GivenAreDue'
  BY <1>1, IdleFacts DEF GivenAreDue, Due
<1> QED BY <1>5, <1>6, <1>7, <1>8, <1>9, <1>10, <1>11 DEF OneByOne

\* The server's steps past a check begin no other.
LEMMA ServedKeeps ==
  ASSUME AccountTypes, AccountTypes', OneByOne, NEW a \in Members, request[a] # NoAsk,
         UNCHANGED <<links, used, asks>>,
         \A b \in Members \ {a} : request'[b] = request[b],
         request'[a] # NoAsk => request'[a].number = request[a].number,
         request'[a].at \in {"asked", "write"} => NewerThan(request[a])',
         request'[a] # NoAsk => MayStill(a, request[a])',
         \A u \in Members : user'[u].row.password <= asks,
         AlwaysAnAdmin', UsedUp', GivenAreDue'
  PROVE  OneByOne'
<1>1. \A b \in Members \ {a} : request'[b] = NoAsk /\ request'[b].at = "idle"
  BY OthersFacts
<1>2. Alone'
  BY <1>1 DEF Alone
<1>3. Counted'
  BY <1>1 DEF OneByOne, Counted
<1>4. Newer'
  BY <1>1 DEF Newer
<1>5. CheckHolds'
  BY <1>1 DEF CheckHolds
<1> QED BY <1>2, <1>3, <1>4, <1>5 DEF OneByOne

(* What changes no password, and neither gives nor is to change one.         *)
LEMMA PasswordsKept ==
  ASSUME AccountTypes, OneByOne, NEW a \in Members, request[a] # NoAsk, UNCHANGED <<used, asks>>,
         request[a].at # "must", request[a].at = "write" => request[a].kind # "reset",
         \A u \in Members :
           /\ user'[u].row.password = user[u].row.password
           /\ user'[u].row.exists =>
                user[u].row.exists /\ user'[u].row.given = user[u].row.given /\ user'[u].must = user[u].must
  PROVE  /\ \A u \in Members : user'[u].row.password <= asks
         /\ UsedUp' /\ GivenAreDue'
<1>1. \A u \in Members : user'[u].row.password <= asks
  BY DEF OneByOne, Counted
<1>2. \A l \in used : ~Setting(l.of) /\ l.of \in Members
  BY OthersFacts, UsedAreLinks
<1>3. UsedUp'
  BY <1>2 DEF OneByOne, UsedUp
<1>4. \A u \in Members : Due(u) => user[u].must
  BY OthersFacts
<1>5. GivenAreDue'
  BY <1>4 DEF OneByOne, GivenAreDue, Due
<1> QED BY <1>1, <1>3, <1>5

LEMMA CheckKeeps ==
  ASSUME AccountTypes, AccountTypes', OneByOne, NEW a \in Members, CheckAsk(a)
  PROVE  OneByOne'
<1> DEFINE r == request[a]
<1>1. /\ r \in AskType /\ r.at = "asked" /\ r # NoAsk /\ r.of \in Members
      /\ \A b \in Members \ {a} : request'[b] = request[b]
  BY CheckAskIs, AskFields DEF NoAsk
<1>2. UNCHANGED <<user, links, used, asks>>
  BY DEF CheckAsk
<1>3. (\A u \in Members : user'[u].row.password <= asks) /\ UsedUp' /\ GivenAreDue'
  BY <1>1, <1>2, PasswordsKept
<1>4. AlwaysAnAdmin'
  BY <1>2 DEF OneByOne, AlwaysAnAdmin, IsAdmin, MayUse, Assigned
<1>5. CASE request'[a] = NoAsk
  BY <1>1, <1>2, <1>3, <1>4, <1>5, ServedKeeps DEF NoAsk
<1>6. CASE request'[a] # NoAsk
  <2> DEFINE new == request'[a]
  <2>1. /\ Allowed(a, r)
        /\ new.at = "write" /\ new.kind = r.kind /\ new.of = r.of
        /\ new.number = r.number /\ new.row = user[r.of].row
        /\ new.values.active = r.values.active /\ new.values.role = r.values.role
        /\ new.values.super = AccessAfter(a, r)
    BY <1>6, CheckAskIs
  <2>2. NewerThan(r)
    BY <1>1 DEF OneByOne, Newer
  <2>3. NewerThan(request[a])'
    BY <1>2, <2>1, <2>2 DEF NewerThan
  <2>4. CASE r.kind \in {"edit", "toggle"}
    <3>1. /\ IsAdmin(a) /\ user[r.of].row.exists /\ NotOwn(a, r)
      BY <2>1, <2>4 DEF Allowed, AdminAdmitted, MayManage
    <3>2. ASSUME r.of = a
          PROVE  /\ r.values.active
                 /\ \/ AccessAfter(a, r)
                    \/ user[a].role = "admin" /\ (r.kind = "edit" => r.values.role = "admin")
      <4>1. r.values.active
        BY <3>1, <3>2 DEF NotOwn
      <4>2. CASE user[a].row.super
        BY <3>1, <3>2, <4>2 DEF NotOwn, AccessAfter
      <4>3. CASE ~user[a].row.super
        BY <3>1, <3>2, <4>3 DEF NotOwn, IsAdmin, Assigned
      <4> QED BY <4>1, <4>2, <4>3
    <3>3. IsAdmin(a)'
      BY <1>2, <3>1 DEF IsAdmin, MayUse, Assigned
    <3> QED
      <4>1. MayStill(a, request[a])'
        BY <1>2, <2>1, <2>4, <3>1, <3>2, <3>3 DEF MayStill
      <4> QED BY <1>1, <1>2, <1>3, <1>4, <2>1, <2>3, <4>1, ServedKeeps
  <2>5. CASE r.kind \notin {"edit", "toggle"}
    <3>1. r.kind = "delete" => IsAdmin(a)' /\ r.of # a
      BY <1>2, <2>1 DEF Allowed, AdminAdmitted, IsAdmin, MayUse, Assigned
    <3>2. MayStill(a, request[a])'
      BY <2>1, <2>5, <3>1 DEF MayStill
    <3> QED BY <1>1, <1>2, <1>3, <1>4, <2>1, <2>3, <3>2, ServedKeeps
  <2> QED BY <2>4, <2>5
<1> QED BY <1>5, <1>6

LEMMA WriteRowKeeps ==
  ASSUME AccountTypes, AccountTypes', OneByOne, NEW a \in Members, WriteRow(a)
  PROVE  OneByOne'
<1> DEFINE r == request[a]
<1>1. /\ r \in AskType /\ r.at = "write" /\ r.kind \in {"edit", "toggle"}
      /\ user'[r.of].row = [r.row EXCEPT !.active = r.values.active, !.super = r.values.super]
      /\ user'[r.of].role = (IF user[r.of].row.exists THEN user[r.of].role ELSE "none")
      /\ user'[r.of].must = user[r.of].must
      /\ \A u \in Members \ {r.of} : user'[u] = user[u]
  BY WriteRowIs
<1>2. r.of \in Members /\ r # NoAsk /\ r.row \in Row
  BY <1>1, AskFields DEF NoAsk
<1>3. UNCHANGED <<links, used, asks>>
  BY DEF WriteRow
<1>4. MayStill(a, r)
  BY <1>2 DEF OneByOne, CheckHolds
<1>5. /\ IsAdmin(a) /\ user[r.of].row.exists /\ r.row = user[r.of].row
      /\ r.of = a => /\ r.values.active
                     /\ \/ r.values.super
                        \/ user[a].role = "admin" /\ (r.kind = "edit" => r.values.role = "admin")
  BY <1>1, <1>4 DEF MayStill
<1>6. /\ user'[r.of].row.active = r.values.active /\ user'[r.of].row.super = r.values.super
      /\ user'[r.of].row.exists = user[r.of].row.exists
      /\ user'[r.of].row.password = user[r.of].row.password
      /\ user'[r.of].row.given = user[r.of].row.given
      /\ user'[r.of].role = user[r.of].role
  <2> DEFINE row == [r.row EXCEPT !.active = r.values.active, !.super = r.values.super]
  <2>1. /\ row.active = r.values.active /\ row.super = r.values.super
        /\ row.exists = r.row.exists /\ row.password = r.row.password /\ row.given = r.row.given
    BY <1>2 DEF Row
  <2>2. user'[r.of].row = row
    BY <1>1
  <2> HIDE DEF row
  <2>3. user'[r.of].role = user[r.of].role
    BY <1>1, <1>5
  <2> QED BY <1>5, <2>1, <2>2, <2>3
<1>7. (\A u \in Members : user'[u].row.password <= asks) /\ UsedUp' /\ GivenAreDue'
  BY <1>1, <1>2, <1>3, <1>6, PasswordsKept
<1>8. IsAdmin(a)'
  <2>1. CASE r.of = a
    BY <1>5, <1>6, <2>1 DEF IsAdmin, MayUse, Assigned
  <2>2. CASE r.of # a
    <3>1. user'[a] = user[a]
      BY <1>1, <2>2
    <3> QED BY <1>5, <3>1 DEF IsAdmin, MayUse, Assigned
  <2> QED BY <2>1, <2>2
<1>9. AlwaysAnAdmin'
  BY <1>8 DEF AlwaysAnAdmin
<1>10. CASE r.kind = "edit" /\ ~r.values.super
  <2>1. request' = [request EXCEPT ![a].at = "role"]
    BY <1>10 DEF WriteRow
  <2>2. /\ request'[a] \in AskType /\ request'[a] = [r EXCEPT !.at = "role"]
        /\ \A b \in Members \ {a} : request'[b] = request[b]
    BY <1>1, <2>1, AdvanceTypes
  <2>3. /\ request'[a].at = "role" /\ request'[a].of = r.of /\ request'[a].number = r.number
        /\ request'[a].values = r.values
    BY <1>1, <2>2 DEF AskType
  <2>4. MayStill(a, request[a])'
    BY <1>5, <1>8, <1>10, <2>3 DEF MayStill
  <2> QED BY <1>2, <1>3, <1>7, <1>9, <2>2, <2>3, <2>4, ServedKeeps
<1>11. CASE ~(r.kind = "edit" /\ ~r.values.super)
  <2>1. FinishAsk(a)
    BY <1>11 DEF WriteRow
  <2>2. request'[a] = NoAsk /\ request'[a].at = "idle" /\ \A b \in Members \ {a} : request'[b] = request[b]
    BY <2>1, FinishTypes DEF NoAsk
  <2> QED BY <1>2, <1>3, <1>7, <1>9, <2>2, ServedKeeps
<1> QED BY <1>10, <1>11

LEMMA SetRoleKeeps ==
  ASSUME AccountTypes, AccountTypes', OneByOne, NEW a \in Members, SetRole(a)
  PROVE  OneByOne'
<1> DEFINE r == request[a]
<1>1. /\ r \in AskType /\ r.at = "role"
      /\ user'[r.of].row = user[r.of].row /\ user'[r.of].must = user[r.of].must
      /\ user'[r.of].role = (IF user[r.of].row.exists THEN r.values.role ELSE user[r.of].role)
      /\ \A u \in Members \ {r.of} : user'[u] = user[u]
  BY SetRoleIs
<1>2. r.of \in Members /\ r # NoAsk
  BY <1>1, AskFields DEF NoAsk
<1>3. UNCHANGED <<links, used, asks>> /\ FinishAsk(a)
  BY DEF SetRole
<1>4. MayStill(a, r)
  BY <1>2 DEF OneByOne, CheckHolds
<1>5. IsAdmin(a) /\ (r.of = a => r.values.role = "admin")
  BY <1>1, <1>4 DEF MayStill
<1>6. (\A u \in Members : user'[u].row.password <= asks) /\ UsedUp' /\ GivenAreDue'
  BY <1>1, <1>2, <1>3, PasswordsKept
<1>7. IsAdmin(a)'
  <2>1. CASE r.of = a
    BY <1>1, <1>5, <2>1 DEF IsAdmin, MayUse, Assigned
  <2>2. CASE r.of # a
    <3>1. user'[a] = user[a]
      BY <1>1, <2>2
    <3> QED BY <1>5, <3>1 DEF IsAdmin, MayUse, Assigned
  <2> QED BY <2>1, <2>2
<1>8. AlwaysAnAdmin'
  BY <1>7 DEF AlwaysAnAdmin
<1>9. request'[a] = NoAsk /\ request'[a].at = "idle" /\ \A b \in Members \ {a} : request'[b] = request[b]
  BY <1>3, FinishTypes DEF NoAsk
<1> QED BY <1>2, <1>3, <1>6, <1>8, <1>9, ServedKeeps

LEMMA DeleteKeeps ==
  ASSUME AccountTypes, AccountTypes', OneByOne, NEW a \in Members, DeleteAccount(a)
  PROVE  OneByOne'
<1> DEFINE r == request[a]
<1>1. /\ r \in AskType /\ r.at = "write" /\ r.kind = "delete"
      /\ user'[r.of].row.exists = FALSE
      /\ user'[r.of].row.password = user[r.of].row.password
      /\ \A u \in Members \ {r.of} : user'[u] = user[u]
  BY DeleteAccountIs
<1>2. r.of \in Members /\ r # NoAsk
  BY <1>1, AskFields DEF NoAsk
<1>3. UNCHANGED <<links, used, asks>> /\ FinishAsk(a)
  BY DEF DeleteAccount
<1>4. MayStill(a, r)
  BY <1>2 DEF OneByOne, CheckHolds
<1>5. IsAdmin(a) /\ r.of # a
  BY <1>1, <1>4 DEF MayStill
<1>6. (\A u \in Members : user'[u].row.password <= asks) /\ UsedUp' /\ GivenAreDue'
  BY <1>1, <1>2, <1>3, PasswordsKept
<1>7. AlwaysAnAdmin'
  <2>1. user'[a] = user[a]
    BY <1>1, <1>5
  <2> QED BY <1>5, <2>1 DEF AlwaysAnAdmin, IsAdmin, MayUse, Assigned
<1>8. request'[a] = NoAsk /\ request'[a].at = "idle" /\ \A b \in Members \ {a} : request'[b] = request[b]
  BY <1>3, FinishTypes DEF NoAsk
<1> QED BY <1>2, <1>3, <1>6, <1>7, <1>8, ServedKeeps

LEMMA SetPasswordKeeps ==
  ASSUME AccountTypes, AccountTypes', OneByOne, NEW a \in Members, SetPassword(a)
  PROVE  OneByOne'
<1> DEFINE r == request[a]
<1>1. r \in AskType /\ r.at = "write" /\ r.kind \in {"give", "change", "reset"} /\ r # NoAsk
      /\ r.of \in Members
  BY AskFields DEF SetPassword, NoAsk
<1>2. UNCHANGED <<links, used, asks>>
  BY DEF SetPassword
<1>3. \A u \in Members : Due(u) => user[u].must
  BY <1>1, OthersFacts
<1>4. \A l \in used : /\ Setting(l.of) => l.of = a /\ r.of = a
                      /\ l \in links /\ l.of \in Members
  BY <1>1, OthersFacts, UsedAreLinks
<1>5. NewerThan(r) /\ r.number <= asks
  BY <1>1 DEF OneByOne, Newer, Counted
<1>6. PICK x \in Members : IsAdmin(x)
  BY DEF OneByOne, AlwaysAnAdmin
<1>7. CASE user[r.of].row.exists
  <2>1. /\ user'[r.of].row = [user[r.of].row EXCEPT !.password = r.number, !.given = (r.kind = "give")]
        /\ user'[r.of].role = user[r.of].role /\ user'[r.of].must = user[r.of].must
        /\ \A u \in Members \ {r.of} : user'[u] = user[u]
        /\ request' = [request EXCEPT ![a].at = "must"]
    BY <1>7, SetPasswordIs
  <2>2. user[r.of].row \in Row
    BY <1>1, UserFields
  <2>3. /\ user'[r.of].row.password = r.number /\ user'[r.of].row.given = (r.kind = "give")
        /\ user'[r.of].row.exists = user[r.of].row.exists
        /\ user'[r.of].row.active = user[r.of].row.active
        /\ user'[r.of].row.super = user[r.of].row.super
    BY <2>1, <2>2 DEF Row
  <2>4. /\ request'[a] = [r EXCEPT !.at = "must"]
        /\ \A b \in Members \ {a} : request'[b] = request[b]
    BY <1>1, <2>1, AdvanceTypes
  <2>5. /\ request'[a].at = "must" /\ request'[a].of = r.of /\ request'[a].number = r.number
        /\ request'[a].kind = r.kind
    BY <1>1, <2>4 DEF AskType
  <2>6. \A u \in Members : user'[u].row.password <= asks
    BY <1>5, <2>1, <2>3 DEF OneByOne, Counted
  <2>7. IsAdmin(x)'
    <3>1. CASE x = r.of
      BY <1>6, <2>1, <2>3, <3>1 DEF IsAdmin, MayUse, Assigned
    <3>2. CASE x # r.of
      <4>1. user'[x] = user[x]
        BY <2>1, <3>2
      <4> QED BY <1>6, <4>1 DEF IsAdmin, MayUse, Assigned
    <3> QED BY <3>1, <3>2
  <2>8. AlwaysAnAdmin'
    BY <2>7 DEF AlwaysAnAdmin
  <2>9. ASSUME NEW l \in used
        PROVE  ~user'[l.of].row.exists \/ l.password < user'[l.of].row.password
    <3>1. CASE l.of = r.of
      BY <1>4, <1>5, <2>3, <3>1 DEF NewerThan
    <3>2. CASE l.of # r.of
      <4>1. ~Setting(l.of) /\ user'[l.of] = user[l.of]
        BY <1>4, <2>1, <3>2
      <4> QED BY <4>1 DEF OneByOne, UsedUp
    <3> QED BY <3>1, <3>2
  <2>10. UsedUp'
    BY <1>2, <2>9 DEF UsedUp
  <2>11. ASSUME NEW u \in Members, user'[u].row.exists /\ user'[u].row.given PROVE Due(u)'
    <3>1. CASE u = r.of
      BY <2>5, <3>1 DEF Due
    <3>2. CASE u # r.of
      <4>1. user'[u] = user[u]
        BY <2>1, <3>2
      <4>2. user[u].must
        BY <1>3, <2>11, <4>1 DEF OneByOne, GivenAreDue
      <4> QED BY <4>1, <4>2 DEF Due
    <3> QED BY <3>1, <3>2
  <2>12. GivenAreDue'
    BY <2>11 DEF GivenAreDue
  <2>13. MayStill(a, request[a])'
    BY <2>3, <2>5 DEF MayStill
  <2> QED BY <1>1, <1>2, <2>4, <2>5, <2>6, <2>8, <2>10, <2>12, <2>13, ServedKeeps
<1>8. CASE ~user[r.of].row.exists
  <2>1. FinishAsk(a) /\ UNCHANGED user
    BY <1>8 DEF SetPassword
  <2>2. request'[a] = NoAsk /\ request'[a].at = "idle" /\ \A b \in Members \ {a} : request'[b] = request[b]
    BY <2>1, FinishTypes DEF NoAsk
  <2>3. \A u \in Members : user'[u].row.password <= asks
    BY <2>1 DEF OneByOne, Counted
  <2>4. AlwaysAnAdmin'
    BY <2>1 DEF OneByOne, AlwaysAnAdmin, IsAdmin, MayUse, Assigned
  <2>5. UsedUp'
    BY <1>2, <1>4, <1>8, <2>1 DEF OneByOne, UsedUp
  <2>6. GivenAreDue'
    BY <1>3, <2>1 DEF OneByOne, GivenAreDue, Due
  <2> QED BY <1>1, <1>2, <2>2, <2>3, <2>4, <2>5, <2>6, ServedKeeps
<1> QED BY <1>7, <1>8

LEMMA SetMustKeeps ==
  ASSUME AccountTypes, AccountTypes', OneByOne, NEW a \in Members, SetMust(a)
  PROVE  OneByOne'
<1> DEFINE r == request[a]
<1>1. /\ r \in AskType /\ r.at = "must"
      /\ user'[r.of].row = user[r.of].row /\ user'[r.of].role = user[r.of].role
      /\ user[r.of].row.exists => user'[r.of].must = (r.kind = "give")
      /\ \A u \in Members \ {r.of} : user'[u] = user[u]
  BY SetMustIs
<1>2. r.of \in Members /\ r # NoAsk
  BY <1>1, AskFields DEF NoAsk
<1>3. UNCHANGED <<links, used, asks>> /\ FinishAsk(a)
  BY DEF SetMust
<1>4. user[r.of].row.exists => (user[r.of].row.given <=> r.kind = "give")
  BY <1>1, <1>2 DEF OneByOne, CheckHolds, MayStill
<1>5. \A u \in Members : user'[u].row = user[u].row /\ user'[u].role = user[u].role
  BY <1>1
<1>6. \A u \in Members : user'[u].row.password <= asks
  BY <1>5 DEF OneByOne, Counted
<1>7. AlwaysAnAdmin'
  BY <1>5 DEF OneByOne, AlwaysAnAdmin, IsAdmin, MayUse, Assigned
<1>8. \A l \in used : ~Setting(l.of) /\ l.of \in Members
  BY <1>1, <1>2, OthersFacts, UsedAreLinks
<1>9. UsedUp'
  BY <1>3, <1>5, <1>8 DEF OneByOne, UsedUp
<1>10. \A u \in Members : Due(u) => user[u].must \/ r.of = u
  BY <1>2, OthersFacts
<1>11. ASSUME NEW u \in Members, user'[u].row.exists /\ user'[u].row.given PROVE user'[u].must
  <2>1. CASE u = r.of
    BY <1>1, <1>4, <1>5, <1>11, <2>1
  <2>2. CASE u # r.of
    <3>1. user'[u] = user[u]
      BY <1>1, <2>2
    <3> QED BY <1>10, <1>11, <2>2, <3>1 DEF OneByOne, GivenAreDue
  <2> QED BY <2>1, <2>2
<1>12. GivenAreDue'
  BY <1>11 DEF GivenAreDue, Due
<1>13. request'[a] = NoAsk /\ request'[a].at = "idle" /\ \A b \in Members \ {a} : request'[b] = request[b]
  BY <1>3, FinishTypes DEF NoAsk
<1> QED BY <1>2, <1>3, <1>6, <1>7, <1>9, <1>12, <1>13, ServedKeeps

LEMMA ServesKeep ==
  ASSUME AccountTypes, AccountTypes', OneByOne, NEW a \in Members, Serves(a)
  PROVE  OneByOne'
BY CheckKeeps, WriteRowKeeps, SetRoleKeeps, DeleteKeeps, SetPasswordKeeps, SetMustKeeps DEF Serves

LEMMA AskServerKeeps ==
  ASSUME AccountTypes, AccountTypes', OneByOne, ~overlapped', NEW a \in Members, BeginsSome(a)
  PROVE  OneByOne'
<1>1. PICK kind \in Kinds, of \in Members, values \in FormValues : AskServer(a, kind, of, values)
  BY DEF BeginsSome
<1> DEFINE r == [at |-> "asked", kind |-> kind, of |-> of, values |-> values, row |-> user[of].row,
                 number |-> asks + 1]
<1>2. /\ request[a] = NoAsk /\ ~Overlaps(a) /\ UNCHANGED <<user, links, used>> /\ asks' = asks + 1
      /\ request' = [request EXCEPT ![a] = r]
  BY <1>1 DEF AskServer
<1>3. r.at = "asked" /\ r.number = asks + 1 /\ r.of \in Members /\ r # NoAsk
  BY DEF NoAsk
<1> HIDE DEF r
<1>4. request'[a] = r /\ \A b \in Members \ {a} : request'[b] = request[b]
  BY <1>2 DEF AccountTypes
<1>5. request'[a] \in AskType
  BY <1>3, <1>4 DEF AccountTypes
<1> QED BY <1>2, <1>3, <1>4, <1>5, BeginKeeps

LEMMA ByLinkKeeps ==
  ASSUME AccountTypes, AccountTypes', OneByOne, ~overlapped', NEW u \in Members,
         NEW link \in links, ByLink(u, link)
  PROVE  OneByOne'
<1>1. /\ request[u] = NoAsk /\ ~Overlaps(u) /\ UNCHANGED <<user, links>>
      /\ used' = used \cup {link} /\ link.of = u
  BY DEF ByLink
<1>2. /\ request'[u] \in AskType /\ request'[u].at = "write" /\ request'[u].kind = "reset"
      /\ request'[u].of = u /\ request'[u].number = asks + 1 /\ asks' = asks + 1
      /\ \A b \in Members \ {u} : request'[b] = request[b]
  BY ByLinkIs
<1>3. Setting(u)'
  BY <1>2 DEF Setting
<1>4. \A l \in used' : l \in used \/ l.of = u
  BY <1>1
<1> QED BY <1>1, <1>2, <1>3, <1>4, BeginKeeps

LEMMA CreateKeeps ==
  ASSUME AccountTypes, AccountTypes', OneByOne, NEW a \in Members, NEW u \in Members, Create(a, u)
  PROVE  OneByOne'
<1>1. /\ asks' = asks + 1
      /\ user'[u].row.password <= asks + 1 /\ (user'[u].row.given => user'[u].must)
      /\ \A v \in Members \ {u} : user'[v] = user[v]
      /\ used' = {l \in used : l.of # u}
      /\ \A l \in links' : l \in links \/ (l.of = u /\ l.password = 0)
  BY CreateIs
<1>2. /\ UNCHANGED request /\ ~user[u].row.exists
      /\ \A b \in Members : request[b] # NoAsk => request[b].of # u
  BY DEF Create
<1>3. asks \in Nat /\ \A v \in Members : user[v].row.password \in Nat /\ user[v].row.password <= asks
  BY UserFields DEF OneByOne, Counted, AccountTypes
<1>4. \A l \in links : l.password \in Nat /\ l.password <= asks
  BY DEF OneByOne, Counted, AccountTypes, Link
<1>5. \A b \in Members : request[b] # NoAsk =>
        request[b].of \in Members \ {u} /\ request[b].number \in Nat /\ request[b].number <= asks
  BY <1>2, AskFields DEF OneByOne, Counted
<1>6. \A v \in Members : IsAdmin(v) => v # u
  BY <1>2 DEF IsAdmin, MayUse
<1>7. Alone'
  BY <1>2 DEF OneByOne, Alone
<1>8. Counted'
  <2>1. \A v \in Members : user'[v].row.password <= asks + 1
    <3>1. \A v \in Members : user[v].row.password <= asks + 1
      BY <1>3
    <3> QED BY <1>1, <3>1
  <2>2. \A l \in links' : l.password <= asks + 1
    <3>1. 0 <= asks + 1 /\ \A l \in links : l.password <= asks + 1
      BY <1>3, <1>4
    <3> QED BY <1>1, <3>1
  <2>3. \A b \in Members : request[b] # NoAsk => request[b].number <= asks + 1
    BY <1>3, <1>5
  <2> QED BY <1>1, <1>2, <2>1, <2>2, <2>3 DEF Counted
<1>9. Newer'
  <2> SUFFICES ASSUME NEW b \in Members, request[b].at \in {"asked", "write"}
               PROVE  NewerThan(request[b])'
    BY <1>2 DEF Newer
  <2>1. NewerThan(request[b]) /\ request[b] # NoAsk
    BY DEF OneByOne, Newer, NoAsk
  <2>2. request[b].of \in Members \ {u}
    BY <1>5, <2>1
  <2> QED BY <1>1, <1>2, <2>1, <2>2 DEF NewerThan
<1>10. CheckHolds'
  <2> SUFFICES ASSUME NEW b \in Members, request[b] # NoAsk PROVE MayStill(b, request[b])'
    BY <1>2 DEF CheckHolds
  <2>1. MayStill(b, request[b])
    BY DEF OneByOne, CheckHolds
  <2>2. user'[request[b].of] = user[request[b].of]
    BY <1>1, <1>5
  <2>3. IsAdmin(b) => user'[b] = user[b]
    BY <1>1, <1>6
  <2>4. IsAdmin(b) => IsAdmin(b)'
    BY <2>3 DEF IsAdmin, MayUse, Assigned
  <2> QED BY <1>2, <2>1, <2>2, <2>3, <2>4 DEF MayStill
<1>11. AlwaysAnAdmin'
  <2>1. PICK x \in Members : IsAdmin(x)
    BY DEF OneByOne, AlwaysAnAdmin
  <2>2. user'[x] = user[x]
    BY <1>1, <1>6, <2>1
  <2> QED BY <2>1, <2>2 DEF AlwaysAnAdmin, IsAdmin, MayUse, Assigned
<1>12. UsedUp'
  <2> SUFFICES ASSUME NEW l \in used, l.of # u
               PROVE  (Setting(l.of) \/ ~user[l.of].row.exists \/ l.password < user[l.of].row.password)'
    BY <1>1 DEF UsedUp
  <2>1. user'[l.of] = user[l.of]
    BY <1>1, UsedAreLinks
  <2> QED BY <1>2, <2>1 DEF OneByOne, UsedUp, Setting
<1>13. GivenAreDue'
  <2> SUFFICES ASSUME NEW v \in Members, user'[v].row.exists /\ user'[v].row.given PROVE Due(v)'
    BY DEF GivenAreDue
  <2>1. CASE v = u
    BY <1>1, <2>1 DEF Due
  <2>2. CASE v # u
    <3>1. user'[v] = user[v]
      BY <1>1, <2>2
    <3>2. Due(v)
      BY <3>1 DEF OneByOne, GivenAreDue
    <3> QED BY <1>2, <3>1, <3>2 DEF Due
  <2> QED BY <2>1, <2>2
<1> QED BY <1>7, <1>8, <1>9, <1>10, <1>11, <1>12, <1>13 DEF OneByOne

(* A user changes with nothing at the server.                                *)
LEMMA IdleKeeps ==
  ASSUME AccountTypes, AccountTypes', OneByOne, \A b \in Members : request[b] = NoAsk,
         UNCHANGED <<request, links, used>>, asks' = asks + 1,
         \A v \in Members :
           /\ user'[v].row.password = user[v].row.password /\ user'[v].row.given = user[v].row.given
           /\ user'[v].row.exists = user[v].row.exists /\ user'[v].must = user[v].must
           /\ IsAdmin(v) => IsAdmin(v)'
  PROVE  OneByOne'
<1>1. \A b \in Members : request'[b] = NoAsk /\ request'[b].at = "idle"
  BY DEF NoAsk
<1>2. Alone' /\ Newer' /\ CheckHolds'
  BY <1>1 DEF Alone, Newer, CheckHolds
<1>3. asks \in Nat /\ \A u \in Members : user[u].row.password \in Nat /\ user[u].row.password <= asks
  BY UserFields DEF OneByOne, Counted, AccountTypes
<1>4. \A l \in links : l.password \in Nat /\ l.password <= asks
  BY DEF OneByOne, Counted, AccountTypes, Link
<1>5. Counted'
  <2>1. \A u \in Members : user[u].row.password <= asks + 1
    BY <1>3
  <2>2. \A l \in links : l.password <= asks + 1
    BY <1>3, <1>4
  <2> QED BY <1>1, <2>1, <2>2 DEF Counted
<1>6. AlwaysAnAdmin'
  BY DEF OneByOne, AlwaysAnAdmin
<1>7. UsedUp'
  BY IdleFacts, UsedAreLinks DEF UsedUp
<1>8. GivenAreDue'
  BY IdleFacts DEF GivenAreDue, Due
<1> QED BY <1>2, <1>5, <1>6, <1>7, <1>8 DEF OneByOne

LEMMA PromoteKeeps ==
  ASSUME AccountTypes, AccountTypes', OneByOne, NEW u \in Members, Promote(u)
  PROVE  OneByOne'
<1>1. /\ \A b \in Members : request[b] = NoAsk
      /\ UNCHANGED <<request, links, used>> /\ asks' = asks + 1
  BY DEF Promote
<1>2. /\ user'[u].row = [user[u].row EXCEPT !.super = TRUE]
      /\ user'[u].must = user[u].must
      /\ \A v \in Members \ {u} : user'[v] = user[v]
  BY PromoteIs
<1>3. user[u].row \in Row
  BY UserFields
<1>4. /\ user'[u].row.password = user[u].row.password /\ user'[u].row.given = user[u].row.given
      /\ user'[u].row.exists = user[u].row.exists /\ user'[u].row.active = user[u].row.active
      /\ user'[u].row.super
  BY <1>2, <1>3 DEF Row
<1>5. ASSUME NEW v \in Members, IsAdmin(v) PROVE IsAdmin(v)'
  <2>1. CASE v = u
    BY <1>4, <1>5, <2>1 DEF IsAdmin, MayUse, Assigned
  <2>2. CASE v # u
    <3>1. user'[v] = user[v]
      BY <1>2, <2>2
    <3> QED BY <1>5, <3>1 DEF IsAdmin, MayUse, Assigned
  <2> QED BY <2>1, <2>2
<1>6. \A v \in Members :
           /\ user'[v].row.password = user[v].row.password /\ user'[v].row.given = user[v].row.given
           /\ user'[v].row.exists = user[v].row.exists /\ user'[v].must = user[v].must
  BY <1>2, <1>4
<1> QED BY <1>1, <1>5, <1>6, IdleKeeps

LEMMA LogInKeeps ==
  ASSUME AccountTypes, AccountTypes', OneByOne, ~overlapped', NEW u \in Members, LogIn(u)
  PROVE  OneByOne'
<1>1. /\ \A b \in Members : request[b] = NoAsk
      /\ UNCHANGED <<request, links, used>> /\ asks' = asks + 1
  BY DEF LogIn, Overlaps
<1>2. /\ user'[u].row = [user[u].row EXCEPT !.login = asks + 1]
      /\ user'[u].must = user[u].must /\ user'[u].role = user[u].role
      /\ \A v \in Members \ {u} : user'[v] = user[v]
  BY LogInIs
<1>3. user[u].row \in Row
  BY UserFields
<1>4. /\ user'[u].row.password = user[u].row.password /\ user'[u].row.given = user[u].row.given
      /\ user'[u].row.exists = user[u].row.exists /\ user'[u].row.active = user[u].row.active
      /\ user'[u].row.super = user[u].row.super
  BY <1>2, <1>3 DEF Row
<1>5. ASSUME NEW v \in Members, IsAdmin(v) PROVE IsAdmin(v)'
  <2>1. CASE v = u
    BY <1>2, <1>4, <1>5, <2>1 DEF IsAdmin, MayUse, Assigned
  <2>2. CASE v # u
    <3>1. user'[v] = user[v]
      BY <1>2, <2>2
    <3> QED BY <1>5, <3>1 DEF IsAdmin, MayUse, Assigned
  <2> QED BY <2>1, <2>2
<1>6. \A v \in Members :
           /\ user'[v].row.password = user[v].row.password /\ user'[v].row.given = user[v].row.given
           /\ user'[v].row.exists = user[v].row.exists /\ user'[v].must = user[v].must
  BY <1>2, <1>4
<1> QED BY <1>1, <1>5, <1>6, IdleKeeps

LEMMA LinksKeep ==
  ASSUME AccountTypes, OneByOne, UNCHANGED <<user, request, used, asks>>,
         \A l \in links' : l \in links \/ \E u \in Members : l = TokenOf(u)
  PROVE  OneByOne'
<1>1. \A u \in Members : TokenOf(u).of = u /\ TokenOf(u).password = user[u].row.password
  BY DEF TokenOf
<1>2. \A l \in links' : l.password <= asks
  BY <1>1 DEF OneByOne, Counted
<1>3. Counted'
  BY <1>2 DEF OneByOne, Counted
<1>4. Newer'
  <2> SUFFICES ASSUME NEW b \in Members, request[b].at \in {"asked", "write"}
               PROVE  NewerThan(request[b])'
    BY DEF Newer
  <2>1. NewerThan(request[b])
    BY DEF OneByOne, Newer
  <2>2. \A l \in links' : l.of = request[b].of => l.password < request[b].number
    BY <1>1, <2>1 DEF NewerThan
  <2> QED BY <2>1, <2>2 DEF NewerThan
<1>5. Alone' /\ UsedUp' /\ GivenAreDue'
  BY DEF OneByOne, Alone, UsedUp, Setting, GivenAreDue, Due
<1>6. AlwaysAnAdmin' /\ CheckHolds'
  BY DEF OneByOne, AlwaysAnAdmin, CheckHolds, MayStill, IsAdmin, MayUse, Assigned
<1> QED BY <1>3, <1>4, <1>5, <1>6 DEF OneByOne

LEMMA AccountsStart == AccountsInit => AccountsInv
<1> SUFFICES ASSUME AccountsInit PROVE AccountsInv
  OBVIOUS
<1> DEFINE row == [exists |-> TRUE, active |-> TRUE, super |-> FALSE, password |-> 0,
                   login |-> 0, given |-> FALSE]
<1>1. 0 \in 0..MaxAsks
  BY AccountsAssumption
<1>2. /\ user = [u \in Members |-> [row |-> row, role |-> "admin", must |-> FALSE]]
      /\ userForm = [u \in Members |-> NoUserForm] /\ request = [u \in Members |-> NoAsk]
      /\ links = {} /\ used = {} /\ asks = 0 /\ overlapped = FALSE
  BY DEF AccountsInit
<1>3. row \in Row
  BY <1>1 DEF Row
<1>4. row.exists /\ row.active /\ row.password = 0 /\ ~row.given
  OBVIOUS
<1> HIDE DEF row
<1>5. [row |-> row, role |-> "admin", must |-> FALSE] \in User
  BY <1>3 DEF User, Roles
<1>6. AccountTypes
  BY <1>1, <1>2, <1>5 DEF AccountTypes
<1>7. \A u \in Members : /\ request[u] = NoAsk /\ request[u].at = "idle"
                         /\ user[u].row = row /\ user[u].role = "admin"
  BY <1>2 DEF NoAsk
<1>8. Alone /\ Newer /\ CheckHolds
  BY <1>7 DEF Alone, Newer, CheckHolds
<1>9. Counted
  BY <1>2, <1>4, <1>7 DEF Counted
<1>10. UsedUp /\ GivenAreDue
  BY <1>2, <1>4, <1>7 DEF UsedUp, GivenAreDue
<1>11. AlwaysAnAdmin
  BY <1>4, <1>7, AccountsAssumption DEF AlwaysAnAdmin, IsAdmin, MayUse, Assigned
<1> QED BY <1>6, <1>8, <1>9, <1>10, <1>11 DEF AccountsInv, OneByOne

LEMMA AccountsKept == AccountsInv /\ [AccountsNext]_accountVars => AccountsInv'
<1> SUFFICES ASSUME AccountsInv, [AccountsNext]_accountVars PROVE AccountsInv'
  OBVIOUS
<1>1. AccountTypes /\ AccountTypes'
  BY TypesKept DEF AccountsInv
<1> SUFFICES ASSUME ~overlapped' PROVE OneByOne'
  BY <1>1 DEF AccountsInv
<1>2. ASSUME NEW a \in Members, BeginsSome(a) PROVE OneByOne'
  <2>1. ~overlapped
    BY <1>2 DEF BeginsSome, AskServer
  <2> QED BY <1>1, <1>2, <2>1, AskServerKeeps DEF AccountsInv
<1>3. ASSUME NEW a \in Members,
             \/ SaveForm(a) \/ ChangeOwn(a)
             \/ \E u \in Members : Toggle(a, u) \/ DeleteUser(a, u) \/ Give(a, u)
      PROVE  OneByOne'
  BY <1>1, <1>2, <1>3, BeginIs
<1>4. ASSUME NEW u \in Members, NEW link \in links, ByLink(u, link) PROVE OneByOne'
  <2>1. ~overlapped
    BY <1>4 DEF ByLink
  <2> QED BY <1>1, <1>4, <2>1, ByLinkKeeps DEF AccountsInv
<1>5. ASSUME NEW u \in Members, LogIn(u) PROVE OneByOne'
  <2>1. ~overlapped
    BY <1>5 DEF LogIn
  <2> QED BY <1>1, <1>5, <2>1, LogInKeeps DEF AccountsInv
<1>6. ASSUME NEW a \in Members, Serves(a) PROVE OneByOne'
  <2>1. ~overlapped
    BY <1>6 DEF Serves, CheckAsk, WriteRow, SetRole, DeleteAccount, SetPassword, SetMust
  <2> QED BY <1>1, <1>6, <2>1, ServesKeep DEF AccountsInv
<1>7. ASSUME NEW a \in Members, NEW u \in Members, Create(a, u) PROVE OneByOne'
  <2>1. ~overlapped
    BY <1>7 DEF Create
  <2> QED BY <1>1, <1>7, <2>1, CreateKeeps DEF AccountsInv
<1>8. ASSUME NEW u \in Members, Promote(u) PROVE OneByOne'
  <2>1. ~overlapped
    BY <1>8 DEF Promote
  <2> QED BY <1>1, <1>8, <2>1, PromoteKeeps DEF AccountsInv
<1>9. ASSUME NEW a \in Members, NEW u \in Members, SendLink(a, u) PROVE OneByOne'
  <2>1. ~overlapped /\ UNCHANGED <<user, request, used, asks>> /\ links' = links \cup {TokenOf(u)}
    BY <1>9 DEF SendLink
  <2> QED BY <1>1, <2>1, LinksKeep DEF AccountsInv
<1>10. ASSUME NEW a \in Members, NEW u \in Members, OpenForm(a, u) PROVE OneByOne'
  <2>1. ~overlapped /\ UNCHANGED <<user, request, used, asks, links>>
    BY <1>10 DEF OpenForm
  <2> QED BY <1>1, <2>1, LinksKeep DEF AccountsInv
<1>11. CASE UNCHANGED accountVars
  <2>1. ~overlapped /\ UNCHANGED <<user, request, used, asks, links>>
    BY <1>11 DEF accountVars
  <2> QED BY <1>1, <2>1, LinksKeep DEF AccountsInv
<1> QED BY <1>3, <1>4, <1>5, <1>6, <1>7, <1>8, <1>9, <1>10, <1>11 DEF AccountsNext, Serves

LEMMA AccountsAlways == AccountsSpec => []AccountsInv
<1>1. AccountsInit => AccountsInv
  BY AccountsStart
<1>2. AccountsInv /\ [AccountsNext]_accountVars => AccountsInv'
  BY AccountsKept
<1> QED BY <1>1, <1>2, PTL DEF AccountsSpec

\* Every state of the users, their forms, requests and links is of the types the module
\* states, whatever overlaps.
THEOREM AccountsTypeCorrect == AccountsSpec => []AccountsTypeOK
<1>1. AccountsInv => AccountsTypeOK
  BY AccountsTyped DEF AccountsInv
<1> QED BY <1>1, AccountsAlways, PTL

\* Whatever an app can reach an account with has its connection recorded, however consent
\* pages, disconnections and clean-ups cross (oauth.py); and until two requests overlap, some
\* active Admin is left, a link that set a password sets no other, and a password given is to
\* be changed (views.py UserViewSet, accounts.py).
THEOREM AccessAlwaysHolds == AppsSpec /\ AccountsSpec => []AccessHolds
<1>1. AppsInv /\ AccountsInv => AccessHolds
  BY OneByOneHolds DEF AppsInv, AccessHolds
<1> QED BY <1>1, AppsAlways, AccountsAlways, PTL

-----------------------------------------------------------------------------
(* Sessions.                                                                 *)
(* What a tab's cache holds and asks for is under the user it last knew to   *)
(* be signed in, and so is the admin it shows.                              *)
OneUser(r) ==
  /\ IsAuthenticated(r) => r.last = r.knows.user
  /\ r.holder # None => r.holder = r.last
  /\ r.data # NoData => r.data.under = r.last /\ r.last # None
  /\ r.ask # NoData => r.ask.under = r.last /\ r.last # None

(* Edits are an admin's.                                                    *)
EditsHeld(r) == r.edits => r.holder # None

TabInv(r) == r \in Tab /\ OneUser(r) /\ EditsHeld(r)

(* An admin is put away for a sign-out on purpose only.                      *)
Purposeful(r, on) == r.signingOut \/ r.heard.at = "out" => on

SessionInv ==
  /\ MaxTurns \in Nat
  /\ SessionTypeOK
  /\ \A t \in OpenTabs : TabInv(tab[t]) /\ Purposeful(tab[t], purposely)
  /\ told # {} => purposely

-----------------------------------------------------------------------------
(* What a tab makes of who it hears is signed in.                           *)
LEMMA AnswerTypes ==
  ASSUME SessionTypeOK
  PROVE  /\ Nobody \in Answers /\ Whoami \in Answers
         /\ \A u \in Users : StandingOf(u) \in Answers
         /\ NoData \in Data /\ \A u \in Users \cup {None} : AskAs(u) \in Data /\ AskAs(u) # NoData
BY DEF SessionTypeOK, Nobody, Answers, Whoami, StandingOf, NoData, Data, AskAs

(* A tab as it hears who is signed in, before it settles.                    *)
Hearing(r, s) ==
  /\ s \in Tab /\ s.last = r.last /\ s.holder = r.holder /\ s.edits = r.edits
  /\ \/ s.data = r.data /\ s.ask = r.ask
     \/ s.data = NoData /\ s.ask = NoData

LEMMA FollowType ==
  ASSUME NEW r \in Tab
  PROVE  /\ Follow(r) \in Tab
         /\ \/ Follow(r) = r /\ (IsAuthenticated(r) => r.last = r.knows.user)
            \/ /\ IsAuthenticated(r) /\ r.last = None
               /\ Follow(r) = [r EXCEPT !.last = r.knows.user]
            \/ /\ IsAuthenticated(r) /\ r.last \notin {None, r.knows.user}
               /\ Follow(r) = [r EXCEPT !.last = r.knows.user, !.data = NoData,
                                        !.ask = IF r.holder = None THEN NoData
                                                ELSE AskAs(r.knows.user)]
<1>1. CASE ~IsAuthenticated(r)
  BY <1>1 DEF Follow
<1>2. CASE IsAuthenticated(r) /\ r.last \in {None, r.knows.user}
  <2>1. r.knows.user \in Users
    BY <1>2 DEF IsAuthenticated, Tab, Answers
  <2>2. Follow(r) = [r EXCEPT !.last = r.knows.user]
    BY <1>2 DEF Follow
  <2>3. CASE r.last = None
    BY <1>2, <2>1, <2>2, <2>3 DEF Tab
  <2>4. CASE r.last = r.knows.user
    <3>1. [r EXCEPT !.last = r.knows.user] = r
      BY <2>4 DEF Tab
    <3> QED BY <2>2, <2>4, <3>1
  <2> QED BY <1>2, <2>3, <2>4
<1>3. CASE IsAuthenticated(r) /\ r.last \notin {None, r.knows.user}
  <2>1. r.knows.user \in Users
    BY <1>3 DEF IsAuthenticated, Tab, Answers
  <2>2. NoData \in Data /\ AskAs(r.knows.user) \in Data
    BY <2>1 DEF NoData, Data, AskAs
  <2>3. Follow(r) = [r EXCEPT !.last = r.knows.user, !.data = NoData,
                              !.ask = IF r.holder = None THEN NoData
                                      ELSE AskAs(r.knows.user)]
    BY <1>3 DEF Follow
  <2> QED BY <1>3, <2>1, <2>2, <2>3, ZenonT(60) DEF Tab
<1> QED BY <1>1, <1>2, <1>3

(* The same users, admin and edits as far as they matter.                   *)
Alike(s, c) == c.knows = s.knows /\ c.heard = s.heard /\ c.check = s.check

LEMMA FollowKeeps ==
  ASSUME NEW r, OneUser(r), NEW s, Hearing(r, s)
  PROVE  LET f == Follow(s) IN
         /\ f \in Tab /\ f.holder = r.holder /\ f.edits = r.edits /\ Alike(s, f)
         /\ f.known = s.known /\ f.signingOut = s.signingOut /\ f.data \in {NoData, s.data}
         /\ IF IsAuthenticated(f) THEN f.last = f.knows.user ELSE f.last = r.last
         /\ f.data # NoData => f.data.under = f.last /\ f.last # None
         /\ f.ask # NoData => f.ask.under = f.last /\ f.last # None
<1> DEFINE f == Follow(s)
<1>1. s \in Tab /\ f \in Tab
  BY FollowType DEF Hearing
<1>2. CASE f = s /\ (IsAuthenticated(s) => s.last = s.knows.user)
  <2> HIDE DEF f
  <2>1. \/ s.data = r.data /\ s.ask = r.ask
        \/ s.data = NoData /\ s.ask = NoData
    BY DEF Hearing
  <2> QED BY <1>1, <1>2, <2>1 DEF f, Hearing, OneUser, Alike
<1>3. CASE /\ IsAuthenticated(s) /\ s.last = None
           /\ f = [s EXCEPT !.last = s.knows.user]
  <2> HIDE DEF f
  <2>1. /\ f.last = s.knows.user /\ f.holder = s.holder /\ f.edits = s.edits
        /\ f.knows = s.knows /\ f.heard = s.heard /\ f.check = s.check /\ f.known = s.known
        /\ f.signingOut = s.signingOut /\ f.data = s.data /\ f.ask = s.ask
    BY <1>1, <1>3 DEF Tab
  <2>2. f.data = NoData /\ f.ask = NoData
    BY <1>3, <2>1 DEF Hearing, OneUser
  <2> QED BY <1>1, <1>3, <2>1, <2>2 DEF f, Hearing, Alike, IsAuthenticated
<1>4. CASE /\ IsAuthenticated(s)
           /\ f = [s EXCEPT !.last = s.knows.user, !.data = NoData,
                            !.ask = IF s.holder = None THEN NoData ELSE AskAs(s.knows.user)]
  <2> HIDE DEF f
  <2>1. /\ f.last = s.knows.user /\ f.holder = s.holder /\ f.edits = s.edits
        /\ f.knows = s.knows /\ f.heard = s.heard /\ f.check = s.check /\ f.known = s.known
        /\ f.signingOut = s.signingOut /\ f.data = NoData
        /\ f.ask \in {NoData, AskAs(s.knows.user)}
    BY <1>1, <1>4 DEF Tab
  <2>2. AskAs(s.knows.user).under = s.knows.user /\ s.knows.user # None
    BY <1>4 DEF AskAs, IsAuthenticated
  <2> QED BY <1>1, <1>4, <2>1, <2>2 DEF f, Hearing, Alike, IsAuthenticated
<1> QED BY <1>1, <1>2, <1>3, <1>4, FollowType

(* Settled, a tab shows one user's admin, and keeps its edits with it.      *)
LEMMA SettleKeeps ==
  ASSUME NEW r \in Tab, OneUser(r), EditsHeld(r), NEW s, Hearing(r, s)
  PROVE  LET c == Settle(s) IN
         /\ TabInv(c) /\ Alike(s, c) /\ (c.signingOut => s.signingOut)
         /\ \/ c.data = NoData \/ c.data = s.data
         /\ r.edits /\ \/ s.knows = [user |-> r.holder, ok |-> TRUE]
                       \/ s.knows = Nobody /\ ~s.signingOut
              => c.edits
<1> DEFINE f == Follow(s)
           m == Mount(f)
           c == ComeBack(m)
<1>1. /\ f \in Tab /\ f.holder = r.holder /\ f.edits = r.edits /\ Alike(s, f)
      /\ f.known = s.known /\ f.signingOut = s.signingOut
      /\ IF IsAuthenticated(f) THEN f.last = f.knows.user ELSE f.last = r.last
      /\ f.data # NoData => f.data.under = f.last /\ f.last # None
      /\ f.ask # NoData => f.ask.under = f.last /\ f.last # None
  BY FollowKeeps
<1>2. f.data \in {NoData, s.data}
  BY FollowKeeps
<1> HIDE DEF f
<1>3. /\ Holder(f) \in Users \cup {None}
      /\ Holder(f) # None => Holder(f) = f.last
      /\ Holder(f) \in {None, f.holder, f.last}
  BY <1>1 DEF Holder, Admitted, IsAuthenticated, OneUser, Tab, Answers
<1>4. /\ m \in Tab /\ m.holder = Holder(f) /\ m.last = f.last /\ m.data = f.data /\ m.ask = f.ask
      /\ m.edits = (f.edits /\ Holder(f) = f.holder) /\ Alike(f, m)
      /\ m.signingOut => f.signingOut
  <2>1. (f.edits /\ Holder(f) = f.holder) \in BOOLEAN
        /\ (f.signingOut /\ ~SaysNobody(f)) \in BOOLEAN
    OBVIOUS
  <2> HIDE DEF Holder
  <2> QED BY <1>1, <1>3, <2>1, ZenonT(60) DEF Mount, Alike, Tab
<1> HIDE DEF m
<1>5. OneUser(m) /\ EditsHeld(m)
  BY <1>1, <1>3, <1>4 DEF OneUser, EditsHeld, IsAuthenticated, Alike
<1>6. /\ c \in Tab /\ c.holder = m.holder /\ c.last = m.last /\ c.data = m.data
      /\ c.edits = m.edits /\ Alike(m, c) /\ c.signingOut = m.signingOut
      /\ \/ c.ask = m.ask
         \/ Admitted(m) /\ c.ask = AskAs(m.last)
  <2>1. CASE Lost(m)
    <3>1. c = [m EXCEPT !.wasLost = TRUE]
      BY <2>1 DEF ComeBack
    <3> QED BY <1>4, <3>1 DEF Tab, Alike
  <2>2. CASE ~Lost(m) /\ Admitted(m) /\ m.wasLost
    <3>1. c = [m EXCEPT !.wasLost = FALSE, !.ask = AskAs(m.last)]
      BY <2>2 DEF ComeBack
    <3>2. AskAs(m.last) \in Data
      BY <1>4 DEF AskAs, Data, Tab
    <3> QED BY <1>4, <2>2, <3>1, <3>2 DEF Tab, Alike
  <2>3. CASE ~Lost(m) /\ ~(Admitted(m) /\ m.wasLost)
    <3>1. c = m
      BY <2>3 DEF ComeBack
    <3> QED BY <1>4, <3>1 DEF Alike
  <2> QED BY <2>1, <2>2, <2>3
<1> HIDE DEF c
<1>7. TabInv(c)
  <2>1. CASE c.ask = m.ask
    BY <1>5, <1>6, <2>1 DEF TabInv, OneUser, EditsHeld, IsAuthenticated, Alike
  <2>2. CASE Admitted(m) /\ c.ask = AskAs(m.last)
    <3>1. m.last # None /\ c.ask.under = m.last
      BY <1>5, <2>2 DEF OneUser, Admitted, IsAuthenticated, AskAs
    <3> QED BY <1>5, <1>6, <3>1 DEF TabInv, OneUser, EditsHeld, IsAuthenticated, Alike
  <2> QED BY <1>6, <2>1, <2>2
<1>8. ASSUME r.edits, \/ s.knows = [user |-> r.holder, ok |-> TRUE]
                      \/ s.knows = Nobody /\ ~s.signingOut
      PROVE  c.edits
  <2>1. r.holder # None
    BY <1>8 DEF EditsHeld
  <2>2. CASE s.knows = [user |-> r.holder, ok |-> TRUE]
    <3>1. Holder(f) = r.holder
      BY <1>1, <2>1, <2>2 DEF Holder, Admitted, IsAuthenticated, Alike
    <3> QED BY <1>1, <1>4, <1>6, <1>8, <3>1
  <2>3. CASE s.knows = Nobody /\ ~s.signingOut
    <3>1. Holder(f) = r.holder
      BY <1>1, <2>3 DEF Holder, Admitted, IsAuthenticated, Alike, Nobody
    <3> QED BY <1>1, <1>4, <1>6, <1>8, <3>1
  <2> QED BY <1>8, <2>2, <2>3
<1>9. c = Settle(s)
  BY DEF Settle, c, m, f
<1> QED BY <1>1, <1>2, <1>4, <1>6, <1>7, <1>8, <1>9 DEF Alike

-----------------------------------------------------------------------------
(* What a tab's step leaves it: one user's admin and data, and its edits    *)
(* unless someone signs out on purpose or someone else signs in.            *)
Stepped(t) ==
  /\ tab' = [tab EXCEPT ![t] = tab'[t]]
  /\ TabInv(tab'[t]) /\ Purposeful(tab'[t], purposely')
  /\ /\ tab[t].edits /\ ~purposely'
     /\ tab'[t].knows \in {Nobody, [user |-> tab[t].holder, ok |-> TRUE]}
     => tab'[t].edits

LEMMA Settled ==
  ASSUME SessionTypeOK, NEW t \in OpenTabs, TabInv(tab[t]), NEW s, Hearing(tab[t], s),
         Purposeful(s, purposely'),
         Becomes(t, Settle(s)) \/ Becomes(t, Recheck(Settle(s)))
  PROVE  Stepped(t)
<1> DEFINE c == Settle(s)
<1>1. /\ TabInv(c) /\ Alike(s, c) /\ (c.signingOut => s.signingOut)
      /\ tab[t].edits /\ \/ s.knows = [user |-> tab[t].holder, ok |-> TRUE]
                         \/ s.knows = Nobody /\ ~s.signingOut
           => c.edits
  BY SettleKeeps DEF TabInv
<1>2. DOMAIN tab = OpenTabs
  BY DEF SessionTypeOK
<1> HIDE DEF c
<1>3. CASE Becomes(t, c)
  <2>1. tab'[t] = c /\ tab' = [tab EXCEPT ![t] = c]
    BY <1>2, <1>3 DEF Becomes
  <2> QED BY <1>1, <2>1 DEF Stepped, Purposeful, Alike
<1>4. CASE Becomes(t, Recheck(c))
  <2>1. tab'[t] = Recheck(c) /\ tab' = [tab EXCEPT ![t] = Recheck(c)]
    BY <1>2, <1>4 DEF Becomes
  <2>2. At("sent", Nobody) \in [at : {"no", "sent", "back"}, says : Answers]
    BY DEF At, Nobody, Answers
  <2>3. /\ Recheck(c) \in Tab /\ Recheck(c).knows = c.knows /\ Recheck(c).heard = c.heard
        /\ Recheck(c).signingOut = c.signingOut /\ Recheck(c).edits = c.edits
        /\ Recheck(c).last = c.last /\ Recheck(c).holder = c.holder
        /\ Recheck(c).data = c.data /\ Recheck(c).ask = c.ask
    BY <1>1, <2>2 DEF Recheck, TabInv, Tab
  <2>4. TabInv(Recheck(c))
    <3> HIDE DEF Recheck
    <3> QED BY <1>1, <2>3 DEF TabInv, OneUser, EditsHeld, IsAuthenticated
  <2> HIDE DEF Recheck
  <2> QED BY <1>1, <2>1, <2>3, <2>4 DEF Stepped, Purposeful, Alike
<1> QED BY <1>3, <1>4 DEF c

(* A step that hears nothing of who is signed in.                           *)
Plain(r, s) ==
  /\ s \in Tab /\ s.knows = r.knows /\ s.last = r.last /\ s.holder = r.holder
  /\ r.edits => s.edits
  /\ s.edits => r.edits \/ r.holder # None
  /\ s.data = r.data \/ s.data = r.ask
  /\ \/ s.ask = NoData
     \/ r.ask # NoData /\ s.ask.under = r.ask.under
     \/ r.holder # None /\ s.ask.under = r.last

LEMMA PlainKeeps ==
  ASSUME SessionTypeOK, NEW t \in OpenTabs, TabInv(tab[t]), NEW s, Plain(tab[t], s),
         Purposeful(s, purposely'), Becomes(t, s)
  PROVE  Stepped(t)
<1>1. tab'[t] = s /\ tab' = [tab EXCEPT ![t] = s]
  BY DEF Becomes, SessionTypeOK
<1>2. TabInv(s)
  <2>1. s.data # NoData => s.data.under = s.last /\ s.last # None
    BY DEF Plain, TabInv, OneUser
  <2>2. s.ask # NoData => s.ask.under = s.last /\ s.last # None
    BY DEF Plain, TabInv, OneUser
  <2> QED BY <2>1, <2>2 DEF Plain, TabInv, OneUser, EditsHeld, IsAuthenticated
<1> QED BY <1>1, <1>2 DEF Stepped, Plain

-----------------------------------------------------------------------------
(* The steps of a tab.                                                      *)
LEMMA CheckSteps ==
  ASSUME SessionInv, NEW t \in OpenTabs,
         Check(t) \/ AnswerCheck(t) \/ LoseCheck(t) \/ ChangePassword(t)
  PROVE  Stepped(t)
<1>1. SessionTypeOK /\ TabInv(tab[t]) /\ tab[t] \in Tab /\ Purposeful(tab[t], purposely)
  BY DEF SessionInv, TabInv
<1>2. PICK check \in [at : {"no", "sent", "back"}, says : Answers] :
        Becomes(t, [tab[t] EXCEPT !.check = check]) /\ UNCHANGED purposely
  BY <1>1, AnswerTypes DEF Check, AnswerCheck, LoseCheck, ChangePassword, Recheck, At, Answers
<1> DEFINE s == [tab[t] EXCEPT !.check = check]
<1>3. Plain(tab[t], s) /\ Purposeful(s, purposely')
  BY <1>1, <1>2 DEF Plain, Purposeful, Tab
<1> QED BY <1>1, <1>2, <1>3, PlainKeeps

LEMMA TakeCheckSteps ==
  ASSUME SessionInv, NEW t \in OpenTabs, TakeCheck(t)
  PROVE  Stepped(t)
<1>1. SessionTypeOK /\ TabInv(tab[t]) /\ tab[t] \in Tab /\ Purposeful(tab[t], purposely)
  BY DEF SessionInv, TabInv
<1> DEFINE s == Hears([tab[t] EXCEPT !.check = At("no", Nobody)], tab[t].check.says)
<1>2. Becomes(t, Settle(s)) /\ UNCHANGED purposely
  BY DEF TakeCheck
<1>3. Hearing(tab[t], s) /\ Purposeful(s, purposely')
  BY <1>1, <1>2 DEF Hearing, Purposeful, Hears, At, Nobody, Answers, Tab
<1> HIDE DEF s
<1> QED BY <1>1, <1>2, <1>3, Settled

LEMMA TakeSignInSteps ==
  ASSUME SessionInv, NEW t \in OpenTabs, TakeSignIn(t)
  PROVE  Stepped(t)
<1>1. SessionTypeOK /\ TabInv(tab[t]) /\ tab[t] \in Tab /\ Purposeful(tab[t], purposely)
  BY DEF SessionInv, TabInv
<1> DEFINE s == Hears([tab[t] EXCEPT !.heard = At("no", Nobody)], tab[t].heard.says)
<1>2. Becomes(t, Recheck(Settle(s))) /\ UNCHANGED purposely
  BY DEF TakeSignIn
<1>3. Hearing(tab[t], s) /\ Purposeful(s, purposely')
  BY <1>1, <1>2 DEF Hearing, Purposeful, Hears, At, Nobody, Answers, Tab
<1> HIDE DEF s
<1> QED BY <1>1, <1>2, <1>3, Settled

LEMMA SignOutSteps ==
  ASSUME SessionInv, NEW t \in OpenTabs, TakeSignOut(t)
  PROVE  Stepped(t) /\ purposely'
<1>1. SessionTypeOK /\ TabInv(tab[t]) /\ tab[t] \in Tab /\ Purposeful(tab[t], purposely)
  BY DEF SessionInv, TabInv
<1> DEFINE s == Hears([tab[t] EXCEPT !.heard = At("no", Nobody), !.signingOut = TRUE,
                                     !.data = NoData, !.ask = NoData], Nobody)
<1>2. Becomes(t, Recheck(Settle(s))) /\ purposely' = purposely /\ purposely
  BY <1>1 DEF TakeSignOut, Purposeful
<1>3. Hearing(tab[t], s) /\ Purposeful(s, purposely')
  BY <1>1, <1>2, ZenonT(60) DEF Hearing, Purposeful, Hears, At, Nobody, Answers, Tab, NoData, Data
<1> HIDE DEF s
<1> QED BY <1>1, <1>2, <1>3, Settled

LEMMA HearSignOutSteps ==
  ASSUME SessionInv, NEW t \in OpenTabs, HearSignOut(t)
  PROVE  Stepped(t) /\ purposely'
<1>1. SessionTypeOK /\ TabInv(tab[t]) /\ tab[t] \in Tab /\ purposely
  BY DEF SessionInv, TabInv, HearSignOut
<1> DEFINE s == [tab[t] EXCEPT !.signingOut = TRUE]
<1>2. Becomes(t, Recheck(Settle(s))) /\ purposely' = purposely
  BY DEF HearSignOut
<1>3. Hearing(tab[t], s) /\ Purposeful(s, purposely')
  BY <1>1, <1>2 DEF Hearing, Purposeful, Tab
<1> HIDE DEF s
<1> QED BY <1>1, <1>2, <1>3, Settled

LEMMA LoginSteps ==
  ASSUME SessionInv, NEW t \in OpenTabs,
         (\E u \in Users : SignIn(t, u)) \/ SignOut(t) \/ LoseAnswer(t)
  PROVE  Stepped(t)
<1>1. SessionTypeOK /\ TabInv(tab[t]) /\ tab[t] \in Tab /\ Purposeful(tab[t], purposely)
  BY DEF SessionInv, TabInv
<1>2. PICK heard \in [at : {"no", "in", "out"}, says : Answers] :
        /\ Becomes(t, [tab[t] EXCEPT !.heard = heard])
        /\ IF heard.at = "out" THEN purposely' = TRUE ELSE UNCHANGED purposely
  <2>1. CASE \E u \in Users : SignIn(t, u)
    <3>1. PICK u \in Users : SignIn(t, u)
      BY <2>1
    <3>2. /\ At("in", StandingOf(u)) \in [at : {"no", "in", "out"}, says : Answers]
          /\ At("in", StandingOf(u)).at # "out"
      BY <1>1, AnswerTypes DEF At
    <3> QED BY <3>1, <3>2 DEF SignIn
  <2>2. CASE SignOut(t)
    <3>1. /\ At("out", Nobody) \in [at : {"no", "in", "out"}, says : Answers]
          /\ At("out", Nobody).at = "out"
      BY <1>1, AnswerTypes DEF At
    <3> QED BY <2>2, <3>1 DEF SignOut
  <2>3. CASE LoseAnswer(t)
    <3>1. /\ At("no", Nobody) \in [at : {"no", "in", "out"}, says : Answers]
          /\ At("no", Nobody).at # "out"
      BY <1>1, AnswerTypes DEF At
    <3> QED BY <2>3, <3>1 DEF LoseAnswer
  <2> QED BY <2>1, <2>2, <2>3
<1> DEFINE s == [tab[t] EXCEPT !.heard = heard]
<1>3. Plain(tab[t], s) /\ Purposeful(s, purposely')
  BY <1>1, <1>2 DEF Plain, Purposeful, Tab
<1> QED BY <1>1, <1>2, <1>3, PlainKeeps

LEMMA AskSteps ==
  ASSUME SessionInv, NEW t \in OpenTabs, Edit(t) \/ Ask(t) \/ AnswerAsk(t) \/ TakeAsked(t)
  PROVE  Stepped(t)
<1>1. SessionTypeOK /\ TabInv(tab[t]) /\ tab[t] \in Tab /\ Purposeful(tab[t], purposely)
      /\ UNCHANGED purposely
  BY DEF SessionInv, TabInv, Edit, Ask, AnswerAsk, TakeAsked
<1>2. CASE Edit(t)
  <2> DEFINE s == [tab[t] EXCEPT !.edits = TRUE]
  <2>1. /\ s \in Tab /\ s.edits = TRUE /\ s.knows = tab[t].knows /\ s.last = tab[t].last
        /\ s.holder = tab[t].holder /\ s.data = tab[t].data /\ s.ask = tab[t].ask
        /\ s.signingOut = tab[t].signingOut /\ s.heard = tab[t].heard
    BY <1>1 DEF Tab
  <2>2. Becomes(t, s) /\ tab[t].holder # None
    BY <1>2 DEF Edit
  <2> HIDE DEF s
  <2>3. Plain(tab[t], s) /\ Purposeful(s, purposely')
    BY <1>1, <2>1, <2>2 DEF Plain, Purposeful
  <2> QED BY <1>1, <2>2, <2>3, PlainKeeps
<1>3. CASE Ask(t)
  <2> DEFINE s == [tab[t] EXCEPT !.ask = AskAs(tab[t].last)]
  <2>1. AskAs(tab[t].last) \in Data /\ AskAs(tab[t].last).under = tab[t].last
    BY <1>1 DEF AskAs, Data, Tab
  <2>2. Plain(tab[t], s) /\ Purposeful(s, purposely') /\ Becomes(t, s)
    BY <1>1, <1>3, <2>1 DEF Plain, Purposeful, Tab, Ask
  <2> QED BY <1>1, <2>2, PlainKeeps
<1>4. CASE AnswerAsk(t)
  <2> DEFINE answer == IF session = None THEN "401" ELSE IF session \in barred THEN "403" ELSE session
  <2>0. answer \in Users \cup {"401", "403"} /\ tab[t].ask # NoData
    BY <1>1, <1>4 DEF AnswerAsk, SessionTypeOK, NoData
  <2>1. PICK of \in Users \cup {"401", "403"} :
          Becomes(t, [tab[t] EXCEPT !.ask.of = of]) /\ tab[t].ask # NoData
    BY <1>4, <2>0 DEF AnswerAsk
  <2> DEFINE s == [tab[t] EXCEPT !.ask.of = of]
  <2>2. Plain(tab[t], s) /\ Purposeful(s, purposely')
    BY <1>1, <2>1 DEF Plain, Purposeful, Tab, Data
  <2> QED BY <1>1, <2>1, <2>2, PlainKeeps
<1>5. CASE TakeAsked(t)
  <2> DEFINE rest == [tab[t] EXCEPT !.ask = NoData]
  <2>1. /\ rest \in Tab /\ Recheck(rest) \in Tab /\ [rest EXCEPT !.data = tab[t].ask] \in Tab
    BY <1>1, ZenonT(60) DEF Recheck, At, Nobody, Answers, NoData, Data, Tab
  <2>2. PICK s \in {rest, Recheck(rest), [rest EXCEPT !.data = tab[t].ask]} : Becomes(t, s)
    BY <1>5 DEF TakeAsked
  <2>3. /\ s \in Tab /\ s.edits = tab[t].edits /\ s.knows = tab[t].knows
        /\ s.last = tab[t].last /\ s.holder = tab[t].holder
        /\ s.data \in {tab[t].data, tab[t].ask} /\ s.ask = NoData
        /\ s.signingOut = tab[t].signingOut /\ s.heard = tab[t].heard
    <3>1. CASE s = rest
      BY <1>1, <2>1, <3>1 DEF Tab
    <3>2. CASE s = Recheck(rest)
      BY <1>1, <2>1, <3>2 DEF Recheck, Tab
    <3>3. CASE s = [rest EXCEPT !.data = tab[t].ask]
      BY <1>1, <2>1, <3>3 DEF Tab
    <3> QED BY <2>2, <3>1, <3>2, <3>3
  <2>4. Plain(tab[t], s) /\ Purposeful(s, purposely')
    BY <1>1, <2>3 DEF Plain, Purposeful
  <2> QED BY <1>1, <2>2, <2>4, PlainKeeps
<1> QED BY <1>2, <1>3, <1>4, <1>5

TabStep(t) ==
  \/ Check(t) \/ AnswerCheck(t) \/ TakeCheck(t) \/ LoseCheck(t)
  \/ \E u \in Users : SignIn(t, u)
  \/ TakeSignIn(t) \/ SignOut(t) \/ TakeSignOut(t) \/ LoseAnswer(t) \/ HearSignOut(t)
  \/ ChangePassword(t) \/ Edit(t) \/ Ask(t) \/ AnswerAsk(t) \/ TakeAsked(t)

LEMMA TabSteps ==
  ASSUME SessionInv, NEW t \in OpenTabs, TabStep(t)
  PROVE  Stepped(t)
BY CheckSteps, TakeCheckSteps, TakeSignInSteps, SignOutSteps, HearSignOutSteps, LoginSteps,
   AskSteps DEF TabStep

LEMMA Turns ==
  ASSUME MaxTurns \in Nat, SessionTypeOK, Turn
  PROVE  turns' \in 0..MaxTurns
BY DEF Turn, SessionTypeOK

LEMMA ServerTypes ==
  ASSUME MaxTurns \in Nat, SessionTypeOK, NEW t \in OpenTabs, TabStep(t)
  PROVE  /\ session' \in Users \cup {None} /\ barred' \subseteq Users /\ told' \subseteq OpenTabs
         /\ purposely' \in BOOLEAN /\ turns' \in 0..MaxTurns
         /\ (purposely => purposely')
         /\ told' \subseteq told \/ TakeSignOut(t)
<1>1. CASE TakeSignOut(t)
  <2>1. UNCHANGED <<session, barred, purposely, turns>> /\ told' = told \cup (OpenTabs \ {t})
    BY <1>1 DEF TakeSignOut
  <2> QED BY <1>1, <2>1 DEF SessionTypeOK
<1>2. CASE \E u \in Users : SignIn(t, u)
  <2>1. Turn /\ session' \in Users /\ UNCHANGED <<barred, told, purposely>>
    BY <1>2 DEF SignIn
  <2> QED BY <2>1, Turns DEF SessionTypeOK
<1>3. CASE SignOut(t)
  <2>1. Turn /\ session' = None /\ purposely' = TRUE /\ UNCHANGED <<barred, told>>
    BY <1>3 DEF SignOut
  <2> QED BY <2>1, Turns DEF SessionTypeOK
<1>4. CASE ChangePassword(t)
  <2>1. Turn /\ barred' = barred \ {session} /\ UNCHANGED <<session, told, purposely>>
    BY <1>4 DEF ChangePassword
  <2> QED BY <2>1, Turns DEF SessionTypeOK
<1>5. CASE \/ Check(t) \/ AnswerCheck(t) \/ TakeCheck(t) \/ LoseCheck(t) \/ TakeSignIn(t)
           \/ LoseAnswer(t) \/ HearSignOut(t) \/ Edit(t) \/ Ask(t) \/ AnswerAsk(t)
           \/ TakeAsked(t)
  <2>1. UNCHANGED <<session, barred, purposely, turns>> /\ told' \subseteq told
    BY <1>5 DEF Check, AnswerCheck, TakeCheck, LoseCheck, TakeSignIn, LoseAnswer, HearSignOut,
                Edit, Ask, AnswerAsk, TakeAsked
  <2> QED BY <2>1 DEF SessionTypeOK
<1> QED BY <1>1, <1>2, <1>3, <1>4, <1>5 DEF TabStep

(* The server's own steps change no tab.                                    *)
ServerStep == Lapse \/ \E u \in Users : Bar(u) \/ GiveGroup(u)

LEMMA NextKeeps ==
  ASSUME SessionInv, [SessionNext]_sessionVars
  PROVE  SessionInv'
<1>1. /\ MaxTurns \in Nat /\ SessionTypeOK /\ (told # {} => purposely)
      /\ \A t \in OpenTabs : TabInv(tab[t]) /\ Purposeful(tab[t], purposely)
  BY DEF SessionInv
<1>2. CASE ServerStep
  <2>1. UNCHANGED <<tab, told, purposely>>
    BY <1>2 DEF ServerStep, Lapse, Bar, GiveGroup
  <2>2. /\ session' \in Users \cup {None} /\ barred' \subseteq Users /\ turns' \in 0..MaxTurns
    <3>1. Turn
      BY <1>2 DEF ServerStep, Lapse, Bar, GiveGroup
    <3>2. session' \in Users \cup {None} /\ barred' \subseteq Users
      BY <1>1, <1>2 DEF ServerStep, Lapse, Bar, GiveGroup, SessionTypeOK
    <3> QED BY <1>1, <3>1, <3>2, Turns
  <2> QED BY <1>1, <2>1, <2>2 DEF SessionInv, SessionTypeOK
<1>3. ASSUME NEW t \in OpenTabs, TabStep(t)
      PROVE  SessionInv'
  <2>1. /\ tab' = [tab EXCEPT ![t] = tab'[t]] /\ TabInv(tab'[t])
        /\ Purposeful(tab'[t], purposely')
    BY <1>3, TabSteps DEF Stepped
  <2>2. /\ session' \in Users \cup {None} /\ barred' \subseteq Users /\ told' \subseteq OpenTabs
        /\ purposely' \in BOOLEAN /\ turns' \in 0..MaxTurns /\ (purposely => purposely')
        /\ told' # {} => purposely'
    BY <1>1, <1>3, ServerTypes, SignOutSteps
  <2>3. \A u \in OpenTabs \ {t} : tab'[u] = tab[u]
    BY <1>1, <2>1 DEF SessionTypeOK
  <2>4. tab' \in [OpenTabs -> Tab]
    BY <1>1, <2>1 DEF SessionTypeOK, TabInv
  <2>5. \A u \in OpenTabs : TabInv(tab'[u]) /\ Purposeful(tab'[u], purposely')
    BY <1>1, <2>1, <2>2, <2>3 DEF Purposeful
  <2> QED BY <2>2, <2>4, <2>5 DEF SessionInv, SessionTypeOK
<1>4. CASE UNCHANGED sessionVars
  BY <1>1, <1>4 DEF sessionVars, SessionInv, SessionTypeOK
<1> QED BY <1>2, <1>3, <1>4 DEF SessionNext, ServerStep, TabStep

LEMMA InitHolds ==
  ASSUME Users # {}, MaxTurns \in Nat, SessionInit
  PROVE  SessionInv
<1> DEFINE r == [known |-> FALSE, knows |-> Nobody, check |-> At("sent", Nobody),
                 heard |-> At("no", Nobody), last |-> None, holder |-> None,
                 signingOut |-> FALSE, wasLost |-> FALSE, edits |-> FALSE,
                 data |-> NoData, ask |-> NoData]
<1>1. r \in Tab
  BY DEF Tab, Nobody, Answers, At, NoData, Data
<1>2. r.knows.user = None /\ r.holder = None /\ r.data = NoData /\ r.ask = NoData
      /\ r.edits = FALSE /\ r.signingOut = FALSE /\ r.heard.at = "no"
  BY DEF Nobody, At
<1>3. (CHOOSE u \in Users : TRUE) \in Users
  OBVIOUS
<1>4. \A t \in OpenTabs : tab[t] = r
  BY DEF SessionInit
<1>5. tab = [t \in OpenTabs |-> r]
  BY DEF SessionInit
<1> HIDE DEF r
<1>6. SessionTypeOK
  <2>1. tab \in [OpenTabs -> Tab]
    BY <1>1, <1>5
  <2>2. session \in Users \cup {None} /\ barred \subseteq Users /\ told \subseteq OpenTabs
    BY <1>3 DEF SessionInit
  <2>3. purposely \in BOOLEAN
    BY DEF SessionInit
  <2>4. turns \in 0..MaxTurns
    BY DEF SessionInit
  <2> QED BY <2>1, <2>2, <2>3, <2>4 DEF SessionTypeOK
<1>7. TabInv(r) /\ Purposeful(r, purposely)
  BY <1>1, <1>2 DEF TabInv, OneUser, EditsHeld, IsAuthenticated, Purposeful
<1> QED BY <1>4, <1>6, <1>7 DEF SessionInv, SessionInit

LEMMA SessionInvariant ==
  ASSUME Users # {}, MaxTurns \in Nat
  PROVE  SessionSpec => []SessionInv
<1>1. SessionSpec => SessionInit /\ [][SessionNext]_sessionVars
  BY DEF SessionSpec
<1>2. SessionInit => SessionInv
  BY InitHolds
<1>3. SessionInv /\ [SessionNext]_sessionVars => SessionInv'
  BY NextKeeps
<1> QED BY <1>1, <1>2, <1>3, PTL

(* The variables keep their types, whatever each tab hears of who is signed  *)
(* in (hooks/auth).                                                         *)
THEOREM SessionTypeCorrect ==
  ASSUME Users # {}, MaxTurns \in Nat
  PROVE  SessionSpec => []SessionTypeOK
<1>1. SessionInv => SessionTypeOK
  BY DEF SessionInv
<1> QED BY <1>1, SessionInvariant, PTL

LEMMA EditsLast ==
  ASSUME SessionInv, [SessionNext]_sessionVars, NEW t \in OpenTabs,
         tab[t].edits, ~purposely',
         tab'[t].knows \in {Nobody, [user |-> tab[t].holder, ok |-> TRUE]}
  PROVE  tab'[t].edits
<1>1. CASE ServerStep \/ UNCHANGED sessionVars
  BY <1>1 DEF ServerStep, Lapse, Bar, GiveGroup, sessionVars
<1>2. ASSUME NEW u \in OpenTabs, TabStep(u)
      PROVE  tab'[t].edits
  <2>1. Stepped(u)
    BY <1>2, TabSteps
  <2>2. CASE u = t
    BY <2>1, <2>2 DEF Stepped
  <2>3. CASE u # t
    <3>1. tab'[t] = tab[t]
      BY <2>1, <2>3 DEF Stepped, SessionInv, SessionTypeOK
    <3> QED BY <3>1
  <2> QED BY <2>2, <2>3
<1> QED BY <1>1, <1>2 DEF SessionNext, ServerStep, TabStep

(* Whoever signs in and out, is barred or lapses, in any number of tabs:    *)
(* nothing an admin shows was asked for under someone else's sign-in        *)
(* (queryClient.ts, auth.ts).                                               *)
THEOREM OnesOwnData ==
  ASSUME Users # {}, MaxTurns \in Nat
  PROVE  SessionSpec => []CacheIsHolders
<1>1. SessionInv => CacheIsHolders
  BY DEF SessionInv, TabInv, OneUser, CacheIsHolders
<1> QED BY <1>1, SessionInvariant, PTL

(* And until someone signs out on purpose, a session's end and the same     *)
(* user's signing back in lose no unsaved edits either (AuthGuard.tsx).     *)
THEOREM KeptApart ==
  ASSUME Users # {}, MaxTurns \in Nat
  PROVE  SessionSpec => SessionsKeptApart
<1>1. SessionSpec => [][SessionNext]_sessionVars
  BY DEF SessionSpec
<1>2. SessionInv' => CacheIsHolders'
  BY DEF SessionInv, TabInv, OneUser, CacheIsHolders
<1>3. SessionInv /\ [SessionNext]_sessionVars => LapseKeepsEdits
  BY EditsLast DEF LapseKeepsEdits
<1>4. SessionInv /\ SessionInv' /\ [SessionNext]_sessionVars
        => [CacheIsHolders' /\ LapseKeepsEdits]_sessionVars
  BY <1>2, <1>3
<1> QED BY <1>1, <1>4, SessionInvariant, PTL DEF SessionsKeptApart
=============================================================================
