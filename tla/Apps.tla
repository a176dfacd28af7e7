-------------------------------- MODULE Apps --------------------------------
(***************************************************************************)
(* One registered app's access to one user's account (pages/oauth,         *)
(* store/apps, ConnectedAppsList, AppsPage, and the server's oauth.py and  *)
(* oauth_views.py).  Each consent page carries one authorization request;  *)
(* approving it is four steps of the server: the request is checked, a     *)
(* code is made, what earlier approvals left is deleted, and the           *)
(* connection is recorded, which is what the user and the Admins see and   *)
(* disconnect.  Only then is the code sent to the app, by way of the page. *)
(*                                                                         *)
(* The toolkit's token endpoint (external) is one step, and a code is      *)
(* named after its page: a page asked again after an answer it never heard *)
(* makes a code its app was never given the first of.                      *)
(***************************************************************************)
EXTENDS Naturals, FiniteSets

CONSTANTS NoScope, Pages,
          MaxRevokes   \* bounds the disconnections and publications of terms, together

VARIABLES
  page,        \* each consent page: where it is, and the scope it asks for
  signedIn,    \* the browser's session
  owes,        \* whether the user has terms to agree to
  registered,  \* whether the app is
  grants,      \* the codes that work
  held,        \* the codes the app was given
  tokens,      \* what works of its tokens, each with the page whose approval it came from
  connection,  \* the recorded scope, or NoScope
  cleaning,    \* whether a clean-up has found the connection to hold nothing that works
  revokes

appsVars == <<page, signedIn, owes, registered, grants, held, tokens, connection, cleaning, revokes>>

Scopes == {"read", "write"}   \* "write" is both

ASSUME AppsAssumption == MaxRevokes \in Nat /\ NoScope \notin Scopes

Places == {"closed", "checking", "terms", "consent", "allowing", "granting", "granted", "recording",
           "connected", "denying", "declining", "left", "stopped", "untold"}

AppsTypeOK ==
  /\ page \in [Pages -> [at : Places, scope : Scopes]]
  /\ signedIn \in BOOLEAN /\ owes \in BOOLEAN /\ registered \in BOOLEAN /\ cleaning \in BOOLEAN
  /\ grants \subseteq Pages /\ held \subseteq Pages
  /\ tokens \subseteq Pages \X {"access", "refresh"}
  /\ connection \in Scopes \cup {NoScope}
  /\ revokes \in 0..MaxRevokes

\* live_tokens: the app holds, or is being sent, something that works.
AnythingWorks == grants # {} \/ tokens # {}

Goes(p, place) == page' = [page EXCEPT ![p].at = place]

EndAccess == grants' = {} /\ tokens' = {} /\ connection' = NoScope

AppsInit ==
  /\ page \in [Pages -> [at : {"closed"}, scope : Scopes]]
  /\ signedIn \in BOOLEAN
  /\ owes = FALSE /\ registered = TRUE
  /\ grants = {} /\ held = {} /\ tokens = {}
  /\ connection = NoScope
  /\ cleaning = FALSE
  /\ revokes = 0

-----------------------------------------------------------------------------
(* The consent page *)

OpenConsent(p) ==
  /\ page[p].at = "closed"
  /\ Goes(p, "checking")
  /\ UNCHANGED <<signedIn, owes, registered, grants, held, tokens, connection, cleaning, revokes>>

SignInToPage(p) ==
  /\ ~signedIn /\ page[p].at \in {"checking", "consent", "terms"}
  /\ signedIn' = TRUE
  /\ UNCHANGED <<page, owes, registered, grants, held, tokens, connection, cleaning, revokes>>

\* Not you?  Sign in as someone else; and a session that ends.
SignOutOfPage ==
  /\ signedIn
  /\ signedIn' = FALSE
  /\ UNCHANGED <<page, owes, registered, grants, held, tokens, connection, cleaning, revokes>>

\* What the request asks for is shown, or the user's pending terms first; an app that is not
\* registered has its request refused.
See(p) ==
  /\ signedIn /\ page[p].at = "checking"
  /\ Goes(p, IF ~registered THEN "stopped" ELSE IF owes THEN "terms" ELSE "consent")
  /\ UNCHANGED <<signedIn, owes, registered, grants, held, tokens, connection, cleaning, revokes>>

Agree(p) ==
  /\ signedIn /\ page[p].at = "terms"
  /\ owes' = FALSE
  /\ Goes(p, "consent")
  /\ UNCHANGED <<signedIn, registered, grants, held, tokens, connection, cleaning, revokes>>

\* Connect or Cancel.
Decide(p) ==
  /\ page[p].at = "consent"
  /\ \E place \in {"allowing", "denying"} : Goes(p, place)
  /\ UNCHANGED <<signedIn, owes, registered, grants, held, tokens, connection, cleaning, revokes>>

Decline(p) ==
  /\ page[p].at = "terms"
  /\ Goes(p, "declining")
  /\ UNCHANGED <<signedIn, owes, registered, grants, held, tokens, connection, cleaning, revokes>>

\* Back to the app with access_denied, or to try again.
Deny(p) ==
  /\ page[p].at = "denying"
  /\ \E place \in (IF signedIn /\ registered THEN {"left", "consent"}
                   ELSE IF signedIn THEN {"stopped"} ELSE {"consent"}) : Goes(p, place)
  /\ UNCHANGED <<signedIn, owes, registered, grants, held, tokens, connection, cleaning, revokes>>

\* Declining the terms signs out whether or not the app could be told.
Declined(p) ==
  /\ page[p].at = "declining"
  /\ \E place \in (IF signedIn /\ registered THEN {"left", "untold"} ELSE {"untold"}) : Goes(p, place)
  /\ signedIn' = FALSE
  /\ UNCHANGED <<owes, registered, grants, held, tokens, connection, cleaning, revokes>>

\* The answer sends the browser to the app with the code, or is lost, to try again.
HandCode(p) ==
  /\ page[p].at = "connected"
  /\ Goes(p, "left")
  /\ held' = held \cup {p}
  /\ UNCHANGED <<signedIn, owes, registered, grants, tokens, connection, cleaning, revokes>>

\* Also when the server stops before recording.
LoseCode(p) ==
  /\ page[p].at \in {"granted", "connected"}
  /\ Goes(p, "consent")
  /\ UNCHANGED <<signedIn, owes, registered, grants, held, tokens, connection, cleaning, revokes>>

-----------------------------------------------------------------------------
(* Approving *)

\* AuthorizationRequestView.post: the request, and the terms.
CheckRequest(p) ==
  /\ page[p].at = "allowing"
  /\ Goes(p, IF ~signedIn THEN "consent"
             ELSE IF ~registered THEN "stopped"
             ELSE IF owes THEN "terms" ELSE "granting")
  /\ UNCHANGED <<signedIn, owes, registered, grants, held, tokens, connection, cleaning, revokes>>

\* create_authorization_response.
MakeCode(p) ==
  /\ page[p].at = "granting"
  /\ IF registered THEN Goes(p, "granted") /\ grants' = grants \cup {p}
                   ELSE Goes(p, "consent") /\ UNCHANGED grants
  /\ UNCHANGED <<signedIn, owes, registered, held, tokens, connection, cleaning, revokes>>

\* connect: what was approved before goes, and what is approved now is recorded.  The
\* connection's row is what two of them wait for each other by, and only once they have deleted.
ReplaceEarlier(p) ==
  /\ page[p].at = "granted"
  /\ grants' = grants \cap {p}
  /\ tokens' = {}
  /\ Goes(p, "recording")
  /\ UNCHANGED <<signedIn, owes, registered, held, connection, cleaning, revokes>>

RecordConnection(p) ==
  /\ page[p].at = "recording"
  /\ IF registered THEN Goes(p, "connected") /\ connection' = page[p].scope
                   ELSE Goes(p, "consent") /\ UNCHANGED connection
  /\ UNCHANGED <<signedIn, owes, registered, grants, held, tokens, cleaning, revokes>>

-----------------------------------------------------------------------------
(* The app *)

Exchange(p) ==
  /\ p \in held \cap grants
  /\ grants' = grants \ {p}
  /\ tokens' = tokens \cup {<<p, "access">>, <<p, "refresh">>}
  /\ UNCHANGED <<page, signedIn, owes, registered, held, connection, cleaning, revokes>>

Refresh(p) ==
  /\ <<p, "refresh">> \in tokens
  /\ tokens' = tokens \cup {<<p, "access">>}
  /\ UNCHANGED <<page, signedIn, owes, registered, grants, held, connection, cleaning, revokes>>

\* A token given back, or a replaced refresh token used again: the approval's tokens end.
EndTokens(p) ==
  /\ \E kind \in {"access", "refresh"} : <<p, kind>> \in tokens
  /\ tokens' = {t \in tokens : t[1] # p}
  /\ UNCHANGED <<page, signedIn, owes, registered, grants, held, connection, cleaning, revokes>>

Expire ==
  /\ \/ \E t \in tokens : tokens' = tokens \ {t} /\ UNCHANGED grants
     \/ \E p \in grants : page[p].at \in {"left", "consent"} /\ grants' = grants \ {p} /\ UNCHANGED tokens
  /\ UNCHANGED <<page, signedIn, owes, registered, held, connection, cleaning, revokes>>

-----------------------------------------------------------------------------
(* Ending its access *)

Revoking == revokes < MaxRevokes /\ revokes' = revokes + 1

\* The user disconnects it, an Admin does, or their password changes.
Disconnect ==
  /\ Revoking
  /\ EndAccess
  /\ UNCHANGED <<page, signedIn, owes, registered, held, cleaning>>

\* New terms: what they agreed to is out of date, and then everyone's sign-ins and apps go.
Publish ==
  /\ Revoking /\ ~owes
  /\ owes' = TRUE
  /\ UNCHANGED <<page, signedIn, registered, grants, held, tokens, connection, cleaning>>

RevokeEveryone ==
  /\ owes
  /\ signedIn' = FALSE
  /\ EndAccess
  /\ UNCHANGED <<page, owes, registered, held, cleaning, revokes>>

Remove ==
  /\ Revoking /\ registered
  /\ registered' = FALSE
  /\ EndAccess
  /\ UNCHANGED <<page, signedIn, owes, held, cleaning>>

\* clean_up and forget_if_lapsed: the connection is looked at, and again once it is locked.
Lapsed == connection # NoScope /\ ~AnythingWorks

FindLapsed ==
  /\ ~cleaning /\ Lapsed
  /\ cleaning' = TRUE
  /\ UNCHANGED <<page, signedIn, owes, registered, grants, held, tokens, connection, revokes>>

StillLapsed == Lapsed

ForgetLapsed ==
  /\ cleaning
  /\ cleaning' = FALSE
  /\ connection' = IF StillLapsed THEN NoScope ELSE connection
  /\ UNCHANGED <<page, signedIn, owes, registered, grants, held, tokens, revokes>>

AppsNext ==
  \/ \E p \in Pages :
       \/ OpenConsent(p) \/ SignInToPage(p) \/ See(p) \/ Agree(p) \/ Decide(p) \/ Decline(p) \/ Deny(p) \/ Declined(p)
       \/ CheckRequest(p) \/ MakeCode(p) \/ ReplaceEarlier(p) \/ RecordConnection(p)
       \/ HandCode(p) \/ LoseCode(p) \/ Exchange(p) \/ Refresh(p) \/ EndTokens(p)
  \/ SignOutOfPage \/ Expire \/ Disconnect \/ Publish \/ RevokeEveryone \/ Remove \/ FindLapsed \/ ForgetLapsed

\* The clean-up runs every night.
AppsFairness == WF_appsVars(FindLapsed) /\ WF_appsVars(ForgetLapsed)

AppsSpec == AppsInit /\ [][AppsNext]_appsVars /\ AppsFairness

-----------------------------------------------------------------------------

\* What the app holds that works, as a scope's page.
Usable == (held \cap grants) \cup {t[1] : t \in tokens}

\* Whatever the app can reach the account with, a connection lists, to be seen and ended by
\* (oauth.py connect, forget_lapsed).
AccessIsShown == Usable # {} => connection # NoScope

\* It holds no more than the connection says was approved (oauth.py:130-136).  Two approvals
\* recorded at once break it.
ScopeIsShown == connection = "read" => \A p \in Usable : page[p].scope = "read"

\* A connection through which nothing works any more is forgotten, or approved again.
LapsedIsForgotten == Lapsed ~> ~Lapsed
=============================================================================
