------------------------------ MODULE Session ------------------------------
(***************************************************************************)
(* Who is signed in, as the server's session, shared by a browser's tabs,  *)
(* and as each tab's cached whoami answer have it (hooks/auth,             *)
(* useSessionMonitor, AuthGuard, queryClient and utils/fetch).  A tab      *)
(* mounts a user's admin, keeps it under a prompt when their session ends, *)
(* and puts it away for a sign-out on purpose, which the tabs tell each    *)
(* other of.  Its query cache is one query's: what it holds, whose answer  *)
(* that is, and who was known to be signed in when it was asked for.       *)
(*                                                                         *)
(* Each request is answered by the server in one step and heard in         *)
(* another, or never.  A user who must change their password, or has no    *)
(* permission group, is `barred': shown that screen in place of the admin. *)
(***************************************************************************)
EXTENDS Naturals, FiniteSets

CONSTANTS None, Users, OpenTabs,
          MaxTurns   \* bounds the changes of the session and of who is barred, together

VARIABLES
  session,    \* the server's: who this browser's cookie signs in, or None
  barred,     \* the users who may not use the admin as they stand
  tab,        \* what each tab knows, shows and has asked
  told,       \* the tabs a notice of a sign-out on purpose is on its way to
  purposely,  \* whether anyone has signed out on purpose, so far
  turns

sessionVars == <<session, barred, tab, told, purposely, turns>>

\* Who whoami says is signed in, if anyone, and whether they may use the admin as they stand.
Answers == [user : Users \cup {None}, ok : BOOLEAN]
Nobody == [user |-> None, ok |-> FALSE]

\* What the data query holds, or is asking: `under' is who was known to be signed in when
\* it was asked for, `of' whose answer it is.
Data == [of : Users \cup {"nothing", "sent", "401", "403"}, under : Users \cup {None}]
NoData == [of |-> "nothing", under |-> None]

Tab == [known : BOOLEAN, knows : Answers,
        check : [at : {"no", "sent", "back"}, says : Answers],
        heard : [at : {"no", "in", "out"}, says : Answers],
        last : Users \cup {None}, holder : Users \cup {None},
        signingOut : BOOLEAN, wasLost : BOOLEAN, edits : BOOLEAN, data : Data, ask : Data]

SessionTypeOK ==
  /\ session \in Users \cup {None} /\ barred \subseteq Users
  /\ tab \in [OpenTabs -> Tab]
  /\ told \subseteq OpenTabs
  /\ purposely \in BOOLEAN
  /\ turns \in 0..MaxTurns

-----------------------------------------------------------------------------
(* A tab *)

IsAuthenticated(r) == r.knows.user # None
Admitted(r) == IsAuthenticated(r) /\ r.knows.ok
SaysNobody(r) == r.known /\ ~IsAuthenticated(r)
Lost(r) == r.holder # None /\ SaysNobody(r)

At(at, says) == [at |-> at, says |-> says]
AskAs(user) == [of |-> "sent", under |-> user]

FollowKeeping(r) == IF IsAuthenticated(r) THEN [r EXCEPT !.last = r.knows.user] ELSE r \* mutant
\* follow: another user's sign-in resets every query but whoami, and what is on screen asks again.
Follow(r) ==
  IF ~IsAuthenticated(r) THEN r
  ELSE LET user == r.knows.user IN
       IF r.last \in {None, user} THEN [r EXCEPT !.last = user]
       ELSE [r EXCEPT !.last = user, !.data = NoData,
                      !.ask = IF r.holder = None THEN NoData ELSE AskAs(user)]

\* Whose admin is mounted outlives their session, unless another screen takes its place
\* or they signed out on purpose.
Holder(r) ==
  IF Admitted(r) THEN r.knows.user
  ELSE IF IsAuthenticated(r) \/ (r.signingOut /\ r.known) THEN None
  ELSE r.holder

Mount(r) ==
  [r EXCEPT !.holder = Holder(r),
            !.edits = r.edits /\ Holder(r) = r.holder,
            !.signingOut = r.signingOut /\ ~SaysNobody(r)]

\* Back in: what failed or went stale while signed out is asked for again.
ComeBack(r) ==
  IF Lost(r) THEN [r EXCEPT !.wasLost = TRUE]
  ELSE IF Admitted(r) /\ r.wasLost THEN [r EXCEPT !.wasLost = FALSE, !.ask = AskAs(r.last)]
  ELSE r

Settle(r) == ComeBack(Mount(Follow(r)))

\* Tab t becomes r, and nothing else changes.
Becomes(t, r) == tab' = [tab EXCEPT ![t] = r]

\* invalidateQueries of whoami: what was being asked is asked again.
Recheck(r) == [r EXCEPT !.check = At("sent", Nobody)]

Hears(r, answer) == [r EXCEPT !.known = TRUE, !.knows = answer]

SessionInit ==
  /\ session \in {None, CHOOSE u \in Users : TRUE}
  /\ barred = {}
  /\ tab = [t \in OpenTabs |->
              [known |-> FALSE, knows |-> Nobody, check |-> At("sent", Nobody),
               heard |-> At("no", Nobody), last |-> None, holder |-> None,
               signingOut |-> FALSE, wasLost |-> FALSE, edits |-> FALSE,
               data |-> NoData, ask |-> NoData]]
  /\ told = {}
  /\ purposely = FALSE
  /\ turns = 0

-----------------------------------------------------------------------------
(* The server *)

Turn == turns < MaxTurns /\ turns' = turns + 1

StandingOf(u) == [user |-> u, ok |-> u \notin barred]

\* UserView: whoami.
Whoami == IF session = None THEN Nobody ELSE StandingOf(session)

\* It expires, or everyone's sign-ins are ended.
Lapse ==
  /\ Turn /\ session # None
  /\ session' = None
  /\ UNCHANGED <<barred, tab, told, purposely>>

\* A user loses their group, or has a password set for them, which signs them out.
Bar(u) ==
  /\ Turn /\ u \notin barred
  /\ barred' = barred \cup {u}
  /\ session' \in IF session = u THEN {u, None} ELSE {session}
  /\ UNCHANGED <<tab, told, purposely>>

\* A user is given a group.
GiveGroup(u) ==
  /\ Turn /\ u \in barred
  /\ barred' = barred \ {u}
  /\ UNCHANGED <<session, tab, told, purposely>>

-----------------------------------------------------------------------------
(* Asking who is signed in *)

\* On focus, on activity, every few minutes, or for a sign of it elsewhere.
Check(t) ==
  /\ tab[t].check.at = "no" \/ (IsAuthenticated(tab[t]) /\ tab[t].check.at = "back")
  /\ Becomes(t, Recheck(tab[t]))
  /\ UNCHANGED <<session, barred, told, purposely, turns>>

AnswerCheck(t) ==
  /\ tab[t].check.at = "sent"
  /\ Becomes(t, [tab[t] EXCEPT !.check = At("back", Whoami)])
  /\ UNCHANGED <<session, barred, told, purposely, turns>>

TakeCheck(t) ==
  /\ tab[t].check.at = "back"
  /\ Becomes(t, Settle(Hears([tab[t] EXCEPT !.check = At("no", Nobody)], tab[t].check.says)))
  /\ UNCHANGED <<session, barred, told, purposely, turns>>

LoseCheck(t) ==
  /\ tab[t].check.at # "no"
  /\ Becomes(t, [tab[t] EXCEPT !.check = At("no", Nobody)])
  /\ UNCHANGED <<session, barred, told, purposely, turns>>

-----------------------------------------------------------------------------
(* Signing in and out *)

FormShows(r) == SaysNobody(r) \/ (~r.known /\ r.check.at = "no")

\* LoginView, from the sign-in page or over the admin.
SignIn(t, u) ==
  /\ FormShows(tab[t]) /\ tab[t].heard.at = "no"
  /\ Turn
  /\ session' = u
  /\ Becomes(t, [tab[t] EXCEPT !.heard = At("in", StandingOf(u))])
  /\ UNCHANGED <<barred, told, purposely>>

\* The login's answer is the new whoami.
TakeSignIn(t) ==
  /\ tab[t].heard.at = "in"
  /\ Becomes(t, Recheck(Settle(Hears([tab[t] EXCEPT !.heard = At("no", Nobody)], tab[t].heard.says))))
  /\ UNCHANGED <<session, barred, told, purposely, turns>>

\* Sign out, from the menu or a screen in the admin's place.
SignOut(t) ==
  /\ IsAuthenticated(tab[t]) /\ tab[t].heard.at = "no"
  /\ Turn
  /\ session' = None
  /\ purposely' = TRUE
  /\ Becomes(t, [tab[t] EXCEPT !.heard = At("out", Nobody)])
  /\ UNCHANGED <<barred, told>>

TakeSignOut(t) ==
  /\ tab[t].heard.at = "out"
  /\ Becomes(t, Recheck(Settle(Hears([tab[t] EXCEPT !.heard = At("no", Nobody), !.signingOut = TRUE,
                                                    !.data = NoData, !.ask = NoData], Nobody))))
  /\ told' = told \cup (OpenTabs \ {t})
  /\ UNCHANGED <<session, barred, purposely, turns>>

LoseAnswer(t) ==
  /\ tab[t].heard.at # "no"
  /\ Becomes(t, [tab[t] EXCEPT !.heard = At("no", Nobody)])
  /\ UNCHANGED <<session, barred, told, purposely, turns>>

\* Another tab signed out on purpose.
HearSignOut(t) ==
  /\ t \in told
  /\ told' = told \ {t}
  /\ Becomes(t, Recheck(Settle([tab[t] EXCEPT !.signingOut = TRUE])))
  /\ UNCHANGED <<session, barred, purposely, turns>>

\* The user of the change-password screen chooses their own, and who is signed in is asked.
ChangePassword(t) ==
  /\ Turn
  /\ IsAuthenticated(tab[t]) /\ ~Admitted(tab[t]) /\ session \in barred
  /\ barred' = barred \ {session}
  /\ Becomes(t, Recheck(tab[t]))
  /\ UNCHANGED <<session, told, purposely>>

-----------------------------------------------------------------------------
(* The admin *)

\* An editor is typed in, under no prompt.
Edit(t) ==
  /\ tab[t].holder # None /\ ~Lost(tab[t]) /\ ~tab[t].edits
  /\ Becomes(t, [tab[t] EXCEPT !.edits = TRUE])
  /\ UNCHANGED <<session, barred, told, purposely, turns>>

\* The data query is fetched: mounted, focused or invalidated.
Ask(t) ==
  /\ tab[t].holder # None /\ tab[t].ask = NoData
  /\ Becomes(t, [tab[t] EXCEPT !.ask = AskAs(tab[t].last)])
  /\ UNCHANGED <<session, barred, told, purposely, turns>>

AnswerAsk(t) ==
  /\ tab[t].ask.of = "sent"
  /\ Becomes(t, [tab[t] EXCEPT !.ask.of = IF session = None THEN "401"
                                          ELSE IF session \in barred THEN "403" ELSE session])
  /\ UNCHANGED <<session, barred, told, purposely, turns>>

\* A lapsed session has who is signed in asked, sharing what is being asked; a refusal
\* that whoami explains has it asked anew.
TakeAsked(t) ==
  LET r == tab[t]
      rest == [r EXCEPT !.ask = NoData] IN
  /\ r.ask.of \notin {"nothing", "sent"}
  /\ Becomes(t, CASE r.ask.of = "401" -> IF IsAuthenticated(r) /\ r.check.at = "no" THEN Recheck(rest) ELSE rest
                  [] r.ask.of = "403" -> Recheck(rest)
                  [] OTHER -> [rest EXCEPT !.data = r.ask])
  /\ UNCHANGED <<session, barred, told, purposely, turns>>

SessionNext ==
  \/ Lapse
  \/ \E u \in Users : Bar(u) \/ GiveGroup(u)
  \/ \E t \in OpenTabs :
       \/ Check(t) \/ AnswerCheck(t) \/ TakeCheck(t) \/ LoseCheck(t)
       \/ \E u \in Users : SignIn(t, u)
       \/ TakeSignIn(t) \/ SignOut(t) \/ TakeSignOut(t) \/ LoseAnswer(t) \/ HearSignOut(t)
       \/ ChangePassword(t) \/ Edit(t) \/ Ask(t) \/ AnswerAsk(t) \/ TakeAsked(t)

\* The monitor looks at who is signed in, over and over, and is answered often enough.
SessionFairness ==
  \A t \in OpenTabs :
    /\ WF_sessionVars(Check(t)) /\ SF_sessionVars(AnswerCheck(t)) /\ SF_sessionVars(TakeCheck(t))

SessionSpec == SessionInit /\ [][SessionNext]_sessionVars /\ SessionFairness

-----------------------------------------------------------------------------

\* Nothing an admin shows was asked for while someone else was known to be signed in: the
\* query cache holds one user's data, late answers included (auth.ts, queryClient.ts).
CacheIsHolders ==
  \A t \in OpenTabs : tab[t].holder # None /\ tab[t].data # NoData => tab[t].data.under = tab[t].holder

\* Until someone signs out on purpose, a session's end and the same user's signing back in
\* lose no unsaved edits, in any tab (AuthGuard.tsx).
LapseKeepsEdits ==
  \A t \in OpenTabs :
    LET r == tab[t] IN
    /\ r.edits /\ ~purposely'
    /\ tab'[t].knows \in {Nobody, [user |-> r.holder, ok |-> TRUE]}
    => tab'[t].edits

\* No user's admin comes to show what was asked for under someone else's sign-in, and a
\* session's end loses no unsaved edits (hooks/auth.ts, AuthGuard.tsx).
SessionsKeptApart == [][CacheIsHolders' /\ LapseKeepsEdits]_sessionVars

\* A session that has ended, or become someone else's, is found out under an admin that
\* goes on being shown (useSessionMonitor.ts).
EndIsNoticed ==
  \A t \in OpenTabs : \A u \in Users :
    (IsAuthenticated(tab[t]) /\ tab[t].knows.user = u /\ session # u)
      ~> (session = u \/ tab[t].knows.user # u)
=============================================================================
