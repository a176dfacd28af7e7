------------------------------- MODULE Access -------------------------------
(***************************************************************************)
(* Who can reach an account: the apps its user let in (Apps), and those    *)
(* who manage it or know its password (Accounts).  The two share no state  *)
(* here: a changed password disconnects apps as Apps' Disconnect.          *)
(***************************************************************************)
EXTENDS Apps, Accounts

\* Whatever an app can reach an account with is on the account's list (oauth.py).  One request
\* at a time there's always an active Admin, a set-password link works once, and a password
\* given is changed before anything else (users.ts, views.py UserViewSet).
AccessHolds == AccessIsShown /\ AnAdminIsLeft /\ PasswordsHold
=============================================================================
