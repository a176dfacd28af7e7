------------------------------ MODULE Accounts ------------------------------
(***************************************************************************)
(* Managing users (pages/admin/users, pages/account, store/users, and the  *)
(* server's UserViewSet, ManagedUserSerializer and accounts.py).  An Admin *)
(* edits a user in a form filled as it opens; the server checks a request  *)
(* and reads the user's row, writes the whole row, and then the role, each *)
(* on its own: nothing is locked.  Passwords are set by their user, with a *)
(* link, or by a superuser for the user to change.                         *)
(*                                                                         *)
(* A password is named after the request that set it, 0 if there is none.  *)
(* `given', `used' and `overlapped' only remember, for the properties.     *)
(***************************************************************************)
EXTENDS Naturals, FiniteSets

CONSTANTS NoUserForm, Members,
          MaxAsks,   \* bounds the requests and sign-ins of a run
          MaxLinks   \* and the set-password links sent

\* Someone can sign in.
ASSUME AccountsAssumption == MaxAsks \in Nat /\ Members # {}

VARIABLES
  user,        \* the rows: and, of each, the role and whether the password must be changed
  userForm,    \* the user form each has open
  request,     \* the request of each at the server
  links,       \* the set-password links sent
  used,        \* those that set a password
  asks,
  overlapped   \* whether two requests were ever at the server at once

accountVars == <<user, userForm, request, links, used, asks, overlapped>>

Roles == {"admin", "reporter", "none"}
Row == [exists : BOOLEAN, active : BOOLEAN, super : BOOLEAN, password : 0..MaxAsks,
        login : 0..MaxAsks, given : BOOLEAN]
User == [row : Row, role : Roles, must : BOOLEAN]
FormValues == [active : BOOLEAN, super : BOOLEAN, role : Roles \ {"none"}]
Link == [of : Members, password : 0..MaxAsks, login : 0..MaxAsks, super : BOOLEAN]

NoAsk == [at |-> "idle"]
Kinds == {"edit", "toggle", "delete", "give", "change", "reset"}
Blank == [active |-> TRUE, super |-> FALSE, role |-> "reporter"]

AccountsTypeOK ==
  /\ user \in [Members -> User]
  /\ userForm \in [Members -> {NoUserForm} \cup [of : Members, values : FormValues]]
  /\ request \in [Members -> {NoAsk} \cup
       [at : {"asked", "write", "role", "must"}, kind : Kinds, of : Members, values : FormValues,
        row : Row, number : 1..MaxAsks]]
  /\ links \subseteq Link /\ used \subseteq links
  /\ asks \in 0..MaxAsks
  /\ overlapped \in BOOLEAN

-----------------------------------------------------------------------------
(* Who may do what *)

\* assigned_role: a superuser counts as an Admin.
Assigned(u) == IF user[u].row.super THEN "admin" ELSE user[u].role

MayUse(u) == user[u].row.exists /\ user[u].row.active

IsAdmin(u) == MayUse(u) /\ Assigned(u) = "admin"

AdmittedSignedIn(u) == MayUse(u) /\ ~user[u].must                       \* mutant
\* IsAdmin and _check_password_change.
AdminAdmitted(u) == IsAdmin(u) /\ ~user[u].must

\* ACCOUNT_TAKEOVER_ACTIONS: only a superuser manages one with Django access.
MayManage(a, u) == user[u].row.exists /\ (user[a].row.super \/ ~user[u].row.super)

\* Nobody changes their own role or Django access, or deactivates themselves.
NotOwn(a, r) ==
  r.of = a => /\ r.values.active
              /\ r.kind = "edit" => /\ r.values.role = Assigned(a)
                                    /\ user[a].row.super => r.values.super

\* The Django access an edit leaves: only a superuser's says.
AccessAfter(a, r) ==
  IF r.kind = "edit" /\ user[a].row.super THEN r.values.super ELSE user[r.of].row.super

Allowed(a, r) ==
  CASE r.kind \in {"edit", "toggle"} ->
         /\ AdminAdmitted(a) /\ MayManage(a, r.of) /\ NotOwn(a, r)
         /\ r.kind = "edit" /\ AccessAfter(a, r) => r.values.role = "admin"
    [] r.kind = "delete" -> AdminAdmitted(a) /\ MayManage(a, r.of) /\ r.of # a
    [] r.kind = "give" -> /\ AdminAdmitted(a) /\ user[a].row.super
                          /\ user[r.of].row.exists /\ r.of # a
    [] r.kind = "change" -> MayUse(a) /\ user[a].row.password # 0
    [] r.kind = "reset" -> TRUE

-----------------------------------------------------------------------------
(* The pages *)

AccountsInit ==
  /\ user = [u \in Members |->
       [row |-> [exists |-> TRUE, active |-> TRUE, super |-> FALSE, password |-> 0,
                 login |-> 0, given |-> FALSE], role |-> "admin", must |-> FALSE]]
  /\ userForm = [u \in Members |-> NoUserForm]
  /\ request = [u \in Members |-> NoAsk]
  /\ links = {} /\ used = {}
  /\ asks = 0
  /\ overlapped = FALSE

\* A superuser, made in Django's own admin.
Promote(u) ==
  /\ asks < MaxAsks /\ \A v \in Members : ~user[v].row.super /\ request[v] = NoAsk
  /\ asks' = asks + 1
  /\ user' = [user EXCEPT ![u].row.super = TRUE]
  /\ UNCHANGED <<userForm, request, links, used, overlapped>>

\* Edit: the form is filled from the user as they are, and stays so.
OpenForm(a, u) ==
  /\ AdminAdmitted(a) /\ user[u].row.exists /\ userForm[a] = NoUserForm
  /\ user[u].role # "none"
  /\ userForm' = [userForm EXCEPT ![a] = [of |-> u, values |->
       [active |-> user[u].row.active, super |-> user[u].row.super, role |-> Assigned(u)]]]
  /\ UNCHANGED <<user, request, links, used, asks, overlapped>>

Overlaps(u) == \E v \in Members \ {u} : request[v] # NoAsk

AskServer(a, kind, of, values) ==
  /\ request[a] = NoAsk /\ asks < MaxAsks
  /\ asks' = asks + 1
  /\ request' = [request EXCEPT ![a] = [at |-> "asked", kind |-> kind, of |-> of,
                   values |-> values, row |-> user[of].row, number |-> asks + 1]]
  /\ overlapped' = (overlapped \/ Overlaps(a))
  /\ UNCHANGED <<user, links, used>>

\* What the form lets its user change: nothing of this on their own account, and Django
\* access only as a superuser.
Offered(a) ==
  {v \in FormValues : /\ userForm[a].of = a => v = userForm[a].values
                  /\ ~user[a].row.super => v.super = userForm[a].values.super}

\* Save: every field is sent.
SaveForm(a) ==
  /\ userForm[a] # NoUserForm
  /\ \E values \in Offered(a) : AskServer(a, "edit", userForm[a].of, values)
  /\ userForm' = [userForm EXCEPT ![a] = NoUserForm]

\* Deactivate or Reactivate, and Delete, which no-one's own row has.
Toggle(a, u) ==
  /\ AdminAdmitted(a) /\ u # a /\ user[u].row.exists
  /\ AskServer(a, "toggle", u, [Blank EXCEPT !.active = ~user[u].row.active])
  /\ UNCHANGED userForm

DeleteUser(a, u) ==
  /\ AdminAdmitted(a) /\ u # a /\ user[u].row.exists
  /\ AskServer(a, "delete", u, Blank)
  /\ UNCHANGED userForm

\* Add user: emailed a link, or by a superuser given a password.  A new user is another one
\* than who had the name before.
Create(a, u) ==
  /\ \A b \in Members : userForm[b] # NoUserForm => userForm[b].of # u
  /\ \A b \in Members : request[b] # NoAsk => request[b].of # u
  /\ AdminAdmitted(a) /\ ~user[u].row.exists /\ asks < MaxAsks
  /\ asks' = asks + 1
  /\ \E given \in {FALSE, user[a].row.super}, role \in Roles \ {"none"} :
       LET row == [exists |-> TRUE, active |-> TRUE, super |-> FALSE, login |-> 0,
                   password |-> IF given THEN asks + 1 ELSE 0, given |-> given] IN
       /\ user' = [user EXCEPT ![u] = [row |-> row, role |-> role, must |-> given]]
       /\ links' = {l \in links : l.of # u} \cup IF given THEN {}
                   ELSE {[of |-> u, password |-> 0, login |-> 0, super |-> FALSE]}
  /\ used' = {l \in used : l.of # u}
  /\ UNCHANGED <<userForm, request, overlapped>>

\* A superuser sets a password, to be changed at the next sign-in.
Give(a, u) ==
  /\ AdminAdmitted(a) /\ user[a].row.super /\ u # a /\ user[u].row.exists
  /\ AskServer(a, "give", u, Blank)
  /\ UNCHANGED userForm

ChangeOwn(u) ==
  /\ MayUse(u) /\ user[u].row.password # 0
  /\ AskServer(u, "change", u, Blank)
  /\ UNCHANGED userForm

\* Django's token: it fits the password, sign-in and Django access it was made at.
TokenOf(u) == [of |-> u, password |-> user[u].row.password, login |-> user[u].row.login,
               super |-> user[u].row.super]

LinkWorks(link) == MayUse(link.of) /\ TokenOf(link.of) = link

\* An Admin sends or copies a link, or its user forgot their password.
SendLink(a, u) ==
  /\ \/ AdminAdmitted(a) /\ MayManage(a, u)
     \/ a = u /\ Assigned(u) # "none"
  /\ MayUse(u) /\ Cardinality(links) < MaxLinks
  /\ links' = links \cup {TokenOf(u)}
  /\ UNCHANGED <<user, userForm, request, used, asks, overlapped>>

\* The set-password page: its link checked and the password sent are one request.
ByLink(u, link) ==
  /\ link.of = u /\ LinkWorks(link)
  /\ request[u] = NoAsk /\ asks < MaxAsks
  /\ asks' = asks + 1
  /\ request' = [request EXCEPT ![u] = [at |-> "write", kind |-> "reset", of |-> u,
                   values |-> Blank, row |-> user[u].row, number |-> asks + 1]]
  /\ used' = used \cup {link}
  /\ overlapped' = (overlapped \/ Overlaps(u))
  /\ UNCHANGED <<user, userForm, links>>

LogIn(u) ==
  /\ MayUse(u) /\ user[u].row.password # 0 /\ asks < MaxAsks
  /\ asks' = asks + 1
  /\ user' = [user EXCEPT ![u].row.login = asks + 1]
  /\ overlapped' = (overlapped \/ Overlaps(u) \/ request[u] # NoAsk)
  /\ UNCHANGED <<userForm, request, links, used>>

-----------------------------------------------------------------------------
(* The server *)

FinishAsk(a) == request' = [request EXCEPT ![a] = NoAsk]

\* Permissions and get_object, and the serializer's validate: the row is read here.
CheckAsk(a) ==
  /\ request[a].at = "asked"
  /\ IF Allowed(a, request[a])
     THEN request' = [request EXCEPT ![a].at = "write", ![a].row = user[request[a].of].row,
                        ![a].values.super = AccessAfter(a, request[a])]
     ELSE FinishAsk(a)
  /\ UNCHANGED <<user, userForm, links, used, asks, overlapped>>

\* save() writes every field of the row as it was read but those given, and makes the row
\* again if it is gone; set_django_access follows.
WriteRow(a) ==
  LET r == request[a] IN
  /\ r.at = "write" /\ r.kind \in {"edit", "toggle"}
  /\ user' = [user EXCEPT ![r.of] =
       [row |-> [r.row EXCEPT !.active = r.values.active, !.super = r.values.super],
        role |-> IF user[r.of].row.exists THEN user[r.of].role ELSE "none",
        must |-> user[r.of].must]]
  /\ IF r.kind = "edit" /\ ~r.values.super
     THEN request' = [request EXCEPT ![a].at = "role"] ELSE FinishAsk(a)
  /\ UNCHANGED <<userForm, links, used, asks, overlapped>>

SetRole(a) ==
  LET r == request[a] IN
  /\ r.at = "role"
  /\ user' = IF user[r.of].row.exists THEN [user EXCEPT ![r.of].role = r.values.role] ELSE user
  /\ FinishAsk(a)
  /\ UNCHANGED <<userForm, links, used, asks, overlapped>>

DeleteAccount(a) ==
  LET r == request[a] IN
  /\ r.at = "write" /\ r.kind = "delete"
  /\ user' = [user EXCEPT ![r.of].row.exists = FALSE, ![r.of].role = "none", ![r.of].must = FALSE]
  /\ FinishAsk(a)
  /\ UNCHANGED <<userForm, links, used, asks, overlapped>>

\* set_password: the password alone, and then whether it must be changed.
SetPassword(a) ==
  LET r == request[a] IN
  /\ r.at = "write" /\ r.kind \in {"give", "change", "reset"}
  /\ IF user[r.of].row.exists
     THEN /\ user' = [user EXCEPT ![r.of].row.password = r.number,
                                  ![r.of].row.given = (r.kind = "give")]
          /\ request' = [request EXCEPT ![a].at = "must"]
     ELSE FinishAsk(a) /\ UNCHANGED user
  /\ UNCHANGED <<userForm, links, used, asks, overlapped>>

SetMust(a) ==
  LET r == request[a] IN
  /\ r.at = "must"
  /\ user' = IF user[r.of].row.exists THEN [user EXCEPT ![r.of].must = (r.kind = "give")] ELSE user
  /\ FinishAsk(a)
  /\ UNCHANGED <<userForm, links, used, asks, overlapped>>

AccountsNext ==
  \E a \in Members :
    \/ \E u \in Members :
         \/ OpenForm(a, u) \/ Toggle(a, u) \/ DeleteUser(a, u) \/ Create(a, u)
         \/ Give(a, u) \/ SendLink(a, u)
    \/ \E link \in links : ByLink(a, link)
    \/ Promote(a) \/ SaveForm(a) \/ ChangeOwn(a) \/ LogIn(a)
    \/ CheckAsk(a) \/ WriteRow(a) \/ SetRole(a) \/ DeleteAccount(a) \/ SetPassword(a) \/ SetMust(a)

AccountsSpec == AccountsInit /\ [][AccountsNext]_accountVars

-----------------------------------------------------------------------------
(* Properties *)

\* serializers.py:886 and SPEC_CLIENT_V2.md:2437: nobody deactivates, deletes or demotes
\* themselves, so there's always an active Admin.  Two who do it to each other leave none.
AlwaysAnAdmin == \E u \in Members : IsAdmin(u)

\* One request at a time, there's always an active Admin, however old the forms they save.
AnAdminIsLeft == ~overlapped => AlwaysAnAdmin

\* One request at a time, a set-password link works once, and a password a superuser gave
\* is to be changed before anything else.
PasswordsHold ==
  ~overlapped =>
    /\ \A link \in used : request[link.of].at = "write" \/ ~LinkWorks(link)
    /\ \A u \in Members : MayUse(u) /\ user[u].row.given =>
         user[u].must \/ \E a \in Members : request[a].at = "must" /\ request[a].of = u
=============================================================================
