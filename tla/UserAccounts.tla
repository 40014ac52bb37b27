---------------------------- MODULE UserAccounts ----------------------------
(***************************************************************************)
(* The accounts of the administration pages: first-run setup, login,       *)
(* invitations, verification of e-mail and phone, changes, deletion and    *)
(* reset (routes/users.py, routes/admin.py, auth.py and the users and      *)
(* roles of db.py).                                                        *)
(*                                                                         *)
(* A handler is a sequence of database transactions. Each gunicorn worker  *)
(* runs one handler at a time; between two transactions of one handler the *)
(* others run theirs, a transaction may fail for good (db.py's _with_retry *)
(* gives up after three attempts) and the worker may be killed.            *)
(***************************************************************************)
EXTENDS Naturals, FiniteSets

CONSTANTS
  Workers,       \* gunicorn's workers (GUNICORN_WORKERS)
  Emails,        \* the people: each has one address
  OldFile,       \* the users whose token is still in data/app.db, the file of before PostgreSQL
  MaxUsers,      \* bound on the ids handed out
  MaxSetups,     \* bound on the setup forms sent
  MaxFaults      \* bound on handlers cut short

ASSUME UserAccountsAssumption ==
  /\ IsFiniteSet(Workers)
  /\ Emails # {}
  /\ MaxUsers \in Nat \ {0, 1}
  /\ OldFile \subseteq 1..MaxUsers
  /\ MaxSetups \in Nat
  /\ MaxFaults \in Nat

Ids     == 1..MaxUsers
Nobody  == 0
Roles   == {"admin", "manager"}
NoUser  == [role |-> "none"]
NoSetup == [token |-> 0]

\* A token is random: that of a row inserted here is named after the row's id
NoToken  == 0
OldToken == MaxUsers + 1

User ==
  [email : Emails, role : Roles, emailOk : BOOLEAN, phoneOk : BOOLEAN,
   active : BOOLEAN, token : {NoToken, OldToken} \cup Ids]

VARIABLES
  \* PostgreSQL
  users,    \* the users table
  lastId,   \* the sequence of users.id
  pending,  \* config _pending_setup: the first admin's form, until their e-mail is confirmed
  \* outside
  links,    \* links in somebody's mail: <<"setup" or "user", the token>>
  setups,   \* setup forms sent so far
  session,  \* the cookie of each person: a user id
  \* gunicorn
  req,      \* what each worker is doing, and its next transaction
  faults,   \* handlers cut short so far
  \* history variables: they record, no action reads them
  invited,  \* users who did not come from the setup form
  cut,      \* users whose verification was cut short
  removed   \* an account has been deleted

database == <<users, lastId, pending>>
outside  == <<links, setups, session>>
ghosts   == <<invited, cut, removed>>
vars     == <<database, outside, req, faults, ghosts>>

\* What a worker does: its next transaction, who asked for it, and the user, address and
\* role it has in hand ("gone": a role id that the table no longer has)
\* (a field that a handler does not use is Anyone's, Nobody's or "manager")
Anyone == CHOOSE e \in Emails : TRUE
Idle   == [next |-> "none", by |-> Anyone, id |-> Nobody, email |-> Anyone, role |-> "manager"]

Transactions ==
  {"save setup", "insert admin", "clear setup", "set email", "set phone", "activate",
   "create", "mail", "update", "delete", "reset"}

Exists(i)   == users[i] # NoUser
Taken(e)    == \E i \in Ids : Exists(i) /\ users[i].email = e
HasUsers    == \E i \in Ids : Exists(i)

\* auth.current_user: the cookie of a deleted user is nobody's
LoggedIn(e) == session[e] # Nobody /\ Exists(session[e])
Me(e)       == users[session[e]]
\* auth.require_role("admin")
IsAdmin(e)  == LoggedIn(e) /\ Me(e).role = "admin"

Row(e, role, ok, active, token) ==
  [email |-> e, role |-> role, emailOk |-> ok, phoneOk |-> FALSE, active |-> active,
   token |-> token]

\* A fresh installation, or one whose users the migration script has copied with their
\* ids, which leaves the sequence where it was: an admin, and somebody invited by mail
Init ==
  /\ \/ /\ users = [i \in Ids |-> NoUser]
        /\ links = {}
        /\ invited = {}
     \/ \E e, f \in Emails :
          /\ e # f
          /\ users = [i \in Ids |-> CASE i = 1 -> Row(e, "admin", TRUE, TRUE, NoToken)
                                      [] i = 2 -> Row(f, "manager", FALSE, FALSE, OldToken)
                                      [] OTHER -> NoUser]
          /\ links \in SUBSET {<<"user", OldToken>>}
          /\ invited = {2}
  /\ lastId = 0
  /\ pending = NoSetup
  /\ setups = 0
  /\ session = [e \in Emails |-> Nobody]
  /\ req = [w \in Workers |-> Idle]
  /\ faults = 0
  /\ cut = {}
  /\ removed = FALSE

-----------------------------------------------------------------------------
(***************************************************************************)
(* Handlers begin, continue, end, and are cut short.                       *)
(***************************************************************************)
Begins(w, next, by, id, email, role) ==
  /\ req[w] = Idle
  /\ req' = [req EXCEPT ![w] = [next |-> next, by |-> by, id |-> id, email |-> email,
                                role |-> role]]

At(w, next) == req[w].next = next

Goes(w, next) == req' = [req EXCEPT ![w].next = next]

Ends(w) == req' = [req EXCEPT ![w] = Idle]

\* A transaction fails for good, before or after it has taken effect, or the worker
\* is killed: the handler is left where it is.
Cut(w) ==
  /\ req[w] # Idle
  /\ faults < MaxFaults
  /\ faults' = faults + 1
  /\ cut' = IF At(w, "activate") THEN cut \cup {req[w].id} ELSE cut
  /\ Ends(w)
  /\ UNCHANGED <<database, outside, invited, removed>>

-----------------------------------------------------------------------------
(***************************************************************************)
(* First-run setup. The mail goes out before the form is stored.           *)
(***************************************************************************)
Setup(w, e) ==
  /\ ~HasUsers
  /\ setups < MaxSetups
  /\ setups' = setups + 1
  /\ links' = links \cup {<<"setup", setups + 1>>}
  /\ Begins(w, "save setup", Anyone, setups + 1, e, "manager")
  /\ UNCHANGED <<database, session, faults, ghosts>>

\* pending_setup_save: there is one pending form, the last
SaveSetup(w) ==
  /\ At(w, "save setup")
  /\ pending' = [token |-> req[w].id, email |-> req[w].email]
  /\ Ends(w)
  /\ UNCHANGED <<users, lastId, outside, faults, ghosts>>

\* The sequence of users.id is not used up (the bound MaxUsers)
IdsLeft ==
  lastId + Cardinality({w \in Workers : req[w].next \in {"insert admin", "create"}}) < MaxUsers

\* Fault: the form is removed as it is read.
TakeSetupForm(w) ==
  /\ pending # NoSetup /\ <<"setup", pending.token>> \in links /\ IdsLeft
  /\ Begins(w, "insert admin", pending.email, Nobody, pending.email, "admin")
  /\ pending' = NoSetup
  /\ UNCHANGED <<users, lastId, outside, faults, ghosts>>

\* verify_email with the token of the stored form; the roles are seeded and read
FollowSetupLink(w) ==
  /\ pending # NoSetup
  /\ <<"setup", pending.token>> \in links
  /\ IdsLeft
  /\ Begins(w, "insert admin", pending.email, Nobody, pending.email, "admin")
  /\ UNCHANGED <<database, outside, faults, ghosts>>

\* A row takes the next id of the sequence. The address may be taken, the id in use, or
\* the role gone: then the number is used up and nothing else happens.
Fails(row) == Taken(row.email) \/ Exists(lastId + 1) \/ row.role \notin Roles

Inserts(row) ==
  /\ lastId' = lastId + 1
  /\ users' = IF Fails(row) THEN users ELSE [users EXCEPT ![lastId + 1] = row]

\* Any error sends the visitor back to the setup page, the form stays
InsertAdmin(w) ==
  LET row == Row(req[w].email, req[w].role, TRUE, TRUE, NoToken) IN
  /\ At(w, "insert admin")
  /\ Inserts(row)
  /\ IF Fails(row) THEN Ends(w)
     ELSE req' = [req EXCEPT ![w].next = "clear setup", ![w].id = lastId + 1]
  /\ UNCHANGED <<pending, outside, faults, ghosts>>

\* pending_setup_clear, and the visitor is logged in
ClearSetup(w) ==
  /\ At(w, "clear setup")
  /\ pending' = NoSetup
  /\ session' = [session EXCEPT ![req[w].by] = req[w].id]
  /\ Ends(w)
  /\ UNCHANGED <<users, lastId, links, setups, faults, ghosts>>

-----------------------------------------------------------------------------
(***************************************************************************)
(* Login, and the verification of an e-mail address and a phone number.    *)
(***************************************************************************)
Login(e) ==
  /\ ~LoggedIn(e)
  /\ \E i \in Ids :
       /\ Exists(i) /\ users[i].email = e /\ users[i].emailOk
       /\ session' = [session EXCEPT ![e] = i]
  /\ UNCHANGED <<database, links, setups, req, faults, ghosts>>

Logout(e) ==
  /\ session[e] # Nobody
  /\ session' = [session EXCEPT ![e] = Nobody]
  /\ UNCHANGED <<database, links, setups, req, faults, ghosts>>

\* verify_email with the token of a user
FollowUserLink(w, i) ==
  /\ Exists(i)
  /\ <<"user", users[i].token>> \in links
  /\ Begins(w, "set email", users[i].email, i, Anyone, "link")
  /\ UNCHANGED <<database, outside, faults, ghosts>>

\* The verification code sent to the phone of user i is right
EnterPhoneCode(w, e, i) ==
  /\ LoggedIn(e)
  /\ session[e] = i \/ IsAdmin(e)
  /\ Exists(i)
  /\ Begins(w, "set phone", Anyone, i, Anyone, "manager")
  /\ UNCHANGED <<database, outside, faults, ghosts>>

\* A row deleted meanwhile is left alone
Updated(i, row) == users' = IF Exists(i) THEN [users EXCEPT ![i] = row] ELSE users

SetEmailVerified(w) ==
  LET u == users[req[w].id] IN
  /\ At(w, "set email")
  /\ Updated(req[w].id, [u EXCEPT !.emailOk = TRUE, !.token = NoToken])
  /\ Goes(w, "activate")
  /\ UNCHANGED <<lastId, pending, outside, faults, ghosts>>

\* Fault: the account is left for the e-mail to activate.
OnlySetPhone(w) ==
  LET u == users[req[w].id] IN
  /\ At(w, "set phone")
  /\ Updated(req[w].id, [u EXCEPT !.phoneOk = TRUE])
  /\ Ends(w)
  /\ UNCHANGED <<lastId, pending, outside, faults, ghosts>>

SetPhoneVerified(w) ==
  LET u == users[req[w].id] IN
  /\ At(w, "set phone")
  /\ Updated(req[w].id, [u EXCEPT !.phoneOk = TRUE])
  /\ Goes(w, "activate")
  /\ UNCHANGED <<lastId, pending, outside, faults, ghosts>>

\* Whoever followed the e-mail link is logged in
LogsIn(w) ==
  session' = IF req[w].role = "link" THEN [session EXCEPT ![req[w].by] = req[w].id] ELSE session

\* Fault: either verification activates the account.
ActivateIfEither(w) ==
  LET u == users[req[w].id] IN
  /\ At(w, "activate")
  /\ Updated(req[w].id, [u EXCEPT !.active = @ \/ u.emailOk \/ u.phoneOk])
  /\ LogsIn(w) /\ Ends(w)
  /\ UNCHANGED <<lastId, pending, links, setups, faults, ghosts>>

ActivateIfReady(w) ==
  LET u == users[req[w].id] IN
  /\ At(w, "activate")
  /\ Updated(req[w].id, [u EXCEPT !.active = @ \/ (u.emailOk /\ u.phoneOk)])
  /\ LogsIn(w)
  /\ Ends(w)
  /\ UNCHANGED <<lastId, pending, links, setups, faults, ghosts>>

-----------------------------------------------------------------------------
(***************************************************************************)
(* What an admin does to the others' accounts.                             *)
(***************************************************************************)
\* api_users_create: "Verify your own phone number before inviting others"
Create(w, e, email, role) ==
  /\ IsAdmin(e) /\ Me(e).phoneOk
  /\ IdsLeft
  /\ Begins(w, "create", Anyone, Nobody, email, role)
  /\ UNCHANGED <<database, outside, faults, ghosts>>

\* user_create: whatever the database refuses is a duplicate address
UserCreate(w) ==
  LET row == Row(req[w].email, req[w].role, FALSE, FALSE, lastId + 1) IN
  /\ At(w, "create")
  /\ Inserts(row)
  /\ IF Fails(row) THEN Ends(w) /\ UNCHANGED invited
     ELSE /\ req' = [req EXCEPT ![w].next = "mail", ![w].id = lastId + 1]
          /\ invited' = invited \cup {lastId + 1}
  /\ UNCHANGED <<pending, outside, faults, cut, removed>>

\* _get_email_token reads data/app.db, never the database (in a fresh installation what it
\* finds there is nobody's token). Whether Resend takes the mail is not looked at.
Mailed(i) == links' \in {links, links \cup {<<"user", OldToken>> : j \in OldFile \cap {i}}}

MailLink(w) ==
  /\ At(w, "mail")
  /\ Mailed(req[w].id)
  /\ Ends(w)
  /\ UNCHANGED <<database, setups, session, faults, ghosts>>

\* api_users_resend_verification
Resend(e, i) ==
  /\ IsAdmin(e)
  /\ Exists(i)
  /\ Mailed(i)
  /\ UNCHANGED <<database, setups, session, req, faults, ghosts>>

\* api_users_update: the role is read before it is written
Patch(w, e, i, role) ==
  /\ IsAdmin(e)
  /\ Begins(w, "update", Anyone, i, Anyone, role)
  /\ UNCHANGED <<database, outside, faults, ghosts>>

\* Fault: the users table has no foreign key to the roles.
UpdateUnchecked(w) ==
  LET u == users[req[w].id] IN
  /\ At(w, "update")
  /\ Updated(req[w].id, [u EXCEPT !.role = req[w].role])
  /\ Ends(w)
  /\ UNCHANGED <<lastId, pending, outside, faults, ghosts>>

UserUpdate(w) ==
  LET u == users[req[w].id] IN
  /\ At(w, "update")
  /\ Updated(req[w].id, IF req[w].role \in Roles THEN [u EXCEPT !.role = req[w].role] ELSE u)
  /\ Ends(w)
  /\ UNCHANGED <<lastId, pending, outside, faults, ghosts>>

\* api_users_delete: "Cannot delete your own account"
Delete(w, e, i) ==
  /\ IsAdmin(e)
  /\ session[e] # i
  /\ Begins(w, "delete", Anyone, i, Anyone, "manager")
  /\ UNCHANGED <<database, outside, faults, ghosts>>

UserDelete(w) ==
  /\ At(w, "delete")
  /\ users' = [users EXCEPT ![req[w].id] = NoUser]
  /\ invited' = invited \ {req[w].id}
  /\ cut' = cut \ {req[w].id}
  /\ removed' = TRUE
  /\ Ends(w)
  /\ UNCHANGED <<lastId, pending, outside, faults>>

\* api_reset: all tables are emptied, the roles too, or none is and only the log says so;
\* the sequences go on.
Reset(w, e) ==
  /\ IsAdmin(e)
  /\ Begins(w, "reset", e, Nobody, Anyone, "manager")
  /\ UNCHANGED <<database, outside, faults, ghosts>>

\* The roles the other handlers hold are gone with the table
RolesGone(w) ==
  req' = [v \in Workers |->
            IF v = w THEN Idle
            ELSE IF req[v] # Idle /\ req[v].role \in Roles THEN [req[v] EXCEPT !.role = "gone"] ELSE req[v]]

DeleteAll(w) ==
  /\ At(w, "reset")
  /\ \/ /\ users' = [i \in Ids |-> NoUser]
        /\ pending' = NoSetup
        /\ RolesGone(w)
        /\ invited' = {} /\ cut' = {} /\ removed' = TRUE
        /\ UNCHANGED faults
     \/ /\ faults < MaxFaults
        /\ faults' = faults + 1
        /\ Ends(w)
        /\ UNCHANGED <<users, pending, ghosts>>
  /\ session' = [session EXCEPT ![req[w].by] = Nobody]
  /\ UNCHANGED <<lastId, links, setups>>

-----------------------------------------------------------------------------
Asks(w) ==
  \/ FollowSetupLink(w)
  \/ \E e \in Emails :
       \/ Setup(w, e)
       \/ Reset(w, e)
       \/ \E email \in Emails, role \in Roles : Create(w, e, email, role)
       \/ \E i \in Ids : EnterPhoneCode(w, e, i)
       \/ \E i \in Ids : Delete(w, e, i)
       \/ \E i \in Ids, role \in Roles : Patch(w, e, i, role)
  \/ \E i \in Ids : FollowUserLink(w, i)

Step(w) ==
  \/ SaveSetup(w) \/ InsertAdmin(w) \/ ClearSetup(w)
  \/ SetEmailVerified(w) \/ SetPhoneVerified(w) \/ ActivateIfReady(w)
  \/ UserCreate(w) \/ MailLink(w) \/ UserUpdate(w) \/ UserDelete(w)
  \/ DeleteAll(w)

Next ==
  \/ \E w \in Workers : Asks(w) \/ Step(w) \/ Cut(w)
  \/ \E e \in Emails : Login(e) \/ Logout(e)
  \/ \E e \in Emails, i \in Ids : Resend(e, i)

Spec == Init /\ [][Next]_vars

-----------------------------------------------------------------------------
(***************************************************************************)
(* Properties                                                              *)
(***************************************************************************)
\* The types of the state; a user's role is always a row of the roles table (the foreign
\* key of models/user.py), whatever a reset does between the reading and the writing.
TypeOK ==
  /\ users \in [Ids -> User \cup {NoUser}]
  /\ lastId \in 0..MaxUsers
  /\ pending = NoSetup \/ pending \in [token : 1..MaxSetups, email : Emails]
  /\ links \subseteq ({"setup", "user"} \X (0..(MaxSetups + OldToken)))
  /\ setups \in 0..MaxSetups
  /\ session \in [Emails -> Ids \cup {Nobody}]
  /\ req \in [Workers -> [next : Transactions \cup {"none"}, by : Emails, id : Nat,
                          email : Emails, role : Roles \cup {"gone", "link"}]]
  /\ faults \in 0..MaxFaults
  /\ invited \subseteq Ids
  /\ cut \subseteq Ids
  /\ removed \in BOOLEAN

\* "Their account activates after both email and phone are verified" (admin.html): an
\* invited user's account is active only then (_user_activate_if_ready).
ActiveIsVerified ==
  \A i \in invited : Exists(i) /\ users[i].active => users[i].emailOk /\ users[i].phoneOk

\* ... and, whichever verification comes first or if both come at once on two workers, it is
\* active once the handlers have ended, unless one was cut short between its two transactions.
ReadyIsActive ==
  \A i \in Ids :
    Exists(i) /\ users[i].emailOk /\ users[i].phoneOk =>
      \/ users[i].active
      \/ i \in cut
      \/ \E w \in Workers : At(w, "activate") /\ req[w].id = i

\* The stored setup form is removed only when somebody has an account (or had one that was
\* deleted): whatever fails in verify_email before, the link can be followed again.
FormKeptUntilUsed ==
  [][pending # NoSetup /\ pending' = NoSetup => HasUsers \/ removed']_vars

\* "New users receive a verification email" (admin.html): once the handler that created an
\* account has ended, and no fault cut it short, the mail with its token has been sent.
NewUsersGetLink ==
  \A i \in invited :
    faults = 0 /\ Exists(i) /\ users[i].token # NoToken =>
      \/ <<"user", users[i].token>> \in links
      \/ users[i].token = OldToken
      \/ \E w \in Workers : At(w, "mail") /\ req[w].id = i
=============================================================================
