--------------------------- MODULE Administration ---------------------------
(***************************************************************************)
(* The administrators' accounts and sessions (services/adminAuth.service,  *)
(* controllers/admin.controller, middlewares/requireAdmin): sign-in,       *)
(* invitations, roles, disabling, credentials. A request is let in by its  *)
(* session at its start; what it then reads and writes are statements of   *)
(* their own, except the change of the own password, a transaction.        *)
(*                                                                         *)
(* A password is the number of the change that set it.                     *)
(***************************************************************************)
EXTENDS Integers, FiniteSets

CONSTANTS AdminUser,   \* administrators, by email
          Bootstrap,   \* the one configured to be created by its first login
          Session,     \* ids of sessions
          AdminCall,   \* requests that may be under way at once
          MaxPassword  \* bound: passwords set

ASSUME AdministrationAssumption ==
  Bootstrap \in AdminUser /\ [role |-> "none"] \notin AdminUser /\ MaxPassword \in Nat \ {0}

VARIABLES adminRow,   \* the AdminUser rows
          invited,    \* emails with an invitation not yet accepted
          session,    \* sessions not revoked: whose, opened with what, and
                      \* whether a known accident has left it open
          adminCall,  \* what each request is doing
          passwords,  \* passwords set so far
          raced       \* two removals have been counted at once

adminVars == <<adminRow, invited, session, adminCall, passwords, raced>>

NoAdmin == [role |-> "none"]
NoSession == [admin |-> NoAdmin]
NoCall == [step |-> "idle"]
AdminRoles == {"administrator", "operations"}
Account(role, password, must) ==
  [role |-> role, enabled |-> TRUE, password |-> password, must |-> must]

\* Rows from before mustChangePassword was added do not have to change theirs.
AdminInit ==
  /\ adminRow \in {[a \in AdminUser |-> NoAdmin],
                   [a \in AdminUser |-> IF a = Bootstrap THEN Account("administrator", 1, FALSE) ELSE NoAdmin]}
  /\ invited = {}
  /\ session = [s \in Session |-> NoSession]
  /\ adminCall = [c \in AdminCall |-> NoCall]
  /\ passwords = 1
  /\ raced = FALSE

Known(a) == adminRow[a] # NoAdmin
SessionsOf(a) == {s \in Session : session[s].admin = a}

\* verifyToken, and the permission of a route: "*" is an administrator's. Who
\* still has to change the password is let in nowhere.
LetIn(s, permission) ==
  /\ session[s] # NoSession
  /\ LET a == adminRow[session[s].admin]
     IN a.enabled /\ ~ a.must /\ (permission = "*" => a.role = "administrator")

ByAdministrator == \E s \in Session : LetIn(s, "*")

AdminFree(c) == adminCall[c] = NoCall
Doing(c, step) == adminCall[c].step = step
Proceed(c, state) == adminCall' = [adminCall EXCEPT ![c] = state]
AdminEnds(c) == Proceed(c, NoCall)

Revoked(a, kept) == [s \in Session |-> IF s \in SessionsOf(a) \ kept THEN NoSession ELSE session[s]]
-----------------------------------------------------------------------------
(* Accounts come from the first login of the configured email, with the    *)
(* shared password, or from invitations.                                   *)

BootstrapLogin ==
  /\ \A a \in AdminUser : ~ Known(a)
  /\ adminRow' = [adminRow EXCEPT ![Bootstrap] = Account("administrator", 1, TRUE)]
  /\ UNCHANGED <<invited, session, adminCall, passwords, raced>>

\* One email may be invited several times, into several roles.
Invite(a) ==
  /\ ByAdministrator
  /\ ~ Known(a)
  /\ invited' = invited \cup {a}
  /\ UNCHANGED <<adminRow, session, adminCall, passwords, raced>>

\* A transaction, into the role of one of the invitations; the email is unique,
\* so the others then fail.
AcceptInvitation(a, role) ==
  /\ a \in invited
  /\ ~ Known(a)
  /\ invited' = invited \ {a}
  /\ adminRow' = [adminRow EXCEPT ![a] = Account(role, passwords, FALSE)]
  /\ UNCHANGED <<session, adminCall, passwords, raced>>
-----------------------------------------------------------------------------
(* authenticate: the password is verified against the row that was read,   *)
(* which takes a while, and then the session is created.                   *)

Verify(c, a) ==
  /\ AdminFree(c)
  /\ Known(a) /\ adminRow[a].enabled
  /\ Proceed(c, [step |-> "verified", admin |-> a, password |-> adminRow[a].password])
  /\ UNCHANGED <<adminRow, invited, session, passwords, raced>>

OpenSession(c, s) ==
  /\ Doing(c, "verified")
  /\ session[s] = NoSession
  /\ LET a == adminCall[c].admin
     IN session' = [session EXCEPT ![s] =
          [admin |-> a, password |-> adminCall[c].password,
           stray |-> adminRow[a].password # adminCall[c].password]]
  /\ AdminEnds(c)
  /\ UNCHANGED <<adminRow, invited, passwords, raced>>

\* Logout, or the session expires.
CloseSession(s) ==
  /\ session[s] # NoSession
  /\ session' = [session EXCEPT ![s] = NoSession]
  /\ UNCHANGED <<adminRow, invited, adminCall, passwords, raced>>
-----------------------------------------------------------------------------
(* updateAdministratorRole and disableAdministrator: the row is read, the  *)
(* enabled administrators are counted if it is one of them, and the row is *)
(* updated by id. Then its sessions are revoked.                           *)

Administrators == {a \in AdminUser : Known(a) /\ adminRow[a].role = "administrator" /\ adminRow[a].enabled}

\* (Mutant: nobody counts.)
RemoveUncounted(c, a, change) ==
  /\ AdminFree(c) /\ ByAdministrator /\ Known(a)
  /\ Proceed(c, [step |-> "counted", admin |-> a, change |-> change])
  /\ UNCHANGED <<adminRow, invited, session, passwords, raced>>

RemoveAdmin(c, a, change) ==
  /\ AdminFree(c) /\ ByAdministrator /\ Known(a)
  /\ \/ adminRow[a].role # "administrator"
     \/ change = "administrator"
     \/ change = "disabled" /\ ~ adminRow[a].enabled
     \/ Cardinality(Administrators) > 1
  /\ Proceed(c, [step |-> "counted", admin |-> a, change |-> change])
  /\ UNCHANGED <<adminRow, invited, session, passwords, raced>>

\* The ghost notes a removal while another one is between its count and its
\* update.
UpdateAdmin(c) ==
  /\ Doing(c, "counted")
  /\ LET a == adminCall[c].admin
         change == adminCall[c].change
     IN adminRow' = [adminRow EXCEPT ![a] =
          IF change = "disabled" THEN [@ EXCEPT !.enabled = FALSE] ELSE [@ EXCEPT !.role = change]]
  /\ raced' = (raced \/ \E d \in AdminCall \ {c} : Doing(d, "counted"))
  /\ Proceed(c, [step |-> "revoking", admin |-> adminCall[c].admin])
  /\ UNCHANGED <<invited, session, passwords>>

\* resetCredential, for whomever; the next password must not be changed first.
ResetCredential(c, a) ==
  /\ AdminFree(c) /\ ByAdministrator /\ Known(a)
  /\ passwords < MaxPassword
  /\ passwords' = passwords + 1
  /\ adminRow' = [adminRow EXCEPT ![a].password = passwords']
  /\ Proceed(c, [step |-> "revoking", admin |-> a])
  /\ UNCHANGED <<invited, session, raced>>

\* revokeAdministratorSessions is this step alone.
RevokeSessions(c, a) ==
  /\ \/ Doing(c, "revoking") /\ adminCall[c].admin = a
     \/ AdminFree(c) /\ ByAdministrator
  /\ session' = Revoked(a, {})
  /\ AdminEnds(c)
  /\ UNCHANGED <<adminRow, invited, passwords, raced>>
-----------------------------------------------------------------------------
(* changePassword. Of its two routes one is for a session that is let in;  *)
(* the other, meant for who has to change it, checks the permission of a   *)
(* request that nobody has authenticated: it fails and is never answered.  *)

Reaches(s, route) == route = "/change-password" /\ LetIn(s, "admin.read")

ChangeRead(c, s, route) ==
  /\ AdminFree(c)
  /\ Reaches(s, route)
  /\ passwords < MaxPassword
  /\ Proceed(c, [step |-> "changing", session |-> s, admin |-> session[s].admin,
                 password |-> adminRow[session[s].admin].password])
  /\ UNCHANGED <<adminRow, invited, session, passwords, raced>>

\* The transaction commits: the password, and the end of the other sessions.
\* The session it came by may have been revoked, and another one opened, since.
ChangePassword(c) ==
  /\ Doing(c, "changing") /\ passwords < MaxPassword
  /\ passwords' = passwords + 1
  /\ LET a == adminCall[c].admin
         own == IF session[adminCall[c].session].admin = a THEN {adminCall[c].session} ELSE {}
     IN /\ adminRow' = [adminRow EXCEPT ![a].password = passwords', ![a].must = FALSE]
        /\ session' = [s \in Session |->
             IF s \in own THEN [admin |-> a, password |-> passwords', stray |-> FALSE]
             ELSE Revoked(a, own)[s]]
  /\ AdminEnds(c)
  /\ UNCHANGED <<invited, raced>>

\* The process dies, or the database fails, before the next statement.
AdminCallDies(c) ==
  /\ ~ AdminFree(c)
  /\ session' = [s \in Session |->
       IF Doing(c, "revoking") /\ s \in SessionsOf(adminCall[c].admin)
       THEN [session[s] EXCEPT !.stray = TRUE] ELSE session[s]]
  /\ AdminEnds(c)
  /\ UNCHANGED <<adminRow, invited, passwords, raced>>

AdminNext ==
  \/ BootstrapLogin
  \/ \E a \in AdminUser : Invite(a) \/ \E role \in AdminRoles : AcceptInvitation(a, role)
  \/ \E s \in Session : CloseSession(s)
  \/ \E c \in AdminCall :
       \/ UpdateAdmin(c) \/ ChangePassword(c) \/ AdminCallDies(c)
       \/ \E s \in Session : \/ OpenSession(c, s)
                             \/ \E route \in {"/password", "/change-password"} : ChangeRead(c, s, route)
       \/ \E a \in AdminUser : \/ Verify(c, a) \/ ResetCredential(c, a) \/ RevokeSessions(c, a)
                               \/ \E change \in AdminRoles \cup {"disabled"} : RemoveAdmin(c, a, change)

AdminSpec == AdminInit /\ [][AdminNext]_adminVars

-----------------------------------------------------------------------------
\* There is always an administrator who can sign in ("Cannot remove the last
\* enabled administrator", admin.controller.js:159 and 171), unless two
\* removals were counted before either was made.
LastAdministrator ==
  (\E a \in AdminUser : Known(a)) => Administrators # {} \/ raced

\* A changed or reset password ends the sessions opened with another one
\* ("Credential reset; active sessions revoked", admin.controller.js:183;
\* changeOwnPassword), but while the reset is between its two statements, and
\* unless it died there or a login had verified the old password before.
PasswordEndsSessions ==
  \A s \in Session :
    LET a == session[s].admin
    IN session[s] # NoSession /\ session[s].password # adminRow[a].password =>
         \/ session[s].stray
         \/ \E c \in AdminCall : Doing(c, "revoking") /\ adminCall[c].admin = a

\* Administrators remain, and only their sessions of now (admin.controller.js).
AdministrationHolds == LastAdministrator /\ PasswordEndsSessions
=============================================================================
