------------------------------ MODULE Accounts ------------------------------
(***************************************************************************)
(* The account behind one e-mail address: its password, its sessions, the  *)
(* tokens that reset it, the invitations it receives and its memberships   *)
(* (auth.service.ts, prisma-identity.repository.ts, and the provisioning   *)
(* of platform.service.ts).                                                *)
(*                                                                         *)
(* SERIALIZABLE transactions that read and write the same rows are one     *)
(* step. What a request read before its transaction (the hash a login      *)
(* verified, the invitation an acceptance found) is kept in the request,   *)
(* and so is what the two transactions of default isolation that read      *)
(* without a lock (the revocation of an invitation, the edit of a          *)
(* membership) saw before they write.                                      *)
(*                                                                         *)
(* An expired token or invitation is one nobody uses any more; a session   *)
(* expires in the step that revokes one. An attempt that is refused only   *)
(* writes to the audit log, and is no step.                                *)
(***************************************************************************)
EXTENDS Database, Integers, Sequences, SequencesExt

CONSTANTS
  Passwords,
  Tokens,      \* of password resets
  Tenants,
  Invitations,
  Requests,
  Roles,       \* the roles that may be assigned; OWNER is not one
  MaxActiveSessions

ASSUME AccountsAssumption ==
  /\ MaxActiveSessions \in Nat \ {0}
  /\ "OWNER" \notin Roles
  /\ None \notin Passwords \cup Tenants \cup Invitations \cup Roles

\* The rows, and what a request may be about
User == [status : {"none", "INVITED", "ACTIVE"}, password : Passwords \cup {None},
         legacy : BOOLEAN]
Session == [password : Passwords, late : BOOLEAN]
AnyRole == Roles \cup {"OWNER"}
Invitation == [tenant : Tenants, role : AnyRole, status : {"PENDING", "ACCEPTED", "REVOKED"},
               sent : BOOLEAN]
MemberStatus == {"ACTIVE", "SUSPENDED", "INACTIVE"}
Membership == [role : AnyRole, status : MemberStatus, owner : BOOLEAN,
               by : Invitations \cup {None}, assigned : AnyRole, mixed : BOOLEAN]
Job ==
  [op : {"idle"}]
    \cup [op : {"rehash", "session"}, typed : Passwords, seen : Passwords]
    \cup [op : {"revoke"}, item : Invitations]
    \cup [op : {"accept"}, item : Invitations, password : Passwords \cup {None}]
    \cup [op : {"update"}, item : Tenants, role : Roles \cup {None}, seen : AnyRole,
          status : MemberStatus \cup {None}]

ASSUME NoRowIsNone == None \notin Invitation \cup Membership

VARIABLES
  user,       \* the row of the user: its status, "none" before it exists, its password,
              \* and whether the hash has the old parameters (legacy)
  active,     \* the sessions that are neither revoked nor expired, oldest first: the
              \* password of their login, and (history) whether that is an older one (late)
  token,      \* the reset tokens: none, live or used
  invitation, \* the invitations to this address; sent: somebody was given the token
  membership, \* of this user in each establishment; by: the invitation it came from;
              \* (history) the role last assigned, and an edit that crossed one (mixed)
  request,    \* what each request is about to write, and what it read
  chosen,     \* history: the last password the user chose
  restored,   \* history: a login wrote an older password over a newer one
  crossed     \* history: invitations revoked after they were accepted

accountsVars == <<user, active, token, invitation, membership, request, chosen, restored, crossed>>
account == <<user, active, token, chosen, restored>>
team == <<invitation, membership, crossed>>

Idle == [op |-> "idle"]

\* Nobody has the address yet, or somebody has had it since before the parameters of the
\* hash were raised.
AccountsInit ==
  /\ \/ user = [status |-> "none", password |-> None, legacy |-> FALSE] /\ chosen = None
     \/ \E p \in Passwords : /\ user = [status |-> "ACTIVE", password |-> p, legacy |-> TRUE]
                             /\ chosen = p
  /\ active = <<>>
  /\ token = [k \in Tokens |-> "none"]
  /\ invitation = [i \in Invitations |-> None]
  /\ membership = [t \in Tenants |-> None]
  /\ request = [r \in Requests |-> Idle]
  /\ restored = FALSE
  /\ crossed = {}

-----------------------------------------------------------------------------
Begin(r, j) == request[r] = Idle /\ request' = [request EXCEPT ![r] = j]
End(r) == request' = [request EXCEPT ![r] = Idle]

\* The password a reset, an acceptance or a registration stores
Chosen(p) == [status |-> "ACTIVE", password |-> p, legacy |-> FALSE]

\* A transaction runs out of retries, a statement throws, the process ends
Fail(r) ==
  /\ request[r] # Idle
  /\ End(r)
  /\ UNCHANGED <<account, team>>

-----------------------------------------------------------------------------
(* Login and sessions *)

\* (fault) An old hash is replaced before the password is verified
StartLoginUnverified(r, typed) ==
  /\ user.status = "ACTIVE" /\ (user.legacy \/ user.password = typed)
  /\ Begin(r, [op |-> IF user.legacy THEN "rehash" ELSE "session",
               typed |-> typed, seen |-> user.password])
  /\ UNCHANGED <<account, team>>

\* login: the hash that was read is verified, and later replaced if it is old
StartLogin(r, typed) ==
  /\ user.status = "ACTIVE" /\ user.password = typed
  /\ Begin(r, [op |-> IF user.legacy THEN "rehash" ELSE "session",
               typed |-> typed, seen |-> user.password])
  /\ UNCHANGED <<account, team>>

\* updatePasswordHash: by id, whatever the hash is by now
Rehash(r) ==
  /\ request[r].op = "rehash"
  /\ user' = [user EXCEPT !.password = request[r].typed, !.legacy = FALSE]
  /\ restored' = (restored \/ user.password # request[r].seen)
  /\ request' = [request EXCEPT ![r].op = "session"]
  /\ UNCHANGED <<active, token, chosen, team>>

\* (fault) Room for the sessions there are
WithRoomForNone ==
  LET excess == Len(active) - MaxActiveSessions
  IN  IF excess > 0 THEN SubSeq(active, excess + 1, Len(active)) ELSE active

\* createLoginSession: the oldest sessions give way, so that the new one fits
WithRoomForOne ==
  LET excess == Len(active) - MaxActiveSessions + 1
  IN  IF excess > 0 THEN SubSeq(active, excess + 1, Len(active)) ELSE active

OpenSession(r) ==
  /\ request[r].op = "session"
  /\ active' = Append(WithRoomForOne, [password |-> request[r].typed,
                                       late |-> user.password # request[r].seen])
  /\ End(r)
  /\ UNCHANGED <<user, token, chosen, restored, team>>

\* revokeSession, logout, or the session expires
EndSession(k) ==
  /\ k \in DOMAIN active
  /\ active' = RemoveAt(active, k)
  /\ UNCHANGED <<user, token, chosen, restored, team, request>>

\* logoutAll, asked for in one of the sessions
LogoutAll ==
  /\ active # <<>>
  /\ active' = <<>>
  /\ UNCHANGED <<user, token, chosen, restored, team, request>>

-----------------------------------------------------------------------------
(* Recovery of the password *)

AllUsed == [k \in Tokens |-> IF token[k] = "live" THEN "used" ELSE token[k]]

\* (fault) Anybody may recover a password
ForgotAnyone(k) ==
  /\ user.status # "none"
  /\ token[k] = "none"
  /\ token' = [AllUsed EXCEPT ![k] = "live"]
  /\ UNCHANGED <<user, active, chosen, restored, team, request>>

\* forgotPassword: tokens before this one are used up
Forgot(k) ==
  /\ user.status = "ACTIVE"
  /\ token[k] = "none"
  /\ token' = [AllUsed EXCEPT ![k] = "live"]
  /\ UNCHANGED <<user, active, chosen, restored, team, request>>

\* (fault) The sessions stay
ResetKeepingSessions(k, p) ==
  /\ token[k] = "live"
  /\ user' = Chosen(p)
  /\ token' = AllUsed
  /\ chosen' = p
  /\ restored' = FALSE
  /\ UNCHANGED <<active, team, request>>

\* resetPassword
Reset(k, p) ==
  /\ token[k] = "live"
  /\ user' = Chosen(p)
  /\ token' = AllUsed
  /\ active' = <<>>
  /\ chosen' = p
  /\ restored' = FALSE
  /\ UNCHANGED <<team, request>>

-----------------------------------------------------------------------------
(* Invitations and memberships *)

Member(role, i) == [role |-> role, status |-> "ACTIVE", owner |-> role = "OWNER", by |-> i,
                    assigned |-> role, mixed |-> FALSE]

\* createTenantWithOwner
SignUp(t, p) ==
  /\ user.status = "none" /\ membership[t] = None
  /\ \A i \in Invitations : invitation[i] # None => invitation[i].tenant # t
  /\ user' = Chosen(p)
  /\ chosen' = p
  /\ membership' = [membership EXCEPT ![t] = Member("OWNER", None)]
  /\ UNCHANGED <<active, token, restored, invitation, crossed, request>>

\* PlatformService.createTenant: the membership is active from the start, and the token of
\* the invitation is given to nobody.
Provision(t, i) ==
  /\ membership[t] = None /\ invitation[i] = None
  /\ \A o \in Invitations : invitation[o] # None => invitation[o].tenant # t
  /\ user' = IF user.status = "none" THEN [user EXCEPT !.status = "INVITED"] ELSE user
  /\ membership' = [membership EXCEPT ![t] = Member("OWNER", None)]
  /\ invitation' = [invitation EXCEPT ![i] =
       [tenant |-> t, role |-> "OWNER", status |-> "PENDING", sent |-> FALSE]]
  /\ UNCHANGED <<active, token, chosen, restored, crossed, request>>

\* createInvitation; the delivery that fails may still have arrived
Invite(i, t, role) ==
  /\ invitation[i] = None /\ membership[t] = None
  /\ invitation' = [invitation EXCEPT ![i] =
       [tenant |-> t, role |-> role, status |-> "PENDING", sent |-> TRUE]]
  /\ UNCHANGED <<account, membership, crossed, request>>

Pending(i) == invitation[i] # None /\ invitation[i].status = "PENDING"

\* revokeInvitation, by the staff or after a delivery that failed: found pending
StartRevoke(r, i) ==
  /\ Pending(i)
  /\ Begin(r, [op |-> "revoke", item |-> i])
  /\ UNCHANGED <<account, team>>

\* ... and written by id
Revoke(r) ==
  /\ request[r].op = "revoke"
  /\ LET i == request[r].item IN
       /\ invitation' = [invitation EXCEPT ![i].status = "REVOKED"]
       /\ crossed' = IF invitation[i].status = "ACCEPTED" THEN crossed \cup {i} ELSE crossed
  /\ End(r)
  /\ UNCHANGED <<account, membership>>

\* AuthService.acceptInvitation: who has the address proves it with a session or the
\* password; who does not chooses a password.
StartAccept(r, i, p) ==
  /\ Pending(i) /\ invitation[i].sent
  /\ user.status # "none" => active # <<>> \/ user.password = p
  /\ Begin(r, [op |-> "accept", item |-> i,
               password |-> IF user.status = "none" THEN p ELSE None])
  /\ UNCHANGED <<account, team>>

\* (fault) A member who accepts again is moved to the new role
AcceptAsMember(r) ==
  /\ request[r].op = "accept"
  /\ LET i == request[r].item
         t == invitation[i].tenant
     IN  /\ Pending(i)
         /\ user.status = "none" => request[r].password # None
         /\ membership' = [membership EXCEPT ![t] = Member(invitation[i].role, i)]
         /\ invitation' = [invitation EXCEPT ![i].status = "ACCEPTED"]
  /\ IF user.status = "none"
     THEN user' = Chosen(request[r].password) /\ chosen' = request[r].password
     ELSE UNCHANGED <<user, chosen>>
  /\ End(r)
  /\ UNCHANGED <<active, token, restored, crossed>>

\* the transaction looks at everything again; a membership that is INVITED, which it
\* would activate, is a row nothing creates
Accept(r) ==
  /\ request[r].op = "accept"
  /\ LET i == request[r].item
         t == invitation[i].tenant
     IN  /\ Pending(i)
         /\ membership[t] = None
         /\ user.status = "none" => request[r].password # None
         /\ membership' = [membership EXCEPT ![t] = Member(invitation[i].role, i)]
         /\ invitation' = [invitation EXCEPT ![i].status = "ACCEPTED"]
  /\ IF user.status = "none"
     THEN user' = Chosen(request[r].password) /\ chosen' = request[r].password
     ELSE UNCHANGED <<user, chosen>>
  /\ End(r)
  /\ UNCHANGED <<active, token, restored, crossed>>

\* updateMembership: the owner's is protected. Without a role or a status, what is
\* edited is the scope of units.
StartUpdate(r, t, role, status) ==
  /\ membership[t] # None /\ ~membership[t].owner
  /\ Begin(r, [op |-> "update", item |-> t, role |-> role, seen |-> membership[t].role,
               status |-> status])
  /\ UNCHANGED <<account, team>>

\* (fault) The role that was read is written, whatever was asked for
EditedAsRead(old, edit) ==
  [old EXCEPT !.role = edit.seen, !.status = IF edit.status = None THEN @ ELSE edit.status,
              !.assigned = IF edit.role = None THEN @ ELSE edit.role,
              !.mixed = edit.role = None /\ (@ \/ edit.seen # old.role)]

\* the role is written even if it was not asked for: the one that was read
Edited(old, edit) ==
  [old EXCEPT !.role = IF edit.role = None THEN edit.seen ELSE edit.role,
              !.status = IF edit.status = None THEN @ ELSE edit.status,
              !.assigned = IF edit.role = None THEN @ ELSE edit.role,
              !.mixed = edit.role = None /\ (@ \/ edit.seen # old.role)]

Update(r) ==
  /\ request[r].op = "update"
  /\ membership' = [membership EXCEPT ![request[r].item] = Edited(@, request[r])]
  /\ End(r)
  /\ UNCHANGED <<account, invitation, crossed>>

-----------------------------------------------------------------------------
Step(r) ==
  \/ \E p \in Passwords : StartLogin(r, p)
  \/ Rehash(r)
  \/ OpenSession(r)
  \/ \E i \in Invitations : StartRevoke(r, i)
  \/ Revoke(r)
  \/ \E i \in Invitations, p \in Passwords : StartAccept(r, i, p)
  \/ Accept(r)
  \/ \E t \in Tenants, role \in Roles \cup {None}, status \in MemberStatus \cup {None} :
       StartUpdate(r, t, role, status)
  \/ Update(r)
  \/ Fail(r)

AccountsNext ==
  \/ \E r \in Requests : Step(r)
  \/ \E k \in 1 .. MaxActiveSessions : EndSession(k)
  \/ LogoutAll
  \/ \E k \in Tokens : Forgot(k)
  \/ \E k \in Tokens, p \in Passwords : Reset(k, p)
  \/ \E t \in Tenants, p \in Passwords : SignUp(t, p)
  \/ \E t \in Tenants, i \in Invitations : Provision(t, i)
  \/ \E i \in Invitations, t \in Tenants, role \in Roles : Invite(i, t, role)

AccountsSpec == AccountsInit /\ [][AccountsNext]_accountsVars

-----------------------------------------------------------------------------
(* Properties *)

AccountsTypeOK ==
  /\ user \in User
  /\ active \in Seq(Session)
  /\ token \in [Tokens -> {"none", "live", "used"}]
  /\ invitation \in [Invitations -> Invitation \cup {None}]
  /\ membership \in [Tenants -> Membership \cup {None}]
  /\ request \in [Requests -> Job]
  /\ chosen \in Passwords \cup {None}
  /\ restored \in BOOLEAN
  /\ crossed \subseteq Invitations

\* The user signs in with the password last chosen. A login that refreshes an old hash
\* writes the password it verified: only if a reset came in between does that undo it.
PasswordIsTheChosen == user.password = chosen \/ restored

\* A reset ends every session: a session that is open was opened with the password of
\* today, unless its login verified another before the reset and opened it after.
SessionsFollowThePassword ==
  \A k \in DOMAIN active :
    active[k].password = user.password \/ active[k].late \/ restored

\* However logins, expiries and revocations fall, an account keeps at most
\* AUTH_MAX_ACTIVE_SESSIONS sessions, and a login always fits.
SessionsWithinLimit == Len(active) <= MaxActiveSessions

\* What became of an invitation is what became of the membership: accepted is the one
\* the membership came from, and no other; only a revocation that had found it pending
\* before it was accepted says REVOKED of an invitation that has a member.
InvitationTellsTheTruth ==
  \A i \in Invitations : invitation[i] # None =>
    LET member == membership[invitation[i].tenant] IN
      /\ invitation[i].status = "ACCEPTED" => member # None /\ member.by = i
      /\ (member # None /\ member.by = i) =>
           invitation[i].status = "ACCEPTED" \/ i \in crossed

\* The role of a member is the last one assigned: an edit of status or units leaves it,
\* unless the role was assigned between what that edit read and what it wrote.
RoleIsTheAssigned ==
  \A t \in Tenants : membership[t] # None =>
    membership[t].role = membership[t].assigned \/ membership[t].mixed

\* The owner that the platform provisions is INVITED without a password, with the
\* membership already active and an invitation nobody is given. Login and recovery ask
\* for an ACTIVE user, and acceptance for a new one, a session or a password: whatever
\* happens, the account stays as it is.
InvitedStaysInvited ==
  [][user.status = "INVITED" => user' = user /\ active' = <<>>]_accountsVars
=============================================================================
