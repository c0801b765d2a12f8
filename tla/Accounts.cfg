\* One address, one establishment, two invitations, two requests at a time; a password
\* reset, and room for two sessions.
SPECIFICATION AccountsSpec
CONSTANTS
  None = None
  Passwords = {p1, p2}
  Tokens = {k1}
  Tenants = {t1}
  Invitations = {i1, i2}
  Requests = {r1, r2}
  Roles = {"MANAGER", "PROFESSIONAL"}
  MaxActiveSessions = 2
SYMMETRY Symmetry
INVARIANTS
  PasswordIsTheChosen
  SessionsFollowThePassword
  SessionsWithinLimit
  InvitationTellsTheTruth
  RoleIsTheAssigned
PROPERTIES
  InvitedStaysInvited
\* Both invitations may be used up, the owner provisioned and nobody able to sign in.
CHECK_DEADLOCK FALSE
