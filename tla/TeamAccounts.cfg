SPECIFICATION FairSpec
CONSTANTS
  Members = {ali, sara}
  Admin = admin
  Tokens = {t1, t2, t3}
  Requests = {q1, q2}
  NoSession = NoSession
  NoMember = NoMember
PROPERTIES LockoutHolds DisabledMembersLeave
