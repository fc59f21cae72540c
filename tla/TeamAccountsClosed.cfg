SPECIFICATION Spec
CONSTANTS
  Members = {ali}
  Admin = admin
  Tokens = {t1, t2}
  Requests = {q1, q2}
  NoSession = NoSession
  NoMember = NoMember
INVARIANT DisablingClosesSessions
