SPECIFICATION MCSpec
CONSTANTS
  Messages = {m1, m2}
  MaxChunks = 2
  Requests = {r1, r2}
  Clients = {c1}
  Quota = 2
  Window = 2
  AbortAfter = 2
  EdgeLimit = 2
  Alternatives = 2
  MaxPolls = 2
  MaxVoices = 2
  Keys = {k1, k2, k3, k4}
  MaxRequests = 2
  MaxKeys = 2
  Span = 3
  Logins = {l1, l2, l3}
  FailLimit = 3
  BlockTicks = 3
INVARIANTS MCTypeOK TurnTaking BurstBound AnsweredInTime GuessRate
PROPERTIES ClosedStaysClosed SessionsResume WaitingHelps
