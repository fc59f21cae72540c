SPECIFICATION MCSpec
CONSTANTS
  c1 = c1  c2 = c2  c3 = c3
  Callers = {c1, c2, c3}
  p1 = p1  p2 = p2  k1 = k1  k2 = k2  o1 = o1
  t1 = t1  t2 = t2  e1 = e1  e2 = e2  e3 = e3  i1 = i1  i2 = i2
  Upper = Upper  Lower = Lower
  PaymentIds = {p1, p2}
  Orders = {o1}
  Keys = {k1, k2}
  Providers = {Upper, Lower}
  Canonical <- MCCanonical
  Transactions = {t1, t2}
  EventKeys = {e1, e2, e3, i1, i2}
  IntentEvent <- MCIntentEvent
  Intents <- MCIntents
  Verifications <- MCVerifications
  MaxAmount = 2
  PoolSize = 2
  Blank = Blank
  NoRow = NoRow
  NoTransaction = NoTransaction
  NoCaller = NoCaller
  NoRequest = NoRequest
INVARIANTS
  TypeOK
  OneVerifiedEvent
  NoTransactionPaysTwice
  AnswersHold
  EverySuccessAudited
PROPERTIES
  ImplementsJournal
  EveryCallReturns
