SPECIFICATION MCSpec
CONSTANTS
  o1 = o1  o2 = o2
  s1 = s1  s2 = s2  s3 = s3
  admin = admin  sara = sara  reza = reza
  i1 = i1  i2 = i2  p1 = p1  p2 = p2
  Orders = {o1, o2}
  OldOrders = {o1}
  TrackingTokens = {k1, k2}
  OrderStatuses <- MCStatuses
  Submitted = "submitted"
  Sessions = {s1, s2, s3}
  Owner <- MCOwner
  Role <- MCRole
  Admin = admin
  Unknown = Unknown
  Customer = Customer
  Changes <- MCChanges
  HistoryLimit = 3
  Requests = {q1, q2}
  NoOrder = NoOrder
  NoToken = NoToken
  NoChange = NoChange
  PaymentIds = {p1, p2}
  Keys = {i1, i2}
  MaxAmount = 1
  Inputs <- MCInputs
  PaymentOf <- MCPaymentOf
  Provider = "unconfigured"
  Transactions = {x1}
  PaidStatus = "payment_confirmed"
  NoEntry = NoEntry
  NoTransaction = NoTransaction
  NoIntent = NoIntent
INVARIANT SaidPaidOnlyWhenPaid
