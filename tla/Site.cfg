SPECIFICATION MCSpec
CONSTANTS
  Staff = {mina, test}
  TestAccount = test
  Owner = owner
  Customer = customer
  OfficeTokens = {t1, t2}
  Calls = {k1, k2}
  Orders = {g1}
  LoginLimit = 1
  MaxHistory = 2
  NoOne = NoOne
  Orgs = {o1, o2}
  Services = {v1}
  Texts = {x1, x2}
  PortalCalls = {p1, p2}
  NoOrg = NoOrg
  NoService = NoService
  NoText = NoText
  Users = {sima, reza}
  SessionIds = {s1, s2}
  MemoryIds = {m1}
  Visits = {q1, q2}
  NoUser = NoUser
  NoMemory = NoMemory
  Kinds = {image}
  Uploading = {u1, u2}
  Pushed = Pushed
  None = None
  Partial = Partial
  Torn = Torn
  Applicants = {boat, taxi}
  Customers = {c1, c2}
  NoApplicant = NoApplicant
INVARIANTS MCTypeOK SessionsMatchAccounts QuotesByApprovers GuessesAreBounded
           CatalogueAsPublished SessionsAreRecoverable LastCodeWorks PersistentUploadsLast OrdersNameOffers
PROPERTIES MemoriesArePrivate
