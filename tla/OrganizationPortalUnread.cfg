SPECIFICATION PortalSpec
CONSTANTS
  Orgs = {o1}
  Services = {v1}
  Texts = {x1, x2}
  PortalCalls = {p1, p2}
  NoOrg = NoOrg
  NoService = NoService
  NoText = NoText
INVARIANT CatalogueIsReviewed
