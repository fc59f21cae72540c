SPECIFICATION Spec
CONSTANTS
  Works = {w1, w2}
  Members = {ali, sara}
  ReportIds = {r1, r2}
  Rewards = {0, 1, 2}
  MaxReward = 1
  LastMonth = 2
  References = {f1, f2}
  Requests = {q1, q2}
  NoReport = NoReport
  NoReference = NoReference
  NoTransfer = NoTransfer
INVARIANTS OneReportPerWork ClosedMonthsPaidInFull
PROPERTIES SettledReportsStand ClosedPayslipsStand
SYMMETRY Symmetry
