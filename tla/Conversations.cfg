SPECIFICATION FairSpec
CONSTANTS
  ann = ann  bob = bob
  w1 = w1  w2 = w2  w3 = w3
  Ids = {i1}
  Users = {ann, bob}
  Words = {w1, w2, w3}
  Author <- MCAuthor
  Blank = Blank
  Roles = {"user", "assistant"}
  Requests = {r1, r2}
  MaxAttempts = 2
  NoRow = NoRow
  NoWords = NoWords
INVARIANTS
  AskedInContext
  AnswersFollowQuestions
  NoAnswerAfterClose
PROPERTIES
  TranscriptsGrow
  EveryRequestEnds
