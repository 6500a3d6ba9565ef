CONSTANTS
  q1 = q1
  q2 = q2
  d1 = d1
  c1 = c1
  NoRequest = NoRequest
  Shutdown = Shutdown
  Requests = {q1, q2}
  Tracked = {q1}
  RqDocs = {d1}
  CommentDocs = {c1}
  MaxMessages = 3
  MaxCreates = 2
  MayClose = TRUE
SPECIFICATION FairSpec
INVARIANTS TypeOK SeesItsText BarsPaired CheckedAtRest
PROPERTIES AnswersInOrder CancelWins Answered Confirmed
CHECK_DEADLOCK FALSE
