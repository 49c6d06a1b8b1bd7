CONSTANTS
  p1 = p1
  p2 = p2
  p3 = p3
  w1 = w1
  w2 = w2
  Payloads = {p1, p2, p3}
  Workers = {w1, w2}
  QueueMax = 1
  Sentinel = Sentinel
SPECIFICATION FairSpec
INVARIANTS TypeOK AnswerIsFinal
PROPERTIES AnsweredWhileRunning StopReturns
