SPECIFICATION FairSpec
CONSTANTS
  Replicas = {r1, r2}
  Threads = {t1, t2}
  Bodies = {b1, b2}
  None = None
  IdsMatchHistory = TRUE
  Legacy = {"failed", "pending", "accepted"}
INVARIANTS TypeOK AtMostOnce RecordMatchesChannel SentIsComplete
PROPERTIES DeliveryIsRemembered EchoIsNotStoredAgain AcceptedIsFinished
