SPECIFICATION Spec
CONSTANTS
  Sent <- MCSent
  AnswerPdus <- MCAnswerPdus
  ChunkSize = 16
  SendSize = 5
INVARIANTS
  TypeOK
  AnswersTheFramesSent
  BufferIsTheRest
  NothingLeftBehind
  AnswersArriveWhole
  MalformedIsTheBadItem
PROPERTIES
  EveryFrameAnswered
  EndsWithThePeer
CHECK_DEADLOCK FALSE
