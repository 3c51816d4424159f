SPECIFICATION FairSpec

CONSTANTS
  m1 = m1
  m2 = m2
  m3 = m3
  c1 = c1
  c2 = c2
  Messages <- MCMessages
  Chats <- MCChats
  ChatOf <- MCChatOf
  Texts <- MCTexts
  NoJob = NoJob
  PoolSize = 2
  Verifies = TRUE
  MaxRuns <- MCMaxRuns
  MaxRestarts = 1

INVARIANTS
  OneJobPerLapse
  OneRunPerChat
PROPERTIES
  ServiceSpec
  EveryJobEnds

CHECK_DEADLOCK FALSE
