SPECIFICATION Spec
CONSTANTS
  People = {1, 2}
  ChunkSize = 1
INVARIANTS TelegramAsChosen
CHECK_DEADLOCK FALSE
