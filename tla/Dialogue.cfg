SPECIFICATION Spec
CONSTANTS
  Letters = {"a", "b"}
  Senders = {asker, other}
  Asker = asker
  Timeout = 1
  Margin = 2
  Lifetime = 4
  MinLife = 3
  MaxClock = 6
  MaxTokens = 2
  Loggers = {g1, g2}
  MaxReconnects = 1
  Questions <- AllQuestions
  MaxRounds = 2
CHECK_DEADLOCK FALSE
INVARIANTS TypeOK TokenAlive ReadinessKept ClickFindsItsChoice ShownInFull
