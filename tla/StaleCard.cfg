SPECIFICATION Spec
CONSTANTS
  Letters = {"a", "b"}
  Senders = {asker, other}
  Asker = asker
  Timeout = 1
  Margin = 2
  Lifetime = 4
  MinLife = 3
  MaxClock = 1
  MaxTokens = 2
  Loggers = {g1}
  MaxReconnects = 0
  Questions <- PlainQuestions
  MaxRounds = 2
CHECK_DEADLOCK FALSE
INVARIANTS AnswersItsQuestion
