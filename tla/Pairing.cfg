SPECIFICATION SetupSpec
CONSTANTS
  Clients = {serve, start, setup}
  Wizard = setup
  Users = {u1, u2}
  Texts = {t1, t2}
  NoText = NoText
  None = None
  MaxKeys = 2
SYMMETRY Symmetry
INVARIANTS TypeOK ConsumedIffRegistered PrintedKeyWorks SetupTypeOK ConfigWhole SetupSuffices
PROPERTIES FirstUserStays
