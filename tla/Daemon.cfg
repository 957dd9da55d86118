SPECIFICATION FairSpec
CONSTANTS
  Instances = {i1, i2}
  Shells = {s1}
  NoInstance = NoInstance
  MaxKills = 1
  MaxReleases = 2
INVARIANTS TypeOK OneGateway FileFindsGateway UpgradeSparesGateway BinaryWhole ReportsWhatIsInstalled
PROPERTIES EndIsFinal SignalEnds
CONSTRAINT Orderly
