SPECIFICATION Spec
CONSTANTS
  Kinds = {"cargo", "regenerate", "pypa", "other"}
  HandUris = {"base", "computed", "hand"}
  MaxHeads = 4
INVARIANTS
  LandsOnlyAfterCi
  RegeneratedUriWaits
  BotsMoveNoUri
PROPERTIES
  LoopEnds
  GoodBumpLands
\* The pull request is merged, or waits for a person.
CHECK_DEADLOCK FALSE
