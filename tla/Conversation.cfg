SPECIFICATION Spec
CONSTANTS
  MaxMessages = 2
  MaxChars = 3
  MaxStored = 2
  MaxNumbers = 4
  MaxTroubles = 1
INVARIANTS TypeOK StoredFits SettledIsStored
PROPERTY Unlocked
