\* Texts of up to two components in a header, three in the environment: 25w
\* wraps a 12-bit int, 3000 is none.
CONSTANTS
  Wholes = {0, 1, 3, 25, 3000}
  Tenths = {5}
  None = None
  Error = Error
  Word = 4096
  MaxHours = 700
  MaxComponents = 2
  EnvTexts <- Settings
  BuiltIn <- Defaults
SPECIFICATION ConfigSpec
INVARIANT WholeTTLsAreExact
INVARIANT LimitsAsMeant
INVARIANT BootedServes
