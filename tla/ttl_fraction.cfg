\* A fraction of a day.
CONSTANTS
  Wholes = {0, 1, 3, 25, 3000}
  Tenths = {5}
  None = None
  Error = Error
  Word = 4096
  MaxHours = 700
  MaxComponents = 1
SPECIFICATION Spec
INVARIANT FractionsAreExact
