\* Two logins, a logout and two commands that may overlap, with a failed call
\* and a kill.
CONSTANTS
  l1 = l1
  l2 = l2
  o1 = o1
  c1 = c1
  c2 = c2
  c3 = c3
  Absent = Absent
  Empty = Empty
  Garbled = Garbled
  NoToken = NoToken
  Nothing = Nothing
  Rotates = TRUE
  Logins = {l1, l2}
  Logouts = {o1}
  Uses = {c1, c2}
  Misissued = {}
  Roleless = {l2}
  Life = 2
  MaxLag = 0
  Grace = 1
  Fallback = 3
  MaxNow = 2
  MaxFaults = 1
  MaxKills = 1
SPECIFICATION SessionSpec
SYMMETRY Symmetry
INVARIANT AuthTypeOK
INVARIANT TurnsKeepLogin
INVARIANT FileStaysUsable
PROPERTY FreshIsAccepted
