SPECIFICATION Spec
CONSTANTS
  None = None
  s1 = s1
  s2 = s2
  Users = {u1}
  Customers = {c1, c2}
  Subs = {s1, s2}
  Workers = {w1}
  PeriodEnd <- MCPeriodEnd
  MaxEvents = 4
  MaxFaults = 0
PROPERTIES
  RevokedIsNotPaying
