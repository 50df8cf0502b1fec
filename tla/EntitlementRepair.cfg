SPECIFICATION FairSpec
CONSTANTS
  None = None
  s1 = s1
  s2 = s2
  Users = {u1}
  Customers = {c1}
  Subs = {s1, s2}
  Workers = {w1}
  PeriodEnd <- MCPeriodEnd
  MaxEvents = 5
  MaxFaults = 1
INVARIANTS
  RecordedCheckoutIsBound
PROPERTIES
  EntitlementConverges
