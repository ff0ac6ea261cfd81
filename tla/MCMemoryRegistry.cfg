SPECIFICATION Spec
CONSTANTS
  Servers = {v1}
  Seeders = {s1, s2}
  Seeds = {app001}
  Added = {app1}
  None = None
  PageSize = 1
  MaxCalls = 1
  MaxEvents = 3
  MaxLate = 1
SYMMETRY Symmetry
INVARIANT TypeOK
PROPERTY ImplementsRegistry SeedRunComplete ResetClears
CHECK_DEADLOCK FALSE
