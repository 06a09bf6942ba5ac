SPECIFICATION Spec
CONSTANTS
  c1 = c1
  c2 = c2
  Gateways = {c1, c2}
  Tables = {"users", "channels", "messages"}
  Users = "users"
  MaxFailures = 3
INVARIANTS
  TypeOK
  ServedComplete
PROPERTIES
  
  Recovers
\* The failures may be used up while everything runs.
CHECK_DEADLOCK FALSE
