\* Two runs over documents that change once.
SPECIFICATION GateSpec
CONSTANTS
  Runs = {1, 2}
  Editable <- MCEditable
  Protos = {"good", "bad"}
  Compiles = {"good"}
  Roles <- MCRoles
  Tools = {"node", "grpcio-tools", "pyyaml"}
  MaxChanges = 1
  Nothing = Nothing
INVARIANTS ValidIsTrue FoundIsReal DryRunsDoNotDeadlock
CHECK_DEADLOCK FALSE
