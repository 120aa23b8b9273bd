SPECIFICATION Spec
CONSTANTS
  Principals = {owner, guest}
  owner = owner
  NoOne = NoOne
  Gateways = {g1}
  Windows = {w1}
  User <- MCUser
  Row = Row
  look = look
  edit = edit
  publish = publish
  plugin = plugin
  banned = banned
  Tools = {look, edit, publish, plugin, banned}
  NoTool = NoTool
  ReadOnlyTools = {look}
  ApprovalTools = {edit, publish}
  Trusted = {look, edit, publish, banned}
  Denied = {banned}
  DeclaredRisk <- MCDeclaredRisk
  RiskFloor <- MCRiskFloor
  FullTtl = 1
  ReadOnlyTtl = 2
  BusyTimeout = 1
  MaxTime = 2
  Faults = TRUE
CONSTRAINT HostsApart
INVARIANTS TypeOK ModeInv UnattendedWasChosen
PROPERTIES FullAccessIsChosen
\* the deleted conversation leaves nothing to do
CHECK_DEADLOCK FALSE
