SPECIFICATION Spec
CONSTANTS
  Principals = {owner, guest}
  owner = owner
  NoOne = NoOne
  Gateways = {g1}
  Windows = {}
  User <- MCUser
  Row = Row
  look = look
  edit = edit
  publish = publish
  plugin = plugin
  banned = banned
  Tools = {edit}
  NoTool = NoTool
  ReadOnlyTools = {}
  ApprovalTools = {edit}
  Trusted = {edit}
  Denied = {}
  DeclaredRisk <- MCDeclaredRisk
  RiskFloor <- MCRiskFloor
  FullTtl = 1
  ReadOnlyTtl = 2
  BusyTimeout = 1
  MaxTime = 3
  Faults = FALSE
PROPERTIES OnlyUsersRelax
\* the deleted conversation leaves nothing to do
CHECK_DEADLOCK FALSE
