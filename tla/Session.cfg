SPECIFICATION FairSpec
CONSTANTS
  look = look
  edit = edit
  ghost = ghost
  Tools = {look, edit, ghost}
  Known = {look, edit}
  Writers = {edit}
  Chatty = {look}
  MaxCalls = 2
  MaxTurns = 2
  Faults = TRUE
INVARIANTS RunsAreAnnounced WritersRunAlone NothingRunsOn EndedTurnsAreWhole
PROPERTIES RunEnds
\* the run ends
CHECK_DEADLOCK FALSE
