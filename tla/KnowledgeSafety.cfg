SPECIFICATION Spec
CONSTANTS
  yes = yes
  no = no
  Resources = {r1, r2}
  Contents = {yes, no}
  Norm <- MCNorm
  Opposed <- MCOpposed
  Proposals = {p1}
  Rules = {u1}
  Direct = Direct
  MaxVersion = 2
SYMMETRY MCSame
INVARIANTS InertUntilConfirmed NothingBuriedUnseen MarksHaveCause
PROPERTIES DecisionsStand
CHECK_DEADLOCK FALSE
