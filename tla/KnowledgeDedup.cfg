SPECIFICATION Spec
CONSTANTS
  yes = yes
  no = no
  Resources = {r1, r2}
  Contents = {yes}
  Norm <- MCNorm
  Opposed = {}
  Proposals = {}
  Rules = {}
  Direct = Direct
  MaxVersion = 1
PROPERTIES KeepsOneVisible
CHECK_DEADLOCK FALSE
