SPECIFICATION FairIndexSpec
CONSTANTS
  h1 = h1
  yes = yes
  no = no
  Resources = {r1}
  Contents = {yes, no}
  Norm <- MCNorm
  Opposed = {}
  Proposals = {p1}
  Rules = {}
  Direct = Direct
  MaxVersion = 2
  Hosts = {h1}
  Threads = {t1, t2}
  HostOf <- MCHostOf
  Faults = TRUE
INVARIANTS SettledIndexIsExact
PROPERTIES SearchesKeepUp EventuallyIndexed
CHECK_DEADLOCK FALSE
