SPECIFICATION LoadSpec
CONSTANTS
  n1 = n1
  n2 = n2
  Name <- MCName
  Junk = Junk
  MAX_CERTSET = 0
  MAX_LISTENER = 1
  MAX_SVRPOOL = 0
  MAX_POLICY = 1
  MaxServer = 1
  MaxRef = 2
  Number <- Numbers
  MayNotAlloc = FALSE
SYMMETRY Symmetry
INVARIANTS DocAccepted AllFreed NiceIsNumber Pkcs12Type
