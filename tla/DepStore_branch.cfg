SPECIFICATION Spec
CONSTANTS
  u1 = u1
  u2 = u2
  n1 = n1
  n2 = n2
  Urls = {u1}
  Names = {n1, n2}
  FileName <- OneName
  Branches = {b1}
  LocalSrcs = {}
  LocalBins = {}
  OwnedSrcs = {}
  OwnedBins = {}
  None = None
PROPERTY BranchIsCheckedOut
