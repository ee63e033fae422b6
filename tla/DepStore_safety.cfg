SPECIFICATION Spec
CONSTANTS
  u1 = u1
  u2 = u2
  n1 = n1
  n2 = n2
  Urls = {u1, u2}
  Names = {n1, n2}
  FileName <- OwnNames
  Branches = {}
  LocalSrcs = {ownedSrc, userSrc}
  LocalBins = {userBin}
  OwnedSrcs = {ownedSrc}
  OwnedBins = {}
  None = None
INVARIANTS TypeOK StoreHoldsOwnCode IInv
PROPERTIES InstalledIsRequested InstalledIsWhole UserFilesKept UninstallRemovesAll
SYMMETRY Symmetry
