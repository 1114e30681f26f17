SPECIFICATION Spec
CONSTANTS
  n1 = n1
  n2 = n2
  Names <- MCNames
  AssetsOf <- MCAssetsOf
  MaxReleases = 2
  MaxVersions = 2
  MaxFaults = 1
  None = None
  Partial = Partial
INVARIANT OwnAssets
PROPERTY HostConverges
