SPECIFICATION Spec
CONSTANTS
  Char <- MCChar
  Kinds <- MCKinds
  Dynamic <- MCDynamic
  ClusterScoped <- MCClusterScoped
  Nss <- MCNss
  ObjectNames <- MCObjectNames
  Settings <- MCSettings
  StaticFiles <- MCStaticFiles
  MaxRaw = 3
INVARIANTS TypeOK LookupFindsWatcher WatchedAsListed
