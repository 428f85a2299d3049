SPECIFICATION StoreSpec
CONSTANTS
  Authority = {a1, a2}
  a1 = a1
  a2 = a2
  Leaf = {l1}
  MaxPair = 3
  MaxMaster = 1
  Person = {p1, p2}
  MaxId = 3
  Shape <- MCShape
  Uuid <- MCUuid
  Files <- MCFiles
  MaxCas = 3
  MaxLeaves = 1
  MaxImports = 3
  h1 = h1
  h2 = h2
  HsmWorker = {h1, h2}
  Kinds = {"pkcs11", "azure-keyvault", "google-kms"}
  Vaults = {1, 2}
  Labels = {"a", "b"}
  SigningLabels = {"a"}
  EcLabels = {"a"}
  MaxKeys = 2
  MaxRequests = 5
INVARIANTS StoreTypeOK KeysRecoverable StoredRowsSound LinksSound RestoreRepeats DeviceShown
PROPERTY KeysKept
SYMMETRY StoreSymmetry
CHECK_DEADLOCK FALSE
