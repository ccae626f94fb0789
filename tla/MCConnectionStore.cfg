SPECIFICATION Spec
CONSTANTS
  Editor = {e1}
  Id = {i1, i2, i3}
  k1 = k1
  k2 = k2
  Key = {k1, k2}
  Auth <- AuthTypes
  Drafts <- AnyDraft
  Manifests <- TwoManifests
  AuthMayChange = FALSE
SYMMETRY Symmetry
INVARIANTS
  ListedAuthenticates
PROPERTIES
  EngineFindsCredentials
  ImportNeverDuplicates
