SPECIFICATION Spec
CONSTANTS
  a = a
  b = b
  s1 = s1
  s2 = s2
  Source = {a, b}
  MaxVersion = 1
  Configs <- Choices
  Sync = {s1, s2}
SYMMETRY Requests
INVARIANTS KnowledgeTypeOK OnlyEnabledSources GuardSeesStoredConfig ShownIsCurrent
PROPERTIES LastGoodCopyKept
