SPECIFICATION Spec
CONSTANTS
  m1 = m1
  m2 = m2
  m3 = m3
  m4 = m4
  Manifests = {m1, m2, m3, m4}
  Content <- MCContent
  WorkerChoices = {1, 3}
INVARIANTS
  TypeOK
  ExactOrLess
  CacheSettled
