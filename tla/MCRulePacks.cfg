SPECIFICATION Spec
CONSTANTS
  f1 = f1
  f2 = f2
  f3 = f3
  f4 = f4
  Files = {f1, f2, f3, f4}
  Content <- MCContent
  DirChoices <- MCDirChoices
  Workers = 3
INVARIANTS
  TypeOK
  ParsesAlone
PROPERTIES
  CacheFrozen
  ImplementsLazyLoad
