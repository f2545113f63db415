SPECIFICATION FairSpec
CONSTANTS
  Products = {p1}
  Configs = {f1}
  Pieces = {x1}
  Texts = {t1, t2}
  MaxVersions = 2
  Commands = {c1, c2}
  MaxFaults = 1
  NoProduct = NoProduct
  NoConfig = NoConfig
  NoPiece = NoPiece
  NoText = NoText
INVARIANTS
  TypeOK
  OneApproved
  MirrorWasApproved
  DraftFileIsItsRow
PROPERTIES
  ContextHistoryIsFinal
  RerunRestoresMirror
