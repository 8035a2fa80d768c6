SPECIFICATION Spec
CONSTANTS
  zlib = zlib
  glib = glib
  Names <- MCNames
  Normalized <- MCNormalized
  Texts <- MCTexts
  NoUrl = NoUrl
  NoWrap = NoWrap
  MaxEdits = 2
  MaxStarts = 2
SYMMETRY Symmetry
INVARIANTS
  TypeOK
  CachedIsCurrent
  TreesStayWhole
