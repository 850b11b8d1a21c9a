\* Every sequential program, one to a behaviour: up to four pieces of a path,
\* four tokens of a template, four pieces of text, texts of 0 to 130 bytes.
CONSTANTS
  Entries = 4
  Depths = 3
  Capacity = 3
  Iter = 2
  Runs = 2
  Total = 2
  MaxCpu = 3
  PathPiece <- PathPieces
  PathMost = 4
  Texts <- TemplateTexts
  Names <- TemplateNames
  File <- IncludedFile
  TokenMost = 4
  TextPieces <- Bytes
  TextMost = 4
  DigestLength = 130
  Sizes <- PayloadSizes
  Behind <- BytesBehind
SPECIFICATION Spec
CHECK_DEADLOCK FALSE
INVARIANTS Walked Hashed Metered Named Compiled Agrees
PROPERTY Ends
