\* Documents of up to five lines in three formats, chunks of six characters.
SPECIFICATION ChunkingSpec
CONSTANTS
  Lines <- MCLines
  Formats <- MCFormats
  MaxLines = 5
  MaxChars = 6
INVARIANTS NothingLost CutOnlyWhenLong PlaceCited
CHECK_DEADLOCK FALSE
