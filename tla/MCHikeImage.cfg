CONSTANTS
  ea = ea
  eb = eb
  Null = null
  Elements = {ea, eb}
  Writers = {"block", "graph", "mapped"}
  Blocks <- SmallBlocks
  Graphs <- SmallGraphs
  Fields <- MappedFields
  Slices = {"list"}
  Numbers = {1}
  Texts <- TwoTexts
  Schemas = {1, 2}
  Leftovers <- StackBuffers
  Garbage = 20
  Junk = junk
  Base = 100
  MaxFailures = 1
SPECIFICATION Spec
INVARIANTS TypeOK ReadableIsWritten
PROPERTIES RoundTrip NeverMixed
CHECK_DEADLOCK FALSE
