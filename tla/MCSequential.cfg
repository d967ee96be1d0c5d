CONSTANTS
    BufferSizes = {0, 3}
    MaxContent = 3
    MaxRequest = 3
    MaxBytes = 4
    MaxFailures = 2
    Texts <- SplitTexts
    Delimiters <- SplitDelimiters
    MaxDepth = 2
    MaxTokens = 3
    MaxParses = 2
    Capacities = {1, 2, 3}
    Values = {1, 2, 3}
    Handles = {h1, h2, h3, h4}
    SlotCount = 3
    Keys = {1, 2, 3}
    MappedValues = {1, 2}
    MaxEntries = 3
    Ranks = {1, 2, 3}
    Tags = {1, 2}
    MaxElements = 3
    BufferSize = 4
    Widths = {1, 3}
    MaxFields = 3
    MaxReads = 2
    Size = 6
    MaxAlign = 2
    Bases = {2, 4}
    Alignments = {1, 2, 4}
    ObjectSizes = {1, 2, 4}
    Counts = {1, 2, 5}
    SizeValues = 16
    MaxBlocks = 3
    MaxMarks = 2
    Units = {0, 65, 127, 128, 2047, 2048, 55295, 55296, 56319, 56320, 57343, 57344, 65535}
    MaxItems = 3
    MaxDigits = 3
    Times <- SinkTimes
    TicksPerMillisecond = 2
    MillisecondsPerSecond = 12
    MaxWrites = 3
    MaxTime = 3
    MaxCalls = 5
SPECIFICATION Spec
INVARIANTS WritesKept ReadsExact ParseExact BoundExact EachSlotOnce RoundTrip
INVARIANTS BlocksDisjoint SplitExact FormatExact DecodeExact SinkLines ElapsedExact
PROPERTIES ActsAsSequence SortedContainers
CHECK_DEADLOCK FALSE
