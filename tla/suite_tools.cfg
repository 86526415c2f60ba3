SPECIFICATION SuiteSpec
CONSTANTS
  Commands <- SuiteLines
INVARIANTS CleanNothingLost CleanBlames CleanFiles StackUnion CutTable CutColumns GrepSelects BlanksKnown TypesFit SortedRows PartsApart JsonWellFormed JsonRowsComplete JsonKeysUnique JsonBox LookAligned LookShown NdjsonTable StatTrue StatTable
PROPERTIES Ends
