SPECIFICATION SuiteSpec
CONSTANTS
  Commands <- CutRangeLines
INVARIANTS CutExcludesRanges
