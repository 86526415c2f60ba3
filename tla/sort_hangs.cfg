SPECIFICATION SuiteSpec
CONSTANTS
  Commands <- SortNumbersLines
PROPERTIES SortWaitEnds
CHECK_DEADLOCK FALSE
