SPECIFICATION Spec
CONSTANTS
  Names <- MCNames
  Stems <- MCStems
  Nulls <- MCNulls
  NullValues <- MCNullValues
  Empty = ""
  NumberOf <- MCNumberOf
  Words <- MCWords
  Heading = "heading"
  Datum = "5"
  SkipLines = 0
  Header = 1
  Inputs <- QueryInputs
INVARIANTS QueriedOnce
