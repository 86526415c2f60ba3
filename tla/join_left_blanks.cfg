SPECIFICATION Spec
CONSTANTS
  Names <- MCNames
  Nulls <- MCNulls
  Empty = ""
  NumberOf <- MCNumberOf
  Words <- MCWords
  Heading = "heading"
  Datum = "5"
  SkipLines = 1
  Header = 1
  Inputs <- BlanksInputs
INVARIANTS PrintAssertion
