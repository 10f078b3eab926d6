CONSTANTS
  a = a
  b = b
  Docs = {a, b}
  Cases <- MCCases
  Names <- MCNames
  Simple <- MCSimple
  Org <- MCOrg
  Part <- MCPart
  Blacklist = {"ai"}
  GenericTypes = {"document"}
  PersonField = "person"
SPECIFICATION ClassifySpec
INVARIANTS TaxonomyIsSound DocumentsAreServed
PROPERTIES QueueDrains
CHECK_DEADLOCK FALSE
