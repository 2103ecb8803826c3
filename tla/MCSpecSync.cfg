SPECIFICATION FairSpec
CONSTANTS
  root = root
  a = a
  b = b
  gone = gone
  Names = {root, a, b, gone}
  Roots <- RootNames
  Strict = {root}
  Catalogue <- Documents
  Shipped <- FirstDocuments
  MaxVersion = 3
  Partial = Partial
INVARIANTS ClosureIsExact SchemasAreSelfContained PinsVouch
PROPERTY RunsEnd
