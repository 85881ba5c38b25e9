CONSTANTS
  None = None
  Pubs <- MCPubs
  Hub <- MCHub
  Other <- MCOther
  MaxEvents = 3
SPECIFICATION Spec
INVARIANTS DoneIsFound VenvNoLaxer
PROPERTY BundleComesFirst
