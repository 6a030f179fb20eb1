CONSTANTS
  main = main
  w1 = w1
  w2 = w2
  Threads <- Two
  Loader = main
  Nodes = {1, 2, 3, 4, 5, 6, 7, 8, 9, 10, 11, 12}
  Keys <- RootKeys
  Payloads <- MCPayloads
  KeyAt <- MCKeyAt
  Load <- NearlyFullRoot
  Calls <- RoutedCalls
  MaxCalls = 1
  LeafMax = 2
  InnerMax = 5
  None = None
  Unset = Unset
  Torn = Torn
SPECIFICATION Spec
INVARIANTS
  NoEntryTwice
