SPECIFICATION FairSpec
CONSTANTS
  s1 = s1
  s2 = s2
  s3 = s3
  s4 = s4
  p = p
  q = q
  e = e
  h1 = h1
  h2 = h2
  h3 = h3
  h4 = h4
  r1 = r1
  r2 = r2
  c1 = c1
  c2 = c2
  Main = Main
  Waiter = Waiter
  NoThread = NoThread
  NoTool = NoTool
  OtherTool = OtherTool
  Names <- MCNames
  ValidNames <- MCValidNames
  ServerTools <- MCServerTools
  HashedName <- MCHashedName
  PlainName <- MCPlainName
  Listings <- ShortListings
  IncludedTools = {}
  ExcludedTools = {}
  LongNames = {}
  NoToolPrefix = FALSE
  OtherNames = {}
  Refreshers <- TwoRefreshers
  Closers <- OneCloser
  ListMayFail = FALSE
  ChangesWhileStarting = FALSE
  MaxChanges = 2
  MaxOthers = 0
PROPERTIES
  Converges
