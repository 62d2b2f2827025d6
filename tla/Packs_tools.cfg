SPECIFICATION PacksSpec
CONSTANTS
  old = old
  new = new
  other = other
  r = r
  w = w
  d = d
  x = x
  u = u
  v = v
  all = all
  writes = writes
  a = a
  NL = NL
  NoTool = NoTool
  NoPolicy = NoPolicy
  Names <- MCNames
  ValidNames <- MCNames
  Packs <- MCPacks
  PackTools <- MCPackTools
  Callers <- MCCallers
  Policies <- MCPolicies
  Refuses <- MCRefuses
  FileCallers <- MCFileCallers
  Texts <- MCTexts
  Writes <- MCWrites
  Edits <- MCEdits
  Limits = {2}
  MaxReadBytes = 3
  Nodes <- MCNodes
  MaxLines = 3
  MaxFiles = 2
  MatchLimits = {0, 1, 2}
  Items <- MCItems
  Numbers <- MCNumbers
  MaxShellTimeout = 3
  Millisecond = 4
  Int64Limit = 32
  IDs = {"i", "j"}
  Asked <- MCAsked
  OptionLists <- MCOptionLists
  LevelLists <- MCLevelLists
  KeyNumber <- MCKeyNumber
  NotANumber = 99
  Replies <- MCReplies
  Adders = {"one", "two"}
  Folders = {"f", "g"}
  SkillNames = {"s", "t"}
  Documents <- MCDocuments
  Paths = {"p"}
  MaxEdits = 1
SYMMETRY Symmetry
CHECK_DEADLOCK FALSE
INVARIANTS
  PagesJoin
  MarkIsHonest
  
  AnswersAsked
  SkillsStay
PROPERTIES
  SecondCloseHarmless
