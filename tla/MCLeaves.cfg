SPECIFICATION LeavesSpec

CONSTANTS
  None = None
  CallIds = {"a1", "a2", "a3", "b1", "b2", "b3", "x", "y"}
  Histories <- MCHistories
  Responses <- MCResponses
  Budget <- MCBudget
  MarkerChars = 1
  CallChars = 1
  parent = parent
  sub = sub
  p1 = p1
  p2 = p2
  s1 = s1
  SkillIds = {"subagents", "rust"}
  BuiltIn <- MCBuiltIn
  Texts <- MCTexts
  NoFile = NoFile
  Enabled = {"subagents", "rust"}
  Parent = parent
  Subagents = {sub}
  TemplateSkills = {"subagents"}
  Profile = {"grep", "load_skill", "read_file"}
  RegistryTools = {"bash", "grep", "load_skill", "read_file"}
  LoadCalls = {p1, p2, s1}
  CallerOf <- MCCallerOf
  Paths <- MCPaths
  Words = {"a", "b"}
  Files <- MCFiles
  Missing = Missing
  OldTexts <- MCOldTexts
  NewTexts <- MCNewTexts
  LineCounts = {1, 3}
  MaxLineCount = 2
  MaxOutput = 1
  MaxLine = 5
  Senders = {"t1", "t2"}
  Lifetimes = {1, 3}
  SafetyMargin = 2
  FetchTime = 1
  SendTime = 1
  MaxClock = 6

INVARIANTS
  TypesOK
  AnswersFollowCalls
  OverBudgetOnlyWhenProtected
  StreamIsResponse
  CutCallsDoNotRun
  CachedTokenIsValid
  LoadedIsGivenOnce
  HiddenBodyOnlyInARace
  EditsOneBlock
  ShownTextIsEditable
  PagesCoverFile

CHECK_DEADLOCK FALSE
