SPECIFICATION SkillsSpec

CONSTANTS
  parent = parent
  sub = sub
  p1 = p1
  p2 = p2
  s1 = s1
  SkillIds = {"subagents", "rust"}
  BuiltIn <- MCBuiltIn
  Texts <- MCTexts
  NoFile = NoFile
  Enabled = {"subagents", "rust"}
  Parent = parent
  Subagents = {sub}
  TemplateSkills = {"subagents"}
  Profile = {"grep", "load_skill", "read_file"}
  RegistryTools = {"bash", "grep", "load_skill", "read_file"}
  LoadCalls = {p1, p2, s1}
  CallerOf <- MCCallerOf

INVARIANT OfferedSkillReachesItsAgent
