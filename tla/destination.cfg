\* Others move and link what they like between commands.
SPECIFICATION Spec
CONSTANTS
  Nodes <- SmallNodes
  Present <- AtFirst
  ClaudeHome <- Home
  Projects <- WorkingDirs
  MdNames <- Md
  RuleParts <- PlainNames
  RuleNames <- PlainNames
  SkillNames <- DirNames
  None = None
  Links <- NewLinks
  Deletable <- GoneDirs
  MaxChanges = 2
  MaxLinks = 3
  RaceLinks = FALSE
INVARIANT TypeOK
INVARIANT HeldIsAllowed
INVARIANT ResolveIdempotent
INVARIANT ListedAccepted
PROPERTY LandsWhereChecked
\* Changes are bounded, and an applied change that was rolled back ends it.
CHECK_DEADLOCK FALSE
