SPECIFICATION Spec
CONSTANTS
  Configs <- MCConfigs
  Tools = {"git_diff", "read_file"}
  SnapshotTools = {"git_diff"}
  NoName = NoName
  Sizes = {0, 3, 8}
  RoleSize <- MCRoleSize
  MarkerSize = 1
  SummarySizes = {0, 1}
  SystemSize = 4
  TaskSize = 2
  ProjectSizes = {0, 3}
  ProjectMax = 2
  Skills = {1, 2}
  SkillSize <- MCSkillSize
  SkillMax = 4
  Rankings <- MCRankings
  MinCosine = 1
  MaxMessages = 4
INVARIANTS
  NothingLostSilently
  NewestThatFit
  CountsAddUp
CHECK_DEADLOCK FALSE
