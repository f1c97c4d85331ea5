CONSTANTS
  Calls <- MCCalls
  Files <- MCFiles
  Dirs <- MCDirs
  Links <- MCLinks
  Home <- MCHome
  DaemonCwd <- MCDaemonCwd
  PaneCwd <- MCPaneCwd
  Arm64 = TRUE
  Config <- MCConfig
  LocalImages <- MCLocalImages
  RemoteImages <- MCRemoteImages
  MaxChanges = 2
SPECIFICATION Spec
INVARIANTS
  CoverIsLongest
  AutoMountIsWhole
  WorkdirIsCwd
  PathEnvsReadable
  RootIsAllowed
  RuntimeKnowsItself
