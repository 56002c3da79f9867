CONSTANTS
  c1 = c1
  c2 = c2
  c3 = c3
  s1 = s1
  Calls = {c1, c2, c3}
  Shells = {s1, s2, s3}
  None = None
  Names <- MCNames
  Dirs <- MCDirs
  FirstFiles <- MCFirstFiles
  Cwd <- MCCwd
  AgentRoots <- MCRoots
  GlobalRoots <- MCRoots
  MaxShells = 1
  MaxConcurrent = 2
  Plans <- MCShellPlans
SPECIFICATION Spec
INVARIANT ShellLimit
CHECK_DEADLOCK FALSE
