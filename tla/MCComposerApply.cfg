CONSTANTS
  skill = skill
  rule = rule
  agents = agents
  s1 = s1
  s2 = s2
  r1 = r1
  g1 = g1
  Absent = Absent
  User = User
  Torn = Torn
  Section = {agents}
  Artifact = {skill, rule, agents}
  Rank <- MCRank
  Version = {1, 2, 3}
  Desired <- MCDesired
  MaxEdits = 1
  MaxFaults = 2
  file = file
  cache = cache
  module = module
  source = source
  x = x
  y = y
  z = z
  Nothing = Nothing
  File = {file, cache}
  Module = {module}
  Root = {source}
  RootOf <- MCRootOf
  Ignored = {cache}
  Bytes = {x, y, z}
  MaxCommits = 2
  MaxTouches = 2
SYMMETRY Symmetry
SPECIFICATION MCSpec
INVARIANTS GeneratedIsAccounted PassedSourceWasThere
PROPERTIES UserContentKept RollbackRestores KilledApplyCanRerun
