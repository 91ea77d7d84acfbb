CONSTANTS
  o1 = o1
  r1 = r1
  r2 = r2
  Workspaces = {wa, wb}
  Home = wa
  None = None
  Screens <- MCScreens
  Resource = {"orders", "workflow-runs", "integrations"}
  Items <- MCItems
  Jobs = {j1}
  BatchSize = 1
  MaxItems = 2
  MaxWrites <- MCMaxWrites
  MaxOthers <- MCMaxOthers
  MaxMoves <- MCMaxMoves
SPECIFICATION Spec
INVARIANTS
  TypeOK
  OwnWorkspace
  OwnWritesShown
  AllTickedAreWritten
  FeedIsNewestFirst
PROPERTY
  ShellSettles
