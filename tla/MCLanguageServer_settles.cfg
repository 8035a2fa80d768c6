SPECIFICATION FairSpec
CONSTANTS
  Trees = {root, sub}
  Files = {main, subMain}
  root = root
  sub = sub
  main = main
  subdir = subdir
  subMain = subMain
  TreeOf <- MCTreeOf
  MainFile <- MCMainFile
  Covers <- MCCovers
  Disk <- MCDisk
  NoText = NoText
  Watcher = Watcher
  NumWorkspaces = 2
  RootTrees = {root, sub}
  WorkspaceOf <- MCTwoWorkspaceOf
  Texts = {"clean", "warns"}
  Faulty = {"warns"}
  ParseMayThrow = FALSE
  QueryMayThrow = FALSE
  PublishMayThrow = FALSE
  Handlers = {h1, h2}
  MessageKinds = {"change", "completion"}
  WrapFilesChange = FALSE
  IgnoreSubprojects = FALSE
  MaxMessages = 3
INVARIANTS
  CachedContentsAnalysed
  DiagnosticsCurrent
PROPERTIES
  EditsReachClient
  ServerSettles
