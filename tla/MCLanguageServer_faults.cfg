SPECIFICATION Spec
CONSTANTS
  Trees = {root, sub}
  Files = {main, subdir, subMain}
  root = root
  sub = sub
  main = main
  subdir = subdir
  subMain = subMain
  TreeOf <- MCTreeOf
  MainFile <- MCMainFile
  Covers <- MCCovers
  Disk <- MCDisk
  NoText = NoText
  Watcher = Watcher
  NumWorkspaces = 1
  RootTrees = {root}
  WorkspaceOf <- MCWorkspaceOf
  Texts = {"warns", "nosubdir"}
  Faulty = {"warns"}
  ParseMayThrow = TRUE
  QueryMayThrow = TRUE
  PublishMayThrow = TRUE
  Handlers = {h1, h2}
  MessageKinds = {"change", "foreign", "close", "completion", "format", "config", "initialized", "shutdown"}
  WrapFilesChange = TRUE
  IgnoreSubprojects = TRUE
  MaxMessages = 2
SYMMETRY HandlerSymmetry
INVARIANTS
  TypeOK
  QueriesExcludeUpdates
  HoldersHavePermits
  UpdateAssertion
  AnswersSeeAcceptedEdits
PROPERTIES
  TreesChangeUnderLock
  ImplementsService
  OnlyFaultsLosePermits
CHECK_DEADLOCK FALSE
