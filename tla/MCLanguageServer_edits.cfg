SPECIFICATION Spec
CONSTANTS
  Trees = {root, sub}
  Files = {main, subdir, subMain}
  root = root
  sub = sub
  main = main
  subdir = subdir
  subMain = subMain
  TreeOf <- MCTreeOf
  MainFile <- MCMainFile
  Covers <- MCCovers
  Disk <- MCDisk
  NoText = NoText
  Watcher = Watcher
  NumWorkspaces = 1
  RootTrees = {root}
  WorkspaceOf <- MCWorkspaceOf
  Texts = {"clean", "warns", "nosubdir"}
  Faulty = {"warns", "nosubdir"}
  ParseMayThrow = TRUE
  QueryMayThrow = FALSE
  PublishMayThrow = FALSE
  Handlers = {h1, h2}
  MessageKinds = {"change", "close", "inspect", "completion"}
  WrapFilesChange = FALSE
  IgnoreSubprojects = FALSE
  MaxMessages = 3
SYMMETRY HandlerSymmetry
INVARIANTS
  PermitsReturned
  NoStaleDiagnostics
  EditorWinsOverDisk
