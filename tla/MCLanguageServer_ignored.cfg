SPECIFICATION Spec
CONSTANTS
  Trees = {root, sub}
  Files = {main, subdir, subMain}
  root = root
  sub = sub
  main = main
  subdir = subdir
  subMain = subMain
  TreeOf <- MCTreeOf
  MainFile <- MCMainFile
  Covers <- MCCovers
  Disk <- MCDisk
  NoText = NoText
  Watcher = Watcher
  NumWorkspaces = 1
  RootTrees = {root}
  WorkspaceOf <- MCWorkspaceOf
  Texts = {"clean", "warns"}
  Faulty = {"warns"}
  ParseMayThrow = FALSE
  QueryMayThrow = FALSE
  PublishMayThrow = FALSE
  Handlers = {h1}
  MessageKinds = {"change", "initialized"}
  WrapFilesChange = FALSE
  IgnoreSubprojects = TRUE
  MaxMessages = 2
INVARIANTS
  IgnoredSubprojectsHidden
