\* The commits of Source Control stay in loading: all, main, all again before
\* the first answer.
SPECIFICATION FairSpec
CONSTANTS
  Pages = {"source-control"}
  Repos = {r1}
  Names = {"main"}
  Default = "main"
  Paths = {}
  PreviewOn = {}
  None = None
PROPERTY SelectedCommitsArrive
\* A page where nothing is under way may be left alone.
CHECK_DEADLOCK FALSE
