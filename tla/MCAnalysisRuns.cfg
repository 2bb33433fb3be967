CONSTANTS
  Runs = {r1, r2}
  archive = archive
  folder = folder
  gone = gone
  Archives <- MCArchives
  Folders <- MCFolders
  Missing <- MCMissing
  Milestones <- MCMilestones
  NoPath = NoPath
  Nothing = Nothing
SPECIFICATION FairSpec
INVARIANTS
  NoResurrectedPanel
  ScreenMatchesLastRun
  NoLeftoverDirs
PROPERTIES
  ProgressNeverGoesBack
  ButtonComesBack
