\* The update of the passing run, installed once.
CONSTANTS
  root = root
  dir = dir
  subdir = subdir
  file = file
  deepfile = deepfile
  link = link
  Root = root
  Dirs = {dir, subdir}
  Files = {file, deepfile}
  Links = {link}
  Parent <- MCParent
  MaxRuns = 3
SPECIFICATION Spec
CHECK_DEADLOCK FALSE
INVARIANT InstallsAgain
