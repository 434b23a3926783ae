\* The last range, of two chunks, is shorter than the number of reports: with
\* the constants of the source it has 45 chunks for 100 reports.
CONSTANTS
  w1 = w1
  w2 = w2
  Workers = {w1, w2}
  TotChunks = 5
  NSep = 2
  NPerms = 1
  Percent = 3

SPECIFICATION Spec

PROPERTY ReachesAssertion
