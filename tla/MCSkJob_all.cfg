SPECIFICATION Spec
CONSTANTS
  Jobs = {j1, j2}
  Crons = {cron}
  Apis = {a1}
  Workers = {w}
  Bios = {b}
  Master = m
  BadBio = badbio
  MaxFires = 2
  Repeating = {j1}
  None = none
INVARIANTS
  IInv
  ApiWaitsForJobs
PROPERTIES
  JobEnds
