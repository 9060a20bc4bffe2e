SPECIFICATION Spec
CONSTANTS
  Configs <- Campaigns
  CommandLines <- Lines
  Commands <- ToRun
INVARIANTS
  DirectoryHonest
  CompletedExactly
  BudgetKept
  PassMeansDone
PROPERTY LaunchEnds
