SPECIFICATION FairSpec
CONSTANT Jobs = {"update", "cfw", "firmware", "archive"}
CONSTANT Tabs = {"cfw", "firmware"}
CONSTANT MaxJobs = 2
INVARIANT ShellTypeOK
INVARIANT OneInstaller
INVARIANT NoToolUnderInstall
INVARIANT NextProgramAlone
INVARIANT ChainloadIsReady
PROPERTY OutcomesNotShared
PROPERTY ButtonComesBack
