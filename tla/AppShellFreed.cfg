SPECIFICATION Spec
CONSTANT Jobs = {"update", "cfw", "firmware", "archive"}
CONSTANT Tabs = {"cfw", "firmware"}
CONSTANT MaxJobs = 1
INVARIANT FreedOnlyWhenPopped
