CONSTANTS People = {1, 2} Levels = {"read"} MaxCalls = 2 MaxOthers = 0 MaxLinks = 2
SPECIFICATION Spec
PROPERTY RuleKept
CHECK_DEADLOCK FALSE
