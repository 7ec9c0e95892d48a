CONSTANTS
    MaxTime = 3
    Texts <- Mixed
    Bases <- TwoBases
    Conditions <- Entered
    Multipliers = {2}
    Presets <- NightPreset
    MaxGroups = 2
    MaxConditions = 2
    MaxEdits = 3
SPECIFICATION Spec
INVARIANT UneditedKept
