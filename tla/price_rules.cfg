CONSTANTS
    MaxTime = 3
    Texts <- Products
    Bases <- TwoBases
    Conditions <- Entered
    Multipliers = {2}
    Presets <- NightPreset
    MaxGroups = 2
    MaxConditions = 2
    MaxEdits = 3
SPECIFICATION Spec
VIEW View
INVARIANTS UneditedKept SavedAsShown CardsStayOpen
