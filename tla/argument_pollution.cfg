CONSTANTS
    Names <- AllNames
    Short <- OneCharacter
    Paste <- Joining
    Place <- Placing
    Locations <- AllLocations
    Units <- AllUnits
    MacroFiles <- AllMacroFiles
    Programs <- AllPrograms
SPECIFICATION FairSpec
INVARIANT ArgumentsOfTheLine
