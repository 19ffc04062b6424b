\* Two GUI threads and a command line over one settings.json.
SPECIFICATION Spec
CONSTANTS
    Gui = {g1, g2}
    Cli = {c1}
    NoFile = NoFile
    Torn = Torn
    Open = Open
    MaxAnswers = 2
SYMMETRY GuiSymmetry
INVARIANTS
    SettingsTypeOK
    TornNeedsTwoSavers
    
