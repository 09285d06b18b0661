\* Two transcription models, two panes: installations from the pane and the menu.
SPECIFICATION FairSpec
CONSTANTS
    small = small
    large = large
    Models <- Two
    Catalog <- InOrder
    Tts = {}
    Default = small
    NoModel = NoModel
    Prefs <- Starts
    MaxActs = 3
INVARIANTS NeverForgets CancelHitsItsAction
PROPERTIES ViewNeverGoesBack EveryClickSettles
CHECK_DEADLOCK FALSE
