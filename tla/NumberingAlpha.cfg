SPECIFICATION Spec
CONSTANTS
    Letters = 26
    PageFormats = {"alpha"}
    MaxDigits = 4
    MaxNumber = 30
PROPERTY SavesWhatIsShown
