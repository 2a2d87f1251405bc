SPECIFICATION Spec
CONSTANTS
    Letters = 26
    PageFormats = {"numeric", "alphanumeric"}
    MaxDigits = 2
    MaxNumber = 60
INVARIANT WrittenApart
PROPERTY SavesWhatIsShown
