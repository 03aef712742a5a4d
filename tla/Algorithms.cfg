SPECIFICATION Spec
CHECK_DEADLOCK FALSE
CONSTANTS
    HeadBytes = 5
    MaxChars = 4
    Keys = {"k1", "k2"}
    NoKey = "no key"
    SampleLines <- MCLines
    MaxLines = 4
    Edits <- MCEdits
    LayerNumbers = {1, 2, 10}
    SampleItems <- MCItems
    MaxItems = 2
    MaxCards = 3
INVARIANTS
    DetectionRouted
    EditReadsBack
    ReportShown
