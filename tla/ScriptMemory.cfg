SPECIFICATION Spec
CONSTANTS
    Base = 2
    SzInt = 2
    MaxLen = 4
    Positions <- MCPositions
    Texts <- MCTexts
    Formats <- MCFormats
    Self = Self
    NoAnswer = NoAnswer
    Fault = Fault
INVARIANTS
    WritesDenoted
    ReadsDenoted
    FillRepeats
    SearchesExact
    PackedUnpacks
    PackResumes
