SPECIFICATION Spec
CONSTANTS
    Book <- Site
    Rows = {1, 2}
    MaxMoves = 2
    MaxLoads = 2
    MaxTurns = 1
    None = None
    Refused = Refused
INVARIANTS PagesTypeOK  ReadYourWrites ShowsWhatIsAsked ActsOnWhatIsShown
PROPERTY PageSettles
