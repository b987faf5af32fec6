CONSTANTS
    None = None
    Garbage = Garbage
    Inputs <- Tried
    MaxDepartures = 2
SPECIFICATION Spec
INVARIANTS SettingsTypeOK OnlyLoadRefuses MissingReportedTogether UnsettingIsSafe
PROPERTY RepairsHelp
