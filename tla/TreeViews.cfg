SPECIFICATION Spec
CONSTANTS
    Hosts <- AllHosts
    Asked <- AllAsked
    Sizes <- AllSizes
    Rank <- Ranks
    Config <- Conf
    Entry = {}
    Synthetic = "synthetic"
    NoBytes = "none"
    Unreadable = "fails"
    MaxChanges = 1
INVARIANTS TypeOK NothingLeaves SaysWhatIsThere PagesAreTheListing
