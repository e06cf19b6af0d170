SPECIFICATION Spec
CONSTANTS
    good = good
    evil = evil
    wide = wide
    torn = torn
    lower = lower
    upper = upper
    NoSum = NoSum
    Nothing = Nothing
    Contents <- AllContents
    Torn = torn
    Configs <- AllConfigs
    Sums <- AllSums
    Fold <- Folded
    Wide <- WideOnes
    Wants <- AllWants
    DefaultMemory = 3
    DefaultPages = 16
    PagesPerMiB = 16
    MaxPages = 64
    Word = 256
INVARIANTS TypeOK NothingLeftOpen RunsAsDeclared
