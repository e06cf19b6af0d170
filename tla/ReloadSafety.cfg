SPECIFICATION FairSpec
CONSTANTS
    old = old
    both = both
    pack = pack
    gone = gone
    c1 = c1
    c2 = c2
    Nobody = Nobody
    Values <- Tools
    Tokens <- OneName
    NameOf <- Names
    Checks <- CheckTools
    Bundles <- PackTools
    Nils <- NilTools
    Engines <- LiveChecks
    Calls <- TwoCalls
INVARIANTS TypeOK RolesAgree NamesApart WholeWhileOpen CancellationTold
PROPERTIES NeverReplaced CancelledCallReturns
