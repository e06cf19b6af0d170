SPECIFICATION Spec
CONSTANTS
    Root <- Project
    Hosts <- Served
    Entries <- Entry
    Imports <- Asks
    Importers <- FromLib
    Dirs <- InLib
    Unasked <- Strays
    Loadable <- Loaders
    MaxChanges = 1
INVARIANTS TypeOK NothingClimbsOut ReadsWhatWasResolved OneModulePerFile ResolvedLoads EntriesFound EscapeIsReported
