SPECIFICATION Spec
CONSTANTS
    Root <- Project
    Hosts <- Nested
    Entries <- Entry
    Imports <- InnerAsks
    Importers <- NoOne
    Dirs <- NoOne
    Unasked <- NoOne
    Loadable <- Loaders
    MaxChanges = 0
INVARIANT ReadsWhatWasResolved
