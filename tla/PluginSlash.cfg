SPECIFICATION Spec
CONSTANTS
    Root <- Slash
    Hosts <- Served
    Entries <- Entry
    Imports <- Asks
    Importers <- NoOne
    Dirs <- NoOne
    Unasked <- NoOne
    Loadable <- Loaders
    MaxChanges = 0
INVARIANT EntriesFound
