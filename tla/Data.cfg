SPECIFICATION DataSpec
CONSTANTS
    Base = 8
    Width = 2
    Far = 1000000
    Root <- Project
    Loadable <- Sources
    Bound = 3
    Lines <- Quoted
    Reports <- Printouts
    Flag <- AFlag
    Responses <- Answers
    Octets <- Pairs
    Writes <- Chunks
    Modules <- Binaries
INVARIANTS WireAgrees ProbeFinds ToldAsItWas
