SPECIFICATION FairSpec
CONSTANTS
    i1 = i1
    i2 = i2
    k1 = k1
    b1 = b1
    Absent = Absent
    Host = Host
    Instances <- One
    Keys <- OneKey
    Bytes <- NoBytes
    Imports <- ListAndPut
    Allocates <- One
    MaxDepth = 2
    MaxCalls = 3
INVARIANTS StoreInv BrokenContractIsTold
PROPERTIES StoppedIsTold CallReturns WhatWasPutIsFound
\* Callers may stop calling, and at MaxCalls they do.
CHECK_DEADLOCK FALSE
