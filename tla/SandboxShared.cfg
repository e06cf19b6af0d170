SPECIFICATION Spec
CONSTANTS
    i1 = i1
    i2 = i2
    k1 = k1
    b1 = b1
    Absent = Absent
    Host = Host
    Instances <- Both
    Keys <- OneKey
    Bytes <- OneByte
    Imports <- GetAndPut
    Allocates <- One
    MaxDepth = 1
    MaxCalls = 1
CONSTRAINT EngineOpen
PROPERTIES GetsWhatWasPut WhatWasPutIsFound
\* Callers may stop calling, and at MaxCalls they do.
CHECK_DEADLOCK FALSE
