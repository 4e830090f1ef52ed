SPECIFICATION Spec
CONSTANTS
    Writers = {w1, w2}
    Devices = {d1}
    Props = {p1}
    Values = {v1, v2}
    Unset = Unset
    NoDoc = NoDoc
    Driver = "memory"
    MaxVersion = 2
SYMMETRY WriterSymmetry
PROPERTY ReportsKeepDesired
