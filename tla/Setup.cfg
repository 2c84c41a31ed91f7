SPECIFICATION FairSpec
CONSTANTS
    Consoles = {c1, c2}
    Shipped = shipped
    None = none
    Blank = blank
    MaxFaults = 2
INVARIANT FilesAgree
PROPERTIES PairingRepairs RerunStreams
