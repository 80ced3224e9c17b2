\* The bounded updates, rows and keys come to an end.
CHECK_DEADLOCK FALSE
SPECIFICATION HostSpec
CONSTANTS
    Agents = {a1, a2}
    Subnets <- SomeSubnets
    AddressSpace = 16
    MaxRows = 5
    MaxKeys = 5
    MaxFaults = 2
    None = None
    Torn = Torn
    Updates = {u1, u2, u3}
    MaxCrashes = 2
INVARIANTS RegistrationTypeOK AddressesDistinct AddressesInSubnet PublishedKeyIsOwn
PROPERTIES OthersRun BinaryStarts ExitsUpdated
