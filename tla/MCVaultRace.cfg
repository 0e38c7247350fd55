CONSTANTS
    i1 = i1
    i2 = i2
    small = small
    large = large
    c1 = c1
    c2 = c2
    Ids <- MCIds
    Contents <- MCContents
    Clients <- MCClients
    Size <- MCSize
    Swollen <- MCSwollen
    Empty = Empty
    Unreadable = Unreadable
    MaxBackup = 10
    MaxRotations = 1
SPECIFICATION VaultSpec
SYMMETRY Symmetry
INVARIANT AllReadable
