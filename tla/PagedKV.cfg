CONSTANTS
    v1 = v1
    v2 = v2
    MaxBlocks = 3
    BlockSize = 2
    MaxId = 2
    MaxTokens = 3
    MaxUpdate = 2
    Layers <- MCLayers
    Values <- MCValues
    Zero = Zero
    Absent = Absent
SPECIFICATION PagedSpec
SYMMETRY MCSymmetry
CONSTRAINT MCFewEntries
INVARIANTS
    PagedInv
    BlocksAccounted
    ReadsOwnWrites
