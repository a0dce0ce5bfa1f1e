SPECIFICATION Spec
CONSTANTS
    n1 = n1
    n2 = n2
    n3 = n3
    n4 = n4
    n5 = n5
    n6 = n6
    n7 = n7
    None = None
    Member = {n1, n2, n3, n4, n5, n6, n7}
    First = {n1, n2}
    VirtualNode = {1, 2}
    Position <- Sixteen
    HashOf <- HashOfNodes
INVARIANTS
    RingHoldsTheMembers
    OwnerIsNextClockwise
PROPERTY
    OnlyNeededMoves
