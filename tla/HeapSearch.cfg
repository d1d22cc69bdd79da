CONSTANTS
    block_count = 6
    Meta = 2
    block_size = 4
    Base = 1
    HeapClients = {c1, c2, c3}
    ByteSizes = {2, 5, 9}
    Aligns = {1, 8}
    Null = none
SPECIFICATION HeapSpec
INVARIANTS
    SearchEnds
