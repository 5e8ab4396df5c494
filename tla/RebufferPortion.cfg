SPECIFICATION Spec
CONSTANTS InSize = 4  OutSize = 8  CalSize = 1  MaxBlocks = 9
INVARIANT FirstPortionOnly
