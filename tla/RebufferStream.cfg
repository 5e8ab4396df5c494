SPECIFICATION Spec
CONSTANTS InSize = 2  OutSize = 7  CalSize = 3  MaxBlocks = 40
INVARIANTS NoOverrun TimeOfLastSample OverdriveReported
PROPERTY QueueRefined
