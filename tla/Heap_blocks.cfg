SPECIFICATION HeapSpec
CONSTANTS
    Width = 8
    HeapSize = 144
    \* Sizes that fill a chunk, leave less than a chunk, leave a chunk, need rounding,
    \* or fit nowhere.
    Requests = {1, 9, 28, 52, 252}
INVARIANTS
    HeapSound
PROPERTIES
    ImplementsAllocator
