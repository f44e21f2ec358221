CONSTANTS
    Vectors = {vec1}
    Data = {datum}
    Blank = Blank
    Thrown = Thrown
    Sizes = {0, 1, 2, 4}
    MaxObjects = 3
    Word = 16
SPECIFICATION VectorSpec
CHECK_DEADLOCK FALSE
INVARIANT Contained
