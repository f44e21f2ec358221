SPECIFICATION ValuesSpec
CONSTANTS
    SmallPool = 2
    vec1 = vec1
    vec2 = vec2
    datum = datum
    key1 = key1
    key2 = key2
    key3 = key3
    Vectors = {vec1, vec2}
    Data = {datum}
    Blank = Blank
    Thrown = Thrown
    Sizes = {0, 1, 2, 4}
    MaxObjects = 3
    Word = 16
    Values = {1, 2, 3, 4, 5, 6, 7, 8}
    Keys = {key1, key2, key3}
    Empty = Empty
    MaxHash = 3
    Lengths = {1, 2, 4, 8}
    Base = 4
    Worth = 2
    PatchWord = 32
    Sources <- ShortData
    Targets <- LongData
    Bytes = {0, 1}
    Zero = 0
    End = 255
    Page = 2
    MaxSize = 4
CHECK_DEADLOCK FALSE
INVARIANTS InPool RedBlack RoundTrip Coherent
PROPERTIES Sequenced TreeImplements HashImplements Unbuffered
