CONSTANTS
    Bytes = {0, 1}
    Zero = 0
    End = 255
    Page = 2
    MaxSize = 5
SPECIFICATION Spec
PROPERTY SeekStopsAtStart
