SPECIFICATION CArraySpec
CONSTANTS
    Payloads = {0, 1}
    Blank = 0
    QueueSize = 5
    Slots = 12
PROPERTIES
    ShowsLastElements
