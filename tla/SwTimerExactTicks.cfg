CONSTANTS
    Capacity = 2
    IndexRange = 2
    GenRange = 3
    MaxTimeout = 2
    Contexts = {c1, c2}
    NoContext = NoContext
    NoHandle = NoHandle
SPECIFICATION Spec
PROPERTIES
    FiresAfterExactlyN
