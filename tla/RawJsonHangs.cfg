CONSTANTS
    Inputs <- AllInputs
    MaxSize = 10
    BodyCut = 5
    Threshold = 2
    Ellipsis = 1
SPECIFICATION Spec
PROPERTIES Terminates
