\* Every line and every list of options of at most five words.
SPECIFICATION Spec
CONSTANT MaxWords = 5
INVARIANTS
    KindAsSpecified
    RequestAsSpecified
    MessageAsSpecified
    OptionsAsSpecified
\* A list of MaxWords words has no successor.
CHECK_DEADLOCK FALSE
