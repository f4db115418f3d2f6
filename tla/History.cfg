SPECIFICATION Spec
CONSTANTS
    l1 = l1
    l2 = l2
    print = print
    assign = assign
    three = three
    none = none
    LineNumbers <- MCLineNumbers
    Inputs <- MCInputs
    Outputs <- MCOutputs
    MaxLen = 4
SYMMETRY Symmetry
CHECK_DEADLOCK FALSE
INVARIANT TypeOK
INVARIANT TailAnswers
INVARIANT RangeAnswers
INVARIANT SearchAnswers
PROPERTY RangesStable
