CONSTANTS
    p1 = p1
    p2 = p2
    w1 = w1
    w2 = w2
    Nothing = Nothing
    Openers <- TwoOpeners
    Branches = {1, 2, 3}
    n1 = n1
    n2 = n2
    Numbers <- TwoNumbers
    Begun <- OneThree
    Slots <- TwoSlots
    Managed <- OneManaged
    Changes = 2
SPECIFICATION OpenSpec
CHECK_DEADLOCK FALSE
INVARIANT OpenTypeOK
PROPERTIES
    OneTree
    OnlyNewFromMain
    NoSecondStack
SYMMETRY Symmetry
