SPECIFICATION Spec
CONSTANTS
    a = a
    b = b
    l1 = l1
    l2 = l2
    l3 = l3
    m = m
    o = o
    x = x
    None = None
    Kinds = {a, b}
    Lines = {l1, l2, l3}
    Classes <- SomeClasses
    Requests <- SomeRequests
INVARIANTS
    ProbesBalanced
    LineIsSeen
    AllIsWoven
PROPERTY
    RunsAsBefore
CHECK_DEADLOCK FALSE
