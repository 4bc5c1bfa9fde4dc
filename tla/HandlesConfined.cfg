\* The Rust binding: wrappers and borrows of two threads.
CONSTANTS
    t1 = t1  t2 = t2
    w1 = w1  w2 = w2
    single = single  several = several  failed = failed
    docs = docs  sequence = sequence  scalar = scalar
    first = first  second = second
    text = text  null = null 
    f1 = f1  f2 = f2  f3 = f3
    Nothing = Nothing
    Threads <- MCThreads
    Wrappers <- MCWrappers
    Results <- MCResults
    Arrays <- MCArrays
    Nodes <- MCNodes
    Strings <- MCStrings
    Static <- MCStatic
    Fields <- MCFields
    Shared = FALSE
SPECIFICATION Spec
SYMMETRY Symmetry
INVARIANTS
    TypeOK
    Counted
    NoUseAfterFree
    BorrowsAlive
    NothingLeaks
PROPERTIES
    KeepsPromise
