\* Two objects (an original and its signed copy), two bodies of different
\* lengths and one signature: a decode into a used object changes the
\* payload, its length and its kind.
CONSTANTS
    o1 = o1
    o2 = o2
    b1 = b1
    b2 = b2
    s1 = s1
    Nil = Nil
    Objs <- MCObjs
    Bodies <- MCBodies
    BodyLen <- MCBodyLen
    Sigs <- MCSigs
    MaxTxs = 2

SPECIFICATION Spec
INVARIANTS TypeOK HashCacheFresh SizeCacheExact DifferenceByContent
\* A legacy payload's encode panics and ends the program.
CHECK_DEADLOCK FALSE
