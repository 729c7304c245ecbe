SPECIFICATION Spec
CONSTANTS
    a1 = a1  a2 = a2  r1 = r1
    i1 = i1  i2 = i2  i3 = i3
    t1 = t1  t2 = t2  s1 = s1  s2 = s2
    Auths = {a1, a2}
    Readers = {r1}
    Contents = {s1, s2}
    Foreign = foreign
    Tokens = {t1, t2}
    TokenOf <- SomeTokenOf
    Inodes = {i1, i2, i3}
    None = None
SYMMETRY Symmetry
INVARIANTS
    WriterOwnsPath
    ConfirmedIsDurable
    ReaderGetsWhatItOpened
PROPERTIES
    ForeignKept
    QuarantineMovesRejected
    ImplementsRegister
