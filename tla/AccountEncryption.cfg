\* Three files that two threads rewrite, a command that saves, two keys.
CONSTANTS
    File = {f1, f2, f3}
    Worker = {w1, w2}
    Saver = {s1}
    MaxKeys = 2
    Plain = Plain
SPECIFICATION FairSpec
INVARIANTS
    Readable
    NothingLeftPlain
PROPERTY
    JobEnds
