\* Loads, hot swap, deletion and shutdown under three requests for a model and its
\* variant, with room for one of the two.
SPECIFICATION Spec
CONSTANTS
    a = a
    a1 = a1
    None = None
    Client = {c1, c2, c3}
    Admin = {m1}
    Key = {a, a1}
    Base <- MCBase
    Rss <- MCRss
    Entry = {e1, e2, e3, e4}
    MaxResident = 1
    MaxRss = 3
    MaxVariants = 1
SYMMETRY Symmetric
INVARIANTS
    SwapsAreSafe
PROPERTIES
    UnloadIsFinal
