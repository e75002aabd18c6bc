\* Two requests for a model and its variant, with memory for one of the two; fair scheduling.
SPECIFICATION FairSpec
CONSTANTS
    a = a
    a1 = a1
    None = None
    Client = {c1, c2}
    Admin = {}
    Key = {a, a1}
    Base <- MCBase
    Rss <- MCRss
    Entry = {e1, e2, e3}
    MaxResident = 2
    MaxRss = 1
    MaxVariants = 1
PROPERTIES
    SwapsEnd
