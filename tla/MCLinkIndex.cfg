SPECIFICATION Spec
CONSTANTS
    u1 = u1
    u2 = u2
    u3 = u3
    h1 = h1
    h2 = h2
    Url = {u1, u2, u3}
    UrlHash = {h1, h2}
    Hash <- MCHash
    Submitter = {s}
    Anonymous = Anonymous
    Text = {t1, t2}
    PagesMax = 1
    MaxId = 2
    MaxCategory = 2
SYMMETRY Perms
INVARIANTS
    IndexesExact
    EntryKeptUnlessOvertaken
    LinksHaveCategory
PROPERTY
    NoDuplicateCreated
CHECK_DEADLOCK FALSE
