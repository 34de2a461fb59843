SPECIFICATION FairSpec
CONSTANTS
    c1 = c1  c2 = c2  r1 = r1
    id = id  slug = slug
    None = None
    Calls = {c1, c2}
    Rows = {r1}
    Names = {id, slug}
    RowOf <- OneRow
    Slugs = {slug}
    Existing = {r1}
    Asks = {{slug}, {id, slug}}
    MaxVersion = 2
INVARIANTS
    OneFetchAtATime
    NothingHeld
    NoFalseNotFound
    OldOnlyByRace
    StaleIsRefreshed
PROPERTIES
    CallsReturn
CHECK_DEADLOCK FALSE
