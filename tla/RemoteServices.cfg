SPECIFICATION Spec
CONSTANTS
    Call = {c1, c2}
    Families <- MCFamilies
    Page = {"page1", "page2"}
    DefaultPage = "page1"
    Path = {p, q}
    Issued = {t1, t2}
    Legacy = legacy
    MaxFaults = 2
    MaxReports = 1
    None = None
SYMMETRY Symmetric
INVARIANTS TypeOK WrittenAsAnswered PostedWhereMeant DroppedTokenStaysGone
PROPERTIES NothingReplacedUnasked
CHECK_DEADLOCK FALSE
