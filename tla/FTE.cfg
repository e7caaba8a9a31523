CONSTANTS
    ContactBytes <- MCContactBytes
    Layouts <- MCLayouts
    Buttons = {0, 1}
    RingBound = 2
SPECIFICATION Spec
INVARIANTS RecordsAreReports ClientFollowsReports
