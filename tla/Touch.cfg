CONSTANTS
    MaxFingers = 2
    xMax = 128
    yMax = 128
    ForceMoveCancel = 100
    Position <- MCPosition
    Delta <- MCDelta
    Reach = 10
SPECIFICATION FairEither
INVARIANTS   TimerMatchesHold
PROPERTIES SideLatchedAwake ForceOnlyAfterStillHold HoldIsResolved
