CONSTANT MaxWrites = 3
SPECIFICATION FairSpec
INVARIANTS TypeOK NothingLost
PROPERTIES StrobeFramesData AnsweredWhenReady AcceptedShown
