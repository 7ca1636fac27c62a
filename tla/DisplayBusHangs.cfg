CONSTANT MaxWrites = 3
SPECIFICATION FairSpec
PROPERTY WriteAnswered
