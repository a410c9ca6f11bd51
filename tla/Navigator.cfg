SPECIFICATION NavigatorFairSpec
CONSTANT MaxTurns = 2
PROPERTY ErrorIsLeft
