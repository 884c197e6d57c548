SPECIFICATION Spec
CONSTANT MaxFits = 4
INVARIANT InUseIsSaved
