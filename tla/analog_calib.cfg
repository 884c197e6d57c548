SPECIFICATION Spec
CONSTANT MaxFits = 4
INVARIANTS LinesOfTheirMode ReportedIsStored
PROPERTY NeverStepsBack
