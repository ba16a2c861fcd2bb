SPECIFICATION Spec
CONSTANTS
    Reports <- MCReports
    Patches <- MCPatches
    Views <- MCViews
    MaxCommands = 3
    MaxFaults = 1
INVARIANT PageTellsAll
PROPERTY PatchHitsOnlySelected
\* After the last command of the bound nothing is run.
CHECK_DEADLOCK FALSE
