SPECIFICATION Spec
CONSTANTS
    root = root
    ref = ref
    born = born
    t0 = t0
    t1 = t1
    t2 = t2
    Entries = {root, ref, born}
    Titles = {t0, t1, t2}
    Typed = {t1, t2}
    Blank = Blank
    New = New
    None = None
    Unborn = Unborn
    Gone = Gone
    FirstStore <- MCStore
    FirstStacks <- MCStacks
    MaxPanes = 2
    MaxEvents = 5
    MaxFaults = 1
CHECK_DEADLOCK FALSE
INVARIANTS
    CleanFormsAreStored
    
PROPERTIES
    PanesAnswerTheirParent
