SPECIFICATION Spec
CONSTANTS
    e1 = e1
    e2 = e2
    c1 = c1
    c2 = c2
    c3 = c3
    Issues <- MCIssues
    Refs <- MCRefs
    OpenTasks = {e1}
    Commands = {c1, c2, c3}
    Runs <- MCRuns
    Closable = {e1}
    Last = {c3}
SYMMETRY CommandSymmetry
PROPERTIES ClaimIsKept AloneRepairs
CHECK_DEADLOCK FALSE
