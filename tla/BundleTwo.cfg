CONSTANTS
    f1 = f1
    m1 = m1
    m2 = m2
    w1 = w1
    d1 = d1
    python = python
    none = none
    Models = {m1, m2}
    Archives = {w1, d1}
    Wheels = {w1}
    Downloads = {d1}
    Staged = {d1}
    Mirrors = 2
    Blocks <- MCBlocks
    Fetchers = {f1, f2}
    Attempts = 2
    Selections <- MCSelections
    Limits = {1, 2}
    Absent = none
    Found <- MCFound
    Budgets <- MCBudgets
    Runtimes = {python}
    Speech = speech
    Needs <- MCNeeds
SPECIFICATION BundleSpec
PROPERTIES
    PublishedIsLocked
CHECK_DEADLOCK FALSE
