CONSTANTS
    Tabs = {t1, t2}
    Jobs = {1, 2}
    Crons = {3}
    PageSize = 1
    Filters = {"processing"}
    TypedPages <- MCTypedPages
    TypedForms <- MCTypedForms
    MaxHops = 3
    MaxClicks = 4
    MaxEvents = 1
SPECIFICATION Spec
SYMMETRY Symmetry
INVARIANTS TypeOK SuccessIsReal PagerInStep NoDeadEnd RedirectsEnd
PROPERTY AppliesWhatWasAsked
CHECK_DEADLOCK FALSE
