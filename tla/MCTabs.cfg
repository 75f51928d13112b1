SPECIFICATION TabsSpec
CONSTANTS
    Tabs = {t1, t2}
    Ops = {o1, o2}
    None = None
    MaxFailures = 0
    Identities = {i1, i2}
    Emails = {e1, e2}
    Records = {a1, a2}
    SignIns = {q1, q2}
    Invitations = {v1}
    MaxSaves = 3
    MaxVersion = 1
    MaxRestores = 2
    Mails = {m1, m2}
    Corrections = {q1}
    Invitees = {a1}
    Environment <- Installed
    Configurations <- Replacements
INVARIANTS SavedShownBeforeForgotten ToldTruth BindingsOneToOne AccessNeverGoesBack OutboxTruth
CHECK_DEADLOCK FALSE
SYMMETRY Symmetry
