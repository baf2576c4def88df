\* One rule: a1 is real, a2 is what its check reports of purged caches; one silence over
\* both, a failing check, sessions and rule switches at any time.
CONSTANTS
    a1 = a1
    a2 = a2
    q1 = q1
    s1 = s1
    Rules = {q1}
    Alerts = {a1, a2}
    RuleOf <- TwoAlerts
    Silences = {s1}
    Covers <- TwoCover
    Conditions = {a1}
    PurgedAlerts = {a2}
    MaxFaults = 1
SPECIFICATION FairSpec
PROPERTIES PagesAreRight NoFalseResolve AlertsFollow
