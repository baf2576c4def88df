\* Refutation run: a resolve nobody saw fire.
CONSTANTS
    a1 = a1
    a2 = a2
    q1 = q1
    s1 = s1
    Rules = {q1}
    Alerts = {a1}
    RuleOf <- OneAlert
    Silences = {s1}
    Covers <- OneCover
    Conditions = {a1}
    PurgedAlerts = {}
    MaxFaults = 0
SPECIFICATION Spec
PROPERTIES ResolvesWhatWasSeen
