SPECIFICATION Spec
CONSTANTS
    f1 = f1
    c1 = c1
    Absent = Absent
    File = {f1}
    Content = {"text", "key", "masked"}
    Secrets = {"key"}
    Redacted = "masked"
    Client = {c1}
    MaxCommits = 2
    MaxStamp = 2
    MaxCalls = 2
    MaxEdits = 2
INVARIANTS
    TypeOK
    AppliedRestores
PROPERTIES
    WorkIsKept
