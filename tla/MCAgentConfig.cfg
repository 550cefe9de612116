SPECIFICATION Spec
CONSTANTS
    Agents = {backend}
    Fields <- MCFields
    Required <- MCRequired
    Values = {v1}
    Absent = Absent
    Keep = Keep
    Releases = {v1}
    Yaml <- MCYaml
    Processes = {orchestrator}
    Orchestrator = orchestrator
    Calls = {c1, c2}
    Handlers = {h1, h2}
    Ttl = 1
    MaxAnswer = 1
INVARIANT TypeOK
INVARIANT StoredIsComplete
PROPERTY BoundedStaleness
PROPERTY EditsStay
SYMMETRY MCSymmetry
