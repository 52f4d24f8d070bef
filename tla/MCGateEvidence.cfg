SPECIFICATION Spec
CONSTANTS
    release = release
    incident = incident
    risk = risk
    control = control
    change = change
    w1 = w1
    w2 = w2
    Risk = {risk}
    Control = {control}
    Change = {change}
    Event = {release, incident}
    Raises <- RaisesOf
    Clears <- ClearsOf
    Deploys = {release}
    Proves = {release}
    Folder = {w1, w2}
    Check = {ci}
    Waivable = {risk}
    Decisions <- DecisionsTaken
    MaxOpenChanges = 0
SYMMETRY FolderSymmetry
INVARIANT EvidenceKeepsControl
