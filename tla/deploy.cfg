SPECIFICATION Spec
CONSTANTS
    memo = memo
    Document = Document
    Assets = {Document, memo}
    Skills = {skill}
    Global = Global
    Entries = {e1, e2}
    NoLedger = NoLedger
    NoText = NoText
    Unknown = Unknown
    MaxChanges = 2
    MaxDeaths = 1
INVARIANTS LinksOwned
PROPERTIES DocumentKept RollbackRestores
CHECK_DEADLOCK FALSE
