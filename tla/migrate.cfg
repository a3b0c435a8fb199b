SPECIFICATION Spec
CONSTANTS
    Settings = Settings
    Entries = {Settings, memo}
    Scripts = {script}
    Config = Config
    Texts = {mine, yours}
    NoText = NoText
    Unknown = Unknown
    MaxMigrations = 2
    MaxChanges = 1
    MaxFaults = 2
INVARIANTS EntriesKept
PROPERTIES UndoRestores TextsKept
