------------------------------- MODULE Migrate -------------------------------
(***************************************************************************)
(* `lh migrate`: the dry run and its gate, the backup, the config that is  *)
(* generated, the links into lazy-claudecode that are made files, the      *)
(* scripts that are removed, the rollback log, and its replay, at once     *)
(* when a step fails and later by `lh migrate --rollback`.  One person     *)
(* runs one command at a time and changes files between two of them; any   *)
(* operation may fail half-way and any command may die.                    *)
(***************************************************************************)
EXTENDS Sequences, Naturals

CONSTANTS Entries,        \* the top level of the profile dir ~/.claude-<name>
          Settings,       \* its settings.json
          Scripts,        \* ~/.local/bin/lcc-*
          Config,         \* config.toml
          Texts,          \* what the user writes there
          NoText, Unknown,
          MaxMigrations, MaxChanges, MaxFaults

Generated == {"profiles", "vanilla"}

ASSUME MigrateAssumption ==
    /\ Settings \in Entries /\ Config \notin Entries \cup Scripts /\ Entries \cap Scripts = {}
    /\ NoText \notin Texts /\ (Texts \cup {NoText}) \cap (Generated \cup {"torn"}) = {}
    /\ {MaxMigrations, MaxChanges, MaxFaults} \subseteq Nat

VARIABLES place,      \* what is at each name
          target,     \* the text a config.toml that is a link leads to
          tmp,        \* entries with a complete copy in <name>.lazyharness.tmp
          backups,    \* backups/migrate/<timestamp>, the newest last
          reviewed,   \* a dry run less than an hour ago
          command,    \* the command that runs
          changes, faults,
          before,     \* history: the files when the newest migration began
          cut,        \* history: names it stopped at half-way
          missed,     \* history: names whose undo failed in this rollback
          removed     \* history: entries the user removed, or never had

disk == <<place, target, tmp>>
history == <<before, cut, removed>>
vars == <<disk, backups, reviewed, command, changes, faults, history, missed>>

Names == Entries \cup Scripts \cup {Config}

Item(is, text) == [is |-> is, text |-> text]
Nothing == Item("nothing", NoText)
Link == Item("link", NoText)      \* into lazy-claudecode, or where the user keeps config.toml
Other == Item("other", NoText)    \* a link elsewhere, or one that leads nowhere
File(text) == Item("file", text)

Op(kind, name) == [kind |-> kind, name |-> name]

Idle == [at |-> "idle", todo |-> {}, found |-> FALSE, ops |-> {}, undo |-> {}, failed |-> FALSE]
At(step) == command.at = step

NewBackup == [complete |-> FALSE, config |-> Nothing, logged |-> FALSE, log |-> {}]
Newest == backups[Len(backups)]
Replace(backup) == backups' = [backups EXCEPT ![Len(backups)] = backup]

-----------------------------------------------------------------------------
(* What is detected. *)

ConfigText == IF place[Config] = Link THEN target ELSE place[Config].text
Existing == ConfigText # NoText

\* A profile dir is one with a settings.json, which is no link that leads nowhere.
ProfileFound == IF place[Settings] = Other THEN BOOLEAN ELSE {place[Settings] # Nothing}

Linked(names) == {n \in names : place[n] = Link}

\* Mutant: the config is no target of the backup.
NothingSaved == Nothing

\* The entry of config.toml in the backup's manifest; of a link only the link.
Saved == IF Existing THEN place[Config] ELSE Nothing

-----------------------------------------------------------------------------
(* lh migrate. *)

DryRun ==
    /\ At("idle") /\ reviewed' = TRUE
    /\ UNCHANGED <<disk, backups, command, changes, faults, history, missed>>

Expire ==
    /\ reviewed /\ reviewed' = FALSE
    /\ UNCHANGED <<disk, backups, command, changes, faults, history, missed>>

\* The plan, which is not the one that was reviewed but a new one.
Begin ==
    /\ At("idle") /\ reviewed /\ Len(backups) < MaxMigrations
    /\ backups' = Append(backups, NewBackup)
    /\ \E found \in ProfileFound : command' = [Idle EXCEPT !.at = "backup", !.found = found]
    /\ before' = [place |-> place, target |-> target] /\ cut' = {}
    /\ UNCHANGED <<disk, reviewed, changes, faults, removed, missed>>

Fault == faults < MaxFaults /\ faults' = faults + 1

\* The step returns FAILED, or the process is gone, with something half done at the names.
Stop(names) ==
    /\ Fault /\ cut' = cut \cup names
    /\ command' \in {Idle, [command EXCEPT !.at = "log", !.todo = {}, !.failed = TRUE]}
    /\ UNCHANGED <<backups, reviewed, changes, before, removed, missed>>

Advance(step, names) ==
    /\ command' = [command EXCEPT !.at = step, !.todo = names]
    /\ UNCHANGED <<disk, reviewed, changes, faults, history, missed>>

Backup ==
    /\ At("backup")
    /\ Replace([Newest EXCEPT !.complete = TRUE, !.config = Saved])
    /\ Advance("config", {})

\* A copy fails: the manifest stays incomplete, and nothing else was touched.
StopInBackup == At("backup") /\ Stop({}) /\ UNCHANGED disk

\* write_bytes follows a link.
Written(text) ==
    IF place[Config] = Link
    THEN target' = text /\ UNCHANGED <<place, tmp>>
    ELSE place' = [place EXCEPT ![Config] = File(text)] /\ UNCHANGED <<target, tmp>>

Record(op, step, names) ==
    /\ command' = [command EXCEPT !.at = step, !.todo = names, !.ops = @ \cup {op}]
    /\ UNCHANGED <<backups, reviewed, changes, faults, history, missed>>

\* Mutant: whether there was a config is asked after it was written.
RestoreConfig == Op("restore_file", Config)

UndoConfig == IF Existing THEN Op("restore_file", Config) ELSE Op("remove_file", Config)

\* Links are flattened in the profile dirs that were found.
ToFlatten == IF command.found THEN Linked(Entries) ELSE {}

GenerateConfig ==
    /\ At("config")
    /\ Written(IF command.found THEN "profiles" ELSE "vanilla")
    /\ Record(UndoConfig, "flatten", ToFlatten)

StopInConfig ==
    /\ At("config")
    /\ \/ Stop({}) /\ UNCHANGED disk
       \/ Stop({Config}) /\ Written("torn")

\* The link is copied to .tmp, unlinked, and .tmp renamed.
Flatten ==
    /\ At("flatten")
    /\ \/ \E n \in command.todo :
            /\ place' = [place EXCEPT ![n] = File(NoText)] /\ tmp' = tmp \ {n}
            /\ Record(Op("unflatten", n), "flatten", command.todo \ {n})
            /\ UNCHANGED target
       \/ command.todo = {} /\ Advance("scripts", Linked(Scripts)) /\ UNCHANGED backups

\* Mutant: the link is unlinked first.
UnlinkedFirst(n) == place' = [place EXCEPT ![n] = Nothing] /\ tmp' = tmp \ {n}

CopiedAndUnlinked(n) == place' = [place EXCEPT ![n] = Nothing] /\ tmp' = tmp \cup {n}

StopInFlatten ==
    /\ At("flatten")
    /\ \E n \in command.todo :
        \/ Stop({n}) /\ CopiedAndUnlinked(n)
        \/ Stop({}) /\ tmp' \in {tmp \ {n}, tmp \cup {n}} /\ UNCHANGED place
    /\ UNCHANGED target

RemoveScripts ==
    /\ At("scripts")
    /\ \/ \E n \in command.todo :
            /\ place' = [place EXCEPT ![n] = Nothing]
            /\ Record(Op("restore_symlink", n), "scripts", command.todo \ {n})
            /\ UNCHANGED <<target, tmp>>
       \/ command.todo = {} /\ Advance("log", {}) /\ UNCHANGED backups

StopInScripts == At("scripts") /\ command.todo # {} /\ Stop({}) /\ UNCHANGED disk

\* Only now is the log written, and replayed if a step has failed.
WriteLog ==
    /\ At("log")
    /\ Replace([Newest EXCEPT !.logged = TRUE, !.log = command.ops])
    /\ command' = IF command.failed THEN [command EXCEPT !.at = "undo", !.undo = command.ops]
                  ELSE Idle
    /\ UNCHANGED <<disk, reviewed, changes, faults, history, missed>>

-----------------------------------------------------------------------------
(* The replay of a log. *)

\* lh migrate --rollback; of a backup without a log, or with one cut short, nothing is undone.
Rollback ==
    /\ At("idle") /\ backups # << >> /\ Newest.logged
    /\ command' = [Idle EXCEPT !.at = "undo", !.undo = Newest.log]
    /\ UNCHANGED <<disk, backups, reviewed, changes, faults, history, missed>>

\* What there is at the name once the operation has been undone.
Undone(op) ==
    LET now == place[op.name]
    IN CASE op.kind = "remove_file" -> IF Existing THEN Nothing ELSE now
         [] op.kind = "restore_file" ->
              IF Newest.complete /\ Newest.config # Nothing THEN Newest.config ELSE now
         [] op.kind = "unflatten" -> IF now.is \in {"file", "nothing"} THEN Link ELSE now
         [] op.kind = "restore_symlink" -> Link

\* And what there may be before: it was removed, or copied in part.
HalfUndone(op) ==
    {place[op.name], IF Undone(op) # place[op.name] THEN Nothing ELSE place[op.name],
     IF op.kind = "restore_file" /\ Undone(op).is = "file" THEN File("torn") ELSE place[op.name]}

Becomes(n, item) ==
    /\ place' = [place EXCEPT ![n] = item]
    /\ removed' = IF item = Nothing THEN removed ELSE removed \ {n}
    /\ UNCHANGED <<target, tmp, backups, reviewed, changes, before, cut>>

Undo ==
    /\ At("undo")
    /\ \E op \in command.undo :
        /\ Becomes(op.name, Undone(op))
        /\ command' = [command EXCEPT !.undo = @ \ {op}]
    /\ UNCHANGED <<faults, missed>>

\* An operation that raises is reported, and the others go on.
UndoFails ==
    /\ At("undo") /\ Fault
    /\ \E op \in command.undo : \E item \in HalfUndone(op) :
        /\ Becomes(op.name, item) /\ missed' = missed \cup {op.name}
        /\ command' = [command EXCEPT !.undo = @ \ {op}]

EndUndo ==
    /\ At("undo") /\ command.undo = {}
    /\ command' = Idle /\ missed' = {}
    /\ UNCHANGED <<disk, backups, reviewed, changes, faults, history>>

-----------------------------------------------------------------------------
(* Deaths, and what the user does. *)

\* Between two operations, or in the writing of the log.
Die ==
    /\ ~At("idle") /\ Fault /\ command' = Idle /\ missed' = {}
    /\ UNCHANGED <<disk, backups, reviewed, changes, history>>

DieInUndo ==
    /\ At("undo") /\ Fault /\ command' = Idle /\ missed' = {}
    /\ \E op \in command.undo : \E item \in HalfUndone(op) : Becomes(op.name, item)

Change ==
    /\ At("idle") /\ changes < MaxChanges /\ changes' = changes + 1
    /\ before' = Unknown
    /\ UNCHANGED <<tmp, backups, reviewed, command, faults, cut, missed>>

EditConfig ==
    /\ Change
    /\ \E text \in Texts :
        IF place[Config] = Link
        THEN target' = text /\ UNCHANGED place
        ELSE place' = [place EXCEPT ![Config] = File(text)] /\ UNCHANGED target
    /\ UNCHANGED removed

Rearrange ==
    /\ Change
    /\ \/ \E n \in Entries : \E item \in {Nothing, Link, Other, File(NoText)} :
            /\ place' = [place EXCEPT ![n] = item]
            /\ removed' = IF item = Nothing THEN removed \cup {n} ELSE removed \ {n}
       \/ \E n \in Scripts : \E item \in {Nothing, Link} :
            place' = [place EXCEPT ![n] = item] /\ UNCHANGED removed
    /\ UNCHANGED target

-----------------------------------------------------------------------------
\* A machine with or without a profile, links, scripts and a config, which may be a link.
Init ==
    /\ place \in [Names -> {Nothing, Link, Other} \cup {File(text) : text \in Texts \cup {NoText}}]
    /\ \A n \in Entries : place[n] \in {Nothing, Link, Other, File(NoText)}
    /\ \A n \in Scripts : place[n] \in {Nothing, Link}
    /\ place[Config] \in {Nothing, Link} \cup {File(text) : text \in Texts}
    /\ target \in IF place[Config] = Link THEN Texts \cup {NoText} ELSE {NoText}
    /\ tmp = {} /\ backups = << >> /\ reviewed = FALSE /\ command = Idle
    /\ changes = 0 /\ faults = 0
    /\ before = Unknown /\ cut = {} /\ missed = {}
    /\ removed = {n \in Entries : place[n] = Nothing}

Run == Begin \/ Backup \/ GenerateConfig \/ Flatten \/ RemoveScripts \/ WriteLog

Stops == StopInBackup \/ StopInConfig \/ StopInFlatten \/ StopInScripts

Next ==
    \/ DryRun \/ Expire \/ Run \/ Stops
    \/ Rollback \/ Undo \/ UndoFails \/ EndUndo \/ Die \/ DieInUndo
    \/ EditConfig \/ Rearrange

Spec == Init /\ [][Next]_vars

-----------------------------------------------------------------------------
(* Properties. *)

DanglingConfig == before.place[Config] = Link /\ before.target = NoText

\* Once the log is replayed, by a migration that failed or by the user, however often, every
\* name has what it had before that migration, except one it stopped at half-way, one whose
\* undo failed, and a config.toml that was a link and led nowhere.
UndoRestores ==
    [][EndUndo /\ before # Unknown =>
          \A n \in Names \ (cut \cup missed) :
              \/ place[n] = before.place[n]
              \/ n = Config /\ DanglingConfig]_vars

\* The names without an exception: not so, an operation that failed half-way is not in the log.
SelfHeals == [][EndUndo /\ before # Unknown /\ missed = {} => place = before.place]_vars

\* What a config.toml that is a link leads to: not so, the backup has the link only.
LinkedTextRestored ==
    [][EndUndo /\ before # Unknown /\ cut \cup missed = {} => ConfigText = before.target]_vars

UserTexts ==
    Texts \cap ({ConfigText} \cup {backups[i].config.text : i \in {j \in DOMAIN backups : backups[j].complete}})

Migrating == ~At("idle") /\ (At("undo") => command.failed)

\* A migration, and its own rollback, keep what the user wrote in config.toml, there or in a
\* backup, wherever they stop; unless it is a link.
TextsKept == [][Migrating /\ place[Config] # Link => UserTexts \subseteq UserTexts']_vars

InALog(n) ==
    \E i \in DOMAIN backups : backups[i].logged /\ Op("unflatten", n) \in backups[i].log

\* An entry the user did not remove is there, or its copy is beside it, or a log has its target.
EntriesKept == \A n \in Entries \ removed : place[n] # Nothing \/ n \in tmp \/ InALog(n)

\* A second migration changes nothing: not so, it writes the config again.
SecondIsNoOp == [][GenerateConfig /\ Len(backups) > 1 => ConfigText' = ConfigText]_vars
=============================================================================
