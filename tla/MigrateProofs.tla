---------------------------- MODULE MigrateProofs ----------------------------
(***************************************************************************)
(* What the replay of a log restores and what a migration keeps, for any   *)
(* entries, scripts and texts, any number of migrations and of changes,    *)
(* wherever operations fail and commands die.                              *)
(***************************************************************************)
EXTENDS Migrate, SequenceTheorems, TLAPS

AllTexts == Texts \cup Generated \cup {"torn"}
ConfigItems == {Nothing, Link} \cup {File(text) : text \in AllTexts}
Items == {Nothing, Link, Other, File(NoText)} \cup ConfigItems

\* What may be at a name.
Fits(n, item) ==
    /\ n \in Entries => item \in {Nothing, Link, Other, File(NoText)}
    /\ n \in Scripts => item \in {Nothing, Link}
    /\ n = Config => item \in ConfigItems

Ops == {Op("unflatten", n) : n \in Entries} \cup {Op("restore_symlink", n) : n \in Scripts}
           \cup {Op("remove_file", Config), Op("restore_file", Config)}

Forward == {"backup", "config", "flatten", "scripts", "log"}

Commands == [at : Forward \cup {"idle", "undo"}, todo : SUBSET Names, found : BOOLEAN,
             ops : SUBSET Ops, undo : SUBSET Ops, failed : BOOLEAN]
Backups == [complete : BOOLEAN, config : ConfigItems, logged : BOOLEAN, log : SUBSET Ops]

\* Every variable keeps its shape.
TypeOK ==
    /\ place \in [Names -> Items] /\ \A n \in Names : Fits(n, place[n])
    /\ target \in AllTexts \cup {NoText}
    /\ backups \in Seq(Backups)
    /\ command \in Commands

\* What a command knows of the newest backup and of the names it is at.
Shape ==
    /\ ~At("idle") => backups # << >>
    /\ At("backup") => Newest = NewBackup /\ command.ops = {}
    /\ At("config") => Newest.complete /\ Newest.config = Saved /\ command.ops = {}
    /\ command.at \in Forward => ~Newest.logged
    /\ At("flatten") => command.todo \subseteq Linked(Entries)
    /\ At("scripts") => command.todo \subseteq Linked(Scripts)
    /\ At("undo") => Newest.logged /\ command.undo \subseteq Newest.log

\* No backup that is complete and no log is ever changed.
BackupsKept ==
    \A i \in DOMAIN backups :
        /\ i \in DOMAIN backups'
        /\ backups[i].complete => backups'[i].complete /\ backups'[i].config = backups[i].config
        /\ backups[i].logged => backups'[i].logged /\ backups'[i].log = backups[i].log

-----------------------------------------------------------------------------
(* Shapes. *)

LEMMA Kinds ==
  /\ Nothing \in ConfigItems /\ Link \in ConfigItems
  /\ \A text \in AllTexts : File(text) \in ConfigItems
  /\ Nothing.is = "nothing" /\ Link.is = "link" /\ Other.is = "other"
  /\ Nothing.text = NoText /\ Link.text = NoText /\ Other.text = NoText
  /\ \A text : File(text).is = "file" /\ File(text).text = text
  /\ Nothing # Link /\ Nothing # Other /\ Link # Other
  /\ \A text : File(text) # Nothing /\ File(text) # Link /\ File(text) # Other
  /\ \A item \in ConfigItems :
        /\ item \in {Nothing, Link} => item.text = NoText
        /\ item \notin {Nothing, Link} => item.text \in AllTexts /\ item = File(item.text)
  <1>1. /\ Nothing.is = "nothing" /\ Link.is = "link" /\ Other.is = "other"
        /\ Nothing.text = NoText /\ Link.text = NoText /\ Other.text = NoText
        /\ \A text : File(text).is = "file" /\ File(text).text = text
    BY DEF Nothing, Link, Other, File, Item
  <1>2. /\ Nothing # Link /\ Nothing # Other /\ Link # Other
        /\ \A text : File(text) # Nothing /\ File(text) # Link /\ File(text) # Other
    BY <1>1
  <1>. QED BY <1>1, <1>2 DEF ConfigItems

LEMMA Sides ==
  /\ Settings \in Entries /\ Config \in Names /\ Entries \subseteq Names /\ Scripts \subseteq Names
  /\ Config \notin Entries /\ Config \notin Scripts /\ Entries \cap Scripts = {}
  /\ \A n \in Names : n \in Entries \/ n \in Scripts \/ n = Config
  BY MigrateAssumption DEF MigrateAssumption, Names

LEMMA TextKinds ==
  /\ NoText \notin AllTexts /\ "torn" \in AllTexts /\ Generated \subseteq AllTexts
  /\ "torn" \notin Texts /\ Texts \cap Generated = {} /\ Texts \subseteq AllTexts
  BY MigrateAssumption DEF MigrateAssumption, AllTexts, Generated

LEMMA OpKinds ==
  /\ \A kind, n : Op(kind, n).kind = kind /\ Op(kind, n).name = n
  /\ \A op \in Ops : /\ op.name \in Names
                     /\ \/ op.name \in Entries /\ op.kind = "unflatten" /\ op = Op("unflatten", op.name)
                        \/ op.name \in Scripts /\ op.kind = "restore_symlink"
                             /\ op = Op("restore_symlink", op.name)
                        \/ op.name = Config /\ op.kind \in {"remove_file", "restore_file"}
                             /\ op = Op(op.kind, Config)
  /\ \A n \in Entries : Op("unflatten", n) \in Ops
  /\ \A n \in Scripts : Op("restore_symlink", n) \in Ops
  /\ Op("remove_file", Config) \in Ops /\ Op("restore_file", Config) \in Ops
  <1>1. \A kind, n : Op(kind, n).kind = kind /\ Op(kind, n).name = n
    BY DEF Op
  <1>. QED BY <1>1, Sides DEF Ops

LEMMA IdleCommand ==
  /\ Idle \in Commands /\ Idle.at = "idle" /\ Idle.todo = {} /\ Idle.ops = {} /\ Idle.undo = {}
  /\ Idle.failed = FALSE
  BY DEF Idle, Commands

\* A name gets an item.
LEMMA Puts ==
  ASSUME place \in [Names -> Items], \A n \in Names : Fits(n, place[n]),
         NEW n \in Names, NEW item, Fits(n, item), place' = [place EXCEPT ![n] = item]
  PROVE  /\ place' \in [Names -> Items] /\ \A m \in Names : Fits(m, place'[m])
         /\ place'[n] = item /\ \A m \in Names \ {n} : place'[m] = place[m]
  <1>1. item \in Items
    BY Sides DEF Fits, Items
  <1>. QED BY <1>1

\* The newest backup gets a new content.
LEMMA Replaces ==
  ASSUME backups \in Seq(Backups), backups # << >>, NEW b \in Backups, Replace(b)
  PROVE  /\ backups' \in Seq(Backups) /\ Len(backups') = Len(backups) /\ backups' # << >>
         /\ Newest' = b /\ DOMAIN backups' = DOMAIN backups
         /\ Len(backups) \in DOMAIN backups
         /\ \A i \in DOMAIN backups \ {Len(backups)} : backups'[i] = backups[i]
  BY DEF Replace, Newest

LEMMA NewestType ==
  ASSUME TypeOK, backups # << >>
  PROVE  Newest \in Backups /\ Len(backups) \in DOMAIN backups
  BY DEF TypeOK, Newest

LEMMA NewBackupType ==
  /\ NewBackup \in Backups /\ ~NewBackup.complete /\ ~NewBackup.logged /\ NewBackup.config = Nothing
  BY Kinds DEF NewBackup, Backups

LEMMA KeptBackups == ASSUME UNCHANGED backups PROVE BackupsKept
  BY DEF BackupsKept

LEMMA SavedType == ASSUME TypeOK PROVE Saved \in ConfigItems /\ place[Config] \in ConfigItems
  BY Kinds, Sides DEF TypeOK, Saved, Fits

\* The text read at config.toml.
LEMMA ConfigTexts ==
  ASSUME TypeOK
  PROVE  /\ ConfigText \in AllTexts \cup {NoText}
         /\ place[Config] # Link /\ Existing => place[Config] = File(ConfigText) /\ ConfigText \in AllTexts
         /\ place[Config] # Link /\ ~Existing => place[Config] = Nothing
  <1>1. place[Config] \in ConfigItems
    BY SavedType
  <1>. QED BY <1>1, Kinds, TextKinds DEF ConfigText, Existing, TypeOK

-----------------------------------------------------------------------------
(* The steps. *)

\* A migration begins with a backup of its own.
LEMMA BeginStep ==
  ASSUME TypeOK, Begin
  PROVE  /\ TypeOK' /\ Shape' /\ BackupsKept
         /\ command'.at = "backup" /\ ~command'.failed /\ Newest' = NewBackup
         /\ UNCHANGED <<disk, removed>>
         /\ before' = [place |-> place, target |-> target]
  <1>1. /\ backups' = Append(backups, NewBackup) /\ UNCHANGED <<disk, removed>>
        /\ before' = [place |-> place, target |-> target]
        /\ \E found \in ProfileFound : command' = [Idle EXCEPT !.at = "backup", !.found = found]
    BY DEF Begin
  <1>2. backups \in Seq(Backups)
    BY DEF TypeOK
  <1>3. /\ backups' \in Seq(Backups) /\ backups' # << >> /\ Newest' = NewBackup
        /\ DOMAIN backups \subseteq DOMAIN backups' /\ \A i \in DOMAIN backups : backups'[i] = backups[i]
    BY <1>1, <1>2, NewBackupType DEF Newest
  <1>4. /\ command' \in Commands /\ command'.at = "backup" /\ command'.todo = {} /\ command'.ops = {}
        /\ command'.undo = {} /\ command'.failed = FALSE
    <2>1. PICK found \in BOOLEAN : command' = [Idle EXCEPT !.at = "backup", !.found = found]
      BY <1>1 DEF ProfileFound
    <2>. QED BY <2>1 DEF Idle, Commands, Forward
  <1>5. TypeOK' /\ Shape'
    BY <1>1, <1>3, <1>4, NewBackupType DEF TypeOK, disk, Shape, At, Forward
  <1>6. BackupsKept
    BY <1>3 DEF BackupsKept
  <1>. QED BY <1>1, <1>3, <1>4, <1>5, <1>6

\* The backup is complete and has the config.
LEMMA BackupStep ==
  ASSUME TypeOK, Shape, Backup
  PROVE  /\ TypeOK' /\ Shape' /\ BackupsKept
         /\ command'.at = "config" /\ Newest'.complete /\ Newest'.config = Saved
         /\ command'.failed = command.failed
         /\ UNCHANGED <<disk, history>>
  <1>. DEFINE b == [Newest EXCEPT !.complete = TRUE, !.config = Saved]
  <1>1. /\ Replace(b) /\ UNCHANGED <<disk, history>>
        /\ command' = [command EXCEPT !.at = "config", !.todo = {}]
    BY DEF Backup, Advance
  <1>2. At("backup") /\ backups # << >> /\ Newest = NewBackup /\ Newest \in Backups /\ command.ops = {}
    BY NewestType DEF Backup, Shape, At
  <1>3. b \in Backups /\ b.complete /\ b.config = Saved /\ ~b.logged
    BY <1>2, SavedType, NewBackupType DEF Backups
  <1>. HIDE DEF b
  <1>4. /\ backups' \in Seq(Backups) /\ backups' # << >> /\ Newest' = b
        /\ DOMAIN backups' = DOMAIN backups /\ Len(backups) \in DOMAIN backups
        /\ \A i \in DOMAIN backups \ {Len(backups)} : backups'[i] = backups[i]
    BY <1>1, <1>2, <1>3, Replaces DEF TypeOK
  <1>5. /\ command' \in Commands /\ command'.at = "config" /\ command'.ops = {}
        /\ command'.failed = command.failed
    BY <1>1, <1>2 DEF TypeOK, Commands, Forward
  <1>6. Saved' = Saved
    BY <1>1 DEF disk, Saved, Existing, ConfigText
  <1>7. TypeOK' /\ Shape'
    BY <1>1, <1>3, <1>4, <1>5, <1>6 DEF TypeOK, disk, Shape, At, Forward
  <1>8. BackupsKept
    BY <1>2, <1>4, NewBackupType DEF BackupsKept, Newest
  <1>. QED BY <1>1, <1>3, <1>4, <1>5, <1>7, <1>8

\* What write_bytes leaves.
LEMMA Writes ==
  ASSUME TypeOK, NEW text \in AllTexts, Written(text)
  PROVE  /\ place' \in [Names -> Items] /\ \A n \in Names : Fits(n, place'[n])
         /\ target' \in AllTexts \cup {NoText}
         /\ place'[Config] = Link <=> place[Config] = Link
         /\ place[Config] # Link => ConfigText' = text
         /\ \A n \in Names \ {Config} : place'[n] = place[n]
         /\ tmp' = tmp
  <1>1. CASE place[Config] = Link
    BY <1>1 DEF Written, TypeOK
  <1>2. CASE place[Config] # Link
    <2>1. /\ place' = [place EXCEPT ![Config] = File(text)] /\ UNCHANGED <<target, tmp>>
      BY <1>2 DEF Written
    <2>2. Fits(Config, File(text))
      BY Kinds, Sides DEF Fits
    <2>3. /\ place' \in [Names -> Items] /\ \A n \in Names : Fits(n, place'[n])
          /\ place'[Config] = File(text) /\ \A n \in Names \ {Config} : place'[n] = place[n]
      BY <2>1, <2>2, Puts, Sides DEF TypeOK
    <2>4. ConfigText' = text /\ place'[Config] # Link
      BY <2>3, Kinds DEF ConfigText
    <2>. QED BY <1>2, <2>1, <2>3, <2>4 DEF TypeOK
  <1>. QED BY <1>1, <1>2

\* An operation is recorded.
LEMMA Records ==
  ASSUME TypeOK, NEW op \in Ops, NEW step \in Forward, NEW names \in SUBSET Names,
         Record(op, step, names)
  PROVE  /\ command' \in Commands /\ command'.at = step /\ command'.todo = names
         /\ command'.ops = command.ops \cup {op} /\ command'.failed = command.failed
         /\ UNCHANGED <<backups, history>>
  BY DEF TypeOK, Commands, Record

\* The config is written, and how to undo that recorded.
LEMMA ConfigStep ==
  ASSUME TypeOK, Shape, GenerateConfig
  PROVE  /\ TypeOK' /\ Shape' /\ BackupsKept
         /\ command'.at = "flatten" /\ command'.failed = command.failed
         /\ command'.ops = {UndoConfig} /\ command'.todo \subseteq Linked(Entries)
         /\ \A n \in Names \ {Config} : place'[n] = place[n]
         /\ place'[Config] = Link <=> place[Config] = Link
         /\ place[Config] # Link => ConfigText' \in Generated
         /\ UNCHANGED <<tmp, backups, history>>
  <1>. DEFINE text == IF command.found THEN "profiles" ELSE "vanilla"
  <1>1. At("config") /\ Written(text) /\ Record(UndoConfig, "flatten", ToFlatten)
    BY DEF GenerateConfig
  <1>2. text \in Generated /\ text \in AllTexts
    BY TextKinds DEF Generated
  <1>. HIDE DEF text
  <1>3. /\ place' \in [Names -> Items] /\ \A n \in Names : Fits(n, place'[n])
        /\ target' \in AllTexts \cup {NoText}
        /\ place'[Config] = Link <=> place[Config] = Link
        /\ place[Config] # Link => ConfigText' \in Generated
        /\ \A n \in Names \ {Config} : place'[n] = place[n]
        /\ tmp' = tmp
    BY <1>1, <1>2, Writes
  <1>4. UndoConfig \in Ops /\ ToFlatten \subseteq Linked(Entries) /\ ToFlatten \in SUBSET Names
    BY OpKinds, Sides DEF UndoConfig, ToFlatten, Linked
  <1>5. /\ command' \in Commands /\ command'.at = "flatten" /\ command'.todo = ToFlatten
        /\ command'.ops = command.ops \cup {UndoConfig} /\ command'.failed = command.failed
        /\ UNCHANGED <<backups, history>>
    BY <1>1, <1>4, Records DEF Forward
  <1>6. backups # << >> /\ ~Newest.logged /\ command.ops = {}
    BY <1>1 DEF Shape, At, Forward
  <1>7. Linked(Entries)' = Linked(Entries)
    BY <1>3, Sides DEF Linked
  <1>8. TypeOK' /\ Shape'
    BY <1>3, <1>4, <1>5, <1>6, <1>7 DEF TypeOK, Shape, At, Forward, Newest
  <1>. QED BY <1>3, <1>4, <1>5, <1>6, <1>8, KeptBackups

\* A link becomes a file, or the scripts are next.
LEMMA FlattenStep ==
  ASSUME TypeOK, Shape, Flatten
  PROVE  /\ TypeOK' /\ Shape' /\ BackupsKept
         /\ command'.failed = command.failed
         /\ UNCHANGED <<target, backups, history>>
         /\ \/ \E n \in command.todo :
                 /\ n \in Entries /\ place[n] = Link
                 /\ place'[n] = File(NoText) /\ tmp' = tmp \ {n}
                 /\ \A m \in Names \ {n} : place'[m] = place[m]
                 /\ command'.ops = command.ops \cup {Op("unflatten", n)}
                 /\ command'.at = "flatten" /\ command'.todo = command.todo \ {n}
            \/ /\ UNCHANGED <<place, tmp>> /\ command'.ops = command.ops
               /\ command'.at = "scripts" /\ command'.todo = Linked(Scripts)
  <1>1. /\ At("flatten") /\ backups # << >> /\ ~Newest.logged /\ command.todo \subseteq Linked(Entries)
        /\ command \in Commands
    BY DEF Flatten, Shape, At, Forward, TypeOK
  <1>2. CASE \E n \in command.todo :
               /\ place' = [place EXCEPT ![n] = File(NoText)] /\ tmp' = tmp \ {n}
               /\ Record(Op("unflatten", n), "flatten", command.todo \ {n})
               /\ UNCHANGED target
    <2>1. PICK n \in command.todo :
               /\ place' = [place EXCEPT ![n] = File(NoText)] /\ tmp' = tmp \ {n}
               /\ Record(Op("unflatten", n), "flatten", command.todo \ {n})
               /\ UNCHANGED target
      BY <1>2
    <2>2. n \in Entries /\ n \in Names /\ place[n] = Link
      BY <1>1, Sides DEF Linked
    <2>3. Fits(n, File(NoText))
      BY <2>2, Sides DEF Fits
    <2>4. /\ place' \in [Names -> Items] /\ \A m \in Names : Fits(m, place'[m])
          /\ place'[n] = File(NoText) /\ \A m \in Names \ {n} : place'[m] = place[m]
      BY <2>1, <2>2, <2>3, Puts DEF TypeOK
    <2>5. Op("unflatten", n) \in Ops /\ command.todo \ {n} \in SUBSET Names
      BY <1>1, <2>2, OpKinds DEF Commands
    <2>6. /\ command' \in Commands /\ command'.at = "flatten" /\ command'.todo = command.todo \ {n}
          /\ command'.ops = command.ops \cup {Op("unflatten", n)} /\ command'.failed = command.failed
          /\ UNCHANGED <<backups, history>>
      BY <2>1, <2>5, Records DEF Forward
    <2>7. command'.todo \subseteq Linked(Entries)'
      BY <1>1, <2>4, <2>6, Sides DEF Linked
    <2>8. TypeOK' /\ Shape'
      BY <1>1, <2>1, <2>4, <2>6, <2>7 DEF TypeOK, Shape, At, Forward, Newest
    <2>. QED BY <2>1, <2>2, <2>4, <2>6, <2>8, KeptBackups
  <1>3. CASE command.todo = {} /\ Advance("scripts", Linked(Scripts)) /\ UNCHANGED backups
    <2>1. Linked(Scripts) \in SUBSET Names
      BY Sides DEF Linked
    <2>2. /\ command' \in Commands /\ command'.at = "scripts" /\ command'.todo = Linked(Scripts)
          /\ command'.ops = command.ops /\ command'.failed = command.failed
          /\ UNCHANGED <<disk, backups, history>>
      BY <1>1, <1>3, <2>1 DEF Advance, Commands, Forward
    <2>3. Linked(Scripts)' = Linked(Scripts)
      BY <2>2 DEF Linked, disk
    <2>4. TypeOK' /\ Shape'
      BY <1>1, <2>2, <2>3 DEF TypeOK, Shape, At, Forward, Newest, disk
    <2>. QED BY <2>2, <2>4, KeptBackups DEF disk
  <1>. QED BY <1>2, <1>3 DEF Flatten

\* A script goes, or the log is next.
LEMMA ScriptsStep ==
  ASSUME TypeOK, Shape, RemoveScripts
  PROVE  /\ TypeOK' /\ Shape' /\ BackupsKept
         /\ command'.failed = command.failed
         /\ UNCHANGED <<target, tmp, backups, history>>
         /\ \/ \E n \in command.todo :
                 /\ n \in Scripts /\ place[n] = Link
                 /\ \A m \in Names \ {n} : place'[m] = place[m]
                 /\ command'.ops = command.ops \cup {Op("restore_symlink", n)}
                 /\ command'.at = "scripts" /\ command'.todo = command.todo \ {n}
            \/ UNCHANGED place /\ command'.ops = command.ops /\ command'.at = "log"
  <1>1. /\ At("scripts") /\ backups # << >> /\ ~Newest.logged /\ command.todo \subseteq Linked(Scripts)
        /\ command \in Commands
    BY DEF RemoveScripts, Shape, At, Forward, TypeOK
  <1>2. CASE \E n \in command.todo :
               /\ place' = [place EXCEPT ![n] = Nothing]
               /\ Record(Op("restore_symlink", n), "scripts", command.todo \ {n})
               /\ UNCHANGED <<target, tmp>>
    <2>1. PICK n \in command.todo :
               /\ place' = [place EXCEPT ![n] = Nothing]
               /\ Record(Op("restore_symlink", n), "scripts", command.todo \ {n})
               /\ UNCHANGED <<target, tmp>>
      BY <1>2
    <2>2. n \in Scripts /\ n \in Names /\ place[n] = Link
      BY <1>1, Sides DEF Linked
    <2>3. Fits(n, Nothing)
      BY <2>2, Sides DEF Fits
    <2>4. /\ place' \in [Names -> Items] /\ \A m \in Names : Fits(m, place'[m])
          /\ \A m \in Names \ {n} : place'[m] = place[m]
      BY <2>1, <2>2, <2>3, Puts DEF TypeOK
    <2>5. Op("restore_symlink", n) \in Ops /\ command.todo \ {n} \in SUBSET Names
      BY <1>1, <2>2, OpKinds DEF Commands
    <2>6. /\ command' \in Commands /\ command'.at = "scripts" /\ command'.todo = command.todo \ {n}
          /\ command'.ops = command.ops \cup {Op("restore_symlink", n)} /\ command'.failed = command.failed
          /\ UNCHANGED <<backups, history>>
      BY <2>1, <2>5, Records DEF Forward
    <2>7. command'.todo \subseteq Linked(Scripts)'
      BY <1>1, <2>4, <2>6, Sides DEF Linked
    <2>8. TypeOK' /\ Shape'
      BY <1>1, <2>1, <2>4, <2>6, <2>7 DEF TypeOK, Shape, At, Forward, Newest
    <2>. QED BY <2>1, <2>2, <2>4, <2>6, <2>8, KeptBackups
  <1>3. CASE command.todo = {} /\ Advance("log", {}) /\ UNCHANGED backups
    <2>1. /\ command' \in Commands /\ command'.at = "log"
          /\ command'.ops = command.ops /\ command'.failed = command.failed
          /\ UNCHANGED <<disk, backups, history>>
      BY <1>1, <1>3 DEF Advance, Commands, Forward
    <2>2. TypeOK' /\ Shape'
      BY <1>1, <2>1 DEF TypeOK, Shape, At, Forward, Newest, disk
    <2>. QED BY <2>1, <2>2, KeptBackups DEF disk
  <1>. QED BY <1>2, <1>3 DEF RemoveScripts

\* What a migration leaves where it stops.
LEMMA StopsStep ==
  ASSUME TypeOK, Shape, Stops
  PROVE  /\ TypeOK' /\ Shape' /\ BackupsKept
         /\ command.at \in Forward /\ UNCHANGED <<backups, before, removed>>
         /\ \/ command' = Idle
            \/ command'.at = "log" /\ command'.ops = command.ops /\ command'.failed
         /\ \E S \in SUBSET Names : cut' = cut \cup S /\ \A m \in Names \ S : place'[m] = place[m]
         /\ place'[Config] = Link <=> place[Config] = Link
         /\ ConfigText' = ConfigText
               \/ (At("config") /\ (place[Config] # Link => ConfigText' = "torn"))
         /\ \A m \in Entries :
               m \in tmp' \/ (place'[m] = place[m] /\ (m \in tmp => place[m] = Link))
         /\ \A m \in Entries : place'[m] = Other => place[m] = Other
  <1>1. ASSUME NEW S \in SUBSET Names, Stop(S), command.at \in Forward
        PROVE  /\ command' \in Commands /\ command'.at \in {"idle", "log"}
               /\ \/ command' = Idle
                  \/ command'.at = "log" /\ command'.ops = command.ops /\ command'.failed
               /\ cut' = cut \cup S /\ UNCHANGED <<backups, before, removed>>
               /\ backups # << >> /\ ~Newest.logged
               /\ Shape' /\ BackupsKept
    <2>1. command' \in {Idle, [command EXCEPT !.at = "log", !.todo = {}, !.failed = TRUE]}
      BY <1>1 DEF Stop
    <2>2. ASSUME command' = Idle PROVE command' \in Commands /\ command'.at \in {"idle", "log"}
      BY <2>2, IdleCommand
    <2>3. ASSUME command' = [command EXCEPT !.at = "log", !.todo = {}, !.failed = TRUE]
          PROVE  /\ command' \in Commands /\ command'.at = "log" /\ command'.ops = command.ops
                 /\ command'.failed
      BY <2>3 DEF TypeOK, Commands, Forward
    <2>4. cut' = cut \cup S /\ UNCHANGED <<backups, before, removed>>
      BY <1>1 DEF Stop
    <2>5. backups # << >> /\ ~Newest.logged
      BY <1>1 DEF Shape, At, Forward
    <2>6. command'.at \in {"idle", "log"}
      BY <2>1, <2>2, <2>3, IdleCommand
    <2>. QED BY <2>1, <2>2, <2>3, <2>4, <2>5, <2>6, KeptBackups DEF Shape, At, Newest
  <1>2. ASSUME UNCHANGED disk
        PROVE  /\ \A m \in Names : place'[m] = place[m]
               /\ tmp' = tmp /\ target' = target /\ ConfigText' = ConfigText
               /\ place'[Config] = Link <=> place[Config] = Link
    BY <1>2 DEF disk, ConfigText
  <1>3. CASE StopInBackup \/ StopInScripts
    <2>1. Stop({}) /\ UNCHANGED disk /\ command.at \in Forward
      BY <1>3 DEF StopInBackup, StopInScripts, At, Forward
    <2>2. TypeOK'
      BY <1>1, <2>1 DEF TypeOK, disk
    <2>. QED BY <1>1, <1>2, <2>1, <2>2, Sides
  <1>4. CASE StopInConfig
    <2>1. At("config") /\ command.at \in Forward /\ {Config} \in SUBSET Names
      BY <1>4 DEF StopInConfig, At, Forward, Names
    <2>2. CASE Stop({}) /\ UNCHANGED disk
      <3>1. TypeOK'
        BY <1>1, <2>1, <2>2, Sides DEF TypeOK, disk
      <3>. QED BY <1>1, <1>2, <2>1, <2>2, <3>1, Sides
    <2>3. CASE Stop({Config}) /\ Written("torn")
      <3>1. /\ place' \in [Names -> Items] /\ \A n \in Names : Fits(n, place'[n])
            /\ target' \in AllTexts \cup {NoText}
            /\ place'[Config] = Link <=> place[Config] = Link
            /\ place[Config] # Link => ConfigText' = "torn"
            /\ \A n \in Names \ {Config} : place'[n] = place[n]
            /\ tmp' = tmp
        BY <2>3, TextKinds, Writes
      <3>2. TypeOK'
        BY <1>1, <2>1, <2>3, <3>1, Sides DEF TypeOK
      <3>. QED BY <1>1, <2>1, <2>3, <3>1, <3>2, Sides
    <2>. QED BY <1>4, <2>2, <2>3 DEF StopInConfig
  <1>5. CASE StopInFlatten
    <2>1. PICK n \in command.todo :
            \/ Stop({n}) /\ CopiedAndUnlinked(n)
            \/ Stop({}) /\ tmp' \in {tmp \ {n}, tmp \cup {n}} /\ UNCHANGED place
      BY <1>5 DEF StopInFlatten
    <2>2. At("flatten") /\ UNCHANGED target /\ command.at \in Forward
      BY <1>5 DEF StopInFlatten, At, Forward
    <2>3. n \in Entries /\ n \in Names /\ place[n] = Link /\ n # Config
      BY <2>2, Sides DEF Shape, Linked
    <2>4. Fits(n, Nothing) /\ {n} \in SUBSET Names
      BY <2>3, Sides DEF Fits
    <2>9. PICK S \in {{}, {n}} : Stop(S) /\ (S = {} => UNCHANGED place)
      BY <2>1
    <2>5. /\ place' \in [Names -> Items] /\ \A m \in Names : Fits(m, place'[m])
          /\ \A m \in Names \ {n} : place'[m] = place[m]
          /\ \/ place'[n] \in {Nothing, Link} /\ tmp' = tmp \cup {n}
             \/ place'[n] = Link /\ tmp' = tmp \ {n}
      <3>1. CASE CopiedAndUnlinked(n)
        BY <2>3, <2>4, <3>1, Puts DEF CopiedAndUnlinked, TypeOK
      <3>2. CASE tmp' \in {tmp \ {n}, tmp \cup {n}} /\ UNCHANGED place
        BY <2>3, <3>2 DEF TypeOK
      <3>. QED BY <2>1, <3>1, <3>2
    <2>6. TypeOK'
      BY <1>1, <2>2, <2>3, <2>4, <2>5, <2>9 DEF TypeOK
    <2>7. place'[Config] = place[Config] /\ ConfigText' = ConfigText
      BY <2>2, <2>3, <2>5, Sides DEF ConfigText
    <2>8. /\ \A m \in Entries :
                m \in tmp' \/ (place'[m] = place[m] /\ (m \in tmp => place[m] = Link))
          /\ \A m \in Entries : place'[m] = Other => place[m] = Other
      BY <2>3, <2>5, Kinds, Sides
    <2>10. S \in SUBSET Names /\ \A m \in Names \ S : place'[m] = place[m]
      BY <2>4, <2>5, <2>9
    <2>. QED BY <1>1, <2>2, <2>6, <2>7, <2>8, <2>9, <2>10
  <1>. QED BY <1>3, <1>4, <1>5 DEF Stops

\* The log is written, and replayed if a step has failed.
LEMMA LogStep ==
  ASSUME TypeOK, Shape, WriteLog
  PROVE  /\ TypeOK' /\ Shape' /\ BackupsKept
         /\ UNCHANGED <<disk, history>>
         /\ Newest'.logged /\ Newest'.log = command.ops
         /\ Newest'.complete = Newest.complete /\ Newest'.config = Newest.config
         /\ \/ command' = Idle
            \/ command'.at = "undo" /\ command'.undo = command.ops /\ command'.failed
  <1>. DEFINE b == [Newest EXCEPT !.logged = TRUE, !.log = command.ops]
  <1>1. /\ Replace(b) /\ UNCHANGED <<disk, history>>
        /\ command' = IF command.failed THEN [command EXCEPT !.at = "undo", !.undo = command.ops]
                      ELSE Idle
    BY DEF WriteLog
  <1>2. backups # << >> /\ Newest \in Backups /\ ~Newest.logged
    BY NewestType DEF WriteLog, Shape, At, Forward
  <1>3. /\ b \in Backups /\ b.logged /\ b.log = command.ops /\ b.complete = Newest.complete
        /\ b.config = Newest.config
    BY <1>2 DEF Backups, TypeOK, Commands
  <1>. HIDE DEF b
  <1>4. /\ backups' \in Seq(Backups) /\ backups' # << >> /\ Newest' = b
        /\ DOMAIN backups' = DOMAIN backups /\ Len(backups) \in DOMAIN backups
        /\ Len(backups') = Len(backups)
        /\ \A i \in DOMAIN backups \ {Len(backups)} : backups'[i] = backups[i]
    BY <1>1, <1>2, <1>3, Replaces DEF TypeOK
  <1>5. /\ command' \in Commands /\ command'.at \in {"idle", "undo"}
        /\ \/ command' = Idle
           \/ command'.at = "undo" /\ command'.undo = command.ops /\ command'.failed
        /\ command'.at = "undo" => command'.undo = command.ops
    BY <1>1, IdleCommand DEF TypeOK, Commands, Forward
  <1>6. TypeOK' /\ Shape'
    BY <1>1, <1>3, <1>4, <1>5 DEF TypeOK, disk, Shape, At, Forward
  <1>7. BackupsKept
    BY <1>2, <1>3, <1>4 DEF BackupsKept, Newest
  <1>. QED BY <1>1, <1>3, <1>4, <1>5, <1>6, <1>7

\* The log of the newest backup is replayed.
LEMMA RollbackStep ==
  ASSUME TypeOK, Shape, Rollback
  PROVE  /\ TypeOK' /\ Shape' /\ BackupsKept
         /\ UNCHANGED <<disk, backups, history>> /\ Newest.logged
         /\ command'.at = "undo" /\ command'.undo = Newest.log /\ ~command'.failed
  <1>1. /\ UNCHANGED <<disk, backups, history>> /\ Newest.logged /\ backups # << >>
        /\ command' = [Idle EXCEPT !.at = "undo", !.undo = Newest.log]
    BY DEF Rollback
  <1>2. Newest.log \in SUBSET Ops
    BY <1>1, NewestType DEF Backups
  <1>3. command' \in Commands /\ command'.at = "undo" /\ command'.undo = Newest.log /\ ~command'.failed
    BY <1>1, <1>2 DEF Idle, Commands
  <1>. QED BY <1>1, <1>3, KeptBackups DEF TypeOK, disk, Shape, At, Newest, Forward

\* What undoing an operation can lead to.
LEMMA Undoing ==
  ASSUME TypeOK, Shape, At("undo"), NEW op \in command.undo
  PROVE  /\ op \in Ops /\ op \in Newest.log /\ Newest.logged /\ op.name \in Names
         /\ \A item \in HalfUndone(op) \cup {Undone(op)} : Fits(op.name, item)
         /\ op.name \in Entries => op = Op("unflatten", op.name) /\ Undone(op) # Nothing
         /\ \A item \in HalfUndone(op) \cup {Undone(op)} :
               /\ item = Link => place[op.name] = Link \/ op.name # Config \/ Newest.config = Link
               /\ item = Other => place[op.name] = Other
  <1>1. /\ backups # << >> /\ Newest.logged /\ op \in Newest.log /\ op \in Ops /\ op.name \in Names
        /\ Newest.config \in ConfigItems
    BY OpKinds, NewestType DEF Shape, At, TypeOK, Commands, Backups
  <1>. DEFINE now == place[op.name]
  <1>2. now \in Items /\ Fits(op.name, now)
    BY <1>1 DEF TypeOK
  <1>3. /\ Undone(op) = now \/ HalfUndone(op) \subseteq {now, Nothing, File("torn")}
        /\ HalfUndone(op) \subseteq {now, Nothing, File("torn")}
        /\ File("torn") \in HalfUndone(op) => op.kind = "restore_file" \/ now = File("torn")
                                                \/ Nothing = File("torn")
    BY DEF HalfUndone
  <1>4. CASE op.name = Config
    <2>1. op.kind \in {"remove_file", "restore_file"}
      BY <1>1, <1>4, OpKinds, Sides
    <2>2. Undone(op) \in {now, Nothing, Newest.config}
      BY <2>1 DEF Undone
    <2>3. \A item \in HalfUndone(op) \cup {Undone(op)} : item \in ConfigItems
      BY <1>1, <1>2, <1>3, <1>4, <2>2, Kinds, TextKinds DEF Fits
    <2>4. Other \notin ConfigItems
      BY Kinds DEF ConfigItems
    <2>. QED BY <1>1, <1>3, <1>4, <2>2, <2>3, <2>4, Kinds, Sides DEF Fits
  <1>5. CASE op.name \in Entries
    <2>1. op.kind = "unflatten" /\ op = Op("unflatten", op.name) /\ op.name # Config /\ op.name \notin Scripts
      BY <1>1, <1>5, OpKinds, Sides
    <2>2. Undone(op) = IF now.is \in {"file", "nothing"} THEN Link ELSE now
      BY <2>1 DEF Undone
    <2>3. now \in {Nothing, Link, Other, File(NoText)}
      BY <1>2, <1>5 DEF Fits
    <2>4. Undone(op) \in {Link, Other} /\ (Undone(op) = Other => now = Other)
      BY <2>2, <2>3, Kinds
    <2>5. HalfUndone(op) \subseteq {now, Nothing}
      BY <2>1 DEF HalfUndone
    <2>. QED BY <1>1, <2>1, <2>3, <2>4, <2>5, Kinds DEF Fits
  <1>6. CASE op.name \in Scripts
    <2>1. op.kind = "restore_symlink" /\ op.name # Config /\ op.name \notin Entries
      BY <1>1, <1>6, OpKinds, Sides
    <2>2. Undone(op) = Link
      BY <2>1 DEF Undone
    <2>3. HalfUndone(op) \subseteq {now, Nothing}
      BY <2>1 DEF HalfUndone
    <2>4. now \in {Nothing, Link}
      BY <1>2, <1>6 DEF Fits
    <2>. QED BY <1>1, <2>1, <2>2, <2>3, <2>4, Kinds DEF Fits
  <1>. QED BY <1>1, <1>4, <1>5, <1>6, Sides

\* An operation is undone, or half undone.
LEMMA ReplayStep ==
  ASSUME TypeOK, Shape, Undo \/ UndoFails \/ DieInUndo
  PROVE  /\ At("undo") /\ TypeOK' /\ Shape' /\ BackupsKept
         /\ UNCHANGED <<target, tmp, backups, before, cut>>
         /\ \E op \in command.undo : \E item \in HalfUndone(op) \cup {Undone(op)} :
               /\ place'[op.name] = item /\ \A m \in Names \ {op.name} : place'[m] = place[m]
               /\ removed' = IF item = Nothing THEN removed ELSE removed \ {op.name}
               /\ \/ command' = Idle
                  \/ /\ command'.at = "undo" /\ command'.undo = command.undo \ {op}
                     /\ command'.failed = command.failed
                     /\ (item = Undone(op) /\ missed' = missed) \/ missed' = missed \cup {op.name}
  <1>1. /\ At("undo") /\ backups # << >> /\ Newest.logged /\ command.undo \subseteq Newest.log
        /\ command \in Commands
    BY DEF Undo, UndoFails, DieInUndo, Shape, At, TypeOK
  <1>2. PICK op \in command.undo : \E item \in HalfUndone(op) \cup {Undone(op)} :
          /\ Becomes(op.name, item)
          /\ \/ command' = Idle
             \/ /\ command' = [command EXCEPT !.undo = @ \ {op}]
                /\ (item = Undone(op) /\ missed' = missed) \/ missed' = missed \cup {op.name}
    <2>1. ASSUME Undo
          PROVE  \E op \in command.undo :
                   /\ Becomes(op.name, Undone(op)) /\ missed' = missed
                   /\ command' = [command EXCEPT !.undo = @ \ {op}]
      BY <2>1 DEF Undo
    <2>2. ASSUME UndoFails
          PROVE  \E op \in command.undo : \E item \in HalfUndone(op) :
                   /\ Becomes(op.name, item) /\ missed' = missed \cup {op.name}
                   /\ command' = [command EXCEPT !.undo = @ \ {op}]
      BY <2>2 DEF UndoFails
    <2>3. ASSUME DieInUndo
          PROVE  \E op \in command.undo : \E item \in HalfUndone(op) :
                   Becomes(op.name, item) /\ command' = Idle
      BY <2>3 DEF DieInUndo
    <2>. QED BY <2>1, <2>2, <2>3
  <1>. PICK item \in HalfUndone(op) \cup {Undone(op)} :
          /\ Becomes(op.name, item)
          /\ \/ command' = Idle
             \/ /\ command' = [command EXCEPT !.undo = @ \ {op}]
                /\ (item = Undone(op) /\ missed' = missed) \/ missed' = missed \cup {op.name}
    BY <1>2
  <1>3. op.name \in Names /\ Fits(op.name, item)
    BY <1>1, Undoing
  <1>4. /\ place' = [place EXCEPT ![op.name] = item]
        /\ removed' = IF item = Nothing THEN removed ELSE removed \ {op.name}
        /\ UNCHANGED <<target, tmp, backups, before, cut>>
    BY <1>2 DEF Becomes
  <1>5. /\ place' \in [Names -> Items] /\ \A m \in Names : Fits(m, place'[m])
        /\ place'[op.name] = item /\ \A m \in Names \ {op.name} : place'[m] = place[m]
    BY <1>3, <1>4, Puts DEF TypeOK
  <1>6. /\ command' \in Commands
        /\ \/ command' = Idle
           \/ /\ command'.at = "undo" /\ command'.undo = command.undo \ {op}
              /\ command'.failed = command.failed
              /\ (item = Undone(op) /\ missed' = missed) \/ missed' = missed \cup {op.name}
    <2>1. ASSUME command' = [command EXCEPT !.undo = @ \ {op}]
          PROVE  /\ command' \in Commands /\ command'.at = "undo"
                 /\ command'.undo = command.undo \ {op} /\ command'.failed = command.failed
      BY <1>1, <2>1 DEF Commands, At
    <2>. QED BY <2>1, IdleCommand
  <1>7. TypeOK'
    BY <1>4, <1>5, <1>6 DEF TypeOK
  <1>8. Shape'
    BY <1>1, <1>4, <1>6, IdleCommand DEF Shape, At, Newest, Forward
  <1>. QED BY <1>1, <1>4, <1>5, <1>6, <1>7, <1>8, KeptBackups

\* A command ends.
LEMMA EndStep ==
  ASSUME TypeOK, Shape, EndUndo \/ Die
  PROVE  /\ TypeOK' /\ Shape' /\ BackupsKept
         /\ command' = Idle /\ UNCHANGED <<disk, backups, history>>
  <1>1. command' = Idle /\ UNCHANGED <<disk, backups, history>>
    BY DEF EndUndo, Die
  <1>. QED BY <1>1, IdleCommand, KeptBackups DEF TypeOK, disk, Shape, At, Forward

\* A dry run, an hour, or nothing.
LEMMA QuietStep ==
  ASSUME TypeOK, Shape, DryRun \/ Expire \/ UNCHANGED vars
  PROVE  /\ TypeOK' /\ Shape' /\ BackupsKept
         /\ UNCHANGED <<disk, backups, command, history, missed>>
  <1>1. UNCHANGED <<disk, backups, command, history, missed>>
    BY DEF DryRun, Expire, vars
  <1>. QED
    BY <1>1, KeptBackups
       DEF TypeOK, disk, Shape, At, Newest, Linked, Saved, Existing, ConfigText

\* The user changes something.
LEMMA ChangeStep ==
  ASSUME TypeOK, Shape, EditConfig \/ Rearrange
  PROVE  /\ TypeOK' /\ Shape' /\ BackupsKept
         /\ At("idle") /\ before' = Unknown /\ UNCHANGED <<tmp, backups, command>>
         /\ \A m \in Entries : place'[m] = Nothing =>
               m \in removed' \/ (place[m] = Nothing /\ m \notin removed)
  <1>1. At("idle") /\ before' = Unknown /\ UNCHANGED <<tmp, backups, command>>
    BY DEF EditConfig, Rearrange, Change
  <1>2. CASE EditConfig
    <2>1. PICK text \in Texts :
            IF place[Config] = Link
            THEN target' = text /\ UNCHANGED place
            ELSE place' = [place EXCEPT ![Config] = File(text)] /\ UNCHANGED target
      BY <1>2 DEF EditConfig
    <2>2. text \in AllTexts /\ Fits(Config, File(text)) /\ UNCHANGED removed
      BY <1>2, Kinds, Sides, TextKinds DEF EditConfig, Fits
    <2>3. /\ place' \in [Names -> Items] /\ \A m \in Names : Fits(m, place'[m])
          /\ \A m \in Entries : place'[m] = place[m]
          /\ target' \in AllTexts \cup {NoText}
      <3>1. CASE place[Config] = Link
        BY <2>1, <2>2, <3>1 DEF TypeOK
      <3>2. CASE place[Config] # Link
        BY <2>1, <2>2, <3>2, Puts, Sides DEF TypeOK
      <3>. QED BY <3>1, <3>2
    <2>4. TypeOK' /\ Shape'
      BY <1>1, <2>3 DEF TypeOK, Shape, At, Newest, Forward
    <2>. QED BY <1>1, <2>2, <2>3, <2>4, KeptBackups
  <1>3. CASE Rearrange
    <2>1. PICK n \in Names, item \in Items :
            /\ Fits(n, item) /\ place' = [place EXCEPT ![n] = item]
            /\ \/ removed' = IF item = Nothing THEN removed \cup {n} ELSE removed \ {n}
               \/ n \notin Entries /\ UNCHANGED removed
      <3>1. ASSUME NEW n \in Entries, NEW item \in {Nothing, Link, Other, File(NoText)}
            PROVE  n \in Names /\ item \in Items /\ Fits(n, item)
        BY <3>1, Sides DEF Items, Fits
      <3>2. ASSUME NEW n \in Scripts, NEW item \in {Nothing, Link}
            PROVE  n \in Names /\ item \in Items /\ Fits(n, item) /\ n \notin Entries
        BY <3>2, Sides DEF Items, Fits
      <3>3. \/ \E n \in Entries : \E item \in {Nothing, Link, Other, File(NoText)} :
                 /\ place' = [place EXCEPT ![n] = item]
                 /\ removed' = IF item = Nothing THEN removed \cup {n} ELSE removed \ {n}
            \/ \E n \in Scripts : \E item \in {Nothing, Link} :
                 place' = [place EXCEPT ![n] = item] /\ UNCHANGED removed
        BY <1>3 DEF Rearrange
      <3>. QED BY <3>1, <3>2, <3>3
    <2>2. /\ place' \in [Names -> Items] /\ \A m \in Names : Fits(m, place'[m])
          /\ place'[n] = item /\ \A m \in Names \ {n} : place'[m] = place[m]
      BY <2>1, Puts DEF TypeOK
    <2>3. target' = target
      BY <1>3 DEF Rearrange
    <2>4. TypeOK' /\ Shape'
      BY <1>1, <2>2, <2>3 DEF TypeOK, Shape, At, Newest, Forward
    <2>5. \A m \in Entries : place'[m] = Nothing =>
             m \in removed' \/ (place[m] = Nothing /\ m \notin removed)
      BY <2>1, <2>2, Sides
    <2>. QED BY <1>1, <2>4, <2>5, KeptBackups
  <1>. QED BY <1>2, <1>3

LEMMA InitShape == Init => TypeOK /\ Shape
  <1>. SUFFICES ASSUME Init PROVE TypeOK /\ Shape
    OBVIOUS
  <1>1. place \in [Names -> Items] /\ \A n \in Names : Fits(n, place[n])
    <2>. DEFINE S == {Nothing, Link, Other} \cup {File(text) : text \in Texts \cup {NoText}}
    <2>1. place \in [Names -> S]
      BY DEF Init
    <2>2. \A n \in Names : Fits(n, place[n])
      <3>1. place[Config] \in {Nothing, Link} \cup {File(text) : text \in Texts}
        BY DEF Init
      <3>2. place[Config] \in ConfigItems
        BY <3>1, Kinds, TextKinds
      <3>. QED BY <3>2, Sides DEF Init, Fits
    <2>3. \A n \in Names : place[n] \in Items
      <3>. TAKE n \in Names
      <3>. QED BY <2>2, Sides, Zenon DEF Fits, Items
    <2>. HIDE DEF S
    <2>. QED BY <2>1, <2>2, <2>3
  <1>2. target \in AllTexts \cup {NoText}
    BY TextKinds DEF Init
  <1>3. backups \in Seq(Backups) /\ command = Idle
    BY DEF Init
  <1>. QED BY <1>1, <1>2, <1>3, IdleCommand DEF TypeOK, Shape, At, Forward

LEMMA ShapeStep == TypeOK /\ Shape /\ [Next]_vars => (TypeOK /\ Shape)'
  BY BeginStep, BackupStep, ConfigStep, FlattenStep, ScriptsStep, StopsStep, LogStep, RollbackStep,
     ReplayStep, EndStep, QuietStep, ChangeStep
     DEF Next, Run

-----------------------------------------------------------------------------
(* The entries. *)

LEMMA LogsKept == ASSUME BackupsKept, NEW n, InALog(n) PROVE InALog(n)'
  BY DEF BackupsKept, InALog

LEMMA EntriesStep ==
  ASSUME TypeOK, Shape, EntriesKept, [Next]_vars
  PROVE  EntriesKept'
  <1>1. ASSUME UNCHANGED <<place, tmp, removed>>, BackupsKept
        PROVE  EntriesKept'
    BY <1>1, LogsKept DEF EntriesKept
  <1>2. CASE Begin \/ Backup \/ WriteLog \/ Rollback \/ EndUndo \/ Die \/ DryRun \/ Expire \/ UNCHANGED vars
    BY <1>1, <1>2, BeginStep, BackupStep, LogStep, RollbackStep, EndStep, QuietStep DEF disk, history
  <1>3. CASE GenerateConfig
    <2>1. /\ \A n \in Entries : place'[n] = place[n]
          /\ UNCHANGED <<tmp, removed>> /\ BackupsKept
      BY <1>3, ConfigStep, Sides DEF history
    <2>. QED BY <2>1, LogsKept DEF EntriesKept
  <1>4. CASE Flatten
    <2>1. /\ UNCHANGED removed /\ BackupsKept
          /\ \/ \E n \in command.todo :
                  /\ place'[n] = File(NoText) /\ tmp' = tmp \ {n}
                  /\ \A m \in Names \ {n} : place'[m] = place[m]
             \/ UNCHANGED <<place, tmp>>
      BY <1>4, FlattenStep DEF history
    <2>2. CASE \E n \in command.todo :
                  /\ place'[n] = File(NoText) /\ tmp' = tmp \ {n}
                  /\ \A m \in Names \ {n} : place'[m] = place[m]
      BY <2>1, <2>2, LogsKept, Kinds, Sides DEF EntriesKept
    <2>. QED BY <1>1, <2>1, <2>2
  <1>5. CASE RemoveScripts
    <2>1. /\ \A n \in Entries : place'[n] = place[n]
          /\ UNCHANGED <<tmp, removed>> /\ BackupsKept
      <3>1. /\ UNCHANGED <<tmp, removed>> /\ BackupsKept
            /\ \/ \E n \in Scripts : \A m \in Names \ {n} : place'[m] = place[m]
               \/ UNCHANGED place
        BY <1>5, ScriptsStep DEF history
      <3>. QED BY <3>1, Sides
    <2>. QED BY <2>1, LogsKept DEF EntriesKept
  <1>6. CASE Stops
    <2>1. /\ \A m \in Entries :
               m \in tmp' \/ (place'[m] = place[m] /\ (m \in tmp => place[m] = Link))
          /\ UNCHANGED removed /\ BackupsKept
      BY <1>6, StopsStep
    <2>. QED BY <2>1, LogsKept, Kinds DEF EntriesKept
  <1>7. CASE Undo \/ UndoFails \/ DieInUndo
    <2>1. /\ At("undo") /\ BackupsKept /\ tmp' = tmp
          /\ \E op \in command.undo : \E item \in HalfUndone(op) \cup {Undone(op)} :
               /\ place'[op.name] = item /\ \A m \in Names \ {op.name} : place'[m] = place[m]
               /\ removed' = IF item = Nothing THEN removed ELSE removed \ {op.name}
      BY <1>7, ReplayStep
    <2>2. PICK op \in command.undo : \E item \in HalfUndone(op) \cup {Undone(op)} :
               /\ place'[op.name] = item /\ \A m \in Names \ {op.name} : place'[m] = place[m]
               /\ removed' = IF item = Nothing THEN removed ELSE removed \ {op.name}
      BY <2>1
    <2>3. op.name \in Entries => InALog(op.name)
      <3>1. backups # << >> /\ Newest.logged /\ op \in Newest.log
        BY <2>1, Undoing DEF Shape, At
      <3>2. op.name \in Entries => op = Op("unflatten", op.name)
        BY <2>1, Undoing
      <3>3. Len(backups) \in DOMAIN backups
        BY <3>1, NewestType
      <3>. QED BY <3>1, <3>2, <3>3 DEF InALog, Newest
    <2>4. op.name \in Entries => InALog(op.name)'
      BY <2>1, <2>3, LogsKept
    <2>. SUFFICES ASSUME NEW m \in Entries, m \notin removed'
                  PROVE  place'[m] # Nothing \/ m \in tmp' \/ InALog(m)'
      BY DEF EntriesKept
    <2>5. CASE m = op.name
      BY <2>4, <2>5
    <2>6. CASE m # op.name
      <3>1. place'[m] = place[m] /\ m \notin removed
        BY <2>2, <2>6, Sides
      <3>. QED BY <2>1, <3>1, LogsKept DEF EntriesKept
    <2>. QED BY <2>5, <2>6
  <1>8. CASE EditConfig \/ Rearrange
    <2>1. /\ BackupsKept /\ tmp' = tmp
          /\ \A m \in Entries : place'[m] = Nothing =>
               m \in removed' \/ (place[m] = Nothing /\ m \notin removed)
      BY <1>8, ChangeStep
    <2>. QED BY <2>1, LogsKept DEF EntriesKept
  <1>. QED
    BY <1>2, <1>3, <1>4, <1>5, <1>6, <1>7, <1>8 DEF Next, Run

\* An entry the user did not remove is there, or its copy is beside it, or a log has its
\* target: wherever flattening stops and whatever becomes of a rollback.
THEOREM EntriesKeptTheorem == Spec => []EntriesKept
  <1>. DEFINE Inv == TypeOK /\ Shape /\ EntriesKept
  <1>1. Init => Inv
    BY InitShape DEF Init, EntriesKept
  <1>2. Inv /\ [Next]_vars => Inv'
    BY ShapeStep, EntriesStep
  <1>. QED BY <1>1, <1>2, PTL DEF Spec

-----------------------------------------------------------------------------
(* The replay. *)

\* What an operation in a log says of the files before the migration.
Right(op) ==
    /\ op.kind = "remove_file" => before.place[Config] = Nothing \/ DanglingConfig
    /\ op.kind = "restore_file" =>
          Newest.complete /\ Newest.config = before.place[Config] /\ Newest.config # Nothing
    /\ op.kind \in {"unflatten", "restore_symlink"} => before.place[op.name] = Link

\* The log accounts for what is not as before.
Covers(ops) ==
    /\ \A op \in ops : Right(op)
    /\ \A n \in Names \ cut : place[n] = before.place[n] \/ \E op \in ops : op.name = n

AsBefore(n) == place[n] = before.place[n] \/ (n = Config /\ DanglingConfig)

\* Nobody else has changed anything since the newest migration began: its steps have yet to
\* come to what is unchanged, and the rest is in its log, or undone.
Restoring ==
    before # Unknown =>
      /\ backups # << >>
      /\ Newest.config = Link => before.place[Config] = Link
      /\ place[Config] = Link => before.place[Config] = Link
      /\ \A n \in Entries : place[n] = Other => before.place[n] = Other
      /\ At("backup") \/ At("config") =>
            target = before.target /\ \A n \in Names : place[n] = before.place[n]
      /\ At("flatten") => \A n \in command.todo \cup Scripts : place[n] = before.place[n]
      /\ At("scripts") => \A n \in command.todo : place[n] = before.place[n]
      /\ command.at \in Forward => Covers(command.ops)
      /\ command.at \notin Forward /\ Newest.logged => Covers(Newest.log)
      /\ At("undo") => \A op \in Newest.log \ command.undo : op.name \in missed \/ AsBefore(op.name)

\* Undoing leads back.
LEMMA UndoneAsBefore ==
  ASSUME TypeOK, Shape, Restoring, before # Unknown, At("undo"), NEW op \in command.undo
  PROVE  Undone(op) = before.place[op.name] \/ (op.name = Config /\ DanglingConfig)
  <1>1. op \in Ops /\ Right(op) /\ op.name \in Names
    BY Undoing DEF Restoring, Covers, At, Forward
  <1>2. CASE op.kind = "remove_file"
    <2>1. op.name = Config
      BY <1>1, <1>2, OpKinds
    <2>2. Undone(op) = IF Existing THEN Nothing ELSE place[Config]
      BY <1>2, <2>1 DEF Undone
    <2>3. CASE before.place[Config] = Nothing
      <3>1. place[Config] # Link
        BY <2>3, Kinds DEF Restoring
      <3>. QED BY <2>1, <2>2, <2>3, <3>1, ConfigTexts
    <2>. QED BY <1>1, <1>2, <2>1, <2>3 DEF Right
  <1>3. CASE op.kind = "restore_file"
    <2>1. op.name = Config /\ Undone(op) = Newest.config
      BY <1>1, <1>3, OpKinds DEF Undone, Right
    <2>. QED BY <1>1, <1>3, <2>1 DEF Right
  <1>4. CASE op.kind = "unflatten"
    <2>1. op.name \in Entries /\ before.place[op.name] = Link
      BY <1>1, <1>4, OpKinds DEF Right
    <2>2. place[op.name] \in {Nothing, Link, Other, File(NoText)} /\ place[op.name] # Other
      BY <2>1, Kinds, Sides DEF TypeOK, Fits, Restoring
    <2>3. Undone(op) = IF place[op.name].is \in {"file", "nothing"} THEN Link ELSE place[op.name]
      BY <1>4 DEF Undone
    <2>. QED BY <2>1, <2>2, <2>3, Kinds
  <1>5. CASE op.kind = "restore_symlink"
    BY <1>1, <1>5 DEF Right, Undone
  <1>. QED BY <1>1, <1>2, <1>3, <1>4, <1>5, OpKinds

\* What an operation says stays true with the newest backup and the history.
LEMMA SameRight ==
  ASSUME before' = before, Newest'.complete = Newest.complete, Newest'.config = Newest.config
  PROVE  (\A op : Right(op)' <=> Right(op)) /\ (DanglingConfig' <=> DanglingConfig)
  BY DEF Right, DanglingConfig

LEMMA RestoringStep ==
  ASSUME TypeOK, Shape, Restoring, [Next]_vars
  PROVE  Restoring'
  <1>1. CASE Begin
    <2>1. /\ command'.at = "backup" /\ Newest' = NewBackup /\ Shape' /\ TypeOK'
          /\ before' = [place |-> place, target |-> target] /\ UNCHANGED disk
      BY <1>1, BeginStep
    <2>2. before'.place = place' /\ before'.target = target' /\ backups' # << >> /\ command'.ops = {}
      BY <2>1 DEF disk, Shape, At
    <2>3. Newest'.config # Link
      BY <2>1, NewBackupType, Kinds
    <2>4. Covers(command.ops)'
      BY <2>2 DEF Covers
    <2>. QED BY <2>1, <2>2, <2>3, <2>4 DEF Restoring, At, Forward
  <1>. SUFFICES ASSUME ~Begin, before' # Unknown
                PROVE  Restoring'
    BY <1>1 DEF Restoring
  <1>2. CASE Backup
    <2>1. /\ At("backup") /\ UNCHANGED <<disk, history>> /\ Newest'.config = Saved
          /\ command'.at = "config" /\ Shape' /\ TypeOK'
      BY <1>2, BackupStep DEF Backup
    <2>2. /\ before' = before /\ before # Unknown /\ place' = place /\ target' = target /\ cut' = cut
          /\ \A n \in Names : place[n] = before.place[n] /\ target = before.target
          /\ backups' # << >> /\ command'.ops = {} /\ command.ops = {}
      BY <2>1 DEF disk, history, Restoring, Shape, At
    <2>3. Saved = Link => before.place[Config] = Link
      BY <2>2, Kinds, Sides DEF Saved
    <2>4. Covers(command.ops)'
      BY <2>2 DEF Covers
    <2>. QED BY <2>1, <2>2, <2>3, <2>4 DEF Restoring, At, Forward
  <1>3. ASSUME UNCHANGED <<before, backups>>
        PROVE  /\ \A op : Right(op)' <=> Right(op)
               /\ DanglingConfig' <=> DanglingConfig
               /\ Newest' = Newest /\ before # Unknown
    BY <1>3, SameRight DEF Newest
  <1>4. CASE GenerateConfig
    <2>1. /\ At("config") /\ UNCHANGED <<backups, history>> /\ command'.at = "flatten"
          /\ command'.ops = {UndoConfig} /\ command'.todo \subseteq Linked(Entries)
          /\ \A n \in Names \ {Config} : place'[n] = place[n]
          /\ place'[Config] = Link <=> place[Config] = Link
      BY <1>4, ConfigStep DEF GenerateConfig
    <2>2. /\ before' = before /\ before # Unknown /\ cut' = cut
          /\ target = before.target /\ \A n \in Names : place[n] = before.place[n]
          /\ Newest.complete /\ Newest.config = Saved /\ backups # << >>
      BY <2>1 DEF history, Restoring, Shape, At
    <2>3. Right(UndoConfig) /\ UndoConfig.name = Config
      <3>1. UndoConfig.name = Config
        BY OpKinds DEF UndoConfig
      <3>2. CASE Existing
        <4>1. UndoConfig.kind = "restore_file" /\ Saved = place[Config]
          BY <3>2, OpKinds DEF UndoConfig, Saved
        <4>2. place[Config] # Nothing
          BY <3>2, Kinds DEF Existing, ConfigText
        <4>3. before.place[Config] = place[Config]
          BY <2>2, Sides
        <4>4. /\ UndoConfig.kind # "remove_file"
              /\ UndoConfig.kind \notin {"unflatten", "restore_symlink"}
          BY <4>1
        <4>5. Newest.config = before.place[Config] /\ Newest.config # Nothing
          BY <2>2, <4>1, <4>2, <4>3
        <4>. QED BY <2>2, <3>1, <4>4, <4>5 DEF Right
      <3>3. CASE ~Existing
        <4>1. UndoConfig.kind = "remove_file"
          BY <3>3, OpKinds DEF UndoConfig
        <4>2. place[Config] = Nothing \/ (place[Config] = Link /\ target = NoText)
          BY <3>3, ConfigTexts DEF Existing, ConfigText
        <4>3. before.place[Config] = place[Config] /\ before.target = target
          BY <2>2, Sides
        <4>4. before.place[Config] = Nothing \/ DanglingConfig
          BY <4>2, <4>3 DEF DanglingConfig
        <4>5. /\ UndoConfig.kind # "restore_file"
              /\ UndoConfig.kind \notin {"unflatten", "restore_symlink"}
          BY <4>1
        <4>. QED BY <3>1, <4>4, <4>5 DEF Right
      <3>. QED BY <3>1, <3>2, <3>3
    <2>4. Covers(command.ops)'
      BY <1>3, <2>1, <2>2, <2>3 DEF Covers
    <2>5. \A n \in command'.todo \cup Scripts : place'[n] = before'.place[n]
      BY <2>1, <2>2, Sides DEF Linked
    <2>6. \A n \in Entries : place'[n] = Other => before'.place[n] = Other
      BY <2>1, <2>2, Sides
    <2>. QED BY <1>3, <2>1, <2>2, <2>4, <2>5, <2>6, Sides DEF Restoring, At, Forward
  <1>5. CASE Flatten
    <2>1. /\ At("flatten") /\ UNCHANGED <<backups, history>>
          /\ \/ \E n \in command.todo :
                 /\ n \in Entries /\ place[n] = Link
                 /\ place'[n] = File(NoText) /\ tmp' = tmp \ {n}
                 /\ \A m \in Names \ {n} : place'[m] = place[m]
                 /\ command'.ops = command.ops \cup {Op("unflatten", n)}
                 /\ command'.at = "flatten" /\ command'.todo = command.todo \ {n}
             \/ /\ UNCHANGED <<place, tmp>> /\ command'.ops = command.ops
                /\ command'.at = "scripts" /\ command'.todo = Linked(Scripts)
      BY <1>5, FlattenStep DEF Flatten
    <2>2. before' = before /\ cut' = cut /\ before # Unknown
      BY <2>1 DEF history
    <2>3. /\ Covers(command.ops) /\ backups # << >>
          /\ \A n \in command.todo \cup Scripts : place[n] = before.place[n]
          /\ command.todo \subseteq Entries
      BY <2>1, <2>2 DEF Restoring, At, Forward, Shape, Linked
    <2>4. CASE \E n \in command.todo :
                 /\ n \in Entries /\ place[n] = Link
                 /\ place'[n] = File(NoText) /\ tmp' = tmp \ {n}
                 /\ \A m \in Names \ {n} : place'[m] = place[m]
                 /\ command'.ops = command.ops \cup {Op("unflatten", n)}
                 /\ command'.at = "flatten" /\ command'.todo = command.todo \ {n}
      <3>1. PICK n \in command.todo :
                 /\ n \in Entries /\ place[n] = Link
                 /\ place'[n] = File(NoText)
                 /\ \A m \in Names \ {n} : place'[m] = place[m]
                 /\ command'.ops = command.ops \cup {Op("unflatten", n)}
                 /\ command'.at = "flatten" /\ command'.todo = command.todo \ {n}
        BY <2>4
      <3>2. Right(Op("unflatten", n)) /\ Op("unflatten", n).name = n
        BY <2>3, <3>1, OpKinds DEF Right
      <3>3. Covers(command.ops)'
        BY <1>3, <2>1, <2>2, <2>3, <3>1, <3>2 DEF Covers
      <3>4. \A m \in command'.todo \cup Scripts : place'[m] = before'.place[m]
        BY <2>2, <2>3, <3>1, Sides
      <3>5. /\ \A m \in Entries : place'[m] = Other => before'.place[m] = Other
            /\ place'[Config] = place[Config]
        BY <2>2, <3>1, Kinds, Sides DEF Restoring
      <3>. QED BY <1>3, <2>1, <2>2, <2>3, <3>1, <3>3, <3>4, <3>5 DEF Restoring, At, Forward
    <2>5. CASE /\ UNCHANGED <<place, tmp>> /\ command'.ops = command.ops
               /\ command'.at = "scripts" /\ command'.todo = Linked(Scripts)
      <3>1. Covers(command.ops)'
        BY <1>3, <2>1, <2>2, <2>3, <2>5 DEF Covers
      <3>2. \A m \in command'.todo : place'[m] = before'.place[m]
        BY <2>2, <2>3, <2>5 DEF Linked
      <3>. QED BY <1>3, <2>1, <2>2, <2>3, <2>5, <3>1, <3>2 DEF Restoring, At, Forward
    <2>. QED BY <2>1, <2>4, <2>5
  <1>6. CASE RemoveScripts
    <2>1. /\ At("scripts") /\ UNCHANGED <<backups, history>>
          /\ \/ \E n \in command.todo :
                 /\ n \in Scripts /\ place[n] = Link
                 /\ \A m \in Names \ {n} : place'[m] = place[m]
                 /\ command'.ops = command.ops \cup {Op("restore_symlink", n)}
                 /\ command'.at = "scripts" /\ command'.todo = command.todo \ {n}
             \/ UNCHANGED place /\ command'.ops = command.ops /\ command'.at = "log"
      BY <1>6, ScriptsStep DEF RemoveScripts
    <2>2. before' = before /\ cut' = cut /\ before # Unknown
      BY <2>1 DEF history
    <2>3. /\ Covers(command.ops) /\ backups # << >>
          /\ \A n \in command.todo : place[n] = before.place[n]
          /\ command.todo \subseteq Scripts
      BY <2>1, <2>2 DEF Restoring, At, Forward, Shape, Linked
    <2>4. CASE \E n \in command.todo :
                 /\ n \in Scripts /\ place[n] = Link
                 /\ \A m \in Names \ {n} : place'[m] = place[m]
                 /\ command'.ops = command.ops \cup {Op("restore_symlink", n)}
                 /\ command'.at = "scripts" /\ command'.todo = command.todo \ {n}
      <3>1. PICK n \in command.todo :
                 /\ n \in Scripts /\ place[n] = Link
                 /\ \A m \in Names \ {n} : place'[m] = place[m]
                 /\ command'.ops = command.ops \cup {Op("restore_symlink", n)}
                 /\ command'.at = "scripts" /\ command'.todo = command.todo \ {n}
        BY <2>4
      <3>2. Right(Op("restore_symlink", n)) /\ Op("restore_symlink", n).name = n
        BY <2>3, <3>1, OpKinds DEF Right
      <3>3. Covers(command.ops)'
        BY <1>3, <2>1, <2>2, <2>3, <3>1, <3>2 DEF Covers
      <3>4. \A m \in command'.todo : place'[m] = before'.place[m]
        BY <2>2, <2>3, <3>1, Sides
      <3>5. /\ \A m \in Entries : place'[m] = Other => before'.place[m] = Other
            /\ place'[Config] = place[Config]
        BY <2>2, <3>1, Kinds, Sides DEF Restoring
      <3>. QED BY <1>3, <2>1, <2>2, <2>3, <3>1, <3>3, <3>4, <3>5 DEF Restoring, At, Forward
    <2>5. CASE UNCHANGED place /\ command'.ops = command.ops /\ command'.at = "log"
      <3>1. Covers(command.ops)'
        BY <1>3, <2>1, <2>2, <2>3, <2>5 DEF Covers
      <3>. QED BY <1>3, <2>1, <2>2, <2>3, <2>5, <3>1 DEF Restoring, At, Forward
    <2>. QED BY <2>1, <2>4, <2>5
  <1>7. CASE Stops
    <2>1. /\ command.at \in Forward /\ UNCHANGED <<backups, before>>
          /\ command' = Idle \/ (command'.at = "log" /\ command'.ops = command.ops)
          /\ \E S \in SUBSET Names : cut' = cut \cup S /\ \A m \in Names \ S : place'[m] = place[m]
          /\ place'[Config] = Link <=> place[Config] = Link
          /\ \A m \in Entries : place'[m] = Other => place[m] = Other
      BY <1>7, StopsStep
    <2>2. /\ Covers(command.ops) /\ backups # << >> /\ ~Newest.logged /\ before # Unknown
      BY <2>1 DEF Restoring, Shape
    <2>3. /\ \A op \in command.ops : Right(op)'
          /\ \A n \in Names \ cut' : place'[n] = before.place[n] \/ \E op \in command.ops : op.name = n
      BY <1>3, <2>1, <2>2 DEF Covers
    <2>4. CASE command' = Idle
      BY <1>3, <2>1, <2>2, <2>4, IdleCommand DEF Restoring, At, Forward
    <2>5. CASE command'.at = "log" /\ command'.ops = command.ops
      <3>1. Covers(command.ops)'
        BY <2>1, <2>3, <2>5 DEF Covers
      <3>. QED BY <1>3, <2>1, <2>2, <2>5, <3>1 DEF Restoring, At, Forward
    <2>. QED BY <2>1, <2>4, <2>5
  <1>8. CASE WriteLog
    <2>1. /\ At("log") /\ UNCHANGED <<disk, history>>
          /\ Newest'.logged /\ Newest'.log = command.ops
          /\ Newest'.complete = Newest.complete /\ Newest'.config = Newest.config
          /\ \/ command' = Idle
             \/ command'.at = "undo" /\ command'.undo = command.ops
          /\ Shape'
      BY <1>8, LogStep DEF WriteLog
    <2>2. before' = before /\ cut' = cut /\ place' = place /\ target' = target /\ before # Unknown
      BY <2>1 DEF disk, history
    <2>3. Covers(command.ops) /\ backups # << >>
      BY <2>1, <2>2 DEF Restoring, At, Forward
    <2>4. \A op : Right(op)' <=> Right(op)
      BY <2>1, <2>2, SameRight
    <2>5. Covers(Newest.log)'
      BY <2>1, <2>2, <2>3, <2>4 DEF Covers
    <2>6. backups' # << >>
      BY <1>8, <2>3, Replaces, NewestType DEF WriteLog, Replace, TypeOK
    <2>7. command'.at \in {"idle", "undo"}
      BY <2>1, IdleCommand
    <2>. QED BY <2>1, <2>2, <2>5, <2>6, <2>7, IdleCommand DEF Restoring, At, Forward
  <1>9. CASE Rollback
    <2>1. /\ At("idle") /\ UNCHANGED <<disk, backups, history>> /\ Newest.logged
          /\ command'.at = "undo" /\ command'.undo = Newest.log
      BY <1>9, RollbackStep DEF Rollback
    <2>2. before' = before /\ cut' = cut /\ place' = place /\ target' = target /\ before # Unknown
      BY <2>1 DEF disk, history
    <2>3. Covers(Newest.log) /\ backups # << >>
      BY <2>1, <2>2 DEF Restoring, At, Forward
    <2>4. Covers(Newest.log)'
      BY <1>3, <2>1, <2>2, <2>3 DEF Covers
    <2>. QED BY <1>3, <2>1, <2>2, <2>3, <2>4 DEF Restoring, At, Forward
  <1>10. CASE Undo \/ UndoFails \/ DieInUndo
    <2>1. /\ At("undo") /\ UNCHANGED <<target, tmp, backups, before, cut>>
          /\ \E op \in command.undo : \E item \in HalfUndone(op) \cup {Undone(op)} :
               /\ place'[op.name] = item /\ \A m \in Names \ {op.name} : place'[m] = place[m]
               /\ \/ command' = Idle
                  \/ /\ command'.at = "undo" /\ command'.undo = command.undo \ {op}
                     /\ (item = Undone(op) /\ missed' = missed) \/ missed' = missed \cup {op.name}
      BY <1>10, ReplayStep
    <2>2. PICK op \in command.undo : \E item \in HalfUndone(op) \cup {Undone(op)} :
               /\ place'[op.name] = item /\ \A m \in Names \ {op.name} : place'[m] = place[m]
               /\ \/ command' = Idle
                  \/ /\ command'.at = "undo" /\ command'.undo = command.undo \ {op}
                     /\ (item = Undone(op) /\ missed' = missed) \/ missed' = missed \cup {op.name}
      BY <2>1
    <2>3. PICK item \in HalfUndone(op) \cup {Undone(op)} :
               /\ place'[op.name] = item /\ \A m \in Names \ {op.name} : place'[m] = place[m]
               /\ \/ command' = Idle
                  \/ /\ command'.at = "undo" /\ command'.undo = command.undo \ {op}
                     /\ (item = Undone(op) /\ missed' = missed) \/ missed' = missed \cup {op.name}
      BY <2>2
    <2>4. /\ before # Unknown /\ Newest.logged /\ backups # << >> /\ Covers(Newest.log)
          /\ op \in Newest.log /\ op.name \in Names /\ Newest' = Newest
      BY <1>3, <2>1, Undoing DEF Restoring, At, Forward
    <2>5. /\ item = Link => place[op.name] = Link \/ op.name # Config \/ Newest.config = Link
          /\ item = Other => place[op.name] = Other
      BY <2>1, Undoing
    <2>6. /\ place'[Config] = Link => before.place[Config] = Link
          /\ \A m \in Entries : place'[m] = Other => before.place[m] = Other
      BY <2>3, <2>4, <2>5, Sides DEF Restoring
    <2>7. Covers(Newest.log)'
      BY <1>3, <2>1, <2>3, <2>4 DEF Covers
    <2>8. CASE command' = Idle
      BY <1>3, <2>1, <2>4, <2>6, <2>7, <2>8, IdleCommand DEF Restoring, At, Forward
    <2>9. CASE /\ command'.at = "undo" /\ command'.undo = command.undo \ {op}
               /\ (item = Undone(op) /\ missed' = missed) \/ missed' = missed \cup {op.name}
      <3>1. ASSUME NEW o \in Newest.log, o \notin command.undo \ {op}
            PROVE  o.name \in missed' \/ AsBefore(o.name)'
        <4>1. CASE o.name = op.name
          <5>1. Undone(op) = before.place[op.name] \/ (op.name = Config /\ DanglingConfig)
            BY <2>1, <2>4, UndoneAsBefore
          <5>2. missed' = missed \cup {op.name} \/ place'[op.name] = Undone(op)
            BY <2>3, <2>9
          <5>. QED BY <1>3, <2>1, <4>1, <5>1, <5>2 DEF AsBefore
        <4>2. CASE o.name # op.name
          <5>1. o \notin command.undo
            BY <3>1, <4>2
          <5>2. o.name \in missed \/ AsBefore(o.name)
            BY <2>1, <2>4, <3>1, <5>1 DEF Restoring
          <5>3. o \in Ops /\ o.name \in Names
            BY <2>4, <3>1, NewestType, OpKinds DEF Backups
          <5>4. place'[o.name] = place[o.name] /\ missed \subseteq missed'
            BY <2>3, <2>9, <4>2, <5>3
          <5>. QED BY <1>3, <2>1, <5>2, <5>4 DEF AsBefore
        <4>. QED BY <4>1, <4>2
      <3>2. \A o \in (Newest.log)' \ command'.undo : o.name \in missed' \/ AsBefore(o.name)'
        BY <2>4, <2>9, <3>1
      <3>. QED BY <1>3, <2>1, <2>4, <2>6, <2>7, <2>9, <3>2 DEF Restoring, At, Forward
    <2>. QED BY <2>3, <2>8, <2>9
  <1>11. CASE EndUndo \/ Die
    <2>1. command' = Idle /\ UNCHANGED <<disk, backups, history>>
      BY <1>11, EndStep
    <2>2. /\ before' = before /\ cut' = cut /\ place' = place /\ target' = target /\ before # Unknown
      BY <2>1 DEF disk, history
    <2>3. Newest.logged => Covers(Newest.log)
      BY <2>2 DEF Restoring, Shape, At, Forward
    <2>4. (Newest.logged => Covers(Newest.log))'
      BY <1>3, <2>1, <2>2, <2>3 DEF Covers
    <2>. QED BY <1>3, <2>1, <2>2, <2>4, IdleCommand DEF Restoring, At, Forward
  <1>12. CASE DryRun \/ Expire \/ UNCHANGED vars
    <2>1. UNCHANGED <<disk, backups, command, history, missed>>
      BY <1>12, QuietStep
    <2>. QED
      BY <2>1 DEF disk, history, Restoring, At, Newest, Covers, Right, DanglingConfig, AsBefore
  <1>13. CASE EditConfig \/ Rearrange
    BY <1>13, ChangeStep
  <1>. QED
    BY <1>2, <1>4, <1>5, <1>6, <1>7, <1>8, <1>9, <1>10, <1>11, <1>12, <1>13 DEF Next, Run

LEMMA InitRestoring == Init => Restoring
  BY DEF Init, Restoring

LEMMA Restored ==
  ASSUME TypeOK, Shape, Restoring, EndUndo, before # Unknown
  PROVE  \A n \in Names \ (cut \cup missed) : AsBefore(n)
  <1>1. At("undo") /\ command.undo = {} /\ Newest.logged
    BY DEF EndUndo, Shape, At
  <1>2. Covers(Newest.log) /\ \A op \in Newest.log : op.name \in missed \/ AsBefore(op.name)
    BY <1>1 DEF Restoring, At, Forward
  <1>. QED BY <1>2 DEF Covers, AsBefore

\* Once a log is replayed every name has what it had before the migration, but for those a
\* step or an undo failed at: after any number of migrations, of rollbacks and of deaths in them.
THEOREM UndoRestoresTheorem == Spec => UndoRestores
  <1>. DEFINE Inv == TypeOK /\ Shape /\ Restoring
              Step == EndUndo /\ before # Unknown =>
                        \A n \in Names \ (cut \cup missed) :
                            \/ place[n] = before.place[n]
                            \/ n = Config /\ DanglingConfig
  <1>1. Init => Inv
    BY InitShape, InitRestoring
  <1>2. Inv /\ [Next]_vars => Inv'
    BY ShapeStep, RestoringStep
  <1>3. Inv => Step
    BY Restored DEF AsBefore
  <1>. QED BY <1>1, <1>2, <1>3, PTL DEF Spec, UndoRestores

-----------------------------------------------------------------------------
(* The texts. *)

TextBacked(text) ==
    \E i \in DOMAIN backups : backups[i].complete /\ backups[i].config.text = text

\* What a migration has yet to undo, should it fail.
ToUndo == IF At("undo") THEN command.undo ELSE command.ops

\* A text of the user that undoing might overwrite is in the backup.
ConfigBacked ==
    Migrating /\ place[Config] # Link /\ ConfigText \in Texts /\ (\E op \in ToUndo : op.name = Config)
      => Newest.complete /\ Newest.config.text = ConfigText

LEMMA BackedKept == ASSUME BackupsKept, NEW text, TextBacked(text) PROVE TextBacked(text)'
  BY DEF BackupsKept, TextBacked

LEMMA NewestBacks ==
  ASSUME TypeOK, backups # << >>, Newest.complete
  PROVE  TextBacked(Newest.config.text)
  BY NewestType DEF TextBacked, Newest

LEMMA SameText == ASSUME place'[Config] = place[Config], target' = target PROVE ConfigText' = ConfigText
  BY DEF ConfigText

LEMMA BackupsKeptStep == ASSUME TypeOK, Shape, [Next]_vars PROVE BackupsKept
  BY BeginStep, BackupStep, ConfigStep, FlattenStep, ScriptsStep, StopsStep, LogStep, RollbackStep,
     ReplayStep, EndStep, QuietStep, ChangeStep
     DEF Next, Run

\* What undoing leaves at config.toml.
LEMMA ConfigUndone ==
  ASSUME TypeOK, Shape, At("undo"), NEW op \in command.undo, op.name = Config,
         NEW item \in HalfUndone(op) \cup {Undone(op)}
  PROVE  item \in {place[Config], Nothing, File("torn")} \/ (Newest.complete /\ item = Newest.config)
  <1>1. op.kind \in {"remove_file", "restore_file"}
    BY Undoing, OpKinds, Sides
  <1>2. Undone(op) \in {place[Config], Nothing} \/ (Newest.complete /\ Undone(op) = Newest.config)
    BY <1>1 DEF Undone
  <1>. QED BY <1>2 DEF HalfUndone

LEMMA BackedStep ==
  ASSUME TypeOK, Shape, ConfigBacked, [Next]_vars
  PROVE  ConfigBacked'
  <1>. SUFFICES ASSUME Migrating', place'[Config] # Link, ConfigText' \in Texts,
                       NEW o \in ToUndo', o.name = Config
                PROVE  Newest'.complete /\ Newest'.config.text = ConfigText'
    BY DEF ConfigBacked
  <1>1. ASSUME command'.at \in Forward, command'.ops = {} PROVE FALSE
    BY <1>1 DEF ToUndo, At, Forward
  <1>2. CASE Begin \/ Backup
    <2>1. Shape' /\ command'.at \in {"backup", "config"}
      BY <1>2, BeginStep, BackupStep
    <2>. QED BY <1>1, <2>1 DEF Shape, At, Forward
  <1>3. CASE GenerateConfig
    BY <1>3, ConfigStep, TextKinds
  <1>4. CASE Flatten \/ RemoveScripts
    <2>1. /\ command.at \in {"flatten", "scripts"} /\ command'.at \in Forward
          /\ UNCHANGED <<target, backups>> /\ place'[Config] = place[Config]
          /\ \A op \in command'.ops : op \in command.ops \/ op.name # Config
      <3>1. CASE Flatten
        <4>1. command.at = "flatten" /\ command'.at \in Forward /\ UNCHANGED <<target, backups>>
          BY <3>1, FlattenStep DEF Flatten, At, Forward
        <4>2. \/ \E n \in Entries : /\ \A m \in Names \ {n} : place'[m] = place[m]
                                 /\ command'.ops = command.ops \cup {Op("unflatten", n)}
              \/ UNCHANGED place /\ command'.ops = command.ops
          BY <3>1, FlattenStep
        <4>. QED BY <4>1, <4>2, OpKinds, Sides
      <3>2. CASE RemoveScripts
        <4>1. command.at = "scripts" /\ command'.at \in Forward /\ UNCHANGED <<target, backups>>
          BY <3>2, ScriptsStep DEF RemoveScripts, At, Forward
        <4>2. \/ \E n \in Scripts : /\ \A m \in Names \ {n} : place'[m] = place[m]
                                 /\ command'.ops = command.ops \cup {Op("restore_symlink", n)}
              \/ UNCHANGED place /\ command'.ops = command.ops
          BY <3>2, ScriptsStep
        <4>. QED BY <4>1, <4>2, OpKinds, Sides
      <3>. QED BY <1>4, <3>1, <3>2
    <2>2. o \in command.ops /\ ConfigText' = ConfigText /\ Newest' = Newest
      BY <2>1, SameText DEF ToUndo, At, Forward, Newest
    <2>. QED BY <2>1, <2>2 DEF ConfigBacked, Migrating, ToUndo, At
  <1>5. CASE Stops
    <2>1. /\ command.at \in Forward /\ command'.at = "log" /\ command'.ops = command.ops
          /\ UNCHANGED backups /\ (place'[Config] = Link <=> place[Config] = Link)
          /\ ConfigText' = ConfigText \/ At("config")
      BY <1>5, StopsStep, IdleCommand DEF Migrating, At
    <2>2. o \in command.ops /\ ~At("config") /\ Newest' = Newest
      BY <1>1, <2>1 DEF ToUndo, At, Forward, Shape, Newest
    <2>. QED BY <2>1, <2>2 DEF ConfigBacked, Migrating, ToUndo, At, Forward
  <1>6. CASE WriteLog
    <2>1. /\ At("log") /\ UNCHANGED disk
          /\ Newest'.complete = Newest.complete /\ Newest'.config = Newest.config
          /\ command'.at = "undo" /\ command'.undo = command.ops
      BY <1>6, LogStep, IdleCommand DEF WriteLog, Migrating, At
    <2>2. o \in command.ops /\ ConfigText' = ConfigText /\ place' = place
      BY <2>1, SameText DEF ToUndo, At, disk
    <2>. QED BY <2>1, <2>2 DEF ConfigBacked, Migrating, ToUndo, At
  <1>7. CASE Undo \/ UndoFails \/ DieInUndo
    <2>1. PICK op \in command.undo : \E item \in HalfUndone(op) \cup {Undone(op)} :
            /\ place'[op.name] = item /\ \A m \in Names \ {op.name} : place'[m] = place[m]
            /\ \/ command' = Idle
               \/ /\ command'.at = "undo" /\ command'.undo = command.undo \ {op}
                  /\ command'.failed = command.failed
      BY <1>7, ReplayStep
    <2>2. PICK item \in HalfUndone(op) \cup {Undone(op)} :
            /\ place'[op.name] = item /\ \A m \in Names \ {op.name} : place'[m] = place[m]
            /\ command'.at = "undo" /\ command'.undo = command.undo \ {op}
            /\ command'.failed = command.failed
      BY <2>1, IdleCommand DEF Migrating, At
    <2>3. At("undo") /\ UNCHANGED <<target, backups>> /\ Newest' = Newest /\ o \in command.undo
      BY <1>7, <2>2, ReplayStep DEF ToUndo, At, Newest
    <2>4. Migrating /\ ToUndo = command.undo
      BY <2>2, <2>3 DEF Migrating, At, ToUndo
    <2>5. CASE place'[Config] = place[Config]
      BY <2>3, <2>4, <2>5, SameText DEF ConfigBacked
    <2>6. CASE place'[Config] # place[Config]
      <3>1. op.name = Config /\ item = place'[Config]
        BY <2>2, <2>6, Sides
      <3>2. item \in {Nothing, File("torn")} \/ (Newest.complete /\ item = Newest.config)
        BY <2>3, <2>6, <3>1, ConfigUndone
      <3>3. ConfigText' = item.text
        BY <3>1 DEF ConfigText
      <3>4. item \notin {Nothing, File("torn")}
        BY <3>3, Kinds, TextKinds
      <3>. QED BY <2>3, <3>2, <3>3, <3>4
    <2>. QED BY <2>5, <2>6
  <1>8. CASE Rollback
    BY <1>8, RollbackStep DEF Migrating, At
  <1>9. CASE EndUndo \/ Die
    BY <1>9, EndStep, IdleCommand DEF Migrating, At
  <1>10. CASE DryRun \/ Expire \/ UNCHANGED vars
    BY <1>10, QuietStep, SameText DEF disk, ConfigBacked, Migrating, ToUndo, At, Newest
  <1>11. CASE EditConfig \/ Rearrange
    BY <1>11, ChangeStep DEF Migrating, At
  <1>. QED
    BY <1>2, <1>3, <1>4, <1>5, <1>6, <1>7, <1>8, <1>9, <1>10, <1>11 DEF Next, Run

LEMMA TextsStep ==
  ASSUME TypeOK, Shape, ConfigBacked, [Next]_vars, Migrating, place[Config] # Link
  PROVE  UserTexts \subseteq UserTexts'
  <1>1. BackupsKept
    BY BackupsKeptStep
  <1>2. \A text : text \in UserTexts <=> text \in Texts /\ (text = ConfigText \/ TextBacked(text))
    BY DEF UserTexts, TextBacked
  <1>3. \A text : text \in UserTexts' <=> text \in Texts /\ (text = ConfigText' \/ TextBacked(text)')
    BY DEF UserTexts, TextBacked
  <1>. SUFFICES ASSUME NEW text \in Texts, text = ConfigText
                PROVE  text = ConfigText' \/ TextBacked(text)
    BY <1>1, <1>2, <1>3, BackedKept
  <1>4. CASE At("config") /\ (GenerateConfig \/ Stops)
    <2>1. backups # << >> /\ Newest.complete /\ Newest.config = Saved
      BY <1>4 DEF Shape, At
    <2>2. Existing
      BY TextKinds DEF Existing
    <2>3. Saved.text = ConfigText
      BY <2>2 DEF Saved, ConfigText
    <2>. QED BY <2>1, <2>3, NewestBacks
  <1>5. CASE Stops /\ ~At("config")
    BY <1>5, StopsStep
  <1>6. CASE Undo \/ UndoFails \/ DieInUndo
    <2>1. PICK op \in command.undo : \A m \in Names \ {op.name} : place'[m] = place[m]
      BY <1>6, ReplayStep
    <2>2. At("undo") /\ target' = target /\ backups # << >>
      BY <1>6, ReplayStep DEF Shape, At
    <2>3. CASE op.name = Config
      BY <2>2, <2>3, NewestBacks DEF ConfigBacked, ToUndo
    <2>4. CASE op.name # Config
      BY <2>1, <2>2, <2>4, SameText, Sides
    <2>. QED BY <2>3, <2>4
  <1>7. CASE Backup \/ Flatten \/ RemoveScripts \/ WriteLog \/ Rollback \/ EndUndo \/ Die
               \/ DryRun \/ Expire \/ UNCHANGED vars
    <2>1. place'[Config] = place[Config] /\ target' = target
      <3>1. CASE Flatten
        BY <3>1, FlattenStep, Sides
      <3>2. CASE RemoveScripts
        BY <3>2, ScriptsStep, Sides
      <3>3. CASE Backup \/ WriteLog \/ Rollback \/ EndUndo \/ Die \/ DryRun \/ Expire \/ UNCHANGED vars
        BY <3>3, BackupStep, LogStep, RollbackStep, EndStep, QuietStep DEF disk
      <3>. QED BY <1>7, <3>1, <3>2, <3>3
    <2>. QED BY <2>1, SameText
  <1>8. ~Begin /\ ~EditConfig /\ ~Rearrange
    BY DEF Migrating, At, Begin, EditConfig, Rearrange, Change
  <1>9. GenerateConfig => At("config")
    BY DEF GenerateConfig
  <1>. QED BY <1>4, <1>5, <1>6, <1>7, <1>8, <1>9 DEF Next, Run

\* Wherever a migration stops, and in its own rollback, what the user wrote in config.toml is
\* there or in a backup that is complete.
THEOREM TextsKeptTheorem == Spec => TextsKept
  <1>. DEFINE Inv == TypeOK /\ Shape /\ ConfigBacked
              Step == Migrating /\ place[Config] # Link => UserTexts \subseteq UserTexts'
  <1>1. Init => Inv
    BY InitShape, IdleCommand DEF Init, ConfigBacked, Migrating, At
  <1>2. Inv /\ [Next]_vars => Inv'
    BY ShapeStep, BackedStep
  <1>3. Inv /\ [Next]_vars => [Step]_vars
    BY TextsStep
  <1>. QED BY <1>1, <1>2, <1>3, PTL DEF Spec, TextsKept
=============================================================================
