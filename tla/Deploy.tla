-------------------------------- MODULE Deploy --------------------------------
(***************************************************************************)
(* `lh deploy` and `lh deploy --rollback` for one profile: the snapshot,   *)
(* the links from the agent's config dir into the profile source and the   *)
(* ledger that says which of them the harness owns, the skills with a      *)
(* ledger of their own, the config document that other tools write to as   *)
(* well, and the global link.  One command runs at a time and may die at   *)
(* any step; agents, tools and the user change the files meanwhile.        *)
(***************************************************************************)
EXTENDS Naturals

CONSTANTS Assets,      \* names a profile source may have, linked one by one
          Document,    \* the asset that is the agent's config document
          Skills,      \* skills, linked under the native root
          Global,      \* the link at the agent's default config dir
          Entries,     \* what other tools write into the document
          NoLedger,    \* no ledger, or one that cannot be parsed
          NoText, Unknown,
          MaxChanges,  \* changes by others
          MaxDeaths    \* commands that die

ASSUME DeployAssumption ==
    /\ Document \in Assets /\ Global \notin Assets \cup Skills /\ Assets \cap Skills = {}
    /\ {MaxChanges, MaxDeaths} \subseteq Nat
    /\ \A names \in SUBSET Skills : names # NoLedger
    /\ \A text \in SUBSET Entries : text # NoText

VARIABLES source,       \* the names the profile source has
          sourceText,   \* the text of its document
          place,        \* what is at each name of the config dir
          bak,          \* the text of its .bak
          ledger, skillLedger,
          snapshot,     \* the newest one
          command,      \* the command that runs
          written, changes, deaths,
          before,       \* history: the config dir when the snapshot was taken
          served,       \* history: what the document had then, and was added since
          late,         \* history: what was added while a displaced text was carried
          torn          \* history: a command died, and was not rolled back since

disk == <<source, sourceText, place, bak, ledger, skillLedger>>
history == <<before, served, late, torn>>
vars == <<disk, snapshot, command, written, changes, deaths, history>>

Names == Assets \cup Skills \cup {Global}

Nothing == [is |-> "nothing", text |-> {}]
Link == [is |-> "link", text |-> {}]
File(text) == [is |-> "file", text |-> text]

Idle == [at |-> "idle", of |-> Assets, todo |-> {}, plan |-> {}, owned |-> {},
         carried |-> NoText, existing |-> {}, stamp |-> NoText]
At(step) == command.at = step
Goto(step, names) == command' = [command EXCEPT !.at = step, !.todo = names]

NoSnapshot == [complete |-> FALSE, files |-> << >>, ledger |-> NoLedger, skillLedger |-> {},
               torn |-> FALSE]
Present == [place |-> place, ledger |-> ledger, skillLedger |-> skillLedger]

\* What is read at the document's path, and what its stamp tells.
Text == IF place[Document] = Link THEN sourceText ELSE place[Document].text
Stamp == IF place[Document] = Nothing THEN NoText ELSE Text

-----------------------------------------------------------------------------
(* The plan. *)

\* Mutant: a ledger that is not there owns nothing.
OwnedRecorded == IF ledger = NoLedger THEN {} ELSE ledger

\* Without a ledger every link into the source is adopted.
Owned == IF ledger = NoLedger THEN {n \in Assets : place[n] = Link} ELSE ledger

\* A skill is linked where nothing is, or where the ledger owns the link.
Admitted ==
    /\ skillLedger # NoLedger
    /\ \A k \in source \cap Skills : place[k] = Nothing \/ (place[k] = Link /\ k \in skillLedger)

\* Mutant: what the deploy is going to link.
TargetsLinked == source \cup {Document, Global}

\* What the snapshot records, apart from the ledgers.
Targets == source \cup skillLedger \cup {Document, Global}

Taken == [complete |-> TRUE, files |-> [n \in Targets |-> place[n]], ledger |-> ledger,
          skillLedger |-> skillLedger, torn |-> torn]

-----------------------------------------------------------------------------
(* lh deploy. *)

\* The snapshot, with which --snapshot is done.
Snapshot ==
    /\ At("idle") /\ Admitted
    /\ snapshot' = Taken /\ before' = Present /\ served' = Text /\ late' = {}
    /\ command' \in {Idle, [Idle EXCEPT !.at = "plan"]}
    /\ UNCHANGED <<disk, written, changes, deaths, torn>>

\* All is planned, and refused, before anything is linked.
Plan ==
    /\ At("plan")
    /\ LET owned == Owned \cup skillLedger
       IN command' = IF ~Admitted THEN Idle
                     ELSE [command EXCEPT !.at = "prune", !.plan = source, !.owned = owned,
                                          !.todo = (owned \cap Assets) \ source]
    /\ UNCHANGED <<disk, snapshot, written, changes, deaths, history>>

\* An owned link that is not generated any more goes; a file in its place does not.
Prune ==
    /\ At("prune")
    /\ \/ \E n \in command.todo :
            /\ place' = IF place[n] = Link THEN [place EXCEPT ![n] = Nothing] ELSE place
            /\ Goto("prune", command.todo \ {n})
       \/ /\ command.todo = {}
          /\ Goto("link", command.plan \cap command.of) /\ UNCHANGED place
    /\ UNCHANGED <<source, sourceText, bak, ledger, skillLedger, snapshot, written, changes,
                   deaths, history>>

Displaces(n) == place[n].is = "file"
SetAside(n) == bak' = IF Displaces(n) THEN [bak EXCEPT ![n] = place[n].text] ELSE bak

\* ensure_symlink: a file in the way is renamed; the text of the document is carried on.
LinkName ==
    /\ At("link")
    /\ \/ \E n \in command.todo :
            /\ SetAside(n)
            /\ place' = [place EXCEPT ![n] = Link]
            /\ command' = [command EXCEPT !.todo = @ \ {n},
                   !.carried = IF n = Document /\ Displaces(n) THEN place[n].text ELSE @]
       \/ /\ command.todo = {}
          /\ Goto("ledger", {}) /\ UNCHANGED <<place, bak>>
    /\ UNCHANGED <<source, sourceText, ledger, skillLedger, snapshot, written, changes, deaths,
                   history>>

\* The assets' ledger after their links, and then the same for the skills.
WriteLedger ==
    /\ At("ledger")
    /\ LET generated == command.plan \cap command.of
       IN IF command.of = Assets
          THEN /\ ledger' = generated
               /\ command' = [command EXCEPT !.at = "prune", !.of = Skills,
                                             !.todo = (command.owned \cap Skills) \ command.plan]
               /\ UNCHANGED skillLedger
          ELSE skillLedger' = generated /\ Goto("read", {}) /\ UNCHANGED ledger
    /\ UNCHANGED <<source, sourceText, place, bak, snapshot, written, changes, deaths, history>>

\* Mutant: the document as it is on disk.
ExistingOnDisk == Text

\* What was displaced replaces what is read through the link.
Existing == IF command.carried = NoText THEN Text ELSE command.carried

\* With neither hooks nor servers configured there is nothing to write, and what was
\* displaced stays in the .bak.
ReadDocument ==
    /\ At("read")
    /\ \/ command' = [command EXCEPT !.at = "apply", !.existing = Existing, !.stamp = Stamp]
       \/ Goto("global", {})
    /\ UNCHANGED <<disk, snapshot, written, changes, deaths, history>>

\* Refused if the document has moved, or another one of the plan; else the merge is written,
\* through the link if it is one, and the text it replaces is set aside if the merge had to
\* repair it.  A document that nobody needs any more is removed.
Apply ==
    /\ At("apply")
    /\ \/ command' = Idle /\ UNCHANGED <<sourceText, place, bak>>
       \/ /\ Stamp = command.stamp /\ Goto("global", {})
          /\ \/ UNCHANGED bak
             \/ Stamp # NoText /\ bak' = [bak EXCEPT ![Document] = Text]
          /\ \/ /\ place[Document] = Link
                /\ sourceText' = command.existing /\ UNCHANGED place
             \/ /\ place[Document] # Link
                /\ place' = [place EXCEPT ![Document] = File(command.existing)]
                /\ UNCHANGED sourceText
             \/ /\ command.existing = {} /\ Stamp # NoText
                /\ place' = [place EXCEPT ![Document] = Nothing]
                /\ UNCHANGED sourceText
    /\ UNCHANGED <<source, ledger, skillLedger, snapshot, written, changes, deaths, history>>

LinkGlobal ==
    /\ At("global")
    /\ SetAside(Global)
    /\ place' = [place EXCEPT ![Global] = Link]
    /\ command' = Idle
    /\ UNCHANGED <<source, sourceText, ledger, skillLedger, snapshot, written, changes, deaths,
                   history>>

-----------------------------------------------------------------------------
(* lh deploy --rollback. *)

Recorded(names) == names \cap DOMAIN snapshot.files

\* Whatever happened since: nothing is recorded of what the rollback replaces.
Rollback ==
    /\ At("idle") /\ snapshot.complete
    /\ command' = [Idle EXCEPT !.at = "restore", !.todo = Recorded(Assets)]
    /\ UNCHANGED <<disk, snapshot, written, changes, deaths, history>>

Restore ==
    /\ At("restore")
    /\ \E n \in command.todo :
        /\ place' = [place EXCEPT ![n] = snapshot.files[n]]
        /\ command' = [command EXCEPT !.todo = @ \ {n}]
    /\ UNCHANGED <<source, sourceText, bak, ledger, skillLedger, snapshot, written, changes,
                   deaths, history>>

RestoreLedger ==
    /\ At("restore") /\ command.todo = {} /\ command.of = Assets
    /\ ledger' = snapshot.ledger
    /\ command' = [command EXCEPT !.of = Skills, !.todo = Recorded(Skills)]
    /\ UNCHANGED <<source, sourceText, place, bak, skillLedger, snapshot, written, changes,
                   deaths, history>>

\* The skills' ledger and the global link are the last two entries.
EndRestore ==
    /\ At("restore") /\ command.todo = {} /\ command.of = Skills
    /\ skillLedger' = snapshot.skillLedger
    /\ place' = [place EXCEPT ![Global] = snapshot.files[Global]]
    /\ command' = Idle /\ torn' = snapshot.torn
    /\ UNCHANGED <<source, sourceText, bak, ledger, snapshot, written, changes, deaths, before, served,
                   late>>

-----------------------------------------------------------------------------
(* Deaths, and what others do. *)

Dies == deaths < MaxDeaths /\ deaths' = deaths + 1 /\ command' = Idle
        /\ UNCHANGED <<source, sourceText, written, changes, served, late>>

\* Between two steps, or between the renaming of a file and the link in its place.
Die ==
    /\ Dies /\ ~At("idle") /\ torn' = TRUE
    /\ \/ UNCHANGED <<place, bak>>
       \/ \E n \in command.todo :
            /\ At("link") /\ Displaces(n)
            /\ SetAside(n) /\ place' = [place EXCEPT ![n] = Nothing]
    /\ UNCHANGED <<ledger, skillLedger, snapshot, before>>

\* In the middle of a ledger.
DieInLedger ==
    /\ Dies /\ At("ledger") /\ torn' = TRUE
    /\ \/ command.of = Assets /\ ledger' = NoLedger /\ UNCHANGED skillLedger
       \/ /\ command.of = Skills /\ (command.plan \cup command.owned) \cap Skills # {}
          /\ skillLedger' = NoLedger /\ UNCHANGED ledger
    /\ UNCHANGED <<place, bak, snapshot, before>>

\* In the snapshot, before its manifest.
DieInSnapshot ==
    /\ Dies /\ At("idle") /\ Admitted
    /\ snapshot' = NoSnapshot /\ before' = Unknown
    /\ UNCHANGED <<place, bak, ledger, skillLedger, torn>>

Change ==
    /\ changes < MaxChanges /\ changes' = changes + 1
    /\ before' = Unknown
    /\ UNCHANGED <<bak, ledger, skillLedger, snapshot, command, deaths, torn>>

\* The profile source, between two deploys.
EditSource ==
    /\ Change /\ At("idle")
    /\ \E n \in (Assets \cup Skills) \ {Document} :
        source' = IF n \in source THEN source \ {n} ELSE source \cup {n}
    /\ UNCHANGED <<sourceText, place, written, served, late>>

\* The document was displaced, and what is in its place has not been read yet.
Unread == command.carried # NoText /\ command.at \in {"prune", "link", "ledger", "read"}

\* Another tool adds an entry to the document, in place or with a file of its own.
WriteEntry ==
    /\ Change
    /\ \E e \in Entries \ written :
        /\ written' = written \cup {e} /\ served' = served \cup {e}
        /\ late' = IF Unread THEN late \cup {e} ELSE late
        /\ \/ /\ place[Document] = Link
              /\ sourceText' = sourceText \cup {e} /\ UNCHANGED place
           \/ place' = [place EXCEPT ![Document] = File(Text \cup {e})] /\ UNCHANGED sourceText
    /\ UNCHANGED source

\* The user puts a file of their own where a link belongs.
PutFile ==
    /\ Change
    /\ \E n \in (Assets \cup Skills) \ {Document} :
        place[n].is # "file" /\ place' = [place EXCEPT ![n] = File({})]
    /\ UNCHANGED <<source, sourceText, written, served, late>>

-----------------------------------------------------------------------------
\* A machine without a ledger, with or without links of the time before it.
Init ==
    /\ source \in SUBSET (Assets \cup Skills) /\ sourceText = {}
    /\ place \in [Names -> {Nothing, Link, File({})}]
    /\ \A n \in Skills : place[n] = Nothing
    /\ place[Global] # Link
    /\ place[Document] = Link => Document \in source
    /\ bak = [n \in Names |-> {}]
    /\ ledger = NoLedger /\ skillLedger = {}
    /\ snapshot = NoSnapshot /\ command = Idle
    /\ written = {} /\ changes = 0 /\ deaths = 0
    /\ before = Unknown /\ served = {} /\ late = {} /\ torn = FALSE

Run ==
    Snapshot \/ Plan \/ Prune \/ LinkName \/ WriteLedger \/ ReadDocument \/ Apply \/ LinkGlobal

Next ==
    \/ Run \/ Rollback \/ Restore \/ RestoreLedger \/ EndRestore
    \/ Die \/ DieInLedger \/ DieInSnapshot
    \/ EditSource \/ WriteEntry \/ PutFile

Spec == Init /\ [][Next]_vars

-----------------------------------------------------------------------------
(* Properties. *)

\* What a deploy has to leave in the document.
Owed == served \ late

\* A deploy that merges the document leaves in it every entry that was there when the deploy
\* began, and those written since, although it may have displaced the file they were in;
\* except those written after it was displaced and before it is read.
DocumentKept == [][Apply /\ command'.at = "global" => Owed \subseteq Text']_vars

\* Without the exception: not so, what was displaced replaces what is read.
DocumentKeptAlways == [][Apply /\ command'.at = "global" => served \subseteq Text']_vars

\* An asset link the harness owned, and the snapshot has not.
Retracted(n) ==
    /\ before.place[n] = Link /\ n \in Assets \ DOMAIN snapshot.files
    /\ before.ledger = NoLedger \/ n \in before.ledger

\* A rollback puts back what was there before the deploy, wherever that ended or died, when
\* nobody else has changed anything since; except the asset links the deploy retracted.
RollbackRestores ==
    [][EndRestore /\ before # Unknown
        => /\ ledger' = before.ledger /\ skillLedger' = before.skillLedger
           /\ \A n \in Names : \/ place'[n] = before.place[n]
                               \/ Retracted(n)]_vars

\* Without the exception: not so, the snapshot has the links to come and not those to go,
\* and the ledger that is put back names a link that is not there.
RollbackRestoresAll == [][EndRestore /\ before # Unknown => place' = before.place]_vars

Links == {n \in Names : place[n] = Link}

\* Between two commands every link into the source is owned: a later deploy can retract it,
\* and no skill is taken for the user's.  So it is again after a death, once the deploy that
\* died has been rolled back.
LinksOwned ==
    At("idle") /\ ~torn =>
        /\ ledger = NoLedger \/ Links \cap Assets \subseteq ledger
        /\ skillLedger # NoLedger /\ Links \cap Skills \subseteq skillLedger

\* Without the rollback: not so, the ledgers come after the links.
LinksOwnedAlways == At("idle") =>
    /\ ledger = NoLedger \/ Links \cap Assets \subseteq ledger
    /\ skillLedger # NoLedger /\ Links \cap Skills \subseteq skillLedger

\* The entry is in the document after any deploy: not so, one that is refused because the
\* document has moved does not write what it carried.
EntriesServed == [][command.at # "idle" /\ command'.at = "idle" /\ command.carried # NoText
                        /\ deaths' = deaths => command.carried \subseteq Text']_vars
=============================================================================
