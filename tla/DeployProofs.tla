---------------------------- MODULE DeployProofs ----------------------------
(***************************************************************************)
(* What a deploy owns, what a rollback puts back and what the document     *)
(* keeps, for any assets, skills and entries, any number of changes and    *)
(* any number of deaths.                                                   *)
(***************************************************************************)
EXTENDS Deploy, TLAPS

Items == {Nothing, Link} \cup {File(text) : text \in SUBSET Entries}
Texts == (SUBSET Entries) \cup {NoText}

Commands ==
    [at : {"idle", "plan", "prune", "link", "ledger", "read", "apply", "global", "restore"},
     of : {Assets, Skills}, todo : SUBSET Names, plan : SUBSET (Assets \cup Skills),
     owned : SUBSET (Assets \cup Skills), carried : Texts, existing : SUBSET Entries,
     stamp : Texts]

\* What a complete snapshot has.
SnapshotOK ==
    /\ DOMAIN snapshot.files \subseteq Names
    /\ {Document, Global} \subseteq DOMAIN snapshot.files
    /\ \A n \in DOMAIN snapshot.files : snapshot.files[n] \in Items
    /\ snapshot.ledger \in (SUBSET Assets) \cup {NoLedger}
    /\ snapshot.skillLedger \in SUBSET Skills

\* Every variable keeps its shape.
TypeOK ==
    /\ source \subseteq Assets \cup Skills /\ sourceText \subseteq Entries
    /\ place \in [Names -> Items]
    /\ ledger \in (SUBSET Assets) \cup {NoLedger}
    /\ skillLedger \in (SUBSET Skills) \cup {NoLedger}
    /\ command \in Commands
    /\ snapshot.complete => SnapshotOK

Linking == {"prune", "link", "ledger", "read", "apply", "global"}

\* A deploy links and prunes skills, and a rollback restores, only what the newest
\* snapshot records.
Recording ==
    /\ ~At("idle") => snapshot.complete
    /\ At("plan") => /\ command.of = Assets /\ skillLedger # NoLedger
                     /\ source \cup skillLedger \subseteq DOMAIN snapshot.files
    /\ command.at \in Linking =>
          /\ command.plan \cup (command.owned \cap Skills) \subseteq DOMAIN snapshot.files
          /\ command.plan = source
    /\ At("prune") => command.todo \subseteq (command.owned \cap command.of) \ command.plan
    /\ At("link") => command.todo \subseteq command.plan \cap command.of
    /\ At("restore") => command.todo \subseteq command.of \cap DOMAIN snapshot.files

IsLinked(n) == place[n] = Link
Owns(of, n) == of = NoLedger \/ n \in of

AssetsOwned == \A n \in Assets : IsLinked(n) => Owns(ledger, n)
SkillsOwned == skillLedger # NoLedger /\ \A n \in Skills : IsLinked(n) => n \in skillLedger

\* The links there are while some are made or retracted: they are to stay, or to go.
Accounted(names) ==
    \A n \in names : IsLinked(n) => n \in command.plan \/ (At("prune") /\ n \in command.todo)

\* Where the links of an untorn deploy are accounted for, until its ledgers are written.
DeployOwns ==
    ~torn =>
      /\ command.at \in {"idle", "plan", "read", "apply", "global"} => AssetsOwned /\ SkillsOwned
      /\ command.at \in {"prune", "link", "ledger"} =>
           IF command.of = Assets
           THEN Accounted(Assets) /\ SkillsOwned /\ skillLedger \subseteq command.owned
           ELSE AssetsOwned /\ Accounted(Skills)

\* An untorn snapshot owns the links it has, and those it does not record.
SnapshotOwns ==
    snapshot.complete /\ ~snapshot.torn =>
      /\ \A n \in Assets :
            (IF n \in DOMAIN snapshot.files THEN snapshot.files[n] = Link ELSE IsLinked(n))
                => Owns(snapshot.ledger, n)
      /\ \A n \in Skills :
            IF n \in DOMAIN snapshot.files
            THEN snapshot.files[n] = Link => n \in snapshot.skillLedger
            ELSE ~IsLinked(n)

\* The links there are where a rollback has passed: those of the snapshot.
Restored(names) ==
    \A n \in names \cap DOMAIN snapshot.files :
        IsLinked(n) => n \in command.todo \/ snapshot.files[n] = Link

RollbackOwns ==
    At("restore") /\ ~snapshot.torn =>
        IF command.of = Assets THEN Restored(Assets) ELSE AssetsOwned /\ Restored(Skills)

Ownership == DeployOwns /\ SnapshotOwns /\ RollbackOwns

\* Nobody but deploy and rollback has touched the config dir since the snapshot: what is
\* not recorded is as it was, or was retracted, and what a rollback has passed is as it was.
Unchanged ==
    before # Unknown =>
      /\ \A n \in Names \ DOMAIN snapshot.files : place[n] = before.place[n] \/ Retracted(n)
      /\ \A n \in DOMAIN snapshot.files : snapshot.files[n] = before.place[n]
      /\ snapshot.ledger = before.ledger /\ snapshot.skillLedger = before.skillLedger
      /\ At("plan") => ledger = before.ledger /\ \A n \in Names : place[n] = before.place[n]
      /\ At("prune") /\ command.of = Assets => \A n \in command.todo : Owns(before.ledger, n)
      /\ At("restore") =>
           /\ \A n \in command.of \cap DOMAIN snapshot.files :
                 n \in command.todo \/ place[n] = before.place[n]
           /\ command.of = Skills =>
                 /\ ledger = before.ledger
                 /\ \A n \in Assets \cap DOMAIN snapshot.files : place[n] = before.place[n]

\* A document that is a link has its text in the profile source.
Sourced ==
    /\ IsLinked(Document) => Document \in source
    /\ snapshot.complete /\ snapshot.files[Document] = Link => Document \in source

\* Nothing is in a text that nobody wrote.
Authored ==
    /\ place[Document].text \cup sourceText \cup Owed \subseteq written
    /\ snapshot.complete => snapshot.files[Document].text \subseteq written
    /\ command.carried # NoText => command.carried \subseteq written
    /\ command.stamp # NoText => command.stamp \subseteq written
    /\ command.existing \subseteq written

\* The entries are in the document, or in what was displaced and is carried; and once read,
\* in what will be written unless the document has moved.
Carrying ==
    /\ command.at \in {"idle", "plan", "restore"} => command.carried = NoText
    /\ command.at \in {"plan", "prune", "link", "ledger", "read"} =>
          Owed \subseteq Existing
    /\ At("apply") /\ Stamp = command.stamp => Owed \subseteq command.existing
    /\ At("link") /\ Document \in command.todo => command.carried = NoText
    /\ At("prune") /\ command.of = Assets => command.carried = NoText

DocumentServed == Sourced /\ Authored /\ Carrying

\* What the history has of a new entry.
Adds(e) ==
    /\ served' = served \cup {e}
    /\ late' = IF Unread THEN late \cup {e} ELSE late

-----------------------------------------------------------------------------
(* Shapes. *)

\* A name has nothing, a link or a file.
LEMMA Kinds ==
  /\ Nothing \in Items /\ Link \in Items /\ \A t \in SUBSET Entries : File(t) \in Items
  /\ Nothing # Link /\ Link.is # "file" /\ Nothing.text = {} /\ Link.text = {}
  /\ \A t : File(t) # Link /\ File(t) # Nothing /\ File(t).text = t
  /\ \A i \in Items : /\ i.text \subseteq Entries
                      /\ i.is # "file" /\ i # Link => i = Nothing
  <1>1. Nothing # Link /\ Link.is # "file" /\ Nothing.text = {} /\ Link.text = {}
    BY DEF Nothing, Link
  <1>2. ASSUME NEW t PROVE File(t) # Link /\ File(t) # Nothing /\ File(t).text = t /\ File(t).is = "file"
    BY DEF Nothing, Link, File
  <1>3. Nothing \in Items /\ Link \in Items /\ \A t \in SUBSET Entries : File(t) \in Items
    BY DEF Items
  <1>4. ASSUME NEW i \in Items
        PROVE  i.text \subseteq Entries /\ (i.is # "file" /\ i # Link => i = Nothing)
    <2>1. i = Nothing \/ i = Link \/ \E t \in SUBSET Entries : i = File(t)
      BY DEF Items
    <2>. QED BY <1>1, <1>2, <2>1
  <1>. QED BY <1>1, <1>2, <1>3, <1>4

\* Assets, skills and the global link have different names.
LEMMA Sides ==
  /\ Assets # Skills /\ Assets \cap Skills = {} /\ Document \in Assets /\ Document \notin Skills
  /\ Global \notin Assets /\ Global \notin Skills /\ Document \in Names /\ Global \in Names
  /\ Assets \subseteq Names /\ Skills \subseteq Names
  <1>1. Document \in Assets /\ Global \notin Assets \cup Skills /\ Assets \cap Skills = {}
    BY DeployAssumption DEF DeployAssumption
  <1>2. Document \notin Skills /\ Assets # Skills
    BY <1>1
  <1>. QED BY <1>1, <1>2 DEF Names

\* No command runs.
LEMMA IdleCommand ==
  /\ Idle \in Commands /\ Idle.at = "idle" /\ Idle.carried = NoText /\ Idle.stamp = NoText
  /\ Idle.existing = {} /\ Idle.plan = {} /\ Idle.of = Assets /\ Idle.todo = {}
  <1>1. /\ Idle.at = "idle" /\ Idle.carried = NoText /\ Idle.stamp = NoText
        /\ Idle.existing = {} /\ Idle.plan = {} /\ Idle.of = Assets /\ Idle.todo = {}
    BY DEF Idle
  <1>2. {} \in SUBSET Names /\ {} \in SUBSET (Assets \cup Skills) /\ {} \in SUBSET Entries
    OBVIOUS
  <1>3. NoText \in Texts /\ Assets \in {Assets, Skills}
    BY DEF Texts
  <1>4. Idle \in Commands
    BY <1>2, <1>3 DEF Idle, Commands
  <1>. QED BY <1>1, <1>4

\* Goto changes the step and what is left to do.
LEMMA Goes ==
  ASSUME command \in Commands, NEW step, NEW names, Goto(step, names)
  PROVE  /\ command'.at = step /\ command'.todo = names
         /\ command'.of = command.of /\ command'.plan = command.plan
         /\ command'.owned = command.owned /\ command'.carried = command.carried
         /\ command'.existing = command.existing /\ command'.stamp = command.stamp
         /\ step \in {"idle", "plan", "prune", "link", "ledger", "read", "apply", "global", "restore"}
              /\ names \in SUBSET Names => command' \in Commands
  BY DEF Goto, Commands

\* What Text and Stamp can be.
LEMMA TextType ==
  ASSUME TypeOK
  PROVE  Text \in SUBSET Entries /\ Stamp \in Texts /\ Existing \in SUBSET Entries
  <1>1. place[Document] \in Items
    BY Sides DEF TypeOK
  <1>2. Text \in SUBSET Entries
    BY <1>1, Kinds DEF TypeOK, Text
  <1>3. command.carried \in Texts
    BY DEF TypeOK, Commands
  <1>4. Stamp = NoText \/ Stamp = Text
    BY DEF Stamp
  <1>5. Existing = Text \/ (Existing = command.carried /\ command.carried # NoText)
    BY DEF Existing
  <1>6. Stamp \in Texts /\ Existing \in SUBSET Entries
    BY <1>2, <1>3, <1>4, <1>5, Zenon DEF Texts
  <1>. QED BY <1>2, <1>6

-----------------------------------------------------------------------------
(* The steps, as far as the invariants need them. *)

\* What others change: no link is added but the document's own stays one.
Others == EditSource \/ WriteEntry \/ PutFile

\* The snapshot a deploy begins with.
LEMMA SnapshotStep ==
  ASSUME TypeOK, Snapshot
  PROVE  /\ TypeOK'
         /\ snapshot'.complete /\ snapshot'.torn = torn
         /\ DOMAIN snapshot'.files = Targets
         /\ \A n \in Targets : snapshot'.files[n] = place[n]
         /\ snapshot'.ledger = ledger /\ snapshot'.skillLedger = skillLedger
         /\ skillLedger # NoLedger
         /\ command'.at \in {"idle", "plan"} /\ command'.carried = NoText /\ command'.stamp = NoText
         /\ command'.existing = {} /\ command'.plan = {} /\ command'.of = Assets
         /\ before'.place = place /\ before'.ledger = ledger /\ before'.skillLedger = skillLedger
         /\ Owed' = Text
  <1>1. skillLedger # NoLedger /\ skillLedger \in SUBSET Skills
    BY DEF Snapshot, Admitted, TypeOK
  <1>2. Targets \subseteq Names /\ {Document, Global} \subseteq Targets
    BY <1>1, Sides DEF Targets, TypeOK, Names
  <1>3. snapshot' = [complete |-> TRUE, files |-> [n \in Targets |-> place[n]], ledger |-> ledger,
                     skillLedger |-> skillLedger, torn |-> torn]
    BY DEF Snapshot, Taken
  <1>4. /\ snapshot'.complete /\ snapshot'.torn = torn
        /\ DOMAIN snapshot'.files = Targets
        /\ \A n \in Targets : snapshot'.files[n] = place[n]
        /\ snapshot'.ledger = ledger /\ snapshot'.skillLedger = skillLedger
    BY <1>3
  <1>5. /\ command'.at \in {"idle", "plan"} /\ command'.carried = NoText /\ command'.stamp = NoText
        /\ command'.existing = {} /\ command'.plan = {} /\ command'.of = Assets
        /\ command' \in Commands
    <2>1. CASE command' = Idle
      BY <2>1, IdleCommand
    <2>2. CASE command' = [Idle EXCEPT !.at = "plan"]
      <3>1. Idle \in Commands
        BY IdleCommand
      <3>2. command' \in Commands
        BY <2>2, <3>1 DEF Commands
      <3>. QED BY <2>2, <3>1, <3>2, IdleCommand DEF Commands
    <2>. QED BY <2>1, <2>2 DEF Snapshot
  <1>6. UNCHANGED disk
    BY DEF Snapshot
  <1>7. TypeOK'
    BY <1>1, <1>2, <1>4, <1>5, <1>6 DEF TypeOK, SnapshotOK, disk
  <1>8. before' = [place |-> place, ledger |-> ledger, skillLedger |-> skillLedger] /\ Owed' = Text
    BY DEF Snapshot, Present, Owed
  <1>9. /\ before'.place = place /\ before'.ledger = ledger /\ before'.skillLedger = skillLedger
    BY <1>8
  <1>. QED BY <1>1, <1>4, <1>5, <1>7, <1>8, <1>9

\* The plan: refused, or the links that are owned and not generated any more are next.
LEMMA PlanStep ==
  ASSUME TypeOK, Recording, Plan
  PROVE  /\ TypeOK'
         /\ UNCHANGED <<disk, snapshot, history>>
         /\ \/ command' = Idle
            \/ /\ command'.at = "prune" /\ command'.of = command.of /\ command'.plan = source
               /\ command'.owned = Owned \cup skillLedger
               /\ command'.todo = ((Owned \cup skillLedger) \cap Assets) \ source
               /\ command'.carried = command.carried /\ command'.existing = command.existing
               /\ command'.stamp = command.stamp
  <1>1. skillLedger \in SUBSET Skills
    BY DEF Plan, Recording, TypeOK
  <1>2. Owned \in SUBSET Assets
    BY DEF Owned, TypeOK
  <1>. DEFINE o == Owned \cup skillLedger
              t == (o \cap Assets) \ source
  <1>3. o \in SUBSET (Assets \cup Skills) /\ t \in SUBSET Names /\ source \in SUBSET (Assets \cup Skills)
    BY <1>1, <1>2, Sides DEF TypeOK
  <1>4. \/ command' = Idle
        \/ command' = [command EXCEPT !.at = "prune", !.plan = source, !.owned = o, !.todo = t]
    BY DEF Plan
  <1>5. UNCHANGED <<disk, snapshot, history>>
    BY DEF Plan
  <1>. HIDE DEF o, t
  <1>6. /\ command' \in Commands
        /\ \/ command' = Idle
           \/ /\ command'.at = "prune" /\ command'.of = command.of /\ command'.plan = source
              /\ command'.owned = o /\ command'.todo = t
              /\ command'.carried = command.carried /\ command'.existing = command.existing
              /\ command'.stamp = command.stamp
    <2>1. CASE command' = Idle
      BY <2>1, IdleCommand
    <2>2. CASE command' = [command EXCEPT !.at = "prune", !.plan = source, !.owned = o, !.todo = t]
      BY <1>3, <2>2 DEF TypeOK, Commands
    <2>. QED BY <1>4, <2>1, <2>2
  <1>7. TypeOK'
    BY <1>5, <1>6 DEF TypeOK, SnapshotOK, disk
  <1>. QED BY <1>5, <1>6, <1>7 DEF o, t

\* A name is retracted, if it is a link; or the links are next.
LEMMA PruneStep ==
  ASSUME TypeOK, Prune
  PROVE  /\ TypeOK'
         /\ UNCHANGED <<source, sourceText, ledger, skillLedger, snapshot, written, history>>
         /\ command'.of = command.of /\ command'.plan = command.plan
         /\ command'.owned = command.owned /\ command'.carried = command.carried
         /\ command'.existing = command.existing /\ command'.stamp = command.stamp
         /\ \/ \E n \in command.todo :
                 /\ command'.at = "prune" /\ command'.todo = command.todo \ {n}
                 /\ place' = IF place[n] = Link THEN [place EXCEPT ![n] = Nothing] ELSE place
            \/ /\ command.todo = {} /\ UNCHANGED place
               /\ command'.at = "link" /\ command'.todo = command.plan \cap command.of
  <1>1. UNCHANGED <<source, sourceText, ledger, skillLedger, snapshot, written, history>>
    BY DEF Prune
  <1>2. command \in Commands /\ command.todo \subseteq Names /\ command.plan \subseteq Names
    BY Sides DEF TypeOK, Commands
  <1>3. CASE \E n \in command.todo :
               /\ place' = IF place[n] = Link THEN [place EXCEPT ![n] = Nothing] ELSE place
               /\ Goto("prune", command.todo \ {n})
    <2>1. PICK n \in command.todo :
            /\ place' = IF place[n] = Link THEN [place EXCEPT ![n] = Nothing] ELSE place
            /\ Goto("prune", command.todo \ {n})
      BY <1>3
    <2>2. command.todo \ {n} \in SUBSET Names
      BY <1>2
    <2>3. place' \in [Names -> Items]
      BY <2>1, Kinds DEF TypeOK
    <2>4. TypeOK'
      BY <1>1, <1>2, <2>1, <2>2, <2>3, Goes DEF TypeOK, SnapshotOK
    <2>. QED BY <1>1, <1>2, <2>1, <2>4, Goes
  <1>4. CASE command.todo = {} /\ Goto("link", command.plan \cap command.of) /\ UNCHANGED place
    <2>1. command.plan \cap command.of \in SUBSET Names
      BY <1>2
    <2>2. TypeOK'
      BY <1>1, <1>2, <1>4, <2>1, Goes DEF TypeOK, SnapshotOK
    <2>. QED BY <1>1, <1>2, <1>4, <2>2, Goes
  <1>. QED BY <1>3, <1>4 DEF Prune

\* A name becomes a link and what the document had is carried; or the ledger is next.
LEMMA LinkStep ==
  ASSUME TypeOK, LinkName
  PROVE  /\ TypeOK'
         /\ UNCHANGED <<source, sourceText, ledger, skillLedger, snapshot, written, history>>
         /\ command'.of = command.of /\ command'.plan = command.plan
         /\ command'.owned = command.owned
         /\ command'.existing = command.existing /\ command'.stamp = command.stamp
         /\ \/ \E n \in command.todo :
                 /\ command'.at = "link" /\ command'.todo = command.todo \ {n}
                 /\ command'.carried = IF n = Document /\ Displaces(n) THEN place[n].text
                                       ELSE command.carried
                 /\ place' = [place EXCEPT ![n] = Link]
            \/ /\ command.todo = {} /\ UNCHANGED place
               /\ command'.at = "ledger" /\ command'.todo = {} /\ command'.carried = command.carried
  <1>1. UNCHANGED <<source, sourceText, ledger, skillLedger, snapshot, written, history>>
    BY DEF LinkName
  <1>2. command \in Commands /\ command.todo \subseteq Names /\ At("link")
    BY DEF TypeOK, Commands, LinkName
  <1>3. CASE \E n \in command.todo :
               /\ place' = [place EXCEPT ![n] = Link]
               /\ command' = [command EXCEPT !.todo = @ \ {n},
                      !.carried = IF n = Document /\ Displaces(n) THEN place[n].text ELSE @]
    <2>1. PICK n \in command.todo :
            /\ place' = [place EXCEPT ![n] = Link]
            /\ command' = [command EXCEPT !.todo = @ \ {n},
                   !.carried = IF n = Document /\ Displaces(n) THEN place[n].text ELSE @]
      BY <1>3
    <2>. DEFINE c == IF n = Document /\ Displaces(n) THEN place[n].text ELSE command.carried
                t == command.todo \ {n}
    <2>2. c \in Texts /\ t \in SUBSET Names
      <3>1. place[n].text \in SUBSET Entries
        BY <1>2, Kinds DEF TypeOK
      <3>2. command.carried \in Texts
        BY <1>2 DEF Commands
      <3>. QED BY <1>2, <3>1, <3>2 DEF Texts
    <2>3. command' = [command EXCEPT !.todo = t, !.carried = c]
      BY <2>1
    <2>. HIDE DEF c, t
    <2>4. /\ command'.of = command.of /\ command'.plan = command.plan
          /\ command'.owned = command.owned
          /\ command'.existing = command.existing /\ command'.stamp = command.stamp
          /\ command'.at = "link" /\ command'.todo = t /\ command'.carried = c
          /\ command' \in Commands
      BY <1>2, <2>2, <2>3 DEF Commands, At
    <2>5. place' \in [Names -> Items]
      BY <2>1, Kinds DEF TypeOK
    <2>6. TypeOK'
      BY <1>1, <2>4, <2>5 DEF TypeOK, SnapshotOK
    <2>. QED BY <1>1, <2>1, <2>4, <2>6 DEF c, t
  <1>4. CASE command.todo = {} /\ Goto("ledger", {}) /\ UNCHANGED place
    <2>1. TypeOK'
      BY <1>1, <1>2, <1>4, Goes DEF TypeOK, SnapshotOK
    <2>. QED BY <1>1, <1>2, <1>4, <2>1, Goes
  <1>. QED BY <1>3, <1>4 DEF LinkName

\* The ledger of the links that were made; then the skills, or the document.
LEMMA LedgerStep ==
  ASSUME TypeOK, WriteLedger
  PROVE  /\ TypeOK'
         /\ UNCHANGED <<source, sourceText, place, snapshot, written, history>>
         /\ command'.plan = command.plan
         /\ command'.owned = command.owned /\ command'.carried = command.carried
         /\ command'.existing = command.existing /\ command'.stamp = command.stamp
         /\ \/ /\ command.of = Assets /\ ledger' = command.plan \cap Assets /\ UNCHANGED skillLedger
               /\ command'.at = "prune" /\ command'.of = Skills
               /\ command'.todo = (command.owned \cap Skills) \ command.plan
            \/ /\ command.of = Skills /\ skillLedger' = command.plan \cap Skills /\ UNCHANGED ledger
               /\ command'.at = "read" /\ command'.of = Skills /\ command'.todo = {}
  <1>1. UNCHANGED <<source, sourceText, place, snapshot, written, history>>
    BY DEF WriteLedger
  <1>2. command \in Commands /\ command.of \in {Assets, Skills}
    BY DEF TypeOK, Commands
  <1>. DEFINE t == (command.owned \cap Skills) \ command.plan
  <1>3. CASE command.of = Assets
    <2>1. command' = [command EXCEPT !.at = "prune", !.of = Skills, !.todo = t]
      BY <1>3 DEF WriteLedger
    <2>2. t \in SUBSET Names
      BY Sides
    <2>. HIDE DEF t
    <2>3. /\ command'.plan = command.plan
          /\ command'.owned = command.owned /\ command'.carried = command.carried
          /\ command'.existing = command.existing /\ command'.stamp = command.stamp
          /\ command'.at = "prune" /\ command'.of = Skills /\ command'.todo = t
          /\ command' \in Commands
      BY <1>2, <2>1, <2>2 DEF Commands
    <2>4. ledger' = command.plan \cap Assets /\ UNCHANGED skillLedger
      BY <1>3 DEF WriteLedger
    <2>5. TypeOK'
      BY <1>1, <2>3, <2>4 DEF TypeOK, SnapshotOK
    <2>. QED BY <1>1, <1>3, <2>3, <2>4, <2>5 DEF t
  <1>4. CASE command.of = Skills
    <2>1. skillLedger' = command.plan \cap Skills /\ Goto("read", {}) /\ UNCHANGED ledger
      BY <1>4, Sides DEF WriteLedger
    <2>2. TypeOK'
      BY <1>1, <1>2, <2>1, Goes DEF TypeOK, SnapshotOK
    <2>. QED BY <1>1, <1>2, <1>4, <2>1, <2>2, Goes
  <1>. QED BY <1>2, <1>3, <1>4

\* The document is read, or there is nothing to write.
LEMMA ReadStep ==
  ASSUME TypeOK, ReadDocument
  PROVE  /\ TypeOK' /\ UNCHANGED <<disk, snapshot, written, history>>
         /\ command'.plan = command.plan /\ command'.owned = command.owned
         /\ command'.of = command.of /\ command'.carried = command.carried
         /\ \/ /\ command'.at = "apply" /\ command'.existing = Existing /\ command'.stamp = Stamp
            \/ /\ command'.at = "global" /\ command'.existing = command.existing
               /\ command'.stamp = command.stamp
  <1>1. UNCHANGED <<disk, snapshot, written, history>>
    BY DEF ReadDocument
  <1>2. command \in Commands
    BY DEF TypeOK
  <1>3. CASE command' = [command EXCEPT !.at = "apply", !.existing = Existing, !.stamp = Stamp]
    <2>1. Existing \in SUBSET Entries /\ Stamp \in Texts
      BY TextType
    <2>2. /\ command'.plan = command.plan /\ command'.owned = command.owned
          /\ command'.of = command.of /\ command'.carried = command.carried
          /\ command'.at = "apply" /\ command'.existing = Existing /\ command'.stamp = Stamp
          /\ command' \in Commands
      BY <1>2, <1>3, <2>1 DEF Commands
    <2>3. TypeOK'
      BY <1>1, <2>2 DEF TypeOK, SnapshotOK, disk
    <2>. QED BY <1>1, <2>2, <2>3
  <1>4. CASE Goto("global", {})
    <2>1. TypeOK'
      BY <1>1, <1>2, <1>4, Goes DEF TypeOK, SnapshotOK, disk
    <2>. QED BY <1>1, <1>2, <1>4, <2>1, Goes
  <1>. QED BY <1>3, <1>4 DEF ReadDocument

\* The merge is written through the link or into the file, or refused.
LEMMA ApplyStep ==
  ASSUME TypeOK, Apply
  PROVE  /\ TypeOK'
         /\ UNCHANGED <<source, ledger, skillLedger, snapshot, written, history>>
         /\ \A n \in Names : n # Document => place'[n] = place[n]
         /\ place'[Document] \in {place[Document], File(command.existing), Nothing}
         /\ sourceText' \in {sourceText, command.existing}
         /\ \/ command' = Idle
            \/ /\ command'.at = "global" /\ Stamp = command.stamp /\ Text' = command.existing
               /\ command'.plan = command.plan /\ command'.owned = command.owned
               /\ command'.of = command.of /\ command'.carried = command.carried
               /\ command'.existing = command.existing /\ command'.stamp = command.stamp
  <1>1. UNCHANGED <<source, ledger, skillLedger, snapshot, written, history>>
    BY DEF Apply
  <1>2. command \in Commands /\ command.existing \in SUBSET Entries
    BY DEF TypeOK, Commands
  <1>3. CASE command' = Idle /\ UNCHANGED <<sourceText, place>>
    <2>1. TypeOK'
      BY <1>1, <1>3, IdleCommand DEF TypeOK, SnapshotOK
    <2>. QED BY <1>1, <1>3, <2>1
  <1>4. CASE /\ Stamp = command.stamp /\ Goto("global", {})
             /\ \/ /\ place[Document] = Link
                   /\ sourceText' = command.existing /\ UNCHANGED place
                \/ /\ place[Document] # Link
                   /\ place' = [place EXCEPT ![Document] = File(command.existing)]
                   /\ UNCHANGED sourceText
                \/ /\ command.existing = {} /\ Stamp # NoText
                   /\ place' = [place EXCEPT ![Document] = Nothing]
                   /\ UNCHANGED sourceText
    <2>1. Goto("global", {})
      BY <1>4
    <2>2. /\ place' \in [Names -> Items] /\ sourceText' \subseteq Entries
          /\ \A n \in Names : n # Document => place'[n] = place[n]
          /\ place'[Document] \in {place[Document], File(command.existing), Nothing}
          /\ sourceText' \in {sourceText, command.existing}
      BY <1>2, <1>4, Kinds, Sides DEF TypeOK
    <2>3. Text' = command.existing
      <3>1. CASE place[Document] = Link /\ sourceText' = command.existing /\ UNCHANGED place
        BY <3>1 DEF Text
      <3>2. CASE place' = [place EXCEPT ![Document] = File(command.existing)]
        BY <3>2, Kinds, Sides DEF Text, TypeOK
      <3>3. CASE command.existing = {} /\ place' = [place EXCEPT ![Document] = Nothing]
        BY <3>3, Kinds, Sides DEF Text, TypeOK
      <3>. QED BY <1>4, <3>1, <3>2, <3>3
    <2>4. TypeOK'
      BY <1>1, <1>2, <2>1, <2>2, Goes DEF TypeOK, SnapshotOK
    <2>. QED BY <1>1, <1>2, <1>4, <2>1, <2>2, <2>3, <2>4, Goes
  <1>. QED BY <1>3, <1>4 DEF Apply

\* The global link ends the deploy.
LEMMA GlobalStep ==
  ASSUME TypeOK, LinkGlobal
  PROVE  /\ TypeOK'
         /\ UNCHANGED <<source, sourceText, ledger, skillLedger, snapshot, written, history>>
         /\ \A n \in Names : n # Global => place'[n] = place[n]
         /\ command' = Idle
  <1>1. UNCHANGED <<source, sourceText, ledger, skillLedger, snapshot, written, history>>
    BY DEF LinkGlobal
  <1>2. place' = [place EXCEPT ![Global] = Link] /\ command' = Idle
    BY DEF LinkGlobal
  <1>3. place' \in [Names -> Items]
    BY <1>2, Kinds DEF TypeOK
  <1>4. \A n \in Names : n # Global => place'[n] = place[n]
    BY <1>2 DEF TypeOK
  <1>5. TypeOK'
    BY <1>1, <1>2, <1>3, IdleCommand DEF TypeOK, SnapshotOK
  <1>. QED BY <1>1, <1>2, <1>4, <1>5

\* A rollback begins with the assets.
LEMMA RollbackStep ==
  ASSUME TypeOK, Rollback
  PROVE  /\ TypeOK' /\ UNCHANGED <<disk, snapshot, written, history>>
         /\ snapshot.complete
         /\ command'.at = "restore" /\ command'.of = Assets
         /\ command'.todo = Assets \cap DOMAIN snapshot.files
         /\ command'.plan = {} /\ command'.carried = NoText /\ command'.stamp = NoText
         /\ command'.existing = {}
  <1>. DEFINE t == Recorded(Assets)
  <1>1. UNCHANGED <<disk, snapshot, written, history>> /\ snapshot.complete
    BY DEF Rollback
  <1>2. command' = [Idle EXCEPT !.at = "restore", !.todo = t]
    BY DEF Rollback
  <1>3. t \in SUBSET Names /\ t = Assets \cap DOMAIN snapshot.files
    BY Sides DEF Recorded
  <1>. HIDE DEF t
  <1>4. /\ command'.at = "restore" /\ command'.of = Assets /\ command'.todo = t
        /\ command'.plan = {} /\ command'.carried = NoText /\ command'.stamp = NoText
        /\ command'.existing = {} /\ command' \in Commands
    BY <1>2, <1>3, IdleCommand DEF Commands
  <1>5. TypeOK'
    BY <1>1, <1>4 DEF TypeOK, SnapshotOK, disk
  <1>. QED BY <1>1, <1>3, <1>4, <1>5

\* A recorded name is put back.
LEMMA RestoreStep ==
  ASSUME TypeOK, Recording, Restore
  PROVE  /\ TypeOK'
         /\ UNCHANGED <<source, sourceText, ledger, skillLedger, snapshot, written, history>>
         /\ command'.of = command.of /\ command'.plan = command.plan
         /\ command'.carried = command.carried /\ command'.stamp = command.stamp
         /\ command'.existing = command.existing /\ command'.at = "restore"
         /\ \E n \in command.todo :
               /\ place' = [place EXCEPT ![n] = snapshot.files[n]]
               /\ command'.todo = command.todo \ {n}
               /\ n \in command.of \cap DOMAIN snapshot.files
  <1>1. UNCHANGED <<source, sourceText, ledger, skillLedger, snapshot, written, history>>
    BY DEF Restore
  <1>2. PICK n \in command.todo :
          /\ place' = [place EXCEPT ![n] = snapshot.files[n]]
          /\ command' = [command EXCEPT !.todo = @ \ {n}]
    BY DEF Restore
  <1>3. command \in Commands /\ command.todo \subseteq Names /\ At("restore")
    BY DEF TypeOK, Commands, Restore
  <1>4. n \in command.of \cap DOMAIN snapshot.files /\ snapshot.complete
    BY <1>3 DEF Recording, At
  <1>5. snapshot.files[n] \in Items
    BY <1>4 DEF TypeOK, SnapshotOK
  <1>6. place' \in [Names -> Items]
    BY <1>2, <1>5 DEF TypeOK
  <1>7. /\ command'.of = command.of /\ command'.plan = command.plan
        /\ command'.carried = command.carried /\ command'.stamp = command.stamp
        /\ command'.existing = command.existing /\ command'.at = "restore"
        /\ command'.todo = command.todo \ {n} /\ command' \in Commands
    <2>. DEFINE t == command.todo \ {n}
    <2>1. t \in SUBSET Names /\ command' = [command EXCEPT !.todo = t]
      BY <1>2, <1>3
    <2>. HIDE DEF t
    <2>2. /\ command'.of = command.of /\ command'.plan = command.plan
          /\ command'.carried = command.carried /\ command'.stamp = command.stamp
          /\ command'.existing = command.existing /\ command'.at = "restore"
          /\ command'.todo = t /\ command' \in Commands
      BY <1>3, <2>1 DEF Commands, At
    <2>. QED BY <2>2 DEF t
  <1>8. TypeOK'
    BY <1>1, <1>6, <1>7 DEF TypeOK, SnapshotOK
  <1>. QED BY <1>1, <1>2, <1>4, <1>7, <1>8

\* The ledger of the assets, and then the skills.
LEMMA RestoreLedgerStep ==
  ASSUME TypeOK, Recording, RestoreLedger
  PROVE  /\ TypeOK'
         /\ UNCHANGED <<source, sourceText, place, skillLedger, snapshot, written, history>>
         /\ At("restore") /\ command.todo = {} /\ command.of = Assets /\ ledger' = snapshot.ledger
         /\ command'.at = "restore" /\ command'.of = Skills
         /\ command'.todo = Skills \cap DOMAIN snapshot.files
         /\ command'.plan = command.plan
         /\ command'.carried = command.carried /\ command'.stamp = command.stamp
         /\ command'.existing = command.existing
  <1>. DEFINE t == Recorded(Skills)
  <1>1. /\ UNCHANGED <<source, sourceText, place, skillLedger, snapshot, written, history>>
        /\ At("restore") /\ command.todo = {} /\ command.of = Assets /\ ledger' = snapshot.ledger
    BY DEF RestoreLedger
  <1>2. command' = [command EXCEPT !.of = Skills, !.todo = t]
    BY DEF RestoreLedger
  <1>3. t \in SUBSET Names /\ t = Skills \cap DOMAIN snapshot.files /\ command \in Commands
    BY Sides DEF Recorded, TypeOK
  <1>. HIDE DEF t
  <1>4. /\ command'.at = "restore" /\ command'.of = Skills /\ command'.todo = t
        /\ command'.plan = command.plan
        /\ command'.carried = command.carried /\ command'.stamp = command.stamp
        /\ command'.existing = command.existing /\ command' \in Commands
    BY <1>1, <1>2, <1>3 DEF Commands, At
  <1>5. snapshot.complete
    BY <1>1 DEF Recording, At
  <1>6. TypeOK'
    BY <1>1, <1>4, <1>5 DEF TypeOK, SnapshotOK
  <1>. QED BY <1>1, <1>3, <1>4, <1>6

\* The ledger of the skills and the global link end the rollback.
LEMMA EndRestoreStep ==
  ASSUME TypeOK, Recording, EndRestore
  PROVE  /\ TypeOK'
         /\ UNCHANGED <<source, sourceText, ledger, snapshot, written, before, served, late>>
         /\ At("restore") /\ command.todo = {} /\ command.of = Skills
         /\ skillLedger' = snapshot.skillLedger /\ skillLedger' \in SUBSET Skills
         /\ torn' = snapshot.torn
         /\ \A n \in Names : n # Global => place'[n] = place[n]
         /\ place'[Global] = snapshot.files[Global] /\ Global \in DOMAIN snapshot.files
         /\ command' = Idle
  <1>1. /\ UNCHANGED <<source, sourceText, ledger, snapshot, written, before, served, late>>
        /\ At("restore") /\ command.todo = {} /\ command.of = Skills
        /\ skillLedger' = snapshot.skillLedger /\ torn' = snapshot.torn
        /\ place' = [place EXCEPT ![Global] = snapshot.files[Global]]
        /\ command' = Idle
    BY DEF EndRestore
  <1>2. snapshot.complete
    BY <1>1 DEF Recording, At
  <1>3. /\ skillLedger' \in SUBSET Skills
        /\ snapshot.files[Global] \in Items /\ Global \in DOMAIN snapshot.files
    BY <1>1, <1>2 DEF TypeOK, SnapshotOK
  <1>4. /\ \A n \in Names : n # Global => place'[n] = place[n]
        /\ place'[Global] = snapshot.files[Global]
        /\ place' \in [Names -> Items]
    BY <1>1, <1>3, Sides DEF TypeOK
  <1>5. TypeOK'
    BY <1>1, <1>3, <1>4, IdleCommand DEF TypeOK, SnapshotOK
  <1>. QED BY <1>1, <1>3, <1>4, <1>5

\* A death leaves no command; it may take a link that was being made, a ledger or the
\* snapshot with it.
LEMMA DeathStep ==
  ASSUME TypeOK, Die \/ DieInLedger \/ DieInSnapshot
  PROVE  /\ TypeOK' /\ command' = Idle
         /\ UNCHANGED <<source, sourceText, written, served, late>>
         /\ \/ /\ UNCHANGED <<snapshot, before>> /\ torn' = TRUE
               /\ \/ UNCHANGED place
                  \/ \E n \in command.todo :
                        At("link") /\ place' = [place EXCEPT ![n] = Nothing]
            \/ /\ UNCHANGED <<place, ledger, skillLedger, torn>> /\ At("idle")
               /\ before' = Unknown /\ snapshot'.complete = FALSE
  <1>1. command' = Idle /\ UNCHANGED <<source, sourceText, written, served, late>>
    BY DEF Die, DieInLedger, DieInSnapshot, Dies
  <1>2. CASE Die
    <2>1. /\ UNCHANGED <<snapshot, before, ledger, skillLedger>> /\ torn' = TRUE
          /\ \/ UNCHANGED place
             \/ \E n \in command.todo :
                   At("link") /\ place' = [place EXCEPT ![n] = Nothing]
      BY <1>2 DEF Die
    <2>2. place' \in [Names -> Items]
      BY <2>1, Kinds DEF TypeOK
    <2>3. TypeOK'
      BY <1>1, <2>1, <2>2, IdleCommand DEF TypeOK, SnapshotOK
    <2>. QED BY <1>1, <2>1, <2>3
  <1>3. CASE DieInLedger
    <2>1. /\ UNCHANGED <<snapshot, before, place>> /\ torn' = TRUE
          /\ ledger' \in {ledger, NoLedger} /\ skillLedger' \in {skillLedger, NoLedger}
      BY <1>3 DEF DieInLedger
    <2>2. TypeOK'
      BY <1>1, <2>1, IdleCommand DEF TypeOK, SnapshotOK
    <2>. QED BY <1>1, <2>1, <2>2
  <1>4. CASE DieInSnapshot
    <2>1. /\ UNCHANGED <<place, ledger, skillLedger, torn>> /\ At("idle")
          /\ before' = Unknown /\ snapshot'.complete = FALSE
      BY <1>4 DEF DieInSnapshot, NoSnapshot
    <2>2. TypeOK'
      BY <1>1, <2>1, IdleCommand DEF TypeOK
    <2>. QED BY <1>1, <2>1, <2>2
  <1>. QED BY <1>2, <1>3, <1>4

\* What others do adds no link; the source changes between commands only.
LEMMA OthersStep ==
  ASSUME TypeOK, Others
  PROVE  /\ TypeOK'
         /\ UNCHANGED <<ledger, skillLedger, snapshot, command, torn>> /\ before' = Unknown
         /\ \A n \in Names : place'[n] = Link => place[n] = Link
         /\ Document \in source' <=> Document \in source
         /\ source' = source \/ At("idle")
         /\ \/ UNCHANGED <<written, served, late, sourceText>> /\ place'[Document] = place[Document]
            \/ /\ \E e \in Entries \ written :
                    /\ written' = written \cup {e} /\ Adds(e)
                    /\ \/ /\ place'[Document] = Link /\ place[Document] = Link
                          /\ sourceText' = sourceText \cup {e}
                       \/ place'[Document] = File(Text \cup {e}) /\ UNCHANGED sourceText
  <1>1. UNCHANGED <<ledger, skillLedger, snapshot, command, torn>> /\ before' = Unknown
    BY DEF Others, EditSource, WriteEntry, PutFile, Change
  <1>2. CASE EditSource
    <2>1. UNCHANGED <<written, served, late, sourceText, place>> /\ At("idle")
      BY <1>2 DEF EditSource
    <2>2. source' \subseteq Assets \cup Skills /\ (Document \in source' <=> Document \in source)
      BY <1>2 DEF EditSource, TypeOK
    <2>3. TypeOK'
      BY <1>1, <2>1, <2>2 DEF TypeOK, SnapshotOK
    <2>. QED BY <1>1, <2>1, <2>2, <2>3
  <1>3. CASE WriteEntry
    <2>1. UNCHANGED source
      BY <1>3 DEF WriteEntry
    <2>2. PICK e \in Entries \ written :
            /\ written' = written \cup {e} /\ Adds(e)
            /\ \/ /\ place[Document] = Link
                  /\ sourceText' = sourceText \cup {e} /\ UNCHANGED place
               \/ place' = [place EXCEPT ![Document] = File(Text \cup {e})] /\ UNCHANGED sourceText
      BY <1>3 DEF WriteEntry, Adds
    <2>3. Text \cup {e} \in SUBSET Entries
      BY TextType
    <2>4. place' \in [Names -> Items] /\ sourceText' \subseteq Entries
      BY <2>2, <2>3, Kinds DEF TypeOK
    <2>5. /\ \A n \in Names : place'[n] = Link => place[n] = Link
          /\ \/ place'[Document] = Link /\ place[Document] = Link /\ sourceText' = sourceText \cup {e}
             \/ place'[Document] = File(Text \cup {e}) /\ UNCHANGED sourceText
      BY <2>2, Kinds, Sides DEF TypeOK
    <2>6. TypeOK'
      BY <1>1, <2>1, <2>4 DEF TypeOK, SnapshotOK
    <2>. QED BY <1>1, <2>1, <2>2, <2>5, <2>6
  <1>4. CASE PutFile
    <2>1. UNCHANGED <<source, sourceText, written, served, late>>
      BY <1>4 DEF PutFile
    <2>2. PICK n \in (Assets \cup Skills) \ {Document} : place' = [place EXCEPT ![n] = File({})]
      BY <1>4 DEF PutFile
    <2>3. /\ place' \in [Names -> Items]
          /\ \A m \in Names : place'[m] = Link => place[m] = Link
          /\ place'[Document] = place[Document]
      <3>1. File({}) \in Items /\ File({}) # Link
        BY Kinds
      <3>. QED BY <2>2, <3>1, Sides DEF TypeOK
    <2>4. TypeOK'
      BY <1>1, <2>1, <2>3 DEF TypeOK, SnapshotOK
    <2>. QED BY <1>1, <2>1, <2>3, <2>4
  <1>. QED BY <1>2, <1>3, <1>4 DEF Others

-----------------------------------------------------------------------------
(* What the newest snapshot records. *)

\* Every step keeps the types, and to what is recorded.
LEMMA RecordingStep ==
  ASSUME TypeOK, Recording, [Next]_vars
  PROVE  TypeOK' /\ Recording'
  <1>. USE DEF Recording, At
  <1>1. CASE Snapshot
    <2>1. source \cup skillLedger \subseteq Targets
      BY DEF Targets
    <2>2. UNCHANGED <<source, skillLedger>>
      BY <1>1 DEF Snapshot, disk
    <2>. QED BY <1>1, <2>1, <2>2, SnapshotStep DEF Linking
  <1>2. CASE Plan
    <2>1. CASE command' = Idle
      BY <1>2, <2>1, PlanStep, IdleCommand DEF Linking
    <2>2. CASE command' # Idle
      <3>1. /\ command'.at = "prune" /\ command'.of = command.of /\ command'.plan = source
            /\ command'.owned = Owned \cup skillLedger
            /\ command'.todo = ((Owned \cup skillLedger) \cap Assets) \ source
            /\ UNCHANGED <<disk, snapshot>> /\ TypeOK' /\ At("plan")
        BY <1>2, <2>2, PlanStep DEF Plan
      <3>2. Owned \cap Skills = {}
        BY Sides DEF Owned, TypeOK
      <3>3. command'.of = Assets
        BY <3>1
      <3>. QED BY <3>1, <3>2, <3>3 DEF Linking, disk
    <2>. QED BY <2>1, <2>2
  <1>3. CASE Prune
    BY <1>3, PruneStep DEF Linking, Prune
  <1>4. CASE LinkName
    BY <1>4, LinkStep DEF Linking, LinkName
  <1>5. CASE WriteLedger
    BY <1>5, LedgerStep DEF Linking, WriteLedger
  <1>6. CASE ReadDocument
    BY <1>6, ReadStep DEF Linking, ReadDocument, disk
  <1>7. CASE Apply
    BY <1>7, ApplyStep, IdleCommand DEF Linking, Apply
  <1>8. CASE LinkGlobal
    BY <1>8, GlobalStep, IdleCommand DEF Linking
  <1>9. CASE Rollback
    BY <1>9, RollbackStep DEF Linking
  <1>10. CASE Restore
    BY <1>10, RestoreStep DEF Linking, Restore
  <1>11. CASE RestoreLedger
    BY <1>11, RestoreLedgerStep DEF Linking
  <1>12. CASE EndRestore
    BY <1>12, EndRestoreStep, IdleCommand DEF Linking
  <1>13. CASE Die \/ DieInLedger \/ DieInSnapshot
    BY <1>13, DeathStep, IdleCommand DEF Linking
  <1>14. CASE Others
    BY <1>14, OthersStep DEF Linking
  <1>15. CASE UNCHANGED vars
    BY <1>15 DEF vars, disk, history, TypeOK, SnapshotOK, Linking
  <1>. QED
    BY <1>1, <1>2, <1>3, <1>4, <1>5, <1>6, <1>7, <1>8, <1>9, <1>10, <1>11, <1>12, <1>13, <1>14, <1>15
       DEF Next, Run, Others

-----------------------------------------------------------------------------
(* Who owns the links. *)

\* A plan with nothing of NoLedger in it is a ledger.
LEMMA PlanIsLedger ==
  ASSUME TypeOK
  PROVE  command.plan \cap Skills # NoLedger
  BY DeployAssumption DEF DeployAssumption

\* Steps of a deploy.
LEMMA DeploySteps ==
  ASSUME TypeOK, Recording, Ownership, Run
  PROVE  Ownership'
  <1>. USE DEF Ownership, At, IsLinked
  <1>1. CASE Snapshot
    <2>1. /\ UNCHANGED <<place, ledger, skillLedger, torn>> /\ command.at = "idle"
          /\ skillLedger \in SUBSET Skills
      <3>1. UNCHANGED <<place, ledger, skillLedger, torn>> /\ command.at = "idle"
        BY <1>1 DEF Snapshot, disk
      <3>. QED BY <1>1, <3>1, SnapshotStep DEF TypeOK
    <2>2. DeployOwns'
      BY <1>1, <2>1, SnapshotStep DEF DeployOwns, AssetsOwned, SkillsOwned, Owns
    <2>3. SnapshotOwns'
      <3>. SUFFICES ASSUME ~torn PROVE SnapshotOwns'
        BY <1>1, SnapshotStep DEF SnapshotOwns
      <3>1. AssetsOwned /\ SkillsOwned
        BY <2>1 DEF DeployOwns
      <3>2. \A n \in Skills : n \notin Targets => ~IsLinked(n)
        BY <2>1, <3>1 DEF SkillsOwned, Targets
      <3>3. \A n \in Skills : n \in Targets /\ snapshot'.files[n] = Link => n \in snapshot'.skillLedger
        BY <1>1, <3>1, SnapshotStep DEF SkillsOwned
      <3>4. \A n \in Assets :
               (IF n \in Targets THEN snapshot'.files[n] = Link ELSE IsLinked(n))
                  => Owns(snapshot'.ledger, n)
        BY <1>1, <3>1, SnapshotStep DEF AssetsOwned, Owns
      <3>. QED BY <1>1, <2>1, <3>2, <3>3, <3>4, SnapshotStep DEF SnapshotOwns, Owns
    <2>4. RollbackOwns'
      BY <1>1, SnapshotStep DEF RollbackOwns
    <2>. QED BY <2>2, <2>3, <2>4
  <1>2. CASE Plan
    <2>1. /\ UNCHANGED <<place, ledger, skillLedger, torn, snapshot>> /\ command.at = "plan"
          /\ command.of = Assets
      <3>1. UNCHANGED <<place, ledger, skillLedger, torn, snapshot>> /\ command.at = "plan"
        BY <1>2 DEF Plan, disk, history
      <3>. QED BY <3>1 DEF Recording
    <2>2. DeployOwns'
      <3>. SUFFICES ASSUME ~torn PROVE DeployOwns'
        BY <2>1 DEF DeployOwns
      <3>1. AssetsOwned /\ SkillsOwned
        BY <2>1 DEF DeployOwns
      <3>2. AssetsOwned' /\ SkillsOwned'
        BY <2>1, <3>1 DEF AssetsOwned, SkillsOwned, Owns
      <3>3. CASE command' = Idle
        BY <3>2, <3>3, IdleCommand DEF DeployOwns
      <3>4. CASE command' # Idle
        <4>1. /\ command'.at = "prune" /\ command'.of = command.of /\ command'.plan = source
              /\ command'.owned = Owned \cup skillLedger
              /\ command'.todo = ((Owned \cup skillLedger) \cap Assets) \ source
          BY <1>2, <3>4, PlanStep
        <4>2. \A n \in Assets : IsLinked(n) => n \in Owned
          BY <3>1 DEF AssetsOwned, Owns, Owned
        <4>3. Accounted(Assets)'
          BY <2>1, <4>1, <4>2 DEF Accounted
        <4>. QED BY <2>1, <3>2, <4>1, <4>3 DEF DeployOwns
      <3>. QED BY <3>3, <3>4
    <2>3. SnapshotOwns'
      BY <2>1 DEF SnapshotOwns, Owns
    <2>4. RollbackOwns'
      BY <1>2, PlanStep, IdleCommand DEF RollbackOwns
    <2>. QED BY <2>2, <2>3, <2>4
  <1>3. CASE Prune
    <2>1. /\ UNCHANGED <<ledger, skillLedger, torn, snapshot>> /\ command.at = "prune"
          /\ command'.at \in {"prune", "link"} /\ command'.of = command.of
          /\ command'.plan = command.plan /\ command'.owned = command.owned
          /\ \A n \in Names : place'[n] = Link => place[n] = Link
      <3>1. \A n \in Names : place'[n] = Link => place[n] = Link
        BY <1>3, PruneStep, Kinds DEF TypeOK
      <3>2. UNCHANGED torn /\ command.at = "prune"
        BY <1>3 DEF Prune, history
      <3>. QED BY <1>3, <3>1, <3>2, PruneStep
    <2>2. ASSUME NEW names, names \subseteq Names, Accounted(names) PROVE Accounted(names)'
      <3>1. CASE command.todo = {} /\ UNCHANGED place
        BY <2>1, <2>2, <3>1 DEF Accounted
      <3>2. ASSUME NEW m \in command.todo,
                   command'.at = "prune", command'.todo = command.todo \ {m},
                   place' = IF place[m] = Link THEN [place EXCEPT ![m] = Nothing] ELSE place
            PROVE  Accounted(names)'
        <4>1. m \in Names
          BY DEF TypeOK, Commands
        <4>2. place'[m] # Link
          BY <3>2, <4>1, Kinds DEF TypeOK
        <4>. QED BY <2>1, <2>2, <3>2, <4>2 DEF Accounted
      <3>. QED BY <1>3, <3>1, <3>2, PruneStep
    <2>3. (AssetsOwned => AssetsOwned') /\ (SkillsOwned => SkillsOwned')
      BY <2>1, Sides DEF AssetsOwned, SkillsOwned, Owns
    <2>4. DeployOwns'
      <3>1. (Accounted(Assets) => Accounted(Assets)') /\ (Accounted(Skills) => Accounted(Skills)')
        BY <2>2, Sides
      <3>. QED BY <2>1, <2>3, <3>1 DEF DeployOwns
    <2>5. SnapshotOwns'
      BY <2>1, Sides DEF SnapshotOwns, Owns
    <2>6. RollbackOwns'
      BY <2>1 DEF RollbackOwns
    <2>. QED BY <2>4, <2>5, <2>6
  <1>4. CASE LinkName
    <2>1. /\ UNCHANGED <<ledger, skillLedger, torn, snapshot>> /\ command.at = "link"
          /\ command'.at \in {"link", "ledger"} /\ command'.of = command.of
          /\ command'.plan = command.plan /\ command'.owned = command.owned
          /\ command.todo \subseteq command.plan \cap command.of
          /\ command.plan \subseteq DOMAIN snapshot.files
      <3>1. UNCHANGED torn /\ command.at = "link"
        BY <1>4 DEF LinkName, history
      <3>. QED BY <1>4, <3>1, LinkStep DEF Recording, Linking
    <2>2. \A n \in Names : place'[n] = Link => place[n] = Link \/ n \in command.todo
      BY <1>4, LinkStep DEF TypeOK
    <2>3. \A names \in SUBSET Names : Accounted(names) => Accounted(names)'
      BY <2>1, <2>2 DEF Accounted
    <2>4. command.of = Assets /\ SkillsOwned => SkillsOwned'
      BY <2>1, <2>2, Sides DEF SkillsOwned
    <2>5. command.of = Skills /\ AssetsOwned => AssetsOwned'
      BY <2>1, <2>2, Sides DEF AssetsOwned, Owns
    <2>6. command.of \in {Assets, Skills}
      BY DEF TypeOK, Commands
    <2>7. DeployOwns'
      BY <2>1, <2>3, <2>4, <2>5, <2>6, Sides DEF DeployOwns
    <2>8. SnapshotOwns'
      BY <2>1, <2>2, Sides DEF SnapshotOwns, Owns
    <2>9. RollbackOwns'
      BY <2>1 DEF RollbackOwns
    <2>. QED BY <2>7, <2>8, <2>9
  <1>5. CASE WriteLedger
    <2>1. UNCHANGED <<place, torn, snapshot>> /\ command.at = "ledger"
      BY <1>5 DEF WriteLedger, history
    <2>2. DeployOwns'
      <3>. SUFFICES ASSUME ~torn PROVE DeployOwns'
        BY <2>1 DEF DeployOwns
      <3>1. CASE command.of = Assets
        <4>1. /\ ledger' = command.plan \cap Assets /\ UNCHANGED skillLedger
              /\ command'.at = "prune" /\ command'.of = Skills /\ command'.plan = command.plan
              /\ command'.todo = (command.owned \cap Skills) \ command.plan
          BY <1>5, <3>1, LedgerStep, Sides
        <4>2. Accounted(Assets) /\ SkillsOwned /\ skillLedger \subseteq command.owned
          BY <2>1, <3>1 DEF DeployOwns
        <4>3. AssetsOwned'
          BY <2>1, <4>1, <4>2 DEF AssetsOwned, Owns, Accounted
        <4>4. Accounted(Skills)'
          BY <2>1, <4>1, <4>2 DEF Accounted, SkillsOwned
        <4>. QED BY <4>1, <4>3, <4>4, Sides DEF DeployOwns
      <3>2. CASE command.of = Skills
        <4>1. /\ skillLedger' = command.plan \cap Skills /\ UNCHANGED ledger
              /\ command'.at = "read"
          BY <1>5, <3>2, LedgerStep, Sides
        <4>2. AssetsOwned /\ Accounted(Skills)
          BY <2>1, <3>2, Sides DEF DeployOwns
        <4>3. AssetsOwned'
          BY <2>1, <4>1, <4>2 DEF AssetsOwned, Owns
        <4>4. SkillsOwned'
          BY <2>1, <4>1, <4>2, PlanIsLedger DEF SkillsOwned, Accounted
        <4>. QED BY <4>1, <4>3, <4>4 DEF DeployOwns
      <3>3. command.of \in {Assets, Skills}
        BY DEF TypeOK, Commands
      <3>. QED BY <3>1, <3>2, <3>3
    <2>3. SnapshotOwns'
      BY <2>1 DEF SnapshotOwns, Owns
    <2>4. RollbackOwns'
      BY <1>5, LedgerStep DEF RollbackOwns
    <2>. QED BY <2>2, <2>3, <2>4
  <1>6. CASE ReadDocument \/ Apply \/ LinkGlobal
    <2>1. /\ UNCHANGED <<ledger, skillLedger, torn, snapshot>>
          /\ command.at \in {"read", "apply", "global"}
          /\ command'.at \in {"idle", "apply", "global"}
          /\ \A n \in Assets \cup Skills : place'[n] = Link => place[n] = Link
      <3>1. CASE ReadDocument
        <4>1. UNCHANGED <<ledger, skillLedger, torn, snapshot, place>> /\ command.at = "read"
          BY <3>1 DEF ReadDocument, disk, history
        <4>. QED BY <3>1, <4>1, ReadStep
      <3>2. CASE Apply
        <4>1. UNCHANGED <<ledger, skillLedger, torn, snapshot>> /\ command.at = "apply"
          BY <3>2 DEF Apply, history
        <4>2. \A n \in Names : place'[n] = Link => place[n] = Link
          BY <3>2, ApplyStep, Kinds
        <4>. QED BY <3>2, <4>1, <4>2, ApplyStep, IdleCommand, Sides
      <3>3. CASE LinkGlobal
        <4>1. UNCHANGED <<ledger, skillLedger, torn, snapshot>> /\ command.at = "global"
          BY <3>3 DEF LinkGlobal, history
        <4>. QED BY <3>3, <4>1, GlobalStep, IdleCommand, Sides
      <3>. QED BY <1>6, <3>1, <3>2, <3>3
    <2>2. DeployOwns'
      BY <2>1 DEF DeployOwns, AssetsOwned, SkillsOwned, Owns
    <2>3. SnapshotOwns'
      BY <2>1 DEF SnapshotOwns, Owns
    <2>4. RollbackOwns'
      BY <2>1 DEF RollbackOwns
    <2>. QED BY <2>2, <2>3, <2>4
  <1>. QED BY <1>1, <1>2, <1>3, <1>4, <1>5, <1>6 DEF Run

\* Steps of a rollback, deaths and what others do.
LEMMA OtherSteps ==
  ASSUME TypeOK, Recording, Ownership,
         Rollback \/ Restore \/ RestoreLedger \/ EndRestore
           \/ Die \/ DieInLedger \/ DieInSnapshot \/ Others \/ UNCHANGED vars
  PROVE  Ownership'
  <1>. USE DEF Ownership, At, IsLinked
  <1>1. CASE Rollback
    <2>1. UNCHANGED <<place, ledger, skillLedger, snapshot, torn>>
      BY <1>1 DEF Rollback, disk, history
    <2>2. DeployOwns'
      BY <1>1, RollbackStep DEF DeployOwns
    <2>3. SnapshotOwns'
      BY <2>1 DEF SnapshotOwns, Owns
    <2>4. RollbackOwns'
      BY <1>1, <2>1, RollbackStep DEF RollbackOwns, Restored
    <2>. QED BY <2>2, <2>3, <2>4
  <1>2. CASE Restore
    <2>1. PICK n \in command.todo :
            /\ place' = [place EXCEPT ![n] = snapshot.files[n]]
            /\ command'.todo = command.todo \ {n}
            /\ n \in command.of \cap DOMAIN snapshot.files
      BY <1>2, RestoreStep
    <2>2. /\ UNCHANGED <<ledger, skillLedger, snapshot, torn>> /\ command.at = "restore"
          /\ command'.of = command.of /\ command'.at = "restore"
      <3>1. UNCHANGED torn /\ command.at = "restore"
        BY <1>2 DEF Restore, history
      <3>. QED BY <1>2, <3>1, RestoreStep
    <2>3. n \in Names /\ place'[n] = snapshot.files[n]
          /\ \A m \in Names : m # n => place'[m] = place[m]
      BY <2>1 DEF TypeOK, Commands
    <2>4. DeployOwns'
      BY <2>2 DEF DeployOwns
    <2>5. SnapshotOwns'
      BY <2>1, <2>2, <2>3, Sides DEF SnapshotOwns, Owns
    <2>6. (Restored(Assets) => Restored(Assets)') /\ (Restored(Skills) => Restored(Skills)')
      BY <2>1, <2>2, <2>3, Sides DEF Restored
    <2>7. command.of = Skills /\ AssetsOwned => AssetsOwned'
      BY <2>1, <2>2, <2>3, Sides DEF AssetsOwned, Owns
    <2>8. command.of \in {Assets, Skills}
      BY DEF TypeOK, Commands
    <2>9. RollbackOwns'
      BY <2>2, <2>6, <2>7, <2>8 DEF RollbackOwns
    <2>. QED BY <2>4, <2>5, <2>9
  <1>3. CASE RestoreLedger
    <2>1. /\ UNCHANGED <<place, skillLedger, snapshot, torn>> /\ command.at = "restore"
          /\ command.todo = {} /\ command.of = Assets /\ ledger' = snapshot.ledger
          /\ command'.at = "restore" /\ command'.of = Skills
          /\ command'.todo = Skills \cap DOMAIN snapshot.files
      BY <1>3, RestoreLedgerStep DEF history
    <2>2. DeployOwns'
      BY <2>1 DEF DeployOwns
    <2>3. SnapshotOwns'
      BY <2>1 DEF SnapshotOwns, Owns
    <2>4. RollbackOwns'
      <3>. SUFFICES ASSUME ~snapshot.torn PROVE AssetsOwned' /\ Restored(Skills)'
        BY <2>1, Sides DEF RollbackOwns
      <3>1. Restored(Assets) /\ snapshot.complete
        BY <2>1 DEF RollbackOwns, Recording
      <3>2. AssetsOwned'
        BY <2>1, <3>1 DEF AssetsOwned, Restored, SnapshotOwns, Owns
      <3>3. Restored(Skills)'
        BY <2>1 DEF Restored
      <3>. QED BY <3>2, <3>3
    <2>. QED BY <2>2, <2>3, <2>4
  <1>4. CASE EndRestore
    <2>1. /\ UNCHANGED <<ledger, snapshot>> /\ command.at = "restore"
          /\ command.todo = {} /\ command.of = Skills
          /\ skillLedger' = snapshot.skillLedger /\ skillLedger' \in SUBSET Skills
          /\ torn' = snapshot.torn /\ command'.at = "idle"
          /\ \A n \in Assets \cup Skills : place'[n] = place[n]
      BY <1>4, EndRestoreStep, IdleCommand, Sides
    <2>2. snapshot.complete
      BY <2>1 DEF Recording
    <2>3. DeployOwns'
      <3>. SUFFICES ASSUME ~snapshot.torn PROVE AssetsOwned' /\ SkillsOwned'
        BY <2>1 DEF DeployOwns
      <3>1. AssetsOwned /\ Restored(Skills)
        BY <2>1, Sides DEF RollbackOwns
      <3>2. AssetsOwned'
        BY <2>1, <3>1 DEF AssetsOwned, Owns
      <3>3. skillLedger' # NoLedger
        BY <2>1, DeployAssumption DEF DeployAssumption
      <3>4. SkillsOwned'
        BY <2>1, <2>2, <3>1, <3>3 DEF SkillsOwned, Restored, SnapshotOwns
      <3>. QED BY <3>2, <3>4
    <2>4. SnapshotOwns'
      BY <2>1 DEF SnapshotOwns, Owns
    <2>5. RollbackOwns'
      BY <2>1 DEF RollbackOwns
    <2>. QED BY <2>3, <2>4, <2>5
  <1>5. CASE Die \/ DieInLedger \/ DieInSnapshot
    <2>1. CASE UNCHANGED <<snapshot, before>> /\ torn' = TRUE
               /\ \/ UNCHANGED place
                  \/ \E n \in command.todo : At("link") /\ place' = [place EXCEPT ![n] = Nothing]
      <3>1. \A n \in Names : place'[n] = Link => place[n] = Link
        BY <2>1, Kinds DEF TypeOK
      <3>2. SnapshotOwns'
        BY <2>1, <3>1, Sides DEF SnapshotOwns, Owns
      <3>3. DeployOwns' /\ RollbackOwns'
        BY <1>5, <2>1, DeathStep, IdleCommand DEF DeployOwns, RollbackOwns
      <3>. QED BY <3>2, <3>3
    <2>2. CASE UNCHANGED <<place, ledger, skillLedger, torn>> /\ At("idle")
               /\ before' = Unknown /\ snapshot'.complete = FALSE
      <3>1. command'.at = "idle"
        BY <1>5, DeathStep, IdleCommand
      <3>2. DeployOwns'
        BY <2>2, <3>1 DEF DeployOwns, AssetsOwned, SkillsOwned, Owns
      <3>3. SnapshotOwns' /\ RollbackOwns'
        BY <2>2, <3>1 DEF SnapshotOwns, RollbackOwns
      <3>. QED BY <3>2, <3>3
    <2>. QED BY <1>5, <2>1, <2>2, DeathStep
  <1>6. CASE Others \/ UNCHANGED vars
    <2>1. /\ UNCHANGED <<ledger, skillLedger, snapshot, command, torn>>
          /\ \A n \in Names : place'[n] = Link => place[n] = Link
      BY <1>6, OthersStep DEF vars, disk, history
    <2>2. /\ (AssetsOwned => AssetsOwned') /\ (SkillsOwned => SkillsOwned')
          /\ (Accounted(Assets) => Accounted(Assets)') /\ (Accounted(Skills) => Accounted(Skills)')
      BY <2>1, Sides DEF AssetsOwned, SkillsOwned, Accounted, Owns
    <2>3. DeployOwns'
      BY <2>1, <2>2 DEF DeployOwns
    <2>4. SnapshotOwns'
      BY <2>1, Sides DEF SnapshotOwns, Owns
    <2>5. RollbackOwns'
      BY <2>1, <2>2, Sides DEF RollbackOwns, Restored
    <2>. QED BY <2>3, <2>4, <2>5
  <1>. QED BY <1>1, <1>2, <1>3, <1>4, <1>5, <1>6

\* The types, what is recorded and who owns it hold in every reachable state.
LEMMA OwnershipStep ==
  ASSUME TypeOK, Recording, Ownership, [Next]_vars
  PROVE  TypeOK' /\ Recording' /\ Ownership'
  BY RecordingStep, DeploySteps, OtherSteps DEF Next, Others

\* They hold initially.
LEMMA InitOwnership ==
  ASSUME Init
  PROVE  TypeOK /\ Recording /\ Ownership
  <1>1. /\ command = Idle /\ snapshot.complete = FALSE /\ ledger = NoLedger /\ skillLedger = {}
        /\ source \subseteq Assets \cup Skills /\ sourceText = {}
        /\ place \in [Names -> {Nothing, Link, File({})}]
        /\ \A n \in Skills : place[n] = Nothing
    BY DEF Init, NoSnapshot
  <1>2. File({}) \in Items /\ Nothing \in Items /\ Link \in Items /\ Nothing # Link
    BY Kinds
  <1>3. place \in [Names -> Items]
    BY <1>1, <1>2
  <1>4. TypeOK
    BY <1>1, <1>3, IdleCommand DEF TypeOK
  <1>5. Recording
    BY <1>1, IdleCommand DEF Recording, At, Linking
  <1>6. skillLedger # NoLedger
    BY <1>1, DeployAssumption DEF DeployAssumption
  <1>7. Ownership
    BY <1>1, <1>2, <1>6, IdleCommand
       DEF Ownership, DeployOwns, SnapshotOwns, RollbackOwns, AssetsOwned, SkillsOwned, IsLinked,
           Owns, At
  <1>. QED BY <1>4, <1>5, <1>7

LEMMA OwnershipAlways == Spec => [](TypeOK /\ Recording /\ Ownership)
  <1>1. Init => TypeOK /\ Recording /\ Ownership
    BY InitOwnership
  <1>2. (TypeOK /\ Recording /\ Ownership) /\ [Next]_vars => (TypeOK /\ Recording /\ Ownership)'
    BY OwnershipStep
  <1>. QED BY <1>1, <1>2, PTL DEF Spec

\* Between two commands every link into the source is owned, unless a command died and was
\* not rolled back since.
THEOREM LinksOwnedTheorem == Spec => []LinksOwned
  <1>1. TypeOK /\ Recording /\ Ownership => LinksOwned
    <2>. SUFFICES ASSUME TypeOK, Ownership, At("idle"), ~torn PROVE LinksOwned
      BY DEF LinksOwned
    <2>1. AssetsOwned /\ SkillsOwned
      BY DEF Ownership, DeployOwns, At
    <2>. QED BY <2>1 DEF AssetsOwned, SkillsOwned, LinksOwned, Links, IsLinked, Owns
  <1>. QED BY <1>1, OwnershipAlways, PTL

-----------------------------------------------------------------------------
(* What a rollback puts back. *)

\* Steps that change no unrecorded name, and only come to the parts of a command where
\* nothing more is said.
LEMMA RecordedChange ==
  ASSUME Unchanged, UNCHANGED <<snapshot, before>>,
         \A n \in Names \ DOMAIN snapshot.files : place'[n] = place[n],
         command'.at \notin {"plan", "prune", "restore"}
  PROVE  Unchanged'
  BY DEF Unchanged, Retracted, At

\* Every step keeps it.
LEMMA UnchangedStep ==
  ASSUME TypeOK, Recording, Unchanged, [Next]_vars
  PROVE  Unchanged'
  <1>0. /\ snapshot.complete => {Document, Global} \subseteq DOMAIN snapshot.files
        /\ command.of \in {Assets, Skills} /\ command.todo \subseteq Names
    BY DEF TypeOK, SnapshotOK, Commands
  <1>1. CASE Snapshot
    <2>1. UNCHANGED <<place, ledger>> /\ command'.at \in {"idle", "plan"}
      BY <1>1, SnapshotStep DEF Snapshot, disk
    <2>2. /\ DOMAIN snapshot'.files = Targets
          /\ \A n \in Targets : snapshot'.files[n] = place[n]
          /\ snapshot'.ledger = ledger /\ snapshot'.skillLedger = skillLedger
          /\ before'.place = place /\ before'.ledger = ledger /\ before'.skillLedger = skillLedger
      BY <1>1, SnapshotStep
    <2>. QED BY <2>1, <2>2 DEF Unchanged, At
  <1>2. CASE Plan
    <2>1. UNCHANGED <<place, ledger, skillLedger, snapshot, before>> /\ At("plan")
      BY <1>2 DEF Plan, disk, history
    <2>2. CASE command' = Idle
      BY <2>1, <2>2, RecordedChange, IdleCommand
    <2>3. CASE command' # Idle
      <3>1. /\ command'.at = "prune"
            /\ command'.todo = ((Owned \cup skillLedger) \cap Assets) \ source
        BY <1>2, <2>3, PlanStep
      <3>2. before # Unknown => \A n \in command'.todo : Owns(before.ledger, n)
        <4>. SUFFICES ASSUME before # Unknown, NEW n \in command'.todo PROVE Owns(ledger, n)
          BY <2>1 DEF Unchanged
        <4>1. skillLedger \in SUBSET Skills
          BY <2>1 DEF Recording, TypeOK
        <4>2. n \in Owned
          BY <3>1, <4>1, Sides
        <4>. QED BY <4>2 DEF Owned, Owns
      <3>. QED BY <2>1, <3>1, <3>2 DEF Unchanged, Retracted, At
    <2>. QED BY <2>2, <2>3
  <1>3. CASE Prune
    <2>1. UNCHANGED <<ledger, skillLedger, snapshot, before>> /\ At("prune") /\ command'.of = command.of
      BY <1>3, PruneStep DEF Prune, history
    <2>2. CASE command.todo = {} /\ UNCHANGED place /\ command'.at = "link"
      BY <2>1, <2>2, RecordedChange
    <2>3. ASSUME NEW n \in command.todo,
                 command'.at = "prune", command'.todo = command.todo \ {n},
                 place' = IF place[n] = Link THEN [place EXCEPT ![n] = Nothing] ELSE place
          PROVE  Unchanged'
      <3>. SUFFICES ASSUME before # Unknown PROVE Unchanged'
        BY <2>1 DEF Unchanged
      <3>1. /\ n \in Names /\ \A m \in Names : m # n => place'[m] = place[m]
            /\ n \in command.of
            /\ command.of = Skills => n \in DOMAIN snapshot.files
        BY <1>0, <2>1, <2>3 DEF TypeOK, Recording, At, Linking
      <3>2. n \notin DOMAIN snapshot.files => place'[n] = before.place[n] \/ Retracted(n)
        <4>. SUFFICES ASSUME n \notin DOMAIN snapshot.files, place[n] = Link PROVE Retracted(n)
          BY <2>3, <3>1 DEF Unchanged
        <4>1. command.of = Assets /\ n \in Assets
          BY <1>0, <3>1
        <4>2. Owns(before.ledger, n)
          BY <2>1, <4>1 DEF Unchanged
        <4>3. before.place[n] = Link \/ Retracted(n)
          BY <3>1 DEF Unchanged
        <4>. QED BY <4>1, <4>2, <4>3 DEF Retracted, Owns
      <3>3. \A m \in Names \ DOMAIN snapshot.files : place'[m] = before.place[m] \/ Retracted(m)
        BY <3>1, <3>2 DEF Unchanged
      <3>. QED BY <2>1, <2>3, <3>3 DEF Unchanged, Retracted, At
    <2>. QED BY <1>3, <2>2, <2>3, PruneStep
  <1>4. CASE LinkName
    <2>1. UNCHANGED <<snapshot, before>> /\ At("link") /\ command'.at \in {"link", "ledger"}
      BY <1>4, LinkStep DEF LinkName, history
    <2>2. command.todo \subseteq DOMAIN snapshot.files
      BY <2>1 DEF Recording, At, Linking
    <2>3. \A n \in Names \ DOMAIN snapshot.files : place'[n] = place[n]
      BY <1>4, <2>2, LinkStep DEF TypeOK
    <2>. QED BY <2>1, <2>3, RecordedChange
  <1>5. CASE WriteLedger
    <2>1. UNCHANGED <<place, snapshot, before>> /\ At("ledger")
      BY <1>5 DEF WriteLedger, history
    <2>2. CASE command'.at = "read"
      BY <2>1, <2>2, RecordedChange
    <2>3. CASE command'.at = "prune" /\ command'.of = Skills
      BY <2>1, <2>3, Sides DEF Unchanged, Retracted, At
    <2>. QED BY <1>5, <2>2, <2>3, LedgerStep
  <1>6. CASE ReadDocument
    <2>1. UNCHANGED <<place, snapshot, before>> /\ command'.at \in {"apply", "global"}
      BY <1>6, ReadStep DEF disk, history
    <2>. QED BY <2>1, RecordedChange
  <1>7. CASE Apply
    <2>1. UNCHANGED <<snapshot, before>> /\ At("apply") /\ command'.at \in {"idle", "global"}
      BY <1>7, ApplyStep, IdleCommand DEF Apply, history
    <2>2. Document \in DOMAIN snapshot.files
      BY <1>0, <2>1 DEF Recording, At
    <2>. QED BY <1>7, <2>1, <2>2, ApplyStep, RecordedChange
  <1>8. CASE LinkGlobal
    <2>1. UNCHANGED <<snapshot, before>> /\ At("global") /\ command'.at = "idle"
      BY <1>8, GlobalStep, IdleCommand DEF LinkGlobal, history
    <2>2. Global \in DOMAIN snapshot.files
      BY <1>0, <2>1 DEF Recording, At
    <2>. QED BY <1>8, <2>1, <2>2, GlobalStep, RecordedChange
  <1>9. CASE Rollback
    <2>1. /\ UNCHANGED <<place, snapshot, before>>
          /\ command'.at = "restore" /\ command'.of = Assets
          /\ command'.todo = Assets \cap DOMAIN snapshot.files
      BY <1>9, RollbackStep DEF disk, history
    <2>. QED BY <2>1, Sides DEF Unchanged, Retracted, At
  <1>10. CASE Restore
    <2>1. PICK n \in command.todo :
            /\ place' = [place EXCEPT ![n] = snapshot.files[n]]
            /\ command'.todo = command.todo \ {n}
            /\ n \in command.of \cap DOMAIN snapshot.files
      BY <1>10, RestoreStep
    <2>2. /\ UNCHANGED <<ledger, skillLedger, snapshot, before>> /\ At("restore")
          /\ command'.of = command.of /\ command'.at = "restore"
      BY <1>10, RestoreStep DEF Restore, history
    <2>3. /\ n \in Names /\ place'[n] = snapshot.files[n]
          /\ \A m \in Names : m # n => place'[m] = place[m]
      BY <1>0, <2>1 DEF TypeOK
    <2>. QED BY <2>1, <2>2, <2>3, Sides DEF Unchanged, Retracted, At
  <1>11. CASE RestoreLedger
    <2>1. /\ UNCHANGED <<place, skillLedger, snapshot, before>> /\ At("restore")
          /\ command.todo = {} /\ command.of = Assets /\ ledger' = snapshot.ledger
          /\ command'.at = "restore" /\ command'.of = Skills
          /\ command'.todo = Skills \cap DOMAIN snapshot.files
      BY <1>11, RestoreLedgerStep DEF history
    <2>. QED BY <2>1, Sides DEF Unchanged, Retracted, At
  <1>12. CASE EndRestore
    <2>1. UNCHANGED <<snapshot, before>> /\ command'.at = "idle" /\ Global \in DOMAIN snapshot.files
      BY <1>12, EndRestoreStep, IdleCommand
    <2>. QED BY <1>12, <2>1, EndRestoreStep, RecordedChange
  <1>13. CASE Die \/ DieInLedger \/ DieInSnapshot
    <2>1. CASE UNCHANGED <<snapshot, before>> /\ torn' = TRUE
               /\ \/ UNCHANGED place
                  \/ \E n \in command.todo : At("link") /\ place' = [place EXCEPT ![n] = Nothing]
      <3>1. At("link") => command.todo \subseteq DOMAIN snapshot.files
        BY DEF Recording, At, Linking
      <3>2. \A n \in Names \ DOMAIN snapshot.files : place'[n] = place[n]
        BY <2>1, <3>1 DEF TypeOK
      <3>. QED BY <1>13, <2>1, <3>2, DeathStep, IdleCommand, RecordedChange
    <2>2. CASE before' = Unknown
      BY <2>2 DEF Unchanged
    <2>. QED BY <1>13, <2>1, <2>2, DeathStep
  <1>14. CASE Others
    BY <1>14, OthersStep DEF Unchanged
  <1>15. CASE UNCHANGED vars
    BY <1>15 DEF vars, disk, history, Unchanged, Retracted, At
  <1>. QED
    BY <1>1, <1>2, <1>3, <1>4, <1>5, <1>6, <1>7, <1>8, <1>9, <1>10, <1>11, <1>12, <1>13, <1>14, <1>15
       DEF Next, Run, Others

\* A rollback puts back what was there before the deploy, wherever that ended or died, when
\* nobody else has changed anything since; except the asset links the deploy retracted.
THEOREM RollbackRestoresTheorem == Spec => RollbackRestores
  <1>. DEFINE Inv == TypeOK /\ Recording /\ Unchanged
  <1>1. Init => Inv
    <2>1. Init => Unchanged
      BY DEF Init, Unchanged
    <2>. QED BY <2>1, InitOwnership
  <1>2. Inv /\ [Next]_vars => Inv'
    BY RecordingStep, UnchangedStep
  <1>3. Inv => (EndRestore /\ before # Unknown
                => /\ ledger' = before.ledger /\ skillLedger' = before.skillLedger
                   /\ \A n \in Names : \/ place'[n] = before.place[n]
                                       \/ Retracted(n))
    <2>. SUFFICES ASSUME TypeOK, Recording, Unchanged, EndRestore, before # Unknown
                  PROVE  /\ ledger' = before.ledger /\ skillLedger' = before.skillLedger
                         /\ \A n \in Names : place'[n] = before.place[n] \/ Retracted(n)
      OBVIOUS
    <2>1. /\ At("restore") /\ command.todo = {} /\ command.of = Skills /\ UNCHANGED ledger
          /\ skillLedger' = snapshot.skillLedger
          /\ \A n \in Names : n # Global => place'[n] = place[n]
          /\ place'[Global] = snapshot.files[Global] /\ Global \in DOMAIN snapshot.files
      BY EndRestoreStep
    <2>2. \A n \in Names : n \in Assets \/ n \in Skills \/ n = Global
      BY DEF Names
    <2>3. /\ ledger = before.ledger /\ snapshot.skillLedger = before.skillLedger
          /\ \A n \in (Assets \cup Skills) \cap DOMAIN snapshot.files : place[n] = before.place[n]
          /\ \A n \in Names \ DOMAIN snapshot.files : place[n] = before.place[n] \/ Retracted(n)
          /\ snapshot.files[Global] = before.place[Global]
      BY <2>1 DEF Unchanged
    <2>. QED BY <2>1, <2>2, <2>3
  <1>. QED BY <1>1, <1>2, <1>3, PTL DEF Spec, RollbackRestores

-----------------------------------------------------------------------------
(* What the document keeps. *)

\* No step of a command that leaves the document and what is carried alone disturbs it.
LEMMA DocumentLeft ==
  ASSUME DocumentServed,
         UNCHANGED <<sourceText, Owed, written, snapshot>>,
         Document \in source' <=> Document \in source,
         place'[Document] = place[Document],
         command'.carried = command.carried /\ command'.existing = command.existing
           /\ command'.stamp = command.stamp,
         command'.at \in {"plan", "prune", "link", "ledger", "read"} =>
            command.at \in {"plan", "prune", "link", "ledger", "read"},
         command'.at \in {"idle", "plan", "restore"} => command.carried = NoText,
         command'.at = "apply" => command.at = "apply",
         command'.at = "link" /\ Document \in command'.todo => command.carried = NoText,
         command'.at = "prune" /\ command'.of = Assets => command.carried = NoText
  PROVE  DocumentServed'
  <1>1. Text' = Text /\ Stamp' = Stamp /\ Existing' = Existing
    BY DEF Text, Stamp, Existing
  <1>2. Sourced'
    BY DEF DocumentServed, Sourced, IsLinked
  <1>3. Authored'
    BY DEF DocumentServed, Authored
  <1>4. Carrying'
    BY <1>1 DEF DocumentServed, Carrying, At
  <1>. QED BY <1>2, <1>3, <1>4 DEF DocumentServed

\* Nor does the end of a command, if it leaves a document that is sourced and authored.
LEMMA DocumentEnds ==
  ASSUME DocumentServed, command' = Idle, UNCHANGED <<source, Owed, written>>,
         snapshot' = snapshot \/ ~snapshot'.complete,
         place'[Document] = Link => place[Document] = Link,
         place'[Document].text \cup sourceText' \subseteq written
  PROVE  DocumentServed'
  <1>1. Sourced'
    BY DEF DocumentServed, Sourced, IsLinked
  <1>2. Authored'
    BY IdleCommand DEF DocumentServed, Authored
  <1>3. Carrying'
    BY IdleCommand DEF Carrying, At
  <1>. QED BY <1>1, <1>2, <1>3 DEF DocumentServed

\* Texts are not NoText, and what is read was written.
LEMMA TextWritten ==
  ASSUME TypeOK, DocumentServed
  PROVE  /\ Text \subseteq written /\ Text # NoText
         /\ Existing \subseteq written /\ (Stamp # NoText => Stamp = Text)
         /\ place[Document] \in Items
         /\ place[Document].text \subseteq written /\ place[Document].text # NoText
  <1>1. Text \subseteq written /\ place[Document].text \subseteq written
    BY DEF DocumentServed, Authored, Text
  <1>2. Text \in SUBSET Entries
    BY TextType
  <1>3. Existing \subseteq written
    BY <1>1 DEF DocumentServed, Authored, Existing
  <1>4. Stamp # NoText => Stamp = Text
    BY DEF Stamp
  <1>5. place[Document] \in Items
    BY Sides DEF TypeOK
  <1>6. place[Document].text \in SUBSET Entries
    BY <1>5, Kinds
  <1>7. Text # NoText /\ place[Document].text # NoText
    BY <1>2, <1>6, DeployAssumption DEF DeployAssumption
  <1>. QED BY <1>1, <1>3, <1>4, <1>5, <1>7

\* A deploy that begins reads what is served.
LEMMA DocumentBegins ==
  ASSUME TypeOK, DocumentServed, Snapshot
  PROVE  DocumentServed'
  <1>1. UNCHANGED <<source, sourceText, place, written>>
    BY DEF Snapshot, disk
  <1>2. /\ command'.at \in {"idle", "plan"} /\ command'.carried = NoText /\ command'.stamp = NoText
        /\ command'.existing = {} /\ Owed' = Text
        /\ snapshot'.files[Document] = place[Document]
    <2>1. Document \in Targets
      BY DEF Targets
    <2>. QED BY <2>1, SnapshotStep
  <1>3. Text' = Text /\ Existing' = Text
    BY <1>1, <1>2 DEF Text, Existing
  <1>4. Sourced'
    BY <1>1, <1>2 DEF DocumentServed, Sourced, IsLinked
  <1>5. Authored'
    BY <1>1, <1>2, TextWritten DEF DocumentServed, Authored
  <1>6. Carrying'
    BY <1>2, <1>3 DEF Carrying, At
  <1>. QED BY <1>4, <1>5, <1>6 DEF DocumentServed

\* A link in the document's place: what it displaces is carried.
LEMMA DocumentDisplaced ==
  ASSUME TypeOK, Recording, DocumentServed, LinkName
  PROVE  DocumentServed'
  <1>1. /\ UNCHANGED <<source, sourceText, snapshot, written, Owed>> /\ At("link")
        /\ command'.of = command.of
        /\ command'.existing = command.existing /\ command'.stamp = command.stamp
        /\ command.todo \subseteq command.plan /\ command.plan = source
        /\ command.todo \subseteq Names
    <2>1. UNCHANGED Owed /\ At("link")
      BY DEF LinkName, history, Owed
    <2>. QED BY <2>1, LinkStep DEF Recording, At, Linking, TypeOK, Commands
  <1>2. CASE command.todo = {} /\ UNCHANGED place
             /\ command'.at = "ledger" /\ command'.todo = {} /\ command'.carried = command.carried
    BY <1>1, <1>2, DocumentLeft DEF At
  <1>3. ASSUME NEW n \in command.todo,
               command'.at = "link", command'.todo = command.todo \ {n},
               command'.carried = IF n = Document /\ Displaces(n) THEN place[n].text
                                  ELSE command.carried,
               place' = [place EXCEPT ![n] = Link]
        PROVE  DocumentServed'
    <2>1. CASE n # Document
      <3>1. place'[Document] = place[Document] /\ command'.carried = command.carried
        BY <1>1, <1>3, <2>1 DEF TypeOK
      <3>2. Document \in command.todo => command.carried = NoText
        BY <1>1 DEF DocumentServed, Carrying
      <3>. QED BY <1>1, <1>3, <3>1, <3>2, DocumentLeft DEF At
    <2>2. CASE n = Document
      <3>1. place'[Document] = Link /\ Document \in source
        BY <1>1, <1>3, <2>2 DEF TypeOK
      <3>2. command.carried = NoText /\ Owed \subseteq Text
        <4>1. command.carried = NoText
          BY <1>1, <1>3, <2>2 DEF DocumentServed, Carrying
        <4>2. Owed \subseteq Existing
          BY <1>1 DEF DocumentServed, Carrying, At
        <4>. QED BY <4>1, <4>2 DEF Existing
      <3>3. Text' = sourceText
        BY <1>1, <3>1 DEF Text
      <3>4. Owed \subseteq Existing' /\ (command'.carried # NoText => command'.carried \subseteq written)
        <4>1. CASE place[Document].is = "file"
          <5>1. Text = place[Document].text
            BY <4>1, Kinds DEF Text
          <5>2. command'.carried = Text /\ Text # NoText /\ Text \subseteq written
            BY <1>3, <2>2, <4>1, <5>1, TextWritten DEF Displaces
          <5>. QED BY <3>2, <5>2 DEF Existing
        <4>2. CASE place[Document].is # "file"
          <5>1. command'.carried = NoText
            BY <1>3, <2>2, <3>2, <4>2 DEF Displaces
          <5>2. place[Document] = Link \/ place[Document] = Nothing
            BY <4>2, Kinds, TextWritten
          <5>3. Text \subseteq sourceText
            BY <5>2, Kinds DEF Text
          <5>. QED BY <3>2, <3>3, <5>1, <5>3 DEF Existing
        <4>. QED BY <4>1, <4>2
      <3>5. Sourced'
        BY <1>1, <3>1 DEF DocumentServed, Sourced
      <3>6. Authored'
        BY <1>1, <3>1, <3>4, Kinds DEF DocumentServed, Authored
      <3>7. Carrying'
        BY <1>1, <1>3, <2>2, <3>4 DEF Carrying, At
      <3>. QED BY <3>5, <3>6, <3>7 DEF DocumentServed
    <2>. QED BY <2>1, <2>2
  <1>. QED BY <1>2, <1>3, LinkStep

\* A rollback may put another document back.
LEMMA DocumentRestored ==
  ASSUME TypeOK, Recording, DocumentServed, Restore
  PROVE  DocumentServed'
  <1>1. PICK n \in command.todo :
          /\ place' = [place EXCEPT ![n] = snapshot.files[n]]
          /\ command'.todo = command.todo \ {n}
          /\ n \in command.of \cap DOMAIN snapshot.files
    BY RestoreStep
  <1>2. /\ UNCHANGED <<source, sourceText, snapshot, written, Owed>> /\ At("restore")
        /\ command'.carried = command.carried /\ command'.stamp = command.stamp
        /\ command'.existing = command.existing /\ command'.at = "restore"
        /\ snapshot.complete
    <2>1. UNCHANGED Owed /\ At("restore")
      BY DEF Restore, history, Owed
    <2>. QED BY <2>1, RestoreStep DEF Recording, At
  <1>3. place'[Document] \in {place[Document], snapshot.files[Document]}
    BY <1>1, Sides DEF TypeOK
  <1>4. Sourced'
    BY <1>2, <1>3 DEF DocumentServed, Sourced, IsLinked
  <1>5. Authored'
    BY <1>2, <1>3 DEF DocumentServed, Authored
  <1>6. Carrying'
    BY <1>2 DEF DocumentServed, Carrying, At
  <1>. QED BY <1>4, <1>5, <1>6 DEF DocumentServed

\* An entry that others write while a text is not carried is read, or moves the document.
LEMMA DocumentWritten ==
  ASSUME TypeOK, DocumentServed, Others
  PROVE  DocumentServed'
  <1>1. /\ UNCHANGED <<snapshot, command>>
        /\ Document \in source' <=> Document \in source
        /\ place'[Document] = Link => place[Document] = Link
    BY OthersStep, Sides
  <1>2. CASE UNCHANGED <<written, Owed, sourceText>> /\ place'[Document] = place[Document]
    <2>1. /\ command.at \in {"idle", "plan", "restore"} => command.carried = NoText
          /\ command.at = "link" /\ Document \in command.todo => command.carried = NoText
          /\ command.at = "prune" /\ command.of = Assets => command.carried = NoText
      BY DEF DocumentServed, Carrying, At
    <2>. QED BY <1>1, <1>2, <2>1, DocumentLeft
  <1>3. ASSUME NEW e \in Entries \ written,
               written' = written \cup {e}, Adds(e),
               \/ /\ place'[Document] = Link /\ place[Document] = Link
                  /\ sourceText' = sourceText \cup {e}
               \/ place'[Document] = File(Text \cup {e}) /\ UNCHANGED sourceText
        PROVE  DocumentServed'
    <2>1. Text' = Text \cup {e}
      BY <1>3, Kinds DEF Text
    <2>2. /\ place'[Document] # Nothing /\ sourceText' \subseteq sourceText \cup {e}
          /\ place'[Document].text \subseteq Text \cup {e}
      BY <1>3, Kinds
    <2>3. Stamp' = Text \cup {e}
      BY <2>1, <2>2 DEF Stamp
    <2>4. Sourced'
      BY <1>1 DEF DocumentServed, Sourced, IsLinked
    <2>5. Authored'
      <3>1. Owed' \subseteq Owed \cup {e}
        BY <1>3 DEF Adds, Owed
      <3>. QED BY <1>1, <1>3, <2>2, <3>1, TextWritten DEF DocumentServed, Authored
    <2>7. command.at \in {"plan", "prune", "link", "ledger", "read"} => Owed' \subseteq Existing'
      <3>. SUFFICES ASSUME command.at \in {"plan", "prune", "link", "ledger", "read"}
                    PROVE  Owed' \subseteq Existing'
        OBVIOUS
      <3>1. Owed \subseteq Existing /\ (command.at = "plan" => command.carried = NoText)
        BY DEF DocumentServed, Carrying
      <3>2. CASE Unread
        <4>1. Owed' = Owed \ {e}
          BY <1>3, <3>2 DEF Owed, Adds
        <4>2. Existing' = Existing
          BY <1>1, <3>2 DEF Existing, Unread
        <4>. QED BY <3>1, <4>1, <4>2
      <3>3. CASE ~Unread
        <4>1. command.carried = NoText
          BY <3>1, <3>3 DEF Unread
        <4>2. Owed' \subseteq Owed \cup {e}
          BY <1>3, <3>3 DEF Owed, Adds
        <4>. QED BY <1>1, <2>1, <3>1, <4>1, <4>2 DEF Existing
      <3>. QED BY <3>2, <3>3
    <2>8. Stamp' # command.stamp
      <3>1. Text \cup {e} \in SUBSET Entries
        BY TextType
      <3>2. Text \cup {e} # NoText
        BY <3>1, DeployAssumption DEF DeployAssumption
      <3>3. command.stamp # NoText => e \notin command.stamp
        BY <1>3 DEF DocumentServed, Authored
      <3>. QED BY <2>3, <3>2, <3>3
    <2>9. Carrying'
      BY <1>1, <2>7, <2>8 DEF DocumentServed, Carrying, At
    <2>. QED BY <2>4, <2>5, <2>9 DEF DocumentServed
  <1>. QED BY <1>2, <1>3, OthersStep DEF Owed

\* Every step keeps the entries in the document or in what is carried.
LEMMA DocumentStep ==
  ASSUME TypeOK, Recording, DocumentServed, [Next]_vars
  PROVE  DocumentServed'
  <1>0. /\ command.at \in {"idle", "plan", "restore"} => command.carried = NoText
        /\ command.at = "link" /\ Document \in command.todo => command.carried = NoText
        /\ command.at = "prune" /\ command.of = Assets => command.carried = NoText
        /\ sourceText \subseteq written
    BY DEF DocumentServed, Carrying, Authored, At
  <1>1. CASE Plan
    <2>1. UNCHANGED <<source, sourceText, place, Owed, written, snapshot>> /\ command.at = "plan"
      BY <1>1 DEF Plan, At, disk, history, Owed
    <2>2. CASE command' = Idle
      BY <1>0, <2>1, <2>2, DocumentEnds, TextWritten
    <2>3. CASE command' # Idle
      <3>1. /\ command'.at = "prune"
            /\ command'.carried = command.carried /\ command'.existing = command.existing
            /\ command'.stamp = command.stamp
        BY <1>1, <2>3, PlanStep
      <3>. QED BY <1>0, <2>1, <3>1, DocumentLeft
    <2>. QED BY <2>2, <2>3
  <1>2. CASE Prune
    <2>1. /\ UNCHANGED <<source, sourceText, Owed, written, snapshot>> /\ command.at = "prune"
          /\ command.todo \subseteq command.of \ source /\ command.todo \subseteq Names
          /\ command.of \in {Assets, Skills}
          /\ command'.of = command.of
          /\ command'.carried = command.carried /\ command'.existing = command.existing
          /\ command'.stamp = command.stamp
      <3>1. UNCHANGED Owed /\ command.at = "prune"
        BY <1>2 DEF Prune, At, history, Owed
      <3>. QED BY <1>2, <3>1, PruneStep DEF Recording, At, Linking, TypeOK, Commands
    <2>2. CASE command.todo = {} /\ UNCHANGED place
               /\ command'.at = "link" /\ command'.todo = command.plan \cap command.of
      BY <1>0, <2>1, <2>2, Sides, DocumentLeft
    <2>3. ASSUME NEW n \in command.todo, command'.at = "prune",
                 place' = IF place[n] = Link THEN [place EXCEPT ![n] = Nothing] ELSE place
          PROVE  DocumentServed'
      <3>1. place'[Document] = place[Document]
        BY <2>1, <2>3 DEF DocumentServed, Sourced, IsLinked, TypeOK
      <3>. QED BY <1>0, <2>1, <2>3, <3>1, DocumentLeft
    <2>. QED BY <1>2, <2>2, <2>3, PruneStep
  <1>3. CASE WriteLedger
    <2>1. UNCHANGED <<source, sourceText, place, Owed, written, snapshot>> /\ command.at = "ledger"
      BY <1>3 DEF WriteLedger, At, history, Owed
    <2>2. /\ command'.carried = command.carried /\ command'.existing = command.existing
          /\ command'.stamp = command.stamp
          /\ \/ command'.at = "prune" /\ command'.of = Skills
             \/ command'.at = "read"
      BY <1>3, LedgerStep
    <2>. QED BY <2>1, <2>2, Sides, DocumentLeft
  <1>4. CASE ReadDocument
    <2>1. UNCHANGED <<source, sourceText, place, Owed, written, snapshot>> /\ command.at = "read"
      BY <1>4 DEF ReadDocument, At, disk, history, Owed
    <2>2. command'.carried = command.carried
      BY <1>4, ReadStep
    <2>3. CASE command'.at = "global" /\ command'.existing = command.existing
               /\ command'.stamp = command.stamp
      BY <2>1, <2>2, <2>3, DocumentLeft
    <2>4. CASE command'.at = "apply" /\ command'.existing = Existing /\ command'.stamp = Stamp
      <3>1. Owed \subseteq Existing
        BY <2>1 DEF DocumentServed, Carrying
      <3>2. Sourced'
        BY <2>1 DEF DocumentServed, Sourced, IsLinked
      <3>3. Authored'
        BY <2>1, <2>2, <2>4, TextWritten DEF DocumentServed, Authored
      <3>4. Carrying'
        BY <2>1, <2>4, <3>1 DEF Carrying, At
      <3>. QED BY <3>2, <3>3, <3>4 DEF DocumentServed
    <2>. QED BY <1>4, <2>3, <2>4, ReadStep
  <1>5. CASE Apply
    <2>1. /\ UNCHANGED <<source, Owed, written, snapshot>>
          /\ place'[Document] \in {place[Document], File(command.existing), Nothing}
          /\ sourceText' \in {sourceText, command.existing}
          /\ command.existing \subseteq written
      BY <1>5, ApplyStep DEF Apply, history, Owed, DocumentServed, Authored
    <2>2. /\ place'[Document] = Link => place[Document] = Link
          /\ place'[Document].text \cup sourceText' \subseteq written
      BY <1>0, <2>1, Kinds, TextWritten
    <2>3. CASE command' = Idle
      BY <2>1, <2>2, <2>3, DocumentEnds
    <2>4. CASE command' # Idle
      <3>1. /\ command'.at = "global" /\ command'.carried = command.carried
            /\ command'.existing = command.existing /\ command'.stamp = command.stamp
        BY <1>5, <2>4, ApplyStep
      <3>2. Sourced'
        BY <2>1, <2>2 DEF DocumentServed, Sourced, IsLinked
      <3>3. Authored'
        BY <2>1, <2>2, <3>1 DEF DocumentServed, Authored
      <3>4. Carrying'
        BY <3>1 DEF Carrying, At
      <3>. QED BY <3>2, <3>3, <3>4 DEF DocumentServed
    <2>. QED BY <2>3, <2>4
  <1>6. CASE LinkGlobal \/ EndRestore
    <2>1. UNCHANGED <<source, sourceText, Owed, written, snapshot>> /\ command' = Idle
          /\ place'[Document] = place[Document]
      BY <1>6, GlobalStep, EndRestoreStep, Sides DEF LinkGlobal, history, Owed
    <2>. QED BY <1>0, <2>1, DocumentEnds, TextWritten
  <1>7. CASE Rollback
    <2>1. UNCHANGED <<source, sourceText, place, Owed, written, snapshot>>
      BY <1>7 DEF Rollback, disk, history, Owed
    <2>2. /\ command'.at = "restore" /\ command'.carried = NoText /\ command'.stamp = NoText
          /\ command'.existing = {}
      BY <1>7, RollbackStep
    <2>3. Sourced' /\ Authored'
      BY <2>1, <2>2 DEF DocumentServed, Sourced, IsLinked, Authored
    <2>4. Carrying'
      BY <2>2 DEF Carrying, At
    <2>. QED BY <2>3, <2>4 DEF DocumentServed
  <1>8. CASE RestoreLedger
    <2>1. UNCHANGED <<source, sourceText, place, Owed, written, snapshot>> /\ command.at = "restore"
      BY <1>8 DEF RestoreLedger, At, history, Owed
    <2>2. /\ command'.carried = command.carried /\ command'.existing = command.existing
          /\ command'.stamp = command.stamp /\ command'.at = "restore"
      BY <1>8, RestoreLedgerStep
    <2>. QED BY <1>0, <2>1, <2>2, DocumentLeft
  <1>9. CASE Die \/ DieInLedger \/ DieInSnapshot
    <2>1. /\ UNCHANGED <<source, sourceText, Owed, written>> /\ command' = Idle
          /\ snapshot' = snapshot \/ ~snapshot'.complete
      BY <1>9, DeathStep DEF Owed
    <2>2. place'[Document] = place[Document] \/ place'[Document] = Nothing
      BY <1>9, DeathStep, Sides DEF TypeOK
    <2>3. /\ place'[Document] = Link => place[Document] = Link
          /\ place'[Document].text \subseteq written
      BY <2>2, Kinds, TextWritten
    <2>. QED BY <1>0, <2>1, <2>3, DocumentEnds
  <1>10. CASE UNCHANGED vars
    BY <1>0, <1>10, DocumentLeft DEF vars, disk, history, Owed
  <1>. QED
    BY <1>1, <1>2, <1>3, <1>4, <1>5, <1>6, <1>7, <1>8, <1>9, <1>10, DocumentBegins,
       DocumentDisplaced, DocumentRestored, DocumentWritten
       DEF Next, Run, Others

\* A deploy that merges the document leaves in it every entry that was there when the deploy
\* began, and those written since, except while what was displaced is carried and what is in
\* its place has not been read.
THEOREM DocumentKeptTheorem == Spec => DocumentKept
  <1>. DEFINE Inv == TypeOK /\ Recording /\ DocumentServed
  <1>1. Init => Inv
    <2>. SUFFICES ASSUME Init PROVE DocumentServed
      BY InitOwnership
    <2>1. /\ command = Idle /\ snapshot.complete = FALSE /\ sourceText = {} /\ Owed = {}
          /\ place[Document] \in {Nothing, Link, File({})}
          /\ place[Document] = Link => Document \in source
      BY Sides DEF Init, NoSnapshot, Owed
    <2>2. place[Document].text = {}
      BY <2>1, Kinds
    <2>3. Sourced /\ Authored /\ Carrying
      BY <2>1, <2>2, IdleCommand DEF Sourced, IsLinked, Authored, Carrying, At
    <2>. QED BY <2>3 DEF DocumentServed
  <1>2. Inv /\ [Next]_vars => Inv'
    BY RecordingStep, DocumentStep
  <1>3. Inv => (Apply /\ command'.at = "global" => Owed \subseteq Text')
    <2>. SUFFICES ASSUME TypeOK, DocumentServed, Apply, command'.at = "global"
                  PROVE  Owed \subseteq Text'
      OBVIOUS
    <2>1. Stamp = command.stamp /\ Text' = command.existing
      BY ApplyStep, IdleCommand
    <2>2. At("apply")
      BY DEF Apply
    <2>. QED BY <2>1, <2>2 DEF DocumentServed, Carrying
  <1>. QED BY <1>1, <1>2, <1>3, PTL DEF Spec, DocumentKept

=============================================================================
