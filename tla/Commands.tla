------------------------------ MODULE Commands ------------------------------
(***************************************************************************)
(* The commands of the CLI that write entries (cli/internal/cli), one at a *)
(* time, beside another client of the same user.  A command is a sequence  *)
(* of calls to the server; each call is a step, and every one may fail.    *)
(* The vault here is what the user sees: entries decrypted, folders by     *)
(* their path.  What a file holds and how it is read is Records.           *)
(***************************************************************************)
EXTENDS Records

CONSTANTS Ids,          \* entries there can be
          Vaults,       \* the vaults a behaviour may start with: functions on Ids
          Fill,         \* sets of keys the user fills in when adding an entry
          Foreign,      \* files of other programs: records [format, items]
          MaxCommands,  \* commands started
          MaxRival,     \* changes by the other client
          MaxFailures   \* calls to the server that fail

VARIABLES entries,      \* id -> entry, or Absent
          folders,      \* path -> how many folders are at it
          file,         \* the file last written or found, NoFile before
          cmd,          \* the running command
          used          \* how often the bounds have been drawn on

commandsVars == <<entries, folders, file, cmd, used>>

Absent == [type |-> "absent"]
Present(id) == entries[id] # Absent /\ ~entries[id].trashed
Name(e) == Get(e.data, "name")
\* An entry as the server keeps it: a record, and whether it is in the trash.
Stored(rec, trashed) ==
    [type |-> rec.type, data |-> rec.data, custom |-> rec.custom, tags |-> rec.tags,
     extra |-> rec.extra, path |-> rec.path, trashed |-> trashed]

EntryFields == {"type", "data", "custom", "tags", "extra", "path", "trashed"}
\* What other programs write.
FileFormats == {"bitwarden", "1pux", "psono", "keepass", "csv-generic", "csv-1password",
                "csv-lastpass", "csv-chrome"}

\* With the options of another secret a secret makes wrong codes; a blank one makes none.
OptionsFit(data) ==
    LET secret == Trim(Get(data, "totp_secret"))
    IN  secret # "" => \A k \in DOMAIN data \cap SecretOptions : Trim(data[k]) = secret

ASSUME CommandsConstants ==
    /\ IsFiniteSet(Ids)
    /\ \A vault \in Vaults :
          /\ DOMAIN vault = Ids
          /\ \A id \in Ids : vault[id] # Absent =>
                /\ DOMAIN vault[id] = EntryFields /\ OptionsFit(vault[id].data)
                /\ IsList(vault[id].custom) /\ IsList(vault[id].tags)
                /\ IsFiniteSet(DOMAIN vault[id].extra)
    /\ \A f \in Foreign :
          /\ f.format \in FileFormats /\ IsList(f.items)
          /\ \A i \in DOMAIN f.items : HasLists(f.format, f.items[i])

NoFile == [format |-> "none", items |-> << >>, of |-> << >>, told |-> 0, imported |-> "none", after |-> << >>]
Idle == [at |-> "idle", op |-> "none", id |-> "none", read |-> Absent, format |-> "none",
         mode |-> "none", records |-> << >>, list |-> << >>, next |-> 1, known |-> << >>, cache |-> {},
         done |-> [created |-> 0, updated |-> 0, skipped |-> 0, failed |-> 0],
         atRoot |-> FALSE, again |-> FALSE, rival |-> 0]

Begin(op) == cmd.at = "idle" /\ used.commands < MaxCommands
Begun == used' = [used EXCEPT !.commands = @ + 1]
\* A call fails without an effect, or only its answer is lost.
Fails == used.failures < MaxFailures /\ used' = [used EXCEPT !.failures = @ + 1]
Lost == used.failures < MaxFailures /\ used' = [used EXCEPT !.failures = @ + 1, !.lost = @ + 1]

FreeId == CHOOSE id \in Ids : entries[id] = Absent

-----------------------------------------------------------------------------
(* Which entry a command means                                              *)

\* The entries of that exact name; a type narrows them down.
Matches(name, type) ==
    {id \in Ids : Present(id) /\ Name(entries[id]) = name /\ (type = "" \/ entries[id].type = type)}

\* resolveEntry: exactly one, or the command ends with an error.
Resolve(op, name, type) ==
    /\ Begin(op) /\ Begun
    /\ Cardinality(Matches(name, type)) = 1
    /\ cmd' = [Idle EXCEPT !.at = "resolved", !.op = op, !.id = CHOOSE id \in Matches(name, type) : TRUE]
    /\ UNCHANGED <<entries, folders, file>>

\* trashEntryByArg, and the call that follows the confirmation.
ResolveTrash(op, name) ==
    LET matches == {id \in Ids : entries[id] # Absent /\ entries[id].trashed /\ Name(entries[id]) = name}
    IN  /\ Begin(op) /\ Begun
        /\ Cardinality(matches) = 1
        /\ cmd' = [Idle EXCEPT !.at = "resolved", !.op = op, !.id = CHOOSE id \in matches : TRUE]
        /\ UNCHANGED <<entries, folders, file>>

Delete ==
    /\ cmd.at = "resolved" /\ cmd.op = "delete"
    /\ entries' = IF Present(cmd.id) THEN [entries EXCEPT ![cmd.id].trashed = TRUE] ELSE entries
    /\ cmd' = Idle
    /\ UNCHANGED <<folders, file, used>>

TrashRestore ==
    /\ cmd.at = "resolved" /\ cmd.op = "restore"
    /\ entries' = IF entries[cmd.id] = Absent THEN entries
                  ELSE [entries EXCEPT ![cmd.id].trashed = FALSE]
    /\ cmd' = Idle
    /\ UNCHANGED <<folders, file, used>>

TrashPurge ==
    /\ cmd.at = "resolved" /\ cmd.op = "purge"
    /\ entries' = IF entries[cmd.id] # Absent /\ entries[cmd.id].trashed
                  THEN [entries EXCEPT ![cmd.id] = Absent] ELSE entries
    /\ cmd' = Idle
    /\ UNCHANGED <<folders, file, used>>

-----------------------------------------------------------------------------
(* add, totp-add, update                                                    *)

\* What collectEntryData asks for, by type.
AskedKeys(type) ==
    CASE type \in {"password", "api-key", "ssh-key"} -> {"password"}
      [] type = "totp" -> {"totp_secret"}
      [] type = "credit-card" -> CardKeys
      [] type = "bank-account" -> BankKeys
      [] type = "identity" -> IdentityKeys
      [] type = "license" -> LicenseKeys
      [] OTHER -> {}

CollectEntryData(type, name, filled) ==
    [k \in ((AskedKeys(type) \cup {"username", "url", "notes"}) \cap filled) \cup {"name"}
        |-> IF k = "name" THEN name ELSE "a"]
    ++ (IF type \in {"password", "api-key"} THEN [password |-> "generated"] ELSE NoData)
    ++ (IF type = "bank-account" THEN [account_type |-> "checking"] ELSE NoData)

Create(rec) == entries' = [entries EXCEPT ![FreeId] = Stored(rec, FALSE)]
Room == \E id \in Ids : entries[id] = Absent

Add(type, name, filled, tags) ==
    /\ Begin("add") /\ Begun /\ Room
    /\ ~\E t \in Range(tags) : TooLong(t)
    /\ Create(Record(type, CollectEntryData(type, name, filled), << >>, NormalizeTags(tags), << >>))
    /\ UNCHANGED <<folders, file, cmd>>

\* The options of the codes are stored with the secret they were given for.
TotpAdd(name, secret) ==
    /\ Begin("totp-add") /\ Begun /\ Room
    /\ Create(Record("totp", [name |-> name, totp_secret |-> secret]
                        ++ [k \in SecretOptions |-> secret], << >>, << >>, << >>))
    /\ UNCHANGED <<folders, file, cmd>>

\* Every entry the CLI reads passes here: a secret that is the password is none.
DropStrayTOTPSecret(data) ==
    IF "totp_secret" \in DOMAIN data /\ data["totp_secret"] = Get(data, "password")
    THEN Only(data, DOMAIN data \ {"totp_secret"}) ELSE data
AsRead(e) == [e EXCEPT !.data = DropStrayTOTPSecret(@)]

\* GetEntry of update: what is edited is what it finds here.
UpdateRead ==
    /\ cmd.at = "resolved" /\ cmd.op = "update"
    /\ cmd' = IF Present(cmd.id) THEN [cmd EXCEPT !.at = "edit", !.read = AsRead(entries[cmd.id])]
              ELSE Idle
    /\ UNCHANGED <<entries, folders, file, used>>

\* Vault.UpdateEntry: everything that is encrypted as given, an empty URL keeps
\* the stored one; type, folder and place in the trash are not its business.
Overwritten(e, data, custom, tags, extra) ==
    [e EXCEPT !.data = data ++ Only(@, {"url"}), !.custom = custom, !.tags = tags, !.extra = extra]

\* Interactive: a new name and password; with flags: URL, notes, tags.  A tag
\* that is too long is an error, whoever has set it.
UpdateWrite(changes, clear, remove, add) ==
    LET read == cmd.read
        tagEdit == clear \/ remove # << >> \/ add # << >>
        tags == IF tagEdit THEN EditTags(read.tags, clear, remove, add) ELSE read.tags
    IN  /\ cmd.at = "edit"
        /\ entries' = IF ~Present(cmd.id) \/ (tagEdit /\ \E t \in Range(tags) : TooLong(t))
                      THEN entries
                      ELSE [entries EXCEPT ![cmd.id] =
                              Overwritten(@, changes ++ read.data, read.custom, tags, read.extra)]
        /\ cmd' = Idle
        /\ UNCHANGED <<folders, file, used>>

-----------------------------------------------------------------------------
(* export, backup, restore                                                  *)

\* ListAllDecrypted in the order of the identifiers.
Readable == SetToSeq({id \in Ids : Present(id)})

\* A backup holds everything but where the entry was.
BackupEntry(e) == [Record(e.type, e.data, e.custom, e.tags, << >>) EXCEPT !.extra = e.extra]

Render(format, e) ==
    CASE format = "bitwarden" -> BitwardenItem(e, TRUE)
      [] format = "backup" -> BackupEntry(e)
      [] format = "1pux" -> OnePuxItem(e)
      [] format = "csv-1password" -> OnePasswordRow(e)
      [] OTHER -> CSVRow(e)

\* The CLI writes CSV and Bitwarden; the other two are the library's.
Export(format) ==
    LET of == [i \in DOMAIN Readable |-> AsRead(entries[Readable[i]])]
        left == IF format = "csv-generic" THEN Total([i \in DOMAIN of |-> CSVLeftOut(of[i])]) ELSE 0
    IN  /\ Begin("export") /\ Begun
        /\ file' = [format |-> format, items |-> [i \in DOMAIN of |-> Render(format, of[i])],
                    of |-> of, told |-> left, imported |-> "none", after |-> << >>]
        /\ UNCHANGED <<entries, folders, cmd>>

\* The record is done with, and how.
Recorded(how) ==
    cmd' = [cmd EXCEPT !.next = @ + 1, !.done[how] = @ + 1]

\* backup.Create lists the entries and reads them one by one.
StartBackup ==
    /\ Begin("backup") /\ Begun
    /\ cmd' = [Idle EXCEPT !.at = "backup", !.op = "backup", !.list = Readable]
    /\ UNCHANGED <<entries, folders, file>>

\* An entry that cannot be read, or is gone by now, does not stop the backup.
BackupReads ==
    LET id == cmd.list[cmd.next]
    IN  /\ cmd.at = "backup" /\ cmd.next <= Len(cmd.list)
        /\ \/ Present(id) /\ UNCHANGED used
              /\ cmd' = [cmd EXCEPT !.next = @ + 1, !.records = Append(@, AsRead(entries[id]))]
           \/ (IF Present(id) THEN Fails ELSE UNCHANGED used) /\ Recorded("skipped")
        /\ UNCHANGED <<entries, folders, file>>

FinishBackup ==
    LET of == cmd.records
    IN  /\ cmd.at = "backup" /\ cmd.next > Len(cmd.list)
        /\ file' = [NoFile EXCEPT !.format = "backup", !.of = of, !.told = cmd.done.skipped,
                                  !.items = [i \in DOMAIN of |-> Render("backup", of[i])]]
        /\ cmd' = Idle
        /\ UNCHANGED <<entries, folders, used>>

\* Restore never looks at what the vault holds.
StartRestore ==
    /\ Begin("restore-backup") /\ Begun
    /\ file.format = "backup"
    /\ cmd' = [Idle EXCEPT !.at = "restore", !.op = "restore-backup",
                           !.records = [i \in DOMAIN file.items |->
                                          [file.items[i] EXCEPT !.data = DropStrayTOTPSecret(@)]]]
    /\ UNCHANGED <<entries, folders, file>>

RestoreCreates ==
    /\ cmd.at = "restore" /\ cmd.next <= Len(cmd.records)
    /\ \/ /\ Room /\ Create(cmd.records[cmd.next])
          /\ \/ Recorded("created") /\ UNCHANGED used
             \/ Recorded("failed") /\ Lost
       \/ /\ (IF Room THEN Fails ELSE UNCHANGED used)
          /\ Recorded("failed") /\ UNCHANGED entries
    /\ UNCHANGED <<folders, file>>

FinishRestore ==
    /\ cmd.at = "restore" /\ cmd.next > Len(cmd.records)
    /\ cmd' = Idle
    /\ UNCHANGED <<entries, folders, file, used>>

\* A file of another program is there to be imported.
FindFile(f) ==
    /\ cmd.at = "idle" /\ file = NoFile
    /\ file' = [NoFile EXCEPT !.format = f.format, !.items = f.items]
    /\ UNCHANGED <<entries, folders, cmd, used>>

-----------------------------------------------------------------------------
(* import                                                                   *)

Convert(format, item) ==
    CASE format = "backup" -> item
      [] format = "bitwarden" -> ConvertBitwardenItem(item)
      [] format = "1pux" -> Convert1PuxItem(item)
      [] format = "psono" -> ConvertPsonoItem(item)
      [] format = "keepass" -> ConvertKeePassEntry(item)
      [] format = "csv-1password" -> ConvertCSVRow(item, OnePasswordColumns)
      [] format = "csv-lastpass" -> ConvertCSVRow(item, LastPassColumns)
      [] format = "csv-chrome" -> ConvertCSVRow(item, ChromeColumns)
      [] OTHER -> ConvertCSVRow(item, GenericColumns)

\* A secret in a file that is just the password is none.
DropStray(rec) ==
    IF "totp_secret" \in DOMAIN rec.data /\ rec.data["totp_secret"] = Get(rec.data, "password")
    THEN [rec EXCEPT !.data = Only(@, DOMAIN @ \ {"totp_secret"}),
                     !.type = IF @ = "totp" THEN "password" ELSE @]
    ELSE rec

\* What the importers can fill in, and what is kept of a record.
ImportedKeys == (LoginKeys \cup CardKeys \cup IdentityKeys \cup {"license_key", "product_name", "notes", "name"})

Parse(format, items) ==
    LET read == [i \in DOMAIN items |-> Convert(format, items[i])]
        settle(rec) == DropStray(Record(rec.type, Only(rec.data, ImportedKeys), rec.custom,
                                        NormalizeImportedTags(rec.tags), rec.path))
        kept == Picked(read, {i \in DOMAIN items : read[i].type # "skipped"})
    IN  [i \in DOMAIN kept |-> settle(kept[i])]

\* The format the user names: that of the file, or Chrome's, whose columns a
\* generic file begins with.
Readings(f) ==
    ({f.format} \ {"backup"}) \cup (IF f.format = "csv-generic" THEN {"csv-chrome"} ELSE {})

\* Names are compared without regard to case.
Fold(v) == IF v = "A" THEN "a" ELSE v
SameTypeFamily(a, b) == a = b \/ {a, b} \subseteq {"", "password", "totp"}

\* Mutant: the names of the vault are folded, that of the file is not.
FindDuplicatesHalfFolded(rec, known) ==
    {id \in Ids : /\ known[id] # Absent
                  /\ Fold(Name(known[id])) = Name(rec)
                  /\ Get(known[id].data, "username") = Get(rec.data, "username")
                  /\ SameTypeFamily(known[id].type, rec.type)}

FindDuplicates(rec, known) ==
    {id \in Ids : /\ known[id] # Absent
                  /\ Fold(Name(known[id])) = Fold(Name(rec))
                  /\ Fold(Get(known[id].data, "username")) = Fold(Get(rec.data, "username"))
                  /\ SameTypeFamily(known[id].type, rec.type)}

StartImport(format, mode) ==
    LET records == Parse(format, file.items)
    IN  /\ Begin("import") /\ Begun
        /\ file # NoFile /\ format \in Readings(file)
        /\ records # << >>
        /\ cmd' = [Idle EXCEPT !.at = "import", !.op = "import", !.format = format, !.mode = mode,
                               !.records = records,
                               !.known = [id \in Ids |-> IF Present(id) THEN AsRead(entries[id])
                                                         ELSE Absent],
                               !.cache = DOMAIN folders,
                               !.again = file.imported = format /\ file.after = entries,
                               !.rival = used.rival]
        /\ UNCHANGED <<entries, folders, file>>

Importing == cmd.at = "import" /\ cmd.next <= Len(cmd.records)
Rec == cmd.records[cmd.next]
Duplicates == FindDuplicates(Rec, cmd.known)

\* The record is done with, and how.
Imported(how) ==
    cmd' = [cmd EXCEPT !.at = "import", !.next = @ + 1, !.done[how] = @ + 1,
                       !.id = "none", !.read = Absent, !.atRoot = FALSE]
\* An answer that does not arrive counts as a failure.
Answered(how) ==
    \/ Imported(how) /\ UNCHANGED used
    \/ Imported("failed") /\ Lost

ImportSkips ==
    /\ Importing /\ Duplicates # {} /\ cmd.mode = "skip"
    /\ Imported("skipped")
    /\ UNCHANGED <<entries, folders, file, used>>

\* Overwriting one of several would be a guess.
ImportAmbiguous ==
    /\ Importing /\ Cardinality(Duplicates) > 1 /\ cmd.mode # "skip"
    /\ Imported("failed")
    /\ UNCHANGED <<entries, folders, file, used>>

Overwriting == Importing /\ Cardinality(Duplicates) = 1
Target == CHOOSE id \in Duplicates : TRUE

\* --replace-all: the entry becomes what the file holds, an empty URL too.
ImportReplaces ==
    /\ Overwriting /\ cmd.mode = "replace"
    /\ IF Present(Target)
       THEN /\ entries' = [entries EXCEPT ![Target] =
                             [@ EXCEPT !.data = Rec.data, !.custom = Rec.custom, !.tags = Rec.tags,
                                       !.extra = NoData]]
            /\ Answered("updated")
       ELSE /\ UNCHANGED <<entries, used>>
            /\ Imported("failed")
    /\ UNCHANGED <<folders, file>>

ImportReads ==
    /\ Overwriting /\ cmd.mode = "overwrite"
    /\ IF Present(Target)
       THEN cmd' = [cmd EXCEPT !.at = "merge", !.id = Target, !.read = AsRead(entries[Target])]
       ELSE Imported("failed")
    /\ UNCHANGED <<entries, folders, file, used>>

\* Mutant: every field of a label goes into the first one that has it.
MergeCustomFieldsByLabel(existing, imported) ==
    LET merge(fields, in) ==
          LET slots == {i \in DOMAIN fields : fields[i].label = in.label}
              slot == CHOOSE i \in slots : \A j \in slots : i <= j
          IN  IF slots = {} THEN Append(fields, in)
              ELSE IF in.value = "" THEN fields ELSE [fields EXCEPT ![slot] = in]
    IN  FoldLeft(merge, existing, imported)

\* A field goes into the first one of its label that has no partner yet.
Paired(acc, in) ==
    LET slots == {i \in DOMAIN acc.fields \ acc.paired : acc.fields[i].label = in.label}
        slot == CHOOSE i \in slots : \A j \in slots : i <= j
    IN  IF slots = {}
        THEN [fields |-> Append(acc.fields, in), paired |-> acc.paired \cup {Len(acc.fields) + 1}]
        ELSE [fields |-> IF in.value = "" THEN acc.fields ELSE [acc.fields EXCEPT ![slot] = in],
              paired |-> acc.paired \cup {slot}]

\* Each existing field pairs with one field of the file of the same label.
MergeCustomFields(existing, imported) ==
    LET merged[n \in 0..Len(imported)] ==
          IF n = 0 THEN [fields |-> existing, paired |-> {}] ELSE Paired(merged[n - 1], imported[n])
    IN  merged[Len(imported)].fields

\* Mutant: a new secret goes on with the options of the old one.
MergeImportedDataWithOptions(read, rec) ==
    rec.data ++ Only(read.data, DOMAIN read.data \ {"url", "name"})

\* Values of the file win, everything it does not have stays; the options of
\* the codes belong to the secret they were stored with.
MergeImportedData(read, rec) ==
    LET newSecret == /\ "totp_secret" \in DOMAIN rec.data
                     /\ Trim(rec.data["totp_secret"]) # Trim(Get(read.data, "totp_secret"))
        kept == IF newSecret THEN Only(read.data, DOMAIN read.data \ SecretOptions) ELSE read.data
    IN  rec.data ++ Only(kept, DOMAIN kept \ {"url", "name"})

ImportMerges ==
    /\ cmd.at = "merge"
    /\ IF Present(cmd.id)
       THEN /\ entries' = [entries EXCEPT ![cmd.id] =
                             Overwritten(@, MergeImportedData(cmd.read, Rec),
                                         MergeCustomFields(cmd.read.custom, Rec.custom),
                                         IF Rec.tags # << >> THEN Rec.tags ELSE cmd.read.tags,
                                         cmd.read.extra)]
            /\ Answered("updated")
       ELSE /\ UNCHANGED <<entries, used>>
            /\ Imported("failed")
    /\ UNCHANGED <<folders, file>>

FolderPrefixes(path) == {SubSeq(path, 1, n) : n \in 1..Len(path)}
MissingFolders == FolderPrefixes(Rec.path) \ cmd.cache
NextFolder == CHOOSE p \in MissingFolders : \A q \in MissingFolders : Len(p) <= Len(q)

Creating == Importing /\ Duplicates = {}
MakeFolder ==
    folders' = At(NextFolder, IF NextFolder \in DOMAIN folders THEN folders[NextFolder] + 1 ELSE 1)
                 ++ folders

\* resolveFolderID makes the missing folders from the root down.
ImportMakesFolder ==
    /\ Creating /\ MissingFolders # {} /\ ~cmd.atRoot
    /\ MakeFolder
    /\ cmd' = [cmd EXCEPT !.cache = @ \cup {NextFolder}]
    /\ UNCHANGED <<entries, file, used>>

\* An entry whose folder could not be made is created at the root.
ImportFolderFails ==
    /\ Creating /\ MissingFolders # {} /\ ~cmd.atRoot
    /\ \/ Fails /\ UNCHANGED folders
       \/ Lost /\ MakeFolder
    /\ cmd' = [cmd EXCEPT !.atRoot = TRUE]
    /\ UNCHANGED <<entries, file>>

ImportCreates ==
    /\ Creating /\ (MissingFolders = {} \/ cmd.atRoot)
    /\ IF Room
       THEN /\ Create([Rec EXCEPT !.path = IF cmd.atRoot THEN << >> ELSE @])
            /\ Answered("created")
       ELSE /\ UNCHANGED <<entries, used>>
            /\ Imported("failed")
    /\ UNCHANGED <<folders, file>>

\* A call of this record fails: it is counted, the import goes on.
ImportCallFails ==
    /\ \/ Overwriting /\ cmd.mode # "skip"
       \/ cmd.at = "merge"
       \/ Creating /\ (MissingFolders = {} \/ cmd.atRoot)
    /\ Fails
    /\ Imported("failed")
    /\ UNCHANGED <<entries, folders, file>>

FinishImport ==
    /\ cmd.at = "import" /\ cmd.next > Len(cmd.records)
    /\ file' = [file EXCEPT !.imported = IF cmd.done.failed = 0 /\ cmd.rival = used.rival
                                          THEN cmd.format ELSE "none",
                            !.after = entries]
    /\ cmd' = Idle
    /\ UNCHANGED <<entries, folders, used>>

\* Any other command that ends with an error changes nothing.
CommandFails ==
    /\ cmd.at \in {"resolved", "edit"} /\ Fails
    /\ cmd' = Idle
    /\ UNCHANGED <<entries, folders, file>>

-----------------------------------------------------------------------------
(* The other client, and all of it                                          *)

Rivals == used.rival < MaxRival /\ used' = [used EXCEPT !.rival = @ + 1]

RivalEdits(id, key, value) ==
    /\ Rivals /\ Present(id)
    /\ entries' = [entries EXCEPT ![id].data = At(key, value) ++ @]
    /\ UNCHANGED <<folders, file, cmd>>

RivalDeletes(id) ==
    /\ Rivals /\ Present(id)
    /\ entries' = [entries EXCEPT ![id].trashed = TRUE]
    /\ UNCHANGED <<folders, file, cmd>>

CommandsInit ==
    /\ entries \in Vaults
    /\ folders = [p \in UNION {FolderPrefixes(entries[id].path) :
                                 id \in {i \in Ids : entries[i] # Absent}} |-> 1]
    /\ file = NoFile
    /\ cmd = Idle
    /\ used = [commands |-> 0, rival |-> 0, failures |-> 0, lost |-> 0]

Tag(word, spelling) == [word |-> word, spelling |-> spelling]

Writes ==
    \/ \E type \in {"password", "api-key", "note", "bank-account", "license"}, filled \in Fill :
          Add(type, "a", filled, <<Tag("w", "raw"), Tag("w", "upper")>>)
    \/ \E secret \in {"a", "b"} : TotpAdd("a", secret)
    \/ UpdateRead
    \/ UpdateWrite([name |-> "b"], FALSE, << >>, << >>)
    \/ UpdateWrite([password |-> "b"], FALSE, << >>, << >>)
    \/ UpdateWrite([url |-> "b"], FALSE, <<Tag("w", "upper")>>, <<Tag("v", "clean")>>)

Removes ==
    \/ \E op \in {"delete", "update"}, name \in {"a", "b"} : Resolve(op, name, "")
    \/ Resolve("delete", "a", "totp")
    \/ \E op \in {"restore", "purge"} : ResolveTrash(op, "a")
    \/ Delete \/ TrashRestore \/ TrashPurge

Imports ==
    \/ \E format \in Readings(file), mode \in {"skip", "overwrite", "replace"} :
          StartImport(format, mode)
    \/ ImportSkips \/ ImportAmbiguous \/ ImportReplaces \/ ImportReads \/ ImportMerges
    \/ ImportMakesFolder \/ ImportFolderFails \/ ImportCreates \/ ImportCallFails \/ FinishImport

Files ==
    \/ \E format \in {"csv-generic", "bitwarden", "1pux", "csv-1password"} : Export(format)
    \/ \E f \in Foreign : FindFile(f)
    \/ StartBackup \/ BackupReads \/ FinishBackup
    \/ StartRestore \/ RestoreCreates \/ FinishRestore

Rival ==
    \E id \in Ids :
       \/ RivalEdits(id, "password", "b")
       \/ RivalEdits(id, "name", "b")
       \/ RivalDeletes(id)

CommandsNext == Writes \/ Removes \/ Imports \/ Files \/ Rival \/ CommandFails

CommandsSpec == CommandsInit /\ [][CommandsNext]_commandsVars

-----------------------------------------------------------------------------
(* Properties                                                               *)

\* A field of the item that carries the value, masked if it has to be.
InField(item, names, value, secret) ==
    \E f \in Range(item.fields) : f.name \in names /\ f.value = value /\ (secret => f.hidden)

HoldsAll(item, e) ==
    /\ item.name = Name(e) /\ item.notes = Get(e.data, "notes")
    /\ \A k \in DOMAIN e.data \cap KeyedFields :
          Get(item.slots, k) = e.data[k] \/ InField(item, {k}, e.data[k], k \in SecretKeys)
    /\ \A cf \in Range(e.custom) :
          InField(item, {cf.label, cf.filename}, cf.value, CustomKind(cf.kind) \notin PlainKinds)
    /\ \A k \in DOMAIN e.extra : InField(item, {k}, e.extra[k], TRUE)
    /\ e.type \in {"", "password", "totp"} \/ BitwardenType(e.type) # "login"
          \/ InField(item, {"type"}, e.type, FALSE)

\* What a row of the CSV lacks of an entry.
LacksOf(row, e) ==
    Cardinality({k \in DOMAIN e.data \cap KeyedFields :
                   ~\E i \in DOMAIN row.cells : GenericColumns[i] = k /\ row.cells[i] = e.data[k]})
    + Len(e.custom) + Cardinality(DOMAIN e.extra)

\* "Whatever the entry holds has to reach the file, whichever type it has": a
\* Bitwarden export holds every value of every entry under its key, secrets
\* and all it does not know masked; a CSV export names the number it leaves out;
\* a backup holds all there is.
NothingLeftOutSilently ==
    /\ file.format = "backup" =>
          \A i \in DOMAIN file.of, k \in {"type", "data", "custom", "tags", "extra"} :
             file.items[i][k] = file.of[i][k]
    /\ file.format = "bitwarden" =>
          \A i \in DOMAIN file.of : HoldsAll(file.items[i], file.of[i])
    /\ file.format = "csv-generic" /\ file.of # << >> =>
          file.told = Total([i \in DOMAIN file.of |-> LacksOf(CSVRow(file.of[i]), file.of[i])])

\* What each format brings back under the key it was exported from.
HomeKeys(format, type) ==
    CASE format = "backup" -> DataKeys
      [] format = "bitwarden" -> PlacedKeys(type) \cup {"name", "notes"}
      [] format = "1pux" ->
            {"name", "notes", "url"}
            \cup (CASE type = "note" -> {} [] type = "credit-card" -> CardKeys
                    [] type = "identity" -> IdentityKeys \ {"title"}
                    [] OTHER -> {"username", "password"})
      [] OTHER -> {"name", "url", "username", "password", "notes"}

Words(tags) == {t.word : t \in Range(tags)} \ {""}

\* The name a field is exported under.
FieldName(cf) == IF cf.kind = "file" /\ cf.filename # "" THEN cf.filename ELSE cf.label

\* Nothing of the entry has the name of the field for the tags.
TagsAreAlone(e) == TagsField \notin {FieldName(cf) : cf \in Range(e.custom)} \cup DOMAIN e.extra

\* A file's content decodes; Bitwarden's fields have a name that is their own,
\* those of 1Password a value.
Travels(format, cf) ==
    /\ cf.kind = "file" => IsBase64(cf.value)
    /\ format = "bitwarden" => FieldName(cf) \notin {"", TagsField}
    /\ format = "1pux" => cf.value # "" \/ cf.kind = "file"

\* Exporting and importing fit together: what a format has a place for comes
\* back under the same key, with its type, tags and fields, from every export.
\* (The importers know a record by its name, a field by its label.)
ComesHome ==
    \A i \in DOMAIN file.of :
       LET e == file.of[i]
           rec == Convert(file.format, file.items[i])
           read(v) == IF file.format \in {"csv-generic", "csv-1password"} THEN Trim(v) ELSE v
       IN  read(Name(e)) # "" \/ file.format = "backup" =>
           /\ \A k \in HomeKeys(file.format, e.type) : Get(rec.data, k) = read(Get(e.data, k))
           /\ TagsAreAlone(e) \/ file.format # "bitwarden" => Words(rec.tags) = Words(e.tags)
           /\ file.format # "csv-generic" =>
                 IF e.type \in {"note", "credit-card", "identity"} \/ file.format = "backup"
                 THEN rec.type = e.type
                 ELSE rec.type \in {"password", "totp"}
           /\ file.format \in {"bitwarden", "1pux"} =>
                 \A cf \in Range(e.custom) :
                    Travels(file.format, cf) =>
                       \E c \in Range(rec.custom) :
                          /\ c.value = cf.value
                          /\ c.label \in {cf.label, cf.filename}
                          /\ (c.kind = "file") = (cf.kind = "file")

Count(fields, label) == Cardinality({i \in DOMAIN fields : fields[i].label = label})

KeepsTheRest(old, rec, new) ==
    /\ \A k \in DOMAIN old.data \ SecretOptions :
          k \in DOMAIN new.data /\ (k \in DOMAIN rec.data \/ k = "url" \/ new.data[k] = old.data[k])
    /\ \A k \in DOMAIN rec.data : new.data[k] = rec.data[k]
    /\ new.extra = old.extra
    /\ rec.tags = << >> => new.tags = old.tags
    /\ \A label \in {cf.label : cf \in Range(old.custom \o rec.custom)} :
          Count(new.custom, label)
             = IF Count(old.custom, label) >= Count(rec.custom, label)
               THEN Count(old.custom, label) ELSE Count(rec.custom, label)
    /\ \A cf \in Range(rec.custom) : cf.value # "" => cf \in Range(new.custom)
    /\ \A cf \in Range(old.custom) :
          cf \in Range(new.custom)
            \/ \E in \in Range(rec.custom) : in.label = cf.label /\ in.value # ""

\* A merging overwrite loses nothing the file does not speak to, however labels
\* repeat on either side, and takes every value the file has.
MergeKeepsTheRest ==
    [][\A id \in Ids : cmd.at = "merge" /\ cmd' # cmd /\ entries'[id] # entries[id]
                         => KeepsTheRest(cmd.read, Rec, entries'[id])]_commandsVars

\* Importing a file again right after an import in which nothing failed and the
\* other client kept still finds every record in the vault, in every mode.
ImportTwiceAddsNothing == cmd.again => cmd.done.created = 0

\* The options of the codes never outlive the secret they were given for.
OptionsFitTheSecret == \A id \in Ids : entries[id] # Absent => OptionsFit(entries[id].data)
=============================================================================
