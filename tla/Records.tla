------------------------------- MODULE Records -------------------------------
(***************************************************************************)
(* What an entry holds, and how the file formats write it down and read it *)
(* back (backend/pkg/exporters, backend/pkg/importers, and the helpers of  *)
(* the CLI around them).  Everything here is an operator.                  *)
(*                                                                         *)
(* An entry, and a record of a file, is                                    *)
(*   [type, data, custom, tags, extra, path]                               *)
(* data is a function on the keys that have a value, so that a key outside *)
(* its domain is the empty string of the code; name and notes are keys     *)
(* like the others.  custom is the sequence of custom fields, tags the     *)
(* sequence of tags, extra the keys no Go struct knows, path the folders   *)
(* from the root.  A tag is a word and the way it is spelled: "clean" as   *)
(* normalised, "upper" in other case, "raw" with a hash or spaces around.  *)
(* Tags hold no comma, and only what was a file is written as a data: URI. *)
(***************************************************************************)
EXTENDS Naturals, Sequences, SequencesExt, FiniteSets, FiniteSetsExt

LoginKeys == {"url", "username", "password", "totp_secret"}
CardKeys == {"card_number", "holder_name", "expiry_month", "expiry_year", "cvv"}
IdentityKeys == {"title", "first_name", "last_name", "company", "email", "phone",
                 "street", "city", "state", "postal_code", "country"}
LicenseKeys == {"product_name", "license_key", "purchase_email", "purchase_date", "expires_at"}
BankKeys == {"bank_name", "iban", "bic", "account_number", "account_type"}
CodeOptions == {"issuer", "period", "digits", "algorithm"}
\* The options a merge moves with the secret.
SecretOptions == {"period", "digits", "algorithm"}

\* The values a format may or may not have a place for.
KeyedFields == LoginKeys \cup CardKeys \cup IdentityKeys \cup LicenseKeys
                 \cup BankKeys \cup CodeOptions \cup {"sign_in_with"}
DataKeys == KeyedFields \cup {"name", "notes"}
SecretKeys == {"password", "totp_secret", "card_number", "cvv", "iban",
               "account_number", "license_key"}

NoData == [k \in {} |-> ""]
Only(f, S) == [k \in DOMAIN f \cap S |-> f[k]]
At(key, value) == [k \in {key} |-> value]

\* The values of f, and those of g where f has none.
f ++ g == [k \in DOMAIN f \cup DOMAIN g |-> IF k \in DOMAIN f THEN f[k] ELSE g[k]]

\* A key that has its empty value when it has none.
Get(f, k) == IF k \in DOMAIN f THEN f[k] ELSE ""
NonEmpty(f) == Only(f, {k \in DOMAIN f : f[k] # ""})

\* What strings.TrimSpace leaves of a value; the instances write padding as "_".
Trim(v) == CASE v = "_a" -> "a"
             [] v = "_" -> ""
             [] OTHER -> v

Taken(acc) ==
    LET x == CHOOSE x \in acc.left : TRUE
    IN  [left |-> acc.left \ {x}, list |-> Append(acc.list, x)]

\* The elements of a set in some fixed order.
Listed(S) ==
    LET taken[n \in 0..Cardinality(S)] ==
          IF n = 0 THEN [left |-> S, list |-> << >>] ELSE Taken(taken[n - 1])
    IN  taken[Cardinality(S)].list

\* The one content of a file field that does not decode.
IsBase64(v) == v # "%"

FieldsOutside(e, placed) == Only(e.data, KeyedFields \ placed)

CustomKind(kind) == IF kind = "" THEN "text" ELSE kind
Custom(label, value, kind, filename, mime) ==
    [label |-> label, value |-> value, kind |-> kind, filename |-> filename, mime |-> mime]

\* The elements of a sequence at some of its positions, in their order.
Picked(s, positions) ==
    [n \in 1..Cardinality(positions) |->
        s[CHOOSE i \in positions : Cardinality({j \in positions : j <= i}) = n]]
Where(s, Keeps(_)) == Picked(s, {i \in DOMAIN s : Keeps(s[i])})

IsList(s) == Len(s) \in Nat /\ s = [i \in 1..Len(s) |-> s[i]]
Total(counts) == FoldLeft(LAMBDA sum, n : sum + n, 0, counts)

-----------------------------------------------------------------------------
(* Tags                                                                    *)

\* NormalizeTag leaves the word; "" is a tag with nothing left.
NormalizeTag(t) == IF t.spelling = "raw" THEN [t EXCEPT !.spelling = "clean"] ELSE t

\* Blank tags and repetitions go, the first spelling wins, the order stays.
NormalizeTags(tags) ==
    LET first == Picked(tags, {i \in DOMAIN tags : /\ tags[i].word # ""
                                                  /\ \A j \in 1..(i - 1) : tags[j].word # tags[i].word})
    IN  [i \in DOMAIN first |-> NormalizeTag(first[i])]

\* The only word of the instances that is longer than MaxTagLength.
TooLong(t) == t.word = "long"

\* A long tag is dropped with a warning before the others are normalised.
NormalizeImportedTags(tags) == NormalizeTags(Where(tags, LAMBDA t : ~TooLong(t)))

\* Tags joined in one cell come back split at the commas, without the blank ones.
SplitTags(tags) == Where(tags, LAMBDA t : t # [word |-> "", spelling |-> "clean"])

RemoveTags(tags, remove) ==
    Where(tags, LAMBDA t : ~\E r \in Range(remove) : r.word = t.word)

\* The tag options of a command: clear, then remove, then add.
EditTags(tags, clear, remove, add) ==
    NormalizeTags(RemoveTags(IF clear THEN << >> ELSE tags, remove) \o add)

-----------------------------------------------------------------------------
(* CSV: one row per entry, cells by position                               *)

GenericColumns == <<"name", "url", "username", "password", "notes">>
ChromeColumns == <<"name", "url", "username", "password">>
LastPassColumns == <<"url", "username", "password", "totp_secret", "notes", "name">>
OnePasswordColumns == <<"name", "username", "password", "url", "notes", "type">>

\* kinds of 1Password
OnePasswordType(type) ==
    CASE type = "note" -> "Secure Note"
      [] type = "credit-card" -> "Credit Card"
      [] type = "identity" -> "Identity"
      [] OTHER -> "Login"

TypeOfOnePassword(kind) ==
    CASE kind \in {"Secure Note", "Note"} -> "note"
      [] kind = "Credit Card" -> "credit-card"
      [] kind = "Identity" -> "identity"
      [] OTHER -> "password"

CSVRow(e) == [cells |-> [i \in 1..5 |-> Get(e.data, GenericColumns[i])], tags |-> e.tags]

OnePasswordRow(e) ==
    [cells |-> [i \in 1..6 |-> IF i = 6 THEN OnePasswordType(e.type)
                               ELSE Get(e.data, OnePasswordColumns[i])],
     tags |-> e.tags]

\* How much of an entry ExportCSV has no column for.
CSVKeys == {"url", "username", "password"}
CSVLeftOut(e) ==
    Cardinality(DOMAIN FieldsOutside(e, CSVKeys)) + Len(e.custom) + Cardinality(DOMAIN e.extra)

\* Only a secret without a password makes a login a TOTP entry.
SettleLoginType(type, data) ==
    IF type = "password" /\ "totp_secret" \in DOMAIN data /\ "password" \notin DOMAIN data
    THEN "totp" ELSE type

\* No record: a line or an item the parser skips.
Skipped == [type |-> "skipped", data |-> NoData, custom |-> << >>, tags |-> << >>,
            extra |-> NoData, path |-> << >>]
Record(type, data, custom, tags, path) ==
    [type |-> type, data |-> data, custom |-> custom, tags |-> tags, extra |-> NoData, path |-> path]

\* The name of a record that has none is that of its fallback, if it has any.
Named(rec, fallback) ==
    IF "name" \in DOMAIN rec.data THEN rec
    ELSE IF fallback = "" THEN Skipped
    ELSE [rec EXCEPT !.data = [name |-> fallback] ++ @]

ConvertCSVRow(row, columns) ==
    LET cell(k) == Trim(row.cells[CHOOSE i \in DOMAIN columns : columns[i] = k])
        read == {columns[i] : i \in DOMAIN columns \cap DOMAIN row.cells}
        data == NonEmpty([k \in read \cap DataKeys |-> cell(k)])
        type == IF columns = OnePasswordColumns /\ "type" \in read
                THEN TypeOfOnePassword(cell("type")) ELSE "password"
        tags == IF columns \in {GenericColumns, OnePasswordColumns}
                THEN SplitTags(row.tags) ELSE << >>
    IN  Named(Record(IF columns = LastPassColumns THEN SettleLoginType(type, data) ELSE type,
                     data, << >>, tags, << >>),
              Get(data, "url"))

-----------------------------------------------------------------------------
(* Bitwarden: an item has places of its own, everything else is a field    *)

TagsField == "passbubble_tags"
PlainKinds == {"text", "url", "email", "phone", "note"}
\* uri: the value is written as data:<mime>;base64,<value>; tags: what is read
\* of it as tags, by whoever the field of that name was written.
Field(name, value, hidden) ==
    [name |-> name, value |-> value, hidden |-> hidden, uri |-> FALSE, mime |-> "",
     tags |-> IF name = TagsField THEN <<[word |-> value, spelling |-> "clean"]>> ELSE << >>]

BitwardenType(type) ==
    CASE type = "note" -> "note" [] type = "credit-card" -> "card"
      [] type = "identity" -> "identity" [] OTHER -> "login"

PlacedKeys(type) ==
    CASE type = "note" -> {} [] type = "credit-card" -> CardKeys
      [] type = "identity" -> IdentityKeys [] OTHER -> LoginKeys

\* Mutant: only what calls itself a password is masked.
FieldOfCustomShown(cf) == Field(cf.label, cf.value, cf.kind = "password")

FieldOfCustom(cf) ==
    IF cf.kind = "file"
    THEN [Field(IF cf.filename = "" THEN cf.label ELSE cf.filename, cf.value, TRUE)
            EXCEPT !.uri = TRUE, !.mime = IF cf.mime = "" THEN "generic" ELSE cf.mime]
    ELSE Field(cf.label, cf.value, CustomKind(cf.kind) \notin PlainKinds)

\* files: whether file fields are written; the order of the keyed and of the
\* unknown fields is left out.
BitwardenItem(e, files) ==
    LET written == Where(e.custom, LAMBDA cf : files \/ cf.kind # "file")
        outside == FieldsOutside(e, PlacedKeys(e.type))
        kind == BitwardenType(e.type)
    IN  [type |-> kind, name |-> Get(e.data, "name"), notes |-> Get(e.data, "notes"),
         slots |-> Only(e.data, PlacedKeys(e.type)),
         fields |->
            [i \in DOMAIN written |-> FieldOfCustom(written[i])]
            \o Listed({Field(k, outside[k], k \in SecretKeys) : k \in DOMAIN outside})
            \o (IF kind = "login" /\ e.type \notin {"", "password", "totp"}
                THEN <<Field("type", e.type, FALSE)>> ELSE << >>)
            \o Listed({Field(k, e.extra[k], TRUE) : k \in DOMAIN e.extra})
            \o (IF e.tags # << >> THEN <<[Field(TagsField, "", FALSE) EXCEPT !.tags = e.tags]>>
                ELSE << >>),
         path |-> << >>]

\* Mutant: files come back as hidden text.
CustomOfFieldText(f) ==
    Custom(f.name, IF f.uri THEN "data:" \o f.value ELSE f.value, IF f.hidden THEN "password" ELSE "", "", "")

\* A hidden field is a password, or a file when it holds a data: URI.
CustomOfField(f) ==
    IF ~f.hidden THEN Custom(f.name, f.value, "", "", "")
    ELSE IF ~f.uri THEN Custom(f.name, f.value, "password", "", "")
    ELSE IF ~IsBase64(f.value) THEN Custom(f.name, "data:" \o f.value, "password", "", "")
    ELSE Custom(f.name, f.value, "file", f.name, f.mime)

ConvertBitwardenItem(item) ==
    LET slots == IF item.type = "note" THEN NoData ELSE item.slots
        data == NonEmpty([name |-> item.name, notes |-> item.notes] ++ slots)
        type == CASE item.type = "login" -> SettleLoginType("password", data)
                  [] item.type = "card" -> "credit-card"
                  [] OTHER -> item.type
        named == Where(item.fields, LAMBDA f : f.name \notin {"", TagsField})
        tags == FlattenSeq([i \in DOMAIN item.fields |->
                    IF item.fields[i].name = TagsField THEN SplitTags(item.fields[i].tags) ELSE << >>])
        fallback == CASE "username" \notin DOMAIN data -> Get(data, "url")
                      [] "url" \notin DOMAIN data -> data["username"]
                      [] OTHER -> data["username"] \o " " \o data["url"]
    IN  IF item.type \notin {"login", "note", "card", "identity"} THEN Skipped
        ELSE Named(Record(type, data, [i \in DOMAIN named |-> CustomOfField(named[i])],
                          tags, item.path),
                   fallback)

-----------------------------------------------------------------------------
(* 1PUX: login fields, sections of typed values, files                      *)

Section(title, id, via, value, multiline) ==
    [title |-> title, id |-> id, via |-> via, value |-> value, multiline |-> multiline]

OnePuxVia(kind) ==
    CASE kind \in {"password", "ssh"} -> "concealed"
      [] kind \in {"totp", "url", "email", "phone"} -> kind
      [] OTHER -> "string"

\* The section fields each category has a place for.
OnePuxSections(e) ==
    LET s(title, id, via, key) == Section(title, id, via, Get(e.data, key), FALSE)
        plain(ids) == [i \in DOMAIN ids |-> s(ids[i], ids[i], "string", ids[i])]
    IN  CASE e.type = "note" -> << >>
          [] e.type = "credit-card" ->
                <<s("Card Number", "card_number", "creditCardNumber", "card_number")>>
                \o plain(<<"holder_name", "expiry_month", "expiry_year">>)
                \o <<s("CVV", "cvv", "concealed", "cvv")>>
          [] e.type = "identity" ->
                <<s("First Name", "firstname", "string", "first_name"),
                  s("Last Name", "lastname", "string", "last_name")>>
                \o plain(<<"company", "street", "city", "state", "postal_code", "country">>)
                \o <<s("Email", "email", "email", "email"), s("Phone", "phone", "phone", "phone")>>
          [] OTHER ->
                (IF "totp_secret" \in DOMAIN e.data
                 THEN <<s("One-Time Password", "totp", "totp", "totp_secret")>> ELSE << >>)
                \o (IF e.type = "license"
                    THEN <<s("Product Name", "product_name", "string", "product_name"),
                           s("License Key", "license_key", "concealed", "license_key"),
                           s("Purchase Email", "purchase_email", "email", "product_name")>>
                    ELSE << >>)

OnePuxItem(e) ==
    LET fields == Where(e.custom, LAMBDA cf : cf.kind # "file")
        files == Where(e.custom, LAMBDA cf : cf.kind = "file" /\ IsBase64(cf.value))
        login == BitwardenType(e.type) = "login"
    IN  [trashed |-> FALSE, category |-> OnePasswordType(e.type),
         name |-> Get(e.data, "name"), notes |-> Get(e.data, "notes"), url |-> Get(e.data, "url"),
         login |-> IF login THEN Only(e.data, {"username", "password"}) ELSE NoData,
         tags |-> e.tags,
         sections |-> OnePuxSections(e)
            \o [i \in DOMAIN fields |->
                   Section(fields[i].label, "", OnePuxVia(fields[i].kind), fields[i].value,
                           fields[i].kind \in {"note", "ssh"})],
         files |-> [i \in DOMAIN files |->
                      [name |-> IF files[i].filename = "" THEN files[i].label ELSE files[i].filename,
                       value |-> files[i].value]],
         path |-> <<"Personal">>]

\* The key a section field is for, "" for the ids nobody knows, and the
\* types of value that are taken for it.
OnePuxKey(id) ==
    CASE id = "totp" -> "totp_secret"
      [] id = "ccnum" -> "card_number"
      [] id = "cardholder" -> "holder_name"
      [] id = "cvvnum" -> "cvv"
      [] id = "firstname" -> "first_name"
      [] id = "lastname" -> "last_name"
      [] id \in ({"username", "password"} \cup CardKeys \cup IdentityKeys)
                  \ {"title", "first_name", "last_name"} -> id
      [] OTHER -> ""

OnePuxVias(key) ==
    CASE key \in {"password", "cvv"} -> {"concealed"}
      [] key = "totp_secret" -> {"totp"}
      [] key = "card_number" -> {"creditCardNumber", "string"}
      [] key \in {"email", "phone"} -> {key, "string"}
      [] OTHER -> {"string"}

\* The last field for a key decides what it is, "" for nothing; but a key of a
\* login keeps the last value there is.
MapStructuredField(sections) ==
    LET key(i) == OnePuxKey(sections[i].id)
        value(i) == IF sections[i].via \in OnePuxVias(key(i)) THEN sections[i].value ELSE ""
        deciding(k) == {i \in DOMAIN sections : key(i) = k /\ (k \in LoginKeys => value(i) # "")}
        decided == {k \in {key(i) : i \in DOMAIN sections} \ {""} : deciding(k) # {}}
    IN  [k \in decided |-> value(Max(deciding(k)))]

OnePuxKind(sf) ==
    CASE sf.via = "concealed" -> "password"
      [] sf.via = "sshKey" -> "ssh"
      [] sf.via \in {"totp", "url", "email", "phone"} -> sf.via
      [] OTHER -> IF sf.multiline THEN "note" ELSE "text"

Convert1PuxItem(item) ==
    LET type == TypeOfOnePassword(item.category)
        head == [name |-> item.name, notes |-> item.notes, url |-> item.url] ++ item.login
        others == Where(item.sections, LAMBDA sf :
                    OnePuxKey(sf.id) = "" /\ sf.value # "" /\ sf.via # "creditCardNumber")
        data == NonEmpty(MapStructuredField(item.sections) ++ head)
        custom == [i \in DOMAIN others |->
                     Custom(others[i].title, others[i].value, OnePuxKind(others[i]), "", "")]
        codes == Where(custom, LAMBDA cf : cf.kind = "totp")
        coded == IF codes = << >> THEN data ELSE [totp_secret |-> codes[1].value] ++ data
        files == [i \in DOMAIN item.files |->
                    Custom(item.files[i].name, item.files[i].value, "file", item.files[i].name, "")]
    IN  IF item.trashed THEN Skipped
        ELSE Named(Record(SettleLoginType(type, coded), coded, custom \o files, item.tags, item.path),
                   Get(coded, "username"))

-----------------------------------------------------------------------------
(* Psono and KeePass, which are only read                                   *)

\* What each kind of Psono item has a key for; the type it becomes.
PsonoKeys(kind) ==
    CASE kind = "website_password" -> LoginKeys \cup {"notes"}
      [] kind = "application_password" -> {"username", "password"}
      [] kind = "note" -> {"notes"}
      [] kind = "bookmark" -> {"url"}
      [] kind = "totp" -> {"totp_secret", "notes"}
      [] OTHER -> {}

PsonoType(kind, data) ==
    CASE kind = "website_password" -> SettleLoginType("password", data)
      [] kind \in {"note", "totp"} -> kind
      [] OTHER -> "password"

\* item.title is the title of its kind, item.name the name of every kind.
ConvertPsonoItem(item) ==
    LET title == IF item.title = "" THEN item.name ELSE item.title
        data == NonEmpty([name |-> title] ++ Only(item.data, PsonoKeys(item.type)))
        labelled == Where(item.fields, LAMBDA f : f.name # "")
        custom == [i \in DOMAIN labelled |-> Custom(labelled[i].name, labelled[i].value, "", "", "")]
    IN  IF PsonoKeys(item.type) = {} THEN Skipped
        ELSE Named(Record(PsonoType(item.type, data), data, custom, << >>, item.path), "")

KeePassStandard == [Title |-> "name", URL |-> "url", UserName |-> "username",
                    Password |-> "password", Notes |-> "notes"]
KeePassSecrets == <<"otp", "TOTP Seed", "TimeOtp-Secret-Base32", "HmacOtp-Secret-Base32">>

\* values: the values of an entry in their order, as <<key, content>>.
ConvertKeePassEntry(entry) ==
    LET content(key) == LET of == Where(entry.values, LAMBDA v : v[1] = key)
                        IN  IF of = << >> THEN "" ELSE of[1][2]
        found == Where(KeePassSecrets, LAMBDA key : content(key) # "")
        data == NonEmpty([k \in Range(KeePassStandard) |->
                            content(CHOOSE s \in DOMAIN KeePassStandard : KeePassStandard[s] = k)]
                         ++ [totp_secret |-> IF found = << >> THEN "" ELSE content(found[1])])
        others == Where(entry.values, LAMBDA v : v[1] \notin DOMAIN KeePassStandard \cup {"_private"})
    IN  IF "name" \notin DOMAIN data THEN Skipped
        ELSE Record(SettleLoginType("password", data), data,
                    [i \in DOMAIN others |-> Custom(others[i][1], others[i][2], "", "", "")],
                    SplitTags(entry.tags), entry.path)

\* What an item of a file has several of, it has in lists.
HasLists(format, item) ==
    CASE format = "bitwarden" ->
            IsList(item.fields) /\ \A i \in DOMAIN item.fields : IsList(item.fields[i].tags)
      [] format = "1pux" -> IsList(item.sections) /\ IsList(item.files) /\ IsList(item.tags)
      [] format = "psono" -> IsList(item.fields)
      [] format = "keepass" -> IsList(item.values) /\ IsList(item.tags)
      [] OTHER -> IsList(item.tags)
=============================================================================
