----------------------------- MODULE MCCommands -----------------------------
EXTENDS Commands

CONSTANTS e1, e2, e3

F(label, value, kind) == Custom(label, value, kind, "", "")
Doc == Custom("Doc", "b", "file", "doc.pdf", "")

MCFill == {{"username"}, {"password"} \cup BankKeys \cup LicenseKeys}

\* An entry of a type: the keys it has, all with one value, custom fields, tags.
E(type, keys, value, custom, extra) ==
    Stored([Record(type, [k \in keys |-> value] ++ [name |-> "a"], custom, << >>, << >>)
              EXCEPT !.extra = extra], FALSE)

Alone(e) == [id \in {e1, e2, e3} |-> IF id = e1 THEN e ELSE Absent]
Two(e, f) == [id \in {e1, e2, e3} |-> IF id = e1 THEN e ELSE IF id = e2 THEN f ELSE Absent]

Types == {"password", "totp", "note", "credit-card", "identity", "license", "bank-account"}
Customs == {<< >>, <<F("x", "a", "password"), F("x", "b", "")>>, <<Doc, F("x", "a", "totp")>>,
            <<F("x", "_a", "ssh"), F("y", "a", "future")>>,
            <<F("", "a", ""), F(TagsField, "a", ""), Custom("Doc", "%", "file", "", "")>>}

\* Every key at every type, the shapes whose type a format has to guess,
\* custom fields, also such as do not travel, unknown keys, and two entries of
\* one name.
MCVaults ==
    {[id \in {e1, e2, e3} |-> Absent]}
    \cup {Alone(E(type, KeyedFields \cup {"notes"}, "a", << >>, NoData)) : type \in Types}
    \cup {Alone(E("totp", {"username", "totp_secret"} \cup SecretOptions, "a", << >>, NoData))}
    \cup {Alone(E(type, {"username", "password"}, "_a", custom, [new |-> "a"])) :
            type \in {"password", "note"}, custom \in Customs}
    \cup {Two(E("password", {"username"}, "a", << >>, NoData),
              E(type, {"username"}, "a", <<F("x", "a", ""), F("x", "b", "url")>>, [new |-> "a"])) :
            type \in {"totp", "note"}}

KP(values) == [values |-> values, tags |-> <<Tag("w", "upper")>>, path |-> <<"f", "g">>]
PS(type, title, path) ==
    [type |-> type, title |-> title, name |-> "A", path |-> path, fields |-> <<[name |-> "x", value |-> "a"]>>,
     data |-> [username |-> "a", totp_secret |-> "b", url |-> "a"]]

MCForeign ==
    {[format |-> "keepass", items |->
        <<KP(<<<<"Title", "a">>, <<"UserName", "a">>, <<"otp", "b">>, <<"x", "b">>, <<"x", "">>>>),
          KP(<<<<"Title", "A">>, <<"UserName", "a">>, <<"_private", "a">>>>),
          KP(<<<<"UserName", "a">>>>)>>],
     [format |-> "psono", items |->
        <<PS("website_password", "a", <<"f">>), PS("note", "", <<"f", "g">>),
          PS("application_password", "a", << >>), PS("unknown", "a", << >>)>>],
     [format |-> "csv-lastpass", items |->
        <<[cells |-> <<"a", "a", "a", "a", "", "a">>, tags |-> << >>],
          [cells |-> <<"a", "a", "", "_a", "_", "">>, tags |-> << >>]>>],
     [format |-> "bitwarden", items |->
        <<[type |-> "login", name |-> "", notes |-> "", path |-> <<"f", "g">>,
           slots |-> [username |-> "a", totp_secret |-> "b"],
           fields |-> <<Field("x", "b", TRUE), Field("x", "", FALSE), Field("x", "a", FALSE)>>],
          [type |-> "ssh", name |-> "a", notes |-> "", path |-> << >>, slots |-> NoData,
           fields |-> << >>]>>]}
=============================================================================
