------------------------------ MODULE MCLogging ------------------------------
(* Logging of a few lines: each has a field that some list denies, and one  *)
(* that none does, repeats a key, or is malformed.                          *)
EXTENDS Logging

Field(key, value) == [key |-> key, value |-> value]
User == <<"user">>
Password == <<"db", "_", "Password">>
ApiKey == <<"api", "Key">>
Tenant == <<"tenant", "_", "id">>

Object(fields) == [fields |-> fields, malformed |-> FALSE]

SomeLines ==
    {Object(<<>>),
     Object(<<Field(User, "clear"), Field(Password, "private")>>),
     Object(<<Field(Password, "private"), Field(Password, "clear"), Field(User, "clear")>>),
     Object(<<Field(User, "clear"), Field(Tenant, "private"), Field(User, "private")>>),
     Object(<<Field(ApiKey, "private"), Field(<<"x", "api", "_", "Key">>, "private")>>),
     [fields |-> <<Field(Password, "private")>>, malformed |-> TRUE]}

(* No entry, one in another case, and one that is in every name. *)
SomeLists == {{}, {<<"Tenant">>}, {<<>>}}
=============================================================================
