---------------------------- MODULE FunctionNames ----------------------------
(***************************************************************************)
(* What a function name means. PostgreSQL keeps the capitals of a delimited *)
(* name and has schemas of functions; SQLite folds every name, knows no     *)
(* schema, and answers a name it does not know with an error at run time.   *)
(* The inventories are given by a few names of each kind: the code treats   *)
(* every member of a kind alike. A session variable is read through the     *)
(* function a mapping pairs with it.                                        *)
(***************************************************************************)
EXTENDS Naturals, Sequences, SequencesExt

CONSTANTS
    WrittenCalls,   \* calls as PostgreSQL reads them: [base, capital, prefix]
    SqliteNames,    \* names a client writes against the replica
    NameOptions,    \* records [math, declared, v7, mappings]
    Sessions        \* reads of the caller's identity: [pattern, cast, delimiter, name]

VARIABLE naming

----------------------------------------------------------------------------
(* The inventories *)

SqliteBuiltins == {"abs", "replace", "format", "random", "typeof", "likely", "instr", "json_array"}
SqliteMath == {"sqrt", "log2", "pow"}
SharedWithPostgres == {"abs", "replace", "sqrt", "pow"}
PostgresOnly == {"md5", "corr", "uuidv7", "greatest"}
SqliteOnly == {"format", "likely", "log2"}
UuidFunction == "uuid"

\* The names of the server's own catalogue.
PostgresCatalog ==
    SharedWithPostgres \cup PostgresOnly
      \cup {"format", "random", "power", "gen_random_uuid", "strpos", "json_build_array", "current_user"}

ForwardRenames == [strpos |-> "instr", json_build_array |-> "json_array"]
ReverseRenames == [json_array |-> "json_build_array"]

\* The lists hold lower-case names, so a capital misses all of them.
Classify(name) ==
    [builtin |-> ~name.capital /\ name.base \in SqliteBuiltins,
     math |-> ~name.capital /\ name.base \in SqliteMath,
     shared |-> ~name.capital /\ name.base \in SharedWithPostgres,
     postgres |-> ~name.capital /\ name.base \in PostgresOnly]

----------------------------------------------------------------------------
(* Session variables: a mapping is [pattern, fn, type, delimiter], the      *)
(* pattern "user" or a setting's name; a set has a delimiter, a scalar ""   *)

Nowhere == [pattern |-> "none", fn |-> "none", type |-> "none", delimiter |-> ""]
LastOf(mappings, Test(_)) ==
    LET found == SelectSeq(mappings, Test) IN IF found = <<>> THEN Nowhere ELSE found[Len(found)]

FindSessionVariable(o, pattern) == LastOf(o.mappings, LAMBDA m : m.pattern = pattern)

\* A function paired with both a setting and the role is read as the setting.
MappingForFunction(o, fn) ==
    LET setting == LastOf(o.mappings, LAMBDA m : m.fn = fn /\ m.pattern # "user")
    IN IF setting # Nowhere THEN setting ELSE LastOf(o.mappings, LAMBDA m : m.fn = fn)

ScalarReading(m) == m.delimiter = ""
SetReading(m, written) == m.delimiter # "" /\ m.delimiter = written

\* A cast goes with the pattern, unless the mapping records another type.
TranslateCast(m, cast) == m.type = "none" \/ m.type = cast

\* Under a cast or in a membership test the read is known by the lower-cased
\* last part of the function's name; a plain read is classified like any call,
\* and one of another schema or with capitals of its own is refused.
ReadByLastPart(s) == s.cast # "none" \/ s.delimiter # ""

TranslateSession(s, o) ==
    LET m == FindSessionVariable(o, s.pattern)
    IN IF \/ m = Nowhere
          \/ s.name # "catalog" /\ ~ReadByLastPart(s)
          \/ s.delimiter = "" /\ ~ScalarReading(m)
          \/ s.delimiter # "" /\ ~SetReading(m, s.delimiter)
          \/ s.cast # "none" /\ ~TranslateCast(m, s.cast)
         THEN Nowhere
       ELSE [s EXCEPT !.pattern = m.fn, !.cast = "none", !.name = "catalog"]

\* reverse_expression and reverse_delimited_membership
ReverseSession(s, o) ==
    LET m == MappingForFunction(o, s.pattern)
    IN IF \/ m = Nowhere
          \/ s.delimiter = "" /\ ~ScalarReading(m)
          \/ s.delimiter # "" /\ ~SetReading(m, s.delimiter)
         THEN Nowhere
       ELSE [s EXCEPT !.pattern = m.pattern, !.cast = IF s.delimiter = "" THEN m.type ELSE "none"]

----------------------------------------------------------------------------
(* Names *)

Named(base) == [base |-> base, capital |-> FALSE, prefix |-> "none"]
NameRefusal == Named("refused")
Form(of) == [form |-> of]    \* a closed form that computes the catalogue function

ClassifyWrittenName(w) ==
    CASE w.prefix = "other" \/ (w.prefix = "pg_catalog" /\ w.capital) -> "prefixed"
      [] w.capital -> "own name"
      [] OTHER -> "catalog"

DeclaresByOption(w, o) ==
    ~w.capital /\ w.base \in {UuidFunction, o.v7} \cup {o.mappings[i].fn : i \in DOMAIN o.mappings}

ClassifyUnrecognised(w, o) ==
    LET class == Classify(w)
    IN IF class.builtin \/ (o.math /\ class.math) \/ w.base \in o.declared \/ DeclaresByOption(w, o)
         THEN w
       ELSE NameRefusal

\* Closed forms, names with no counterpart, and the maths of the build.
ClosedForms == {"greatest", "random"}
NoCounterpart == {"md5", "format"}
Statistical == {"corr"}
GatedArms == {"sqrt", "pow", "power"}

UuidV7(o) == IF o.v7 = "none" THEN NameRefusal ELSE Named(o.v7)

TranslateCatalogName(w, o) ==
    CASE w.base = "current_user" ->
            LET m == FindSessionVariable(o, "user")
            IN IF m # Nowhere THEN (IF ScalarReading(m) THEN Named(m.fn) ELSE NameRefusal)
               ELSE IF w.base \in o.declared THEN w ELSE NameRefusal
      [] w.base \in DOMAIN ForwardRenames -> Named(ForwardRenames[w.base])
      [] w.base \in ClosedForms -> Form(w.base)
      [] w.base = "gen_random_uuid" -> Named(UuidFunction)
      [] w.base = "uuidv7" -> UuidV7(o)
      [] w.base \in NoCounterpart -> NameRefusal
      [] w.base \in Statistical -> IF w.base \in o.declared THEN w ELSE NameRefusal
      [] w.base \in GatedArms ->
            IF ~o.math THEN NameRefusal ELSE IF w.base = "power" THEN Named("pow") ELSE w
      [] OTHER -> ClassifyUnrecognised(w, o)

\* Fault: only the last part of the name counts.
TranslateFunctionByLastPart(w, o) == TranslateCatalogName([w EXCEPT !.capital = FALSE], o)

TranslateFunction(w, o) ==
    CASE ClassifyWrittenName(w) = "catalog" -> TranslateCatalogName(w, o)
      [] ClassifyWrittenName(w) = "own name" -> ClassifyUnrecognised(w, o)
      [] OTHER -> NameRefusal

ClassifyUnreversed(name, o) ==
    IF name \in SharedWithPostgres \cup PostgresOnly \cup o.declared THEN Named(name) ELSE NameRefusal

ReverseFunctionName(name, o) ==
    CASE name \in DOMAIN ReverseRenames -> Named(ReverseRenames[name])
      [] name = "instr" -> Form("strpos")
      [] MappingForFunction(o, name) # Nowhere ->
            IF ScalarReading(MappingForFunction(o, name)) THEN [session |-> MappingForFunction(o, name).pattern] ELSE NameRefusal
      [] name = o.v7 -> Named("uuidv7")
      [] name = UuidFunction -> Named("gen_random_uuid")
      [] name \in {"typeof", "random"} \cup SqliteOnly -> NameRefusal
      [] OTHER -> ClassifyUnreversed(name, o)

----------------------------------------------------------------------------
(* What the two databases resolve a name to. A declared name is one the     *)
(* application has on both sides; both sides of a pairing hold one value.   *)

Missing == [by |-> "none", name |-> "none"]
Catalogue(c) == [by |-> "catalog", name |-> IF c = "power" THEN "pow" ELSE c]
Session(name) == [by |-> "session", name |-> name]    \* a pattern on the server, a function on the replica

Agree(server, replica, o) ==
    \/ server = replica
    \/ /\ server.by = "session" /\ replica.by = "session"
       /\ \E i \in DOMAIN o.mappings : o.mappings[i].pattern = server.name /\ o.mappings[i].fn = replica.name

ServerFunction(n, o) ==
    CASE "form" \in DOMAIN n -> Catalogue(n.form)
      [] "session" \in DOMAIN n -> Session(n.session)
      [] n.prefix = "other" \/ (n.prefix = "pg_catalog" /\ n.capital) -> [by |-> "schema", name |-> n.base]
      [] n.capital -> [by |-> "own", name |-> n.base]
      [] n.base = "current_user" /\ FindSessionVariable(o, "user") # Nowhere -> Session("user")
      [] n.base \in PostgresCatalog -> Catalogue(n.base)
      [] n.prefix = "none" /\ n.base \in o.declared -> [by |-> "own", name |-> n.base]
      [] OTHER -> Missing

ReplicaFunction(n, o) ==
    CASE "form" \in DOMAIN n -> Catalogue(n.form)
      [] n.prefix # "none" -> Missing
      [] \E i \in DOMAIN o.mappings : o.mappings[i].fn = n.base -> Session(n.base)
      [] n.base = UuidFunction -> Catalogue("gen_random_uuid")
      [] n.base = o.v7 -> Catalogue("uuidv7")
      [] n.base \in o.declared -> IF n.base \in PostgresCatalog THEN Catalogue(n.base) ELSE [by |-> "own", name |-> n.base]
      [] n.base \in SqliteBuiltins \cup (IF o.math THEN SqliteMath ELSE {}) ->
            CASE n.base \in SharedWithPostgres -> Catalogue(n.base)
              [] n.base = "instr" -> Catalogue("strpos")
              [] n.base = "json_array" -> Catalogue("json_build_array")
              [] OTHER -> [by |-> "sqlite", name |-> n.base]
      [] OTHER -> Missing

NoNaming == [what |-> "none"]
NamingInit == naming = NoNaming

ResolveName ==
    \/ \E w \in WrittenCalls, o \in NameOptions : naming' = [what |-> "call", of |-> w, options |-> o]
    \/ \E n \in SqliteNames, o \in NameOptions : naming' = [what |-> "sqlite call", name |-> n, options |-> o]
    \/ \E s \in Sessions, o \in NameOptions : naming' = [what |-> "session", read |-> s, options |-> o]

----------------------------------------------------------------------------
\* An emitted name is one the destination has, and it means there what the
\* written name means: a delimited name never lands on the built-in SQLite
\* folds it onto, a name of another schema on neither, and a name the two
\* engines give different meanings crosses in neither direction. A read of the
\* caller's identity that goes out and comes back reads a setting of the same
\* function, as the same type or the same set. The application's own function
\* of that name is taken for it under a cast or in a membership test alone.
NamesKeepTheirMeaning ==
    /\ naming.what = "call" =>
        LET o == naming.options
            emitted == TranslateFunction(naming.of, o)
            replica == ReplicaFunction(emitted, o)
            server == ServerFunction(naming.of, o)
        IN emitted # NameRefusal => replica # Missing /\ (server = Missing \/ Agree(server, replica, o))
    /\ naming.what = "sqlite call" =>
        LET o == naming.options
            restored == ReverseFunctionName(naming.name, o)
            replica == ReplicaFunction(Named(naming.name), o)
        IN restored # NameRefusal =>
             ServerFunction(restored, o) # Missing /\ (replica = Missing \/ Agree(ServerFunction(restored, o), replica, o))
    /\ naming.what = "session" =>
        LET o == naming.options
            out == TranslateSession(naming.read, o)
            back == ReverseSession(out, o)
        IN /\ out # Nowhere /\ naming.read.name # "catalog" => naming.read.cast # "none" \/ naming.read.delimiter # ""
           /\ (out # Nowhere /\ back # Nowhere) =>
                /\ back.delimiter = naming.read.delimiter
                /\ back.cast = naming.read.cast
                /\ \E i \in DOMAIN o.mappings : o.mappings[i].pattern = back.pattern /\ o.mappings[i].fn = out.pattern
                /\ (\E i \in DOMAIN o.mappings : o.mappings[i].fn = out.pattern /\ o.mappings[i].pattern # "user")
                     => back.pattern # "user"
=============================================================================
