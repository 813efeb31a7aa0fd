------------------------------- MODULE MCNames -------------------------------
(* What a name means: the namespaces of a batch, and beside them one policy  *)
(* reference, one function name, one WITH list, one replayed or one reversed statement. *)
EXTENDS EmittedNamespace, PolicyReferences, FunctionNames, CteNames, ColumnRebinding,
        ReverseStatements

----------------------------------------------------------------------------
(* Emitted namespace: two texts that only the server tells apart           *)

MCLower == [x \in Texts |-> IF x = "T" THEN "t" ELSE x]

----------------------------------------------------------------------------
(* Policy references: host h, kept in h_rls, and two tables of subqueries, *)
(* read under their names or an alias, which may be spelled like the host   *)

MCTables == ("h" :> {"x", "y"}) @@ ("h_rls" :> {"x", "y"}) @@ ("m" :> {"x", "z"}) @@ ("n" :> {"w"})
MCFroms == ({[n \in {t} |-> t] : t \in {"h", "m", "n"}} \cup {[n \in {"d"} |-> t] : t \in {"h", "m", "n"}})
             \cup {"m" :> "m" @@ "n" :> "n", "d" :> "h" @@ "m" :> "m", "d" :> "m" @@ "m" :> "m", "h" :> "m", "h" :> "h" @@ "d" :> "h"}
MCReferences ==
    [from : MCFroms, depth : 0..1, qualifier : {"bare", "h", "m", "n", "d"}, column : {"x", "y", "z", "w"}]

----------------------------------------------------------------------------
(* Function names, one or two of each kind, under several sets of options   *)

CallName(base, capital, prefix) == [base |-> base, capital |-> capital, prefix |-> prefix]
PlainNames == PostgresCatalog \cup SqliteBuiltins \cup SqliteMath \cup {"f", "app_user", "uuid"}
MCWritten ==
    {CallName(b, FALSE, "none") : b \in PlainNames}
      \cup {CallName(b, TRUE, "none") : b \in PlainNames \ {"corr", "current_user"}}
      \cup {CallName(b, FALSE, "pg_catalog") : b \in ClosedForms \cup NoCounterpart \cup DOMAIN ForwardRenames \cup {"gen_random_uuid", "power"}}
      \cup {CallName(b, c, "other") : b \in PlainNames, c \in BOOLEAN}
MCSqliteNames == PlainNames \ {"current_user"}
Mapping(p, f, t, d) == [pattern |-> p, fn |-> f, type |-> t, delimiter |-> d]
MappingLists ==
    {<<>>, <<Mapping("user", "app_user", "none", "")>>, <<Mapping("r", "app_user", "none", ""), Mapping("user", "app_user", "none", "")>>,
     <<Mapping("s", "app_user", "int", "")>>, <<Mapping("s", "app_user", "int", ""), Mapping("s", "app_id", "int", "")>>,
     <<Mapping("s", "app_groups", "none", ",")>>, <<Mapping("s", "app_groups", "none", ","), Mapping("u", "app_user", "int", "")>>}
MCNameOptions == [math : BOOLEAN, declared : {{}, {"f"}, {"f", "corr"}, {"current_user"}}, v7 : {"none", "uuid7"}, mappings : MappingLists]
MCSessions ==
    [pattern : {"user", "r"}, cast : {"none"}, delimiter : {"", ","}, name : {"catalog", "own name", "prefixed"}]
      \cup [pattern : {"s", "u"}, cast : {"int", "text"}, delimiter : {""}, name : {"catalog", "own name", "prefixed"}]
      \cup [pattern : {"s", "u"}, cast : {"none"}, delimiter : {",", ";"}, name : {"catalog", "own name", "prefixed"}]

----------------------------------------------------------------------------
(* CTE names: lists of up to two names spelled t, T, "T", u or a generated *)
(* name, nested once                                                        *)

CteIdent(name, caps, quoted) == [name |-> name, caps |-> caps, quoted |-> quoted]
CteIdents == {CteIdent("t", FALSE, FALSE), CteIdent("t", TRUE, TRUE), CteIdent("u", FALSE, FALSE)}
Reads1(ident, qualified, target) == [ident |-> ident, qualified |-> qualified, target |-> target, alias |-> NoIdent]
CteRefs == {Reads1(i, FALSE, FALSE) : i \in CteIdents} \cup {Reads1(CteIdent("t", TRUE, FALSE), FALSE, FALSE),
              Reads1(CteIdent("t", FALSE, FALSE), TRUE, FALSE), Reads1(CteIdent("t", FALSE, FALSE), FALSE, TRUE),
              Reads1(CteIdent("__pg2sqlite_cte_0", FALSE, FALSE), FALSE, FALSE)}
LeafQuery(r) == [with |-> <<>>, recursive |-> FALSE, refs |-> <<r>>, subs |-> <<>>]
LeafQueries == {LeafQuery(r) : r \in CteRefs}
SomeLeaves == {LeafQuery(Reads1(i, FALSE, FALSE)) : i \in CteIdents}
WithOne(bodies) == {<<[alias |-> a, body |-> b]>> : a \in CteIdents, b \in bodies}
WithTwo(bodies) == {w \o v : w \in WithOne(bodies), v \in WithOne(bodies)}
CteQueries(withs, refs, subs) == [with : withs, recursive : BOOLEAN, refs : {<<r>> : r \in refs}, subs : subs]
InnerQueries == CteQueries(WithOne(SomeLeaves) \cup WithTwo({LeafQuery(Reads1(CteIdent("t", FALSE, FALSE), FALSE, FALSE))}),
                           {Reads1(i, FALSE, FALSE) : i \in CteIdents}, {<<>>})
\* Twins are told apart only when a reference names one of them, and a name of
\* a WITH list is used once.
RECURSIVE ReferredTo(_)
ReferredTo(q) ==
    /\ \A i, j \in DOMAIN q.with : (i # j /\ SameText(q.with[i].alias, q.with[j].alias)) =>
          /\ ~FoldsAlike(q.with[i].alias, q.with[j].alias)
          /\ \E k \in DOMAIN q.refs : ~q.refs[k].target /\ SameText(q.refs[k].ident, q.with[i].alias)
    /\ \A i \in DOMAIN q.with : ReferredTo(q.with[i].body)
    /\ \A k \in DOMAIN q.subs : ReferredTo(q.subs[k])
MCWithQueries ==
    {q \in CteQueries(WithOne(LeafQueries) \cup WithTwo(LeafQueries), CteRefs, {<<>>})
             \cup CteQueries(WithOne(InnerQueries), CteRefs, {<<>>})
             \cup CteQueries(WithTwo(SomeLeaves), {Reads1(CteIdent("u", FALSE, FALSE), FALSE, FALSE)},
                             {<<s>> : s \in InnerQueries}) : ReferredTo(q)}
MCPinnedLists == [declared : {<<>>, <<"p">>}, outputs : UNION {[1..n -> {"a", "b", ""}] : n \in 1..3}]
MCStoredNames == {r \in [{"a", "b", ""} -> {"a", "b", "c", ""}] : r[""] = "" /\ r["a"] # "" /\ r["b"] # "" /\ r["a"] # r["b"]}

----------------------------------------------------------------------------
(* Column rebinding: two file tables that share a column name, a temporary *)
(* table and a view over t; names are exchanged, changed and dropped       *)

RelationOf(kind, id, columns) == [kind |-> kind, id |-> id, columns |-> columns]
ColumnOf(name, id, follows) == [name |-> name, id |-> id, follows |-> follows]
RebindRelations ==
    ("t" :> RelationOf("table", 1, <<ColumnOf("a", 1, TRUE), ColumnOf("b", 2, TRUE), ColumnOf("j", 6, TRUE)>>))
      @@ ("u" :> RelationOf("table", 2, <<ColumnOf("b", 3, TRUE), ColumnOf("c", 4, TRUE), ColumnOf("j", 7, TRUE)>>))
      @@ ("s" :> RelationOf("temp", 3, <<ColumnOf("k", 5, TRUE)>>))
      @@ ("v" :> RelationOf("view", 4, <<ColumnOf("a", 1, TRUE), ColumnOf("p", 2, FALSE)>>))
MCRebindHistories ==
    [relations : {RebindRelations},
     finalName : {<<"t", "u", "s", "v">>, <<"w", "u", "s", "v">>, <<"u", "t", "s", "w">>, <<"t", Gone, "s", "v">>},
     finalColumn : {<<"a", "b", "b", "c", "k", "j", "j">>, <<"b", "a", "b", "c", "k", "j", "j">>, <<"z", "b", "b", "c", "k", "j", "j">>,
                    <<"c", "b", "b", "a", "k", "j", "j">>, <<"z", "b", "b", "a", "k", "j", "j">>, <<"a", "b", Gone, "c", "k", "j", "j">>}]
From(name, alias, using) == [name |-> name, alias |-> alias, query |-> <<>>, using |-> using]
Derived(q, alias) == [name |-> "", alias |-> alias, query |-> <<q>>, using |-> {}]
SelectOf(from, projection, where, subs, order) ==
    [with |-> <<>>, from |-> from, projection |-> projection, where |-> where, subs |-> subs, order |-> order]
BareRefs == {RefTo("", c) : c \in {"a", "b", "c", "k", "p"}}
Refs == BareRefs \cup {RefTo("t", "a"), RefTo("u", "b"), RefTo("x", "b"), RefTo("s", "k"), RefTo("v", "a"), RefTo("d", "a")}
FromLists == {<<From("t", "", {})>>, <<From("t", "", {}), From("u", "", {})>>,
              <<From("u", "", {}), From("t", "x", {})>>, <<From("t", "", {}), From("s", "", {})>>,
              <<From("v", "", {})>>, <<From("v", "", {}), From("s", "", {})>>}
Outputs1 == {<<ColumnItem(r, as)>> : r \in Refs, as \in {"", "n"}} \cup {<<StarItem("")>>}
ColumnNamesIn(item) == {RebindRelations[item.name].columns[c].name : c \in DOMAIN RebindRelations[item.name].columns}
Answered(from, ref) ==
    Cardinality({i \in DOMAIN from : ref.qualifier \in {"", QualifierOf(from[i])} /\ ref.column \in ColumnNamesIn(from[i])}) = 1
WildcardOverView(q) == \E i \in DOMAIN q.from : q.from[i].name = "v" /\ q.projection[1].star
PlainSelects == {q \in {SelectOf(f, p, <<>>, <<>>, <<>>) : f \in FromLists, p \in Outputs1} :
                     ~WildcardOverView(q) /\ (q.projection[1].star \/ Answered(q.from, q.projection[1].ref))}
                  \cup {SelectOf(<<From("t", "", {}), From("u", "", {"j"})>>, <<p>>, <<r>>, <<>>, <<>>) :
                          p \in {StarItem(""), ColumnItem(RefTo("", "j"), "")}, r \in BareRefs}
FullSelects == {q \in {[p EXCEPT !.where = <<r>>, !.order = o] : p \in PlainSelects, r \in Refs,
                        o \in {<<>>, <<RefTo("", "a")>>, <<RefTo("", "n")>>, <<RefTo("t", "b")>>}} : Answered(q.from, q.where[1])}
InnerSelects == {SelectOf(<<f>>, <<ColumnItem(p, "")>>, <<r>>, <<>>, <<>>) :
                   f \in {From("u", "", {}), From("t", "x", {}), From("s", "", {})}, p \in {RefTo("", "b"), RefTo("", "k")}, r \in Refs}
NestedSelects == {[q EXCEPT !.subs = <<i>>] : q \in {p \in PlainSelects : p.where = <<>> /\ p.from[1].name # "v"}, i \in InnerSelects}
DerivedSelects == {SelectOf(<<Derived(i, "d")>>, <<ColumnItem(p, "")>>, <<r>>, <<>>, <<>>) : i \in PlainSelects,
                     p \in BareRefs \cup {RefTo("d", "a")}, r \in {RefTo("d", "a"), RefTo("", "b")}}
                   \cup {SelectOf(<<Derived(i, "d"), From("u", "", {})>>, <<ColumnItem(p, "")>>, <<>>, <<>>, <<>>) : i \in PlainSelects,
                     p \in {RefTo("d", "a"), RefTo("u", "b")}}
CteSelects == {[SelectOf(<<From("t", "", {})>>, <<ColumnItem(p, "")>>, <<r>>, <<>>, <<>>)
                  EXCEPT !.with = <<[name |-> "t", query |-> i]>>] : i \in {q \in PlainSelects : Len(q.from) = 1},
                 p \in BareRefs \cup {RefTo("t", "a")}, r \in BareRefs \cup {RefTo("t", "a")}}
UpdateScopes == {SelectOf(<<From("t", "", {})>> \o f, <<>>, <<r>>, <<i>>, <<>>) :
                  f \in {<<>>, <<From("u", "x", {})>>}, r \in Refs, i \in InnerSelects}
StatementOf(kind, target, columns, q) == [kind |-> kind, target |-> target, columns |-> columns, query |-> q]
RunnableStatements(statements) ==
    {s \in statements : \A read \in {Reads(s.query, EpochSchema([relations |-> RebindRelations]), <<>>)} : Runs(read)}
MCRebindStatements ==
    RunnableStatements({StatementOf(k, "", <<>>, q) : k \in {"query", "ctas"}, q \in FullSelects \cup PlainSelects \cup DerivedSelects}
      \cup {StatementOf("query", "", <<>>, q) : q \in NestedSelects \cup CteSelects}
      \cup {StatementOf("insert", "t", c, q) : c \in {<<"a">>, <<"b", "a">>}, q \in PlainSelects}
      \cup {StatementOf("update", "t", <<c>>, q) : c \in {"a", "b"}, q \in UpdateScopes})

----------------------------------------------------------------------------
(* Reverse statements: a secured t kept in t_rls, spelled in every way, and *)
(* WITH lists of up to two names, nested once                               *)

Ident(stem, n, caps, quoted) == [value |-> [stem |-> stem, suffixes |-> n, caps |-> caps], quoted |-> quoted]
Spellings == {Ident("t", 1, c, q) : c \in BOOLEAN, q \in BOOLEAN}
RefIdents == Spellings \cup {Ident("t", 0, FALSE, FALSE), Ident("u", 1, FALSE, FALSE)}
AliasIdents == Spellings \cup {Ident("t", 0, TRUE, TRUE)}
TableNamed(stem, n, caps, secured) == [name |-> [stem |-> stem, suffixes |-> n, caps |-> caps], secured |-> secured]
MCGuardSchemas == {{TableNamed("t", 0, FALSE, TRUE)}, {TableNamed("t", 0, FALSE, FALSE)},
              {TableNamed("t", 0, TRUE, TRUE), TableNamed("u", 1, FALSE, FALSE)},
              {TableNamed("t", 0, FALSE, TRUE), TableNamed("u", 1, FALSE, TRUE)}}
NamesOnly(r) == [with |-> <<>>, recursive |-> FALSE, refs |-> {r}, subs |-> {}]
Ctes(aliases, bodies) == {[alias |-> a, body |-> b] : a \in aliases, b \in bodies}
PlainBodies == {NamesOnly(r) : r \in RefIdents}
FewBodies == {NamesOnly(r) : r \in {Ident("t", 1, FALSE, FALSE), Ident("t", 1, TRUE, TRUE)}}
Singles == {<<c>> : c \in Ctes(AliasIdents, FewBodies)}
TwoCtes == {w \in {<<c, d>> : c \in Ctes(AliasIdents, FewBodies), d \in Ctes(AliasIdents, FewBodies)} :
              ~SameName(w[1].alias.value, w[2].alias.value)}
OverLists(withs, subs) == [with : withs, recursive : BOOLEAN, refs : {{r} : r \in RefIdents}, subs : subs]
NestedQueries == [with : Singles \cup TwoCtes, recursive : BOOLEAN,
                  refs : {{Ident("t", 1, FALSE, FALSE)}}, subs : {{}}]
MCGuardQueries ==
    PlainBodies
      \cup OverLists({<<c>> : c \in Ctes(AliasIdents, PlainBodies)} \cup TwoCtes, {{}})
      \cup OverLists({<<c>> : c \in Ctes(Spellings, NestedQueries)}, {{}})
      \cup OverLists(Singles, {{q} : q \in NestedQueries})
MCPlaceholderSeqs == UNION {[1..n -> {0, 1, 2, 4}] : n \in 0..3} \cup [1..4 -> {0, 3}]
MCConflictCells == [qualifier : {"none", "target", "excluded"}, nested : BOOLEAN, local : BOOLEAN, default : BOOLEAN]

----------------------------------------------------------------------------
nameVars == <<namespaceVars, reference, naming, binding, rebinding, reversing>>

BesideInit == ReferenceInit /\ NamingInit /\ BindingInit /\ RebindingInit /\ ReversingInit

NamesInit == NamespaceInit /\ BesideInit

NamesNext ==
    \/ /\ BesideInit /\ NamespaceNext
       /\ UNCHANGED <<reference, naming, binding, rebinding, reversing>>
    \/ /\ NamesInit /\ UNCHANGED namespaceVars
       /\ \/ Rewrite /\ UNCHANGED <<naming, binding, rebinding, reversing>>
          \/ ResolveName /\ UNCHANGED <<reference, binding, rebinding, reversing>>
          \/ BindNames /\ UNCHANGED <<reference, naming, rebinding, reversing>>
          \/ RebindColumns /\ UNCHANGED <<reference, naming, binding, reversing>>
          \/ ReverseStatement /\ UNCHANGED <<reference, naming, binding, rebinding>>

NamesSpec == NamesInit /\ [][NamesNext]_nameVars
=============================================================================
