------------------------------ MODULE CteNames ------------------------------
(***************************************************************************)
(* The names of common table expressions.  PostgreSQL shows the body of a  *)
(* CTE the names before it and folds a name that is not delimited; SQLite  *)
(* shows every body of the list every name of it and compares without      *)
(* case.  preserve_bindings renames the CTEs SQLite would capture a        *)
(* reference with, once per WITH list as the translation descends, and     *)
(* pin_output_names completes a CTE's column list so that a later rename   *)
(* of a stored column leaves its output names alone.                       *)
(*                                                                         *)
(* A query is [with, recursive, refs, subs], with as a sequence of         *)
(* [alias, body] and refs of [ident, qualified, target, alias].            *)
(***************************************************************************)
EXTENDS Naturals, Sequences, FiniteSets, FiniteSetsExt, SequencesExt

CONSTANTS WithQueries,   \* queries with WITH lists
          PinnedLists,   \* CTEs as [declared, outputs]
          StoredNames    \* renames of stored columns, as functions on names

VARIABLE binding

NoIdent == [name |-> "", caps |-> FALSE, quoted |-> FALSE]
GeneratedIdent(n) == [name |-> n, caps |-> FALSE, quoted |-> FALSE]
Generated == <<"__pg2sqlite_cte_0", "__pg2sqlite_cte_1", "__pg2sqlite_cte_2",
               "__pg2sqlite_cte_3", "__pg2sqlite_cte_4">>

SameText(a, b) == a.name = b.name
FoldsAlike(a, b) == a.name = b.name /\ (a.caps /\ a.quoted <=> b.caps /\ b.quoted)

----------------------------------------------------------------------------
(* RelationScopes: scopes [aliases, visible], the root's first.            *)

AliasesOf(q) == [i \in DOMAIN q.with |-> q.with[i].alias]
Enter(q, scopes) == Append(scopes, [aliases |-> AliasesOf(q), visible |-> Len(q.with)])
EnterBody(q, scopes, i) ==
    Append(scopes, [aliases |-> AliasesOf(q), visible |-> IF q.recursive THEN Len(q.with) ELSE i - 1])

InnermostOf(found) ==
    IF found = {} THEN <<>>
    ELSE LET d == Max({p[1] : p \in found}) IN <<d, Min({p[2] : p \in {r \in found : r[1] = d}})>>
Binding(scopes, ident) ==
    InnermostOf(UNION {{<<d, i>> : i \in {k \in 1..scopes[d].visible : FoldsAlike(scopes[d].aliases[k], ident)}}
                         : d \in DOMAIN scopes})

----------------------------------------------------------------------------
(* preserve_bindings                                                       *)

\* The CTEs of the root's list that SQLite would take a reference for though
\* PostgreSQL does not.
CapturedBy(root, scopes, ref) ==
    LET source == IF ref.qualified THEN <<>> ELSE Binding(scopes, ref.ident)
    IN IF ref.target \/ (source # <<>> /\ source[1] > 1) THEN {}
       ELSE {i \in DOMAIN root.with : SameText(root.with[i].alias, ref.ident) /\ source # <<1, i>>}

RECURSIVE Captured(_, _, _)
Captured(root, q, scopes) ==
    UNION {CapturedBy(root, Enter(q, scopes), q.refs[k]) : k \in DOMAIN q.refs}
      \cup UNION {Captured(root, q.with[i].body, EnterBody(q, scopes, i)) : i \in DOMAIN q.with}
      \cup UNION {Captured(root, q.subs[k], Enter(q, scopes)) : k \in DOMAIN q.subs}

RECURSIVE NamesIn(_)
NamesIn(q) ==
    {q.with[i].alias.name : i \in DOMAIN q.with} \cup {q.refs[k].ident.name : k \in DOMAIN q.refs}
      \cup UNION {NamesIn(q.with[i].body) : i \in DOMAIN q.with}
      \cup UNION {NamesIn(q.subs[k]) : k \in DOMAIN q.subs}

\* Fault: the generated names are not compared with the names in use.
ReplacementsUnchecked(root, captured) ==
    [i \in captured |-> GeneratedIdent(Generated[Cardinality({j \in captured : j <= i})])]

Replacements(root, captured) ==
    LET free == SelectSeq(Generated, LAMBDA g : g \notin NamesIn(root))
    IN [i \in captured |-> GeneratedIdent(free[Cardinality({j \in captured : j <= i})])]

\* A renamed reference keeps the name it was written with as its alias.
RenameRef(ref, scopes, replacements) ==
    LET source == Binding(scopes, ref.ident)
    IN IF \/ ref.qualified \/ ref.target \/ source = <<>>
          \/ source # <<>> /\ (source[1] # 1 \/ source[2] \notin DOMAIN replacements)
       THEN ref
       ELSE [ref EXCEPT !.ident = replacements[source[2]], !.alias = IF @ = NoIdent THEN ref.ident ELSE @]

RECURSIVE RenameIn(_, _, _)
RenameIn(q, scopes, replacements) ==
    [q EXCEPT
       !.refs = [k \in DOMAIN q.refs |-> RenameRef(q.refs[k], Enter(q, scopes), replacements)],
       !.with = [i \in DOMAIN q.with |->
                   [alias |-> IF scopes = <<>> /\ i \in DOMAIN replacements THEN replacements[i] ELSE q.with[i].alias,
                    body |-> RenameIn(q.with[i].body, EnterBody(q, scopes, i), replacements)]],
       !.subs = [k \in DOMAIN q.subs |-> RenameIn(q.subs[k], Enter(q, scopes), replacements)]]

PreserveBindings(q) ==
    LET captured == Captured(q, q, <<>>)
    IN IF captured = {} THEN q ELSE RenameIn(q, <<>>, Replacements(q, captured))

\* The translation of a query preserves its bindings, then translates the
\* queries inside it; a schema prefix goes away with the relation's name.
RECURSIVE TranslateWith(_)
TranslateWith(q) ==
    LET p == PreserveBindings(q)
    IN [p EXCEPT !.with = [i \in DOMAIN p.with |-> [p.with[i] EXCEPT !.body = TranslateWith(p.with[i].body)]],
                 !.subs = [k \in DOMAIN p.subs |-> TranslateWith(p.subs[k])],
                 !.refs = [k \in DOMAIN p.refs |-> [p.refs[k] EXCEPT !.qualified = FALSE]]]

----------------------------------------------------------------------------
(* What each database reads, <<depth, position>> of a CTE or <<>> for a    *)
(* stored relation, reference by reference in the order of the text.       *)

RECURSIVE ServerBindings(_, _)
ServerBindings(q, scopes) ==
    [k \in DOMAIN q.refs |->
        IF q.refs[k].qualified \/ q.refs[k].target THEN <<>> ELSE Binding(Enter(q, scopes), q.refs[k].ident)]
      \o FlattenSeq([i \in DOMAIN q.with |-> ServerBindings(q.with[i].body, EnterBody(q, scopes, i))])
      \o FlattenSeq([k \in DOMAIN q.subs |-> ServerBindings(q.subs[k], Enter(q, scopes))])

RECURSIVE SqliteBindings(_, _)
SqliteBindings(q, scopes) ==
    LET all == Append(scopes, AliasesOf(q))
        read(ref) == IF ref.target THEN <<>>
                     ELSE InnermostOf({p \in (DOMAIN all) \X (1..3) :
                                         p[2] \in DOMAIN all[p[1]] /\ SameText(all[p[1]][p[2]], ref.ident)})
    IN [k \in DOMAIN q.refs |-> read(q.refs[k])]
         \o FlattenSeq([i \in DOMAIN q.with |-> SqliteBindings(q.with[i].body, all)])
         \o FlattenSeq([k \in DOMAIN q.subs |-> SqliteBindings(q.subs[k], all)])

\* The names columns are qualified by, and the WITH lists SQLite refuses.
RECURSIVE Qualifiers(_)
Qualifiers(q) ==
    [k \in DOMAIN q.refs |-> IF q.refs[k].alias = NoIdent THEN q.refs[k].ident.name ELSE q.refs[k].alias.name]
      \o FlattenSeq([i \in DOMAIN q.with |-> Qualifiers(q.with[i].body)])
      \o FlattenSeq([k \in DOMAIN q.subs |-> Qualifiers(q.subs[k])])
RECURSIVE Distinct(_)
Distinct(q) ==
    /\ \A i, j \in DOMAIN q.with : i # j => ~SameText(q.with[i].alias, q.with[j].alias)
    /\ \A i \in DOMAIN q.with : Distinct(q.with[i].body)
    /\ \A k \in DOMAIN q.subs : Distinct(q.subs[k])

----------------------------------------------------------------------------
(* pin_output_names: "" is an output with no name of its own.              *)

PinOutputNames(cte) ==
    LET rest == SubSeq(cte.outputs, Len(cte.declared) + 1, Len(cte.outputs))
        names == cte.declared \o rest
    IN IF "" \notin Range(rest) /\ IsInjective(names) THEN [cte EXCEPT !.declared = names] ELSE cte

\* What SQLite exposes after the stored columns took new names.
ExposedAfter(cte, rename) ==
    IF cte.declared # <<>> THEN cte.declared ELSE [i \in DOMAIN cte.outputs |-> rename[cte.outputs[i]]]

----------------------------------------------------------------------------
NoBinding == [kind |-> "none"]
BindingInit == binding = NoBinding

TranslateWithLists == \E q \in WithQueries : binding' = [kind |-> "with", query |-> q]
PinLists == \E c \in PinnedLists, r \in StoredNames : binding' = [kind |-> "pin", cte |-> c, rename |-> r]
BindNames == TranslateWithLists \/ PinLists

----------------------------------------------------------------------------
\* Every reference of the emitted query reads in SQLite what the written one
\* reads in PostgreSQL, the same CTE of the same list or the stored relation,
\* and answers to the qualifier it answered to; no list names two CTEs alike.
\* A CTE with distinct named outputs keeps their names when stored columns are
\* renamed under it.
CteNamesAgree ==
    CASE binding.kind = "with" ->
            LET emitted == TranslateWith(binding.query)
            IN /\ SqliteBindings(emitted, <<>>) = ServerBindings(binding.query, <<>>)
               /\ Qualifiers(emitted) = Qualifiers(binding.query)
               /\ Distinct(emitted)
      [] binding.kind = "pin" ->
            LET cte == PinOutputNames(binding.cte)
                names == binding.cte.declared
                           \o SubSeq(binding.cte.outputs, Len(binding.cte.declared) + 1, Len(binding.cte.outputs))
            IN "" \notin Range(names) /\ IsInjective(names) => ExposedAfter(cte, binding.rename) = names
      [] OTHER -> TRUE
=============================================================================
