-------------------------- MODULE ColumnRebinding --------------------------
(***************************************************************************)
(* history/rebind: a replayed statement is resolved against the schema it  *)
(* was written for, and every reference to a file table or column takes    *)
(* the name the same identity has at the end of the batch.                 *)
(*                                                                         *)
(* A history gives the relations of the epoch,                             *)
(*   relations[name] = [kind, id, columns],                                *)
(* kind "table", "view" or "temp" (a connection object, or one whose home  *)
(* the output replays), columns a sequence of [name, id, follows], and the *)
(* final names, finalName[id] and finalColumn[id], Gone for what was       *)
(* dropped.  A select is [with, from, projection, where, subs, order]: the *)
(* CTEs [name, query], the FROM items [name, alias, query, using], the     *)
(* projection, the column references of its clauses, its subqueries and    *)
(* its ORDER BY keys.  query is <<q>> for a derived table, <<>> otherwise. *)
(***************************************************************************)
EXTENDS Naturals, Sequences, FiniteSets, FiniteSetsExt, SequencesExt

CONSTANTS RebindHistories,   \* histories
          RebindStatements   \* statements [kind, target, columns, query]

VARIABLE rebinding

Gone == "(dropped)"
RefTo(q, c) == [qualifier |-> q, column |-> c]
ColumnItem(r, as) == [star |-> FALSE, ref |-> r, as |-> as]
StarItem(q) == [star |-> TRUE, ref |-> RefTo(q, ""), as |-> ""]

----------------------------------------------------------------------------
(* Names as both databases resolve them: a frame lists, for each FROM item, *)
(* its qualifier, its column names and the ones USING merges into the left. *)
(* A reference reads <<depth, item, column>>, or <<>> if nothing or several *)
(* columns answer.                                                          *)

AnswersIn(frame, ref) ==
    UNION {{<<p, c>> : c \in {k \in DOMAIN frame[p].columns :
                                /\ frame[p].columns[k] = ref.column
                                /\ ref.qualifier \in {"", frame[p].qualifier}
                                /\ ref.qualifier = "" => ref.column \notin frame[p].using}}
             : p \in DOMAIN frame}
Resolves(frames, ref) ==
    LET depths == {d \in DOMAIN frames : AnswersIn(frames[d], ref) # {}}
    IN IF depths = {} THEN <<>>
       ELSE LET found == AnswersIn(frames[Max(depths)], ref)
            IN IF Cardinality(found) > 1 THEN <<>>
               ELSE LET f == CHOOSE x \in found : TRUE IN <<Max(depths), f[1], f[2]>>

\* A scope maps the names a FROM clause may list to [id, columns]: the schema's
\* relations, and the CTEs above them under identity 0.
EpochSchema(h) ==
    [n \in DOMAIN h.relations |->
        [id |-> h.relations[n].id, columns |-> [i \in DOMAIN h.relations[n].columns |-> h.relations[n].columns[i].name]]]
FinalColumns(h, r) ==
    [i \in DOMAIN r.columns |->
        IF r.kind = "temp" \/ (r.kind = "view" /\ ~r.columns[i].follows) THEN r.columns[i].name
        ELSE h.finalColumn[r.columns[i].id]]
FinalNameOf(h, n) == IF h.relations[n].kind = "temp" THEN n ELSE h.finalName[h.relations[n].id]
FinalSchema(h) ==
    [f \in {FinalNameOf(h, n) : n \in DOMAIN h.relations} \ {Gone} |->
        LET n == CHOOSE n \in DOMAIN h.relations : FinalNameOf(h, n) = f
        IN [id |-> h.relations[n].id,
            columns |-> FinalColumns(h, h.relations[n])]]

QualifierOf(item) == IF item.alias # "" THEN item.alias ELSE item.name

\* The columns a wildcard stands for, as positions in the frame.
StarPositions(frame, qualifier) ==
    FlattenSeq([i \in DOMAIN frame |->
        SelectSeq([c \in DOMAIN frame[i].columns |-> <<i, c>>],
                  LAMBDA p : /\ qualifier \in {"", frame[i].qualifier}
                             /\ qualifier # "" \/ frame[i].columns[p[2]] \notin frame[i].using)])

\* The names of a select's outputs, the scope of its FROM clause and its frame.
RECURSIVE OutputNames(_, _)
ScopeOf(q, scope) ==
    FoldLeft(LAMBDA v, w : [n \in (DOMAIN v) \cup {w.name} |->
                              IF n = w.name THEN [id |-> 0, columns |-> OutputNames(w.query, v)] ELSE v[n]],
             scope, q.with)
ScopeBefore(q, k, scope) == ScopeOf([q EXCEPT !.with = SubSeq(q.with, 1, k - 1)], scope)
FrameOf(q, scope) ==
    [i \in DOMAIN q.from |->
        [qualifier |-> QualifierOf(q.from[i]), using |-> q.from[i].using,
         columns |-> IF q.from[i].query # <<>> THEN OutputNames(q.from[i].query[1], scope)
                     ELSE scope[q.from[i].name].columns]]
OutputNames(q, scope) ==
    LET frame == FrameOf(q, ScopeOf(q, scope))
        names(p) == IF ~p.star THEN <<IF p.as # "" THEN p.as ELSE p.ref.column>>
                    ELSE LET at == StarPositions(frame, p.ref.qualifier)
                         IN [k \in DOMAIN at |-> frame[at[k][1]].columns[at[k][2]]]
    IN FlattenSeq([k \in DOMAIN q.projection |-> names(q.projection[k])])

\* What a select reads: the identities of its relations and, for every output,
\* clause and key, the column it takes.
RECURSIVE Reads(_, _, _)
Reads(q, scope, frames) ==
    LET inner == ScopeOf(q, scope)
        frame == FrameOf(q, inner)
        all == Append(frames, frame)
        names == OutputNames(q, scope)
        outputs == FlattenSeq([k \in DOMAIN q.projection |->
            IF ~q.projection[k].star THEN <<Resolves(all, q.projection[k].ref)>>
            ELSE LET at == StarPositions(frame, q.projection[k].ref.qualifier)
                 IN [i \in DOMAIN at |-> <<Len(all)>> \o at[i]]])
        keyed(r) == LET hits == {i \in DOMAIN names : r.qualifier = "" /\ names[i] = r.column}
                    IN IF hits # {} THEN outputs[Min(hits)] ELSE Resolves(all, r)
    IN [relations |-> [i \in DOMAIN q.from |-> IF q.from[i].query # <<>> THEN 0 ELSE inner[q.from[i].name].id],
        derived |-> [i \in DOMAIN q.from |->
            IF q.from[i].query = <<>> THEN <<>> ELSE <<Reads(q.from[i].query[1], inner, frames)>>],
        with |-> [k \in DOMAIN q.with |-> Reads(q.with[k].query, ScopeBefore(q, k, scope), frames)],
        joins |-> [i \in DOMAIN frame |->
            {<<c, {p \in 1..(i - 1) : frame[i].columns[c] \in Range(frame[p].columns)}>> :
               c \in {k \in DOMAIN frame[i].columns : frame[i].columns[k] \in frame[i].using}}],
        outputs |-> outputs,
        where |-> [k \in DOMAIN q.where |-> Resolves(all, q.where[k])],
        order |-> [k \in DOMAIN q.order |-> keyed(q.order[k])],
        subs |-> [k \in DOMAIN q.subs |-> Reads(q.subs[k], inner, all)]]

RECURSIVE Runs(_)
Runs(r) ==
    /\ <<>> \notin Range(r.outputs) \cup Range(r.where) \cup Range(r.order)
    /\ \A i \in DOMAIN r.derived : r.derived[i] # <<>> => Runs(r.derived[i][1])
    /\ \A k \in DOMAIN r.with : Runs(r.with[k])
    /\ \A k \in DOMAIN r.subs : Runs(r.subs[k])

----------------------------------------------------------------------------
(* scope.rs: the relations a select lists                                  *)

Lexical(scope, item) == item.query # <<>> \/ scope[item.name].id = 0
ListItem(h, scope, item) ==
    IF Lexical(scope, item)
    THEN [qualifier |-> QualifierOf(item), aliased |-> item.alias # "", lexical |-> TRUE, view |-> FALSE,
          temporary |-> FALSE, replayName |-> QualifierOf(item), known |-> FALSE, columns |-> <<>>, using |-> item.using]
    ELSE LET r == h.relations[item.name]
         IN [qualifier |-> QualifierOf(item), aliased |-> item.alias # "", lexical |-> FALSE, view |-> r.kind = "view",
             temporary |-> r.kind = "temp", replayName |-> IF item.alias # "" THEN item.alias ELSE FinalNameOf(h, item.name),
             known |-> r.kind # "view",
             columns |-> [i \in DOMAIN r.columns |->
                [written |-> r.columns[i].name, current |-> FinalColumns(h, r)[i], follows |-> r.columns[i].follows]],
             using |-> item.using]
ListFrom(h, scope, q) == [i \in DOMAIN q.from |-> ListItem(h, scope, q.from[i])]

\* A listed relation or any column of a listed table that is gone refuses the
\* statement.
ItemRefused(h, scope, item) ==
    /\ ~Lexical(scope, item)
    /\ LET r == h.relations[item.name]
       IN /\ r.kind # "temp"
          /\ \/ h.finalName[r.id] = Gone
             \/ r.kind = "table" /\ Gone \in Range(FinalColumns(h, r))

\* The innermost relation a qualifier names, the last one listed first.
ListedAs(lists, qualifier) ==
    LET depth == Max({d \in DOMAIN lists : \E i \in DOMAIN lists[d] : lists[d][i].qualifier = qualifier})
    IN lists[depth][Max({i \in DOMAIN lists[depth] : lists[depth][i].qualifier = qualifier})]

----------------------------------------------------------------------------
(* query.rs: column references.  at = [h, scope, frames, lists, qualify];  *)
(* qualify is FALSE to see the renames alone.                              *)

\* The name at the end of the column a reference read.
CurrentName(at, read, ref) ==
    LET bound == at.lists[read[1]][read[2]] IN IF bound.lexical THEN ref.column ELSE bound.columns[read[3]].current

\* Fault: a bare reference to a stored column stays bare.
RebindColumnBare(at, ref) ==
    LET read == Resolves(at.frames, ref)
    IN IF read = <<>> THEN ref
       ELSE LET entry == ListedAs(at.lists, at.frames[read[1]][read[2]].qualifier)
            IN IF entry.lexical \/ entry.temporary THEN ref
               ELSE [ref EXCEPT !.column = CurrentName(at, read, ref),
                                !.qualifier = IF @ # "" /\ ~entry.aliased THEN entry.replayName ELSE @]

RebindColumn(at, ref) ==
    LET read == Resolves(at.frames, ref)
    IN IF read = <<>> THEN ref
       ELSE LET entry == ListedAs(at.lists, at.frames[read[1]][read[2]].qualifier)
                follows == ~entry.view \/ \E i \in DOMAIN entry.columns :
                              entry.columns[i].written = ref.column /\ entry.columns[i].follows
                renamed == IF ref.qualifier # "" /\ ~entry.aliased
                           THEN [ref EXCEPT !.qualifier = entry.replayName] ELSE ref
            IN IF entry.lexical THEN ref
               ELSE IF entry.temporary \/ ~follows THEN renamed
               ELSE [renamed EXCEPT !.column = CurrentName(at, read, ref),
                        !.qualifier = IF at.qualify /\ @ = "" /\ ~entry.view THEN entry.replayName ELSE @]

RefRenamed(at, ref) == RebindColumn(at, ref).column # ref.column

\* A wildcard whose columns would be named differently is spelled out; the
\* items replace the projection.
Expands(list, q, header) ==
    /\ header = "keep"
    /\ \E k \in DOMAIN q.projection : q.projection[k].star /\ q.projection[k].ref.qualifier = ""
    /\ \A i \in DOMAIN list : list[i].known
    /\ \E i \in DOMAIN list : \E c \in DOMAIN list[i].columns :
          list[i].columns[c].written \notin list[i].using /\ list[i].columns[c].written # list[i].columns[c].current
Expand(list) ==
    FlattenSeq([i \in DOMAIN list |->
        LET kept == SelectSeq(list[i].columns, LAMBDA c : c.written \notin list[i].using)
        IN [k \in DOMAIN kept |-> ColumnItem(RefTo(list[i].replayName, kept[k].current), kept[k].written)]])

Projection(at, q, header) ==
    LET list == at.lists[Len(at.lists)]
        item(p) ==
          IF p.star
          THEN LET named == {d \in DOMAIN at.lists : \E i \in DOMAIN at.lists[d] : at.lists[d][i].qualifier = p.ref.qualifier}
               IN IF p.ref.qualifier = "" \/ named = {} THEN p
                  ELSE LET e == ListedAs(at.lists, p.ref.qualifier)
                       IN IF e.aliased THEN p ELSE [p EXCEPT !.ref.qualifier = e.replayName]
          ELSE [p EXCEPT !.ref = RebindColumn(at, p.ref),
                         !.as = IF @ = "" /\ header = "keep" /\ RefRenamed(at, p.ref) THEN p.ref.column ELSE @]
    IN IF Expands(list, q, header) THEN Expand(list) ELSE [k \in DOMAIN q.projection |-> item(q.projection[k])]

\* A key that names an output follows it when the header does.
OrderKey(at, q, header, key) ==
    LET outputs == {k \in DOMAIN q.projection :
                      ~q.projection[k].star /\ q.projection[k].as = "" /\ q.projection[k].ref.column = key.column}
        moved == {k \in outputs : RefRenamed(at, q.projection[k].ref)}
    IN IF key.qualifier = "" /\ header = "follow" /\ moved # {}
       THEN [key EXCEPT !.column = RebindColumn(at, q.projection[Min(moved)].ref).column]
       ELSE IF key.qualifier = "" /\ \E k \in DOMAIN q.projection : q.projection[k].as = key.column THEN key
       ELSE RebindColumn(at, key)

RECURSIVE RebindSelect(_, _, _)
RebindSelect(at, q, header) ==
    LET scope == ScopeOf(q, at.scope)
        under == [at EXCEPT !.scope = scope]
        inner == [under EXCEPT !.frames = Append(@, FrameOf(q, scope)), !.lists = Append(@, ListFrom(at.h, scope, q))]
        from(f) == IF f.query # <<>> THEN [f EXCEPT !.query = <<RebindSelect(under, f.query[1], "keep")>>]
                   ELSE IF Lexical(scope, f) THEN f ELSE [f EXCEPT !.name = FinalNameOf(at.h, f.name)]
    IN [with |-> [k \in DOMAIN q.with |->
            [q.with[k] EXCEPT !.query = RebindSelect([at EXCEPT !.scope = ScopeBefore(q, k, at.scope)], @, "keep")]],
        from |-> [i \in DOMAIN q.from |-> from(q.from[i])],
        projection |-> Projection(inner, q, header),
        where |-> [k \in DOMAIN q.where |-> RebindColumn(inner, q.where[k])],
        order |-> [k \in DOMAIN q.order |-> OrderKey(inner, q, header, q.order[k])],
        subs |-> [k \in DOMAIN q.subs |-> RebindSelect(inner, q.subs[k], "follow")]]

RECURSIVE SelectRefused(_, _, _)
SelectRefused(h, q, scope) ==
    LET inner == ScopeOf(q, scope)
    IN \/ \E i \in DOMAIN q.from : ItemRefused(h, inner, q.from[i])
       \/ \E i \in DOMAIN q.from : q.from[i].query # <<>> /\ SelectRefused(h, q.from[i].query[1], inner)
       \/ \E k \in DOMAIN q.with : SelectRefused(h, q.with[k].query, ScopeBefore(q, k, scope))
       \/ \E k \in DOMAIN q.subs : SelectRefused(h, q.subs[k], inner)

----------------------------------------------------------------------------
(* dml.rs and the statement                                                *)

\* The columns a statement names on its target table.
TargetColumn(h, target, name) ==
    LET r == h.relations[target]
        hits == {i \in DOMAIN r.columns : r.columns[i].name = name}
    IN IF hits = {} THEN name ELSE FinalColumns(h, r)[CHOOSE i \in hits : TRUE]
TargetColumns(h, s) ==
    IF s.target = "" THEN <<>> ELSE [k \in DOMAIN s.columns |-> TargetColumn(h, s.target, s.columns[k])]

RebindRefused(h, s) ==
    \/ SelectRefused(h, s.query, EpochSchema(h))
    \/ s.target # "" /\ (FinalNameOf(h, s.target) = Gone \/ Gone \in Range(TargetColumns(h, s)))

HeaderOf(s) == IF s.kind = "ctas" THEN "keep" ELSE "follow"
\* The statement with the renames alone, and with the qualifiers too.
PlanEdits(h, s) ==
    [qualify \in BOOLEAN |->
        LET at == [h |-> h, scope |-> EpochSchema(h), frames |-> <<>>, lists |-> <<>>, qualify |-> qualify]
        IN [s EXCEPT !.target = IF @ = "" THEN @ ELSE FinalNameOf(h, @), !.columns = TargetColumns(h, s),
                     !.query = RebindSelect(at, @, HeaderOf(s))]]

\* The statement is left as written when no name changes.
RebindStatement(s, edits) == IF edits[FALSE] = s THEN s ELSE edits[TRUE]

ReadStatement(s, schema) ==
    [target |-> IF s.target = "" THEN 0 ELSE schema[s.target].id,
     columns |-> [k \in DOMAIN s.columns |->
        {i \in DOMAIN schema[s.target].columns : schema[s.target].columns[i] = s.columns[k]}],
     header |-> IF HeaderOf(s) = "keep" THEN OutputNames(s.query, schema) ELSE <<>>,
     query |-> Reads(s.query, schema, <<>>)]

----------------------------------------------------------------------------
NoRebinding == [kind |-> "none"]
RebindingInit == rebinding = NoRebinding

\* A statement of the epoch, what it read there, and the statement replayed.
RebindColumns ==
    \E s \in RebindStatements, h \in RebindHistories :
        /\ ~RebindRefused(h, s)
        /\ \E edits \in {PlanEdits(h, s)} :
              rebinding' = [kind |-> "rebind", history |-> h, statement |-> s,
                            read |-> ReadStatement(s, EpochSchema(h)), rebound |-> RebindStatement(s, edits)]

----------------------------------------------------------------------------
\* A rebound statement reads and writes, under the final names, the relations
\* and columns its source named by identity, however tables and columns
\* exchanged their names since, in every clause, subquery, CTE and derived
\* table; a table created from a query keeps its column names.
IdentitiesAreKept ==
    /\ rebinding.kind = "rebind"
    /\ Runs(rebinding.read.query)
    /\ rebinding.rebound # rebinding.statement
    => ReadStatement(rebinding.rebound, FinalSchema(rebinding.history)) = rebinding.read
=============================================================================
