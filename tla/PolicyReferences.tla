-------------------------- MODULE PolicyReferences --------------------------
(***************************************************************************)
(* Where the column references of a policy point to once the policy is the *)
(* predicate of a view or of a trigger.                                    *)
(*                                                                         *)
(* A policy names columns of its own table, bare or qualified, at its top  *)
(* level or inside a subquery, which may give its tables aliases and may   *)
(* read the policy's table again.  The view selects from the renamed       *)
(* backing table and a trigger has no table at all but NEW and OLD, so     *)
(* rls.rs rewrites every reference: transform_expr at the top level, and   *)
(* transform_query with transform_subquery_expression inside a subquery.   *)
(***************************************************************************)
EXTENDS Naturals

CONSTANTS
    Columns,      \* the columns of every table: a function to sets of names
    Host,         \* the table the policy is on
    Backing,      \* the backing table's name
    Aliases,      \* names a subquery may give its tables
    References    \* [from: the subquery's tables by name, depth: 0..1, qualifier, column]

VARIABLE reference \* the reference being rewritten, with its surroundings

Bare == "bare"
Nothing == [n \in {} |-> n]
NoReference == [from |-> Nothing, depth |-> 0, qualifier |-> Bare, column |-> "none"]

\* NEW or OLD inside a trigger, none in the view.
PrefixNames == {"NEW", "OLD", "none"}

\* The names a subquery may know its tables by: their own, or an alias.
Exposed == (DOMAIN Columns \cup Aliases) \ {Backing}

\* The backing table has the columns of the policy's table, and no policy uses
\* the names the translator makes: the backing table's, NEW and OLD.
ASSUME ReferencesAssumption ==
    LET tables == DOMAIN Columns IN
    /\ Host \in tables /\ Backing \in tables /\ Host # Backing
    /\ Columns[Backing] = Columns[Host]
    /\ (tables \cup Aliases) \cap ({Bare} \cup PrefixNames) = {}
    /\ \A ref \in References :
         /\ DOMAIN ref = {"from", "depth", "qualifier", "column"}
         /\ DOMAIN ref.from \subseteq Exposed
         /\ \A n \in DOMAIN ref.from : ref.from[n] \in tables \ {Backing}
         /\ ref.depth \in 0..1
         /\ ref.qualifier \in {Bare} \cup Exposed

----------------------------------------------------------------------------
(* Names resolve from the innermost scope outwards (external)              *)

\* The names of a scope a reference can mean.
Candidates(ref, scope) ==
    {n \in DOMAIN scope :
        IF ref.qualifier = Bare THEN ref.column \in Columns[scope[n]] ELSE ref.qualifier = n}

\* The level and the names a reference can mean: those of the subquery, or else
\* those of the statement around it.
Resolved(ref, outer) ==
    IF ref.depth = 1 /\ Candidates(ref, ref.from) # {}
    THEN {<<1, n>> : n \in Candidates(ref, ref.from)}
    ELSE {<<0, n>> : n \in Candidates(ref, outer)}

\* The scope of a statement over one table.
Only(t) == [n \in {t} |-> t]

\* On the server the outer scope is the policy's table.
ServerMeans(ref) == Resolved(ref, Only(Host))

\* In the view it is the backing table; in a trigger NEW and OLD are reached
\* by name only.  The row of the policy's table is level 0 in each.
ReplicaMeans(ref, prefix) ==
    CASE ref.qualifier \in {"NEW", "OLD"} -> {<<0, ref.qualifier>>}
      [] prefix = "none" -> Resolved(ref, Only(Backing))
      [] OTHER -> Resolved(ref, Nothing)

----------------------------------------------------------------------------
(* The rewriting                                                           *)

\* transform_expr_generic: a bare column of the table gets the prefix unless
\* the inner scope declares it; the table's name becomes the prefix or the
\* new name.
TransformExpr(ref, prefix, rename, inner) ==
    CASE /\ ref.qualifier = Bare /\ prefix # "none"
         /\ ref.column \in Columns[Host] /\ ref.column \notin inner ->
             [ref EXCEPT !.qualifier = prefix]
      [] rename # "none" /\ ref.qualifier = Host ->
             [ref EXCEPT !.qualifier = IF prefix = "none" THEN rename ELSE prefix]
      [] OTHER -> ref

\* transform_outer_table_refs: the table's name inside a subquery.
TransformOuterTableRefs(ref, prefix) ==
    IF ref.qualifier = Host
    THEN [ref EXCEPT !.qualifier = IF prefix = "none" THEN Backing ELSE prefix]
    ELSE ref

\* The columns of the subquery's tables, found by their own names whatever their
\* aliases (transform_table_factor_for_subquery).
SubqueryColumns(ref) == UNION {Columns[ref.from[n]] : n \in DOMAIN ref.from}

\* Fault: the subquery's own columns are not taken into account.
TransformSubqueryBlind(ref, prefix) ==
    TransformExpr(TransformOuterTableRefs(ref, prefix), prefix, "none", {})

\* transform_subquery_expression: the outer names, then the prefix for what
\* the subquery's own tables do not declare.
TransformSubqueryExpression(ref, prefix) ==
    TransformExpr(TransformOuterTableRefs(ref, prefix), prefix, "none", SubqueryColumns(ref))

Transform(ref, prefix) ==
    IF ref.depth = 0 THEN TransformExpr(ref, prefix, Backing, {})
    ELSE TransformSubqueryExpression(ref, prefix)

\* reject_self_referential_read_policy: a policy that reads its own table is
\* refused for the view and kept for the triggers.
RejectSelfReferentialReadPolicy(ref) == \E n \in DOMAIN ref.from : ref.from[n] = Host
TranslatedPrefixes(ref) == IF RejectSelfReferentialReadPolicy(ref) THEN {"NEW", "OLD"} ELSE PrefixNames

ReferenceInit == reference = NoReference

\* The server accepts a reference that means one thing.
Rewrite == \E ref \in References : /\ \E m \in ServerMeans(ref) : ServerMeans(ref) = {m}
                                   /\ reference' = ref

\* The policy's table read again under its own name, or an alias spelled like
\* it: transform_outer_table_refs takes the qualifier for the outer row's.
CapturedByHost(ref) == ref.depth = 1 /\ ref.qualifier = Host /\ Host \in DOMAIN ref.from

\* A reference means the same row after the rewriting, in the view and in both
\* kinds of trigger: the table's own row stays that row (backing table, NEW or
\* OLD), and a row of the subquery stays a row of the subquery's same table,
\* aliased or not, the policy's own table included.  A captured reference alone
\* changes its row: it becomes the policy's own.
ReferencesKeepTheirRow ==
    reference # NoReference =>
        \A prefix \in TranslatedPrefixes(reference) :
            LET before == CHOOSE m \in ServerMeans(reference) : TRUE
                own == <<0, IF prefix = "none" THEN Backing ELSE prefix>>
            IN  ReplicaMeans(Transform(reference, prefix), prefix)
                  = {IF before[1] = 0 \/ CapturedByHost(reference) THEN own ELSE before}
=============================================================================
