--------------------------- MODULE MCRowSecurity ---------------------------
(* Tables with row security for TLC. *)
EXTENDS RowSecurity

Preds == {Always, Compare("o", "a"), Compare("g", "a")}

Policy(command, restrictive, roles, using, check) ==
    [command |-> command, restrictive |-> restrictive, roles |-> roles,
     using |-> using, check |-> check]

\* Policies for everyone, with the clauses their command may have.
Public ==
    {Policy(c, r, {}, u, Absent) : c \in {"Select", "Delete"}, r \in BOOLEAN, u \in Preds}
    \cup {Policy("Insert", r, {}, Absent, k) : r \in BOOLEAN, k \in Preds}
    \cup {Policy(c, r, {}, u, k) : c \in {"Update", "All"}, r \in BOOLEAN, u \in Preds,
                                   k \in {Absent, Compare("o", "b")}}

Read == Policy("Select", FALSE, {}, Always, Absent)
ReadA == Policy("Select", FALSE, {"PUBLIC"}, Compare("o", "a"), Absent)
Own == Policy("All", FALSE, {"r"}, Compare("o", "a"), Absent)
Other == Policy("All", FALSE, {"s"}, Compare("g", "a"), Absent)
Add == Policy("Insert", FALSE, {}, Absent, Compare("g", "a"))
AddO == Policy("Insert", FALSE, {}, Absent, Compare("o", "a"))
Mend == Policy("Update", FALSE, {}, Always, Compare("g", "a"))
Limit == Policy("Update", TRUE, {}, Compare("o", "a"), Absent)

Table(policies, role, write, deny, validate, exemption, pk, default) ==
    [policies |-> policies, role |-> role, write |-> write, strictDeny |-> deny,
     strictValidation |-> validate, exemption |-> exemption, hasPk |-> pk, default |-> default]

\* Every table of up to two policies beside a policy that reads everything.
PolicyTables ==
    {Table({Read, p, q}, "none", TRUE, FALSE, TRUE, FALSE, TRUE, "none") : p \in Public, q \in Public}
    \cup {Table({p}, "none", TRUE, FALSE, FALSE, FALSE, FALSE, "a") : p \in Public}

\* A few sets of policies under every combination of the options.
OptionTables ==
    {Table(ps, role, w, d, v, x, pk, def) :
        ps \in {{}, {ReadA, Add, Mend}, {Read, Own, Other}, {Read, AddO, Mend, Limit}},
        role \in {"none", "r"}, w \in BOOLEAN, d \in BOOLEAN, v \in BOOLEAN,
        x \in BOOLEAN, pk \in BOOLEAN, def \in {"none", "a"}}

VolatileTables ==
    {Table(ps, "r", TRUE, FALSE, TRUE, FALSE, TRUE, "volatile") : ps \in {{Read, Mend}, {Read, AddO}, {Own}}}

AllTables == PolicyTables \cup OptionTables \cup VolatileTables
=============================================================================
