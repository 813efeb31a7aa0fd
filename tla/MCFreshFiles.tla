----------------------------- MODULE MCFreshFiles -----------------------------
(***************************************************************************)
(* TLC instances of FreshFiles.  a and s may be listed for the attached     *)
(* file, s has row-level security; m, n and o are tables of the main file; *)
(* t is a temporary table; v and w are views.                              *)
(***************************************************************************)
EXTENDS FreshFiles

BackingOf(n) == n \o "_rls"
WordsOf(n)   == n \o "_fts"
GuardOf(n)   == n \o "_guard"

Table(n)         == Stmt("CreateTable", n)
TempTable(n)     == [Table(n) EXCEPT !.temp = TRUE]
View(n, S)       == [Stmt("CreateView", n) EXCEPT !.bases = S]
FullText(n)      == Stmt("CreateIndex", n)
Trigger(n, x, y) == [Stmt("CreateTrigger", n) EXCEPT !.on = x, !.target = y]
Insert(n, S)     == [Stmt("Insert", n) EXCEPT !.reads = S]
Rename(n, k)     == [Stmt("Rename", n) EXCEPT !.to = k]
DropRel(n)       == Stmt("Drop", n)
DropTrg(n)       == Stmt("DropTrigger", n)

\* Views over both files, tables dropped and created again.
ViewScripts ==
    {Table("m"), Table("a"), View("v", {"m"}), View("v", {"a", "m"}), View("w", {"v"}),
     Insert("m", {"a"}), Insert("a", {"w"}), DropRel("w"), DropRel("v"), DropRel("m"),
     Rename("m", "n"), Insert("n", {})}

\* A secured table and a full-text index in the attached file.
GeneratedScripts ==
    {Table("s"), Table("a"), Table("m"), FullText("a"), FullText("m"), Insert("s", {"m"}),
     Insert("a", {"s"}), Insert("m", {"s"}), View("v", {"s"}), Rename("m", "n"), DropRel("m")}

\* Triggers inside each file and on temporary tables.
TriggerScripts ==
    {Table("m"), Table("o"), Table("a"), TempTable("t"), Trigger("tr", "m", "o"),
     Trigger("tr", "m", "t"), Trigger("ts", "a", "t"),
     Insert("m", {}), Insert("a", {"m"}), Insert("t", {"a", "o"}), DropTrg("tr"),
     DropRel("t"), DropRel("m"), Rename("o", "n")}

Alphabet(S, listed) == [statements |-> S, listed |-> listed]

Scripts ==
    {Alphabet(ViewScripts, {"a"}), Alphabet(GeneratedScripts, {"a"}),
     Alphabet(GeneratedScripts, {"s"}), Alphabet(GeneratedScripts, {"a", "s"}),
     Alphabet(TriggerScripts, {"a"})}
=============================================================================
