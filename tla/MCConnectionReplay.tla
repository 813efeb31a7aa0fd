-------------------------- MODULE MCConnectionReplay --------------------------
(***************************************************************************)
(* TLC instances of ConnectionReplay.  f is a table of the file; a and b   *)
(* are TEMP tables, v and w TEMP views, tr, ts and tu triggers, ia an      *)
(* index.                                                                  *)
(***************************************************************************)
EXTENDS ConnectionReplay

Temp(n)          == [op |-> "CreateTable", name |-> n, temp |-> TRUE, guarded |-> FALSE, reads |-> {}]
TempAs(n, S)     == [Temp(n) EXCEPT !.reads = S]
TempIfAbsent(n)  == [Temp(n) EXCEPT !.guarded = TRUE]
Permanent(n)     == [Temp(n) EXCEPT !.temp = FALSE]
View(n, S)       == [op |-> "CreateView", name |-> n, temp |-> TRUE, bases |-> S]
IndexOn(n, t)    == [op |-> "CreateIndex", name |-> n, on |-> t]
DropRel(n)       == [op |-> "Drop", name |-> n, guarded |-> FALSE]
DropIfThere(n)   == [op |-> "Drop", name |-> n, guarded |-> TRUE]
DropIdx(n)       == [op |-> "DropIndex", name |-> n, guarded |-> FALSE]
DropTrg(n)       == [op |-> "DropTrigger", name |-> n, guarded |-> FALSE]
RenameTo(n, m)   == [op |-> "Rename", name |-> n, to |-> m]
Insert(t, S)     == [op |-> "Write", target |-> t, events |-> {"insert"}, actual |-> "insert", reads |-> S]
Upsert(t, S)     == [op |-> "Write", target |-> t, events |-> {"insert", "update"},
                     actual |-> "update", reads |-> S]
TriggerOn(n, t, ev, body) ==
    [op |-> "CreateTrigger", name |-> n, on |-> t, events |-> {ev}, body |-> body]

One(S) == {<<s>> : s \in S}

\* Tables, rows and indexes.
TableUnits ==
    One({Temp("a"), Temp("b"), TempAs("b", {"a"}), TempAs("a", {"f"}), TempIfAbsent("a"),
         Insert("a", {}), Insert("a", {"b"}), Insert("b", {"a", "f"}), Insert("f", {"a"}),
         IndexOn("ia", "a"), DropIdx("ia"), DropRel("a"), DropRel("b")})

\* Views over TEMP and stored tables, replaced views, tables made from them.
ViewUnits ==
    One({Temp("a"), View("v", {"a"}), View("v", {"f"}), View("w", {"v"}), Insert("a", {}),
         TempAs("b", {"v"}), TempAs("b", {"w"}), Insert("b", {"w"}),
         TriggerOn("tr", "v", "insert", Insert("a", {"w"})), Insert("v", {}),
         DropRel("v"), DropRel("w"), DropRel("a")})
    \cup {<<DropIfThere("v"), View("v", {"f"})>>}

\* Triggers between TEMP tables, from and to the file.
TriggerUnits ==
    One({Temp("a"), Temp("b"), Insert("a", {}), Upsert("a", {}), Insert("b", {}), Insert("f", {}),
         TriggerOn("tr", "a", "insert", Insert("b", {"a"})),
         TriggerOn("ts", "b", "insert", Insert("a", {"f"})),
         TriggerOn("ts", "a", "update", Insert("f", {})),
         TriggerOn("tr", "f", "insert", Insert("a", {})),
         DropTrg("tr"), DropTrg("ts"), DropRel("a"), DropRel("b")})

\* Source transactions.
BlockUnits ==
    One({Temp("a"), Insert("a", {}), TempAs("b", {"a"}), Insert("f", {}), DropRel("a")})

\* Renames and drops of a stored table, and one rename of a TEMP table.
RenameUnits ==
    One({Temp("a"), RenameTo("a", "c"), Insert("a", {"f"}), Insert("c", {"g"}),
         RenameTo("f", "g"), DropRel("f"), DropRel("g"), TempAs("b", {"f"}),
         View("v", {"f"}), View("v", {"a"}), Insert("b", {"v"}),
         TriggerOn("tr", "a", "insert", Insert("b", {"f"})), Insert("g", {})})

Alphabet(units, bound) == [units |-> units, blocks |-> FALSE, bound |-> bound]

\* What the run explores.
Replayed ==
    {Alphabet(TableUnits, 5), Alphabet(ViewUnits, 6), Alphabet(TriggerUnits, 6),
     Alphabet(RenameUnits, 6), [Alphabet(BlockUnits, 5) EXCEPT !.blocks = TRUE]}
=============================================================================
