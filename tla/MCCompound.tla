----------------------------- MODULE MCCompound -----------------------------
(* Set operations nested on the right, by parentheses or by precedence.      *)
EXTENDS QueryShapes

None == {}
One == Leaf(<<1>>)
Two == Leaf(<<2>>)
MCNested ==
    {SetOp(o, One, t) : o \in {"union", "except"},
        t \in {SetOp("intersect", One, Two), Parens(SetOp("union", Two, One), Void)}}

CompoundNext == query = NoQuery /\ TranslateQuery
CompoundSpec == QueryInit /\ [][CompoundNext]_query
=============================================================================
