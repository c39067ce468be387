------------------------------ MODULE MCQuery -------------------------------
(***************************************************************************)
(* Queries of up to three conditions on four tables, on one table with     *)
(* every kind of index, and with ORDER BY and LIMIT.  Values are 0 .. 2;   *)
(* the buffer of a join holds two records.                                 *)
(***************************************************************************)
EXTENDS Executors

Col(tab, name) == <<tab, name>>
OnCols(l, op, r) == [lhs |-> l, op |-> op, is_rhs_val |-> FALSE, rhs |-> r, rhs_val |-> 0]
OnVal(l, op, v) == [lhs |-> l, op |-> op, is_rhs_val |-> TRUE, rhs |-> NoCol, rhs_val |-> v]

Row(a, b) == [a |-> a, b |-> b]
NoIndexes(tabs) == [tab \in tabs |-> <<>>]

-----------------------------------------------------------------------------
(* Joins. *)

Joined == <<"x", "y", "z", "w">>

JoinConds == {OnCols(Col("x", "a"), "EQ", Col("y", "a")), OnCols(Col("z", "a"), "GT", Col("x", "b")),
              OnCols(Col("y", "b"), "LE", Col("z", "b")), OnCols(Col("z", "b"), "NE", Col("w", "a")),
              OnCols(Col("x", "a"), "LT", Col("x", "b")), OnCols(Col("y", "a"), "EQ", Col("y", "b")),
              OnVal(Col("y", "a"), "GE", 1)}

JoinRows ==
  {[tab \in ToSet(Joined) |-> CASE tab = "x" -> xs [] tab = "y" -> ys [] tab = "z" -> zs [] OTHER -> <<Row(1, 1)>>] :
     xs \in {<<Row(0, 1), Row(1, 0), Row(1, 2)>>},
     ys \in {<<>>, <<Row(1, 1)>>, <<Row(0, 0), Row(1, 1), Row(1, 2)>>},
     zs \in {<<Row(2, 2)>>, <<Row(2, 1), Row(1, 2)>>}}

JoinCases ==
  {[tables |-> Joined, conds |-> conds, orders |-> <<>>, limit |-> -1, rows |-> rows,
    indexes |-> NoIndexes(ToSet(Joined))] : conds \in BoundedSeq(JoinConds, 3), rows \in JoinRows}

-----------------------------------------------------------------------------
(* Scans of one table. *)

ScanConds == {OnVal(Col("x", "a"), "EQ", 1), OnVal(Col("x", "a"), "GT", 0), OnVal(Col("x", "a"), "LE", 1),
              OnVal(Col("x", "b"), "EQ", 1), OnVal(Col("x", "b"), "NE", 0), OnVal(Col("x", "b"), "LT", 2),
              OnCols(Col("x", "a"), "LE", Col("x", "b"))}

\* Rows with the indexes for which their keys are distinct.
Indexed ==
  ({<<Row(0, 1), Row(1, 2), Row(2, 0)>>} \X
   {<<>>, <<<<"a">>>>, <<<<"b">>>>, <<<<"a", "b">>>>, <<<<"b">>, <<"a", "b">>>>, <<<<"a">>, <<"b">>>>,
    <<<<"a", "b">>, <<"b", "a">>>>})
  \cup ({<<Row(0, 1), Row(1, 0), Row(1, 1), Row(1, 2), Row(2, 1)>>} \X {<<<<"a", "b">>>>, <<<<"b", "a">>>>})

ScanCases ==
  {[tables |-> <<"x">>, conds |-> conds, orders |-> <<>>, limit |-> -1, rows |-> [tab \in {"x"} |-> db[1]],
    indexes |-> [tab \in {"x"} |-> db[2]]] : conds \in BoundedSeq(ScanConds, 3), db \in Indexed}

-----------------------------------------------------------------------------
(* ORDER BY and LIMIT, alone and together, on one table and on a join. *)

Orders == {<<>>, <<<<Col("x", "a"), FALSE>>>>, <<<<Col("x", "b"), TRUE>>>>,
           <<<<Col("x", "b"), TRUE>>, <<Col("x", "a"), FALSE>>>>}

SortCases ==
  {[tables |-> tables, conds |-> conds, orders |-> orders, limit |-> limit, indexes |-> indexes,
    rows |-> [tab \in {"x", "y"} |-> IF tab = "x" THEN <<Row(0, 1), Row(1, 1), Row(2, 0), Row(1, 2)>>
                                     ELSE <<Row(1, 0)>>]] :
     tables \in {<<"x">>, <<"x", "y">>},
     conds \in {<<>>, <<OnVal(Col("x", "a"), "GE", 1)>>},
     orders \in Orders, limit \in {-2, -1, 0, 2, 5},
     indexes \in {NoIndexes({"x", "y"}), ("x" :> <<<<"a", "b">>>>) @@ ("y" :> <<<<"a">>>>)}}

MCCases == JoinCases \cup ScanCases \cup SortCases
=============================================================================
