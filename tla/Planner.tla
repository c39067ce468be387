------------------------------- MODULE Planner ------------------------------
(***************************************************************************)
(* The planner of SELECT (src/src/optimizer/planner.cpp): the choice of an *)
(* index for each table, and the tree of joins that make_one_rel builds.   *)
(*                                                                         *)
(* A condition compares a column with a value or with a column; a column   *)
(* is <<table, name>>.  An index is the sequence of its columns' names.    *)
(***************************************************************************)
EXTENDS Integers, Sequences, FiniteSets, FiniteSetsExt, SequencesExt

Ops == {"EQ", "NE", "LT", "GT", "LE", "GE"}

swap_op == [op \in Ops |-> CASE op = "LT" -> "GT" [] op = "GT" -> "LT"
                             [] op = "LE" -> "GE" [] op = "GE" -> "LE" [] OTHER -> op]

binop(op, l, r) ==
  CASE op = "EQ" -> l = r [] op = "NE" -> l # r [] op = "LT" -> l < r
    [] op = "GT" -> l > r [] op = "LE" -> l <= r [] OTHER -> l >= r

NoCol == <<"", "">>
Table(col) == col[1]
Name(col) == col[2]

\* The same condition, with its columns exchanged.
Swapped(cond) == [cond EXCEPT !.lhs = cond.rhs, !.rhs = cond.lhs, !.op = swap_op[cond.op]]

-----------------------------------------------------------------------------
(* The choice of an index. *)

OnValue(tab, cond) == cond.is_rhs_val /\ Table(cond.lhs) = tab

\* One round of the loop over the indexes.  An index that lacks the column of a condition
\* is passed over, but its names stay in indexed_colnames, before those of the next one.
try_index(tab, conds, acc, index) ==
  LET names   == acc.indexed_colnames \o index
      valued  == {c \in ToSet(conds) : OnValue(tab, c)}
      exist   == {Name(c.lhs) : c \in valued}
      isequ   == {Name(c.lhs) : c \in {c \in valued : c.op = "EQ"}}
      islg    == {Name(c.lhs) : c \in {c \in valued : c.op # "EQ"}}
      equal   == Max({n \in 0 .. Len(names) : \A k \in 1 .. n : names[k] \in isequ})
      matched == IF equal < Len(names) /\ names[equal + 1] \in islg THEN equal + 1 ELSE equal
  IN  IF acc.stop THEN acc
      ELSE IF ~(exist \subseteq ToSet(index)) THEN [acc EXCEPT !.indexed_colnames = names]
      ELSE IF matched = 0 THEN [acc EXCEPT !.stop = TRUE]
      ELSE IF (\A k \in matched + 1 .. Len(names) : names[k] \notin exist) /\ matched > acc.maxlen
           THEN [acc EXCEPT !.indexed_colnames = <<>>, !.maxlen = matched, !.index_col_names = names]
      ELSE [acc EXCEPT !.indexed_colnames = <<>>]

\* The names of the chosen index; none for a sequential scan.
get_index_cols(tab, conds, indexes) ==
  FoldLeft(LAMBDA acc, index : try_index(tab, conds, acc, index),
           [indexed_colnames |-> <<>>, maxlen |-> 0, index_col_names |-> <<>>, stop |-> FALSE],
           indexes).index_col_names

-----------------------------------------------------------------------------
(* The tree of joins. *)

Scan(tab, conds, indexes) ==
  [kind |-> "scan", tab |-> tab, conds |-> conds, index |-> get_index_cols(tab, conds, indexes)]

Join(left, right, conds) == [kind |-> "join", left |-> left, right |-> right, conds |-> conds]

\* Mistake: a scan gets every condition with its table on the left.
Popped_any(tab, cond) == Table(cond.lhs) = tab

\* The conditions that pop_conds moves to the scan of a table: those on a value of it,
\* and those between two columns of one table, whichever that is.
Popped(tab, cond) == OnValue(tab, cond) \/ (~cond.is_rhs_val /\ Table(cond.lhs) = Table(cond.rhs))

RECURSIVE push_conds(_, _)
\* Mistake: the condition is not put anywhere.
push_conds_lost(cond, plan) == [res |-> 3, plan |-> plan]

\* Which side of the condition the plan has (0, 1 for the left one, 2 for the right one),
\* or 3 and the plan with the condition in the join where both meet.
push_conds(cond, plan) ==
  IF plan.kind = "scan"
  THEN [res  |-> IF plan.tab = Table(cond.lhs) THEN 1 ELSE IF plan.tab = Table(cond.rhs) THEN 2 ELSE 0,
        plan |-> plan]
  ELSE LET l == push_conds(cond, plan.left)
           r == push_conds(cond, plan.right)
       IN  IF l.res = 3 THEN [res |-> 3, plan |-> [plan EXCEPT !.left = l.plan]]
           ELSE IF r.res = 3 THEN [res |-> 3, plan |-> [plan EXCEPT !.right = r.plan]]
           ELSE IF l.res = 0 \/ r.res = 0 THEN [res |-> l.res + r.res, plan |-> plan]
           ELSE [res  |-> 3,
                 plan |-> [plan EXCEPT !.conds = Append(@, IF l.res = 2 THEN Swapped(cond) ELSE cond)]]

\* One condition between two tables: it brings in the tables that are not joined yet, or
\* goes into the tree.
join_cond(scans, acc, cond) ==
  LET l        == Table(cond.lhs)
      r        == Table(cond.rhs)
      newLeft  == l \notin acc.joined
      newRight == r \notin acc.joined
      joined   == acc.joined \cup {l, r}
  IN  IF acc.joined = {} THEN [joined |-> joined, plan |-> Join(scans[l], scans[r], <<cond>>)]
      ELSE IF newLeft /\ newRight
           THEN [joined |-> joined, plan |-> Join(Join(scans[l], scans[r], <<cond>>), acc.plan, <<>>)]
      ELSE IF newRight
           THEN [joined |-> joined, plan |-> Join(scans[r], acc.plan, <<Swapped(cond)>>)]
      ELSE IF newLeft
           THEN [joined |-> joined, plan |-> Join(scans[l], acc.plan, <<cond>>)]
      ELSE [acc EXCEPT !.plan = push_conds(cond, acc.plan).plan]

RECURSIVE pop_all(_, _)
\* For the tables in their order, what pop_conds takes from the conditions.
pop_all(tables, conds) ==
  IF tables = <<>> THEN <<>>
  ELSE LET tab == Head(tables)
       IN  <<SelectSeq(conds, LAMBDA c : Popped(tab, c))>> \o
             pop_all(Tail(tables), SelectSeq(conds, LAMBDA c : ~Popped(tab, c)))

\* The tables are distinct.  indexes: the indexes of each table.
make_one_rel(tables, conds, indexes) ==
  LET popped == pop_all(tables, conds)
      At(tab) == CHOOSE i \in DOMAIN tables : tables[i] = tab
      scans  == [tab \in ToSet(tables) |-> Scan(tab, popped[At(tab)], indexes[tab])]
      rest   == SelectSeq(conds, LAMBDA c : \A tab \in ToSet(tables) : ~Popped(tab, c))
      first  == scans[Head(tables)]
      start  == IF rest = <<>> THEN [joined |-> {Head(tables)}, plan |-> first]
                ELSE FoldLeft(LAMBDA acc, c : join_cond(scans, acc, c),
                              [joined |-> {}, plan |-> first], rest)
      others == SelectSeq(tables, LAMBDA tab : tab \notin start.joined)
  IN  FoldLeft(LAMBDA plan, tab : Join(scans[tab], plan, <<>>), start.plan, others)

-----------------------------------------------------------------------------
(* What a plan consists of. *)

RECURSIVE Nodes(_)
\* The nodes of a plan, as a sequence: a node can occur twice.
Nodes(plan) == IF plan.kind = "scan" THEN <<plan>> ELSE <<plan>> \o Nodes(plan.left) \o Nodes(plan.right)

TablesOf(plan) == {n.tab : n \in {n \in ToSet(Nodes(plan)) : n.kind = "scan"}}
=============================================================================
