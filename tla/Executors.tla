------------------------------ MODULE Executors -----------------------------
(***************************************************************************)
(* The execution of a SELECT: the plan of module Planner becomes a tree of *)
(* executors (src/src/portal.h), and select_from pulls the records out of  *)
(* it one by one.  The tables do not change: a scan has locked its table.  *)
(*                                                                         *)
(* A record is a function from the tables it comes from to the numbers of  *)
(* their rows.  Projection and formatting are left out.                    *)
(***************************************************************************)
EXTENDS Planner, TLC

CONSTANTS MAX_BUFFER_SIZE,
          Cases     \* the queries, each with the rows and indexes of its tables

INT32_MIN == -9     \* below and above all values of the columns
INT32_MAX == 9

VARIABLES query,    \* [tables, conds, orders, limit, rows, indexes]
          plan, exec, output,
          pc        \* "plan", "begin", "run"; "done", "failed", "died", "undefined"

vars == <<query, plan, exec, output, pc>>

ValueOf(record, col) == query.rows[Table(col)][record[Table(col)]][Name(col)]

checkConds(record, conds) ==
  \A i \in DOMAIN conds :
    binop(conds[i].op, ValueOf(record, conds[i].lhs),
          IF conds[i].is_rhs_val THEN conds[i].rhs_val ELSE ValueOf(record, conds[i].rhs))

-----------------------------------------------------------------------------
(* The scans. *)

\* init_key_range, one column: its conditions narrow [min, max]; after a column with
\* one other than = the remaining columns are free.
narrow(col, acc, cond) ==
  IF ~cond.is_rhs_val \/ Name(cond.lhs) # col THEN acc
  ELSE [min  |-> IF cond.op \in {"EQ", "GT", "GE"} /\ cond.rhs_val > acc.min THEN cond.rhs_val ELSE acc.min,
        max  |-> IF cond.op \in {"EQ", "LT", "LE"} /\ cond.rhs_val < acc.max THEN cond.rhs_val ELSE acc.max,
        last |-> acc.last \/ cond.op # "EQ"]

init_key_range(index, conds) ==
  FoldLeft(LAMBDA acc, col :
             LET r == FoldLeft(LAMBDA a, c : IF acc.last THEN a ELSE narrow(col, a, c),
                               [min |-> INT32_MIN, max |-> INT32_MAX, last |-> acc.last], conds)
             IN  [min |-> Append(acc.min, r.min), max |-> Append(acc.max, r.max), last |-> r.last],
           [min |-> <<>>, max |-> <<>>, last |-> FALSE], index)

\* The order of the keys of an index: that of their first difference.
KeyLeq(k, l) ==
  k = l \/ \E i \in DOMAIN k : k[i] < l[i] /\ \A j \in 1 .. i - 1 : k[j] = l[j]

KeyOf(row, index) == [i \in DOMAIN index |-> row[index[i]]]

\* The numbers of the rows that a scan reads: all, or those of the range of the index.
Read(scan) ==
  LET rows  == query.rows[scan.tab]
      range == init_key_range(scan.index, scan.conds)
  IN  IF scan.index = <<>> THEN DOMAIN rows
      ELSE {i \in DOMAIN rows : KeyLeq(range.min, KeyOf(rows[i], scan.index))
                                /\ KeyLeq(KeyOf(rows[i], scan.index), range.max)}

\* The scan of an index can end with IndexEntryNotFoundError when its lower bound is no
\* key, or when its range is empty (module BPlusTree).
MayThrow(scan) ==
  LET range == init_key_range(scan.index, scan.conds)
      keys  == {KeyOf(query.rows[scan.tab][i], scan.index) : i \in DOMAIN query.rows[scan.tab]}
  IN  scan.index # <<>> /\ (range.min \notin keys \/ ~KeyLeq(range.min, range.max))

\* A scan: the records that meet its conditions, and its place; 0 before beginTuple.
ScanExecutor(scan) ==
  [kind    |-> "scan", pos |-> 0,
   records |-> SelectSeq([i \in DOMAIN query.rows[scan.tab] |-> (scan.tab :> i)],
                         LAMBDA rec : rec[scan.tab] \in Read(scan) /\ checkConds(rec, scan.conds))]

-----------------------------------------------------------------------------
(* BlockNestedLoopJoinExecutor.  Any use of the executor Null reads through a null *)
(* pointer. *)

Null == [kind |-> "null"]

RECURSIVE convert_plan_executor(_)
convert_plan_executor(p) ==
  IF p.kind = "scan" THEN ScanExecutor(p)
  ELSE [kind |-> "join", conds |-> p.conds, left_ptr |-> 0, left_buffer |-> <<>>,
        left |-> convert_plan_executor(p.left), right |-> convert_plan_executor(p.right)]

RECURSIVE is_end(_), Next_(_), beginTuple(_), nextTuple(_), load_left_buffer(_), seek(_)

is_end(e) == IF e.kind = "scan" THEN e.pos > Len(e.records) ELSE is_end(e.left) /\ is_end(e.right)

Next_(e) == IF e.kind = "scan" THEN e.records[e.pos] ELSE e.left_buffer[e.left_ptr + 1] @@ Next_(e.right)

\* Mistake: the record that does not fit into the buffer is lost.
load_left_buffer_skips(j) ==
  IF is_end(j.left) THEN j
  ELSE IF Len(j.left_buffer) = MAX_BUFFER_SIZE THEN [j EXCEPT !.left = nextTuple(j.left)]
  ELSE load_left_buffer([j EXCEPT !.left_buffer = Append(@, Next_(j.left)), !.left = nextTuple(j.left)])

\* The left records from here on, as many as fit.
load_left_buffer(j) ==
  IF is_end(j.left) \/ Len(j.left_buffer) = MAX_BUFFER_SIZE THEN j
  ELSE load_left_buffer([j EXCEPT !.left_buffer = Append(@, Next_(j.left)), !.left = nextTuple(j.left)])

\* beginTuple of a join with an empty side returns early, and leaves its other side or
\* its buffer without what is_end or Next then use.
beginTuple(e) ==
  IF e.kind = "scan" THEN [e EXCEPT !.pos = 1]
  ELSE LET l == beginTuple(e.left)
           r == beginTuple(e.right)
       IN  IF "null" \in {l.kind, r.kind} THEN Null
           ELSE IF is_end(l) \/ is_end(r) THEN Null
           ELSE seek([load_left_buffer([e EXCEPT !.left = l, !.right = r, !.left_buffer = <<>>])
                        EXCEPT !.left_ptr = 0])

nextTuple(e) ==
  IF e.kind = "scan" THEN [e EXCEPT !.pos = @ + 1] ELSE seek([e EXCEPT !.left_ptr = @ + 1])

\* The loop of nextTuple: each right record with each buffered left record, then the
\* next buffer with all right records again.
seek(j) ==
  LET right == nextTuple(j.right)
  IN  IF is_end(j) THEN j
      ELSE IF j.left_ptr < Len(j.left_buffer)
           THEN IF checkConds(Next_(j), j.conds) THEN j ELSE seek([j EXCEPT !.left_ptr = @ + 1])
      ELSE IF ~is_end(right) THEN seek([j EXCEPT !.right = right, !.left_ptr = 0])
      ELSE IF is_end(j.left) THEN [j EXCEPT !.right = right]
      ELSE seek([load_left_buffer([j EXCEPT !.right = beginTuple(j.right), !.left_buffer = <<>>])
                   EXCEPT !.left_ptr = 0])

-----------------------------------------------------------------------------
(* SortExecutor. *)

RECURSIVE Drain(_)
Drain(e) == IF is_end(e) THEN <<>> ELSE <<Next_(e)>> \o Drain(nextTuple(e))

\* The first column in which two records differ decides; an order is <<column, is_desc>>.
Before(orders, r, s) ==
  \E i \in DOMAIN orders :
    LET Differ(k) == ValueOf(r, orders[k][1]) # ValueOf(s, orders[k][1])
    IN  /\ Differ(i) /\ \A k \in 1 .. i - 1 : ~Differ(k)
        /\ IF orders[i][2] THEN ValueOf(r, orders[i][1]) > ValueOf(s, orders[i][1])
           ELSE ValueOf(r, orders[i][1]) < ValueOf(s, orders[i][1])

\* std::sort is not stable: records that compare equal come in any order.
Sortings(records) ==
  {s \in SetToSeqs(ToSet(records)) :
     \A i, k \in DOMAIN s : i < k => ~Before(query.orders, s[k], s[i])}

\* Its is_end stops at the limit.  The cast of a negative limit to size_t is larger
\* than any number of records.
SortExecutor(records) ==
  [kind |-> "scan", pos |-> 1,
   records |-> IF query.limit < 0 \/ query.limit >= Len(records) THEN records
               ELSE SubSeq(records, 1, query.limit)]

-----------------------------------------------------------------------------
(* The statement. *)

Init ==
  /\ query \in Cases
  /\ plan = Null /\ exec = Null /\ output = <<>> /\ pc = "plan"

ScansOf(p) == {n \in ToSet(Nodes(p)) : n.kind = "scan"}

\* get_index_meta throws IndexNotFoundError.
NoSuchIndex(p) == \E n \in ScansOf(p) : n.index # <<>> /\ n.index \notin ToSet(query.indexes[n.tab])

\* A scan that is given a condition on a column it does not have looks behind the end of
\* its columns.
Misplaced(p) ==
  \E n \in ScansOf(p) : \E i \in DOMAIN n.conds :
    \/ Table(n.conds[i].lhs) # n.tab
    \/ ~n.conds[i].is_rhs_val /\ Table(n.conds[i].rhs) # n.tab

\* IndexScanExecutor has neither tupleLen nor get_col_offset: joins and sorts that take
\* its records misread them.
Misread(p) ==
  \/ \E n \in ToSet(Nodes(p)) :
       n.kind = "join" /\ \E child \in {n.left, n.right} : child.kind = "scan" /\ child.index # <<>>
  \/ query.orders # <<>> /\ p.kind = "scan" /\ p.index # <<>>

\* Optimizer::plan_query and Portal::start.
Plan ==
  /\ pc = "plan"
  /\ plan' = make_one_rel(query.tables, query.conds, query.indexes)
  /\ pc' = IF NoSuchIndex(plan') THEN "failed"
           ELSE IF Misplaced(plan') \/ Misread(plan') THEN "undefined"
           ELSE "begin"
  /\ UNCHANGED <<query, exec, output>>

Begin ==
  /\ pc = "begin"
  /\ LET e == beginTuple(convert_plan_executor(plan))
     IN  \/ e = Null /\ pc' = "died" /\ UNCHANGED exec
         \/ e # Null /\ query.orders = <<>> /\ exec' = e /\ pc' = "run"
         \/ e # Null /\ query.orders # <<>> /\ pc' = "run"
             /\ \E records \in Sortings(Drain(e)) : exec' = SortExecutor(records)
  /\ UNCHANGED <<query, plan, output>>

Throw ==
  /\ pc = "begin" /\ \E n \in ScansOf(plan) : MayThrow(n)
  /\ pc' = "failed"
  /\ UNCHANGED <<query, plan, exec, output>>

\* The loop of select_from.
Fetch ==
  /\ pc = "run" /\ ~is_end(exec)
  /\ output' = Append(output, Next_(exec))
  /\ exec' = nextTuple(exec)
  /\ UNCHANGED <<query, plan, pc>>

Done ==
  /\ pc = "run" /\ is_end(exec)
  /\ pc' = "done"
  /\ UNCHANGED <<query, plan, exec, output>>

Next == Plan \/ Begin \/ Throw \/ Fetch \/ Done

Spec == Init /\ [][Next]_vars

-----------------------------------------------------------------------------
(* Properties. *)

RECURSIVE Joins(_)
Joins(e) == IF e.kind # "join" THEN {} ELSE {e} \cup Joins(e.left) \cup Joins(e.right)

\* No join writes behind its buffer or reads behind its records.
TypeOK ==
  /\ pc \in {"plan", "begin", "run", "done", "failed", "died", "undefined"}
  /\ \A i \in DOMAIN output : DOMAIN output[i] = ToSet(query.tables)
  /\ \A j \in Joins(exec) : /\ Len(j.left_buffer) <= MAX_BUFFER_SIZE
                            /\ j.left_ptr < Len(j.left_buffer) \/ is_end(j)

Meets(rec, cond) == checkConds(rec, <<cond>>)
Mentions(cond) == {Table(cond.lhs)} \cup (IF cond.is_rhs_val THEN {} ELSE {Table(cond.rhs)})

\* The answer by definition: the records of the product of some tables that meet every
\* condition on them.
Answer(tabs) ==
  {rec \in [tabs -> UNION {DOMAIN query.rows[tab] : tab \in tabs}] :
     /\ \A tab \in tabs : rec[tab] \in DOMAIN query.rows[tab]
     /\ \A i \in DOMAIN query.conds :
          Mentions(query.conds[i]) \subseteq tabs => Meets(rec, query.conds[i])}

Limited(n) == IF query.orders = <<>> \/ query.limit < 0 \/ query.limit > n THEN n ELSE query.limit

SortKey(rec) ==
  [i \in DOMAIN query.orders |->
     IF query.orders[i][2] THEN -ValueOf(rec, query.orders[i][1]) ELSE ValueOf(rec, query.orders[i][1])]

\* A SELECT that is answered is answered exactly: each record of the answer once and no
\* other, however the planner orders the joins, whichever index it takes, and wherever
\* the buffers of the joins end, which none of them overruns.  With ORDER BY the records
\* come in its order, and LIMIT cuts off only what belongs behind them; without, LIMIT is
\* ignored.
AnswerIsExact ==
  LET answer == Answer(ToSet(query.tables))
  IN  /\ TypeOK
      /\ \A i, k \in DOMAIN output : i < k => KeyLeq(SortKey(output[i]), SortKey(output[k]))
      /\ pc = "done" =>
           /\ \A i, k \in DOMAIN output : i # k => output[i] # output[k]
           /\ ToSet(output) \subseteq answer
           /\ Len(output) = Limited(Cardinality(answer))
           /\ \A rec \in answer \ ToSet(output), i \in DOMAIN output :
                KeyLeq(SortKey(output[i]), SortKey(rec))

Same(c, d) == c = d \/ (~c.is_rhs_val /\ Swapped(c) = d)

\* The plan scans every table once, has every condition of the query once, possibly with
\* its sides exchanged, and a join's conditions compare its left side with its right one.
PlanIsComplete ==
  pc # "plan" =>
    LET nodes == Nodes(plan)
        scans == SelectSeq(nodes, LAMBDA n : n.kind = "scan")
        conds == FlattenSeq([i \in DOMAIN nodes |-> nodes[i].conds])
    IN  /\ TablesOf(plan) = ToSet(query.tables) /\ Len(scans) = Len(query.tables)
        /\ \A c \in ToSet(query.conds) \cup ToSet(conds) :
             Cardinality({i \in DOMAIN conds : Same(conds[i], c)}) =
               Cardinality({i \in DOMAIN query.conds : Same(query.conds[i], c)})
        /\ \A n \in ToSet(nodes) : n.kind = "join" =>
             \A i \in DOMAIN n.conds : /\ Table(n.conds[i].lhs) \in TablesOf(n.left)
                                       /\ Table(n.conds[i].rhs) \in TablesOf(n.right)

\* A SELECT is answered unless: it joins tables some of which already have an empty
\* answer between them; a condition compares two columns of a table that is not the
\* first one; or a table with an index and a condition on a value is joined or sorted,
\* or has several indexes, or has no row with the lower bound as its key.
QueriesAreAnswered ==
  /\ pc = "died" => \E tabs \in SUBSET ToSet(query.tables) :
                      tabs \notin {{}, ToSet(query.tables)} /\ Answer(tabs) = {}
  /\ pc = "undefined" =>
       \/ \E i \in DOMAIN query.conds :
            ~query.conds[i].is_rhs_val /\ Mentions(query.conds[i]) \in {{tab} : tab \in ToSet(Tail(query.tables))}
       \/ /\ Len(query.tables) > 1 \/ query.orders # <<>>
          /\ \E tab \in ToSet(query.tables), i \in DOMAIN query.conds :
               query.indexes[tab] # <<>> /\ OnValue(tab, query.conds[i])
  /\ pc = "failed" =>
       \E tab \in ToSet(query.tables) :
         \/ Len(query.indexes[tab]) > 1
         \/ /\ Len(query.indexes[tab]) = 1
            /\ \E i \in DOMAIN query.conds : OnValue(tab, query.conds[i])
            /\ LET index == Head(query.indexes[tab])
                   range == init_key_range(index, query.conds)
               IN  \A i \in DOMAIN query.rows[tab] :
                     KeyOf(query.rows[tab][i], index) = range.min => ~KeyLeq(range.min, range.max)
=============================================================================
