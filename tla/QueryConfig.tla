----------------------------- MODULE QueryConfig -----------------------------
(***************************************************************************)
(* What the configuration files say of tables and queries, and what is     *)
(* made of them: read_columns and read_table of database/db_manager.c,     *)
(* generate_app_queries and the searches of                                *)
(* database/db_query_xml_config.c.                                         *)
(*                                                                         *)
(* An XML document is a sequence of its elements.  A column is known in    *)
(* the program by its structure and in SQL by its name, a pair of the      *)
(* names of table and column; a query keeps a list of the one and a string *)
(* of the other, which have to fit each other.                             *)
(***************************************************************************)
EXTENDS Integers, Sequences, SequencesExt

CONSTANTS
  TableElems,  \* the elements table: sequences of [id, columns]
  NULL

ASSUME NullAssumption == NULL \notin STRING

\* Every table and column has an id; a column without one ends the reading.
ASSUME TableElemsAssumption ==
  /\ DOMAIN TableElems = 1 .. Len(TableElems) /\ Len(TableElems) \in Nat
  /\ \A i \in DOMAIN TableElems :
       /\ TableElems[i].id \in STRING
       /\ LET columns == TableElems[i].columns
          IN /\ DOMAIN columns = 1 .. Len(columns) /\ Len(columns) \in Nat
             /\ \A j \in DOMAIN columns : columns[j].id \in STRING

\* A loop of the code: a step for each element, in their order.
ForEach(Step(_, _), start, seq) ==
  LET after[k \in 0 .. Len(seq)] == IF k = 0 THEN start ELSE Step(after[k - 1], seq[k])
  IN after[Len(seq)]

\* The first element of a sequence with the id, or NULL.
FindById(seq, id) ==
  LET places == {i \in DOMAIN seq : seq[i].id = id}
  IN IF places = {} THEN NULL ELSE seq[Min(places)]

-----------------------------------------------------------------------------
(* read_table, read_columns *)

\* The last column with an attribute fk is the key by which the table is joined.
ForeignKey(elem) ==
  LET keys == {j \in DOMAIN elem.columns : elem.columns[j].fk # NULL}
      key == elem.columns[Max(keys)]
  IN IF keys = {} THEN NULL ELSE [to |-> key.fk, from |-> <<elem.id, key.id>>]

read_table(elem) ==
  [id |-> elem.id, foreign_key |-> ForeignKey(elem),
   columns |-> [j \in DOMAIN elem.columns |->
     [table |-> elem.id, id |-> elem.columns[j].id, fname |-> elem.columns[j].fname,
      type |-> elem.columns[j].type]]]

Tables == [i \in DOMAIN TableElems |-> read_table(TableElems[i])]

-----------------------------------------------------------------------------
(* generate_app_queries *)

\* A document is a sequence of the elements of queries.  Every query has an id; it is
\* searched for by comparing with that of every query.
Attribute == STRING \cup {NULL}
ChildElem ==
  [kind : {"table"}, id : Attribute, columns : Seq(Attribute)]
  \cup [kind : {"group_by"}, columns : Seq(STRING \X STRING)]
  \cup [kind : {"count"}, tables : Seq(Attribute)]
  \cup [kind : {"custom_parameters"}]
QueryElem == [id : STRING, children : Seq(ChildElem)]

\* The state of the reading of a query: the query, the id of the last element table,
\* and what is returned; once that is not 0 nothing more is read.
Returns(s, status) == [s EXCEPT !.status = status]

\* A column is added to the list and to the string.
Selects(s, column, name) ==
  [s EXCEPT !.query.select_columns = Append(@, column),
            !.query.select_columns_string = Append(@, name)]

ReadColumn(s, table, id) ==
  LET column == FindById(table.columns, id) IN
  CASE s.status # 0 -> s
    [] s.status = 0 /\ id = NULL -> Returns(s, -2)
    [] s.status = 0 /\ id # NULL /\ column = NULL -> Returns(s, -3)
    [] OTHER -> Selects(s, column, <<table.id, id>>)

ReadColumns(s, table, ids) == ForEach(LAMBDA t, id : ReadColumn(t, table, id), s, ids)

\* The result of get_xml_attr is not kept: an element without an id is taken for
\* the table of the element before.  (The first one has to have an id: searching for
\* NULL is not modelled.)
TableOf(s, id) == IF id = NULL THEN s.table_id ELSE id

\* A count has a structure of its own, with a name for people and nothing else, and
\* in SQL the name of a table without a column.
CountColumn(id) == [table |-> NULL, id |-> NULL, fname |-> <<id, "Count">>, type |-> NULL]
CountName(id) == <<id, NULL>>

ReadCount(s, table_id) ==
  LET id == TableOf(s, table_id)
      read == [s EXCEPT !.table_id = id]
  IN CASE s.status # 0 -> s
       [] s.status = 0 /\ FindById(Tables, id) = NULL -> Returns(read, -1)
       [] OTHER -> Selects(read, CountColumn(id), CountName(id))

ReadCounts(s, table_ids) == ForEach(ReadCount, s, table_ids)

\* A table is joined, then its columns are read.
ReadTable(s, elem) ==
  LET id == TableOf(s, elem.id)
      read == [s EXCEPT !.table_id = id]
      table == FindById(Tables, id)
  IN IF table = NULL THEN Returns(read, -1)
     ELSE ReadColumns([read EXCEPT !.query.tables = Append(@, id)], table, elem.columns)

\* Nothing that is modelled is made of other elements.
ReadChild(s, elem) ==
  CASE s.status # 0 -> s
    [] s.status = 0 /\ elem.kind = "table" -> ReadTable(s, elem)
    [] s.status = 0 /\ elem.kind = "group_by" -> [s EXCEPT !.query.group_by = elem.columns]
    [] s.status = 0 /\ elem.kind = "count" -> ReadCounts(s, elem.tables)
    [] OTHER -> s

ReadChildren(s, elems) == ForEach(ReadChild, s, elems)

NewQuery(id) == [id |-> id, tables |-> << >>, select_columns |-> << >>,
                 select_columns_string |-> << >>, group_by |-> << >>]

\* The query is in the list before anything of it is read, and stays there however
\* its reading ends.
ReadQuery(s, elem) ==
  LET start == [query |-> NewQuery(elem.id), table_id |-> s.table_id, status |-> 0]
      read == ReadChildren(start, elem.children)
  IN IF s.status # 0 THEN s
     ELSE [queries |-> Append(s.queries, read.query), table_id |-> read.table_id,
           status |-> read.status]

\* What is read at first.
NoQueries == [queries |-> << >>, table_id |-> NULL, status |-> 0]

generate_app_queries(document) == ForEach(ReadQuery, NoQueries, document)

-----------------------------------------------------------------------------
(* The searches *)

find_query_by_id(queries, id) == FindById(queries, id)

\* All columns of all tables of the query are searched, selected or not.
ColumnsOf(tables) == FlattenSeq([i \in DOMAIN tables |-> FindById(Tables, tables[i]).columns])
find_column_from_query_by_friendly_name(query, fname) ==
  LET columns == ColumnsOf(query.tables)
      places == {i \in DOMAIN columns : columns[i].fname = fname}
  IN IF places = {} THEN NULL ELSE columns[Min(places)]

find_select_column_from_query_by_table_id_and_query_id(query, table_id, column_id) ==
  LET columns == query.select_columns
      places == {i \in DOMAIN columns : columns[i].id = column_id /\ columns[i].table = table_id}
  IN IF places = {} THEN NULL ELSE columns[Min(places)]

=============================================================================
